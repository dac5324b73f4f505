------------------------- MODULE EmulatedDiskProofs -------------------------
(***************************************************************************)
(* That the emulated disk keeps its promises for every geometry, any files *)
(* and any number of steps: FilesInv is inductive, and HostKept, FilesRead *)
(* and OthersKept follow from it.                                          *)
(*                                                                         *)
(* The theorems are about hosts with files of CP/M, no file of user 0 with *)
(* the name of one of another user (HostOK, UsersApart), and programs that *)
(* do not erase a file while a sector of it is buffered; with these,       *)
(* rcpmfs loses and mixes up nothing.                                      *)
(*                                                                         *)
(* Induction over data, which the loops of rcpmfs need, is induction over  *)
(* the set of the numbers for which a statement holds (Induct).            *)
(***************************************************************************)
EXTENDS EmulatedFiles, FiniteSetTheorems, WellFoundedInduction, TLAPS

(* Numbers, and where a record is on the disk.                             *)

(* The elements of a sequence of numbers are numbers.                      *)
LEMMA SeqElements ==
  ASSUME NEW s \in Seq(Int)
  PROVE  \A j \in 1 .. Len(s) : s[j] \in Int
OBVIOUS

(* A set of numbers that is not empty has a least one.                     *)
LEMMA SetMin ==
  ASSUME NEW T \in SUBSET Nat, T # {}
  PROVE  \E x \in T : \A y \in T : x <= y
<1> DEFINE R == {ss \in Nat \X Nat : ss[1] < ss[2]}
<1>1. IsWellFoundedOn(R, Nat)
  BY NatLessThanWellFounded DEF OpToRel
<1>2. \E x \in T : \A y \in T : ~ (<<y, x>> \in R)
  <2> HIDE DEF R
  <2> QED BY <1>1, WFMin
<1>3. \A x, y \in Nat : <<y, x>> \in R <=> y < x
  OBVIOUS
<1> HIDE DEF R
<1>4. PICK x \in T : \A y \in T : ~ (<<y, x>> \in R)
  BY <1>2
<1>5. ASSUME NEW y \in T PROVE x <= y
  <2>1. x \in Nat /\ y \in Nat
    OBVIOUS
  <2>2. ~ (<<y, x>> \in R)
    BY <1>4
  <2>3. ~ (y < x)
    BY <1>3, <2>1, <2>2
  <2> QED BY <2>1, <2>3
<1> QED BY <1>5

(* Induction, as a statement about sets.                                   *)
LEMMA Induct ==
  ASSUME NEW S, 0 \in S, \A n \in Nat : n \in S => n + 1 \in S
  PROVE  \A n \in Nat : n \in S
<1> SUFFICES ASSUME Nat \ S # {} PROVE FALSE
  OBVIOUS
<1>1. PICK x \in Nat \ S : \A y \in Nat \ S : x <= y
  BY SetMin
<1>2. x - 1 \in Nat /\ x - 1 \in S
  BY <1>1
<1> QED BY <1>1, <1>2

(* The least of a set of numbers.                                          *)
LEMMA MinIs ==
  ASSUME NEW T \in SUBSET Nat, T # {}
  PROVE  Min(T) \in T /\ \A y \in T : Min(T) <= y
<1>1. \E x \in T : \A y \in T : x <= y
  BY SetMin
<1>2. \E x \in T : \A y \in T : x =< y
  BY <1>1
<1> QED BY <1>2 DEF Min

(* The sizes of the geometry and how they belong together.                 *)
LEMMA Sizes ==
  /\ RecPerSec \in Nat \ {0} /\ SecPerBlock \in Nat \ {0}
  /\ BlocksPerExtent \in Nat \ {0} /\ Entries \in Nat \ {0}
  /\ DirBlocks \in Nat \ {0} /\ TotalBlocks \in Nat
  /\ RecordsPerRC \in Nat \ {0} /\ ExtentSize = 2 * RecordsPerRC
  /\ RecPerBlock \in Nat \ {0} /\ RecPerBlock = RecPerSec * SecPerBlock
  /\ ExtentSize = BlocksPerExtent * RecPerBlock
  /\ ExtentSize \in Nat \ {0}
<1>1. RecPerSec * SecPerBlock \in Nat \ {0}
  BY GeometryAssumption
<1>2. BlocksPerExtent * SecPerBlock * RecPerSec = BlocksPerExtent * (RecPerSec * SecPerBlock)
  BY GeometryAssumption
<1> QED
  BY <1>1, <1>2, GeometryAssumption DEF ExtentSize, RecPerBlock

(* The sizes without the products.                                         *)
LEMMA Counts ==
  /\ RecPerSec \in Nat \ {0} /\ SecPerBlock \in Nat \ {0}
  /\ BlocksPerExtent \in Nat \ {0} /\ Entries \in Nat \ {0}
  /\ DirBlocks \in Nat \ {0} /\ TotalBlocks \in Nat
  /\ RecordsPerRC \in Nat \ {0} /\ RecPerBlock \in Nat \ {0}
  /\ ExtentSize \in Nat \ {0}
BY Sizes

(* A number is made of its quotient and its rest ...                       *)
LEMMA Parts ==
  ASSUME NEW b \in Nat \ {0}, NEW n \in Nat
  PROVE  /\ n \div b \in Nat /\ n % b \in 0 .. b - 1
         /\ n = b * (n \div b) + (n % b)
OBVIOUS

(* ... and they are the only ones.                                         *)
LEMMA OnlyParts ==
  ASSUME NEW b \in Nat \ {0}, NEW q \in Nat, NEW r \in 0 .. b - 1
  PROVE  (b * q + r) \div b = q /\ (b * q + r) % b = r
<1> DEFINE n == b * q + r
           p == n \div b
           s == n % b
<1>1. n \in Nat /\ b * q \in Nat
  OBVIOUS
<1>2. p \in Nat /\ s \in 0 .. b - 1 /\ n = b * p + s
  BY <1>1, Parts
<1> HIDE DEF p, s
<1>3. b * (p - q) = r - s
  <2>1. b * p + s = b * q + r
    BY <1>2
  <2> QED BY <1>2, <2>1
<1>4. CASE p - q >= 1
  <2>1. b * (p - q) >= b
    BY <1>2, <1>4
  <2> QED BY <1>2, <1>3, <2>1
<1>5. CASE p - q <= -1
  <2>1. b * (p - q) <= -b
    BY <1>2, <1>5
  <2> QED BY <1>2, <1>3, <2>1
<1>6. p = q
  BY <1>2, <1>4, <1>5
<1>7. s = r
  BY <1>2, <1>3, <1>6
<1> QED
  BY <1>6, <1>7 DEF p, s, n

(* Whole multiples keep the order.                                         *)
LEMMA Multiples ==
  ASSUME NEW b \in Nat \ {0}, NEW q \in Nat, NEW r \in 0 .. b - 1,
         NEW p \in Nat, NEW t \in Nat
  PROVE  /\ b * q + r \in Nat
         /\ q < p => b * q + b <= b * p
         /\ q < t /\ t <= p => b * q + r < b * p
<1>1. ASSUME NEW x \in Nat, q < x PROVE b * q + b <= b * x
  <2>1. PICK z \in Nat : x = q + 1 + z
    <3>1. x - q - 1 \in Nat /\ x = q + 1 + (x - q - 1)
      BY <1>1
    <3> QED BY <3>1
  <2>2. b * x = b * q + b + b * z
    BY <2>1
  <2>3. b * z \in Nat /\ b * q \in Nat
    OBVIOUS
  <2> QED BY <2>2, <2>3
<1>2. b * q \in Nat /\ b * p \in Nat
  OBVIOUS
<1> QED BY <1>1, <1>2

(* Where record j of sector u of block i of an entry is.                   *)
Spot(i, u, j) == RecPerSec * (SecPerBlock * (i - 1) + u) + (j - 1)

(* Where record j of sector u of block i is in the entry.                  *)
LEMMA SpotIs ==
  ASSUME NEW i \in 1 .. BlocksPerExtent, NEW u \in 0 .. SecPerBlock - 1,
         NEW j \in 1 .. RecPerSec
  PROVE  /\ Spot(i, u, j) \in 0 .. ExtentSize - 1
         /\ Spot(i, u, j) \div RecPerBlock = i - 1
         /\ (Spot(i, u, j) % RecPerBlock) \div RecPerSec = u
         /\ Spot(i, u, j) % RecPerSec = j - 1
         /\ (i - 1) * RecPerBlock <= Spot(i, u, j)
<1> USE Sizes
<1> DEFINE r == RecPerSec * u + (j - 1)
           m == SecPerBlock * (i - 1) + u
<1>1. r \in 0 .. RecPerBlock - 1
  <2>1. RecPerSec * u + RecPerSec <= RecPerSec * SecPerBlock
    BY Multiples
  <2>2. RecPerSec * u \in Nat
    OBVIOUS
  <2> QED BY <2>1, <2>2
<1>2. Spot(i, u, j) = RecPerBlock * (i - 1) + r
  <2>1. RecPerSec * (SecPerBlock * (i - 1) + u) = RecPerSec * (SecPerBlock * (i - 1)) + RecPerSec * u
    OBVIOUS
  <2>2. RecPerSec * (SecPerBlock * (i - 1)) = (RecPerSec * SecPerBlock) * (i - 1)
    OBVIOUS
  <2> QED BY <2>1, <2>2 DEF Spot
<1>3. m \in Nat /\ i - 1 \in Nat
  BY Multiples
<1>4. Spot(i, u, j) \div RecPerBlock = i - 1 /\ Spot(i, u, j) % RecPerBlock = r
  <2> DEFINE q == i - 1
  <2>1. q \in Nat
    BY <1>3
  <2> HIDE DEF r, q
  <2>2. (RecPerBlock * q + r) \div RecPerBlock = q /\ (RecPerBlock * q + r) % RecPerBlock = r
    BY <1>1, <2>1, OnlyParts
  <2> QED BY <1>2, <2>2 DEF q
<1>5. r \div RecPerSec = u
  BY OnlyParts
<1>6. Spot(i, u, j) % RecPerSec = j - 1
  <2> DEFINE t == j - 1
  <2>1. Spot(i, u, j) = RecPerSec * m + t /\ t \in 0 .. RecPerSec - 1
    BY DEF Spot
  <2> HIDE DEF m, t
  <2>2. (RecPerSec * m + t) % RecPerSec = t
    BY <1>3, <2>1, OnlyParts
  <2> QED BY <2>1, <2>2 DEF t
<1>7. RecPerBlock * (i - 1) + RecPerBlock <= RecPerBlock * BlocksPerExtent
  BY <1>3, Multiples
<1>8. RecPerBlock * (i - 1) \in Nat /\ (i - 1) * RecPerBlock = RecPerBlock * (i - 1)
  BY <1>3
<1>9. RecPerBlock * BlocksPerExtent = ExtentSize
  OBVIOUS
<1> HIDE DEF r
<1> QED BY <1>1, <1>2, <1>4, <1>5, <1>6, <1>7, <1>8, <1>9

(* Every record of an entry has a block, a sector and a place in it.       *)
LEMMA SpotOf ==
  ASSUME NEW k \in 0 .. ExtentSize - 1
  PROVE  \E i \in 1 .. BlocksPerExtent : \E u \in 0 .. SecPerBlock - 1 :
           \E j \in 1 .. RecPerSec : k = Spot(i, u, j)
<1> USE Sizes
<1> DEFINE n == k \div RecPerSec
           j == k % RecPerSec
           i == n \div SecPerBlock
           u == n % SecPerBlock
<1>1. n \in Nat /\ j \in 0 .. RecPerSec - 1 /\ k = RecPerSec * n + j
  <2>1. k \in Nat
    OBVIOUS
  <2> QED BY <2>1, Parts
<1>2. i \in Nat /\ u \in 0 .. SecPerBlock - 1 /\ n = SecPerBlock * i + u
  <2> HIDE DEF n
  <2> QED BY <1>1, Parts
<1> HIDE DEF n, j, i, u
<1>3. k = RecPerSec * (SecPerBlock * i + u) + j
  BY <1>1, <1>2
<1>4. i < BlocksPerExtent
  <2> SUFFICES ASSUME BlocksPerExtent <= i PROVE FALSE
    BY <1>2
  <2>1. PICK z \in Nat : i = BlocksPerExtent + z
    <3>1. i - BlocksPerExtent \in Nat /\ i = BlocksPerExtent + (i - BlocksPerExtent)
      BY <1>2
    <3> QED BY <3>1
  <2>2. RecPerSec * (SecPerBlock * i + u) = RecPerBlock * i + RecPerSec * u
    <3>1. RecPerSec * (SecPerBlock * i + u) = (RecPerSec * SecPerBlock) * i + RecPerSec * u
      BY <1>2
    <3> QED BY <3>1
  <2>3. RecPerBlock * i = RecPerBlock * BlocksPerExtent + RecPerBlock * z
    BY <2>1
  <2>4. RecPerBlock * z \in Nat /\ RecPerSec * u \in Nat
    BY <1>2
  <2>5. RecPerBlock * BlocksPerExtent = ExtentSize
    OBVIOUS
  <2> QED BY <1>1, <1>3, <2>2, <2>3, <2>4, <2>5
<1>5. i + 1 \in 1 .. BlocksPerExtent /\ j + 1 \in 1 .. RecPerSec
  BY <1>1, <1>2, <1>4
<1>6. k = Spot(i + 1, u, j + 1)
  <2>1. (i + 1) - 1 = i /\ (j + 1) - 1 = j
    BY <1>1, <1>2
  <2> QED BY <1>3, <2>1 DEF Spot
<1> QED BY <1>2, <1>5, <1>6

(* The number of a sector, from its block and its place there ...          *)
LEMMA SectorNumber ==
  ASSUME NEW b \in Nat, NEW u \in 0 .. SecPerBlock - 1
  PROVE  /\ b * SecPerBlock + u \in Nat
         /\ (b * SecPerBlock + u) \div SecPerBlock = b
         /\ (b * SecPerBlock + u) % SecPerBlock = u
<1>1. b * SecPerBlock = SecPerBlock * b /\ SecPerBlock * b \in Nat
  BY Sizes
<1> QED BY <1>1, Sizes, OnlyParts

(* ... and back.                                                           *)
LEMMA SectorParts ==
  ASSUME NEW s \in Nat
  PROVE  /\ s \div SecPerBlock \in Nat /\ s % SecPerBlock \in 0 .. SecPerBlock - 1
         /\ s = (s \div SecPerBlock) * SecPerBlock + (s % SecPerBlock)
<1>1. s = SecPerBlock * (s \div SecPerBlock) + (s % SecPerBlock)
      /\ s \div SecPerBlock \in Nat /\ s % SecPerBlock \in 0 .. SecPerBlock - 1
  BY Sizes, Parts
<1> DEFINE q == s \div SecPerBlock
<1>2. SecPerBlock * q = q * SecPerBlock
  <2>1. q \in Nat
    BY <1>1
  <2> HIDE DEF q
  <2> QED BY <2>1, Sizes
<1> QED BY <1>1, <1>2

(* The entries of a directory.                                             *)
LEMMA EntryIs ==
  ASSUME NEW entry \in DiskEntry
  PROVE  /\ ExtentRecords(entry) \in 0 .. ExtentSize
         /\ entry.ext \in Nat /\ entry.ext * ExtentSize \in Nat
         /\ entry.name \in Names \cup {Free}
         /\ entry.blocks \in BlockList
         /\ \A i \in 1 .. BlocksPerExtent :
              /\ entry.blocks[i] \in Nat
              /\ entry.blocks[i] # 0 => entry.blocks[i] \in DataBlocks
<1> USE Sizes
<1>1. entry.ext \in Nat /\ entry.rc \in 0 .. RecordsPerRC /\ entry.ex \in {0, 1}
      /\ entry.name \in Names \cup {Free} /\ entry.blocks \in BlockList
  BY DEF DiskEntry
<1>2. ExtentRecords(entry) \in 0 .. ExtentSize
  <2>1. CASE entry.ex = 0
    BY <1>1, <2>1 DEF ExtentRecords
  <2>2. CASE entry.ex = 1
    BY <1>1, <2>2 DEF ExtentRecords
  <2> QED BY <1>1, <2>1, <2>2
<1>3. \A i \in 1 .. BlocksPerExtent : entry.blocks[i] \in DataBlocks \cup {0}
  BY <1>1 DEF BlockList
<1>4. DataBlocks \subseteq Nat
  BY DEF DataBlocks
<1>5. entry.ext * ExtentSize \in Nat
  <2> HIDE Sizes
  <2>1. ExtentSize \in Nat
    BY Sizes
  <2> QED BY <1>1, <2>1
<1>6. \A i \in 1 .. BlocksPerExtent :
        entry.blocks[i] \in Nat /\ (entry.blocks[i] # 0 => entry.blocks[i] \in DataBlocks)
  <2> HIDE Sizes
  <2> TAKE i \in 1 .. BlocksPerExtent
  <2>1. entry.blocks[i] \in DataBlocks \cup {0}
    BY <1>3
  <2>2. CASE entry.blocks[i] \in DataBlocks
    BY <1>4, <2>2
  <2>3. CASE entry.blocks[i] = 0
    BY <2>3
  <2> QED BY <2>1, <2>2, <2>3
<1> HIDE Sizes
<1> QED BY <1>1, <1>2, <1>5, <1>6

(* The sector of a record is in the block the entry has for it.            *)
LEMMA SectorOfSpot ==
  ASSUME NEW entry \in DiskEntry,
         NEW i \in 1 .. BlocksPerExtent, NEW u \in 0 .. SecPerBlock - 1,
         NEW j \in 1 .. RecPerSec
  PROVE  /\ SectorOf(entry, Spot(i, u, j)) = entry.blocks[i] * SecPerBlock + u
         /\ SectorOf(entry, Spot(i, u, j)) \in Nat
         /\ SectorOf(entry, Spot(i, u, j)) \div SecPerBlock = entry.blocks[i]
         /\ SectorOf(entry, Spot(i, u, j)) % SecPerBlock = u
<1>1. (Spot(i, u, j) \div RecPerBlock) + 1 = i
      /\ (Spot(i, u, j) % RecPerBlock) \div RecPerSec = u
  BY SpotIs
<1>2. SectorOf(entry, Spot(i, u, j)) = entry.blocks[i] * SecPerBlock + u
  BY <1>1 DEF SectorOf
<1>3. entry.blocks[i] \in Nat
  BY EntryIs
<1> DEFINE b == entry.blocks[i]
<1> HIDE DEF b
<1>4. b \in Nat
  BY <1>3 DEF b
<1>5. b * SecPerBlock + u \in Nat /\ (b * SecPerBlock + u) \div SecPerBlock = b
      /\ (b * SecPerBlock + u) % SecPerBlock = u
  BY <1>4, SectorNumber
<1> QED BY <1>2, <1>5 DEF b

(* Where rcpmfs_psfind2 finds a sector of block i of entry e ...           *)
LEMMA FindOwned ==
  ASSUME NEW d, d.dir \in [EntryNumbers -> DiskEntry], NoBlockTwice(d.dir),
         NEW e \in Used(d.dir), NEW i \in 1 .. BlocksPerExtent,
         NEW s \in Nat, d.dir[e].blocks[i] = s \div SecPerBlock, d.dir[e].blocks[i] # 0
  PROVE  PsFind2(d, s) =
           [file |-> d.map[e],
            at |-> d.dir[e].ext * ExtentSize + Spot(i, s % SecPerBlock, 1),
            size |-> AtMost(AtLeast(ExtentRecords(d.dir[e]) - Spot(i, s % SecPerBlock, 1), 0),
                            RecPerSec)]
<1> DEFINE block == s \div SecPerBlock
           u == s % SecPerBlock
<1>1. e \in EntryNumbers /\ InUse(d.dir[e])
  BY DEF Used
<1>2. \A x \in EntryNumbers : DOMAIN d.dir[x].blocks = 1 .. BlocksPerExtent
  <2>1. \A x \in EntryNumbers : d.dir[x].blocks \in BlockList
    BY EntryIs
  <2> QED BY <2>1 DEF BlockList
<1>3. Owners(d.dir, block) = {e}
  <2>1. e \in Owners(d.dir, block)
    BY <1>1, <1>2 DEF Owners
  <2>2. ASSUME NEW x \in Owners(d.dir, block) PROVE x = e
    <3>1. x \in Used(d.dir) /\ \E j \in 1 .. BlocksPerExtent : d.dir[x].blocks[j] = block
      BY <1>2 DEF Owners, Used
    <3> QED BY <3>1 DEF NoBlockTwice
  <2> QED BY <2>1, <2>2
<1>4. Min({e}) = e
  BY <1>1 DEF Min, EntryNumbers
<1>5. i = CHOOSE x \in 1 .. BlocksPerExtent :
            /\ d.dir[e].blocks[x] = block
            /\ \A j \in 1 .. x - 1 : d.dir[e].blocks[j] # block
  <2>1. \A x \in 1 .. BlocksPerExtent : d.dir[e].blocks[x] = block => x = i
    BY DEF NoBlockTwice
  <2>2. \A j \in 1 .. i - 1 : d.dir[e].blocks[j] # block
    <3> TAKE j \in 1 .. i - 1
    <3>1. j \in 1 .. BlocksPerExtent /\ j # i
      BY Sizes
    <3> QED BY <2>1, <3>1
  <2> QED BY <2>1, <2>2
<1>6. ((i - 1) * SecPerBlock + u) * RecPerSec = Spot(i, u, 1)
  <2>1. u \in Nat
    BY Sizes, SectorParts
  <2> HIDE DEF u
  <2>2. ((i - 1) * SecPerBlock + u) * RecPerSec = RecPerSec * (SecPerBlock * (i - 1) + u)
    BY <2>1, Sizes
  <2>3. RecPerSec * (SecPerBlock * (i - 1) + u) \in Int
    BY <2>1, Sizes
  <2> QED BY <2>2, <2>3 DEF Spot
<1> HIDE DEF u
<1> QED BY <1>3, <1>4, <1>5, <1>6 DEF PsFind2, u

(* ... and that it finds no other.                                         *)
LEMMA FindNone ==
  ASSUME NEW d, NEW s, Owners(d.dir, s \div SecPerBlock) = {}
  PROVE  PsFind2(d, s) = [file |-> NoFile, at |-> 0, size |-> 0]
BY DEF PsFind2

(* A block that has an owner is in an entry in use.                        *)
LEMMA OwnerIs ==
  ASSUME NEW dir \in [EntryNumbers -> DiskEntry], NEW b, Owners(dir, b) # {}
  PROVE  \E e \in Used(dir) : \E i \in 1 .. BlocksPerExtent : dir[e].blocks[i] = b
<1>1. \A x \in EntryNumbers : DOMAIN dir[x].blocks = 1 .. BlocksPerExtent
  <2>1. \A x \in EntryNumbers : dir[x].blocks \in BlockList
    BY EntryIs
  <2> QED BY <2>1 DEF BlockList
<1> QED BY <1>1 DEF Owners, Used
(* What rcpmfs_writefile makes of a file that is there.                    *)
Overwritten(r, host, file, at, recs) ==
  /\ HostOK(r) /\ DOMAIN r = DOMAIN host
  /\ \A n \in DOMAIN host \ {file} : r[n] = host[n]
  /\ Len(r[file]) = IF recs = <<>> THEN Len(host[file])
                    ELSE AtLeast(at + Len(recs), Len(host[file]))
  /\ \A p \in 1 .. Len(r[file]) :
       r[file][p] = IF at < p /\ p <= at + Len(recs) THEN recs[p - at]
                    ELSE IF p <= Len(host[file]) THEN host[file][p] ELSE E5

(* rcpmfs_writefile on a file that is there.                               *)
LEMMA WriteFileIs ==
  ASSUME NEW host, HostOK(host), NEW file \in DOMAIN host, NEW at \in Nat,
         NEW recs \in Seq(Int)
  PROVE  Overwritten(WriteFile(host, file, at, recs), host, file, at, recs)
<1> DEFINE r == WriteFile(host, file, at, recs)
<1> USE Sizes
<1> DEFINE size == Len(recs)
           old == host[file]
           len == IF recs = <<>> THEN Len(old) ELSE AtLeast(at + size, Len(old))
           new == [i \in 1 .. len |-> IF i > at /\ i <= at + size THEN recs[i - at]
                                      ELSE IF i <= Len(old) THEN old[i] ELSE E5]
<1>1. old \in Seq(Int) /\ Len(old) \in Nat /\ host = [n \in DOMAIN host |-> host[n]]
  BY DEF HostOK
<1>2. size \in Nat /\ \A j \in 1 .. size : recs[j] \in Int
  OBVIOUS
<1> HIDE DEF size
<1>4. len \in Nat
  <2> DEFINE m == Len(old)
  <2>1. m \in Nat
    BY <1>1
  <2> HIDE DEF old, m
  <2>2. AtLeast(at + size, m) \in Nat
    BY <1>2, <2>1 DEF AtLeast
  <2> QED BY <2>1, <2>2 DEF m
<1>5. Content(host, file) = old
  BY DEF Content
<1>7. r = Put(host, file, new)
  <2> HIDE DEF old
  <2> QED BY <1>5 DEF WriteFile, size
<1>8. new \in [1 .. len -> Int]
  <2> SUFFICES ASSUME NEW i \in 1 .. len PROVE new[i] \in Int
    OBVIOUS
  <2>1. CASE i > at /\ i <= at + size
    <3>1. i - at \in 1 .. size
      BY <1>2, <1>4, <2>1
    <3>2. recs[i - at] \in Int
      BY <1>2, <3>1
    <3> QED BY <2>1, <3>2
  <2>2. CASE ~ (i > at /\ i <= at + size) /\ i <= Len(old)
    <3>1. i \in 1 .. Len(old)
      BY <1>1, <1>4, <2>2
    <3>2. \A j \in 1 .. Len(old) : old[j] \in Int
      <4> HIDE DEF old
      <4> QED BY ONLY <1>1, SeqElements
    <3>3. old[i] \in Int
      BY ONLY <3>1, <3>2
    <3> QED BY <2>2, <3>3
  <2>3. CASE ~ (i > at /\ i <= at + size) /\ ~ (i <= Len(old))
    BY <2>3 DEF E5
  <2> QED BY <2>1, <2>2, <2>3
<1>9. new \in Seq(Int) /\ Len(new) = len
  <2> HIDE DEF new, len
  <2> QED BY <1>4, <1>8
<1>10. DOMAIN r = DOMAIN host /\ r[file] = new
       /\ \A n \in DOMAIN host \ {file} : r[n] = host[n]
  <2> HIDE DEF new
  <2> QED BY <1>7 DEF Put
<1>11. HostOK(r)
  <2>1. r = [n \in DOMAIN r |-> r[n]]
    <3> HIDE DEF new
    <3> QED BY <1>7 DEF Put
  <2>2. \A n \in DOMAIN r : r[n] \in Seq(Int)
    <3> HIDE DEF new, r
    <3> QED BY <1>9, <1>10 DEF HostOK
  <2> HIDE DEF r
  <2>3. r \in [DOMAIN r -> Seq(Int)]
    BY <2>1, <2>2
  <2> QED BY <1>10, <2>3 DEF HostOK
<1>12. \A p \in 1 .. Len(r[file]) :
         r[file][p] = IF at < p /\ p <= at + size THEN recs[p - at]
                      ELSE IF p <= Len(host[file]) THEN host[file][p] ELSE E5
  <2> SUFFICES ASSUME NEW p \in 1 .. len
               PROVE new[p] = IF at < p /\ p <= at + size THEN recs[p - at]
                              ELSE IF p <= Len(host[file]) THEN host[file][p] ELSE E5
    <3> HIDE DEF new, len, r
    <3> QED BY <1>9, <1>10
  <2>1. (p > at) <=> (at < p)
    BY <1>4
  <2> QED BY <2>1
<1> HIDE DEF new, r
<1> QED BY <1>9, <1>10, <1>11, <1>12 DEF size, r, Overwritten
-----------------------------------------------------------------------------
(* Flush.                                                                  *)

(* A record whose sector is in a block of an entry is a record of that     *)
(* entry.                                                                  *)
LEMMA SectorOwner ==
  ASSUME NEW dir \in [EntryNumbers -> DiskEntry], NoBlockTwice(dir),
         NEW e \in Used(dir), NEW i \in 1 .. BlocksPerExtent, NEW s \in Nat,
         dir[e].blocks[i] = s \div SecPerBlock, dir[e].blocks[i] # 0,
         NEW x \in Used(dir), NEW k \in 0 .. ExtentSize - 1, SectorOf(dir[x], k) = s
  PROVE  x = e /\ \E j \in 1 .. RecPerSec : k = Spot(i, s % SecPerBlock, j)
<1>1. PICK i2 \in 1 .. BlocksPerExtent, u \in 0 .. SecPerBlock - 1, j \in 1 .. RecPerSec :
        k = Spot(i2, u, j)
  BY SpotOf
<1>2. dir[x] \in DiskEntry /\ dir[e] \in DiskEntry
  BY DEF Used
<1>3. s \div SecPerBlock = dir[x].blocks[i2] /\ s % SecPerBlock = u
  BY <1>1, <1>2, SectorOfSpot
<1>4. x = e /\ i2 = i
  BY <1>3 DEF NoBlockTwice
<1> QED BY <1>1, <1>3, <1>4

(* The sectors of the records of an entry that fits are in its blocks.     *)
LEMMA RecordBlock ==
  ASSUME NEW entry \in DiskEntry, NEW len, EntryFits(entry, len),
         NEW k \in 0 .. ExtentSize - 1, k < ExtentRecords(entry)
  PROVE  \E i \in 1 .. BlocksPerExtent : \E u \in 0 .. SecPerBlock - 1 :
           \E j \in 1 .. RecPerSec :
             /\ k = Spot(i, u, j)
             /\ entry.blocks[i] # 0
             /\ SectorOf(entry, k) \in Nat
             /\ SectorOf(entry, k) \div SecPerBlock = entry.blocks[i]
             /\ SectorOf(entry, k) % SecPerBlock = u
<1>1. PICK i \in 1 .. BlocksPerExtent, u \in 0 .. SecPerBlock - 1, j \in 1 .. RecPerSec :
        k = Spot(i, u, j)
  BY SpotOf
<1>2. (i - 1) * RecPerBlock <= k
  BY <1>1, SpotIs
<1>3. entry.blocks[i] # 0
  <2>1. ExtentRecords(entry) \in Nat /\ (i - 1) * RecPerBlock \in Int
    BY EntryIs, Sizes
  <2> DEFINE m == (i - 1) * RecPerBlock
  <2>2. m < ExtentRecords(entry)
    <3> HIDE DEF m
    <3> QED BY <1>2, <2>1 DEF m
  <2> QED BY <2>2 DEF EntryFits
<1>4. SectorOf(entry, k) \in Nat
      /\ SectorOf(entry, k) \div SecPerBlock = entry.blocks[i]
      /\ SectorOf(entry, k) % SecPerBlock = u
  BY <1>1, SectorOfSpot
<1> QED BY <1>1, <1>3, <1>4
(* The function that rcpmfs_flush computes sector by sector.               *)
FlushEq(flushed, d, n) ==
  flushed = [s \in 0 .. n |->
               IF s = 0 THEN d
               ELSE IF s - 1 \in DOMAIN d.buf THEN FlushSector(flushed[s - 1], s - 1)
               ELSE flushed[s - 1]]

(* The recursive function of Flush exists.                                 *)
LEMMA FlushExists ==
  ASSUME NEW d
  PROVE  \A n \in Nat : \E f : FlushEq(f, d, n)
<1> DEFINE S == {n \in Nat : \E f : FlushEq(f, d, n)}
           next(v, s) == IF s \in DOMAIN d.buf THEN FlushSector(v, s) ELSE v
<1>1. 0 \in S
  <2>1. FlushEq([i \in 0 .. 0 |-> d], d, 0)
    BY DEF FlushEq
  <2> QED BY <2>1
<1>2. ASSUME NEW n \in Nat, n \in S
      PROVE  n + 1 \in S
  <2>1. PICK f : FlushEq(f, d, n)
    BY <1>2
  <2>2. \A i \in 0 .. n : f[i] = IF i = 0 THEN d ELSE next(f[i - 1], i - 1)
    BY <2>1 DEF FlushEq
  <2> DEFINE g == [i \in 0 .. n + 1 |-> IF i <= n THEN f[i] ELSE next(f[n], n)]
  <2> HIDE DEF next
  <2>3. ASSUME NEW i \in 0 .. n + 1
        PROVE  g[i] = IF i = 0 THEN d ELSE next(g[i - 1], i - 1)
    <3>1. CASE i = 0
      BY <2>2, <3>1
    <3>2. CASE i # 0 /\ i <= n
      <4>1. i - 1 \in 0 .. n /\ i - 1 <= n /\ i \in 0 .. n /\ i - 1 \in 0 .. n + 1
        BY <3>2
      <4>2. g[i] = f[i] /\ g[i - 1] = f[i - 1]
        BY <3>2, <4>1
      <4> HIDE DEF g
      <4> QED BY <2>2, <3>2, <4>1, <4>2
    <3>3. CASE i = n + 1
      <4>1. i - 1 = n /\ n \in 0 .. n + 1 /\ n <= n /\ ~ (i <= n)
        BY <3>3
      <4>2. g[i] = next(f[n], n) /\ g[i - 1] = f[n]
        BY <4>1
      <4> HIDE DEF g
      <4> QED BY <3>3, <4>1, <4>2
    <3> QED BY <3>1, <3>2, <3>3
  <2> HIDE DEF g
  <2>4. g = [i \in 0 .. n + 1 |-> g[i]]
    BY DEF g
  <2>5. g = [i \in 0 .. n + 1 |-> IF i = 0 THEN d ELSE next(g[i - 1], i - 1)]
    BY <2>3, <2>4
  <2>6. FlushEq(g, d, n + 1)
    BY <2>5 DEF FlushEq, next
  <2> QED BY <2>6
<1> HIDE DEF S
<1>3. \A n \in Nat : n \in S
  BY <1>1, <1>2, Induct
<1> QED BY <1>3 DEF S

(* Flush is a step for each sector.                                        *)
LEMMA FlushIs ==
  ASSUME NEW d, Sectors \in Nat
  PROVE  \E f : /\ Flush(d) = f[Sectors]
                /\ f[0] = d
                /\ \A s \in 0 .. Sectors - 1 :
                     f[s + 1] = IF s \in DOMAIN d.buf THEN FlushSector(f[s], s) ELSE f[s]
<1> DEFINE f == CHOOSE flushed : FlushEq(flushed, d, Sectors)
<1>1. \E g : FlushEq(g, d, Sectors)
  BY FlushExists
<1>2. FlushEq(f, d, Sectors)
  BY <1>1
<1>3. Flush(d) = f[Sectors]
  BY DEF Flush, FlushEq
<1> HIDE DEF f
<1>4. f[0] = d
  BY <1>2 DEF FlushEq
<1>5. ASSUME NEW s \in 0 .. Sectors - 1
      PROVE f[s + 1] = IF s \in DOMAIN d.buf THEN FlushSector(f[s], s) ELSE f[s]
  <2>1. s + 1 \in 0 .. Sectors /\ s + 1 # 0 /\ (s + 1) - 1 = s
    OBVIOUS
  <2>2. f[s + 1] = IF s + 1 = 0 THEN d
                   ELSE IF (s + 1) - 1 \in DOMAIN d.buf
                        THEN FlushSector(f[(s + 1) - 1], (s + 1) - 1)
                        ELSE f[(s + 1) - 1]
    BY <1>2, <2>1 DEF FlushEq
  <2> QED BY <2>1, <2>2
<1> QED BY <1>3, <1>4, <1>5

(* Record p of file n has its value on the host, or in the buffer of one   *)
(* of the sectors from s on.                                               *)
OnHost(host, f, n, p) == p <= Len(host[n]) /\ host[n][p] = f[n][p]

Waits(d, f, w, n, p, s) ==
  \E ek \in Records(d, f, w) :
    /\ d.map[ek[1]] = n
    /\ Cell(d.dir[ek[1]], ek[2]) = p
    /\ SectorOf(d.dir[ek[1]], ek[2]) \in DOMAIN d.buf
    /\ SectorOf(d.dir[ek[1]], ek[2]) >= s

Comes(host, d, f, w, s) ==
  \A n \in DOMAIN f :
    /\ Len(host[n]) <= Len(f[n])
    /\ \A p \in 1 .. Len(f[n]) : OnHost(host, f, n, p) \/ Waits(d, f, w, n, p, s)

(* What a flush needs to bring the files f to the host.                    *)
Flushable(d, f, w, g) ==
  /\ DiskOK(d) /\ HostOK(f)
  /\ Structure(d.dir, d.map, Lengths(f), w, g)
  /\ \A e \in Used(d.dir) : d.map[e] \in DOMAIN f \cup g
  /\ g \cap DOMAIN f = {}
  /\ DOMAIN d.host \ g = DOMAIN f
  /\ \A e \in Used(d.dir) :
       d.map[e] \in g /\ d.dir[e].ext = 0 => d.map[e] \in DOMAIN d.host
  /\ BufferedRight(d, f, w) /\ Unbuffered(d, w, g)
  /\ Comes(d.host, d, f, w, 0)

Flushing(x, d, f, w, s) ==
  /\ x = [dir |-> d.dir, map |-> d.map, buf |-> x.buf, host |-> x.host]
  /\ x.buf = [t \in DOMAIN x.buf |-> d.buf[t]]
  /\ DOMAIN x.buf \subseteq DOMAIN d.buf
  /\ \A t \in DOMAIN d.buf : t >= s => t \in DOMAIN x.buf
  /\ HostOK(x.host) /\ DOMAIN x.host = DOMAIN d.host
  /\ Comes(x.host, d, f, w, s)

(* What marks a free entry or no file is no name.                          *)
LEMMA NoName == /\ Free \notin Names /\ NoFile \notin Names /\ IsFiniteSet(Names)
                /\ Names \subseteq DOMAIN PlainName
BY BoundsAssumption

(* A sector that no record needs may be flushed or not.                    *)
LEMMA FlushSkips ==
  ASSUME NEW d, NEW f, NEW w, NEW g, Flushable(d, f, w, g),
         NEW x, NEW s \in Nat, Flushing(x, d, f, w, s),
         \A ek \in Records(d, f, w) :
           SectorOf(d.dir[ek[1]], ek[2]) \in DOMAIN d.buf
             => SectorOf(d.dir[ek[1]], ek[2]) # s
  PROVE  Flushing(x, d, f, w, s + 1)
<1>1. \A t \in DOMAIN d.buf : t \in Nat
  BY DEF Flushable, DiskOK
<1>2. ASSUME NEW n \in DOMAIN f, NEW p \in 1 .. Len(f[n]), Waits(d, f, w, n, p, s)
      PROVE  Waits(d, f, w, n, p, s + 1)
  <2>1. PICK ek \in Records(d, f, w) :
          /\ d.map[ek[1]] = n
          /\ Cell(d.dir[ek[1]], ek[2]) = p
          /\ SectorOf(d.dir[ek[1]], ek[2]) \in DOMAIN d.buf
          /\ SectorOf(d.dir[ek[1]], ek[2]) >= s
    BY <1>2 DEF Waits
  <2>2. SectorOf(d.dir[ek[1]], ek[2]) >= s + 1
    BY <1>1, <2>1
  <2> QED BY <2>1, <2>2 DEF Waits
<1>3. Comes(x.host, d, f, w, s + 1)
  BY <1>2 DEF Comes, Flushing
<1>4. \A t \in DOMAIN d.buf : t >= s + 1 => t \in DOMAIN x.buf
  BY <1>1 DEF Flushing
<1> QED BY <1>3, <1>4 DEF Flushing

(* A flush of one sector keeps what is left to flush right.                *)
LEMMA FlushOne ==
  ASSUME NEW d, NEW f, NEW w, NEW g, Flushable(d, f, w, g),
         NEW x, NEW s \in Nat, Flushing(x, d, f, w, s), s \in DOMAIN d.buf
  PROVE  Flushing(FlushSector(x, s), d, f, w, s + 1)
<1> DEFINE y == FlushSector(x, s)
           where == PsFind2(d, s)
<1>1. d.dir \in [EntryNumbers -> DiskEntry] /\ NoBlockTwice(d.dir)
  BY DEF Flushable, DiskOK, Structure
<1>2. PsFind2(x, s) = where
  <2>1. x.dir = d.dir /\ x.map = d.map
    BY DEF Flushing
  <2> QED BY <2>1 DEF PsFind2
<1>3. CASE Owners(d.dir, s \div SecPerBlock) = {}
  <2>1. where.file = NoFile
    BY <1>3, FindNone
  <2>2. y = x
    BY <1>2, <2>1 DEF FlushSector
  <2>3. ASSUME NEW ek \in Records(d, f, w), SectorOf(d.dir[ek[1]], ek[2]) = s
        PROVE  FALSE
    <3>1. ek[1] \in Used(d.dir) /\ ek[2] \in 0 .. ExtentSize - 1
          /\ d.map[ek[1]] \in DOMAIN f \ w /\ ek[2] < ExtentRecords(d.dir[ek[1]])
      BY DEF Records
    <3>2. d.dir[ek[1]] \in DiskEntry
      BY <1>1, <3>1 DEF Used
    <3>3. EntryFits(d.dir[ek[1]], Len(f[d.map[ek[1]]]))
      BY <3>1 DEF Flushable, Structure, FileFits, Lengths
    <3>4. \E i \in 1 .. BlocksPerExtent : d.dir[ek[1]].blocks[i] = s \div SecPerBlock
      <4> DEFINE len == Len(f[d.map[ek[1]]])
      <4> HIDE DEF len
      <4> QED BY <2>3, <3>1, <3>2, <3>3, RecordBlock DEF len
    <3>5. d.dir[ek[1]].blocks \in BlockList
      BY <3>2, EntryIs
    <3> QED BY <1>3, <3>1, <3>4, <3>5 DEF Owners, Used, BlockList
  <2> QED BY <2>2, <2>3, FlushSkips
<1>4. CASE Owners(d.dir, s \div SecPerBlock) # {}
  <2>1. PICK e \in Used(d.dir), i \in 1 .. BlocksPerExtent :
          d.dir[e].blocks[i] = s \div SecPerBlock
    BY <1>1, <1>4, OwnerIs
  <2>2. d.dir[e].blocks[i] # 0
    <3>1. s \div SecPerBlock \in DataBlocks
      BY DEF Flushable, DiskOK
    <3> QED BY <2>1, <3>1, Sizes DEF DataBlocks
  <2> DEFINE entry == d.dir[e]
             n == d.map[e]
             u == s % SecPerBlock
             off == Spot(i, u, 1)
             er == ExtentRecords(entry)
             at == entry.ext * ExtentSize + off
             size == AtMost(AtLeast(er - off, 0), RecPerSec)
  <2>3. where = [file |-> n, at |-> at, size |-> size]
    BY <1>1, <2>1, <2>2, FindOwned
  <2>4. /\ entry \in DiskEntry /\ er \in 0 .. ExtentSize
        /\ entry.ext * ExtentSize \in Nat /\ entry.ext \in Nat
    <3>1. entry \in DiskEntry
      BY <1>1 DEF Used
    <3> QED BY <3>1, EntryIs
  <2>5. u \in 0 .. SecPerBlock - 1
    BY SectorParts
  <2>6. \A j \in 1 .. RecPerSec :
          /\ Spot(i, u, j) = off + j - 1 /\ Spot(i, u, j) \in 0 .. ExtentSize - 1
          /\ Spot(i, u, j) % RecPerSec = j - 1
    <3> TAKE j \in 1 .. RecPerSec
    <3> HIDE DEF u
    <3>1. SecPerBlock * (i - 1) + u \in Nat
      BY <2>5, Sizes, Multiples
    <3> DEFINE m == RecPerSec * (SecPerBlock * (i - 1) + u)
    <3>2. m \in Nat
      BY <3>1, Sizes
    <3>3. Spot(i, u, j) = m + (j - 1) /\ off = m + (1 - 1)
      BY DEF Spot
    <3> HIDE DEF m, off
    <3>4. Spot(i, u, j) = off + j - 1
      BY <3>2, <3>3
    <3> QED BY <2>5, <3>4, SpotIs
  <2>7. off \in 0 .. ExtentSize - 1
    <3>1. 1 \in 1 .. RecPerSec
      BY Sizes
    <3> QED BY <2>6, <3>1
  <2>8. size \in 0 .. RecPerSec /\ at \in Nat
    <3> HIDE DEF off, er
    <3> QED BY <2>4, <2>7, Sizes DEF AtMost, AtLeast
  <2>9. ASSUME NEW ek \in Records(d, f, w), SectorOf(d.dir[ek[1]], ek[2]) = s
        PROVE  /\ ek[1] = e /\ n \in DOMAIN f \ w
               /\ \E j \in 1 .. RecPerSec :
                    ek[2] = Spot(i, u, j) /\ Spot(i, u, j) < er /\ j <= size
    <3>1. ek[1] \in Used(d.dir) /\ ek[2] \in 0 .. ExtentSize - 1
          /\ d.map[ek[1]] \in DOMAIN f \ w /\ ek[2] < ExtentRecords(d.dir[ek[1]])
      BY DEF Records
    <3>2. ek[1] = e /\ \E j \in 1 .. RecPerSec : ek[2] = Spot(i, u, j)
      BY <1>1, <2>1, <2>2, <2>9, <3>1, SectorOwner
    <3>3. PICK j \in 1 .. RecPerSec : ek[2] = Spot(i, u, j)
      BY <3>2
    <3>4. Spot(i, u, j) < er /\ Spot(i, u, j) = off + j - 1
      BY <2>6, <3>1, <3>2, <3>3
    <3>5. j <= size
      <4> HIDE DEF off, er
      <4> QED BY <2>4, <2>7, <3>4, Sizes DEF AtMost, AtLeast
    <3> QED BY <3>1, <3>2, <3>3, <3>4, <3>5
  <2> HIDE DEF where, at, size, off, er, entry, u
  <2>10. n \in Names
    <3>1. n \in DOMAIN f \cup g
      BY DEF Flushable
    <3>2. n \in g /\ entry.ext # 0 => FALSE
      <4>1. SUFFICES ASSUME n \in g, entry.ext # 0 PROVE FALSE
        OBVIOUS
      <4>2. ~Buffers(d, e)
        BY <4>1 DEF Flushable, Unbuffered, entry
      <4> QED BY <2>1, <4>2 DEF Buffers
    <3>3. n \in DOMAIN f \cup DOMAIN d.host
      BY <3>1, <3>2 DEF Flushable, entry
    <3> QED BY <3>3 DEF Flushable, DiskOK, HostOK
  <2>11. CASE size = 0
    <3>1. y = x
      BY <1>2, <2>3, <2>11 DEF FlushSector
    <3>2. \A ek \in Records(d, f, w) : SectorOf(d.dir[ek[1]], ek[2]) # s
      BY <2>9, <2>11
    <3> QED BY <3>1, <3>2, FlushSkips
  <2>12. CASE size # 0
    <3>1. n # NoFile /\ n \notin w
      <4>1. n \in w => ~Buffers(d, e)
        BY DEF Flushable, Unbuffered
      <4> QED BY <2>1, <2>10, <4>1, NoName DEF Buffers
    <3>2. y = [x EXCEPT !.host = WriteFile(x.host, n, at, SubSeq(x.buf[s], 1, size)),
                        !.buf = IF size = RecPerSec THEN Without(x.buf, s) ELSE @]
      BY <1>2, <2>3, <2>12, <3>1 DEF FlushSector
    <3>3. s \in DOMAIN x.buf /\ x.buf[s] = d.buf[s] /\ d.buf[s] \in SectorData
      BY DEF Flushing, Flushable, DiskOK
    <3> DEFINE new == WriteFile(x.host, n, at, SubSeq(d.buf[s], 1, size))
    <3>4. /\ y.dir = d.dir /\ y.map = d.map /\ y.host = new
          /\ y.buf = IF size = RecPerSec THEN Without(x.buf, s) ELSE x.buf
          /\ y = [dir |-> y.dir, map |-> y.map, buf |-> y.buf, host |-> y.host]
      <4> HIDE DEF new
      <4>1. x = [dir |-> d.dir, map |-> d.map, buf |-> x.buf, host |-> x.host]
        BY DEF Flushing
      <4>2. y = [x EXCEPT !.host = new,
                          !.buf = IF size = RecPerSec THEN Without(x.buf, s) ELSE @]
        BY <3>2, <3>3 DEF new
      <4> DEFINE h == x.host
                 b == x.buf
                 c == IF size = RecPerSec THEN Without(x.buf, s) ELSE x.buf
      <4>3. x = [dir |-> d.dir, map |-> d.map, buf |-> b, host |-> h]
        BY <4>1
      <4>4. y = [x EXCEPT !.host = new, !.buf = c]
        BY <4>2
      <4> HIDE DEF y, h, b, c
      <4>5. y = [dir |-> d.dir, map |-> d.map, buf |-> c, host |-> new]
        BY <4>3, <4>4
      <4> QED BY <4>5 DEF c
    <3>5. n \in DOMAIN x.host
      <4>1. n \in DOMAIN f => n \in DOMAIN d.host
        BY DEF Flushable
      <4>2. n \in g => n \in DOMAIN d.host
        <5>1. n \in g /\ entry.ext # 0 => ~Buffers(d, e)
          BY DEF Flushable, Unbuffered, entry
        <5>2. Buffers(d, e)
          BY <2>1 DEF Buffers
        <5> QED BY <5>1, <5>2 DEF Flushable, entry
      <4>3. n \in DOMAIN f \cup g
        BY DEF Flushable
      <4> QED BY <4>1, <4>2, <4>3 DEF Flushing
    <3>6. /\ HostOK(new) /\ DOMAIN new = DOMAIN x.host
          /\ \A m \in DOMAIN x.host \ {n} : new[m] = x.host[m]
          /\ Len(new[n]) = AtLeast(at + size, Len(x.host[n]))
          /\ \A p \in 1 .. Len(new[n]) :
               new[n][p] = IF at < p /\ p <= at + size THEN d.buf[s][p - at]
                           ELSE IF p <= Len(x.host[n]) THEN x.host[n][p] ELSE E5
      <4>1. HostOK(x.host)
        BY DEF Flushing
      <4>2. new = WriteFile(x.host, n, at, SubSeq(d.buf[s], 1, size))
        OBVIOUS
      <4> DEFINE data == d.buf[s]
                 h == x.host
      <4> HIDE DEF new, n
      <4>3. at \in Nat /\ size \in 0 .. RecPerSec /\ d.buf[s] \in SectorData
        BY <2>8, <3>3
      <4>4. /\ HostOK(new) /\ DOMAIN new = DOMAIN x.host
            /\ \A m \in DOMAIN x.host \ {n} : new[m] = x.host[m]
            /\ Len(new[n]) = IF size = 0 THEN Len(x.host[n])
                            ELSE AtLeast(at + size, Len(x.host[n]))
            /\ \A p \in 1 .. Len(new[n]) :
                 new[n][p] = IF at < p /\ p <= at + size THEN d.buf[s][p - at]
                             ELSE IF p <= Len(x.host[n]) THEN x.host[n][p] ELSE E5
        <5> DEFINE recs == SubSeq(data, 1, size)
        <5>1. HostOK(h) /\ n \in DOMAIN h /\ new = WriteFile(h, n, at, recs)
          BY <3>5, <4>1, <4>2
        <5>2. recs \in Seq(Int) /\ Len(recs) = size /\ \A j \in 1 .. size : recs[j] = data[j]
          BY <4>3, Sizes DEF SectorData
        <5> HIDE DEF data, h, recs
        <5>3. recs = <<>> <=> size = 0
          BY <4>3, <5>2
        <5>4. Overwritten(new, h, n, at, recs)
          BY <4>3, <5>1, <5>2, WriteFileIs
        <5>5. ASSUME NEW p \in 1 .. Len(new[n])
              PROVE new[n][p] = IF at < p /\ p <= at + size THEN data[p - at]
                               ELSE IF p <= Len(h[n]) THEN h[n][p] ELSE E5
          <6>1. new[n] \in Seq(Int)
            BY <5>1, <5>4 DEF HostOK, Overwritten
          <6>2. p \in Nat
            BY <6>1
          <6>3. CASE at < p /\ p <= at + size
            <7>1. p - at \in 1 .. size
              BY <4>3, <6>2, <6>3
            <7> QED BY <5>2, <5>4, <6>3, <7>1 DEF Overwritten
          <6>4. CASE ~ (at < p /\ p <= at + size)
            BY <5>2, <5>4, <6>4 DEF Overwritten
          <6> QED BY <6>3, <6>4
        <5> QED BY <5>2, <5>3, <5>4, <5>5 DEF h, data, Overwritten
      <4> QED BY <2>12, <4>4
    <3>7. Comes(y.host, d, f, w, s + 1)
      <4> HIDE DEF n, new
      <4> SUFFICES ASSUME NEW m \in DOMAIN f
                   PROVE  /\ Len(new[m]) <= Len(f[m])
                          /\ \A p \in 1 .. Len(f[m]) :
                               OnHost(new, f, m, p) \/ Waits(d, f, w, m, p, s + 1)
        BY <3>4 DEF Comes
      <4>1. /\ Len(x.host[m]) <= Len(f[m])
            /\ \A p \in 1 .. Len(f[m]) :
                 OnHost(x.host, f, m, p) \/ Waits(d, f, w, m, p, s)
        BY DEF Flushing, Comes
      <4>2. m \in DOMAIN x.host
        BY DEF Flushing, Flushable
      <4>3. Len(f[m]) \in Nat /\ Len(x.host[m]) \in Nat
        <5>1. HostOK(x.host) /\ HostOK(f)
          BY DEF Flushing, Flushable
        <5>2. f[m] \in Seq(Int) /\ x.host[m] \in Seq(Int)
          BY <4>2, <5>1 DEF HostOK
        <5> QED BY <5>2
      <4>4. ASSUME NEW p \in 1 .. Len(f[m]), Waits(d, f, w, m, p, s)
            PROVE  \/ Waits(d, f, w, m, p, s + 1)
                   \/ m = n /\ at < p /\ p <= at + size
        <5>1. PICK ek \in Records(d, f, w) :
                /\ d.map[ek[1]] = m
                /\ Cell(d.dir[ek[1]], ek[2]) = p
                /\ SectorOf(d.dir[ek[1]], ek[2]) \in DOMAIN d.buf
                /\ SectorOf(d.dir[ek[1]], ek[2]) >= s
          BY <4>4 DEF Waits
        <5>2. CASE SectorOf(d.dir[ek[1]], ek[2]) # s
          <6>1. SectorOf(d.dir[ek[1]], ek[2]) \in Nat
            BY <5>1 DEF Flushable, DiskOK
          <6>2. SectorOf(d.dir[ek[1]], ek[2]) >= s + 1
            BY <5>1, <5>2, <6>1
          <6> QED BY <5>1, <6>2 DEF Waits
        <5>3. CASE SectorOf(d.dir[ek[1]], ek[2]) = s
          <6>1. PICK j \in 1 .. RecPerSec :
                  ek[2] = Spot(i, u, j) /\ Spot(i, u, j) < er /\ j <= size
            BY <2>9, <5>3
          <6>2. ek[1] = e /\ m = n
            BY <2>9, <5>1, <5>3 DEF n
          <6>3. p = at + j
            <7>1. p = entry.ext * ExtentSize + (off + j - 1) + 1
              BY <2>6, <5>1, <6>1, <6>2 DEF Cell, entry
            <7> QED BY <2>4, <2>7, <7>1 DEF at
          <6> QED BY <2>8, <6>1, <6>2, <6>3
        <5> QED BY <5>2, <5>3
      <4>5. CASE m # n
        <5>1. new[m] = x.host[m]
          BY <3>6, <4>2, <4>5
        <5> QED BY <4>1, <4>4, <4>5, <5>1 DEF OnHost
      <4>6. CASE m = n
        <5>1. n \in DOMAIN f \ w
          BY <3>1, <4>6
        <5>2. EntryFits(entry, Len(f[m]))
          BY <4>6, <5>1 DEF Flushable, Structure, FileFits, Lengths, entry, n
        <5>3. er - off >= size /\ at + size <= Len(f[m])
          <6>1. er - off >= size
            BY <2>4, <2>7, <2>8, <2>12, Sizes DEF size, AtLeast, AtMost
          <6>2. entry.ext * ExtentSize + er <= Len(f[m])
            <7>1. er = AtMost(Len(f[m]) - entry.ext * ExtentSize, ExtentSize)
              BY <5>2 DEF EntryFits, er
            <7> QED BY <2>4, <4>3, <7>1, Sizes DEF AtMost
          <6> QED BY <2>4, <2>7, <2>8, <4>3, <6>1, <6>2 DEF at
        <5>4. ASSUME NEW j \in 1 .. size
              PROVE d.buf[s][j] = f[m][at + j]
          <6>1. j \in 1 .. RecPerSec
            BY <2>8, Sizes
          <6> DEFINE k == Spot(i, u, j)
          <6>2. k = off + j - 1 /\ k \in 0 .. ExtentSize - 1 /\ k % RecPerSec = j - 1
            BY <2>6, <6>1
          <6> HIDE DEF k
          <6>3. k < er
            BY <2>4, <2>7, <2>8, <5>3, <6>2
          <6>4. <<e, k>> \in Records(d, f, w)
            BY <5>1, <6>2, <6>3 DEF Records, n, er, entry
          <6>5. SectorOf(entry, k) = s
            <7>1. SectorOf(entry, k) = entry.blocks[i] * SecPerBlock + u
              BY <2>4, <2>5, <6>1, SectorOfSpot DEF k
            <7>2. s = (s \div SecPerBlock) * SecPerBlock + u
              BY SectorParts DEF u
            <7> QED BY <2>1, <7>1, <7>2 DEF entry
          <6>6. d.buf[s][(k % RecPerSec) + 1] = f[m][Cell(entry, k)]
            <7>1. LET ek == <<e, k>>
                      en == d.dir[ek[1]]
                      t == SectorOf(en, ek[2])
                  IN t \in DOMAIN d.buf =>
                       d.buf[t][(ek[2] % RecPerSec) + 1] = f[d.map[ek[1]]][Cell(en, ek[2])]
              BY <6>4 DEF Flushable, BufferedRight
            <7> QED BY <4>6, <6>5, <7>1 DEF entry, n
          <6>7. (k % RecPerSec) + 1 = j /\ Cell(entry, k) = at + j
            BY <2>4, <2>7, <6>1, <6>2 DEF Cell, at
          <6> QED BY <6>6, <6>7
        <5>5. Len(new[m]) <= Len(f[m])
          BY <2>8, <3>6, <4>1, <4>3, <4>6, <5>3 DEF AtLeast
        <5>6. ASSUME NEW p \in 1 .. Len(f[m]), at < p, p <= at + size
              PROVE OnHost(new, f, m, p)
          <6>1. p - at \in 1 .. size /\ at + (p - at) = p
            BY <2>8, <5>6
          <6>2. p \in 1 .. Len(new[m])
            BY <2>8, <3>6, <4>3, <4>6, <5>6 DEF AtLeast
          <6>3. new[m][p] = d.buf[s][p - at]
            BY <3>6, <4>6, <5>6, <6>2
          <6> QED BY <5>4, <6>1, <6>2, <6>3 DEF OnHost
        <5>7. ASSUME NEW p \in 1 .. Len(f[m]), OnHost(x.host, f, m, p)
              PROVE OnHost(new, f, m, p)
          <6>1. CASE at < p /\ p <= at + size
            BY <5>6, <6>1
          <6>2. CASE ~ (at < p /\ p <= at + size)
            <7>1. p <= Len(x.host[m]) /\ x.host[m][p] = f[m][p]
              BY <5>7 DEF OnHost
            <7>2. p \in 1 .. Len(new[m])
              BY <2>8, <3>6, <4>3, <4>6, <7>1 DEF AtLeast
            <7> QED BY <3>6, <4>6, <6>2, <7>1, <7>2 DEF OnHost
          <6> QED BY <6>1, <6>2
        <5> QED BY <4>1, <4>4, <5>5, <5>6, <5>7
      <4> QED BY <4>5, <4>6
    <3>8. /\ DOMAIN y.buf \subseteq DOMAIN d.buf
          /\ y.buf = [t \in DOMAIN y.buf |-> d.buf[t]]
          /\ \A t \in DOMAIN d.buf : t >= s + 1 => t \in DOMAIN y.buf
      <4>1. /\ x.buf = [t \in DOMAIN x.buf |-> d.buf[t]]
            /\ DOMAIN x.buf \subseteq DOMAIN d.buf
            /\ \A t \in DOMAIN d.buf : t >= s => t \in DOMAIN x.buf
        BY DEF Flushing
      <4>2. \A t \in DOMAIN d.buf : t \in Nat
        BY DEF Flushable, DiskOK
      <4>3. \A t \in DOMAIN d.buf : t >= s + 1 => t \in DOMAIN x.buf /\ t # s
        BY <4>1, <4>2
      <4>4. CASE size = RecPerSec
        <5>1. y.buf = [t \in DOMAIN x.buf \ {s} |-> x.buf[t]]
          BY <3>4, <4>4 DEF Without
        <5> HIDE DEF y
        <5> QED BY <4>1, <4>3, <5>1
      <4>5. CASE size # RecPerSec
        <5>1. y.buf = x.buf
          BY <3>4, <4>5
        <5> HIDE DEF y
        <5> QED BY <4>1, <4>3, <5>1
      <4> QED BY <4>4, <4>5
    <3>9. HostOK(y.host) /\ DOMAIN y.host = DOMAIN d.host
      BY <3>4, <3>6 DEF Flushing
    <3> HIDE DEF y, new
    <3> QED BY <3>4, <3>7, <3>8, <3>9 DEF Flushing, y
  <2> QED BY <2>11, <2>12
<1> QED BY <1>3, <1>4

(* Contents with the same records are the same.                            *)
LEMMA SeqSame ==
  ASSUME NEW s \in Seq(Int), NEW t \in Seq(Int), Len(s) = Len(t),
         \A p \in 1 .. Len(t) : s[p] = t[p]
  PROVE  s = t
<1>1. s = [p \in 1 .. Len(s) |-> s[p]] /\ t = [p \in 1 .. Len(t) |-> t[p]]
  OBVIOUS
<1> QED BY <1>1

(* The sectors of files are sectors of the disk.                           *)
LEMMA SectorsIs == Sectors \in Nat /\ \A s \in Nat : s \div SecPerBlock \in DataBlocks => s < Sectors
<1>1. Sectors \in Nat
  BY Sizes DEF Sectors
<1>2. ASSUME NEW s \in Nat, s \div SecPerBlock \in DataBlocks PROVE s < Sectors
  <2> DEFINE q == s \div SecPerBlock
             r == s % SecPerBlock
  <2>1. q \in Nat /\ r \in 0 .. SecPerBlock - 1 /\ s = SecPerBlock * q + r
    BY Sizes, Parts
  <2>2. q < TotalBlocks
    BY <1>2, Sizes DEF DataBlocks
  <2> HIDE DEF q, r
  <2>3. SecPerBlock * q + SecPerBlock <= SecPerBlock * TotalBlocks
    BY <2>1, <2>2, Sizes, Multiples
  <2>4. SecPerBlock * TotalBlocks = Sectors /\ SecPerBlock * q \in Nat
    BY <2>1, Sizes DEF Sectors
  <2> QED BY <1>1, <2>1, <2>3, <2>4, Sizes
<1> QED BY <1>1, <1>2

(* After a flush the host has the files.                                   *)
Settled(x, d, f) ==
  /\ x = [dir |-> d.dir, map |-> d.map, buf |-> x.buf, host |-> x.host]
  /\ x.buf = [t \in DOMAIN x.buf |-> d.buf[t]]
  /\ DOMAIN x.buf \subseteq DOMAIN d.buf
  /\ HostOK(x.host) /\ DOMAIN x.host = DOMAIN d.host
  /\ \A n \in DOMAIN f : x.host[n] = f[n]

(* After a flush the host has every file as CP/M reads it.                 *)
LEMMA FlushSettles ==
  ASSUME NEW d, NEW f, NEW w, NEW g, Flushable(d, f, w, g)
  PROVE  Settled(Flush(d), d, f)
<1>1. PICK F : /\ Flush(d) = F[Sectors]
               /\ F[0] = d
               /\ \A s \in 0 .. Sectors - 1 :
                    F[s + 1] = IF s \in DOMAIN d.buf THEN FlushSector(F[s], s) ELSE F[s]
  BY SectorsIs, FlushIs
<1> DEFINE S == {s \in Nat : s <= Sectors => Flushing(F[s], d, f, w, s)}
<1>2. 0 \in S
  <2>1. Flushing(d, d, f, w, 0)
    BY DEF Flushing, Flushable, DiskOK
  <2> QED BY <1>1, <2>1
<1>3. ASSUME NEW s \in Nat, s \in S
      PROVE  s + 1 \in S
  <2> SUFFICES ASSUME s + 1 <= Sectors PROVE Flushing(F[s + 1], d, f, w, s + 1)
    BY <1>3
  <2>1. s \in 0 .. Sectors - 1 /\ s <= Sectors
    BY SectorsIs
  <2>2. Flushing(F[s], d, f, w, s)
    BY <1>3, <2>1
  <2>3. CASE s \in DOMAIN d.buf
    BY <1>1, <2>1, <2>2, <2>3, FlushOne
  <2>4. CASE s \notin DOMAIN d.buf
    BY <1>1, <2>1, <2>2, <2>4, FlushSkips
  <2> QED BY <2>3, <2>4
<1>4. Flushing(F[Sectors], d, f, w, Sectors)
  <2> HIDE DEF S
  <2>1. \A s \in Nat : s \in S
    BY <1>2, <1>3, Induct
  <2>2. Sectors \in Nat /\ Sectors <= Sectors
    BY SectorsIs
  <2> QED BY <2>1, <2>2 DEF S
<1> DEFINE x == F[Sectors]
<1>5. ASSUME NEW n \in DOMAIN f PROVE x.host[n] = f[n]
  <2>1. /\ Len(x.host[n]) <= Len(f[n])
        /\ \A p \in 1 .. Len(f[n]) :
             OnHost(x.host, f, n, p) \/ Waits(d, f, w, n, p, Sectors)
    BY <1>4 DEF Flushing, Comes
  <2>2. \A p \in 1 .. Len(f[n]) : ~Waits(d, f, w, n, p, Sectors)
    <3> SUFFICES ASSUME NEW p \in 1 .. Len(f[n]), Waits(d, f, w, n, p, Sectors) PROVE FALSE
      OBVIOUS
    <3>1. PICK t \in DOMAIN d.buf : t >= Sectors
      BY DEF Waits
    <3>2. t \in Nat /\ t \div SecPerBlock \in DataBlocks
      BY DEF Flushable, DiskOK
    <3> QED BY <3>1, <3>2, SectorsIs
  <2>3. \A p \in 1 .. Len(f[n]) : p <= Len(x.host[n]) /\ x.host[n][p] = f[n][p]
    BY <2>1, <2>2 DEF OnHost
  <2>4. f[n] \in Seq(Int) /\ x.host[n] \in Seq(Int)
    <3>1. HostOK(f) /\ HostOK(x.host) /\ n \in DOMAIN x.host
      BY <1>4 DEF Flushable, Flushing
    <3> QED BY <3>1 DEF HostOK
  <2> DEFINE a == x.host[n]
             b == f[n]
  <2> HIDE DEF a, b
  <2>5. a \in Seq(Int) /\ b \in Seq(Int) /\ Len(a) <= Len(b)
        /\ \A p \in 1 .. Len(b) : p <= Len(a) /\ a[p] = b[p]
    BY <2>1, <2>3, <2>4 DEF a, b
  <2>6. Len(a) = Len(b)
    <3>1. Len(a) \in Nat /\ Len(b) \in Nat
      BY <2>5
    <3>2. Len(b) > 0 => Len(b) <= Len(a)
      BY <2>5, <3>1
    <3> QED BY <2>5, <3>1, <3>2
  <2>7. a = b
    BY <2>5, <2>6, SeqSame
  <2> QED BY <2>7 DEF a, b
<1> HIDE DEF x
<1>6. Flushing(x, d, f, w, Sectors) /\ Flush(d) = x
  BY <1>1, <1>4 DEF x
<1> QED BY <1>5, <1>6 DEF Flushing, Settled
-----------------------------------------------------------------------------
(* WriteDirectory.                                                         *)

(* The function that rcpmfs_write computes entry by entry.                 *)
Changed(r, first, entries, i) ==
  IF r.err \/ r.disk.dir[first + i - 1] = entries[i] THEN r
  ELSE Chgdir(r.disk, first + i - 1, entries[i])

ChangedEq(changed, d, first, entries, n) ==
  changed = [i \in 0 .. n |->
               IF i = 0 THEN Done(d) ELSE Changed(changed[i - 1], first, entries, i)]

(* The recursive function of WriteDirectory exists.                        *)
LEMMA ChangedExists ==
  ASSUME NEW d, NEW first, NEW entries
  PROVE  \A n \in Nat : \E f : ChangedEq(f, d, first, entries, n)
<1> DEFINE S == {n \in Nat : \E f : ChangedEq(f, d, first, entries, n)}
           next(v, i) == Changed(v, first, entries, i)
<1>1. 0 \in S
  <2>1. ChangedEq([i \in 0 .. 0 |-> Done(d)], d, first, entries, 0)
    BY DEF ChangedEq
  <2> QED BY <2>1
<1>2. ASSUME NEW n \in Nat, n \in S
      PROVE  n + 1 \in S
  <2>1. PICK f : ChangedEq(f, d, first, entries, n)
    BY <1>2
  <2>2. \A i \in 0 .. n : f[i] = IF i = 0 THEN Done(d) ELSE next(f[i - 1], i)
    BY <2>1 DEF ChangedEq
  <2> DEFINE g == [i \in 0 .. n + 1 |-> IF i <= n THEN f[i] ELSE next(f[n], n + 1)]
  <2> HIDE DEF next
  <2>3. ASSUME NEW i \in 0 .. n + 1
        PROVE  g[i] = IF i = 0 THEN Done(d) ELSE next(g[i - 1], i)
    <3>1. CASE i = 0
      BY <2>2, <3>1
    <3>2. CASE i # 0 /\ i <= n
      <4>1. i - 1 \in 0 .. n /\ i - 1 <= n /\ i \in 0 .. n /\ i - 1 \in 0 .. n + 1
        BY <3>2
      <4>2. g[i] = f[i] /\ g[i - 1] = f[i - 1]
        BY <3>2, <4>1
      <4> HIDE DEF g
      <4> QED BY <2>2, <3>2, <4>1, <4>2
    <3>3. CASE i = n + 1
      <4>1. i - 1 = n /\ n \in 0 .. n + 1 /\ n <= n /\ ~ (i <= n)
        BY <3>3
      <4>2. g[i] = next(f[n], n + 1) /\ g[i - 1] = f[n]
        BY <4>1
      <4> HIDE DEF g
      <4> QED BY <3>3, <4>1, <4>2
    <3> QED BY <3>1, <3>2, <3>3
  <2> HIDE DEF g
  <2>4. g = [i \in 0 .. n + 1 |-> g[i]]
    BY DEF g
  <2>5. g = [i \in 0 .. n + 1 |-> IF i = 0 THEN Done(d) ELSE next(g[i - 1], i)]
    BY <2>3, <2>4
  <2>6. ChangedEq(g, d, first, entries, n + 1)
    BY <2>5 DEF ChangedEq, next
  <2> QED BY <2>6
<1> HIDE DEF S
<1>3. \A n \in Nat : n \in S
  BY <1>1, <1>2, Induct
<1> QED BY <1>3 DEF S

Written(d, first, entries) ==
  [d EXCEPT !.dir =
     [e \in EntryNumbers |->
        IF e - first \in 0 .. Len(entries) - 1 THEN entries[e - first + 1] ELSE @[e]]]

WriteSteps(f, d, first, entries, n) ==
  /\ WriteDirectory(d, first, entries) =
       IF f[n].err THEN f[n] ELSE Done(Flush(Written(f[n].disk, first, entries)))
  /\ f[0] = Done(d)
  /\ \A i \in 1 .. n : f[i] = Changed(f[i - 1], first, entries, i)

(* WriteDirectory is a step for each entry of the sector.                  *)
LEMMA WriteDirectoryIs ==
  ASSUME NEW d, NEW first, NEW entries, NEW n \in Nat, Len(entries) = n
  PROVE  \E f : WriteSteps(f, d, first, entries, n)
<1> DEFINE f == CHOOSE changed : ChangedEq(changed, d, first, entries, n)
<1>1. \E g : ChangedEq(g, d, first, entries, n)
  BY ChangedExists
<1>2. ChangedEq(f, d, first, entries, n)
  BY <1>1
<1>3. WriteDirectory(d, first, entries) =
        IF f[n].err THEN f[n] ELSE Done(Flush(Written(f[n].disk, first, entries)))
  BY DEF WriteDirectory, ChangedEq, Changed, Written
<1> HIDE DEF f
<1>4. f[0] = Done(d) /\ \A i \in 1 .. n : f[i] = Changed(f[i - 1], first, entries, i)
  BY <1>2 DEF ChangedEq
<1> QED BY <1>3, <1>4 DEF WriteSteps

(* The first entry of the sector of an entry.                              *)
LEMMA SectorFirst ==
  ASSUME NEW e \in EntryNumbers, NEW first, first = ((e - 1) \div EntriesPerSec) * EntriesPerSec + 1
  PROVE  /\ EntriesPerSec \in Nat \ {0}
         /\ first \in Nat \ {0} /\ e - first + 1 \in 1 .. EntriesPerSec
         /\ \A i \in 1 .. EntriesPerSec : first + i - 1 \in EntryNumbers
<1> DEFINE b == EntriesPerSec
           q == (e - 1) \div b
           r == (e - 1) % b
           m == Entries \div b
<1>1. b \in Nat \ {0} /\ Entries % b = 0 /\ Entries \in Nat /\ e - 1 \in Nat
  BY BoundsAssumption, Sizes DEF EntryNumbers
<1>2. q \in Nat /\ r \in 0 .. b - 1 /\ e - 1 = b * q + r
  <2> DEFINE z == e - 1
  <2> HIDE DEF z
  <2>1. z \in Nat
    BY <1>1 DEF z
  <2>2. z \div b \in Nat /\ z % b \in 0 .. b - 1 /\ z = b * (z \div b) + (z % b)
    BY <1>1, <2>1, Parts
  <2> QED BY <2>2 DEF z
<1>3. m \in Nat /\ Entries = b * m
  <2> HIDE DEF b
  <2>1. m \in Nat /\ Entries = b * m + (Entries % b)
    BY <1>1, Parts
  <2> QED BY <1>1, <2>1
<1>4. first = b * q + 1
  BY <1>1, <1>2
<1> HIDE DEF b, q, r, m
<1>5. b * q + b <= b * m
  <2>1. q < m
    <3> SUFFICES ASSUME m <= q PROVE FALSE
      BY <1>2, <1>3
    <3>1. PICK z \in Nat : q = m + z
      <4>1. q - m \in Nat /\ q = m + (q - m)
        BY <1>2, <1>3
      <4> QED BY <4>1
    <3>2. b * q = b * m + b * z /\ b * z \in Nat
      BY <1>1, <1>3, <3>1
    <3>3. e <= Entries
      BY DEF EntryNumbers
    <3>4. e \in Nat
      BY DEF EntryNumbers
    <3> QED BY <1>1, <1>2, <1>3, <3>2, <3>3, <3>4
  <2> QED BY <1>1, <1>2, <1>3, <2>1, Multiples
<1>6. b * q \in Nat
  BY <1>1, <1>2
<1>7. e - first + 1 \in 1 .. b
  BY <1>1, <1>2, <1>4, <1>6 DEF EntryNumbers
<1>8. \A i \in 1 .. b : first + i - 1 \in EntryNumbers
  BY <1>1, <1>3, <1>4, <1>5, <1>6 DEF EntryNumbers
<1> QED BY <1>1, <1>4, <1>6, <1>7, <1>8 DEF b

(* What the write of one changed entry comes to.                           *)
OneWritten(d, e, entry, first, r) ==
  WriteDirectory(d, first,
    [[i \in 1 .. EntriesPerSec |-> d.dir[first + i - 1]] EXCEPT ![e - first + 1] = entry]).disk
  = IF r.err THEN r.disk ELSE Flush([r.disk EXCEPT !.dir = [d.dir EXCEPT ![e] = entry]])

(* A sector of the directory with one new entry changes that one.          *)
LEMMA PutOne ==
  ASSUME NEW d, d.dir \in [EntryNumbers -> DiskEntry],
         NEW e \in EntryNumbers, NEW entry \in DiskEntry,
         NEW first, first = ((e - 1) \div EntriesPerSec) * EntriesPerSec + 1,
         NEW r, r = IF d.dir[e] = entry THEN Done(d) ELSE Chgdir(d, e, entry),
         r.disk.dir \in {d.dir, [d.dir EXCEPT ![e] = entry]}
  PROVE  OneWritten(d, e, entry, first, r)
<1> DEFINE n == EntriesPerSec
           k == e - first + 1
           entries == [[i \in 1 .. n |-> d.dir[first + i - 1]] EXCEPT ![k] = entry]
<1>1. n \in Nat \ {0} /\ first \in Nat \ {0} /\ k \in 1 .. n
      /\ \A i \in 1 .. n : first + i - 1 \in EntryNumbers
  BY SectorFirst
<1>2. entries = [i \in 1 .. n |-> IF i = k THEN entry ELSE d.dir[first + i - 1]]
  <2> HIDE DEF k
  <2> QED OBVIOUS
<1>3. entries \in [1 .. n -> DiskEntry]
  <2>1. \A i \in 1 .. n : (IF i = k THEN entry ELSE d.dir[first + i - 1]) \in DiskEntry
    BY <1>1
  <2> HIDE DEF entries, k
  <2> QED BY <1>2, <2>1
<1>4. entries \in Seq(DiskEntry) /\ Len(entries) = n
  <2> HIDE DEF entries
  <2> QED BY <1>1, <1>3
<1>5. \A i \in 1 .. n : entries[i] = IF i = k THEN entry ELSE d.dir[first + i - 1]
  <2> HIDE DEF entries, k
  <2> QED BY <1>2
<1>6. first + k - 1 = e
  BY <1>1 DEF EntryNumbers
<1> HIDE DEF entries
<1>7. PICK f : WriteSteps(f, d, first, entries, n)
  <2> HIDE DEF n
  <2> QED BY <1>1, <1>4, WriteDirectoryIs
<1>8. Done(d).err = FALSE /\ Done(d).disk = d
  BY DEF Done
<1> DEFINE S == {i \in Nat : i <= n => f[i] = IF i < k THEN Done(d) ELSE r}
<1>9. 0 \in S
  BY <1>1, <1>7 DEF WriteSteps
<1>10. ASSUME NEW i \in Nat, i \in S
       PROVE  i + 1 \in S
  <2> SUFFICES ASSUME i + 1 <= n PROVE f[i + 1] = IF i + 1 < k THEN Done(d) ELSE r
    OBVIOUS
  <2>1. i + 1 \in 1 .. n /\ i <= n /\ (i + 1) - 1 = i
    BY <1>1
  <2>2. f[i] = IF i < k THEN Done(d) ELSE r
    BY <1>10, <2>1
  <2>3. f[i + 1] = Changed(f[i], first, entries, i + 1)
    BY <1>7, <2>1 DEF WriteSteps
  <2> DEFINE x == first + (i + 1) - 1
  <2>4. x \in EntryNumbers
    BY <1>1, <2>1
  <2>5. CASE i + 1 < k
    <3>1. f[i] = Done(d) /\ i + 1 # k /\ i < k
      BY <1>1, <2>2, <2>5
    <3>2. d.dir[x] = entries[i + 1]
      BY <1>5, <2>1, <3>1
    <3> HIDE DEF k, x
    <3> QED BY <1>8, <2>3, <2>5, <3>1, <3>2 DEF Changed, x
  <2>6. CASE i + 1 = k
    <3>1. f[i] = Done(d) /\ x = e /\ ~ (i + 1 < k)
      <4>1. i < k
        BY <2>6
      <4>2. x = e
        BY <1>6, <2>6
      <4> QED BY <1>1, <2>2, <2>6, <4>1, <4>2
    <3>2. entries[i + 1] = entry
      BY <1>5, <2>1, <2>6
    <3>3. f[i + 1] = IF d.dir[e] = entry THEN Done(d) ELSE Chgdir(d, e, entry)
      <4> HIDE DEF k, x
      <4> QED BY <1>8, <2>3, <3>1, <3>2 DEF Changed, x
    <3> QED BY <3>1, <3>3
  <2>7. CASE i + 1 > k
    <3>1. f[i] = r /\ i + 1 # k /\ ~ (i + 1 < k) /\ x # e
      <4>1. ~ (i < k)
        BY <1>1, <2>7
      <4>2. x # e
        BY <1>1, <1>6, <2>7 DEF EntryNumbers
      <4> QED BY <1>1, <2>2, <2>7, <4>1, <4>2
    <3>2. r.disk.dir[x] = d.dir[x]
      <4> HIDE DEF x
      <4> QED BY <2>4, <3>1
    <3>3. entries[i + 1] = d.dir[x]
      BY <1>5, <2>1, <3>1
    <3>4. f[i + 1] = r
      <4> HIDE DEF k, x
      <4> QED BY <2>3, <3>1, <3>2, <3>3 DEF Changed, x
    <3> QED BY <3>1, <3>4
  <2> QED BY <1>1, <2>5, <2>6, <2>7
<1>11. f[n] = r
  <2> HIDE DEF S
  <2>1. \A i \in Nat : i \in S
    BY <1>9, <1>10, Induct
  <2>2. n \in S
    BY <1>1, <2>1
  <2>3. n \in Nat /\ n <= n /\ ~ (n < k)
    BY <1>1
  <2> QED BY <2>2, <2>3 DEF S
<1>12. Written(r.disk, first, entries) = [r.disk EXCEPT !.dir = [d.dir EXCEPT ![e] = entry]]
  <2> DEFINE new == [d.dir EXCEPT ![e] = entry]
             old == r.disk.dir
  <2>1. ASSUME NEW x \in EntryNumbers
        PROVE  (IF x - first \in 0 .. n - 1 THEN entries[x - first + 1] ELSE old[x]) = new[x]
    <3>1. x \in Nat /\ e \in Nat
      BY DEF EntryNumbers
    <3>2. new[x] = IF x = e THEN entry ELSE d.dir[x]
      OBVIOUS
    <3>3. x # e => old[x] = d.dir[x]
      OBVIOUS
    <3>4. CASE x - first \in 0 .. n - 1
      <4> DEFINE i == x - first + 1
      <4>1. i \in 1 .. n /\ first + i - 1 = x /\ (i = k <=> x = e)
        BY <1>1, <3>1, <3>4
      <4>2. entries[i] = IF x = e THEN entry ELSE d.dir[x]
        <5> HIDE DEF i, k
        <5> QED BY <1>5, <4>1
      <4> HIDE DEF new, old
      <4> QED BY <3>2, <3>4, <4>2
    <3>5. CASE x - first \notin 0 .. n - 1
      <4>1. x # e
        BY <1>1, <3>1, <3>5
      <4> HIDE DEF new, old
      <4> QED BY <3>2, <3>3, <3>5, <4>1
    <3> QED BY <3>4, <3>5
  <2>2. [x \in EntryNumbers |->
           IF x - first \in 0 .. n - 1 THEN entries[x - first + 1] ELSE old[x]] = new
    <3>1. new = [x \in EntryNumbers |-> new[x]]
      OBVIOUS
    <3> HIDE DEF new, old
    <3> QED BY <2>1, <3>1
  <2> HIDE DEF new
  <2>3. Written(r.disk, first, entries) =
          [r.disk EXCEPT !.dir =
             [x \in EntryNumbers |->
                IF x - first \in 0 .. n - 1 THEN entries[x - first + 1] ELSE old[x]]]
    BY <1>4 DEF Written
  <2> HIDE DEF old
  <2> QED BY <2>2, <2>3 DEF new
<1> HIDE DEF k
<1>13. WriteDirectory(d, first, entries).disk
         = IF r.err THEN r.disk ELSE Flush(Written(r.disk, first, entries))
  BY <1>7, <1>11 DEF Done, WriteSteps
<1> QED BY <1>12, <1>13 DEF entries, k, OneWritten
-----------------------------------------------------------------------------
(* Opened.                                                                 *)

(* The function that rcpmfs_readdir computes file by file.                 *)
NoneListed == [dir |-> [e \in EntryNumbers |-> FreeEntry],
               map |-> [e \in EntryNumbers |-> NoFile],
               next |-> 1, block |-> DirBlocks, full |-> FALSE]

ListNext(l, host, order, i) == ListFile(l, order[i], Len(host[order[i]]))

ListedEq(listed, host, order, n) ==
  listed = [i \in 0 .. n |->
              IF i = 0 THEN NoneListed ELSE ListNext(listed[i - 1], host, order, i)]

(* The recursive function of Opened exists.                                *)
LEMMA ListedExists ==
  ASSUME NEW host, NEW order
  PROVE  \A n \in Nat : \E f : ListedEq(f, host, order, n)
<1> DEFINE S == {n \in Nat : \E f : ListedEq(f, host, order, n)}
           next(v, i) == ListNext(v, host, order, i)
<1>1. 0 \in S
  <2>1. ListedEq([i \in 0 .. 0 |-> NoneListed], host, order, 0)
    BY DEF ListedEq
  <2> QED BY <2>1
<1>2. ASSUME NEW n \in Nat, n \in S
      PROVE  n + 1 \in S
  <2>1. PICK f : ListedEq(f, host, order, n)
    BY <1>2
  <2>2. \A i \in 0 .. n : f[i] = IF i = 0 THEN NoneListed ELSE next(f[i - 1], i)
    BY <2>1 DEF ListedEq
  <2> DEFINE g == [i \in 0 .. n + 1 |-> IF i <= n THEN f[i] ELSE next(f[n], n + 1)]
  <2> HIDE DEF next
  <2>3. ASSUME NEW i \in 0 .. n + 1
        PROVE  g[i] = IF i = 0 THEN NoneListed ELSE next(g[i - 1], i)
    <3>1. CASE i = 0
      BY <2>2, <3>1
    <3>2. CASE i # 0 /\ i <= n
      <4>1. i - 1 \in 0 .. n /\ i - 1 <= n /\ i \in 0 .. n /\ i - 1 \in 0 .. n + 1
        BY <3>2
      <4>2. g[i] = f[i] /\ g[i - 1] = f[i - 1]
        BY <3>2, <4>1
      <4> HIDE DEF g
      <4> QED BY <2>2, <3>2, <4>1, <4>2
    <3>3. CASE i = n + 1
      <4>1. i - 1 = n /\ n \in 0 .. n + 1 /\ n <= n /\ ~ (i <= n)
        BY <3>3
      <4>2. g[i] = next(f[n], n + 1) /\ g[i - 1] = f[n]
        BY <4>1
      <4> HIDE DEF g
      <4> QED BY <3>3, <4>1, <4>2
    <3> QED BY <3>1, <3>2, <3>3
  <2> HIDE DEF g
  <2>4. g = [i \in 0 .. n + 1 |-> g[i]]
    BY DEF g
  <2>5. g = [i \in 0 .. n + 1 |-> IF i = 0 THEN NoneListed ELSE next(g[i - 1], i)]
    BY <2>3, <2>4
  <2>6. ListedEq(g, host, order, n + 1)
    BY <2>5 DEF ListedEq, next
  <2> QED BY <2>6
<1> HIDE DEF S
<1>3. \A n \in Nat : n \in S
  BY <1>1, <1>2, Induct
<1> QED BY <1>3 DEF S

ListedSteps(f, host, order, n) ==
  /\ Opened(host, order) = [dir |-> f[n].dir, map |-> f[n].map, buf |-> <<>>, host |-> host]
  /\ f[0] = NoneListed
  /\ \A i \in 1 .. n : f[i] = ListNext(f[i - 1], host, order, i)

(* Opened is a step for each file of the host.                             *)
LEMMA OpenedSteps ==
  ASSUME NEW host, NEW order, NEW n \in Nat, Len(order) = n
  PROVE  \E f : ListedSteps(f, host, order, n)
<1> DEFINE f == CHOOSE listed : ListedEq(listed, host, order, n)
<1>1. \E g : ListedEq(g, host, order, n)
  BY ListedExists
<1>2. ListedEq(f, host, order, n)
  BY <1>1
<1>3. Opened(host, order) = [dir |-> f[n].dir, map |-> f[n].map, buf |-> <<>>, host |-> host]
  BY DEF Opened, ListedEq, ListNext, NoneListed
<1> HIDE DEF f
<1>4. f[0] = NoneListed /\ \A i \in 1 .. n : f[i] = ListNext(f[i - 1], host, order, i)
  BY <1>2 DEF ListedEq
<1> QED BY <1>3, <1>4 DEF ListedSteps

(* Division rounded up.                                                    *)
LEMMA Ceil ==
  ASSUME NEW n \in Nat, NEW b \in Nat \ {0}
  PROVE  /\ CeilDiv(n, b) \in Nat
         /\ \A m \in Nat : m < CeilDiv(n, b) <=> b * m < n
<1> DEFINE z == n + b - 1
           q == z \div b
           r == z % b
<1>1. z \in Nat
  OBVIOUS
<1>2. q \in Nat /\ r \in 0 .. b - 1 /\ z = b * q + r
  <2> HIDE DEF z
  <2> QED BY <1>1, Parts
<1>3. CeilDiv(n, b) = q
  BY DEF CeilDiv
<1>4. n = b * q + r - b + 1 /\ b * q \in Nat
  <2>1. b * q \in Nat
    <3> HIDE DEF q
    <3> QED BY <1>2
  <2> HIDE DEF q, r
  <2> QED BY <1>2, <2>1
<1> HIDE DEF z, q, r
<1>5. ASSUME NEW m \in Nat PROVE m < q <=> b * m < n
  <2>1. b * m \in Nat
    OBVIOUS
  <2>2. CASE m < q
    <3>1. b * m + b <= b * q
      BY <1>2, <2>2, Multiples
    <3> QED BY <1>2, <1>4, <2>1, <2>2, <3>1
  <2>3. CASE m = q
    BY <1>2, <1>4, <2>1, <2>3
  <2>4. CASE q < m
    <3>1. b * q + b <= b * m
      BY <1>2, <2>4, Multiples
    <3> QED BY <1>2, <1>4, <2>1, <2>4, <3>1
  <2> QED BY <1>2, <2>2, <2>3, <2>4
<1> QED BY <1>2, <1>3, <1>5

(* What a listed entry tells of a file of this length: the extents before  *)
(* the last are full.                                                      *)
Listed(entry, len) ==
  /\ entry.ext = 0 \/ ExtentSize * entry.ext < len
  /\ ExtentSize * (entry.ext + 1) < len => ExtentRecords(entry) = ExtentSize
  /\ \A i \in 1 .. BlocksPerExtent :
       entry.blocks[i] # 0 <=> ExtentSize * entry.ext + RecPerBlock * (i - 1) < len

(* The entries that rcpmfs_readdir makes up for a file.                    *)
LEMMA MadeEntryIs ==
  ASSUME NEW file \in Names, NEW len \in Nat, NEW block \in Nat, NEW k \in Nat \ {0},
         block >= DirBlocks, NEW taken \in Nat, block + taken < TotalBlocks,
         LET blocks == CeilDiv(len, RecPerSec * SecPerBlock)
         IN /\ k = 1 \/ BlocksPerExtent * (k - 1) < blocks
            /\ \A i \in 1 .. BlocksPerExtent :
                 BlocksPerExtent * (k - 1) + i <= blocks =>
                   BlocksPerExtent * (k - 1) + i <= taken
  PROVE  LET entry == MadeEntry(file, len, block, k)
         IN /\ entry \in DiskEntry /\ entry.name = file /\ entry.ext = k - 1
            /\ Listed(entry, len)
            /\ \A i \in 1 .. BlocksPerExtent :
                 entry.blocks[i] # 0 =>
                   /\ entry.blocks[i] = block + (BlocksPerExtent * (k - 1) + (i - 1))
                   /\ entry.blocks[i] < block + taken
<1> DEFINE blocks == CeilDiv(len, RecPerSec * SecPerBlock)
           x == k - 1
           done == x * BlocksPerExtent
           entry == MadeEntry(file, len, block, k)
           recs == AtMost(len - x * ExtentSize, ExtentSize)
           R == RecordsPerRC
<1>1. blocks \in Nat /\ \A m \in Nat : m < blocks <=> RecPerBlock * m < len
  BY Sizes, Ceil DEF RecPerBlock
<1>2. x \in Nat /\ k = x + 1
  OBVIOUS
<1>3. done \in Nat /\ done = BlocksPerExtent * x /\ x * ExtentSize = ExtentSize * x
      /\ RecPerBlock * done = ExtentSize * x /\ ExtentSize * x \in Nat
      /\ k * BlocksPerExtent = done + BlocksPerExtent
  <2> HIDE DEF x
  <2>1. done = BlocksPerExtent * x /\ BlocksPerExtent * x \in Nat
    BY <1>2, Sizes
  <2>2. x * ExtentSize = ExtentSize * x /\ ExtentSize * x \in Nat
    BY <1>2, Sizes
  <2>3. RecPerBlock * (BlocksPerExtent * x) = (BlocksPerExtent * RecPerBlock) * x
    BY <1>2, Sizes
  <2>4. (x + 1) * BlocksPerExtent = BlocksPerExtent * x + BlocksPerExtent
    BY <1>2, Sizes
  <2> QED BY <1>2, <2>1, <2>2, <2>3, <2>4, Sizes
<1>4. x = 0 \/ ExtentSize * x < len
  <2>1. x = 0 \/ done < blocks
    BY <1>3
  <2> HIDE DEF blocks, done, x
  <2> QED BY <1>1, <1>3, <2>1
<1>5. recs \in 0 .. ExtentSize /\ recs <= len
  <2> HIDE DEF x
  <2>1. ExtentSize * x <= len
    BY <1>2, <1>3, <1>4, Sizes
  <2> QED BY <1>2, <1>3, <2>1, Sizes DEF AtMost
<1>6. entry =
        [name |-> file,
         ext  |-> x,
         ex   |-> IF recs \div R > 0 THEN 1 ELSE 0,
         rc   |-> IF recs <= R THEN recs
                  ELSE IF k * BlocksPerExtent >= blocks THEN recs % R ELSE R,
         blocks |-> [i \in 1 .. BlocksPerExtent |->
                       IF done + i <= blocks THEN block + done + i - 1 ELSE 0]]
  BY DEF MadeEntry
<1> HIDE DEF recs, done, blocks, x, entry
<1>7. \A i \in 1 .. BlocksPerExtent :
        /\ (done + i <= blocks) <=> ExtentSize * x + RecPerBlock * (i - 1) < len
        /\ done + i <= blocks =>
             /\ block + done + i - 1 \in DataBlocks
             /\ block + done + i - 1 < block + taken
             /\ block + done + i - 1 = block + (BlocksPerExtent * x + (i - 1))
  <2> TAKE i \in 1 .. BlocksPerExtent
  <2> DEFINE m == i - 1
  <2>1. m \in Nat /\ i = m + 1
    BY Sizes
  <2> HIDE DEF m
  <2>2. RecPerBlock * (done + m) = RecPerBlock * done + RecPerBlock * m
    BY <1>3, <2>1, Sizes
  <2>3. done + m \in Nat /\ (done + i <= blocks <=> done + m < blocks)
    BY <1>1, <1>3, <2>1
  <2>4. (done + i <= blocks) <=> ExtentSize * x + RecPerBlock * m < len
    BY <1>1, <1>3, <2>2, <2>3
  <2>5. ASSUME done + i <= blocks
        PROVE  /\ block + done + i - 1 \in DataBlocks
               /\ block + done + i - 1 < block + taken
               /\ block + done + i - 1 = block + (BlocksPerExtent * x + m)
    <3>1. done + i <= taken
      <4>1. BlocksPerExtent * x + i <= blocks => BlocksPerExtent * x + i <= taken
        BY DEF blocks, x
      <4> QED BY <1>3, <2>5, <4>1
    <3>2. done \in Nat /\ done = BlocksPerExtent * x /\ TotalBlocks \in Nat
          /\ DirBlocks \in Nat /\ blocks \in Nat
      BY <1>1, <1>3, Sizes
    <3>3. block + done + i - 1 \in DataBlocks /\ block + done + i - 1 < block + taken
          /\ block + done + i - 1 = block + (done + m)
      BY <2>1, <2>5, <3>1, <3>2 DEF DataBlocks
    <3> QED BY <3>2, <3>3
  <2> QED BY <2>4, <2>5 DEF m
<1>8. entry.blocks = [i \in 1 .. BlocksPerExtent |->
                        IF done + i <= blocks THEN block + done + i - 1 ELSE 0]
      /\ entry.ext = x /\ entry.name = file
  BY <1>6
<1>9. entry.blocks \in BlockList
  BY <1>7, <1>8 DEF BlockList
<1>10. \A i \in 1 .. BlocksPerExtent :
         entry.blocks[i] = IF done + i <= blocks THEN block + done + i - 1 ELSE 0
  BY <1>8
<1>11. 0 \notin DataBlocks
  BY Sizes DEF DataBlocks
<1>12. entry \in DiskEntry
  <2>1. R \in Nat \ {0}
    BY Sizes
  <2>2. recs % R \in 0 .. R
    <3> HIDE DEF R
    <3>1. recs \in Nat
      BY <1>5
    <3> QED BY <2>1, <3>1, Parts
  <2>3. entry.rc \in 0 .. R /\ entry.ex \in {0, 1}
    <3> HIDE DEF R
    <3> QED BY <1>5, <1>6, <2>1, <2>2
  <2>4. entry = [name |-> entry.name, ext |-> entry.ext, ex |-> entry.ex, rc |-> entry.rc,
                 blocks |-> entry.blocks]
    BY <1>6
  <2> QED BY <1>2, <1>8, <1>9, <2>3, <2>4 DEF DiskEntry
<1>13. ASSUME ExtentSize * (x + 1) < len PROVE ExtentRecords(entry) = ExtentSize
  <2>1. ExtentSize * (x + 1) = ExtentSize * x + ExtentSize
    BY <1>2, Sizes
  <2>2. recs = ExtentSize /\ ExtentSize = 2 * R
    BY <1>3, <1>13, <2>1, Sizes DEF recs, AtMost
  <2>3. ~ (recs <= R) /\ recs \div R > 0
    <3>1. R \in Nat \ {0}
      BY Sizes
    <3>2. (R * 2 + 0) \div R = 2
      <4> HIDE DEF R
      <4>1. 0 \in 0 .. R - 1 /\ 2 \in Nat
        BY <3>1
      <4> QED BY <3>1, <4>1, OnlyParts
    <3>3. R * 2 + 0 = recs
      BY <2>2, <3>1
    <3> QED BY <2>2, <3>1, <3>2, <3>3
  <2>4. ~ (k * BlocksPerExtent >= blocks)
    <3>1. RecPerBlock * (done + BlocksPerExtent) = RecPerBlock * done + RecPerBlock * BlocksPerExtent
      BY <1>3, Sizes
    <3>2. RecPerBlock * (done + BlocksPerExtent) < len
      BY <1>3, <1>13, <2>1, <3>1, Sizes
    <3>3. done + BlocksPerExtent < blocks
      <4> DEFINE m == done + BlocksPerExtent
      <4>0. m \in Nat
        <5>1. done \in Nat
          BY <1>3
        <5>2. BlocksPerExtent \in Nat
          BY Sizes
        <5> QED BY <5>1, <5>2
      <4>1. m \in Nat /\ RecPerBlock * m < len
        BY <3>2, <4>0
      <4> HIDE DEF m
      <4>2. m < blocks
        BY <1>1, <4>1
      <4> QED BY <4>2 DEF m
    <3> QED BY <1>1, <1>3, <3>3, Sizes
  <2>5. entry.rc = R /\ entry.ex = 1
    BY <1>6, <2>3, <2>4
  <2> QED BY <2>2, <2>5, Sizes DEF ExtentRecords
<1>14. Listed(entry, len)
  <2>1. \A i \in 1 .. BlocksPerExtent :
          entry.blocks[i] # 0 <=> ExtentSize * x + RecPerBlock * (i - 1) < len
    BY <1>7, <1>10, <1>11
  <2> QED BY <1>4, <1>8, <1>13, <2>1 DEF Listed
<1>15. \A i \in 1 .. BlocksPerExtent :
         entry.blocks[i] # 0 =>
           /\ entry.blocks[i] = block + (BlocksPerExtent * x + (i - 1))
           /\ entry.blocks[i] < block + taken
  BY <1>7, <1>10
<1> QED BY <1>8, <1>12, <1>14, <1>15 DEF entry, x, blocks

(* The directory with the first i files of the host.                       *)
Listing(l, host, order, i) ==
  /\ l = [dir |-> l.dir, map |-> l.map, next |-> l.next, block |-> l.block, full |-> l.full]
  /\ l.dir \in [EntryNumbers -> DiskEntry]
  /\ l.map \in [EntryNumbers -> Names \cup {NoFile}]
  /\ l.next \in 1 .. Entries + 1
  /\ l.block \in Nat /\ l.block >= DirBlocks
  /\ \A e \in Used(l.dir) :
       /\ e < l.next
       /\ l.dir[e].name = l.map[e]
       /\ \E j \in 1 .. i : l.map[e] = order[j]
       /\ Listed(l.dir[e], Len(host[l.map[e]]))
       /\ \A x \in 1 .. BlocksPerExtent : l.dir[e].blocks[x] < l.block
       /\ \A y \in 0 .. l.dir[e].ext :
            \E x \in Used(l.dir) : l.map[x] = l.map[e] /\ l.dir[x].ext = y
  /\ NoBlockTwice(l.dir)
  /\ NoExtentTwice(l.dir, l.map)

(* A file that finds no room changes nothing.                              *)
LEMMA ListMore ==
  ASSUME NEW host, NEW order, NEW i \in Nat, NEW l, Listing(l, host, order, i)
  PROVE  Listing([l EXCEPT !.full = TRUE], host, order, i + 1)
         /\ Listing(l, host, order, i + 1)
<1>1. 1 .. i \subseteq 1 .. i + 1
  OBVIOUS
<1>2. Listing(l, host, order, i + 1)
  BY <1>1 DEF Listing
<1> DEFINE m == [l EXCEPT !.full = TRUE]
<1>3. /\ m.dir = l.dir /\ m.map = l.map /\ m.next = l.next /\ m.block = l.block
      /\ m = [dir |-> m.dir, map |-> m.map, next |-> m.next, block |-> m.block, full |-> m.full]
  <2>1. l = [dir |-> l.dir, map |-> l.map, next |-> l.next, block |-> l.block, full |-> l.full]
    BY DEF Listing
  <2> DEFINE a == l.dir
             b == l.map
             c == l.next
             d == l.block
             f == l.full
  <2>2. l = [dir |-> a, map |-> b, next |-> c, block |-> d, full |-> f]
    BY <2>1
  <2> HIDE DEF a, b, c, d, f
  <2>0. m = [l EXCEPT !.full = TRUE]
    OBVIOUS
  <2> HIDE DEF m
  <2>3. m = [dir |-> a, map |-> b, next |-> c, block |-> d, full |-> TRUE]
    BY <2>0, <2>2
  <2> QED BY <2>3 DEF a, b, c, d
<1> HIDE DEF m
<1>4. Listing(m, host, order, i + 1)
  BY <1>2, <1>3 DEF Listing
<1> QED BY <1>2, <1>4 DEF m

(* A file that is listed keeps the directory right.                        *)
LEMMA ListStep ==
  ASSUME NEW host, HostOK(host), NEW n \in Nat, NEW order \in [1 .. n -> DOMAIN host],
         \A a, b \in 1 .. n : order[a] = order[b] => a = b,
         NEW i \in Nat, i + 1 <= n, NEW l, Listing(l, host, order, i)
  PROVE  Listing(ListNext(l, host, order, i + 1), host, order, i + 1)
<1> DEFINE file == order[i + 1]
           len == Len(host[file])
           blocks == CeilDiv(len, RecPerSec * SecPerBlock)
           number == NumEntries(blocks)
           taken == AtMost(blocks, (Entries + 2 - l.next) * BlocksPerExtent)
           mine(e) == e - l.next \in 0 .. number - 1
           made(e) == MadeEntry(file, len, l.block, e - l.next + 1)
           m == ListNext(l, host, order, i + 1)
<1>1. i + 1 \in 1 .. n /\ file \in DOMAIN host /\ file \in Names
  BY DEF HostOK
<1>2. len \in Nat
  <2>1. host[file] \in Seq(Int)
    BY <1>1 DEF HostOK
  <2> QED BY <2>1
<1>3. blocks \in Nat
  <2> HIDE DEF len
  <2> QED BY <1>2, Ceil, Sizes DEF RecPerBlock
<1>4. number \in Nat \ {0} /\ \A k \in 1 .. number : k = 1 \/ BlocksPerExtent * (k - 1) < blocks
  <2> HIDE DEF blocks
  <2> DEFINE c == CeilDiv(blocks, BlocksPerExtent)
  <2>1. c \in Nat /\ \A y \in Nat : y < c <=> BlocksPerExtent * y < blocks
    BY <1>3, Sizes, Ceil
  <2> HIDE DEF c
  <2>2. number = AtLeast(c, 1)
    BY DEF c, NumEntries
  <2>3. number \in Nat \ {0}
    BY <2>1, <2>2 DEF AtLeast
  <2>4. ASSUME NEW k \in 1 .. number, k # 1
        PROVE BlocksPerExtent * (k - 1) < blocks
    <3> DEFINE y == k - 1
    <3>1. y \in Nat /\ y < c
      BY <2>1, <2>2, <2>3, <2>4 DEF AtLeast
    <3> HIDE DEF y
    <3>2. BlocksPerExtent * y < blocks
      BY <2>1, <3>1
    <3> QED BY <3>2 DEF y
  <2> HIDE DEF number
  <2> QED BY <2>3, <2>4
<1>5. /\ l = [dir |-> l.dir, map |-> l.map, next |-> l.next, block |-> l.block, full |-> l.full]
      /\ l.dir \in [EntryNumbers -> DiskEntry]
      /\ l.map \in [EntryNumbers -> Names \cup {NoFile}]
      /\ l.next \in 1 .. Entries + 1
      /\ l.block \in Nat /\ l.block >= DirBlocks
  BY DEF Listing
<1>a. /\ l.next \in 1 .. Entries + 1 /\ l.next \in Nat \ {0}
      /\ l.block \in Nat /\ l.block >= DirBlocks
  <2> DEFINE z == l.next
  <2>1. z \in 1 .. Entries + 1
    BY <1>5
  <2> HIDE DEF z
  <2>2. z \in Nat \ {0}
    BY <2>1, Counts
  <2> QED BY <1>5, <2>2 DEF z
<1>b. /\ taken \in Nat
      /\ \A k \in 1 .. Entries + 1 - l.next, x \in 1 .. BlocksPerExtent :
           BlocksPerExtent * (k - 1) + x <= blocks => BlocksPerExtent * (k - 1) + x <= taken
  <2> DEFINE B == BlocksPerExtent
             room == Entries + 1 - l.next
             z == l.next
  <2>1. room \in Nat /\ B \in Nat \ {0} /\ Entries + 2 - l.next = room + 1
    <3>1. z \in 1 .. Entries + 1 /\ Entries \in Nat
      BY <1>a, Counts
    <3> HIDE DEF z
    <3>2. Entries + 1 - z \in Nat /\ Entries + 2 - z = Entries + 1 - z + 1
      BY <3>1
    <3> QED BY <3>2, Counts DEF z
  <2>2. taken = AtMost(blocks, (room + 1) * B)
    BY <2>1
  <2> HIDE DEF taken, blocks, room, B
  <2>3. (room + 1) * B = B * room + B /\ B * room \in Nat
    BY <2>1
  <2>4. taken \in Nat /\ (taken = blocks \/ taken = B * room + B)
    BY <1>3, <2>1, <2>2, <2>3 DEF AtMost
  <2>5. ASSUME NEW k \in 1 .. room, NEW x \in 1 .. B, B * (k - 1) + x <= blocks
        PROVE  B * (k - 1) + x <= taken
    <3> DEFINE y == k - 1
    <3>1. y \in Nat /\ y < room
      BY <2>1
    <3> HIDE DEF y
    <3>2. B * y + B <= B * room /\ B * y \in Nat
      BY <2>1, <3>1, Multiples
    <3>3. B * y + x <= B * room + B
      BY <2>1, <2>3, <3>2
    <3>4. B * y + x <= blocks
      BY <2>5 DEF y
    <3>5. B * y + x <= taken
      BY <2>4, <3>3, <3>4
    <3> QED BY <3>5 DEF y
  <2> QED BY <2>4, <2>5 DEF room, B
<1>6. CASE l.full \/ l.block + taken >= TotalBlocks
  <2>1. m = l \/ m = [l EXCEPT !.full = TRUE]
    <3> HIDE DEF number, mine, made
    <3> QED BY <1>6 DEF ListNext, ListFile
  <2> QED BY <2>1, ListMore
<1>7. CASE ~ l.full /\ ~ (l.block + taken >= TotalBlocks)
  <2>1. m = [l EXCEPT
               !.dir = [e \in EntryNumbers |-> IF mine(e) THEN made(e) ELSE @[e]],
               !.map = [e \in EntryNumbers |-> IF mine(e) THEN file ELSE @[e]],
               !.next = AtMost(@ + number, Entries + 1),
               !.block = @ + taken]
    BY <1>7 DEF ListNext, ListFile
  <2> HIDE DEF m, mine, made
  <2>2. /\ m.dir = [e \in EntryNumbers |-> IF mine(e) THEN made(e) ELSE l.dir[e]]
        /\ m.map = [e \in EntryNumbers |-> IF mine(e) THEN file ELSE l.map[e]]
        /\ m.next = AtMost(l.next + number, Entries + 1)
        /\ m.block = l.block + taken
    <3> HIDE DEF number, taken, file
    <3> QED BY <1>5, <2>1
  <2>b. m = [dir |-> m.dir, map |-> m.map, next |-> m.next, block |-> m.block, full |-> m.full]
    <3> HIDE DEF number, taken, file
    <3> QED BY <1>5, <2>1
  <2>3. l.block + taken < TotalBlocks
    <3> HIDE DEF taken
    <3> QED BY <1>a, <1>b, <1>7, Counts
  <2>4. ASSUME NEW e \in EntryNumbers, mine(e)
        PROVE  LET k == e - l.next + 1
                   entry == made(e)
               IN /\ k \in 1 .. number
                  /\ entry \in DiskEntry /\ entry.name = file /\ entry.ext = e - l.next
                  /\ Listed(entry, len)
                  /\ \A x \in 1 .. BlocksPerExtent :
                       entry.blocks[x] # 0 =>
                         /\ entry.blocks[x] = l.block + (BlocksPerExtent * (e - l.next) + (x - 1))
                         /\ entry.blocks[x] < l.block + taken
    <3> DEFINE k == e - l.next + 1
               b == l.block
    <3>1. k \in 1 .. number /\ k \in Nat \ {0} /\ k - 1 = e - l.next
      BY <1>4, <1>5, <2>4 DEF mine, EntryNumbers
    <3>2. k = 1 \/ BlocksPerExtent * (k - 1) < blocks
      <4> HIDE DEF k, number, blocks
      <4> QED BY <1>4, <3>1
    <3>3. b \in Nat /\ b >= DirBlocks
      BY <1>5
    <3>4. k \in 1 .. Entries + 1 - l.next
      BY <1>a, <3>1, Counts DEF EntryNumbers
    <3>5. \A x \in 1 .. BlocksPerExtent :
            BlocksPerExtent * (k - 1) + x <= blocks => BlocksPerExtent * (k - 1) + x <= taken
      <4> HIDE DEF k, blocks, taken
      <4> QED BY <1>b, <3>4
    <3>6. taken \in Nat /\ b + taken < TotalBlocks
      BY <1>b, <2>3
    <3> HIDE DEF k, b, len, file, taken
    <3>7. LET bs == CeilDiv(len, RecPerSec * SecPerBlock)
          IN /\ k = 1 \/ BlocksPerExtent * (k - 1) < bs
             /\ \A x \in 1 .. BlocksPerExtent :
                  BlocksPerExtent * (k - 1) + x <= bs => BlocksPerExtent * (k - 1) + x <= taken
      BY <3>2, <3>5
    <3>8. LET entry == MadeEntry(file, len, b, k)
          IN /\ entry \in DiskEntry /\ entry.name = file /\ entry.ext = k - 1
             /\ Listed(entry, len)
             /\ \A x \in 1 .. BlocksPerExtent :
                  entry.blocks[x] # 0 =>
                    /\ entry.blocks[x] = b + (BlocksPerExtent * (k - 1) + (x - 1))
                    /\ entry.blocks[x] < b + taken
      BY <1>1, <1>2, <3>1, <3>3, <3>6, <3>7, MadeEntryIs
    <3> QED BY <3>1, <3>8 DEF made, k, b
  <2>5. ASSUME NEW e \in Used(l.dir)
        PROVE  e \in EntryNumbers /\ ~mine(e) /\ m.dir[e] = l.dir[e] /\ m.map[e] = l.map[e]
    <3>1. e \in EntryNumbers /\ e < l.next
      BY DEF Listing, Used
    <3>2. ~mine(e)
      BY <1>4, <1>5, <3>1 DEF mine, EntryNumbers
    <3> QED BY <2>2, <3>1, <3>2
  <2>6. ASSUME NEW e \in EntryNumbers, mine(e)
        PROVE  m.dir[e] = made(e) /\ m.map[e] = file /\ e \in Used(m.dir)
    <3>1. m.dir[e] = made(e) /\ m.map[e] = file
      BY <2>2, <2>6
    <3>2. made(e).name = file
      BY <2>4, <2>6
    <3> QED BY <1>1, <2>6, <3>1, <3>2, NoName DEF Used, InUse
  <2>7. \A e \in Used(m.dir) : e \in EntryNumbers /\ (mine(e) \/ e \in Used(l.dir))
    BY <2>2 DEF Used
  <2>8. Used(l.dir) \subseteq Used(m.dir)
    BY <2>5 DEF Used
  <2>9. m.dir \in [EntryNumbers -> DiskEntry] /\ m.map \in [EntryNumbers -> Names \cup {NoFile}]
    <3>1. \A e \in EntryNumbers : (IF mine(e) THEN made(e) ELSE l.dir[e]) \in DiskEntry
      BY <1>5, <2>4
    <3>2. \A e \in EntryNumbers : (IF mine(e) THEN file ELSE l.map[e]) \in Names \cup {NoFile}
      BY <1>1, <1>5
    <3> HIDE DEF file
    <3> QED BY <2>2, <3>1, <3>2
  <2> HIDE DEF file, len, blocks, number, taken
  <2>10. m.next \in 1 .. Entries + 1 /\ m.block \in Nat /\ m.block >= DirBlocks
    <3>1. number \in Nat \ {0} /\ Entries \in Nat
      BY <1>4, Counts
    <3>2. m.next \in 1 .. Entries + 1
      <4>1. l.next + number \in Nat \ {0}
        BY <1>a, <3>1
      <4> DEFINE z == l.next + number
      <4> HIDE DEF z
      <4>2. z \in Nat \ {0}
        BY <4>1 DEF z
      <4>3. AtMost(z, Entries + 1) \in 1 .. Entries + 1
        BY <3>1, <4>2 DEF AtMost
      <4> QED BY <2>2, <4>3 DEF z
    <3>3. taken \in Nat /\ DirBlocks \in Nat
      BY <1>b, Counts
    <3>4. l.block + taken \in Nat /\ l.block + taken >= DirBlocks
      BY <1>a, <3>3
    <3> QED BY <2>2, <3>2, <3>4
  <2>11. ASSUME NEW e \in Used(m.dir)
         PROVE  /\ e < m.next
                /\ m.dir[e].name = m.map[e]
                /\ \E j \in 1 .. i + 1 : m.map[e] = order[j]
                /\ Listed(m.dir[e], Len(host[m.map[e]]))
                /\ \A x \in 1 .. BlocksPerExtent : m.dir[e].blocks[x] < m.block
                /\ \A y \in 0 .. m.dir[e].ext :
                     \E x \in Used(m.dir) : m.map[x] = m.map[e] /\ m.dir[x].ext = y
    <3>1. CASE e \in Used(l.dir)
      <4>1. /\ e < l.next
            /\ l.dir[e].name = l.map[e]
            /\ \E j \in 1 .. i : l.map[e] = order[j]
            /\ Listed(l.dir[e], Len(host[l.map[e]]))
            /\ \A x \in 1 .. BlocksPerExtent : l.dir[e].blocks[x] < l.block
            /\ \A y \in 0 .. l.dir[e].ext :
                 \E x \in Used(l.dir) : l.map[x] = l.map[e] /\ l.dir[x].ext = y
        BY <3>1 DEF Listing
      <4>2. m.dir[e] = l.dir[e] /\ m.map[e] = l.map[e] /\ e \in EntryNumbers
        BY <2>5, <3>1
      <4>3. e < m.next
        BY <1>4, <1>a, <2>2, <4>1, <4>2, Counts DEF AtMost, EntryNumbers
      <4>4. \A x \in 1 .. BlocksPerExtent : m.dir[e].blocks[x] < m.block
        <5> TAKE x \in 1 .. BlocksPerExtent
        <5>1. l.dir[e].blocks[x] \in Nat
          BY <1>5, <4>2, EntryIs
        <5> QED BY <1>b, <1>5, <2>2, <4>1, <4>2, <5>1
      <4>5. \E j \in 1 .. i + 1 : m.map[e] = order[j]
        <5>1. 1 .. i \subseteq 1 .. i + 1
          OBVIOUS
        <5> QED BY <4>1, <4>2, <5>1
      <4>6. \A y \in 0 .. m.dir[e].ext :
              \E x \in Used(m.dir) : m.map[x] = m.map[e] /\ m.dir[x].ext = y
        <5> TAKE y \in 0 .. m.dir[e].ext
        <5>1. PICK x \in Used(l.dir) : l.map[x] = l.map[e] /\ l.dir[x].ext = y
          BY <4>1, <4>2
        <5> QED BY <2>5, <2>8, <4>2, <5>1
      <4> QED BY <4>1, <4>2, <4>3, <4>4, <4>5, <4>6
    <3>2. CASE mine(e)
      <4>1. e \in EntryNumbers /\ m.dir[e] = made(e) /\ m.map[e] = file
        BY <2>6, <2>7, <3>2
      <4>2. e < m.next
        BY <1>4, <1>a, <2>2, <3>2, <4>1, Counts DEF AtMost, EntryNumbers, mine
      <4>3. /\ made(e) \in DiskEntry /\ made(e).name = file /\ made(e).ext = e - l.next
            /\ Listed(made(e), len)
            /\ \A x \in 1 .. BlocksPerExtent :
                 made(e).blocks[x] # 0 => made(e).blocks[x] < l.block + taken
        BY <2>4, <3>2, <4>1
      <4>4. \E j \in 1 .. i + 1 : m.map[e] = order[j]
        <5>1. i + 1 \in 1 .. i + 1
          OBVIOUS
        <5> QED BY <4>1, <5>1 DEF file
      <4>5. \A x \in 1 .. BlocksPerExtent : m.dir[e].blocks[x] < m.block
        <5> TAKE x \in 1 .. BlocksPerExtent
        <5>1. CASE made(e).blocks[x] = 0
          BY <1>a, <2>10, <4>1, <5>1, Counts
        <5>2. CASE made(e).blocks[x] # 0
          BY <2>2, <4>1, <4>3, <5>2
        <5> QED BY <5>1, <5>2
      <4>6. ASSUME NEW y \in 0 .. made(e).ext
            PROVE \E x \in Used(m.dir) : m.map[x] = m.map[e] /\ m.dir[x].ext = y
        <5> DEFINE x == l.next + y
        <5>1. e \in Nat /\ l.next \in Nat \ {0} /\ y \in 0 .. e - l.next /\ e - l.next \in 0 .. number - 1
          BY <1>5, <3>2, <4>1, <4>3, <4>6 DEF mine, EntryNumbers
        <5>2. x \in EntryNumbers /\ x - l.next = y /\ y \in 0 .. number - 1
          BY <1>4, <4>1, <5>1, Counts DEF EntryNumbers
        <5> HIDE DEF x
        <5>3. mine(x)
          BY <5>2 DEF mine
        <5>4. m.dir[x] = made(x) /\ m.map[x] = file /\ x \in Used(m.dir)
          BY <2>6, <5>2, <5>3
        <5>5. made(x).ext = y
          BY <2>4, <5>2, <5>3
        <5> QED BY <4>1, <5>4, <5>5
      <4> QED BY <4>1, <4>2, <4>3, <4>4, <4>5, <4>6 DEF len
    <3> QED BY <2>7, <3>1, <3>2
  <2>12. \A e1, e2 \in Used(m.dir) : mine(e1) /\ ~mine(e2) => m.map[e1] # m.map[e2]
    <3> SUFFICES ASSUME NEW e1 \in Used(m.dir), NEW e2 \in Used(m.dir), mine(e1), ~mine(e2)
                 PROVE m.map[e1] # m.map[e2]
      OBVIOUS
    <3>1. m.map[e1] = order[i + 1]
      BY <2>6, <2>7 DEF file
    <3>2. PICK j \in 1 .. i : m.map[e2] = order[j]
      BY <2>5, <2>7 DEF Listing
    <3>3. j \in 1 .. n /\ i + 1 \in 1 .. n /\ j # i + 1
      OBVIOUS
    <3> QED BY <3>1, <3>2, <3>3
  <2>13. NoExtentTwice(m.dir, m.map)
    <3> SUFFICES ASSUME NEW e1 \in Used(m.dir), NEW e2 \in Used(m.dir),
                        m.map[e1] = m.map[e2], m.dir[e1].ext = m.dir[e2].ext
                 PROVE e1 = e2
      BY DEF NoExtentTwice
    <3>1. CASE mine(e1) /\ mine(e2)
      <4>1. m.dir[e1].ext = e1 - l.next /\ m.dir[e2].ext = e2 - l.next
        BY <2>4, <2>6, <2>7, <3>1
      <4>2. e1 - l.next = e2 - l.next
        <5>1. m.dir[e1].ext = m.dir[e2].ext
          OBVIOUS
        <5> QED BY <4>1, <5>1
      <4>3. e1 \in Nat /\ e2 \in Nat
        BY <2>7, Counts DEF EntryNumbers
      <4> QED BY <1>a, <4>2, <4>3
    <3>2. CASE ~mine(e1) /\ ~mine(e2)
      <4>1. e1 \in Used(l.dir) /\ e2 \in Used(l.dir)
        BY <2>7, <3>2
      <4>2. l.map[e1] = l.map[e2] /\ l.dir[e1].ext = l.dir[e2].ext
        BY <2>5, <4>1
      <4> QED BY <4>1, <4>2 DEF Listing, NoExtentTwice
    <3> QED BY <2>12, <3>1, <3>2
  <2>14. NoBlockTwice(m.dir)
    <3> SUFFICES ASSUME NEW e1 \in Used(m.dir), NEW e2 \in Used(m.dir),
                        NEW a \in 1 .. BlocksPerExtent, NEW b \in 1 .. BlocksPerExtent,
                        m.dir[e1].blocks[a] # 0,
                        m.dir[e1].blocks[a] = m.dir[e2].blocks[b]
                 PROVE e1 = e2 /\ a = b
      BY DEF NoBlockTwice
    <3>1. ASSUME NEW e \in Used(m.dir), mine(e), NEW x \in 1 .. BlocksPerExtent,
                 m.dir[e].blocks[x] # 0
          PROVE  /\ m.dir[e].blocks[x] = l.block + (BlocksPerExtent * (e - l.next) + (x - 1))
                 /\ e - l.next \in Nat
                 /\ BlocksPerExtent * (e - l.next) \in Nat
                 /\ m.dir[e].blocks[x] >= l.block
      <4>1. e \in EntryNumbers /\ m.dir[e] = made(e)
        BY <2>6, <2>7, <3>1
      <4>2. m.dir[e].blocks[x] = l.block + (BlocksPerExtent * (e - l.next) + (x - 1))
        BY <2>4, <3>1, <4>1
      <4> DEFINE y == e - l.next
      <4>3. y \in Nat
        BY <3>1 DEF mine
      <4> HIDE DEF y
      <4>4. BlocksPerExtent * y \in Nat
        BY <4>3, Counts
      <4>5. m.dir[e].blocks[x] = l.block + (BlocksPerExtent * y + (x - 1))
        BY <4>2 DEF y
      <4>6. m.dir[e].blocks[x] >= l.block
        BY <1>a, <4>4, <4>5
      <4> QED BY <4>2, <4>3, <4>4, <4>6 DEF y
    <3>2. ASSUME NEW e \in Used(m.dir), ~mine(e), NEW x \in 1 .. BlocksPerExtent
          PROVE  e \in Used(l.dir) /\ m.dir[e] = l.dir[e] /\ m.dir[e].blocks[x] < l.block
                 /\ m.dir[e].blocks[x] \in Nat
      <4>1. e \in Used(l.dir) /\ m.dir[e] = l.dir[e] /\ e \in EntryNumbers
        BY <2>5, <2>7, <3>2
      <4> QED BY <1>5, <4>1, EntryIs DEF Listing
    <3>3. CASE mine(e1) /\ mine(e2)
      <4> DEFINE x1 == e1 - l.next
                 x2 == e2 - l.next
                 c == a - 1
                 d == b - 1
                 B == BlocksPerExtent
      <4>1. x1 \in Nat /\ x2 \in Nat /\ c \in 0 .. B - 1 /\ d \in 0 .. B - 1
            /\ B \in Nat \ {0}
        <5>1. x1 \in Nat /\ x2 \in Nat
          BY <3>1, <3>3
        <5>2. B \in Nat \ {0}
          BY Counts
        <5>3. a \in 1 .. B /\ b \in 1 .. B
          OBVIOUS
        <5> HIDE DEF x1, x2, B
        <5>4. c \in 0 .. B - 1 /\ d \in 0 .. B - 1
          BY <5>2, <5>3
        <5> QED BY <5>1, <5>2, <5>4
      <4>2. l.block + (B * x1 + c) = l.block + (B * x2 + d)
        BY <3>1, <3>3
      <4> HIDE DEF x1, x2, c, d, B
      <4>3. B * x1 + c = B * x2 + d
        <5> DEFINE y1 == B * x1 + c
                   y2 == B * x2 + d
                   start == l.block
        <5>1. B * x1 \in Nat /\ B * x2 \in Nat
          BY <4>1
        <5>2. c \in Nat /\ d \in Nat
          BY <4>1
        <5>3. y1 \in Nat /\ y2 \in Nat
          BY <5>1, <5>2
        <5>4. start + y1 = start + y2 /\ start \in Nat
          BY <1>a, <4>2
        <5> HIDE DEF y1, y2, start
        <5>5. y1 = y2
          BY ONLY <5>3, <5>4
        <5> QED BY <5>5 DEF y1, y2
      <4>4. x1 = x2 /\ c = d
        <5>1. (B * x1 + c) \div B = x1 /\ (B * x1 + c) % B = c
          BY <4>1, OnlyParts
        <5>2. (B * x2 + d) \div B = x2 /\ (B * x2 + d) % B = d
          BY <4>1, OnlyParts
        <5> QED BY <4>3, <5>1, <5>2
      <4> QED BY <1>a, <2>7, <4>4, Counts DEF x1, x2, c, d, EntryNumbers
    <3>4. CASE ~mine(e1) /\ ~mine(e2)
      <4>1. e1 \in Used(l.dir) /\ e2 \in Used(l.dir)
            /\ l.dir[e1].blocks[a] # 0 /\ l.dir[e1].blocks[a] = l.dir[e2].blocks[b]
        BY <3>2, <3>4
      <4> QED BY <4>1 DEF Listing, NoBlockTwice
    <3>5. CASE mine(e1) /\ ~mine(e2)
      BY <1>a, <3>1, <3>2, <3>5
    <3>6. CASE ~mine(e1) /\ mine(e2)
      BY <1>a, <3>1, <3>2, <3>6
    <3> QED BY <3>3, <3>4, <3>5, <3>6
  <2>15. Listing(m, host, order, i + 1)
    BY <2>b, <2>9, <2>10, <2>11, <2>13, <2>14 DEF Listing
  <2> QED BY <2>15 DEF m
<1> QED BY <1>6, <1>7

(* The greatest of a bounded set of numbers.                               *)
LEMMA MaxIs ==
  ASSUME NEW T \in SUBSET Nat, T # {}, NEW b \in Nat, \A y \in T : y <= b
  PROVE  Max(T) \in T /\ \A y \in T : y <= Max(T)
<1> DEFINE U == { b - y : y \in T }
<1>1. U \in SUBSET Nat /\ U # {}
  <2>1. \A y \in T : b - y \in Nat
    OBVIOUS
  <2>2. U \in SUBSET Nat
    BY <2>1
  <2>3. PICK y \in T : TRUE
    OBVIOUS
  <2>4. b - y \in U
    BY <2>3
  <2> QED BY <2>2, <2>4
<1>2. PICK z \in U : \A y \in U : z <= y
  BY <1>1, SetMin
<1>3. PICK x \in T : z = b - x
  OBVIOUS
<1>4. \A y \in T : x >= y
  <2> TAKE y \in T
  <2>1. b - y \in U
    OBVIOUS
  <2>2. b - x <= b - y
    BY <1>2, <1>3, <2>1
  <2> QED BY <2>2
<1>5. Max(T) \in T /\ \A y \in T : Max(T) >= y
  BY <1>4 DEF Max
<1>6. Max(T) \in Nat
  BY <1>5
<1> QED BY <1>5, <1>6

(* The length of a file is that listed only if each of its entries has the *)
(* right number of records.                                                *)
LEMMA ListedRight ==
  ASSUME NEW dir \in [EntryNumbers -> DiskEntry], NEW n, NEW len \in Nat,
         \A e \in EntryNumbers : dir[e].name = n => Listed(dir[e], len),
         \A e, x \in EntryNumbers :
           dir[e].name = n /\ dir[x].name = n /\ dir[e].ext = dir[x].ext => e = x,
         \A e \in EntryNumbers : dir[e].name = n =>
           \A y \in 0 .. dir[e].ext : \E x \in EntryNumbers : dir[x].name = n /\ dir[x].ext = y,
         len = ListedLength(dir, n)
  PROVE  /\ \A e \in EntryNumbers : dir[e].name = n => EntryFits(dir[e], len)
         /\ \A y \in 0 .. len - 1 : y * ExtentSize < len =>
              \E x \in EntryNumbers : dir[x].name = n /\ dir[x].ext = y
<1> DEFINE mine == { x \in EntryNumbers : dir[x].name = n }
           end(e) == dir[e].ext * ExtentSize + ExtentRecords(dir[e])
           ends == { end(e) : e \in mine }
<1>1. len = IF ends = {} THEN 0 ELSE Max(ends)
  BY DEF ListedLength
<1>2. ASSUME NEW e \in mine
      PROVE  /\ dir[e] \in DiskEntry /\ Listed(dir[e], len)
             /\ dir[e].ext \in Nat /\ ExtentRecords(dir[e]) \in 0 .. ExtentSize
             /\ dir[e].ext * ExtentSize = ExtentSize * dir[e].ext
             /\ ExtentSize * dir[e].ext \in Nat
             /\ ExtentSize * (dir[e].ext + 1) = ExtentSize * dir[e].ext + ExtentSize
             /\ end(e) \in Nat /\ end(e) <= len + ExtentSize
  <2>1. dir[e] \in DiskEntry /\ Listed(dir[e], len)
    OBVIOUS
  <2> DEFINE x == dir[e].ext
             r == ExtentRecords(dir[e])
  <2>2. x \in Nat /\ r \in 0 .. ExtentSize
    BY <2>1, EntryIs
  <2>3. x = 0 \/ ExtentSize * x < len
    BY <2>1 DEF Listed
  <2> HIDE DEF x, r
  <2>4. x * ExtentSize = ExtentSize * x /\ ExtentSize * x \in Nat
        /\ ExtentSize * (x + 1) = ExtentSize * x + ExtentSize
    BY <2>2, Counts
  <2>5. ExtentSize * x <= len
    BY <2>3, <2>4, Counts
  <2>6. x * ExtentSize + r \in Nat /\ x * ExtentSize + r <= len + ExtentSize
    BY <2>2, <2>4, <2>5, Counts
  <2> QED BY <2>1, <2>2, <2>4, <2>6 DEF x, r
<1>3. CASE mine = {}
  BY <1>1, <1>3
<1>4. CASE mine # {}
  <2> DEFINE b == len + ExtentSize
  <2>1. ends \in SUBSET Nat /\ ends # {} /\ b \in Nat /\ \A y \in ends : y <= b
    <3> HIDE DEF end, mine
    <3> QED BY <1>2, <1>4, Counts
  <2>2. Max(ends) \in ends
    <3> HIDE DEF ends, b
    <3> QED BY <2>1, MaxIs
  <2>3. PICK m \in mine : len = end(m)
    <3>1. len = Max(ends)
      BY <1>1, <2>1
    <3>2. len \in ends
      BY <2>2, <3>1
    <3> HIDE DEF end, mine
    <3> QED BY <3>2
  <2> DEFINE xm == dir[m].ext
             rm == ExtentRecords(dir[m])
  <2>4. /\ xm \in Nat /\ rm \in 0 .. ExtentSize /\ ExtentSize * xm \in Nat
        /\ len = ExtentSize * xm + rm
        /\ xm = 0 \/ ExtentSize * xm < len
    <3> HIDE DEF mine
    <3>1. Listed(dir[m], len)
      BY <1>2
    <3>2. xm = 0 \/ ExtentSize * xm < len
      BY <3>1 DEF Listed
    <3>3. xm * ExtentSize = ExtentSize * xm
      BY <1>2
    <3>4. xm \in Nat /\ rm \in 0 .. ExtentSize /\ ExtentSize * xm \in Nat
      BY <1>2
    <3> QED BY <2>3, <3>2, <3>3, <3>4
  <2>5. ASSUME NEW x \in Nat, xm < x PROVE ~ (ExtentSize * x < len)
    <3> HIDE DEF xm, rm
    <3>1. ExtentSize * xm + ExtentSize <= ExtentSize * x
      BY <2>4, <2>5, Counts, Multiples
    <3>2. ExtentSize * x \in Nat
      BY Counts
    <3> QED BY <2>4, <3>1, <3>2, Counts
  <2>6. ASSUME NEW e \in mine PROVE EntryFits(dir[e], len)
    <3> DEFINE x == dir[e].ext
               r == ExtentRecords(dir[e])
    <3>1. /\ x \in Nat /\ r \in 0 .. ExtentSize /\ ExtentSize * x \in Nat
          /\ x * ExtentSize = ExtentSize * x
          /\ x = 0 \/ ExtentSize * x < len
          /\ ExtentSize * x + ExtentSize < len => r = ExtentSize
          /\ \A i \in 1 .. BlocksPerExtent :
               dir[e].blocks[i] # 0 <=> ExtentSize * x + RecPerBlock * (i - 1) < len
      <4> HIDE DEF mine
      <4>1. Listed(dir[e], len)
        BY <1>2
      <4>2. /\ x = 0 \/ ExtentSize * x < len
            /\ ExtentSize * (x + 1) < len => r = ExtentSize
            /\ \A i \in 1 .. BlocksPerExtent :
                 dir[e].blocks[i] # 0 <=> ExtentSize * x + RecPerBlock * (i - 1) < len
        BY <4>1 DEF Listed
      <4>3. /\ x \in Nat /\ r \in 0 .. ExtentSize /\ ExtentSize * x \in Nat
            /\ x * ExtentSize = ExtentSize * x
            /\ ExtentSize * (x + 1) = ExtentSize * x + ExtentSize
        BY <1>2
      <4> QED BY <4>2, <4>3
    <3>2. x = xm => r = rm
      BY <2>3
    <3> HIDE DEF x, r, xm, rm
    <3>3. x <= xm
      BY <2>4, <2>5, <3>1
    <3>4. /\ ExtentSize * x <= len
          /\ r = AtMost(len - ExtentSize * x, ExtentSize)
      <4>1. CASE x = xm
        BY <2>4, <3>1, <3>2, <4>1, Counts DEF AtMost
      <4>2. CASE x < xm
        <5>1. ExtentSize * x + ExtentSize <= ExtentSize * xm
          BY <2>4, <3>1, <4>2, Counts, Multiples
        <5>2. ExtentSize * xm < len
          BY <2>4, <3>1, <4>2
        <5> QED BY <2>4, <3>1, <5>1, <5>2, Counts DEF AtMost
      <4> QED BY <2>4, <3>1, <3>3, <4>1, <4>2
    <3>5. ASSUME NEW i \in 1 .. BlocksPerExtent
          PROVE  (i - 1) * RecPerBlock < r <=> dir[e].blocks[i] # 0
      <4> DEFINE j == i - 1
                 c == RecPerBlock * j
      <4>1. j \in Nat /\ j < BlocksPerExtent
        BY Counts
      <4> HIDE DEF j
      <4>2. c \in Nat /\ c < ExtentSize
        <5>1. RecPerBlock * j + RecPerBlock <= RecPerBlock * BlocksPerExtent
          BY <4>1, Counts, Multiples
        <5>2. RecPerBlock * BlocksPerExtent = ExtentSize
          BY Sizes
        <5>3. c \in Nat
          BY <4>1, Counts
        <5> QED BY <5>1, <5>2, <5>3, Counts
      <4>3. j * RecPerBlock = c
        BY <4>1, Counts
      <4>4. dir[e].blocks[i] # 0 <=> ExtentSize * x + c < len
        BY <3>1 DEF j
      <4> HIDE DEF c
      <4>5. c < r <=> ExtentSize * x + c < len
        BY <3>1, <3>4, <4>2, Counts DEF AtMost
      <4> QED BY <4>3, <4>4, <4>5 DEF j
    <3> QED BY <3>1, <3>4, <3>5 DEF EntryFits, x, r
  <2>7. ASSUME NEW y \in 0 .. len - 1, y * ExtentSize < len
        PROVE \E x \in EntryNumbers : dir[x].name = n /\ dir[x].ext = y
    <3>1. y \in Nat /\ y * ExtentSize = ExtentSize * y
      BY Counts
    <3>2. y <= xm
      <4> HIDE DEF xm
      <4> QED BY <2>4, <2>5, <2>7, <3>1
    <3>3. y \in 0 .. dir[m].ext
      BY <2>4, <3>1, <3>2
    <3> QED BY <3>3
  <2> QED BY <2>6, <2>7
<1> QED BY <1>3, <1>4

(* An order of the files of the host has each of them once.                *)
LEMMA OrderIs ==
  ASSUME NEW host, HostOK(host), NEW order \in Orders(DOMAIN host)
  PROVE  \E n \in Nat : /\ order \in [1 .. n -> DOMAIN host] /\ Len(order) = n
                        /\ \A a, b \in 1 .. n : order[a] = order[b] => a = b
<1> DEFINE n == Cardinality(DOMAIN host)
<1>1. IsFiniteSet(DOMAIN host)
  BY NoName, FS_Subset DEF HostOK
<1>2. n \in Nat
  BY <1>1, FS_CardinalityType
<1>3. order \in [1 .. n -> DOMAIN host] /\ \A a, b \in DOMAIN order : order[a] = order[b] => a = b
  BY DEF Orders
<1> HIDE DEF n
<1>4. Len(order) = n /\ DOMAIN order = 1 .. n
  BY <1>2, <1>3
<1> QED BY <1>2, <1>3, <1>4

(* What the disk is like when it has been opened.                          *)
LEMMA OpenedIs ==
  ASSUME NEW host, HostOK(host), NEW order \in Orders(DOMAIN host),
         NEW d, d = Opened(host, order)
  PROVE  /\ DiskOK(d) /\ d.host = host /\ DOMAIN d.buf = {}
         /\ \A e \in Used(d.dir) : d.map[e] \in DOMAIN host /\ d.dir[e].name = d.map[e]
         /\ Structure(d.dir, d.map, Lengths(host), ListedWrong(d), {})
<1>1. PICK n \in Nat : /\ order \in [1 .. n -> DOMAIN host] /\ Len(order) = n
                       /\ \A a, b \in 1 .. n : order[a] = order[b] => a = b
  BY OrderIs
<1>2. PICK f : ListedSteps(f, host, order, n)
  BY <1>1, OpenedSteps
<1>3. Listing(NoneListed, host, order, 0)
  <2> DEFINE l == NoneListed
  <2>1. /\ l.dir = [e \in EntryNumbers |-> FreeEntry]
        /\ l.map = [e \in EntryNumbers |-> NoFile]
        /\ l.next = 1 /\ l.block = DirBlocks
        /\ l = [dir |-> l.dir, map |-> l.map, next |-> l.next, block |-> l.block, full |-> l.full]
    BY DEF NoneListed
  <2>2. FreeEntry \in DiskEntry
    BY Counts DEF FreeEntry, DiskEntry, NoBlocks, BlockList
  <2>3. Used(l.dir) = {}
    BY <2>1 DEF Used, InUse, FreeEntry
  <2>4. 1 \in 1 .. Entries + 1
    BY Counts
  <2> HIDE DEF l
  <2> QED BY <2>1, <2>2, <2>3, <2>4, Counts DEF Listing, NoBlockTwice, NoExtentTwice, l
<1> DEFINE S == {i \in Nat : i <= n => Listing(f[i], host, order, i)}
<1>4. 0 \in S
  BY <1>2, <1>3 DEF ListedSteps
<1>5. ASSUME NEW i \in Nat, i \in S PROVE i + 1 \in S
  <2> SUFFICES ASSUME i + 1 <= n PROVE Listing(f[i + 1], host, order, i + 1)
    OBVIOUS
  <2>1. Listing(f[i], host, order, i) /\ i + 1 \in 1 .. n
    BY <1>5
  <2>2. f[i + 1] = ListNext(f[i], host, order, i + 1)
    BY <1>2, <2>1 DEF ListedSteps
  <2>3. Listing(ListNext(f[i], host, order, i + 1), host, order, i + 1)
    BY <1>1, <2>1, ListStep
  <2> QED BY <2>2, <2>3
<1>6. Listing(f[n], host, order, n)
  <2> HIDE DEF S
  <2>1. \A i \in Nat : i \in S
    BY <1>4, <1>5, Induct
  <2>2. n \in S /\ n <= n
    BY <2>1
  <2> QED BY <2>2 DEF S
<1> DEFINE l == f[n]
<1> HIDE DEF l
<1>7. d = [dir |-> l.dir, map |-> l.map, buf |-> <<>>, host |-> host]
  BY <1>2 DEF ListedSteps, l
<1>8. d.dir = l.dir /\ d.map = l.map /\ d.host = host /\ d.buf = <<>>
      /\ d = [dir |-> d.dir, map |-> d.map, buf |-> d.buf, host |-> d.host]
  BY <1>7
<1>9. /\ l.dir \in [EntryNumbers -> DiskEntry]
      /\ l.map \in [EntryNumbers -> Names \cup {NoFile}]
      /\ \A e \in Used(l.dir) :
           /\ l.dir[e].name = l.map[e]
           /\ \E j \in 1 .. n : l.map[e] = order[j]
           /\ Listed(l.dir[e], Len(host[l.map[e]]))
           /\ \A y \in 0 .. l.dir[e].ext :
                \E x \in Used(l.dir) : l.map[x] = l.map[e] /\ l.dir[x].ext = y
      /\ NoBlockTwice(l.dir)
      /\ NoExtentTwice(l.dir, l.map)
  BY <1>6 DEF Listing, l
<1>10. DOMAIN d.buf = {}
  BY <1>8
<1>11. DiskOK(d)
  <2>1. d.buf \in [DOMAIN d.buf -> SectorData]
    BY <1>8
  <2> QED BY <1>8, <1>9, <1>10, <2>1 DEF DiskOK
<1>12. \A e \in Used(d.dir) : d.map[e] \in DOMAIN host /\ d.dir[e].name = d.map[e]
  BY <1>1, <1>8, <1>9
<1>13. FirstThere(d.dir, d.map, {})
  <2> SUFFICES ASSUME NEW e \in Used(d.dir)
               PROVE \E x \in Used(d.dir) : d.map[x] = d.map[e] /\ d.dir[x].ext = 0
    BY DEF FirstThere
  <2>1. d.dir[e] \in DiskEntry
    BY <1>8, <1>9 DEF Used
  <2>2. 0 \in 0 .. d.dir[e].ext
    BY <2>1, EntryIs
  <2> QED BY <1>8, <1>9, <2>2
<1>14. ASSUME NEW n2 \in DOMAIN Lengths(host) \ ListedWrong(d)
       PROVE FileFits(d.dir, d.map, n2, Lengths(host)[n2])
  <2> DEFINE len == Len(host[n2])
             dir == d.dir
  <2>1. n2 \in DOMAIN host /\ n2 \in Names /\ host[n2] \in Seq(Int)
    BY DEF Lengths, HostOK
  <2>2. Lengths(host)[n2] = len /\ len \in Nat /\ len = ListedLength(dir, n2)
    BY <1>8, <2>1 DEF Lengths, ListedWrong
  <2>3. dir \in [EntryNumbers -> DiskEntry]
    BY <1>8, <1>9
  <2>4. \A e \in EntryNumbers : dir[e].name = n2 => e \in Used(dir) /\ d.map[e] = n2
    BY <1>12, <2>1, NoName DEF Used, InUse
  <2>5. \A e \in EntryNumbers : dir[e].name = n2 => Listed(dir[e], len)
    BY <1>8, <1>9, <2>4
  <2>6. \A e, x \in EntryNumbers :
          dir[e].name = n2 /\ dir[x].name = n2 /\ dir[e].ext = dir[x].ext => e = x
    BY <1>8, <1>9, <2>4 DEF NoExtentTwice
  <2>7. ASSUME NEW e \in EntryNumbers, dir[e].name = n2, NEW y \in 0 .. dir[e].ext
        PROVE \E x \in EntryNumbers : dir[x].name = n2 /\ dir[x].ext = y
    <3>1. PICK x \in Used(dir) : d.map[x] = d.map[e] /\ dir[x].ext = y
      BY <1>8, <1>9, <2>4, <2>7
    <3>2. x \in EntryNumbers /\ dir[x].name = n2
      BY <1>12, <2>4, <2>7, <3>1 DEF Used
    <3> QED BY <3>1, <3>2
  <2> HIDE DEF len, dir
  <2>8. /\ \A e \in EntryNumbers : dir[e].name = n2 => EntryFits(dir[e], len)
        /\ \A y \in 0 .. len - 1 : y * ExtentSize < len =>
             \E x \in EntryNumbers : dir[x].name = n2 /\ dir[x].ext = y
    BY <2>2, <2>3, <2>5, <2>6, <2>7, ListedRight
  <2>9. \A e \in Used(dir) : d.map[e] = n2 => EntryFits(dir[e], len)
    BY <1>12, <2>8 DEF dir, Used
  <2>10. \A y \in 0 .. len - 1 : y * ExtentSize < len =>
           \E e \in Used(dir) : d.map[e] = n2 /\ dir[e].ext = y
    BY <2>4, <2>8
  <2> QED BY <2>2, <2>9, <2>10 DEF FileFits, dir
<1>15. Structure(d.dir, d.map, Lengths(host), ListedWrong(d), {})
  BY <1>8, <1>9, <1>13, <1>14 DEF Structure
<1> QED BY <1>8, <1>10, <1>11, <1>12, <1>15
-----------------------------------------------------------------------------
(* Disks that hold their files.                                            *)

(* Two directories with the same extents under other names.                *)
Alike(dir1, dir2) ==
  \A e \in EntryNumbers :
    /\ InUse(dir1[e]) <=> InUse(dir2[e])
    /\ dir1[e].ext = dir2[e].ext
    /\ ExtentRecords(dir1[e]) = ExtentRecords(dir2[e])
    /\ dir1[e].blocks = dir2[e].blocks

(* Directories that differ in no block and length read the same.           *)
LEMMA AlikeSame ==
  ASSUME NEW d, NEW x, NEW f, NEW w, NEW g,
         Alike(d.dir, x.dir), x.map = d.map, x.buf = d.buf, x.host = d.host
  PROVE  /\ Used(x.dir) = Used(d.dir)
         /\ Records(x, f, w) = Records(d, f, w)
         /\ Structure(d.dir, d.map, Lengths(f), w, g)
              => Structure(x.dir, x.map, Lengths(f), w, g)
         /\ BufferedRight(d, f, w) => BufferedRight(x, f, w)
         /\ \A told : OthersRight(d, told, f, w) => OthersRight(x, told, f, w)
         /\ Unbuffered(d, w, g) => Unbuffered(x, w, g)
         /\ \A host, s : Comes(host, d, f, w, s) => Comes(host, x, f, w, s)
<1>1. Used(x.dir) = Used(d.dir)
  BY DEF Used, Alike
<1>2. Records(x, f, w) = Records(d, f, w)
  BY <1>1 DEF Records, Alike, Used
<1>3. \A ek \in Records(d, f, w) :
        /\ SectorOf(x.dir[ek[1]], ek[2]) = SectorOf(d.dir[ek[1]], ek[2])
        /\ Cell(x.dir[ek[1]], ek[2]) = Cell(d.dir[ek[1]], ek[2])
  BY DEF Records, Alike, Used, SectorOf, Cell
<1>4. ASSUME Structure(d.dir, d.map, Lengths(f), w, g)
      PROVE  Structure(x.dir, x.map, Lengths(f), w, g)
  <2>1. NoBlockTwice(x.dir)
    BY <1>1, <1>4 DEF Structure, NoBlockTwice, Alike, Used
  <2>2. NoExtentTwice(x.dir, x.map)
    BY <1>1, <1>4 DEF Structure, NoExtentTwice, Alike, Used
  <2>3. FirstThere(x.dir, x.map, g)
    BY <1>1, <1>4 DEF Structure, FirstThere, Alike, Used
  <2>4. ASSUME NEW n \in DOMAIN Lengths(f) \ w PROVE FileFits(x.dir, x.map, n, Lengths(f)[n])
    <3>1. FileFits(d.dir, d.map, n, Lengths(f)[n])
      BY <1>4 DEF Structure
    <3>2. \A e \in Used(d.dir) : EntryFits(d.dir[e], Lengths(f)[n]) => EntryFits(x.dir[e], Lengths(f)[n])
      BY DEF EntryFits, Alike, Used
    <3>3. \A e \in Used(d.dir) : x.dir[e].ext = d.dir[e].ext
      BY DEF Alike, Used
    <3> QED BY <1>1, <3>1, <3>2, <3>3 DEF FileFits
  <2> QED BY <2>1, <2>2, <2>3, <2>4 DEF Structure
<1>5. BufferedRight(d, f, w) => BufferedRight(x, f, w)
  BY <1>2, <1>3 DEF BufferedRight
<1>6. \A told : OthersRight(d, told, f, w) => OthersRight(x, told, f, w)
  BY <1>2, <1>3 DEF OthersRight
<1>7. Unbuffered(d, w, g) => Unbuffered(x, w, g)
  BY <1>1 DEF Unbuffered, Alike, Buffers, Used
<1>8. ASSUME NEW host, NEW s, Comes(host, d, f, w, s) PROVE Comes(host, x, f, w, s)
  <2>1. \A n, p : Waits(d, f, w, n, p, s) => Waits(x, f, w, n, p, s)
    BY <1>2, <1>3 DEF Waits
  <2> QED BY <1>8, <2>1 DEF Comes
<1> QED BY <1>1, <1>2, <1>4, <1>5, <1>6, <1>7, <1>8

(* The disk x has the files f, without those of g that are being erased.   *)
Held(x, f, w, g) ==
  /\ DiskOK(x) /\ HostOK(f)
  /\ Structure(x.dir, x.map, Lengths(f), w, g)
  /\ BufferedRight(x, f, w) /\ Unbuffered(x, w, g)
  /\ DOMAIN x.host \ g = DOMAIN f
  /\ \A n \in DOMAIN f : x.host[n] = f[n]

(* A flushed disk holds its files.                                         *)
LEMMA SettledHeld ==
  ASSUME NEW x, NEW d, NEW f, NEW w, NEW g, Flushable(d, f, w, g), Settled(x, d, f)
  PROVE  Held(x, f, w, g) /\ x.dir = d.dir /\ x.map = d.map /\ DOMAIN x.host = DOMAIN d.host
<1>1. x.dir = d.dir /\ x.map = d.map
  BY DEF Settled
<1>2. /\ x.buf = [t \in DOMAIN x.buf |-> d.buf[t]] /\ DOMAIN x.buf \subseteq DOMAIN d.buf
      /\ \A t \in DOMAIN x.buf : x.buf[t] = d.buf[t]
  BY DEF Settled
<1>3. DOMAIN x.host = DOMAIN d.host /\ HostOK(x.host) /\ \A n \in DOMAIN f : x.host[n] = f[n]
  BY DEF Settled
<1>4. DiskOK(x)
  <2>1. x = [dir |-> x.dir, map |-> x.map, buf |-> x.buf, host |-> x.host]
    BY DEF Settled
  <2>2. d.buf \in [DOMAIN d.buf -> SectorData]
    BY DEF Flushable, DiskOK
  <2>3. x.buf \in [DOMAIN x.buf -> SectorData]
    BY <1>2, <2>2
  <2>4. \A s \in DOMAIN x.buf : s \in Nat /\ s \div SecPerBlock \in DataBlocks
    BY <1>2 DEF Flushable, DiskOK
  <2>5. x.dir \in [EntryNumbers -> DiskEntry] /\ x.map \in [EntryNumbers -> Names \cup {NoFile}]
    BY <1>1 DEF Flushable, DiskOK
  <2> QED BY <2>1, <2>3, <2>4, <2>5, <1>3 DEF DiskOK
<1>5. Records(x, f, w) = Records(d, f, w)
  BY <1>1 DEF Records
<1>6. BufferedRight(x, f, w)
  BY <1>1, <1>2, <1>5 DEF Flushable, BufferedRight
<1>7. Unbuffered(x, w, g)
  BY <1>1, <1>2 DEF Flushable, Unbuffered, Buffers
<1>8. HostOK(f) /\ Structure(x.dir, x.map, Lengths(f), w, g) /\ DOMAIN x.host \ g = DOMAIN f
  BY <1>1, <1>3 DEF Flushable
<1> QED BY <1>1, <1>3, <1>4, <1>6, <1>7, <1>8 DEF Held

(* A disk that holds its files can be flushed.                             *)
LEMMA HeldFlushable ==
  ASSUME NEW x, NEW f, NEW w, NEW g, Held(x, f, w, g), g \cap DOMAIN f = {},
         \A e \in Used(x.dir) : x.map[e] \in DOMAIN f \cup g,
         \A e \in Used(x.dir) : x.map[e] \in g /\ x.dir[e].ext = 0 => x.map[e] \in DOMAIN x.host
  PROVE  Flushable(x, f, w, g)
<1>1. Comes(x.host, x, f, w, 0)
  <2>1. \A n \in DOMAIN f : f[n] \in Seq(Int) /\ x.host[n] = f[n]
    BY DEF Held, HostOK
  <2>2. \A n \in DOMAIN f : Len(x.host[n]) = Len(f[n]) /\ Len(f[n]) \in Nat
    BY <2>1
  <2> QED BY <2>1, <2>2 DEF Comes, OnHost
<1> QED BY <1>1 DEF Held, Flushable

(* A disk holds its files under a directory that reads the same.           *)
LEMMA HeldAlike ==
  ASSUME NEW d, NEW x, NEW f, NEW w, NEW g, Held(d, f, w, g),
         DiskOK(x), Alike(d.dir, x.dir), x.map = d.map, x.buf = d.buf, x.host = d.host
  PROVE  Held(x, f, w, g)
BY AlikeSame DEF Held

(* What is not buffered is on the host.                                    *)
LEMMA HeldOthers ==
  ASSUME NEW x, NEW f, NEW w, NEW g, Held(x, f, w, g), NEW told,
         \A e \in Used(x.dir) : ExtentRecords(told[e]) = ExtentRecords(x.dir[e])
  PROVE  OthersRight(x, told, f, w)
BY DEF Held, OthersRight, Records
-----------------------------------------------------------------------------
(* The directory of CP/M.                                                  *)

(* The length of a file and the last of its entries.                       *)
LEMMA ExtentLen ==
  ASSUME NEW dir \in [EntryNumbers -> DiskEntry], NEW map, NEW name, NEW len \in Nat,
         FileFits(dir, map, name, len), NEW e \in Used(dir), map[e] = name
  PROVE  /\ dir[e].ext * ExtentSize + ExtentRecords(dir[e]) <= len
         /\ (\A x \in Used(dir) : map[x] = name => dir[x].ext # dir[e].ext + 1) =>
              /\ len = dir[e].ext * ExtentSize + ExtentRecords(dir[e])
              /\ \A x \in Used(dir) : map[x] = name =>
                   /\ dir[x].ext <= dir[e].ext
                   /\ dir[x].ext < dir[e].ext =>
                        /\ ExtentRecords(dir[x]) = ExtentSize
                        /\ dir[x].ext * ExtentSize + ExtentSize <= dir[e].ext * ExtentSize
         /\ (\E x \in Used(dir) : map[x] = name /\ dir[x].ext = dir[e].ext + 1)
              => ExtentRecords(dir[e]) = ExtentSize
<1> DEFINE mine == { x \in Used(dir) : map[x] = name }
<1>1. ASSUME NEW x \in mine
      PROVE  /\ dir[x] \in DiskEntry /\ dir[x].ext \in Nat /\ dir[x].ext * ExtentSize \in Nat
             /\ dir[x].ext * ExtentSize = ExtentSize * dir[x].ext
             /\ ExtentRecords(dir[x]) \in 0 .. ExtentSize
             /\ dir[x].ext * ExtentSize <= len
             /\ ExtentRecords(dir[x]) = AtMost(len - dir[x].ext * ExtentSize, ExtentSize)
  <2>1. dir[x] \in DiskEntry
    BY DEF Used
  <2>2. EntryFits(dir[x], len)
    BY DEF FileFits
  <2>3. dir[x].ext * ExtentSize = ExtentSize * dir[x].ext
    <3> DEFINE y == dir[x].ext
    <3>1. y \in Nat
      BY <2>1, EntryIs
    <3> HIDE DEF y
    <3>2. y * ExtentSize = ExtentSize * y
      BY <3>1, Counts
    <3> QED BY <3>2 DEF y
  <2> QED BY <2>1, <2>2, <2>3, EntryIs DEF EntryFits
<1>2. e \in mine
  OBVIOUS
<1>3. ASSUME NEW x \in mine, NEW z \in mine, dir[x].ext < dir[z].ext
      PROVE  /\ dir[x].ext * ExtentSize + ExtentSize <= dir[z].ext * ExtentSize
             /\ ExtentRecords(dir[x]) = ExtentSize
  <2> DEFINE a == dir[x].ext
             c == dir[z].ext
             p == ExtentSize * a
             q == ExtentSize * c
             r == ExtentRecords(dir[x])
  <2>1. /\ a \in Nat /\ c \in Nat /\ a < c
        /\ dir[x].ext * ExtentSize = p /\ dir[z].ext * ExtentSize = q
        /\ p \in Nat /\ q \in Nat /\ q <= len /\ r = AtMost(len - p, ExtentSize)
    <3>1. dir[x].ext * ExtentSize = p /\ dir[z].ext * ExtentSize = q
      BY <1>1
    <3> QED BY <1>1, <1>3, <3>1
  <2>2. p + ExtentSize <= q
    <3> HIDE DEF a, c
    <3> QED BY <2>1, Counts, Multiples
  <2> HIDE DEF a, c, p, q, r
  <2>3. r = ExtentSize
    BY <2>1, <2>2, Counts DEF AtMost
  <2> QED BY <2>1, <2>2, <2>3 DEF r
<1>4. dir[e].ext * ExtentSize + ExtentRecords(dir[e]) <= len
  <2> DEFINE p == dir[e].ext * ExtentSize
             r == ExtentRecords(dir[e])
  <2>1. p \in Nat /\ p <= len /\ r = AtMost(len - p, ExtentSize)
    BY <1>1, <1>2
  <2> HIDE DEF p, r
  <2>2. p + r <= len
    BY <2>1, Counts DEF AtMost
  <2> QED BY <2>2 DEF p, r
<1>5. ASSUME \A x \in Used(dir) : map[x] = name => dir[x].ext # dir[e].ext + 1
      PROVE  /\ len = dir[e].ext * ExtentSize + ExtentRecords(dir[e])
             /\ \A x \in mine : dir[x].ext <= dir[e].ext
  <2> DEFINE a == dir[e].ext
             p == ExtentSize * a
             r == ExtentRecords(dir[e])
  <2>1. /\ a \in Nat /\ p \in Nat /\ dir[e].ext * ExtentSize = p /\ p <= len
        /\ r = AtMost(len - p, ExtentSize)
    <3>1. dir[e].ext * ExtentSize = p
      BY <1>1, <1>2
    <3> QED BY <1>1, <1>2, <3>1
  <2>2. a + 1 \in Nat /\ (a + 1) * ExtentSize = p + ExtentSize
    <3> HIDE DEF a
    <3> QED BY <2>1, Counts
  <2>3. ~ ((a + 1) * ExtentSize < len)
    <3> SUFFICES ASSUME (a + 1) * ExtentSize < len PROVE FALSE
      OBVIOUS
    <3>1. a + 1 <= len - 1
      <4>1. a + 1 <= (a + 1) * ExtentSize
        <5> HIDE DEF a
        <5>1. ExtentSize * a + ExtentSize >= a + 1
          <6>1. PICK z \in Nat : ExtentSize = z + 1
            <7>1. ExtentSize - 1 \in Nat /\ ExtentSize = (ExtentSize - 1) + 1
              BY Counts
            <7> QED BY <7>1
          <6>2. (z + 1) * a = z * a + a /\ z * a \in Nat
            BY <2>1, <6>1
          <6> QED BY <2>1, <6>1, <6>2
        <5> QED BY <2>2, <5>1 DEF p
      <4> HIDE DEF a, p
      <4> QED BY <2>1, <2>2, <4>1, Counts
    <3>2. a + 1 \in 0 .. len - 1
      <4> HIDE DEF a
      <4> QED BY <2>1, <3>1
    <3>3. \E x \in Used(dir) : map[x] = name /\ dir[x].ext = a + 1
      BY <3>2 DEF FileFits
    <3> QED BY <1>5, <3>3
  <2>4. len <= p + ExtentSize
    <3> HIDE DEF a, p
    <3> QED BY <2>1, <2>2, <2>3, Counts
  <2>5. len = p + r
    <3> HIDE DEF a, p, r
    <3> QED BY <2>1, <2>4, Counts DEF AtMost
  <2>6. ASSUME NEW x \in mine PROVE dir[x].ext <= a
    <3> SUFFICES ASSUME ~ (dir[x].ext <= a) PROVE FALSE
      OBVIOUS
    <3> DEFINE c == dir[x].ext
               q == ExtentSize * c
    <3>1. c \in Nat /\ a < c /\ dir[x].ext * ExtentSize = q /\ q <= len /\ q \in Nat
      <4>1. dir[x].ext * ExtentSize = q
        BY <1>1
      <4> QED BY <1>1, <2>1, <4>1
    <3>2. c # a + 1
      BY <1>5
    <3> HIDE DEF a, c
    <3>3. a + 1 < c
      BY <2>1, <3>1, <3>2
    <3>4. ExtentSize * (a + 1) + ExtentSize <= ExtentSize * c
      BY <2>2, <3>1, <3>3, Counts, Multiples
    <3>5. ExtentSize * (a + 1) = p + ExtentSize
      BY <2>1, <2>2, Counts
    <3> HIDE DEF p, q
    <3> QED BY <2>1, <2>4, <3>1, <3>4, <3>5, Counts DEF q
  <2> QED BY <2>1, <2>5, <2>6
<1>6. (\E x \in Used(dir) : map[x] = name /\ dir[x].ext = dir[e].ext + 1)
        => ExtentRecords(dir[e]) = ExtentSize
  <2> SUFFICES ASSUME NEW x \in mine, dir[x].ext = dir[e].ext + 1
               PROVE ExtentRecords(dir[e]) = ExtentSize
    OBVIOUS
  <2>1. dir[e].ext < dir[x].ext
    BY <1>1, <1>2
  <2> QED BY <1>2, <1>3, <2>1
<1> QED BY <1>2, <1>3, <1>4, <1>5, <1>6

(* The entry that the BDOS writes.                                         *)
LEMMA FcbEntryIs ==
  ASSUME NEW name \in Names, NEW x \in Nat, NEW recs \in 0 .. ExtentSize,
         NEW blocks \in BlockList, NEW entry,
         entry = [name |-> name, ext |-> x,
                  ex |-> IF recs > RecordsPerRC THEN 1 ELSE 0,
                  rc |-> IF recs > RecordsPerRC THEN recs - RecordsPerRC ELSE recs,
                  blocks |-> blocks]
  PROVE  /\ entry \in DiskEntry /\ entry.name = name /\ entry.ext = x
         /\ ExtentRecords(entry) = recs /\ entry.blocks = blocks /\ InUse(entry)
<1> USE Sizes
<1>1. entry.rc \in 0 .. RecordsPerRC /\ entry.ex \in {0, 1}
  OBVIOUS
<1>2. ExtentRecords(entry) = recs
  BY DEF ExtentRecords
<1>3. entry \in DiskEntry
  BY <1>1 DEF DiskEntry
<1> QED BY <1>2, <1>3, NoName DEF InUse

(* What CP/M knows of the disk.                                            *)
LEMMA CpmIs ==
  ASSUME FilesInv
  PROVE  /\ CpmDir \in [EntryNumbers -> DiskEntry]
         /\ \A e \in EntryNumbers : /\ CpmDir[e].name = disk.dir[e].name
                                    /\ CpmDir[e].ext = disk.dir[e].ext
                                    /\ InUse(CpmDir[e]) <=> InUse(disk.dir[e])
                                    /\ e # fcb.entry \/ fcb = NoFcb => CpmDir[e] = disk.dir[e]
         /\ Used(CpmDir) = Used(disk.dir)
         /\ fcb = NoFcb => CpmDir = disk.dir
         /\ fcb # NoFcb => /\ fcb.entry \in Used(CpmDir)
                           /\ CpmDir[fcb.entry] = FcbEntry
                           /\ FcbEntry \in DiskEntry /\ FcbEntry.name = fcb.name
                           /\ FcbEntry.ext = fcb.ext /\ ExtentRecords(FcbEntry) = fcb.recs
                           /\ FcbEntry.blocks = fcb.blocks /\ InUse(FcbEntry)
                           /\ fcb.name \in Names
         /\ DiskOK(CpmDisk)
         /\ CpmDisk.dir = CpmDir /\ CpmDisk.map = disk.map
         /\ CpmDisk.buf = disk.buf /\ CpmDisk.host = disk.host
<1>1. disk.dir \in [EntryNumbers -> DiskEntry]
  BY DEF FilesInv, DiskTypes, DiskOK
<1>2. /\ disk = [dir |-> disk.dir, map |-> disk.map, buf |-> disk.buf, host |-> disk.host]
      /\ disk.map \in [EntryNumbers -> Names \cup {NoFile}]
      /\ disk.buf \in [DOMAIN disk.buf -> SectorData]
      /\ \A s \in DOMAIN disk.buf : s \in Nat /\ s \div SecPerBlock \in DataBlocks
      /\ HostOK(disk.host)
  BY DEF FilesInv, DiskTypes, DiskOK
<1>3. ASSUME fcb # NoFcb
      PROVE  /\ fcb.entry \in EntryNumbers /\ disk.dir[fcb.entry].name = fcb.name
             /\ disk.dir[fcb.entry].ext = fcb.ext /\ fcb.name \in Names
             /\ FcbEntry \in DiskEntry /\ FcbEntry.name = fcb.name
             /\ FcbEntry.ext = fcb.ext /\ ExtentRecords(FcbEntry) = fcb.recs
             /\ FcbEntry.blocks = fcb.blocks /\ InUse(FcbEntry)
             /\ CpmDir = [disk.dir EXCEPT ![fcb.entry] = FcbEntry]
  <2>1. /\ fcb.entry \in EntryNumbers /\ disk.dir[fcb.entry].name = fcb.name
        /\ disk.dir[fcb.entry].ext = fcb.ext /\ fcb.name \in DOMAIN files
    BY <1>3 DEF FilesInv, FcbInv
  <2>2. fcb.name \in Names /\ fcb.ext \in Nat /\ fcb.recs \in 0 .. ExtentSize /\ fcb.blocks \in BlockList
    BY <2>1 DEF FilesInv, DiskTypes, HostOK
  <2>3. /\ FcbEntry \in DiskEntry /\ FcbEntry.name = fcb.name
        /\ FcbEntry.ext = fcb.ext /\ ExtentRecords(FcbEntry) = fcb.recs
        /\ FcbEntry.blocks = fcb.blocks /\ InUse(FcbEntry)
    BY <2>2, FcbEntryIs DEF FcbEntry
  <2>4. CpmDir = [disk.dir EXCEPT ![fcb.entry] = FcbEntry]
    BY <1>3 DEF CpmDir
  <2> QED BY <2>1, <2>2, <2>3, <2>4
<1>4. fcb = NoFcb => CpmDir = disk.dir
  BY DEF CpmDir
<1>5. CpmDir \in [EntryNumbers -> DiskEntry]
  BY <1>1, <1>3, <1>4
<1>6. \A e \in EntryNumbers : /\ CpmDir[e].name = disk.dir[e].name
                              /\ CpmDir[e].ext = disk.dir[e].ext
                              /\ InUse(CpmDir[e]) <=> InUse(disk.dir[e])
                              /\ e # fcb.entry \/ fcb = NoFcb => CpmDir[e] = disk.dir[e]
  BY <1>1, <1>3, <1>4 DEF InUse
<1>7. Used(CpmDir) = Used(disk.dir)
  BY <1>6 DEF Used
<1>8. fcb # NoFcb => fcb.entry \in Used(CpmDir) /\ CpmDir[fcb.entry] = FcbEntry
  BY <1>1, <1>3 DEF Used
<1>9. /\ CpmDisk = [dir |-> CpmDir, map |-> disk.map, buf |-> disk.buf, host |-> disk.host]
  <2> HIDE DEF CpmDir
  <2> DEFINE a == disk.dir  b == disk.map  c == disk.buf  h == disk.host  x == CpmDir
  <2>1. disk = [dir |-> a, map |-> b, buf |-> c, host |-> h]
    BY <1>2
  <2>2. CpmDisk = [disk EXCEPT !.dir = x]
    BY DEF CpmDisk
  <2> HIDE DEF a, b, c, h, x
  <2>3. CpmDisk = [dir |-> x, map |-> b, buf |-> c, host |-> h]
    BY <2>1, <2>2
  <2> QED BY <2>3 DEF b, c, h, x
<1>10. /\ CpmDisk.dir = CpmDir /\ CpmDisk.map = disk.map
       /\ CpmDisk.buf = disk.buf /\ CpmDisk.host = disk.host
       /\ CpmDisk = [dir |-> CpmDisk.dir, map |-> CpmDisk.map, buf |-> CpmDisk.buf, host |-> CpmDisk.host]
  <2> HIDE DEF CpmDir
  <2> QED BY <1>9
<1>11. DiskOK(CpmDisk)
  BY <1>2, <1>5, <1>10 DEF DiskOK
<1> QED BY <1>3, <1>4, <1>5, <1>6, <1>7, <1>8, <1>10, <1>11

(* Without a job the disk has the files of the programs.                   *)
LEMMA NoJobIs ==
  ASSUME job = NoJob PROVE Gone = {} /\ ~Pending /\ Present = files /\ Wrong = misread
BY DEF NoJob, Gone, Pending, Present, Wrong

(* What is known of the file in hand.                                      *)
LEMMA FcbIs ==
  ASSUME FilesInv, fcb # NoFcb
  PROVE  /\ job = NoJob /\ Gone = {} /\ Present = files /\ Wrong = misread
         /\ fcb.name \in DOMAIN files \ misread /\ fcb.name \in Names
         /\ fcb.ext \in Nat /\ fcb.recs \in 0 .. ExtentSize /\ fcb.clean \in 0 .. ExtentSize
         /\ fcb.ext * ExtentSize \in Nat
         /\ files[fcb.name] \in Seq(Int) /\ Len(files[fcb.name]) \in Nat
         /\ fcb.entry \in Used(CpmDir) /\ disk.map[fcb.entry] = fcb.name
         /\ CpmDir[fcb.entry] = FcbEntry
         /\ FileFits(CpmDir, disk.map, fcb.name, Len(files[fcb.name]))
         /\ \A e \in Used(CpmDir) : CpmDir[e].name = disk.map[e] /\ disk.map[e] \in DOMAIN files
<1>1. job = NoJob
  BY DEF FilesInv, FcbInv
<1>2. Gone = {} /\ Present = files /\ Wrong = misread
  BY <1>1, NoJobIs
<1>3. fcb.name \in DOMAIN files \ misread /\ disk.map[fcb.entry] = fcb.name
  BY DEF FilesInv, FcbInv
<1>4. HostOK(files) /\ fcb.ext \in Nat /\ fcb.recs \in 0 .. ExtentSize /\ fcb.clean \in 0 .. ExtentSize
  BY DEF FilesInv, DiskTypes
<1>5. files[fcb.name] \in Seq(Int) /\ Len(files[fcb.name]) \in Nat
  BY <1>3, <1>4 DEF HostOK
<1>6. fcb.ext * ExtentSize \in Nat
  BY <1>4, Counts
<1>7. FileFits(CpmDir, disk.map, fcb.name, Len(files[fcb.name]))
  BY <1>2, <1>3 DEF FilesInv, StructInv, Structure, Lengths
<1>8. \A e \in Used(disk.dir) : disk.dir[e].name = disk.map[e] /\ disk.map[e] \in DOMAIN files
  BY <1>1, <1>2 DEF FilesInv, NamesInv, NoJob
<1>9. \A e \in Used(CpmDir) : CpmDir[e].name = disk.map[e] /\ disk.map[e] \in DOMAIN files
  BY <1>8, CpmIs DEF Used
<1> QED BY <1>1, <1>2, <1>3, <1>4, <1>5, <1>6, <1>7, <1>9, CpmIs

(* The file in hand ends with the entry in hand, if that is the last.      *)
LEMMA FcbLast ==
  ASSUME FilesInv, fcb # NoFcb
  PROVE  /\ IsLast <=> \A x \in Used(CpmDir) :
                         disk.map[x] = fcb.name => CpmDir[x].ext # fcb.ext + 1
         /\ fcb.ext * ExtentSize + fcb.recs <= Len(files[fcb.name])
         /\ IsLast =>
              /\ Len(files[fcb.name]) = fcb.ext * ExtentSize + fcb.recs
              /\ \A x \in Used(CpmDir) : disk.map[x] = fcb.name /\ x # fcb.entry =>
                   /\ CpmDir[x].ext < fcb.ext
                   /\ ExtentRecords(CpmDir[x]) = ExtentSize
                   /\ CpmDir[x].ext * ExtentSize + ExtentSize <= fcb.ext * ExtentSize
         /\ ~IsLast => fcb.recs = ExtentSize /\ fcb.clean = fcb.recs
         /\ fcb.clean <= fcb.recs
         /\ KeptLength \in Nat /\ KeptLength <= Len(files[fcb.name])
         /\ fcb.ext * ExtentSize + fcb.clean <= KeptLength
<1>1. IsLast <=> \A x \in Used(CpmDir) : disk.map[x] = fcb.name => CpmDir[x].ext # fcb.ext + 1
  <2>1. \A x \in EntryNumbers : CpmDir[x].name = fcb.name <=> x \in Used(CpmDir) /\ disk.map[x] = fcb.name
    BY FcbIs, NoName DEF Used, InUse
  <2> QED BY <2>1 DEF IsLast, EntryOf, EntriesOf, Used
<1> DEFINE len == Len(files[fcb.name])
           base == fcb.ext * ExtentSize
<1>2. /\ len \in Nat /\ base \in Nat /\ CpmDir[fcb.entry].ext = fcb.ext
      /\ ExtentRecords(CpmDir[fcb.entry]) = fcb.recs
      /\ CpmDir \in [EntryNumbers -> DiskEntry]
      /\ fcb.entry \in Used(CpmDir) /\ disk.map[fcb.entry] = fcb.name
      /\ FileFits(CpmDir, disk.map, fcb.name, len)
  BY FcbIs, CpmIs
<1>3. /\ base + fcb.recs <= len
      /\ (\A x \in Used(CpmDir) : disk.map[x] = fcb.name => CpmDir[x].ext # fcb.ext + 1) =>
           /\ len = base + fcb.recs
           /\ \A x \in Used(CpmDir) : disk.map[x] = fcb.name =>
                /\ CpmDir[x].ext <= fcb.ext
                /\ CpmDir[x].ext < fcb.ext =>
                     /\ ExtentRecords(CpmDir[x]) = ExtentSize
                     /\ CpmDir[x].ext * ExtentSize + ExtentSize <= base
      /\ (\E x \in Used(CpmDir) : disk.map[x] = fcb.name /\ CpmDir[x].ext = fcb.ext + 1)
           => fcb.recs = ExtentSize
  <2> HIDE DEF len, CpmDir
  <2>1. /\ CpmDir[fcb.entry].ext * ExtentSize + ExtentRecords(CpmDir[fcb.entry]) <= len
        /\ (\A x \in Used(CpmDir) : disk.map[x] = fcb.name => CpmDir[x].ext # CpmDir[fcb.entry].ext + 1) =>
              /\ len = CpmDir[fcb.entry].ext * ExtentSize + ExtentRecords(CpmDir[fcb.entry])
              /\ \A x \in Used(CpmDir) : disk.map[x] = fcb.name =>
                   /\ CpmDir[x].ext <= CpmDir[fcb.entry].ext
                   /\ CpmDir[x].ext < CpmDir[fcb.entry].ext =>
                        /\ ExtentRecords(CpmDir[x]) = ExtentSize
                        /\ CpmDir[x].ext * ExtentSize + ExtentSize <= CpmDir[fcb.entry].ext * ExtentSize
        /\ (\E x \in Used(CpmDir) : disk.map[x] = fcb.name /\ CpmDir[x].ext = CpmDir[fcb.entry].ext + 1)
              => ExtentRecords(CpmDir[fcb.entry]) = ExtentSize
    BY <1>2, ExtentLen
  <2> QED BY <1>2, <2>1
<1>4. fcb.clean <= fcb.recs /\ (fcb.clean < fcb.recs => IsLast)
      /\ fcb.clean \in Nat /\ fcb.recs \in Nat
  <2>1. fcb.clean <= fcb.recs /\ (fcb.clean < fcb.recs => IsLast)
    BY DEF FilesInv, FcbInv
  <2> QED BY <2>1, FcbIs, Counts
<1>5. ASSUME IsLast, NEW x \in Used(CpmDir), disk.map[x] = fcb.name, x # fcb.entry
      PROVE  /\ CpmDir[x].ext < fcb.ext
             /\ ExtentRecords(CpmDir[x]) = ExtentSize
             /\ CpmDir[x].ext * ExtentSize + ExtentSize <= base
  <2>1. CpmDir[x].ext # fcb.ext
    BY <1>2, <1>5 DEF FilesInv, StructInv, Structure, NoExtentTwice
  <2>2. CpmDir[x].ext \in Nat /\ fcb.ext \in Nat
    BY <1>2, EntryIs, FcbIs DEF Used
  <2>3. CpmDir[x].ext <= fcb.ext
    BY <1>1, <1>3, <1>5
  <2>4. CpmDir[x].ext < fcb.ext
    BY <2>1, <2>2, <2>3
  <2> QED BY <1>1, <1>3, <1>5, <2>4
<1>6. KeptLength = IF IsLast THEN base + fcb.clean ELSE len
  BY DEF KeptLength
<1>7. ~IsLast => fcb.recs = ExtentSize /\ fcb.clean = fcb.recs
  BY <1>1, <1>3, <1>4
<1>8. IsLast => len = base + fcb.recs
  BY <1>1, <1>3
<1>9. KeptLength \in Nat /\ KeptLength <= len /\ base + fcb.clean <= KeptLength
  <2>1. base + fcb.recs <= len
    BY <1>3
  <2> HIDE DEF base, len
  <2> QED BY <1>2, <1>4, <1>6, <1>7, <1>8, <2>1
<1> QED BY <1>1, <1>3, <1>4, <1>5, <1>7, <1>8, <1>9

(* The files the disk has are files.                                       *)
LEMMA PresentOK == ASSUME FilesInv PROVE HostOK(Present)
<1>1. HostOK(files) /\ job.name \in Names \cup {Free}
  BY DEF FilesInv, DiskTypes
<1>2. Pending => job.to \in DOMAIN files /\ job.name \in Names
  BY DEF FilesInv, JobInv, Pending, NoJob
<1> QED BY <1>1, <1>2 DEF Present, HostOK, Put, Without

(* A record is in its file, and one that is not buffered is in the file of *)
(* the host.                                                               *)
LEMMA RecordThere ==
  ASSUME FilesInv, NEW e \in Used(CpmDir), NEW k \in 0 .. ExtentSize - 1,
         disk.map[e] \in DOMAIN Present \ Wrong, k < ExtentRecords(CpmDir[e])
  PROVE  /\ Cell(CpmDir[e], k) \in 1 .. Len(Present[disk.map[e]])
         /\ k < ExtentRecords(disk.dir[e]) => Cell(CpmDir[e], k) <= Len(disk.host[disk.map[e]])
<1> DEFINE n == disk.map[e]
           len == Len(Present[n])
           base == CpmDir[e].ext * ExtentSize
           r == ExtentRecords(CpmDir[e])
<1>1. CpmDir[e] \in DiskEntry /\ base \in Nat /\ r \in 0 .. ExtentSize
  BY CpmIs, EntryIs DEF Used
<1>2. EntryFits(CpmDir[e], len)
  BY DEF FilesInv, StructInv, Structure, FileFits, Lengths
<1>3. HostOK(Present)
  BY PresentOK
<1>4. len \in Nat
  BY <1>3 DEF HostOK
<1>5. base <= len /\ r = AtMost(len - base, ExtentSize)
  BY <1>2 DEF EntryFits
<1>6. base + r <= len
  <2> HIDE DEF base, r, len
  <2> QED BY <1>1, <1>4, <1>5, Counts DEF AtMost
<1>7. Cell(CpmDir[e], k) = base + k + 1
  BY DEF Cell
<1>8. base + k + 1 \in 1 .. len
  <2>1. k < r
    OBVIOUS
  <2> HIDE DEF base, r, len
  <2> QED BY <1>1, <1>4, <1>6, <2>1, Counts
<1>9. ASSUME k < ExtentRecords(disk.dir[e]) PROVE base + k + 1 <= Len(disk.host[n])
  <2>1. CASE n # fcb.name
    <3>1. disk.host[n] = Present[n]
      BY <2>1 DEF FilesInv, HostInv
    <3> QED BY <1>8, <3>1
  <2>2. CASE n = fcb.name
    <3>1. fcb # NoFcb
      BY <1>3, <2>2, NoName DEF NoFcb, HostOK
    <3>2. Len(disk.host[n]) = KeptLength /\ Present = files
      BY <2>2, <3>1, FcbIs DEF FilesInv, HostInv
    <3>3. CASE ~IsLast
      BY <1>8, <2>2, <3>2, <3>3 DEF KeptLength
    <3>4. CASE IsLast
      <4> DEFINE fb == fcb.ext * ExtentSize
      <4>1. KeptLength = fb + fcb.clean
        BY <3>4 DEF KeptLength
      <4>2. fb \in Nat /\ fcb.clean \in Nat
        BY <3>1, FcbIs, Counts
      <4>3. CASE e = fcb.entry
        <5>1. ExtentRecords(disk.dir[e]) = fcb.clean /\ disk.dir[e].ext = fcb.ext
          BY <3>1, <4>3 DEF FilesInv, FcbInv
        <5>2. base = fb
          BY <3>1, <4>3, FcbIs, CpmIs
        <5>3. k < fcb.clean
          BY <1>9, <5>1
        <5> HIDE DEF base, fb
        <5> QED BY <3>2, <4>1, <4>2, <5>2, <5>3, Counts
      <4>4. CASE e # fcb.entry
        <5>1. base + ExtentSize <= fb
          BY <2>2, <3>1, <3>4, <4>4, FcbLast
        <5> HIDE DEF base, fb
        <5> QED BY <1>1, <3>2, <4>1, <4>2, <5>1, Counts
      <4> QED BY <4>3, <4>4
    <3> QED BY <3>3, <3>4
  <2> QED BY <2>1, <2>2
<1> QED BY <1>7, <1>8, <1>9

(* Every record of a file that is listed right is in one of its entries.   *)
InEntry(dir, map, name, p) ==
  \E e \in Used(dir) : \E k \in 0 .. ExtentSize - 1 :
    /\ map[e] = name /\ k < ExtentRecords(dir[e]) /\ Cell(dir[e], k) = p
    /\ dir[e].ext = (p - 1) \div ExtentSize /\ k = (p - 1) % ExtentSize

(* Every record of a file that is listed right is in one of its entries.   *)
LEMMA RecordOf ==
  ASSUME NEW dir \in [EntryNumbers -> DiskEntry], NEW map, NEW name, NEW len \in Nat,
         FileFits(dir, map, name, len), NEW p \in 1 .. len
  PROVE  InEntry(dir, map, name, p)
<1> DEFINE x == (p - 1) \div ExtentSize
           k == (p - 1) % ExtentSize
           q == ExtentSize * x
<1>1. p - 1 \in Nat /\ x \in Nat /\ k \in 0 .. ExtentSize - 1 /\ p - 1 = q + k
  <2>1. p - 1 \in Nat
    OBVIOUS
  <2> QED BY <2>1, Counts, Parts
<1>2. q \in Nat /\ x * ExtentSize = q /\ x <= q
  <2> HIDE DEF x
  <2>1. q \in Nat /\ x * ExtentSize = q
    BY <1>1, Counts
  <2>2. PICK z \in Nat : ExtentSize = z + 1
    <3>1. ExtentSize - 1 \in Nat /\ ExtentSize = (ExtentSize - 1) + 1
      BY Counts
    <3> QED BY <3>1
  <2>3. (z + 1) * x = z * x + x /\ z * x \in Nat
    BY <1>1, <2>2
  <2> QED BY <1>1, <2>1, <2>2, <2>3
<1>3. x \in 0 .. len - 1 /\ x * ExtentSize < len
  <2> HIDE DEF x, k, q
  <2> QED BY <1>1, <1>2, Counts
<1>4. PICK e \in Used(dir) : map[e] = name /\ dir[e].ext = x
  BY <1>3 DEF FileFits
<1>5. EntryFits(dir[e], len)
  BY <1>4 DEF FileFits
<1>6. ExtentRecords(dir[e]) = AtMost(len - q, ExtentSize)
  BY <1>2, <1>4, <1>5 DEF EntryFits
<1>7. k < ExtentRecords(dir[e])
  <2> HIDE DEF x, k, q
  <2> QED BY <1>1, <1>2, <1>6, Counts DEF AtMost
<1>8. Cell(dir[e], k) = p
  <2>1. Cell(dir[e], k) = q + k + 1
    BY <1>2, <1>4 DEF Cell
  <2> HIDE DEF x, k, q
  <2> QED BY <1>1, <1>2, <2>1
<1> QED BY <1>1, <1>4, <1>7, <1>8 DEF InEntry

(* At every moment a flush brings the files to the host.                   *)
LEMMA Ready ==
  ASSUME FilesInv
  PROVE  Flushable(CpmDisk, Present, Wrong, Gone)
<1> DEFINE d == CpmDisk
           f == Present
<1>1. /\ d.dir = CpmDir /\ d.map = disk.map /\ d.buf = disk.buf /\ d.host = disk.host
      /\ DiskOK(d) /\ HostOK(f)
      /\ CpmDir \in [EntryNumbers -> DiskEntry]
      /\ Used(CpmDir) = Used(disk.dir)
  BY CpmIs, PresentOK
<1>2. Structure(d.dir, d.map, Lengths(f), Wrong, Gone)
  BY <1>1 DEF FilesInv, StructInv
<1>3. \A e \in Used(d.dir) : d.map[e] \in DOMAIN f \cup Gone
  BY <1>1 DEF FilesInv, NamesInv
<1>4. Gone \cap DOMAIN f = {}
  <2>1. Gone # {} => job.op = "erase" /\ Gone = {job.name} /\ f = files
    BY DEF Gone, Present, Pending
  <2>2. job.op = "erase" => job.name \notin DOMAIN files
    BY DEF FilesInv, JobInv, NoJob
  <2> QED BY <2>1, <2>2
<1>5. DOMAIN d.host \ Gone = DOMAIN f
  BY <1>1 DEF FilesInv, HostInv
<1>6. \A e \in Used(d.dir) :
        d.map[e] \in Gone /\ d.dir[e].ext = 0 => d.map[e] \in DOMAIN d.host
  <2>1. \A e \in Used(disk.dir) :
          disk.map[e] \in Gone /\ disk.dir[e].ext = 0 => disk.map[e] \in DOMAIN disk.host
    BY DEF FilesInv, HostInv
  <2>2. \A e \in Used(CpmDir) : CpmDir[e].ext = disk.dir[e].ext
    BY CpmIs DEF Used
  <2> QED BY <1>1, <2>1, <2>2
<1>7. BufferedRight(d, f, Wrong) /\ OthersRight(d, disk.dir, f, Wrong) /\ Unbuffered(d, Wrong, Gone)
  BY DEF FilesInv, ContentInv
<1>8. ASSUME NEW n \in DOMAIN f
      PROVE  /\ Len(d.host[n]) <= Len(f[n])
             /\ \A p \in 1 .. Len(f[n]) : OnHost(d.host, f, n, p) \/ Waits(d, f, Wrong, n, p, 0)
  <2>1. f[n] \in Seq(Int) /\ Len(f[n]) \in Nat
    BY <1>1 DEF HostOK
  <2>2. n # fcb.name => d.host[n] = f[n]
    BY <1>1 DEF FilesInv, HostInv
  <2>3. n = fcb.name => fcb # NoFcb
    BY <1>1, NoName DEF HostOK, NoFcb
  <2>4. Len(d.host[n]) <= Len(f[n])
    <3>1. CASE n # fcb.name
      BY <2>1, <2>2, <3>1
    <3>2. CASE n = fcb.name
      BY <1>1, <2>3, <3>2, FcbIs, FcbLast DEF FilesInv, HostInv
    <3> QED BY <3>1, <3>2
  <2>5. CASE n # fcb.name
    BY <2>1, <2>2, <2>4, <2>5 DEF OnHost
  <2>6. CASE n = fcb.name
    <3>1. n \notin Wrong
      BY <2>3, <2>6, FcbIs
    <3>2. FileFits(d.dir, d.map, n, Len(f[n]))
      BY <1>2, <3>1 DEF Structure, Lengths
    <3>3. ASSUME NEW p \in 1 .. Len(f[n])
          PROVE OnHost(d.host, f, n, p) \/ Waits(d, f, Wrong, n, p, 0)
      <4>1. PICK e \in Used(d.dir) : \E k \in 0 .. ExtentSize - 1 :
              /\ d.map[e] = n /\ k < ExtentRecords(d.dir[e]) /\ Cell(d.dir[e], k) = p
        <5>1. d.dir \in [EntryNumbers -> DiskEntry]
          BY <1>1
        <5> DEFINE dir == d.dir  map == d.map  len == Len(f[n])
        <5>2. dir \in [EntryNumbers -> DiskEntry] /\ len \in Nat /\ FileFits(dir, map, n, len) /\ p \in 1 .. len
          BY <2>1, <3>2, <5>1
        <5> HIDE DEF dir, map, len
        <5>3. InEntry(dir, map, n, p)
          BY <5>2, RecordOf
        <5> QED BY <5>3 DEF dir, map, InEntry
      <4>2. PICK k \in 0 .. ExtentSize - 1 :
              d.map[e] = n /\ k < ExtentRecords(d.dir[e]) /\ Cell(d.dir[e], k) = p
        BY <4>1
      <4> DEFINE ek == <<e, k>>
      <4>3. ek \in Records(d, f, Wrong)
        BY <3>1, <4>2 DEF Records
      <4>4. CASE SectorOf(d.dir[e], k) \in DOMAIN d.buf
        <5>1. SectorOf(d.dir[e], k) \in Nat
          BY <1>1, <4>4 DEF DiskOK
        <5>2. SectorOf(d.dir[ek[1]], ek[2]) >= 0 /\ d.map[ek[1]] = n
              /\ Cell(d.dir[ek[1]], ek[2]) = p /\ SectorOf(d.dir[ek[1]], ek[2]) \in DOMAIN d.buf
          BY <4>2, <4>4, <5>1
        <5> QED BY <4>3, <5>2 DEF Waits
      <4>5. CASE SectorOf(d.dir[e], k) \notin DOMAIN d.buf
        <5>1. k < ExtentRecords(disk.dir[e]) /\ d.host[n][Cell(d.dir[e], k)] = f[n][Cell(d.dir[e], k)]
          BY <1>7, <4>2, <4>3, <4>5 DEF OthersRight
        <5>2. Cell(CpmDir[e], k) <= Len(disk.host[disk.map[e]])
          BY <1>1, <3>1, <4>2, <5>1, RecordThere
        <5> QED BY <1>1, <4>2, <5>1, <5>2 DEF OnHost
      <4> QED BY <4>4, <4>5
    <3> QED BY <2>4, <3>3
  <2> QED BY <2>5, <2>6
<1>9. Comes(d.host, d, f, Wrong, 0)
  BY <1>8 DEF Comes
<1> QED BY <1>1, <1>2, <1>3, <1>4, <1>5, <1>6, <1>7, <1>9 DEF Flushable

(* Between the files of programs the host has them.                        *)
LEMMA NoFcbHeld ==
  ASSUME FilesInv, fcb = NoFcb
  PROVE  Held(disk, Present, Wrong, Gone) /\ Flushable(disk, Present, Wrong, Gone)
<1>1. CpmDir = disk.dir /\ DiskOK(disk)
  BY CpmIs DEF FilesInv, DiskTypes
<1>2. CpmDisk = disk
  <2>1. /\ CpmDisk = [dir |-> CpmDisk.dir, map |-> CpmDisk.map, buf |-> CpmDisk.buf, host |-> CpmDisk.host]
        /\ disk = [dir |-> disk.dir, map |-> disk.map, buf |-> disk.buf, host |-> disk.host]
    BY <1>1, CpmIs DEF DiskOK
  <2>2. CpmDisk.dir = disk.dir /\ CpmDisk.map = disk.map /\ CpmDisk.buf = disk.buf /\ CpmDisk.host = disk.host
    BY <1>1, CpmIs
  <2> DEFINE a == disk.dir  b == disk.map  c == disk.buf  h == disk.host
  <2>3. CpmDisk = [dir |-> a, map |-> b, buf |-> c, host |-> h] /\ disk = [dir |-> a, map |-> b, buf |-> c, host |-> h]
    BY <2>1, <2>2
  <2> HIDE DEF a, b, c, h
  <2> QED BY <2>3
<1>3. Flushable(disk, Present, Wrong, Gone)
  BY <1>2, Ready
<1>4. \A n \in DOMAIN Present : disk.host[n] = Present[n]
  <2>1. fcb.name \notin DOMAIN Present
    BY PresentOK, NoName DEF HostOK, NoFcb
  <2> QED BY <2>1 DEF FilesInv, HostInv
<1> QED BY <1>1, <1>3, <1>4 DEF Held, Flushable
-----------------------------------------------------------------------------
(* The first states, a selection and a crash.                              *)

(* What is to be shown of a state in which the directory on the disk is    *)
(* that of CP/M and the host has the files.                                *)
AtEntry(entry) ==
  /\ job = NoJob
  /\ fcb.name \in DOMAIN files \ misread
  /\ fcb.entry \in EntryNumbers /\ disk.map[fcb.entry] = fcb.name
  /\ entry.name = fcb.name /\ entry.ext = fcb.ext /\ entry.blocks = fcb.blocks
  /\ ExtentRecords(entry) = fcb.recs
  /\ fcb.clean = fcb.recs /\ fcb.touched = {}

DiskHeld ==
  /\ DiskTypes /\ JobInv /\ NamesInv
  /\ Held(disk, Present, Wrong, Gone)
  /\ \A n \in Gone : n \in DOMAIN disk.host <=>
       \E e \in Used(disk.dir) : disk.map[e] = n /\ disk.dir[e].ext = 0
  /\ fcb # NoFcb => AtEntry(disk.dir[fcb.entry])

(* The entry of the file in hand is one that CP/M has not changed.         *)
LEMMA HeldFcb ==
  ASSUME DiskHeld, fcb # NoFcb
  PROVE  /\ CpmDir = [disk.dir EXCEPT ![fcb.entry] = FcbEntry]
         /\ CpmDir \in [EntryNumbers -> DiskEntry]
         /\ Alike(disk.dir, CpmDir)
         /\ fcb.entry \in Used(disk.dir)
         /\ fcb.recs \in Nat /\ fcb.ext \in Nat /\ fcb.name \in Names
         /\ \A e \in EntryNumbers : CpmDir[e].name = disk.dir[e].name
<1>1. AtEntry(disk.dir[fcb.entry])
  BY DEF DiskHeld
<1>2. /\ fcb.name \in Names /\ fcb.ext \in Nat /\ fcb.recs \in 0 .. ExtentSize /\ fcb.recs \in Nat
      /\ fcb.blocks \in BlockList /\ disk.dir \in [EntryNumbers -> DiskEntry]
      /\ fcb.entry \in EntryNumbers
  BY <1>1, Counts DEF DiskHeld, DiskTypes, DiskOK, HostOK, AtEntry
<1>3. /\ FcbEntry \in DiskEntry /\ FcbEntry.name = fcb.name /\ FcbEntry.ext = fcb.ext
      /\ ExtentRecords(FcbEntry) = fcb.recs /\ FcbEntry.blocks = fcb.blocks /\ InUse(FcbEntry)
  BY <1>2, FcbEntryIs DEF FcbEntry
<1>4. CpmDir = [disk.dir EXCEPT ![fcb.entry] = FcbEntry]
  BY DEF CpmDir
<1>5. Alike(disk.dir, CpmDir)
  BY <1>1, <1>2, <1>3, <1>4, NoName DEF Alike, InUse, AtEntry
<1>6. fcb.entry \in Used(disk.dir)
  BY <1>1, <1>2, NoName DEF Used, InUse, AtEntry
<1> QED BY <1>1, <1>2, <1>3, <1>4, <1>5, <1>6 DEF AtEntry

(* Of a file that was written to its end the host has all.                 *)
LEMMA HeldKept ==
  ASSUME DiskHeld, fcb # NoFcb
  PROVE  KeptLength = Len(files[fcb.name]) /\ FcbInv
<1>1. AtEntry(disk.dir[fcb.entry]) /\ Present = files /\ Wrong = misread /\ Gone = {}
  BY NoJobIs DEF DiskHeld, AtEntry
<1> DEFINE len == Len(files[fcb.name])
           e == fcb.entry
           dir == disk.dir
           map == disk.map
<1>2. len \in Nat /\ dir \in [EntryNumbers -> DiskEntry] /\ e \in Used(dir) /\ map[e] = fcb.name
      /\ FileFits(dir, map, fcb.name, len)
  BY <1>1, HeldFcb DEF DiskHeld, Held, DiskOK, HostOK, Structure, Lengths, AtEntry
<1>3. IsLast <=> \A x \in Used(dir) : map[x] = fcb.name => dir[x].ext # fcb.ext + 1
  <2>1. \A x \in EntryNumbers : CpmDir[x].name = fcb.name <=> x \in Used(dir) /\ map[x] = fcb.name
    <3>1. \A x \in Used(dir) : dir[x].name = map[x]
      BY <1>1 DEF DiskHeld, NamesInv, AtEntry, NoJob
    <3> QED BY <3>1, HeldFcb, NoName DEF Used, InUse
  <2>2. \A x \in EntryNumbers : CpmDir[x].ext = dir[x].ext
    BY HeldFcb DEF Alike
  <2> QED BY <2>1, <2>2 DEF IsLast, EntryOf, EntriesOf, Used
<1>4. dir[e].ext = fcb.ext /\ ExtentRecords(dir[e]) = fcb.clean
  BY <1>1 DEF AtEntry
<1>5. (\A x \in Used(dir) : map[x] = fcb.name => dir[x].ext # dir[e].ext + 1) =>
        len = dir[e].ext * ExtentSize + ExtentRecords(dir[e])
  <2> HIDE DEF len, dir, map, e
  <2> QED BY <1>2, ExtentLen
<1>6. KeptLength = len
  BY <1>3, <1>4, <1>5 DEF KeptLength
<1>7. FcbInv
  <2>1. EntryFits(dir[e], len)
    BY <1>2 DEF FileFits
  <2>2. \A i \in 1 .. BlocksPerExtent :
          dir[e].blocks[i] = IF (i - 1) * RecPerBlock < fcb.clean THEN fcb.blocks[i] ELSE 0
    BY <1>1, <1>4, <2>1 DEF EntryFits, AtEntry
  <2>3. fcb.clean .. fcb.recs - 1 = {} /\ fcb.clean <= fcb.recs /\ ~ (fcb.clean < fcb.recs)
    BY <1>1, HeldFcb DEF AtEntry
  <2> QED BY <1>1, <2>2, <2>3 DEF FcbInv, AtEntry
<1> QED BY <1>6, <1>7

(* A disk that holds its files satisfies the invariant ...                 *)
LEMMA DiskHeldInv == DiskHeld => FilesInv
<1> SUFFICES ASSUME DiskHeld PROVE FilesInv
  OBVIOUS
<1>1. CpmDir \in [EntryNumbers -> DiskEntry] /\ Alike(disk.dir, CpmDir)
      /\ Used(CpmDir) = Used(disk.dir)
  <2>1. CASE fcb = NoFcb
    BY <2>1 DEF DiskHeld, DiskTypes, DiskOK, CpmDir, Alike
  <2>2. CASE fcb # NoFcb
    BY <2>2, HeldFcb DEF Alike, Used
  <2> QED BY <2>1, <2>2
<1>2. /\ CpmDisk.dir = CpmDir /\ CpmDisk.map = disk.map
      /\ CpmDisk.buf = disk.buf /\ CpmDisk.host = disk.host
      /\ CpmDisk = [dir |-> CpmDisk.dir, map |-> CpmDisk.map, buf |-> CpmDisk.buf, host |-> CpmDisk.host]
  <2> DEFINE a == disk.dir  b == disk.map  c == disk.buf  h == disk.host  x == CpmDir
  <2>1. disk = [dir |-> a, map |-> b, buf |-> c, host |-> h]
    BY DEF DiskHeld, DiskTypes, DiskOK
  <2>2. CpmDisk = [disk EXCEPT !.dir = x]
    BY DEF CpmDisk
  <2> HIDE DEF a, b, c, h, x
  <2>3. CpmDisk = [dir |-> x, map |-> b, buf |-> c, host |-> h]
    BY <2>1, <2>2
  <2>4. CpmDisk.dir = x /\ CpmDisk.map = b /\ CpmDisk.buf = c /\ CpmDisk.host = h
    BY <2>3
  <2> QED BY <2>3, <2>4 DEF b, c, h, x
<1>3. DiskOK(CpmDisk)
  BY <1>1, <1>2 DEF DiskHeld, DiskTypes, DiskOK
<1>4. Held(CpmDisk, Present, Wrong, Gone)
  BY <1>1, <1>2, <1>3, HeldAlike DEF DiskHeld
<1>5. StructInv
  BY <1>2, <1>4 DEF Held, StructInv
<1>6. OthersRight(CpmDisk, disk.dir, Present, Wrong)
  BY <1>1, <1>2, <1>4, HeldOthers DEF Alike, Used
<1>7. ContentInv
  BY <1>4, <1>6 DEF Held, ContentInv
<1>8. HostInv
  <2>1. DOMAIN disk.host \ Gone = DOMAIN Present
        /\ \A n \in DOMAIN Present : disk.host[n] = Present[n]
    BY DEF DiskHeld, Held
  <2>2. ASSUME NEW n \in DOMAIN Present, n = fcb.name
        PROVE Len(disk.host[n]) = KeptLength
    <3>1. n \in Names
      BY DEF DiskHeld, Held, HostOK
    <3>2. fcb # NoFcb
      BY <2>2, <3>1, NoName DEF NoFcb
    <3>3. Present = files
      BY <3>2, NoJobIs DEF DiskHeld, AtEntry
    <3> QED BY <2>1, <2>2, <3>2, <3>3, HeldKept
  <2> QED BY <2>1, <2>2 DEF HostInv, DiskHeld
<1>9. FcbInv
  BY HeldKept DEF FcbInv
<1> QED BY <1>5, <1>7, <1>8, <1>9 DEF DiskHeld, FilesInv

(* ... and so after a step.                                                *)
LEMMA DiskHeldInvNext == ASSUME DiskHeld' PROVE FilesInv'
BY DiskHeldInv, PTL

(* No file in hand and no job.                                             *)
LEMMA NoFcbType ==
  /\ NoFcb \in [name : Names \cup {Free}, entry : Nat, ext : Nat, recs : 0 .. ExtentSize,
                blocks : BlockList, clean : 0 .. ExtentSize, touched : SUBSET Nat]
  /\ NoJob \in [op : {"none", "erase", "rename"}, name : Names \cup {Free},
                to : Names \cup {Free}, at : Nat]
<1>1. 0 \in 0 .. ExtentSize /\ NoBlocks \in BlockList
  BY Counts DEF NoBlocks, BlockList
<1> QED BY <1>1 DEF NoFcb, NoJob

(* A state with nothing in hand.                                           *)
IdleHeld ==
  /\ HostOK(files) /\ misread \subseteq DOMAIN files
  /\ records \in Nat /\ opens \in Nat
  /\ fcb = NoFcb /\ job = NoJob
  /\ \A e \in Used(disk.dir) :
       disk.map[e] \in DOMAIN files /\ disk.dir[e].name = disk.map[e]
  /\ Held(disk, files, misread, {})

(* The same with no file in hand ...                                       *)
LEMMA IdleHeldInv == IdleHeld => FilesInv
<1> SUFFICES ASSUME IdleHeld PROVE FilesInv
  OBVIOUS
<1>1. Gone = {} /\ ~Pending /\ Present = files /\ Wrong = misread
  BY NoJobIs DEF IdleHeld
<1>2. DiskTypes
  BY NoFcbType DEF IdleHeld, Held, HostOK, DiskTypes
<1>3. JobInv
  BY <1>1 DEF IdleHeld, NoJob, JobInv
<1>4. NamesInv
  <2>1. \A e \in Used(disk.dir) : disk.dir[e].name # job.name
    BY DEF IdleHeld, NoJob, Used, InUse
  <2> QED BY <1>1, <2>1 DEF IdleHeld, NamesInv
<1>5. Held(disk, Present, Wrong, Gone)
  BY <1>1 DEF IdleHeld
<1>6. DiskHeld
  BY <1>1, <1>2, <1>3, <1>4, <1>5 DEF DiskHeld, IdleHeld
<1> QED BY <1>6, DiskHeldInv

(* ... and after a step.                                                   *)
LEMMA IdleHeldInvNext == ASSUME IdleHeld' PROVE FilesInv'
BY IdleHeldInv, PTL

(* A disk that is opened holds the files of the host.                      *)
LEMMA OpenedHeld ==
  ASSUME NEW host, HostOK(host), NEW order \in Orders(DOMAIN host),
         NEW d, d = Opened(host, order)
  PROVE  /\ Held(d, host, ListedWrong(d), {})
         /\ ListedWrong(d) \subseteq DOMAIN host
         /\ \A e \in Used(d.dir) : d.map[e] \in DOMAIN host /\ d.dir[e].name = d.map[e]
<1>1. /\ DiskOK(d) /\ d.host = host /\ DOMAIN d.buf = {}
      /\ \A e \in Used(d.dir) : d.map[e] \in DOMAIN host /\ d.dir[e].name = d.map[e]
      /\ Structure(d.dir, d.map, Lengths(host), ListedWrong(d), {})
  BY OpenedIs
<1>2. BufferedRight(d, host, ListedWrong(d)) /\ Unbuffered(d, ListedWrong(d), {})
  BY <1>1 DEF BufferedRight, Unbuffered, Buffers
<1> QED BY <1>1, <1>2 DEF Held, ListedWrong

(* The program starts.                                                     *)
LEMMA FilesInit ==
  ASSUME NEW host, HostOK(host), EmulatedDiskInit(host)
  PROVE  FilesInv
<1>1. PICK order \in Orders(DOMAIN host) : disk = Opened(host, order)
  BY DEF EmulatedDiskInit
<1>2. IdleHeld
  <2>1. /\ Held(disk, host, ListedWrong(disk), {})
        /\ ListedWrong(disk) \subseteq DOMAIN host
        /\ \A e \in Used(disk.dir) : disk.map[e] \in DOMAIN host /\ disk.dir[e].name = disk.map[e]
    BY <1>1, OpenedHeld
  <2> QED BY <2>1 DEF EmulatedDiskInit, IdleHeld
<1> QED BY <1>2, IdleHeldInv

(* The disk is closed and opened again.                                    *)
LEMMA SelectStep == ASSUME FilesInv, Select PROVE FilesInv'
<1>1. job = NoJob /\ fcb = NoFcb /\ Present = files /\ Gone = {} /\ Wrong = misread
  BY NoJobIs DEF Select, Idle
<1>2. Flushable(disk, files, misread, {}) /\ HostOK(files)
  BY <1>1, NoFcbHeld, PresentOK
<1>3. Settled(Flush(disk), disk, files)
  BY <1>2, FlushSettles
<1> DEFINE h == Flush(disk).host
<1>4. h = files
  <2>1. DOMAIN disk.host = DOMAIN files
    BY <1>2 DEF Flushable
  <2>2. DOMAIN h = DOMAIN files /\ HostOK(h) /\ \A n \in DOMAIN files : h[n] = files[n]
    BY <1>3, <2>1 DEF Settled
  <2>3. h = [n \in DOMAIN h |-> h[n]] /\ files = [n \in DOMAIN files |-> files[n]]
    <3> HIDE DEF h
    <3> QED BY <1>2, <2>2 DEF HostOK
  <2> HIDE DEF h
  <2> QED BY <2>2, <2>3
<1>5. PICK order \in Orders(DOMAIN files) : disk' = Opened(files, order)
  <2> HIDE DEF h
  <2>1. Reopen(h)
    BY DEF Select, h
  <2> QED BY <1>4, <2>1 DEF Reopen
<1>6. /\ Held(disk', files, ListedWrong(disk'), {})
      /\ ListedWrong(disk') \subseteq DOMAIN files
      /\ \A e \in Used(disk'.dir) : disk'.map[e] \in DOMAIN files /\ disk'.dir[e].name = disk'.map[e]
  <2> DEFINE d == disk'
  <2>1. d = Opened(files, order)
    BY <1>5
  <2> HIDE DEF d
  <2>2. /\ Held(d, files, ListedWrong(d), {}) /\ ListedWrong(d) \subseteq DOMAIN files
        /\ \A e \in Used(d.dir) : d.map[e] \in DOMAIN files /\ d.dir[e].name = d.map[e]
    BY <1>2, <2>1, OpenedHeld
  <2> QED BY <2>2 DEF d
<1>7. misread' = ListedWrong(disk') /\ opens' = opens + 1 /\ UNCHANGED <<fcb, job, files, records>>
  BY DEF Select, Reopen
<1>8. IdleHeld'
  BY <1>1, <1>2, <1>6, <1>7 DEF IdleHeld, FilesInv, DiskTypes
<1> QED BY <1>8, IdleHeldInvNext

(* The server is killed and opens the disk again.                          *)
LEMMA CrashStep == ASSUME FilesInv, Crash PROVE FilesInv'
<1> DEFINE inHand == {fcb.name, job.name, job.to}
<1>1. HostOK(disk.host) /\ HostOK(files) /\ records \in Nat /\ opens \in Nat
  BY DEF FilesInv, DiskTypes, DiskOK
<1>2. DOMAIN Present \ inHand = DOMAIN files \ inHand
      /\ \A n \in DOMAIN files \ inHand : Present[n] = files[n]
  BY DEF Present, Put, Without
<1>3. DOMAIN disk.host \ inHand = DOMAIN files \ inHand
  BY <1>2 DEF FilesInv, HostInv, Gone
<1>4. \A n \in DOMAIN files \ inHand : disk.host[n] = files[n]
  BY <1>2, <1>3 DEF FilesInv, HostInv
<1>5. files' = disk.host
  <2>1. files' = [n \in (DOMAIN files \ inHand) \cup (DOMAIN disk.host \cap inHand) |->
                    IF n \in inHand THEN disk.host[n] ELSE files[n]]
    BY DEF Crash
  <2>2. (DOMAIN files \ inHand) \cup (DOMAIN disk.host \cap inHand) = DOMAIN disk.host
    BY <1>3
  <2>3. \A n \in DOMAIN disk.host : n \notin inHand => disk.host[n] = files[n]
    BY <1>3, <1>4
  <2> HIDE DEF inHand
  <2>4. files' = [n \in DOMAIN disk.host |-> disk.host[n]]
    BY <2>1, <2>2, <2>3
  <2> QED BY <1>1, <2>4 DEF HostOK
<1>6. PICK order \in Orders(DOMAIN disk.host) : disk' = Opened(disk.host, order)
  BY DEF Crash, Reopen
<1>7. /\ Held(disk', disk.host, ListedWrong(disk'), {})
      /\ ListedWrong(disk') \subseteq DOMAIN disk.host
      /\ \A e \in Used(disk'.dir) : disk'.map[e] \in DOMAIN disk.host /\ disk'.dir[e].name = disk'.map[e]
  <2> DEFINE d == disk'  h == disk.host
  <2>1. d = Opened(h, order) /\ HostOK(h) /\ order \in Orders(DOMAIN h)
    BY <1>1, <1>6
  <2> HIDE DEF d, h
  <2>2. /\ Held(d, h, ListedWrong(d), {}) /\ ListedWrong(d) \subseteq DOMAIN h
        /\ \A e \in Used(d.dir) : d.map[e] \in DOMAIN h /\ d.dir[e].name = d.map[e]
    BY <2>1, OpenedHeld
  <2> QED BY <2>2 DEF d, h
<1>8. /\ misread' = ListedWrong(disk') /\ opens' = opens + 1
      /\ fcb' = NoFcb /\ job' = NoJob /\ records' = records
  BY DEF Crash, Reopen
<1>9. IdleHeld'
  BY <1>1, <1>5, <1>7, <1>8 DEF IdleHeld
<1> QED BY <1>9, IdleHeldInvNext
-----------------------------------------------------------------------------
(* Files opened, erased and renamed: the first step.                       *)

(* A file more, or with other contents.                                    *)
LEMMA PutIs ==
  ASSUME NEW h, NEW n, NEW c
  PROVE  /\ DOMAIN Put(h, n, c) = DOMAIN h \cup {n}
         /\ Put(h, n, c)[n] = c
         /\ \A m \in DOMAIN h : m # n => Put(h, n, c)[m] = h[m]
         /\ HostOK(h) /\ n \in Names /\ c \in Seq(Int) => HostOK(Put(h, n, c))
<1>1. /\ DOMAIN Put(h, n, c) = DOMAIN h \cup {n}
      /\ Put(h, n, c)[n] = c
      /\ \A m \in DOMAIN h : m # n => Put(h, n, c)[m] = h[m]
  BY DEF Put
<1>2. ASSUME HostOK(h), n \in Names, c \in Seq(Int) PROVE HostOK(Put(h, n, c))
  BY <1>2 DEF HostOK, Put
<1> QED BY <1>1, <1>2

(* A file less.                                                            *)
LEMMA WithoutIs ==
  ASSUME NEW h, NEW n
  PROVE  /\ DOMAIN Without(h, n) = DOMAIN h \ {n}
         /\ \A m \in DOMAIN h : m # n => Without(h, n)[m] = h[m]
         /\ HostOK(h) => HostOK(Without(h, n))
BY DEF Without, HostOK

(* What is known when the BDOS is between two operations.                  *)
LEMMA IdleIs ==
  ASSUME FilesInv, Idle
  PROVE  /\ fcb = NoFcb /\ job = NoJob /\ CpmDir = disk.dir
         /\ Present = files /\ Gone = {} /\ Wrong = misread
         /\ misread \subseteq DOMAIN files /\ HostOK(files)
         /\ DiskOK(disk) /\ disk.dir \in [EntryNumbers -> DiskEntry]
         /\ \A e \in Used(disk.dir) : disk.map[e] \in DOMAIN files /\ disk.dir[e].name = disk.map[e]
         /\ \A e \in EntryNumbers, n \in Names :
              disk.dir[e].name = n <=> e \in Used(disk.dir) /\ disk.map[e] = n
         /\ Held(disk, files, misread, {}) /\ Flushable(disk, files, misread, {})
         /\ DOMAIN disk.host = DOMAIN files
         /\ DiskTypes
<1>1. fcb = NoFcb /\ job = NoJob /\ CpmDir = disk.dir
  BY DEF Idle, CpmDir
<1>2. Present = files /\ Gone = {} /\ Wrong = misread
  BY <1>1, NoJobIs
<1>3. misread \subseteq DOMAIN files
  BY <1>2 DEF FilesInv, JobInv
<1>4. \A e \in Used(disk.dir) : disk.map[e] \in DOMAIN files /\ disk.dir[e].name = disk.map[e]
  BY <1>1, <1>2 DEF FilesInv, NamesInv, NoJob
<1>5. Held(disk, files, misread, {}) /\ Flushable(disk, files, misread, {})
  BY <1>1, <1>2, NoFcbHeld
<1>6. DOMAIN disk.host = DOMAIN files
  BY <1>5 DEF Held
<1>7. DiskOK(disk) /\ HostOK(files) /\ disk.dir \in [EntryNumbers -> DiskEntry]
  BY DEF FilesInv, DiskTypes, DiskOK
<1>8. \A e \in EntryNumbers, n \in Names :
        disk.dir[e].name = n <=> e \in Used(disk.dir) /\ disk.map[e] = n
  BY <1>4, NoName DEF Used, InUse
<1>9. DiskTypes
  BY DEF FilesInv
<1> QED BY <1>1, <1>2, <1>3, <1>4, <1>5, <1>6, <1>7, <1>8, <1>9

(* A file is opened.                                                       *)
LEMMA OpenFileStep == ASSUME FilesInv, NEW name \in Names, OpenFile(name) PROVE FilesInv'
<1>1. Idle
  BY DEF OpenFile
<1>2. PICK e \in EntriesOf(name) :
        fcb' = [name |-> name, entry |-> e, ext |-> disk.dir[e].ext,
                recs |-> ExtentRecords(disk.dir[e]), blocks |-> disk.dir[e].blocks,
                clean |-> ExtentRecords(disk.dir[e]), touched |-> {}]
  BY DEF OpenFile
<1>3. UNCHANGED <<disk, job, files, misread, records, opens>> /\ name \in DOMAIN files \ misread
  BY DEF OpenFile
<1>4. e \in EntryNumbers /\ disk.dir[e].name = name /\ disk.map[e] = name /\ e \in Used(disk.dir)
      /\ disk.dir[e] \in DiskEntry
  BY <1>1, <1>2, IdleIs DEF EntriesOf
<1> DEFINE n == disk.dir[e].ext
           r == ExtentRecords(disk.dir[e])
           b == disk.dir[e].blocks
<1>5. n \in Nat /\ r \in 0 .. ExtentSize /\ b \in BlockList /\ e \in Nat
  BY <1>4, EntryIs DEF EntryNumbers
<1>6. fcb' = [name |-> name, entry |-> e, ext |-> n, recs |-> r, blocks |-> b,
              clean |-> r, touched |-> {}]
  BY <1>2
<1>7. /\ fcb'.name = name /\ fcb'.entry = e /\ fcb'.ext = n /\ fcb'.recs = r
      /\ fcb'.blocks = b /\ fcb'.clean = r /\ fcb'.touched = {}
      /\ fcb' \in [name : Names \cup {Free}, entry : Nat, ext : Nat, recs : 0 .. ExtentSize,
                   blocks : BlockList, clean : 0 .. ExtentSize, touched : SUBSET Nat]
  <2> HIDE DEF n, r, b
  <2> QED BY <1>5, <1>6
<1>8. job' = NoJob /\ Present' = files /\ Gone' = {} /\ Wrong' = misread /\ ~Pending'
  BY <1>1, <1>3, IdleIs DEF NoJob, Present, Gone, Wrong, Pending
<1>9. DiskTypes'
  BY <1>1, <1>3, <1>7, IdleIs DEF DiskTypes
<1>10. JobInv'
  BY <1>1, <1>3, <1>8, IdleIs DEF JobInv, NoJob
<1>11. NamesInv'
  <2>1. \A x \in Used(disk.dir) : disk.dir[x].name # job'.name
    BY <1>8 DEF NoJob, Used, InUse
  <2> QED BY <1>1, <1>3, <1>8, <2>1, IdleIs DEF NamesInv
<1>12. AtEntry(disk.dir[fcb.entry])'
  BY <1>3, <1>4, <1>7, <1>8 DEF AtEntry
<1>13. Held(disk', Present', Wrong', Gone')
  BY <1>1, <1>3, <1>8, IdleIs
<1>14. DiskHeld'
  BY <1>8, <1>9, <1>10, <1>11, <1>12, <1>13 DEF DiskHeld
<1> QED BY <1>14, DiskHeldInvNext

(* Fewer files.                                                            *)
LEMMA HeldWithout ==
  ASSUME NEW d, NEW f, NEW w, Held(d, f, w, {}), NEW n \in DOMAIN f,
         \A e \in Used(d.dir) : d.map[e] = n /\ d.dir[e].ext # 0 => ~Buffers(d, e)
  PROVE  Held(d, Without(f, n), w, {n})
<1> DEFINE r == Without(f, n)
<1>1. DOMAIN r = DOMAIN f \ {n} /\ \A m \in DOMAIN r : r[m] = f[m]
  BY DEF Without
<1>2. HostOK(r)
  BY <1>1 DEF Held, HostOK, Without
<1>3. \A m \in DOMAIN Lengths(r) : m \in DOMAIN Lengths(f) /\ Lengths(r)[m] = Lengths(f)[m]
  BY <1>1 DEF Lengths
<1>4. Structure(d.dir, d.map, Lengths(r), w, {n})
  BY <1>3 DEF Held, Structure, FirstThere
<1>5. BufferedRight(d, r, w)
  <2>1. Records(d, r, w) \subseteq Records(d, f, w)
    BY <1>1 DEF Records
  <2>2. \A ek \in Records(d, r, w) : r[d.map[ek[1]]] = f[d.map[ek[1]]]
    BY <1>1 DEF Records
  <2> HIDE DEF r
  <2> QED BY <2>1, <2>2 DEF Held, BufferedRight
<1>6. Unbuffered(d, w, {n})
  BY DEF Held, Unbuffered
<1>7. DOMAIN d.host \ {n} = DOMAIN r /\ \A m \in DOMAIN r : d.host[m] = r[m]
  BY <1>1 DEF Held
<1> QED BY <1>2, <1>4, <1>5, <1>6, <1>7 DEF Held

(* An erase begins.                                                        *)
LEMMA EraseStep == ASSUME FilesInv, NEW name \in Names, Erase(name), ~ErasesBuffered PROVE FilesInv'
<1>1. Idle /\ name \in DOMAIN files /\ EntriesOf(name) # {} /\ ~Buffered(name)
  BY DEF Erase
<1>2. /\ job' = [NoJob EXCEPT !.op = "erase", !.name = name]
      /\ files' = Without(files, name)
      /\ UNCHANGED <<disk, fcb, misread, records, opens>>
  BY DEF Erase
<1>3. job' = [op |-> "erase", name |-> name, to |-> Free, at |-> 0]
  BY <1>2 DEF NoJob
<1>4. /\ job'.op = "erase" /\ job'.name = name /\ job'.to = Free /\ job'.at = 0 /\ job' # NoJob
  BY <1>3 DEF NoJob
<1>5. ~Pending' /\ Present' = files' /\ Gone' = {name} /\ Wrong' = misread
  BY <1>2, <1>4 DEF Pending, Present, Gone, Wrong
<1>6. DOMAIN files' = DOMAIN files \ {name}
  BY <1>2 DEF Without
<1>7. \A e \in Used(disk.dir) : disk.map[e] = name /\ disk.dir[e].ext # 0 => ~Buffers(disk, e)
  <2>1. \A e \in Used(disk.dir) : disk.map[e] = name => e \in EntriesOf(name)
    BY <1>1, IdleIs DEF EntriesOf, Used
  <2> QED BY <1>1, <2>1 DEF Buffered, Buffers
<1>8. Held(disk, files', misread, {name})
  <2>1. Held(disk, files, misread, {})
    BY <1>1, IdleIs
  <2> QED BY <1>1, <1>2, <1>7, <2>1, HeldWithout
<1>9. DiskTypes'
  <2>1. job' \in [op : {"none", "erase", "rename"}, name : Names \cup {Free},
                  to : Names \cup {Free}, at : Nat]
    BY <1>3
  <2>2. HostOK(files')
    BY <1>8 DEF Held
  <2> QED BY <1>1, <1>2, <2>1, <2>2, IdleIs DEF DiskTypes
<1>10. JobInv'
  BY <1>1, <1>2, <1>4, <1>5, <1>6, IdleIs DEF JobInv
<1>11. NamesInv'
  <2>1. \A e \in Used(disk.dir) : e > 0
    BY Counts DEF Used, EntryNumbers
  <2> QED BY <1>1, <1>2, <1>4, <1>5, <1>6, <2>1, IdleIs DEF NamesInv
<1>12. \A n \in Gone' : n \in DOMAIN disk'.host <=>
         \E e \in Used(disk'.dir) : disk'.map[e] = n /\ disk'.dir[e].ext = 0
  <2>1. PICK x \in EntriesOf(name) : TRUE
    BY <1>1
  <2>2. x \in Used(disk.dir) /\ disk.map[x] = name
    BY <1>1, <2>1, IdleIs DEF EntriesOf
  <2>3. \E e \in Used(disk.dir) : disk.map[e] = name /\ disk.dir[e].ext = 0
    BY <1>1, <2>2, IdleIs DEF Held, Structure, FirstThere
  <2>4. name \in DOMAIN disk.host
    BY <1>1, IdleIs
  <2> QED BY <1>2, <1>5, <2>3, <2>4
<1>13. DiskHeld'
  BY <1>1, <1>2, <1>5, <1>8, <1>9, <1>10, <1>11, <1>12, IdleIs DEF DiskHeld
<1> QED BY <1>13, DiskHeldInvNext

(* A rename begins.                                                        *)
LEMMA RenameStep ==
  ASSUME FilesInv, NEW name \in Names, NEW to \in Names, Rename(name, to) PROVE FilesInv'
<1>1. /\ Idle /\ name \in DOMAIN files /\ EntriesOf(name) # {} /\ to \notin DOMAIN files
      /\ disk.dir[Min(EntriesOf(name))].ext = 0
  BY DEF Rename
<1>2. /\ job' = [NoJob EXCEPT !.op = "rename", !.name = name, !.to = to]
      /\ files' = Put(Without(files, name), to, files[name])
      /\ misread' = { IF n = name THEN to ELSE n : n \in misread }
      /\ UNCHANGED <<disk, fcb, records, opens>>
  BY DEF Rename
<1>3. job' = [op |-> "rename", name |-> name, to |-> to, at |-> 0]
  BY <1>2 DEF NoJob
<1>4. /\ job'.op = "rename" /\ job'.name = name /\ job'.to = to /\ job'.at = 0 /\ job' # NoJob
  BY <1>3 DEF NoJob
<1>5. /\ DOMAIN files' = (DOMAIN files \ {name}) \cup {to}
      /\ files'[to] = files[name]
      /\ \A n \in DOMAIN files \ {name} : files'[n] = files[n]
      /\ files' = [n \in DOMAIN files' |-> files'[n]]
  BY <1>1, <1>2 DEF Put, Without
<1>6. Pending' /\ Gone' = {}
  BY <1>4 DEF Pending, Gone
<1>7. Present' = files
  <2>1. Present' = Put(Without(files', to), name, files'[to])
    BY <1>4, <1>6 DEF Present
  <2>2. Present' = [n \in (DOMAIN files' \ {to}) \cup {name} |->
                      IF n = name THEN files'[to] ELSE files'[n]]
    BY <2>1 DEF Put, Without
  <2>3. (DOMAIN files' \ {to}) \cup {name} = DOMAIN files
    BY <1>1, <1>5
  <2>4. files = [n \in DOMAIN files |-> files[n]]
    BY <1>1, IdleIs DEF HostOK
  <2> QED BY <1>1, <1>5, <2>2, <2>3, <2>4
<1>8. Wrong' = misread /\ misread' \subseteq DOMAIN files'
  BY <1>1, <1>2, <1>4, <1>5, <1>6, IdleIs DEF Wrong
<1>9. DiskTypes'
  <2>1. job' \in [op : {"none", "erase", "rename"}, name : Names \cup {Free},
                  to : Names \cup {Free}, at : Nat]
    BY <1>3
  <2>2. HostOK(files')
    <3>1. HostOK(files) /\ files[name] \in Seq(Int)
      BY <1>1, IdleIs DEF HostOK
    <3>2. HostOK(Without(files, name))
      BY <3>1, WithoutIs
    <3> QED BY <1>2, <3>1, <3>2, PutIs
  <2>3. misread' \subseteq Names
    BY <1>8, <2>2 DEF HostOK
  <2> QED BY <1>1, <1>2, <2>1, <2>2, <2>3, IdleIs DEF DiskTypes
<1>10. JobInv'
  <2>1. EntriesOf(name)' = EntriesOf(name)
    BY <1>2 DEF EntriesOf, CpmDir, FcbEntry
  <2> QED BY <1>1, <1>2, <1>4, <1>5, <1>8, <2>1, IdleIs DEF JobInv
<1>11. NamesInv'
  <2>1. \A e \in Used(disk.dir) : e > 0
    BY Counts DEF Used, EntryNumbers
  <2> QED BY <1>1, <1>2, <1>4, <1>6, <1>7, <2>1, IdleIs DEF NamesInv
<1>12. Held(disk', Present', Wrong', Gone')
  BY <1>1, <1>2, <1>6, <1>7, <1>8, IdleIs
<1>13. DiskHeld'
  BY <1>1, <1>2, <1>6, <1>9, <1>10, <1>11, <1>12, IdleIs DEF DiskHeld
<1> QED BY <1>13, DiskHeldInvNext
-----------------------------------------------------------------------------
(* Entries written: a file is made, gets longer or is closed.              *)

(* The BDOS writes an entry: what chgdir makes of it is flushed.           *)
LEMMA PutEntryIs ==
  ASSUME NEW e \in EntryNumbers, NEW entry \in DiskEntry,
         disk.dir \in [EntryNumbers -> DiskEntry], PutEntry(e, entry),
         NEW x, Done(x) = IF disk.dir[e] = entry THEN Done(disk) ELSE Chgdir(disk, e, entry),
         x.dir \in {disk.dir, [disk.dir EXCEPT ![e] = entry]}
  PROVE  disk' = Flush([x EXCEPT !.dir = [disk.dir EXCEPT ![e] = entry]])
<1> DEFINE first == ((e - 1) \div EntriesPerSec) * EntriesPerSec + 1
           r == Done(x)
           d == disk
<1>1. r.disk = x /\ r.err = FALSE
  BY DEF Done
<1>2. /\ r = IF d.dir[e] = entry THEN Done(d) ELSE Chgdir(d, e, entry)
      /\ r.disk.dir \in {d.dir, [d.dir EXCEPT ![e] = entry]}
      /\ d.dir \in [EntryNumbers -> DiskEntry]
  BY <1>1
<1>3. OneWritten(d, e, entry, first, r)
  <2> HIDE DEF r, d
  <2> QED BY <1>2, PutOne
<1> HIDE DEF r
<1>4. disk' = IF r.err THEN r.disk ELSE Flush([r.disk EXCEPT !.dir = [d.dir EXCEPT ![e] = entry]])
  BY <1>3 DEF OneWritten, PutEntry
<1> QED BY <1>1, <1>4

DiskOf(dir, map, buf, host) == [dir |-> dir, map |-> map, buf |-> buf, host |-> host]

(* The parts of a disk.                                                    *)
LEMMA DiskOfIs ==
  ASSUME NEW dir, NEW map, NEW buf, NEW host, NEW x, x = DiskOf(dir, map, buf, host)
  PROVE  /\ x.dir = dir /\ x.map = map /\ x.buf = buf /\ x.host = host
         /\ x = [dir |-> x.dir, map |-> x.map, buf |-> x.buf, host |-> x.host]
BY DEF DiskOf

(* A file with no entries comes to be empty.                               *)
LEMMA NewFile ==
  ASSUME NEW d, NEW f, NEW w, Flushable(d, f, w, {}), NEW n \in Names, NEW c \in Seq(Int), Len(c) = 0,
         \A e \in Used(d.dir) : d.map[e] # n,
         NEW h, h = d.host, NEW s, s = Put(h, n, c),
         NEW x, x = DiskOf(d.dir, d.map, d.buf, s),
         NEW r, r = Put(f, n, c)
  PROVE  Flushable(x, r, w \ {n}, {})
<1>1. x.dir = d.dir /\ x.map = d.map /\ x.buf = d.buf /\ x.host = s
      /\ x = [dir |-> x.dir, map |-> x.map, buf |-> x.buf, host |-> x.host]
  BY DiskOfIs
<1>2. HostOK(x.host) /\ HostOK(r)
  <2>1. HostOK(h) /\ HostOK(f)
    BY DEF Flushable, DiskOK
  <2>2. HostOK(s)
    BY <2>1, PutIs
  <2>3. HostOK(r)
    BY <2>1, PutIs
  <2> QED BY <1>1, <2>2, <2>3
<1>3. DiskOK(x)
  BY <1>1, <1>2 DEF Flushable, DiskOK
<1>4. /\ DOMAIN r = DOMAIN f \cup {n} /\ r[n] = c /\ \A m \in DOMAIN f \ {n} : r[m] = f[m]
      /\ DOMAIN x.host = DOMAIN d.host \cup {n} /\ x.host[n] = c
      /\ \A m \in DOMAIN d.host \ {n} : x.host[m] = d.host[m]
  <2>1. DOMAIN r = DOMAIN f \cup {n} /\ r[n] = c /\ \A m \in DOMAIN f \ {n} : r[m] = f[m]
    BY DEF Put
  <2>2. DOMAIN s = DOMAIN h \cup {n} /\ s[n] = c /\ \A m \in DOMAIN h \ {n} : s[m] = h[m]
    BY DEF Put
  <2> QED BY <1>1, <2>1, <2>2
<1>5. DOMAIN d.host = DOMAIN f
  BY DEF Flushable
<1>6. Structure(x.dir, x.map, Lengths(r), w \ {n}, {})
  <2>1. ASSUME NEW m \in DOMAIN Lengths(r) \ (w \ {n})
        PROVE FileFits(x.dir, x.map, m, Lengths(r)[m])
    <3>1. CASE m = n
      <4>1. Lengths(r)[m] = 0
        BY <1>4, <3>1 DEF Lengths
      <4>2. 0 .. 0 - 1 = {}
        OBVIOUS
      <4> QED BY <1>1, <3>1, <4>1, <4>2 DEF FileFits
    <3>2. CASE m # n
      BY <1>1, <1>4, <3>2 DEF Flushable, Structure, Lengths
    <3> QED BY <3>1, <3>2
  <2> QED BY <1>1, <2>1 DEF Flushable, Structure
<1>7. Records(x, r, w \ {n}) = Records(d, f, w)
      /\ \A ek \in Records(d, f, w) : d.map[ek[1]] # n /\ r[d.map[ek[1]]] = f[d.map[ek[1]]]
  BY <1>1, <1>4 DEF Records
<1>8. BufferedRight(x, r, w \ {n})
  BY <1>1, <1>7 DEF Flushable, BufferedRight
<1>9. Unbuffered(x, w \ {n}, {})
  BY <1>1 DEF Flushable, Unbuffered, Buffers
<1>10. Comes(x.host, x, r, w \ {n}, 0)
  <2>1. \A m, p : Waits(d, f, w, m, p, 0) => Waits(x, r, w \ {n}, m, p, 0)
    BY <1>1, <1>7 DEF Waits
  <2>2. \A m \in DOMAIN f \ {n} : r[m] = f[m] /\ x.host[m] = d.host[m]
    BY <1>4, <1>5
  <2>3. \A m \in DOMAIN f \ {n} :
          /\ Len(x.host[m]) <= Len(r[m])
          /\ \A p \in 1 .. Len(r[m]) : OnHost(x.host, r, m, p) \/ Waits(x, r, w \ {n}, m, p, 0)
    BY <2>1, <2>2 DEF Flushable, Comes, OnHost
  <2>4. Len(x.host[n]) <= Len(r[n]) /\ 1 .. Len(r[n]) = {}
    BY <1>4
  <2> QED BY <1>4, <2>3, <2>4 DEF Comes
<1> QED BY <1>1, <1>2, <1>3, <1>4, <1>5, <1>6, <1>8, <1>9, <1>10 DEF Flushable

NewEntry(n, y) == [FreeEntry EXCEPT !.name = n, !.ext = y]

(* The entry of a new extent.                                              *)
LEMMA NewEntryIs ==
  ASSUME NEW n \in Names, NEW y \in Nat,
         NEW new, new = NewEntry(n, y)
  PROVE  /\ new.name = n /\ new.ext = y
            /\ new \in DiskEntry /\ InUse(new) /\ ExtentRecords(new) = 0
         /\ new.blocks = NoBlocks
         /\ \A i \in 1 .. BlocksPerExtent : new.blocks[i] = 0
<1>1. NoBlocks \in BlockList /\ \A i \in 1 .. BlocksPerExtent : NoBlocks[i] = 0
  BY DEF NoBlocks, BlockList
<1>2. FreeEntry \in DiskEntry
  BY <1>1, Counts DEF FreeEntry, DiskEntry
<1>3. new \in DiskEntry
  BY <1>2 DEF DiskEntry, NewEntry
<1>4. /\ new.name = n /\ new.ext = y /\ new.ex = 0 /\ new.rc = 0 /\ new.blocks = NoBlocks
  BY DEF FreeEntry, NewEntry
<1>5. ExtentRecords(new) = 0
  BY <1>4, Counts DEF ExtentRecords
<1> QED BY <1>1, <1>3, <1>4, <1>5, NoName DEF InUse

(* The disk z is d with a new entry of a file, of its next extent.         *)
AddsEntry(d, f, w, e, n, y, new, z) ==
  /\ Flushable(d, f, w, {})
  /\ e \in EntryNumbers \ Used(d.dir) /\ n \in DOMAIN f \ w /\ y \in Nat
  /\ new = NewEntry(n, y)
  /\ Len(f[n]) = y * ExtentSize
  /\ \A x \in Used(d.dir) : d.map[x] = n => d.dir[x].ext # y
  /\ y = 0 \/ \E x \in Used(d.dir) : d.map[x] = n /\ d.dir[x].ext = 0
  /\ z = DiskOf([d.dir EXCEPT ![e] = new], [d.map EXCEPT ![e] = n], d.buf, d.host)

(* It is as right as d, and has one entry more.                            *)
LEMMA AddEntry ==
  ASSUME NEW d, NEW f, NEW w, NEW e, NEW n, NEW y, NEW new, NEW z,
         AddsEntry(d, f, w, e, n, y, new, z)
  PROVE  Flushable(z, f, w, {}) /\ new \in DiskEntry /\ ExtentRecords(new) = 0 /\ InUse(new)
         /\ Used(z.dir) = Used(d.dir) \cup {e}
<1>a. /\ Flushable(d, f, w, {}) /\ e \in EntryNumbers \ Used(d.dir) /\ n \in DOMAIN f \ w
      /\ y \in Nat /\ new = NewEntry(n, y) /\ Len(f[n]) = y * ExtentSize
      /\ \A x \in Used(d.dir) : d.map[x] = n => d.dir[x].ext # y
      /\ y = 0 \/ \E x \in Used(d.dir) : d.map[x] = n /\ d.dir[x].ext = 0
      /\ z = DiskOf([d.dir EXCEPT ![e] = new], [d.map EXCEPT ![e] = n], d.buf, d.host)
  BY DEF AddsEntry
<1> USE <1>a
<1>1. /\ z.dir = [d.dir EXCEPT ![e] = new] /\ z.map = [d.map EXCEPT ![e] = n]
      /\ z.buf = d.buf /\ z.host = d.host
      /\ z = [dir |-> z.dir, map |-> z.map, buf |-> z.buf, host |-> z.host]
  BY DiskOfIs
<1>2. /\ d.dir \in [EntryNumbers -> DiskEntry] /\ d.map \in [EntryNumbers -> Names \cup {NoFile}]
      /\ n \in Names
  BY DEF Flushable, DiskOK, HostOK
<1>3. /\ new.name = n /\ new.ext = y /\ new \in DiskEntry /\ InUse(new) /\ ExtentRecords(new) = 0
      /\ \A i \in 1 .. BlocksPerExtent : new.blocks[i] = 0
  BY <1>2, NewEntryIs
<1>4. /\ z.dir \in [EntryNumbers -> DiskEntry] /\ z.map \in [EntryNumbers -> Names \cup {NoFile}]
      /\ z.dir[e] = new /\ z.map[e] = n
      /\ \A x \in EntryNumbers \ {e} : z.dir[x] = d.dir[x] /\ z.map[x] = d.map[x]
  BY <1>1, <1>2, <1>3
<1>5. Used(z.dir) = Used(d.dir) \cup {e}
  BY <1>3, <1>4 DEF Used
<1>6. \A x \in Used(d.dir) : x # e /\ x \in EntryNumbers /\ z.dir[x] = d.dir[x] /\ z.map[x] = d.map[x]
  BY <1>4 DEF Used
<1>7. DiskOK(z)
  BY <1>1, <1>4 DEF Flushable, DiskOK
<1>8. NoBlockTwice(z.dir)
  <2> SUFFICES ASSUME NEW e1 \in Used(z.dir), NEW e2 \in Used(z.dir),
                      NEW i \in 1 .. BlocksPerExtent, NEW j \in 1 .. BlocksPerExtent,
                      z.dir[e1].blocks[i] # 0,
                      z.dir[e1].blocks[i] = z.dir[e2].blocks[j]
               PROVE  e1 = e2 /\ i = j
    BY DEF NoBlockTwice
  <2>1. e1 # e /\ e2 # e
    BY <1>3, <1>4
  <2>2. e1 \in Used(d.dir) /\ e2 \in Used(d.dir)
    BY <1>5, <2>1
  <2>3. z.dir[e1] = d.dir[e1] /\ z.dir[e2] = d.dir[e2]
    BY <1>6, <2>2
  <2>4. NoBlockTwice(d.dir)
    BY DEF Flushable, Structure
  <2> QED BY <2>2, <2>3, <2>4 DEF NoBlockTwice
<1>9. NoExtentTwice(z.dir, z.map)
  <2> SUFFICES ASSUME NEW e1 \in Used(z.dir), NEW e2 \in Used(z.dir),
                      z.map[e1] = z.map[e2], z.dir[e1].ext = z.dir[e2].ext
               PROVE  e1 = e2
    BY DEF NoExtentTwice
  <2>1. NoExtentTwice(d.dir, d.map)
    BY DEF Flushable, Structure
  <2>2. \A x \in Used(d.dir) : z.map[x] = n => z.dir[x].ext # y
    BY <1>6
  <2>3. z.map[e] = n /\ z.dir[e].ext = y
    BY <1>3, <1>4
  <2>4. CASE e1 \in Used(d.dir) /\ e2 \in Used(d.dir)
    BY <1>6, <2>1, <2>4 DEF NoExtentTwice
  <2>5. CASE e1 = e \/ e2 = e
    BY <1>5, <2>2, <2>3, <2>5
  <2> QED BY <1>5, <2>4, <2>5
<1>10. FirstThere(z.dir, z.map, {})
  <2> SUFFICES ASSUME NEW x \in Used(z.dir)
               PROVE  \E x0 \in Used(z.dir) : z.map[x0] = z.map[x] /\ z.dir[x0].ext = 0
    BY DEF FirstThere
  <2>1. ASSUME NEW x0 \in Used(d.dir)
        PROVE  x0 \in Used(z.dir) /\ z.map[x0] = d.map[x0] /\ z.dir[x0] = d.dir[x0]
    BY <1>5, <1>6
  <2>2. CASE x \in Used(d.dir)
    <3>1. FirstThere(d.dir, d.map, {})
      BY DEF Flushable, Structure
    <3>2. PICK x0 \in Used(d.dir) : d.map[x0] = d.map[x] /\ d.dir[x0].ext = 0
      BY <2>2, <3>1 DEF FirstThere
    <3> QED BY <2>1, <2>2, <3>2
  <2>3. CASE x = e
    <3>1. z.map[e] = n /\ z.dir[e].ext = y /\ e \in Used(z.dir)
      BY <1>3, <1>4, <1>5
    <3>2. CASE y = 0
      BY <2>3, <3>1, <3>2
    <3>3. CASE \E x0 \in Used(d.dir) : d.map[x0] = n /\ d.dir[x0].ext = 0
      <4>1. PICK x0 \in Used(d.dir) : d.map[x0] = n /\ d.dir[x0].ext = 0
        BY <3>3
      <4> QED BY <2>1, <2>3, <3>1, <4>1
    <3> QED BY <3>2, <3>3
  <2> QED BY <1>5, <2>2, <2>3
<1>11. ASSUME NEW m \in DOMAIN Lengths(f) \ w PROVE FileFits(z.dir, z.map, m, Lengths(f)[m])
  <2> DEFINE len == Lengths(f)[m]
  <2>1. FileFits(d.dir, d.map, m, len)
    BY DEF Flushable, Structure
  <2>2. m = n => EntryFits(new, len)
    <3>1. m = n => len = y * ExtentSize
      BY DEF Lengths
    <3> DEFINE b == y * ExtentSize
    <3>2. b \in Nat
      BY Counts
    <3>3. AtMost(b - b, ExtentSize) = 0
      <4> HIDE DEF b
      <4> QED BY <3>2, Counts DEF AtMost
    <3>4. \A i \in 1 .. BlocksPerExtent : ~ ((i - 1) * RecPerBlock < 0)
      <4> TAKE i \in 1 .. BlocksPerExtent
      <4>1. i - 1 \in Nat
        BY Counts
      <4> DEFINE j == i - 1
      <4> HIDE DEF j
      <4>2. j * RecPerBlock \in Nat
        BY <4>1, Counts DEF j
      <4>3. ~ (j * RecPerBlock < 0)
        BY <4>2
      <4> QED BY <4>3 DEF j
    <3>5. new.ext = y
      BY <1>3
    <3> QED BY <1>3, <3>1, <3>2, <3>3, <3>4, <3>5 DEF EntryFits
  <2> HIDE DEF len
  <2>3. \A x \in Used(z.dir) : z.map[x] = m => EntryFits(z.dir[x], len)
    BY <1>4, <1>5, <1>6, <2>1, <2>2 DEF FileFits
  <2>4. \A q \in 0 .. len - 1 : q * ExtentSize < len =>
          \E x \in Used(z.dir) : z.map[x] = m /\ z.dir[x].ext = q
    <3> TAKE q \in 0 .. len - 1
    <3> HAVE q * ExtentSize < len
    <3>1. PICK x \in Used(d.dir) : d.map[x] = m /\ d.dir[x].ext = q
      BY <2>1 DEF FileFits
    <3> QED BY <1>5, <1>6, <3>1
  <2>5. FileFits(z.dir, z.map, m, len)
    BY <2>3, <2>4 DEF FileFits
  <2> QED BY <2>5 DEF len
<1>12. Structure(z.dir, z.map, Lengths(f), w, {})
  BY <1>8, <1>9, <1>10, <1>11 DEF Structure
<1>13. /\ Records(z, f, w) = Records(d, f, w)
       /\ \A ek \in Records(d, f, w) : z.dir[ek[1]] = d.dir[ek[1]] /\ z.map[ek[1]] = d.map[ek[1]]
  <2>1. \A ek \in Records(d, f, w) : z.dir[ek[1]] = d.dir[ek[1]] /\ z.map[ek[1]] = d.map[ek[1]]
    BY <1>6 DEF Records
  <2>2. \A k \in 0 .. ExtentSize - 1 : ~ (k < ExtentRecords(z.dir[e]))
    BY <1>3, <1>4
  <2> QED BY <1>5, <1>6, <2>1, <2>2 DEF Records
<1>14. BufferedRight(z, f, w)
  BY <1>1, <1>13 DEF Flushable, BufferedRight
<1>15. Unbuffered(z, w, {})
  BY <1>1, <1>4, <1>5, <1>6 DEF Flushable, Unbuffered, Buffers
<1>16. Comes(z.host, z, f, w, 0)
  <2>1. \A m, p : Waits(d, f, w, m, p, 0) => Waits(z, f, w, m, p, 0)
    BY <1>1, <1>13 DEF Waits
  <2> QED BY <1>1, <2>1 DEF Flushable, Comes, OnHost
<1>17. \A x \in Used(z.dir) : z.map[x] \in DOMAIN f
  BY <1>4, <1>5, <1>6 DEF Flushable
<1> QED BY <1>1, <1>3, <1>5, <1>7, <1>12, <1>14, <1>15, <1>16, <1>17 DEF Flushable

FcbTypes ==
  [name : Names \cup {Free}, entry : Nat, ext : Nat, recs : 0 .. ExtentSize,
   blocks : BlockList, clean : 0 .. ExtentSize, touched : SUBSET Nat]

(* A disk with parts replaced.                                             *)
LEMMA DiskEdit ==
  ASSUME NEW d, d = [dir |-> d.dir, map |-> d.map, buf |-> d.buf, host |-> d.host]
  PROVE  /\ \A q : [d EXCEPT !.dir = q] = DiskOf(q, d.map, d.buf, d.host)
         /\ \A q : [d EXCEPT !.host = q] = DiskOf(d.dir, d.map, d.buf, q)
         /\ \A q, r : [[d EXCEPT !.dir = q] EXCEPT !.map = r] = DiskOf(q, r, d.buf, d.host)
         /\ \A q, r : [[d EXCEPT !.map = q] EXCEPT !.host = r] = DiskOf(d.dir, q, d.buf, r)
<1> DEFINE a == d.dir  b == d.map  c == d.buf  h == d.host
<1>1. d = [dir |-> a, map |-> b, buf |-> c, host |-> h]
  OBVIOUS
<1> HIDE DEF a, b, c, h
<1>2. \A q : [d EXCEPT !.dir = q] = [dir |-> q, map |-> b, buf |-> c, host |-> h]
  BY <1>1
<1>3. \A q : [d EXCEPT !.host = q] = [dir |-> a, map |-> b, buf |-> c, host |-> q]
  BY <1>1
<1>4. \A q : [d EXCEPT !.map = q] = [dir |-> a, map |-> q, buf |-> c, host |-> h]
  BY <1>1
<1>5. ASSUME NEW q, NEW r
      PROVE  [[d EXCEPT !.dir = q] EXCEPT !.map = r] = [dir |-> q, map |-> r, buf |-> c, host |-> h]
  <2> DEFINE g == [d EXCEPT !.dir = q]
  <2>1. g = [dir |-> q, map |-> b, buf |-> c, host |-> h]
    BY <1>2
  <2> HIDE DEF g
  <2>2. [g EXCEPT !.map = r] = [dir |-> q, map |-> r, buf |-> c, host |-> h]
    BY <2>1
  <2> QED BY <2>2 DEF g
<1>6. ASSUME NEW q, NEW r
      PROVE  [[d EXCEPT !.map = q] EXCEPT !.host = r] = [dir |-> a, map |-> q, buf |-> c, host |-> r]
  <2> DEFINE g == [d EXCEPT !.map = q]
  <2>1. g = [dir |-> a, map |-> q, buf |-> c, host |-> h]
    BY <1>4
  <2> HIDE DEF g
  <2>2. [g EXCEPT !.host = r] = [dir |-> a, map |-> q, buf |-> c, host |-> r]
    BY <2>1
  <2> QED BY <2>2 DEF g
<1> QED BY <1>2, <1>3, <1>5, <1>6 DEF DiskOf, a, b, c, h

(* The disk after an entry was written.                                    *)
LEMMA WriteDirentIs ==
  ASSUME NEW d, d = [dir |-> d.dir, map |-> d.map, buf |-> d.buf, host |-> d.host],
         NEW e, NEW new, NEW file
  PROVE  WriteDirent(d, e, new, file)
         = DiskOf([d.dir EXCEPT ![e] = new], [d.map EXCEPT ![e] = file], d.buf, d.host)
<1> DEFINE q == [d.dir EXCEPT ![e] = new]
           r == [d.map EXCEPT ![e] = file]
           a == d.dir  b == d.map  c == d.buf  h == d.host
           g == [d EXCEPT !.dir[e] = new]
<1>1. d = [dir |-> a, map |-> b, buf |-> c, host |-> h]
  OBVIOUS
<1>2. g = [d EXCEPT !.dir = q]
  OBVIOUS
<1>3. [g EXCEPT !.map[e] = file] = [g EXCEPT !.map = [g.map EXCEPT ![e] = file]]
  <2> HIDE DEF g
  <2> QED OBVIOUS
<1> HIDE DEF a, b, c, h, q
<1>4. g.map = b
  BY <1>1, <1>2
<1>5. [g EXCEPT !.map[e] = file] = [[d EXCEPT !.dir = q] EXCEPT !.map = r]
  <2> HIDE DEF g
  <2> QED BY <1>2, <1>3, <1>4 DEF b
<1>6. [[d EXCEPT !.dir = q] EXCEPT !.map = r] = DiskOf(q, r, d.buf, d.host)
  BY DiskEdit
<1>7. WriteDirent(d, e, new, file) = [g EXCEPT !.map[e] = file]
  BY DEF WriteDirent
<1> QED BY <1>5, <1>6, <1>7 DEF q

(* A free entry of CP/M is free for rcpmfs.                                *)
LEMMA FreeEntryOf ==
  ASSUME FilesInv, FreeEntries # {}
  PROVE  Min(FreeEntries) \in EntryNumbers \ Used(disk.dir)
<1>1. FreeEntries \in SUBSET Nat
  BY DEF FreeEntries, EntryNumbers
<1>2. Min(FreeEntries) \in FreeEntries
  BY <1>1, MinIs
<1> QED BY <1>2, CpmIs DEF FreeEntries, Used

(* A state after a new entry has been written.                             *)
LEMMA NewEntryStep ==
  ASSUME NEW d, NEW f, NEW w, Flushable(d, f, w, {}), w \subseteq DOMAIN f,
         \A x \in Used(d.dir) : d.dir[x].name = d.map[x],
         NEW e \in EntryNumbers \ Used(d.dir), NEW n \in DOMAIN f \ w, NEW y \in Nat,
         NEW new, new = NewEntry(n, y),
         Len(f[n]) = y * ExtentSize,
         \A x \in Used(d.dir) : d.map[x] = n => d.dir[x].ext # y,
         y = 0 \/ \E x \in Used(d.dir) : d.map[x] = n /\ d.dir[x].ext = 0,
         NEW z, z = DiskOf([d.dir EXCEPT ![e] = new], [d.map EXCEPT ![e] = n], d.buf, d.host),
         disk' = Flush(z), files' = f, misread' = w, job' = NoJob,
         records' \in Nat, opens' \in Nat,
         fcb' \in FcbTypes, fcb'.name = n, fcb'.entry = e, fcb'.ext = y, fcb'.recs = 0,
         fcb'.clean = 0, fcb'.touched = {}, fcb'.blocks = NoBlocks
  PROVE  FilesInv'
<1>a. AddsEntry(d, f, w, e, n, y, new, z)
  BY DEF AddsEntry
<1>1. Flushable(z, f, w, {}) /\ new \in DiskEntry /\ ExtentRecords(new) = 0
      /\ Used(z.dir) = Used(d.dir) \cup {e}
  BY <1>a, AddEntry
<1>2. Settled(Flush(z), z, f)
  BY <1>1, FlushSettles
<1> DEFINE x == Flush(z)
<1>3. Held(x, f, w, {}) /\ x.dir = z.dir /\ x.map = z.map
  <2> HIDE DEF x
  <2>1. Settled(x, z, f)
    BY <1>2 DEF x
  <2> QED BY <1>1, <2>1, SettledHeld
<1>4. /\ z.dir = [d.dir EXCEPT ![e] = new] /\ z.map = [d.map EXCEPT ![e] = n]
  BY DiskOfIs
<1>5. /\ d.dir \in [EntryNumbers -> DiskEntry] /\ d.map \in [EntryNumbers -> Names \cup {NoFile}]
      /\ HostOK(f)
  BY DEF Flushable, DiskOK
<1>6. /\ x.dir[e] = new /\ x.map[e] = n
      /\ \A v \in Used(d.dir) : x.dir[v] = d.dir[v] /\ x.map[v] = d.map[v]
  BY <1>3, <1>4, <1>5 DEF Used
<1>7. n \in Names /\ new.name = n /\ new.ext = y /\ new.blocks = NoBlocks
  <2>1. n \in Names
    BY <1>5 DEF HostOK
  <2> QED BY <2>1, NewEntryIs
<1>8. ~Pending' /\ Present' = f /\ Gone' = {} /\ Wrong' = w
  BY DEF NoJob, Pending, Present, Gone, Wrong
<1>9. disk' = x /\ DiskOK(x)
  BY <1>3 DEF Held
<1>10. \A v \in Used(x.dir) : x.map[v] \in DOMAIN f /\ x.dir[v].name = x.map[v]
  <2>1. \A v \in Used(d.dir) : d.map[v] \in DOMAIN f
    BY DEF Flushable
  <2> QED BY <1>1, <1>3, <1>6, <1>7, <2>1
<1> HIDE DEF x
<1>11. DiskTypes'
  <2>1. misread' \subseteq Names
    BY <1>5 DEF HostOK
  <2> QED BY <1>5, <1>9, <2>1, NoFcbType DEF DiskTypes, FcbTypes
<1>12. JobInv'
  BY <1>8 DEF JobInv, NoJob
<1>13. NamesInv'
  <2>1. \A v \in Used(x.dir) : x.dir[v].name # Free
    BY DEF Used, InUse
  <2> QED BY <1>8, <1>9, <1>10, <2>1 DEF NamesInv, NoJob
<1>14. AtEntry(disk.dir[fcb.entry])'
  BY <1>1, <1>6, <1>7, <1>9 DEF AtEntry
<1>15. DiskHeld'
  BY <1>3, <1>8, <1>9, <1>11, <1>12, <1>13, <1>14 DEF DiskHeld
<1> QED BY <1>15, DiskHeldInvNext

(* A file is made (rcpmfs_chgdir: extent zero appears).                    *)
LEMMA MakeFileStep == ASSUME FilesInv, NEW name \in Names, MakeFile(name) PROVE FilesInv'
<1> DEFINE e == Min(FreeEntries)
           new == NewEntry(name, 0)
           c == <<>>
           h == disk.host
           s == Put(h, name, c)
           d == DiskOf(disk.dir, disk.map, disk.buf, s)
           f == Put(files, name, c)
           w == misread \ {name}
<1>1. Idle /\ EntriesOf(name) = {} /\ e \in EntryNumbers \ Used(disk.dir)
  BY FreeEntryOf DEF MakeFile
<1>2. /\ new.name = name /\ new.ext = 0 /\ new \in DiskEntry /\ InUse(new)
      /\ [FreeEntry EXCEPT !.name = name] = new
  <2>1. [FreeEntry EXCEPT !.name = name] = new
    <3> DEFINE g == [FreeEntry EXCEPT !.name = name]
    <3>1. g = [name |-> name, ext |-> 0, ex |-> 0, rc |-> 0, blocks |-> NoBlocks]
      BY DEF FreeEntry
    <3>2. new = [g EXCEPT !.ext = 0]
      BY DEF NewEntry
    <3> HIDE DEF g, new
    <3> QED BY <3>1, <3>2 DEF g
  <2> HIDE DEF new
  <2> QED BY <2>1, NewEntryIs DEF new
<1>3. \A x \in Used(disk.dir) : disk.map[x] # name
  BY <1>1, IdleIs DEF EntriesOf, Used
<1>4. Flushable(d, f, w, {}) /\ w \subseteq DOMAIN f
  <2>1. c \in Seq(Int) /\ Len(c) = 0
    OBVIOUS
  <2>2. Flushable(disk, files, misread, {}) /\ misread \subseteq DOMAIN files
    BY <1>1, IdleIs
  <2> HIDE DEF c, h, s, d, f
  <2>3. Flushable(d, f, misread \ {name}, {})
    BY <1>3, <2>1, <2>2, NewFile DEF h, s, d, f
  <2>4. DOMAIN f = DOMAIN files \cup {name}
    BY PutIs DEF f
  <2> QED BY <2>2, <2>3, <2>4
<1>5. d.dir = disk.dir /\ d.map = disk.map /\ d.buf = disk.buf /\ d.host = s
  <2> HIDE DEF s
  <2> QED BY DiskOfIs
<1>6. Chgdir(disk, e, new) = Done(DiskOf([d.dir EXCEPT ![e] = new], [d.map EXCEPT ![e] = name], d.buf, d.host))
  <2> HIDE DEF d, new, e, s
  <2>1. ~InUse(disk.dir[e])
    BY <1>1 DEF Used
  <2>2. Chgdir(disk, e, new) = CreateFile(disk, e, new)
    BY <1>2, <2>1 DEF Chgdir
  <2> DEFINE x == WriteDirent(disk, e, new, name)
             q == [disk.dir EXCEPT ![e] = new]
             m == [disk.map EXCEPT ![e] = name]
  <2>3. x = DiskOf(q, m, disk.buf, disk.host)
    <3>1. disk = [dir |-> disk.dir, map |-> disk.map, buf |-> disk.buf, host |-> disk.host]
      BY DEF FilesInv, DiskTypes, DiskOK
    <3> QED BY <3>1, WriteDirentIs
  <2>4. CreateFile(disk, e, new) = Done([x EXCEPT !.host = Put(@, name, <<>>)])
    BY <1>2 DEF CreateFile
  <2> HIDE DEF x, q, m
  <2>5. x.dir = q /\ x.map = m /\ x.buf = disk.buf /\ x.host = h
        /\ x = [dir |-> x.dir, map |-> x.map, buf |-> x.buf, host |-> x.host]
    BY <2>3, DiskOfIs DEF h
  <2>6. [x EXCEPT !.host = s] = DiskOf(q, m, disk.buf, s)
    <3>1. [x EXCEPT !.host = s] = DiskOf(x.dir, x.map, x.buf, s)
      BY <2>5, DiskEdit
    <3> QED BY <2>5, <3>1
  <2>7. [x EXCEPT !.host = Put(@, name, <<>>)] = [x EXCEPT !.host = s]
    BY <2>5 DEF s, c
  <2> QED BY <1>5, <2>2, <2>4, <2>6, <2>7 DEF q, m
<1> DEFINE z == DiskOf([d.dir EXCEPT ![e] = new], [d.map EXCEPT ![e] = name], d.buf, d.host)
<1>7. disk' = Flush(z)
  <2>1. PutEntry(e, new)
    BY <1>2 DEF MakeFile
  <2>2. disk.dir \in [EntryNumbers -> DiskEntry] /\ e \in EntryNumbers /\ new \in DiskEntry
    BY <1>1, <1>2, IdleIs
  <2>3. disk.dir[e] # new
    BY <1>1, <1>2 DEF Used
  <2> HIDE DEF new, e, d, z
  <2>4. z.dir = [disk.dir EXCEPT ![e] = new] /\ z.map = [d.map EXCEPT ![e] = name]
        /\ z.buf = d.buf /\ z.host = d.host
        /\ z = [dir |-> z.dir, map |-> z.map, buf |-> z.buf, host |-> z.host]
    BY <1>5, DiskOfIs DEF z
  <2>5. Done(z) = IF disk.dir[e] = new THEN Done(disk) ELSE Chgdir(disk, e, new)
    BY <1>6, <2>3 DEF z
  <2>6. z.dir \in {disk.dir, [disk.dir EXCEPT ![e] = new]}
    BY <2>4
  <2>7. disk' = Flush([z EXCEPT !.dir = [disk.dir EXCEPT ![e] = new]])
    BY <2>1, <2>2, <2>5, <2>6, PutEntryIs
  <2>8. [z EXCEPT !.dir = [disk.dir EXCEPT ![e] = new]] = z
    <3> DEFINE q == [disk.dir EXCEPT ![e] = new]
    <3>1. z.dir = q
      BY <2>4
    <3> HIDE DEF q
    <3>2. [z EXCEPT !.dir = q] = DiskOf(q, z.map, z.buf, z.host)
      BY <2>4, DiskEdit
    <3>3. DiskOf(q, z.map, z.buf, z.host) = z
      BY <2>4, <3>1 DEF DiskOf
    <3> QED BY <3>2, <3>3 DEF q
  <2> QED BY <2>7, <2>8
<1>8. /\ files' = f /\ misread' = w /\ job' = NoJob /\ records' \in Nat /\ opens' \in Nat
  BY <1>1, IdleIs DEF MakeFile, DiskTypes
<1>9. fcb' \in FcbTypes /\ fcb'.name = name /\ fcb'.entry = e /\ fcb'.ext = 0 /\ fcb'.recs = 0
      /\ fcb'.clean = 0 /\ fcb'.touched = {} /\ fcb'.blocks = NoBlocks
  <2> HIDE DEF e
  <2>1. fcb' = [NoFcb EXCEPT !.name = name, !.entry = e]
    BY DEF MakeFile, e
  <2>2. e \in Nat
    BY <1>1 DEF EntryNumbers
  <2>3. fcb' \in FcbTypes
    BY <2>1, <2>2, NoFcbType DEF FcbTypes
  <2>4. fcb'.name = name /\ fcb'.entry = e /\ fcb'.ext = 0 /\ fcb'.recs = 0
        /\ fcb'.clean = 0 /\ fcb'.touched = {} /\ fcb'.blocks = NoBlocks
    BY <2>1 DEF NoFcb
  <2> QED BY <2>3, <2>4
<1>10. name \in DOMAIN f \ w /\ Len(f[name]) = 0 * ExtentSize
  <2>1. name \in DOMAIN f /\ f[name] = <<>>
    BY DEF Put
  <2>2. 0 * ExtentSize = 0
    BY Counts
  <2> HIDE DEF f
  <2> QED BY <2>1, <2>2
<1>11. \A x \in Used(d.dir) : d.dir[x].name = d.map[x]
  BY <1>1, <1>5, IdleIs
<1>12. e \in EntryNumbers \ Used(d.dir) /\ \A x \in Used(d.dir) : d.map[x] # name
  BY <1>1, <1>3, <1>5
<1> HIDE DEF d, f, w, new, e, c, h, s, z
<1>13. 0 \in Nat /\ new = NewEntry(name, 0)
       /\ z = DiskOf([d.dir EXCEPT ![e] = new], [d.map EXCEPT ![e] = name], d.buf, d.host)
  BY DEF new, z
<1> QED BY <1>4, <1>7, <1>8, <1>9, <1>10, <1>11, <1>12, <1>13, NewEntryStep

(* The entry on the disk of a file in hand that has not been written.      *)
LEMMA CleanIs ==
  ASSUME FilesInv, fcb # NoFcb, Clean
  PROVE  /\ fcb.clean = fcb.recs /\ Alike(CpmDir, disk.dir)
         /\ Flushable(disk, files, misread, {}) /\ Held(disk, files, misread, {})
<1>1. fcb.clean = fcb.recs
  <2>1. fcb.clean <= fcb.recs /\ \A i \in fcb.clean .. fcb.recs - 1 : Place(i) \in fcb.touched
    BY DEF FilesInv, FcbInv
  <2>2. fcb.clean \in Nat /\ fcb.recs \in Nat
    BY FcbIs, Counts
  <2>3. fcb.clean < fcb.recs => fcb.clean \in fcb.clean .. fcb.recs - 1
    BY <2>2
  <2> QED BY <2>1, <2>2, <2>3 DEF Clean
<1>2. fcb.entry \in EntryNumbers /\ CpmDir[fcb.entry] = FcbEntry
      /\ FcbEntry \in DiskEntry /\ FcbEntry.ext = fcb.ext /\ ExtentRecords(FcbEntry) = fcb.recs
      /\ FcbEntry.blocks = fcb.blocks
      /\ CpmDir \in [EntryNumbers -> DiskEntry]
  BY CpmIs DEF Used
<1>3. disk.dir[fcb.entry] \in DiskEntry /\ DiskOK(disk)
  BY <1>2 DEF FilesInv, DiskTypes, DiskOK
<1>4. disk.dir[fcb.entry].blocks = FcbEntry.blocks
  <2> DEFINE b == disk.dir[fcb.entry].blocks
             c == FcbEntry.blocks
             n == fcb.clean
  <2>1. b \in BlockList /\ c \in BlockList
    BY <1>2, <1>3, EntryIs
  <2>2. EntryFits(FcbEntry, Len(files[fcb.name]))
    BY <1>2, FcbIs DEF FileFits
  <2>3. \A i \in 1 .. BlocksPerExtent : (i - 1) * RecPerBlock < n <=> c[i] # 0
    BY <1>1, <1>2, <2>2 DEF EntryFits
  <2>4. \A i \in 1 .. BlocksPerExtent : b[i] = IF (i - 1) * RecPerBlock < n THEN c[i] ELSE 0
    BY <1>2 DEF FilesInv, FcbInv
  <2>5. \A i \in 1 .. BlocksPerExtent : b[i] = c[i]
    <3> HIDE DEF b, c, n
    <3> QED BY <2>3, <2>4
  <2> HIDE DEF b, c
  <2>6. b = c
    <3>1. b = [i \in 1 .. BlocksPerExtent |-> b[i]] /\ c = [i \in 1 .. BlocksPerExtent |-> c[i]]
      BY <2>1 DEF BlockList
    <3>2. [i \in 1 .. BlocksPerExtent |-> b[i]] = [i \in 1 .. BlocksPerExtent |-> c[i]]
      BY <2>5
    <3> QED BY <3>1, <3>2
  <2> QED BY <2>6 DEF b, c
<1>5. ExtentRecords(disk.dir[fcb.entry]) = fcb.clean
  BY DEF FilesInv, FcbInv
<1>6. Alike(CpmDir, disk.dir)
  <2> SUFFICES ASSUME NEW e \in EntryNumbers
               PROVE  /\ InUse(CpmDir[e]) <=> InUse(disk.dir[e])
                      /\ CpmDir[e].ext = disk.dir[e].ext
                      /\ ExtentRecords(CpmDir[e]) = ExtentRecords(disk.dir[e])
                      /\ CpmDir[e].blocks = disk.dir[e].blocks
    BY DEF Alike
  <2>1. /\ InUse(CpmDir[e]) <=> InUse(disk.dir[e])
        /\ CpmDir[e].ext = disk.dir[e].ext
        /\ e # fcb.entry => CpmDir[e] = disk.dir[e]
    BY CpmIs
  <2>2. CASE e = fcb.entry
    BY <1>1, <1>2, <1>4, <1>5, <2>1, <2>2
  <2>3. CASE e # fcb.entry
    BY <2>1, <2>3
  <2> QED BY <2>2, <2>3
<1>7. Flushable(CpmDisk, files, misread, {})
  BY Ready, FcbIs
<1>8. CpmDisk.dir = CpmDir /\ CpmDisk.map = disk.map
      /\ CpmDisk.buf = disk.buf /\ CpmDisk.host = disk.host
  BY CpmIs
<1>9. Flushable(disk, files, misread, {})
  <2> DEFINE c == CpmDisk
  <2>1. Alike(c.dir, disk.dir) /\ disk.map = c.map /\ disk.buf = c.buf /\ disk.host = c.host
    BY <1>6, <1>8
  <2>2. Flushable(c, files, misread, {})
    BY <1>7
  <2> HIDE DEF c
  <2>3. /\ Used(disk.dir) = Used(c.dir)
        /\ Structure(disk.dir, disk.map, Lengths(files), misread, {})
        /\ BufferedRight(disk, files, misread) /\ Unbuffered(disk, misread, {})
        /\ Comes(c.host, disk, files, misread, 0)
    BY <2>1, <2>2, AlikeSame DEF Flushable
  <2> QED BY <1>3, <2>1, <2>2, <2>3 DEF Flushable
<1>10. ASSUME NEW n \in DOMAIN files PROVE disk.host[n] = files[n]
  <2>1. CASE n # fcb.name
    BY <2>1, FcbIs DEF FilesInv, HostInv
  <2>2. CASE n = fcb.name
    <3> DEFINE s == disk.host[n]
               t == files[n]
    <3>1. KeptLength = Len(t)
      <4>1. IsLast => Len(files[fcb.name]) = fcb.ext * ExtentSize + fcb.recs
        BY FcbLast
      <4> QED BY <1>1, <2>2, <4>1 DEF KeptLength
    <3>2. Len(s) = Len(t) /\ \A p \in 1 .. Len(t) : s[p] = t[p]
      <4>1. Len(disk.host[n]) = KeptLength /\ \A i \in Kept : disk.host[n][i] = files[n][i]
        BY <2>2, FcbIs DEF FilesInv, HostInv
      <4>2. Kept = 1 .. Len(t)
        BY <3>1 DEF Kept, Clean
      <4> QED BY <3>1, <4>1, <4>2
    <3>3. s \in Seq(Int) /\ t \in Seq(Int)
      <4>1. HostOK(files) /\ HostOK(disk.host) /\ n \in DOMAIN disk.host
        BY FcbIs DEF FilesInv, DiskTypes, DiskOK, HostInv
      <4> QED BY <4>1 DEF HostOK
    <3> HIDE DEF s, t
    <3>4. s = t
      BY <3>2, <3>3, SeqSame
    <3> QED BY <3>4 DEF s, t
  <2> QED BY <2>1, <2>2
<1> QED BY <1>1, <1>6, <1>9, <1>10 DEF Flushable, Held

(* A file gets another extent (rcpmfs_chgdir: a later extent appears).     *)
LEMMA NextExtentStep == ASSUME FilesInv, NextExtent PROVE FilesInv'
<1> DEFINE e == Min(FreeEntries)
           n == fcb.name
           y == fcb.ext + 1
           new == NewEntry(n, y)
           z == DiskOf([disk.dir EXCEPT ![e] = new], [disk.map EXCEPT ![e] = n], disk.buf, disk.host)
<1>1. fcb # NoFcb /\ IsLast /\ Clean /\ fcb.recs = ExtentSize /\ e \in EntryNumbers \ Used(disk.dir)
  BY FreeEntryOf DEF NextExtent, Writing
<1>2. /\ job = NoJob /\ n \in DOMAIN files \ misread /\ n \in Names /\ fcb.ext \in Nat /\ y \in Nat
      /\ disk.map[fcb.entry] = n
  BY <1>1, FcbIs
<1>3. new.name = n /\ new.ext = y /\ new \in DiskEntry /\ InUse(new)
  <2> HIDE DEF n, y, new
  <2> QED BY <1>2, NewEntryIs DEF new
<1>4. Flushable(disk, files, misread, {}) /\ misread \subseteq DOMAIN files
  BY <1>1, <1>2, CleanIs, FcbIs DEF FilesInv, JobInv
<1>5. \A x \in Used(disk.dir) : disk.dir[x].name = disk.map[x]
  BY <1>1, FcbIs, CpmIs DEF Used
<1>6. Len(files[n]) = y * ExtentSize
  <2>1. Len(files[n]) = fcb.ext * ExtentSize + ExtentSize
    BY <1>1, FcbLast
  <2>2. (fcb.ext + 1) * ExtentSize = fcb.ext * ExtentSize + ExtentSize
    BY <1>2, Counts
  <2> QED BY <2>1, <2>2
<1>7. \A x \in Used(disk.dir) : disk.map[x] = n => disk.dir[x].ext # y
  BY <1>1, FcbLast, CpmIs DEF Used
<1>8. \E x \in Used(disk.dir) : disk.map[x] = n /\ disk.dir[x].ext = 0
  <2>1. fcb.entry \in Used(disk.dir)
    BY <1>1, CpmIs
  <2> QED BY <1>2, <1>4, <2>1 DEF Flushable, Structure, FirstThere
<1>9. Chgdir(disk, e, new) = Done(z)
  <2>1. ~InUse(disk.dir[e]) /\ new.ext # 0
    <3>1. y # 0
      BY <1>2
    <3> HIDE DEF y, new
    <3> QED BY <1>1, <1>3, <3>1 DEF Used
  <2> HIDE DEF new, e, z
  <2>2. Chgdir(disk, e, new) = Done(WriteDirent(disk, e, new, n))
    BY <1>3, <2>1 DEF Chgdir
  <2>3. disk = [dir |-> disk.dir, map |-> disk.map, buf |-> disk.buf, host |-> disk.host]
    BY DEF FilesInv, DiskTypes, DiskOK
  <2>4. WriteDirent(disk, e, new, n) = z
    <3> HIDE DEF n
    <3> QED BY <2>3, WriteDirentIs DEF z
  <2> QED BY <2>2, <2>4
<1>10. disk' = Flush(z)
  <2>1. PutEntry(e, new)
    <3>1. PutEntry(e, [FreeEntry EXCEPT !.name = n, !.ext = y])
      BY DEF NextExtent
    <3> QED BY <3>1 DEF NewEntry
  <2>2. disk.dir \in [EntryNumbers -> DiskEntry] /\ e \in EntryNumbers /\ new \in DiskEntry
    BY <1>1, <1>3 DEF FilesInv, DiskTypes, DiskOK
  <2>3. disk.dir[e] # new
    BY <1>1, <1>3 DEF Used
  <2> HIDE DEF new, e, n, z
  <2>4. z.dir = [disk.dir EXCEPT ![e] = new] /\ z.map = [disk.map EXCEPT ![e] = n]
        /\ z.buf = disk.buf /\ z.host = disk.host
        /\ z = [dir |-> z.dir, map |-> z.map, buf |-> z.buf, host |-> z.host]
    BY DiskOfIs DEF z
  <2>5. Done(z) = IF disk.dir[e] = new THEN Done(disk) ELSE Chgdir(disk, e, new)
    BY <1>9, <2>3
  <2>6. z.dir \in {disk.dir, [disk.dir EXCEPT ![e] = new]}
    BY <2>4
  <2>7. disk' = Flush([z EXCEPT !.dir = [disk.dir EXCEPT ![e] = new]])
    BY <2>1, <2>2, <2>5, <2>6, PutEntryIs
  <2>8. [z EXCEPT !.dir = [disk.dir EXCEPT ![e] = new]] = z
    <3> DEFINE q == [disk.dir EXCEPT ![e] = new]
    <3>1. z.dir = q
      BY <2>4
    <3> HIDE DEF q
    <3>2. [z EXCEPT !.dir = q] = DiskOf(q, z.map, z.buf, z.host)
      BY <2>4, DiskEdit
    <3>3. DiskOf(q, z.map, z.buf, z.host) = z
      BY <2>4, <3>1 DEF DiskOf
    <3> QED BY <3>2, <3>3 DEF q
  <2> QED BY <2>7, <2>8
<1>11. /\ files' = files /\ misread' = misread /\ job' = NoJob /\ records' \in Nat /\ opens' \in Nat
  BY <1>2 DEF NextExtent, FilesInv, DiskTypes
<1>12. fcb' \in FcbTypes /\ fcb'.name = n /\ fcb'.entry = e /\ fcb'.ext = y /\ fcb'.recs = 0
      /\ fcb'.clean = 0 /\ fcb'.touched = {} /\ fcb'.blocks = NoBlocks
  <2> HIDE DEF e, n, y
  <2>1. fcb' = [NoFcb EXCEPT !.name = n, !.entry = e, !.ext = y]
    BY DEF NextExtent, e, n, y
  <2>2. e \in Nat
    BY <1>1 DEF EntryNumbers
  <2>3. fcb' \in FcbTypes
    BY <1>2, <2>1, <2>2, NoFcbType DEF FcbTypes
  <2>4. fcb'.name = n /\ fcb'.entry = e /\ fcb'.ext = y /\ fcb'.recs = 0
        /\ fcb'.clean = 0 /\ fcb'.touched = {} /\ fcb'.blocks = NoBlocks
    BY <2>1 DEF NoFcb
  <2> QED BY <2>3, <2>4
<1> HIDE DEF n, y, new, e, z
<1>13. new = NewEntry(n, y)
       /\ z = DiskOf([disk.dir EXCEPT ![e] = new], [disk.map EXCEPT ![e] = n], disk.buf, disk.host)
  BY DEF new, z
<1> QED BY <1>1, <1>2, <1>4, <1>5, <1>6, <1>7, <1>8, <1>10, <1>11, <1>12, <1>13, NewEntryStep

(* A file is closed (rcpmfs_chgdir: same name, then rcpmfs_flush).         *)
LEMMA CloseFileStep == ASSUME FilesInv, CloseFile PROVE FilesInv'
<1>1. fcb # NoFcb /\ UNCHANGED <<job, files, misread, records, opens>>
  BY DEF CloseFile
<1>2. /\ job = NoJob /\ Gone = {} /\ Present = files /\ Wrong = misread /\ HostOK(files)
      /\ records \in Nat /\ opens \in Nat /\ misread \subseteq DOMAIN files
  BY <1>1, FcbIs DEF FilesInv, DiskTypes, JobInv
<1>3. \A x \in Used(disk.dir) : disk.dir[x].name = disk.map[x] /\ disk.map[x] \in DOMAIN files
  BY <1>1, FcbIs, CpmIs DEF Used
<1>4. CASE Clean
  <2>1. fcb' = NoFcb /\ disk' = disk
    BY <1>4 DEF CloseFile
  <2>2. Held(disk, files, misread, {})
    BY <1>1, <1>4, CleanIs
  <2>3. IdleHeld'
    BY <1>1, <1>2, <1>3, <2>1, <2>2 DEF IdleHeld
  <2> QED BY <2>3, IdleHeldInvNext
<1>5. CASE ~Clean
  <2> DEFINE e == fcb.entry
             new == FcbEntry
             old == disk.dir[e]
             z == CpmDisk
  <2>1. PutEntry(e, new) /\ fcb' = [fcb EXCEPT !.clean = fcb.recs, !.touched = {}]
    BY <1>5 DEF CloseFile
  <2>2. /\ e \in EntryNumbers /\ new \in DiskEntry /\ new.name = fcb.name /\ new.ext = fcb.ext
        /\ ExtentRecords(new) = fcb.recs /\ new.blocks = fcb.blocks /\ InUse(new)
        /\ CpmDir = [disk.dir EXCEPT ![e] = new]
    BY <1>1, CpmIs DEF Used, CpmDir
  <2>3. /\ disk.dir \in [EntryNumbers -> DiskEntry]
        /\ disk = [dir |-> disk.dir, map |-> disk.map, buf |-> disk.buf, host |-> disk.host]
    BY DEF FilesInv, DiskTypes, DiskOK
  <2>4. InUse(old) /\ old.name = fcb.name /\ ExtentRecords(old) = fcb.clean /\ disk.map[e] = fcb.name
    BY <1>1, CpmIs DEF FilesInv, FcbInv, Used
  <2>5. Chgdir(disk, e, new) = Done(disk)
    <3>1. fcb.clean - fcb.recs <= 0
      <4>1. fcb.clean <= fcb.recs /\ fcb.clean \in Nat /\ fcb.recs \in Nat
        BY <1>1, FcbIs, FcbLast, Counts
      <4> QED BY <4>1
    <3>2. ExtentRecords(old) - (IF InUse(new) THEN ExtentRecords(new) ELSE 0) <= 0
      BY <2>2, <2>4, <3>1
    <3>3. old.name = new.name
      BY <2>2, <2>4
    <3> HIDE DEF new, e
    <3> QED BY <2>2, <2>4, <3>2, <3>3 DEF Chgdir, Done
  <2>6. z = [disk EXCEPT !.dir = [disk.dir EXCEPT ![e] = new]]
    BY <2>2 DEF CpmDisk
  <2>7. disk' = Flush(z)
    <3> HIDE DEF new, e, z
    <3>1. Done(disk) = IF disk.dir[e] = new THEN Done(disk) ELSE Chgdir(disk, e, new)
      BY <2>5
    <3> QED BY <2>1, <2>2, <2>3, <2>6, <3>1, PutEntryIs
  <2>8. Flushable(z, files, misread, {})
    BY <1>2, Ready
  <2> DEFINE x == Flush(z)
  <2>9. Held(x, files, misread, {}) /\ x.dir = z.dir /\ x.map = z.map
    <3> HIDE DEF x, z
    <3>1. Settled(x, z, files)
      BY <2>8, FlushSettles DEF x
    <3> QED BY <2>8, <3>1, SettledHeld
  <2>10. z.dir = CpmDir /\ z.map = disk.map
    BY CpmIs
  <2>11. disk' = x /\ disk'.dir = CpmDir /\ disk'.map = disk.map
    BY <2>7, <2>9, <2>10
  <2> HIDE DEF x, z, new
  <2>12. /\ fcb'.name = fcb.name /\ fcb'.entry = e /\ fcb'.ext = fcb.ext /\ fcb'.recs = fcb.recs
         /\ fcb'.clean = fcb.recs /\ fcb'.touched = {} /\ fcb'.blocks = fcb.blocks
         /\ fcb' \in FcbTypes
    <3>1. fcb \in FcbTypes
      BY DEF FilesInv, DiskTypes, FcbTypes
    <3> HIDE DEF e
    <3> QED BY <2>1, <3>1 DEF FcbTypes, e
  <2>13. ~Pending' /\ Present' = files /\ Gone' = {} /\ Wrong' = misread /\ job' = NoJob
    BY <1>1, <1>2 DEF NoJob, Pending, Present, Gone, Wrong
  <2>14. \A v \in Used(CpmDir) : disk.map[v] \in DOMAIN files /\ CpmDir[v].name = disk.map[v]
    BY <1>1, FcbIs
  <2>15. DiskTypes'
    <3>1. DiskOK(disk')
      BY <2>9, <2>11 DEF Held
    <3>2. misread' \subseteq Names
      BY <1>1, <1>2 DEF HostOK
    <3> QED BY <1>1, <1>2, <2>12, <2>13, <3>1, <3>2, NoFcbType DEF DiskTypes, FcbTypes
  <2>16. JobInv'
    BY <1>1, <1>2, <2>13 DEF JobInv, NoJob
  <2>17. NamesInv'
    <3>1. \A v \in Used(CpmDir) : CpmDir[v].name # Free
      BY DEF Used, InUse
    <3> QED BY <2>11, <2>13, <2>14, <3>1 DEF NamesInv, NoJob
  <2>18. AtEntry(disk.dir[fcb.entry])'
    <3>1. CpmDir[e] = new
      BY <2>2, <2>3
    <3>2. fcb.name \in DOMAIN files \ misread
      BY <1>1, FcbIs
    <3> QED BY <1>1, <2>2, <2>4, <2>11, <2>12, <2>13, <3>1, <3>2 DEF AtEntry
  <2>19. Held(disk', Present', Wrong', Gone')
    BY <2>9, <2>11, <2>13
  <2>20. DiskHeld'
    BY <2>13, <2>15, <2>16, <2>17, <2>18, <2>19 DEF DiskHeld
  <2> QED BY <2>20, DiskHeldInvNext
<1> QED BY <1>4, <1>5

(* The block of a record.                                                  *)
LEMMA BlockOf ==
  ASSUME NEW k \in 0 .. ExtentSize - 1
  PROVE  /\ k \div RecPerBlock + 1 \in 1 .. BlocksPerExtent
         /\ ((k \div RecPerBlock + 1) - 1) * RecPerBlock <= k
         /\ k \div RecPerBlock \in Nat
<1>1. PICK i \in 1 .. BlocksPerExtent, u \in 0 .. SecPerBlock - 1, j \in 1 .. RecPerSec :
        k = Spot(i, u, j)
  BY SpotOf
<1>2. k \div RecPerBlock = i - 1 /\ (i - 1) * RecPerBlock <= k
  BY <1>1, SpotIs
<1>3. k \div RecPerBlock + 1 = i /\ k \div RecPerBlock \in Nat
  BY <1>2, Counts
<1> QED BY <1>2, <1>3

(* The last entry of the file in hand, as the disk has it, and the others. *)
LEMMA FcbDir ==
  ASSUME FilesInv, fcb # NoFcb
  PROVE  /\ disk.dir \in [EntryNumbers -> DiskEntry] /\ fcb.entry \in EntryNumbers
         /\ ExtentRecords(disk.dir[fcb.entry]) = fcb.clean /\ fcb.clean <= fcb.recs
         /\ Used(disk.dir) = Used(CpmDir)
         /\ \A e \in Used(disk.dir) :
              /\ e # fcb.entry => disk.dir[e] = CpmDir[e]
              /\ disk.dir[e].ext = CpmDir[e].ext
              /\ \A i \in 1 .. BlocksPerExtent :
                   disk.dir[e].blocks[i] # 0 => disk.dir[e].blocks[i] = CpmDir[e].blocks[i]
         /\ \A i \in 1 .. BlocksPerExtent :
              disk.dir[fcb.entry].blocks[i] =
                IF (i - 1) * RecPerBlock < fcb.clean THEN CpmDir[fcb.entry].blocks[i] ELSE 0
         /\ \A k \in 0 .. ExtentSize - 1 : k < fcb.clean =>
              SectorOf(disk.dir[fcb.entry], k) = SectorOf(CpmDir[fcb.entry], k)
         /\ NoBlockTwice(disk.dir) /\ NoExtentTwice(disk.dir, disk.map)
         /\ FirstThere(disk.dir, disk.map, {})
<1>1. disk.dir \in [EntryNumbers -> DiskEntry] /\ fcb.entry \in EntryNumbers
      /\ Used(disk.dir) = Used(CpmDir) /\ FcbEntry.blocks = fcb.blocks /\ CpmDir[fcb.entry] = FcbEntry
  BY CpmIs DEF FilesInv, DiskTypes, DiskOK, Used
<1>2. \A i \in 1 .. BlocksPerExtent :
        disk.dir[fcb.entry].blocks[i] =
          IF (i - 1) * RecPerBlock < fcb.clean THEN CpmDir[fcb.entry].blocks[i] ELSE 0
  BY <1>1 DEF FilesInv, FcbInv
<1>3. \A e \in Used(disk.dir) :
        /\ e # fcb.entry => disk.dir[e] = CpmDir[e]
        /\ disk.dir[e].ext = CpmDir[e].ext
  BY CpmIs DEF Used
<1>4. \A e \in Used(disk.dir) : \A i \in 1 .. BlocksPerExtent :
        disk.dir[e].blocks[i] # 0 => disk.dir[e].blocks[i] = CpmDir[e].blocks[i]
  BY <1>2, <1>3
<1>5. ASSUME NEW k \in 0 .. ExtentSize - 1, k < fcb.clean
      PROVE  SectorOf(disk.dir[fcb.entry], k) = SectorOf(CpmDir[fcb.entry], k)
  <2> DEFINE i == k \div RecPerBlock + 1
             j == i - 1
  <2>1. i \in 1 .. BlocksPerExtent /\ j * RecPerBlock <= k /\ j \in Nat
    <3>1. (k \div RecPerBlock + 1) - 1 = k \div RecPerBlock
      BY BlockOf
    <3> QED BY <3>1, BlockOf
  <2>2. fcb.clean \in Nat /\ k \in Nat
    BY FcbIs, Counts
  <2>3. j * RecPerBlock < fcb.clean
    <3> HIDE DEF j
    <3>1. j * RecPerBlock \in Nat
      BY <2>1, Counts
    <3> QED BY <1>5, <2>1, <2>2, <3>1
  <2>4. disk.dir[fcb.entry].blocks[i] = CpmDir[fcb.entry].blocks[i]
    <3> HIDE DEF i
    <3> QED BY <1>2, <2>1, <2>3 DEF j
  <2> QED BY <2>4 DEF SectorOf
<1>6. NoBlockTwice(disk.dir)
  <2> SUFFICES ASSUME NEW e1 \in Used(disk.dir), NEW e2 \in Used(disk.dir),
                      NEW i \in 1 .. BlocksPerExtent, NEW j \in 1 .. BlocksPerExtent,
                      disk.dir[e1].blocks[i] # 0, disk.dir[e1].blocks[i] = disk.dir[e2].blocks[j]
               PROVE  e1 = e2 /\ i = j
    BY DEF NoBlockTwice
  <2>1. CpmDir[e1].blocks[i] # 0 /\ CpmDir[e1].blocks[i] = CpmDir[e2].blocks[j]
    BY <1>4
  <2>2. NoBlockTwice(CpmDir)
    BY DEF FilesInv, StructInv, Structure
  <2> QED BY <1>1, <2>1, <2>2 DEF NoBlockTwice
<1>7. NoExtentTwice(disk.dir, disk.map)
  BY <1>1, <1>3 DEF FilesInv, StructInv, Structure, NoExtentTwice
<1>8. FirstThere(disk.dir, disk.map, {})
  BY <1>1, <1>3, FcbIs DEF FilesInv, StructInv, Structure, FirstThere
<1>9. ExtentRecords(disk.dir[fcb.entry]) = fcb.clean /\ fcb.clean <= fcb.recs
  BY DEF FilesInv, FcbInv
<1> QED BY <1>1, <1>2, <1>3, <1>4, <1>5, <1>6, <1>7, <1>8, <1>9

(* A file is given up.                                                     *)
LEMMA AbandonStep == ASSUME FilesInv, Abandon PROVE FilesInv'
<1> DEFINE n == fcb.name
           base == fcb.ext * ExtentSize
           old == files[n]
           short == SubSeq(old, 1, KeptLength)
<1>1. /\ fcb # NoFcb /\ ~Clean /\ \A i \in fcb.touched : i > KeptLength
      /\ fcb' = NoFcb
      /\ files' = [files EXCEPT ![n] = short]
      /\ UNCHANGED <<disk, job, misread, records, opens>>
  BY DEF Abandon
<1>2. /\ job = NoJob /\ Gone = {} /\ Present = files /\ Wrong = misread /\ HostOK(files)
      /\ records \in Nat /\ opens \in Nat /\ misread \subseteq DOMAIN files
      /\ n \in DOMAIN files \ misread /\ old \in Seq(Int) /\ Len(old) \in Nat
      /\ base \in Nat /\ fcb.clean \in Nat /\ fcb.recs \in Nat /\ fcb.recs <= ExtentSize
  <2>1. /\ job = NoJob /\ Gone = {} /\ Present = files /\ Wrong = misread
        /\ n \in DOMAIN files \ misread
    BY <1>1, FcbIs
  <2>2. /\ HostOK(files) /\ records \in Nat /\ opens \in Nat
        /\ fcb.ext \in Nat /\ fcb.clean \in 0 .. ExtentSize /\ fcb.recs \in 0 .. ExtentSize
    BY DEF FilesInv, DiskTypes
  <2>3. misread \subseteq DOMAIN files
    BY <2>1 DEF FilesInv, JobInv
  <2>4. old \in Seq(Int)
    BY <2>1, <2>2 DEF HostOK
  <2>5. base \in Nat /\ fcb.clean \in Nat /\ fcb.recs \in Nat /\ fcb.recs <= ExtentSize
    BY <2>2, Counts
  <2> HIDE DEF old, base
  <2> QED BY <2>1, <2>2, <2>3, <2>4, <2>5
<1>3. IsLast
  <2> SUFFICES ASSUME ~IsLast PROVE FALSE
    OBVIOUS
  <2>1. KeptLength = Len(old)
    BY DEF KeptLength
  <2>2. PICK i \in fcb.touched : TRUE
    BY <1>1 DEF Clean
  <2>3. PICK j \in 0 .. fcb.recs - 1 : i = Place(j)
    BY <1>1, <2>2 DEF FilesInv, FcbInv
  <2>4. i = base + j + 1
    BY <2>3 DEF Place
  <2>5. base + fcb.recs <= Len(old)
    BY <1>1, FcbLast
  <2>6. i > Len(old)
    BY <1>1, <2>1, <2>2
  <2> HIDE DEF base, old
  <2> QED BY <1>2, <2>4, <2>5, <2>6
<1> DEFINE kl == base + fcb.clean
<1>4. KeptLength = kl /\ Len(old) = base + fcb.recs /\ kl \in Nat /\ kl <= Len(old)
  <2>1. KeptLength = kl
    BY <1>3 DEF KeptLength
  <2>2. Len(old) = base + fcb.recs /\ KeptLength <= Len(old) /\ KeptLength \in Nat
    BY <1>1, <1>3, FcbLast
  <2> QED BY <2>1, <2>2
<1>5. short \in Seq(Int) /\ Len(short) = kl /\ \A p \in 1 .. kl : short[p] = old[p]
  <2> HIDE DEF old, kl
  <2> QED BY <1>2, <1>4
<1>6. /\ DOMAIN files' = DOMAIN files /\ files'[n] = short
      /\ \A m \in DOMAIN files \ {n} : files'[m] = files[m]
      /\ HostOK(files')
  <2> HIDE DEF short
  <2> QED BY <1>1, <1>2, <1>5 DEF HostOK
<1> HIDE DEF short
<1>7. Kept = 1 .. kl
  <2>1. \A i \in fcb.touched : i > kl
    BY <1>1, <1>4
  <2>2. fcb.touched \in SUBSET Nat
    BY DEF FilesInv, DiskTypes
  <2>3. Kept = (1 .. kl) \ fcb.touched
    BY <1>4 DEF Kept
  <2> HIDE DEF kl
  <2> QED BY <1>4, <2>1, <2>2, <2>3
<1>8. DOMAIN disk.host = DOMAIN files /\ \A m \in DOMAIN files : disk.host[m] = files'[m]
  <2>1. DOMAIN disk.host = DOMAIN files
    BY <1>2 DEF FilesInv, HostInv
  <2>2. \A m \in DOMAIN files \ {n} : disk.host[m] = files'[m]
    BY <1>2, <1>6 DEF FilesInv, HostInv
  <2> DEFINE s == disk.host[n]
  <2>3. Len(s) = kl /\ \A p \in 1 .. kl : s[p] = old[p]
    BY <1>2, <1>4, <1>7 DEF FilesInv, HostInv
  <2>4. s \in Seq(Int)
    BY <1>2, <2>1 DEF FilesInv, DiskTypes, DiskOK, HostOK
  <2>5. s = short
    <3> HIDE DEF s, old, kl
    <3>1. Len(s) = Len(short) /\ \A p \in 1 .. Len(short) : s[p] = short[p]
      BY <1>5, <2>3
    <3> QED BY <1>5, <2>4, <3>1, SeqSame
  <2> QED BY <1>6, <2>1, <2>2, <2>5
<1>9. /\ \A x \in Used(disk.dir) : disk.dir[x].name = disk.map[x] /\ disk.map[x] \in DOMAIN files
      /\ DiskOK(disk)
  BY <1>1, FcbIs, CpmIs DEF Used, FilesInv, DiskTypes
<1>10. FileFits(disk.dir, disk.map, n, kl)
  <2>1. FileFits(CpmDir, disk.map, n, Len(old))
    BY <1>1, FcbIs
  <2>2. ASSUME NEW e \in Used(disk.dir), disk.map[e] = n PROVE EntryFits(disk.dir[e], kl)
    <3>1. EntryFits(CpmDir[e], Len(old))
      BY <1>1, <2>1, <2>2, FcbDir DEF FileFits
    <3>2. CASE e = fcb.entry
      <4>1. disk.dir[e].ext * ExtentSize = base
        BY <1>1, <3>2, FcbDir, CpmIs
      <4>2. ExtentRecords(disk.dir[e]) = fcb.clean /\ fcb.clean <= fcb.recs
        BY <1>1, <3>2, FcbDir
      <4>3. base <= kl /\ fcb.clean = AtMost(kl - base, ExtentSize)
        <5> HIDE DEF base
        <5> QED BY <1>2, <4>2, Counts DEF AtMost
      <4>4. ASSUME NEW i \in 1 .. BlocksPerExtent
            PROVE  (i - 1) * RecPerBlock < fcb.clean <=> disk.dir[e].blocks[i] # 0
        <5>1. disk.dir[e].blocks[i] =
                IF (i - 1) * RecPerBlock < fcb.clean THEN CpmDir[e].blocks[i] ELSE 0
          BY <1>1, <3>2, FcbDir
        <5>2. (i - 1) * RecPerBlock < fcb.recs <=> CpmDir[e].blocks[i] # 0
          BY <1>1, <3>1, <3>2, CpmIs DEF EntryFits
        <5> DEFINE q == (i - 1) * RecPerBlock
        <5>3. q \in Nat
          <6> DEFINE j == i - 1
          <6>1. j \in Nat
            BY Counts
          <6> HIDE DEF j
          <6>2. j * RecPerBlock \in Nat
            BY <6>1, Counts
          <6> QED BY <6>2 DEF j
        <5>4. q < fcb.clean => q < fcb.recs
          <6> HIDE DEF q
          <6> QED BY <1>2, <4>2, <5>3
        <5> HIDE DEF q
        <5> QED BY <5>1, <5>2, <5>4 DEF q
      <4> HIDE DEF base, kl
      <4> QED BY <4>1, <4>2, <4>3, <4>4 DEF EntryFits
    <3>3. CASE e # fcb.entry
      <4> DEFINE q == CpmDir[e].ext * ExtentSize
      <4>1. disk.dir[e] = CpmDir[e] /\ ExtentRecords(CpmDir[e]) = ExtentSize
            /\ q + ExtentSize <= base
        BY <1>1, <1>3, <2>2, <3>3, FcbDir, FcbLast
      <4>2. q \in Nat
        BY CpmIs, EntryIs, <1>1, FcbDir DEF Used
      <4>3. q <= kl /\ ExtentSize = AtMost(kl - q, ExtentSize)
        <5>1. base <= kl
          <6> HIDE DEF base
          <6> QED BY <1>2
        <5>2. ExtentSize \in Nat
          BY Counts
        <5>3. q + ExtentSize <= base /\ base \in Nat
          BY <1>2, <4>1
        <5>4. kl \in Nat
          BY <1>4
        <5> HIDE DEF base, q, kl
        <5> DEFINE size == ExtentSize
        <5> HIDE DEF size
        <5>5. q + size <= base /\ base \in Nat /\ size \in Nat /\ base <= kl
          BY <5>1, <5>2, <5>3 DEF size
        <5>6. q <= kl /\ size <= kl - q
          BY ONLY <4>2, <5>4, <5>5
        <5>7. size = AtMost(kl - q, size)
          BY ONLY <4>2, <5>4, <5>5, <5>6 DEF AtMost
        <5> QED BY <5>6, <5>7 DEF size
      <4> QED BY <3>1, <4>1, <4>3 DEF EntryFits
    <3> QED BY <3>2, <3>3
  <2>3. ASSUME NEW x \in 0 .. kl - 1, x * ExtentSize < kl
        PROVE \E e \in Used(disk.dir) : disk.map[e] = n /\ disk.dir[e].ext = x
    <3>1. x \in 0 .. Len(old) - 1 /\ x * ExtentSize < Len(old)
      <4>1. x * ExtentSize \in Nat
        BY Counts
      <4> HIDE DEF kl, old
      <4> QED BY <1>2, <1>4, <2>3, <4>1
    <3>2. PICK e \in Used(CpmDir) : disk.map[e] = n /\ CpmDir[e].ext = x
      BY <2>1, <3>1 DEF FileFits
    <3> QED BY <1>1, <3>2, FcbDir
  <2> QED BY <2>2, <2>3 DEF FileFits
<1>11. Structure(disk.dir, disk.map, Lengths(files'), misread, {})
  <2>1. ASSUME NEW m \in DOMAIN Lengths(files') \ misread
        PROVE FileFits(disk.dir, disk.map, m, Lengths(files')[m])
    <3>1. CASE m = n
      <4>1. Lengths(files')[m] = kl
        BY <1>5, <1>6, <3>1 DEF Lengths
      <4> QED BY <1>10, <3>1, <4>1
    <3>2. CASE m # n
      <4>1. m \in DOMAIN files /\ Lengths(files')[m] = Len(files[m])
        BY <1>6, <3>2 DEF Lengths
      <4>2. FileFits(CpmDir, disk.map, m, Len(files[m]))
        BY <1>2, <4>1 DEF FilesInv, StructInv, Structure, Lengths
      <4>3. \A e \in Used(disk.dir) : disk.map[e] = m => disk.dir[e] = CpmDir[e]
        BY <1>1, <3>2, FcbIs, FcbDir
      <4>4. Used(disk.dir) = Used(CpmDir) /\ \A e \in Used(disk.dir) : disk.dir[e].ext = CpmDir[e].ext
        BY <1>1, FcbDir
      <4> QED BY <4>1, <4>2, <4>3, <4>4 DEF FileFits
    <3> QED BY <3>1, <3>2
  <2> QED BY <1>1, <2>1, FcbDir DEF Structure
<1>12. BufferedRight(disk, files', misread)
  <2>1. ASSUME NEW ek \in Records(disk, files', misread)
        PROVE  /\ ek \in Records(CpmDisk, files, misread)
               /\ SectorOf(disk.dir[ek[1]], ek[2]) = SectorOf(CpmDir[ek[1]], ek[2])
               /\ Cell(disk.dir[ek[1]], ek[2]) = Cell(CpmDir[ek[1]], ek[2])
               /\ files'[disk.map[ek[1]]][Cell(disk.dir[ek[1]], ek[2])]
                    = files[disk.map[ek[1]]][Cell(disk.dir[ek[1]], ek[2])]
    <3> DEFINE e == ek[1]
               k == ek[2]
    <3>1. /\ e \in Used(CpmDir) /\ k \in 0 .. ExtentSize - 1 /\ disk.map[e] \in DOMAIN files \ misread
          /\ k < ExtentRecords(disk.dir[e]) /\ ek = <<e, k>>
      BY <1>1, <1>6, FcbDir DEF Records
    <3>2. disk.dir[e].ext = CpmDir[e].ext /\ (e # fcb.entry => disk.dir[e] = CpmDir[e])
      BY <1>1, <3>1, FcbDir
    <3>3. Cell(disk.dir[e], k) = Cell(CpmDir[e], k)
      BY <3>2 DEF Cell
    <3>4. k < ExtentRecords(CpmDir[e]) /\ SectorOf(disk.dir[e], k) = SectorOf(CpmDir[e], k)
      <4>1. CASE e = fcb.entry
        <5>1. ExtentRecords(CpmDir[e]) = fcb.recs /\ ExtentRecords(disk.dir[e]) = fcb.clean
              /\ fcb.clean <= fcb.recs
          BY <1>1, <4>1, CpmIs, FcbDir
        <5>2. k < fcb.recs
          <6>1. k \in Nat /\ k < fcb.clean
            BY <3>1, <5>1
          <6> HIDE DEF k
          <6> QED BY <1>2, <5>1, <6>1
        <5>3. SectorOf(disk.dir[e], k) = SectorOf(CpmDir[e], k)
          BY <1>1, <3>1, <4>1, <5>1, FcbDir
        <5> QED BY <5>1, <5>2, <5>3
      <4>2. CASE e # fcb.entry
        BY <3>1, <3>2, <4>2
      <4> QED BY <4>1, <4>2
    <3>5. ek \in Records(CpmDisk, files, misread)
      BY <3>1, <3>4, CpmIs DEF Records
    <3>6. files'[disk.map[e]][Cell(disk.dir[e], k)] = files[disk.map[e]][Cell(disk.dir[e], k)]
      <4>1. CASE disk.map[e] # n
        BY <1>6, <3>1, <4>1
      <4>2. CASE disk.map[e] = n
        <5>1. Cell(CpmDir[e], k) \in 1 .. Len(old) /\ Cell(CpmDir[e], k) <= Len(disk.host[n])
          BY <1>2, <3>1, <3>4, <4>2, RecordThere
        <5>2. Len(disk.host[n]) = kl
          BY <1>2, <1>5, <1>6, <1>8
        <5>3. Cell(CpmDir[e], k) \in 1 .. kl
          <6> HIDE DEF kl, old, k, e
          <6> QED BY <1>2, <1>4, <5>1, <5>2
        <5> QED BY <1>5, <1>6, <3>3, <4>2, <5>3
      <4> QED BY <4>1, <4>2
    <3> QED BY <3>3, <3>4, <3>5, <3>6
  <2>2. BufferedRight(CpmDisk, files, misread)
    BY <1>2 DEF FilesInv, ContentInv
  <2>3. CpmDisk.dir = CpmDir /\ CpmDisk.map = disk.map /\ CpmDisk.buf = disk.buf
    BY CpmIs
  <2> QED BY <2>1, <2>2, <2>3 DEF BufferedRight
<1>13. Unbuffered(disk, misread, {})
  <2>1. Unbuffered(CpmDisk, misread, {})
    BY <1>2 DEF FilesInv, ContentInv
  <2>2. \A e \in Used(disk.dir) : disk.map[e] \in misread => disk.dir[e] = CpmDir[e]
    BY <1>1, <1>2, FcbIs, FcbDir
  <2>3. CpmDisk.dir = CpmDir /\ CpmDisk.map = disk.map /\ CpmDisk.buf = disk.buf
        /\ Used(disk.dir) = Used(CpmDir)
    BY CpmIs
  <2> QED BY <2>1, <2>2, <2>3 DEF Unbuffered, Buffers
<1>14. Held(disk, files', misread, {})
  BY <1>6, <1>8, <1>9, <1>11, <1>12, <1>13 DEF Held
<1>15. IdleHeld'
  BY <1>1, <1>2, <1>6, <1>9, <1>14 DEF IdleHeld
<1> QED BY <1>15, IdleHeldInvNext
-----------------------------------------------------------------------------
(* Entries written: erase and rename.                                      *)

(* What is known while an erase or a rename goes through the directory.    *)
LEMMA JobIs ==
  ASSUME FilesInv, job # NoJob
  PROVE  /\ fcb = NoFcb /\ CpmDir = disk.dir /\ DiskTypes /\ DiskOK(disk)
         /\ job.name \in Names \ DOMAIN files /\ job.op \in {"erase", "rename"}
         /\ disk.dir \in [EntryNumbers -> DiskEntry]
         /\ disk.map \in [EntryNumbers -> Names \cup {NoFile}]
         /\ HostOK(files) /\ records \in Nat /\ opens \in Nat /\ misread \subseteq DOMAIN files \cup Gone
         /\ Held(disk, Present, Wrong, Gone) /\ Flushable(disk, Present, Wrong, Gone)
         /\ EntriesOf(job.name) = { e \in Used(disk.dir) : disk.dir[e].name = job.name }
         /\ \A e \in EntriesOf(job.name) : e > job.at
<1>1. fcb = NoFcb /\ CpmDir = disk.dir /\ job.name \in Names \ DOMAIN files
  BY DEF FilesInv, JobInv, CpmDir
<1>2. /\ DiskTypes /\ DiskOK(disk) /\ HostOK(files) /\ records \in Nat /\ opens \in Nat
      /\ disk.dir \in [EntryNumbers -> DiskEntry]
      /\ disk.map \in [EntryNumbers -> Names \cup {NoFile}]
  BY DEF FilesInv, DiskTypes, DiskOK
<1>3. job.op \in {"none", "erase", "rename"} /\ job.op # "none"
  BY DEF FilesInv, DiskTypes, JobInv
<1>4. Held(disk, Present, Wrong, Gone) /\ Flushable(disk, Present, Wrong, Gone)
  BY <1>1, NoFcbHeld
<1>5. EntriesOf(job.name) = { e \in Used(disk.dir) : disk.dir[e].name = job.name }
  BY <1>1, NoName DEF EntriesOf, Used, InUse
<1>6. \A e \in EntriesOf(job.name) : e > job.at
  BY <1>5 DEF FilesInv, NamesInv
<1>7. misread \subseteq DOMAIN files \cup Gone
  BY DEF FilesInv, JobInv
<1> QED BY <1>1, <1>2, <1>3, <1>4, <1>5, <1>6, <1>7

(* The files the disk has meanwhile.                                       *)
LEMMA ToBe ==
  ASSUME FilesInv, job # NoJob
  PROVE  /\ job.op = "erase" =>
              /\ Gone = {job.name} /\ ~Pending /\ Present = files /\ Wrong = misread
              /\ job.to = Free
         /\ job.op = "rename" => Gone = {} /\ job.to \in DOMAIN files
         /\ ~Pending => Present = files /\ Wrong = misread
BY DEF FilesInv, JobInv, Gone, Pending, Present, Wrong

(* Nothing is left to do.                                                  *)
LEMMA JobDone ==
  ASSUME FilesInv, JobStep, EntriesOf(job.name) = {} PROVE FilesInv'
<1>1. job # NoJob /\ UNCHANGED <<fcb, files, records, opens>>
  BY DEF JobStep
<1>2. { e \in EntriesOf(job.name) : e > job.at } = {}
  OBVIOUS
<1>3. job' = NoJob /\ disk' = disk
      /\ misread' = IF job.op = "erase" THEN misread \ {job.name} ELSE misread
  BY <1>2 DEF JobStep
<1>4. ~Pending /\ Present = files /\ Wrong = misread
  BY <1>1, ToBe DEF FilesInv, JobInv
<1>5. \A e \in Used(disk.dir) :
        /\ disk.dir[e].name = disk.map[e] /\ disk.map[e] # job.name
        /\ disk.map[e] \in DOMAIN files \cup Gone
  BY <1>1, <1>4, JobIs DEF FilesInv, NamesInv
<1>6. \A e \in Used(disk.dir) : disk.map[e] \in DOMAIN files
  BY <1>5 DEF Gone
<1>7. Held(disk, files, misread, Gone)
  BY <1>1, <1>4, JobIs
<1>8. misread' \subseteq DOMAIN files
  BY <1>1, <1>3, JobIs DEF Gone
<1>9. job.name \notin DOMAIN files
  BY <1>1, JobIs
<1>10. DOMAIN disk.host = DOMAIN files
  <2>1. DOMAIN disk.host \ Gone = DOMAIN files
    BY <1>7 DEF Held
  <2>2. ASSUME NEW n \in Gone PROVE n \notin DOMAIN disk.host
    <3>1. n = job.name
      BY <2>2 DEF Gone
    <3>2. n \in DOMAIN disk.host <=> \E e \in Used(disk.dir) : disk.map[e] = n /\ disk.dir[e].ext = 0
      BY <2>2 DEF FilesInv, HostInv
    <3> QED BY <1>5, <3>1, <3>2
  <2> QED BY <2>1, <2>2
<1>11. Held(disk, files, misread', {})
  <2>1. DOMAIN files \ misread' = DOMAIN files \ misread
    BY <1>3, <1>9
  <2>2. Structure(disk.dir, disk.map, Lengths(files), misread', {})
    <3>1. DOMAIN Lengths(files) \ misread' = DOMAIN Lengths(files) \ misread
      BY <2>1 DEF Lengths
    <3>2. FirstThere(disk.dir, disk.map, {})
      BY <1>5, <1>7 DEF Held, Structure, FirstThere, Gone
    <3> QED BY <1>7, <3>1, <3>2 DEF Held, Structure
  <2>3. BufferedRight(disk, files, misread')
    <3>1. Records(disk, files, misread') = Records(disk, files, misread)
      BY <2>1 DEF Records
    <3> QED BY <1>7, <3>1 DEF Held, BufferedRight
  <2>4. Unbuffered(disk, misread', {})
    <3>1. misread' \subseteq misread
      BY <1>3
    <3> QED BY <1>7, <3>1 DEF Held, Unbuffered
  <2> QED BY <1>7, <1>10, <2>2, <2>3, <2>4 DEF Held
<1>12. IdleHeld'
  BY <1>1, <1>3, <1>5, <1>6, <1>8, <1>11, JobIs DEF IdleHeld
<1> QED BY <1>12, IdleHeldInvNext

(* The entry of an erased file is free.                                    *)
Freed(z, d, f, w, n, g, e, new) ==
  /\ g = {n} /\ Flushable(d, f, w, g) /\ e \in Used(d.dir) /\ d.map[e] = n
  /\ DiskOK(z) /\ z.dir = [d.dir EXCEPT ![e] = new] /\ z.buf = d.buf
  /\ new \in DiskEntry /\ ~InUse(new)
  /\ \A x \in EntryNumbers \ {e} : z.map[x] = d.map[x]
  /\ DOMAIN z.host \ {n} = DOMAIN d.host \ {n}
  /\ \A m \in DOMAIN f : z.host[m] = d.host[m]
  /\ \A x \in Used(d.dir) \ {e} : d.map[x] = n /\ d.dir[x].ext = 0 => n \in DOMAIN z.host

(* An entry less leaves the other entries right.                           *)
LEMMA FreeOne ==
  ASSUME NEW d, NEW f, NEW w, NEW n, NEW g, NEW e, NEW new, NEW z,
         Freed(z, d, f, w, n, g, e, new)
  PROVE  Flushable(z, f, w, g) /\ Used(z.dir) = Used(d.dir) \ {e}
         /\ \A x \in Used(z.dir) : z.dir[x] = d.dir[x] /\ z.map[x] = d.map[x]
<1>0. /\ g = {n} /\ Flushable(d, f, w, g) /\ e \in Used(d.dir) /\ d.map[e] = n
      /\ DiskOK(z) /\ z.dir = [d.dir EXCEPT ![e] = new] /\ z.buf = d.buf
      /\ new \in DiskEntry /\ ~InUse(new)
      /\ \A x \in EntryNumbers \ {e} : z.map[x] = d.map[x]
      /\ DOMAIN z.host \ {n} = DOMAIN d.host \ {n}
      /\ \A m \in DOMAIN f : z.host[m] = d.host[m]
      /\ \A x \in Used(d.dir) \ {e} : d.map[x] = n /\ d.dir[x].ext = 0 => n \in DOMAIN z.host
  BY DEF Freed
<1>1. d.dir \in [EntryNumbers -> DiskEntry] /\ HostOK(f) /\ n \notin DOMAIN f
  BY <1>0 DEF Flushable, DiskOK
<1>2. /\ Used(z.dir) = Used(d.dir) \ {e}
      /\ \A x \in Used(z.dir) : z.dir[x] = d.dir[x] /\ z.map[x] = d.map[x]
  BY <1>0, <1>1 DEF Used
<1>3. /\ Records(z, f, w) = Records(d, f, w)
      /\ \A ek \in Records(d, f, w) : z.dir[ek[1]] = d.dir[ek[1]] /\ z.map[ek[1]] = d.map[ek[1]]
  <2>1. \A ek \in Records(d, f, w) : ek[1] # e
    BY <1>0, <1>1 DEF Records
  <2> QED BY <1>2, <2>1 DEF Records
<1>4. Structure(z.dir, z.map, Lengths(f), w, {n})
  <2>1. NoBlockTwice(z.dir)
    BY <1>0, <1>2 DEF Flushable, Structure, NoBlockTwice
  <2>2. NoExtentTwice(z.dir, z.map)
    BY <1>0, <1>2 DEF Flushable, Structure, NoExtentTwice
  <2>3. FirstThere(z.dir, z.map, {n})
    BY <1>0, <1>2 DEF Flushable, Structure, FirstThere
  <2>4. ASSUME NEW m \in DOMAIN Lengths(f) \ w PROVE FileFits(z.dir, z.map, m, Lengths(f)[m])
    <3>1. FileFits(d.dir, d.map, m, Lengths(f)[m]) /\ m # n
      BY <1>0, <1>1 DEF Flushable, Structure, Lengths
    <3>2. d.map[e] = n
      BY <1>0
    <3> QED BY <1>2, <3>1, <3>2 DEF FileFits
  <2> QED BY <2>1, <2>2, <2>3, <2>4 DEF Structure
<1>5. BufferedRight(z, f, w)
  BY <1>0, <1>3 DEF Flushable, BufferedRight
<1>6. Unbuffered(z, w, {n})
  BY <1>0, <1>2 DEF Flushable, Unbuffered, Buffers
<1>7. Comes(z.host, z, f, w, 0)
  <2>1. \A m, p : Waits(d, f, w, m, p, 0) => Waits(z, f, w, m, p, 0)
    BY <1>0, <1>3 DEF Waits
  <2> QED BY <1>0, <2>1 DEF Flushable, Comes, OnHost
<1>8. \A x \in Used(z.dir) : z.map[x] \in DOMAIN f \cup {n}
  BY <1>0, <1>2 DEF Flushable
<1>9. \A x \in Used(z.dir) : z.map[x] \in {n} /\ z.dir[x].ext = 0 => z.map[x] \in DOMAIN z.host
  BY <1>0, <1>2
<1>10. DOMAIN z.host \ {n} = DOMAIN f
  BY <1>0 DEF Flushable
<1> QED BY <1>0, <1>1, <1>2, <1>4, <1>5, <1>6, <1>7, <1>8, <1>9, <1>10 DEF Flushable

NameChanged(entry, name) == [entry EXCEPT !.name = name]

(* An entry with another name.                                             *)
LEMMA NameChangedIs ==
  ASSUME NEW entry \in DiskEntry, NEW n \in Names \cup {Free}, NEW new, new = NameChanged(entry, n)
  PROVE  /\ new \in DiskEntry /\ new.name = n /\ new.ext = entry.ext /\ new.blocks = entry.blocks
         /\ ExtentRecords(new) = ExtentRecords(entry)
         /\ InUse(new) <=> n # Free
<1>1. new \in DiskEntry /\ new.name = n /\ new.ext = entry.ext /\ new.blocks = entry.blocks
      /\ new.rc = entry.rc /\ new.ex = entry.ex
  BY DEF DiskEntry, NameChanged
<1> QED BY <1>1 DEF ExtentRecords, InUse

(* The entry that an erase or a rename comes to.                           *)
LEMMA NextOne ==
  ASSUME FilesInv, JobStep, EntriesOf(job.name) # {}
  PROVE  LET e == Min(EntriesOf(job.name))
             new == NameChanged(disk.dir[e], job.to)
         IN /\ e \in EntriesOf(job.name) /\ e \in Used(disk.dir) /\ e \in EntryNumbers
            /\ disk.dir[e].name = job.name
            /\ \A x \in EntriesOf(job.name) : e <= x
            /\ job' = [job EXCEPT !.at = e]
            /\ UNCHANGED <<fcb, files, misread, records, opens>>
            /\ new \in DiskEntry
            /\ disk.dir[e] \in DiskEntry
            /\ PutEntry(e, new)
            /\ job.to # job.name /\ new # disk.dir[e]
            /\ job # NoJob
<1> DEFINE e == Min(EntriesOf(job.name))
           new == NameChanged(disk.dir[e], job.to)
           left == { x \in EntriesOf(job.name) : x > job.at }
<1>1. job # NoJob /\ UNCHANGED <<fcb, files, records, opens>>
  BY DEF JobStep
<1>2. left = EntriesOf(job.name)
  BY <1>1, JobIs
<1>3. e \in EntriesOf(job.name) /\ \A x \in EntriesOf(job.name) : e <= x
  <2>1. EntriesOf(job.name) \in SUBSET Nat
    BY DEF EntriesOf, EntryNumbers
  <2> QED BY <2>1, MinIs
<1>4. e \in Used(disk.dir) /\ disk.dir[e].name = job.name /\ e \in EntryNumbers
  BY <1>1, <1>3, JobIs DEF Used
<1>5. disk.dir[e] \in DiskEntry /\ job.to \in Names \cup {Free}
  BY <1>1, <1>4, JobIs DEF DiskTypes
<1>6. job.to # job.name
  BY <1>1, JobIs, ToBe, NoName
<1>7. new \in DiskEntry /\ new # disk.dir[e]
  BY <1>4, <1>5, <1>6, NameChangedIs
<1>8. left # {}
  BY <1>2
<1>9. Min(left) = e
  BY <1>2
<1>10. PutEntry(Min(left), [disk.dir[Min(left)] EXCEPT !.name = job.to])
       /\ job' = [job EXCEPT !.at = Min(left)] /\ misread' = misread
  BY <1>8 DEF JobStep
<1>11. PutEntry(e, new) /\ job' = [job EXCEPT !.at = e] /\ misread' = misread
  <2> HIDE DEF left, e
  <2> QED BY <1>9, <1>10 DEF NameChanged
<1> QED BY <1>1, <1>3, <1>4, <1>5, <1>6, <1>7, <1>11

(* A directory entry written, and what chgdir has done before.             *)
LEMMA PutIt ==
  ASSUME DiskOK(disk), NEW e \in EntryNumbers, NEW new \in DiskEntry, PutEntry(e, new),
         new # disk.dir[e],
         NEW q, q \in {disk.dir, [disk.dir EXCEPT ![e] = new]}, NEW map, NEW host,
         NEW x, x = DiskOf(q, map, disk.buf, host),
         Chgdir(disk, e, new) = Done(x),
         NEW z, z = DiskOf([disk.dir EXCEPT ![e] = new], map, disk.buf, host)
  PROVE  disk' = Flush(z)
<1>1. x.dir = q /\ x.map = map /\ x.buf = disk.buf /\ x.host = host
      /\ x = [dir |-> x.dir, map |-> x.map, buf |-> x.buf, host |-> x.host]
  BY DiskOfIs
<1>2. disk.dir \in [EntryNumbers -> DiskEntry]
  BY DEF DiskOK
<1> DEFINE t == [disk.dir EXCEPT ![e] = new]
<1>3. z = DiskOf(t, map, disk.buf, host)
  OBVIOUS
<1>4. [x EXCEPT !.dir = t] = DiskOf(t, x.map, x.buf, x.host)
  <2> HIDE DEF t
  <2> QED BY <1>1, DiskEdit
<1>5. Done(x) = IF disk.dir[e] = new THEN Done(disk) ELSE Chgdir(disk, e, new)
  OBVIOUS
<1>6. disk' = Flush([x EXCEPT !.dir = t])
  BY <1>1, <1>2, <1>5, PutEntryIs
<1>7. [x EXCEPT !.dir = t] = z
  <2> HIDE DEF t
  <2> QED BY <1>1, <1>3, <1>4
<1> QED BY <1>6, <1>7

(* The entry of the first extent: the file is erased.                      *)
LEMMA EraseFirst ==
  ASSUME FilesInv, job # NoJob, job.op = "erase",
         NEW e \in Used(disk.dir), disk.map[e] = job.name, disk.dir[e].ext = 0,
         NEW new \in DiskEntry, ~InUse(new)
  PROVE  /\ Chgdir(disk, e, new) =
              Done(DiskOf([disk.dir EXCEPT ![e] = new], [disk.map EXCEPT ![e] = NoFile], disk.buf,
                          Without(disk.host, job.name)))
<1>1. job.name \in DOMAIN disk.host
  BY ToBe DEF FilesInv, HostInv
<1>2. disk = [dir |-> disk.dir, map |-> disk.map, buf |-> disk.buf, host |-> disk.host]
  BY DEF FilesInv, DiskTypes, DiskOK
<1> DEFINE w == WriteDirent(disk, e, new, NoFile)
           q == [disk.dir EXCEPT ![e] = new]
           r == [disk.map EXCEPT ![e] = NoFile]
           h == Without(disk.host, job.name)
<1>3. w = DiskOf(q, r, disk.buf, disk.host)
  BY <1>2, WriteDirentIs
<1>4. w.host = disk.host /\ w = [dir |-> w.dir, map |-> w.map, buf |-> w.buf, host |-> w.host]
      /\ w.dir = q /\ w.map = r /\ w.buf = disk.buf
  <2> HIDE DEF w, q, r
  <2> QED BY <1>3, DiskOfIs
<1>5. Chgdir(disk, e, new) = EraseFile(disk, e, new)
  BY DEF Chgdir, Used
<1>6. EraseFile(disk, e, new) = Done([w EXCEPT !.host = Without(@, disk.map[e])])
  BY <1>1 DEF EraseFile
<1>7. [w EXCEPT !.host = Without(@, disk.map[e])] = [w EXCEPT !.host = h]
  <2>1. Without(w.host, disk.map[e]) = h
    BY <1>4
  <2> HIDE DEF w, h
  <2> QED BY <2>1
<1>8. [w EXCEPT !.host = h] = DiskOf(q, r, disk.buf, h)
  <2> HIDE DEF w, h, q, r
  <2>1. [w EXCEPT !.host = h] = DiskOf(w.dir, w.map, w.buf, h)
    BY <1>4, DiskEdit
  <2> QED BY <1>4, <2>1
<1> QED BY <1>5, <1>6, <1>7, <1>8

(* The entry of another extent: the file of user 0 is made shorter.        *)
ShorterOnly(h, host, n) ==
  /\ HostOK(h) /\ DOMAIN h = DOMAIN host
  /\ \A m \in DOMAIN host \ {n} : h[m] = host[m]

(* rcpmfs_adjust_size makes no other file shorter.                         *)
LEMMA ShortenIs ==
  ASSUME NEW host, HostOK(host), UsersApart, NEW n \in Names, NEW lost \in Nat
  PROVE  ShorterOnly(Shorten(host, PlainName[n], lost), host, n)
<1> DEFINE file == PlainName[n]
           h == Shorten(host, file, lost)
<1>1. CASE h = host
  BY <1>1 DEF ShorterOnly
<1>2. CASE h # host
  <2>1. file \in DOMAIN host /\ lost <= Len(host[file])
        /\ h = Put(host, file, SubSeq(host[file], 1, Len(host[file]) - lost))
    BY <1>2 DEF Shorten
  <2>2. file = n
    BY <2>1 DEF UsersApart, HostOK
  <2> DEFINE s == host[n]
             c == SubSeq(s, 1, Len(s) - lost)
  <2>3. s \in Seq(Int) /\ lost <= Len(s) /\ h = Put(host, n, c)
    BY <2>1, <2>2 DEF HostOK
  <2>4. c \in Seq(Int)
    <3>1. Len(s) \in Nat
      BY <2>3
    <3> HIDE DEF s
    <3> QED BY <2>3, <3>1
  <2> HIDE DEF c, h
  <2>5. HostOK(h) /\ DOMAIN h = DOMAIN host
    <3>1. HostOK(Put(host, n, c)) /\ DOMAIN Put(host, n, c) = DOMAIN host \cup {n}
      BY <2>4, PutIs
    <3> QED BY <2>1, <2>2, <2>3, <3>1
  <2>6. \A m \in DOMAIN host \ {n} : h[m] = host[m]
    BY <2>3 DEF Put
  <2> QED BY <2>5, <2>6 DEF ShorterOnly, h
<1> QED BY <1>1, <1>2

(* An entry other than the first is erased: the file is shortened.         *)
LEMMA EraseLater ==
  ASSUME FilesInv, job # NoJob, job.op = "erase", UsersApart,
         NEW e \in Used(disk.dir), disk.map[e] = job.name, disk.dir[e].ext # 0,
         disk.dir[e].name = job.name,
         NEW new \in DiskEntry, ~InUse(new)
  PROVE  \E h : /\ ShorterOnly(h, disk.host, job.name)
                /\ Chgdir(disk, e, new) = Done(DiskOf(disk.dir, disk.map, disk.buf, h))
<1> DEFINE lost == ExtentRecords(disk.dir[e])
           a == disk.dir  b == disk.map  c == disk.buf
<1>1. /\ disk = [dir |-> disk.dir, map |-> disk.map, buf |-> disk.buf, host |-> disk.host]
      /\ disk.dir \in [EntryNumbers -> DiskEntry]
      /\ HostOK(disk.host) /\ job.name \in Names
  BY JobIs DEF DiskOK
<1>2. lost \in Nat /\ lost - 0 = lost
  <2>1. lost \in 0 .. ExtentSize
    BY <1>1, EntryIs DEF Used
  <2> HIDE DEF lost
  <2> QED BY <2>1, Counts
<1>3. \A q : [disk EXCEPT !.host = q] = DiskOf(disk.dir, disk.map, disk.buf, q)
  BY <1>1, DiskEdit
<1>4. disk = DiskOf(disk.dir, disk.map, disk.buf, disk.host)
  BY <1>1 DEF DiskOf
<1>5. Done(disk).err = FALSE /\ Done(disk).disk = disk
  BY DEF Done
<1>6. Chgdir(disk, e, new) =
        IF lost <= 0 THEN Done(disk)
        ELSE Done([disk EXCEPT !.host = Shorten(@, PlainName[job.name], lost)])
  <2>1. InUse(disk.dir[e])
    BY DEF Used
  <2>2. lost - (IF InUse(new) THEN ExtentRecords(new) ELSE 0) = lost
    BY <1>2
  <2> HIDE DEF lost
  <2> QED BY <1>5, <2>1, <2>2 DEF Chgdir, lost
<1>7. ShorterOnly(disk.host, disk.host, job.name)
  BY <1>1 DEF ShorterOnly
<1>8. ShorterOnly(Shorten(disk.host, PlainName[job.name], lost), disk.host, job.name)
  <2> HIDE DEF lost
  <2> QED BY <1>1, <1>2, ShortenIs
<1>9. [disk EXCEPT !.host = Shorten(@, PlainName[job.name], lost)]
      = [disk EXCEPT !.host = Shorten(disk.host, PlainName[job.name], lost)]
  OBVIOUS
<1> HIDE DEF lost
<1>10. CASE lost <= 0
  BY <1>4, <1>6, <1>7, <1>10
<1>11. CASE ~ (lost <= 0)
  BY <1>3, <1>6, <1>8, <1>9, <1>11
<1> QED BY <1>10, <1>11

(* The state after an entry of the erased file has been freed.             *)
Erasing(e, new, q, map, h) ==
  /\ e \in Used(disk.dir) /\ disk.map[e] = job.name /\ disk.dir[e].name = job.name
  /\ \A x \in EntriesOf(job.name) : e <= x
  /\ new \in DiskEntry /\ ~InUse(new)
  /\ q = [disk.dir EXCEPT ![e] = new]
  /\ map \in [EntryNumbers -> Names \cup {NoFile}]
  /\ \A x \in EntryNumbers \ {e} : map[x] = disk.map[x]
  /\ HostOK(h) /\ \A m \in DOMAIN files : m \in DOMAIN h /\ h[m] = disk.host[m]
  /\ DOMAIN h = IF disk.dir[e].ext = 0 THEN DOMAIN disk.host \ {job.name} ELSE DOMAIN disk.host

(* An entry of an erased file is gone.                                     *)
LEMMA EraseOn ==
  ASSUME FilesInv, job # NoJob, job.op = "erase",
         NEW e, NEW new, NEW q, NEW map, NEW h, Erasing(e, new, q, map, h),
         disk' = Flush(DiskOf(q, map, disk.buf, h)),
         job' = [job EXCEPT !.at = e], UNCHANGED <<fcb, files, misread, records, opens>>
  PROVE  FilesInv'
<1> DEFINE z == DiskOf(q, map, disk.buf, h)
           n == job.name
           x == Flush(z)
<1>0. /\ e \in Used(disk.dir) /\ disk.map[e] = n /\ disk.dir[e].name = n
      /\ \A y \in EntriesOf(n) : e <= y
      /\ new \in DiskEntry /\ ~InUse(new)
      /\ q = [disk.dir EXCEPT ![e] = new]
      /\ map \in [EntryNumbers -> Names \cup {NoFile}]
      /\ \A y \in EntryNumbers \ {e} : map[y] = disk.map[y]
      /\ HostOK(h) /\ \A m \in DOMAIN files : m \in DOMAIN h /\ h[m] = disk.host[m]
      /\ DOMAIN h = IF disk.dir[e].ext = 0 THEN DOMAIN disk.host \ {n} ELSE DOMAIN disk.host
  BY DEF Erasing
<1>1. /\ fcb = NoFcb /\ DiskOK(disk) /\ DiskTypes /\ n \in Names \ DOMAIN files
      /\ Gone = {n} /\ Present = files /\ Wrong = misread /\ HostOK(files)
      /\ Flushable(disk, files, misread, Gone)
      /\ disk.dir \in [EntryNumbers -> DiskEntry] /\ e \in EntryNumbers /\ e > job.at
      /\ job.to = Free
  BY <1>0, JobIs, ToBe DEF Used, EntriesOf
<1>2. z.dir = q /\ z.map = map /\ z.buf = disk.buf /\ z.host = h
      /\ z = [dir |-> z.dir, map |-> z.map, buf |-> z.buf, host |-> z.host]
  <2>1. z = DiskOf(q, map, disk.buf, h)
    OBVIOUS
  <2> HIDE DEF z
  <2> QED BY <1>0, <2>1, DiskOfIs
<1> HIDE DEF z
<1>3. DiskOK(z)
  <2>1. q \in [EntryNumbers -> DiskEntry]
    BY <1>0, <1>1
  <2> QED BY <1>0, <1>1, <1>2, <2>1 DEF DiskOK
<1>4. NoExtentTwice(disk.dir, disk.map)
  BY <1>0, <1>1 DEF Flushable, Structure
<1>5. ASSUME NEW y \in Used(disk.dir) \ {e}, disk.map[y] = n, disk.dir[y].ext = 0
      PROVE  n \in DOMAIN h
  <2>1. disk.dir[e].ext # 0
    BY <1>0, <1>4, <1>5 DEF NoExtentTwice
  <2>2. n \in DOMAIN disk.host
    BY <1>0, <1>1, <1>5 DEF Flushable
  <2> QED BY <1>0, <2>1, <2>2
<1>6. /\ Flushable(z, files, misread, Gone) /\ Used(q) = Used(disk.dir) \ {e}
      /\ \A y \in Used(q) : q[y] = disk.dir[y] /\ map[y] = disk.map[y]
  <2>1. DOMAIN h \ {n} = DOMAIN disk.host \ {n}
    BY <1>0
  <2>2. /\ Flushable(z, files, misread, Gone) /\ Used(z.dir) = Used(disk.dir) \ {e}
        /\ \A y \in Used(z.dir) : z.dir[y] = disk.dir[y] /\ z.map[y] = disk.map[y]
    <3>1. Freed(z, disk, files, misread, n, Gone, e, new)
      BY <1>0, <1>1, <1>2, <1>3, <1>5, <2>1 DEF Freed
    <3> HIDE DEF n
    <3> QED BY <3>1, FreeOne
  <2> QED BY <1>0, <1>2, <2>2
<1>7. Held(x, files, misread, Gone) /\ x.dir = q /\ x.map = map /\ DOMAIN x.host = DOMAIN h
  <2>1. Settled(x, z, files)
    BY <1>0, <1>6, FlushSettles
  <2> HIDE DEF x
  <2> QED BY <1>0, <1>2, <1>6, <2>1, SettledHeld
<1>8. disk' = x
  BY DEF z
<1> HIDE DEF x
<1>9. /\ job' \in [op : {"none", "erase", "rename"}, name : Names \cup {Free},
                   to : Names \cup {Free}, at : Nat]
      /\ job'.op = "erase" /\ job'.name = n /\ job'.to = Free /\ job'.at = e /\ job' # NoJob
  <2>1. job \in [op : {"none", "erase", "rename"}, name : Names \cup {Free},
                   to : Names \cup {Free}, at : Nat]
    BY <1>0, <1>1 DEF DiskTypes
  <2>2. e \in Nat
    BY <1>0, <1>1 DEF EntryNumbers
  <2>3. job'.op = "erase" /\ NoJob.op = "none"
    BY <1>0, <2>1 DEF NoJob
  <2> QED BY <1>0, <1>1, <2>1, <2>2, <2>3
<1>10. ~Pending' /\ Present' = files /\ Gone' = {n} /\ Gone' = Gone /\ Wrong' = misread
  BY <1>0, <1>1, <1>9 DEF Pending, Present, Gone, Wrong
<1>11. DiskTypes'
  BY <1>0, <1>1, <1>7, <1>8, <1>9 DEF DiskTypes, Held
<1>12. JobInv'
  <2>1. misread \subseteq DOMAIN files \cup {n}
    BY <1>0, <1>1, JobIs
  <2> QED BY <1>0, <1>1, <1>9, <1>10, <2>1 DEF JobInv
<1>13. NamesInv'
  <2>1. ASSUME NEW y \in Used(q)
        PROVE  /\ map[y] \in DOMAIN files \cup {n} /\ q[y].name = map[y]
               /\ q[y].name = n => y > e
    <3>1. y \in Used(disk.dir) /\ y # e /\ q[y] = disk.dir[y] /\ map[y] = disk.map[y]
      BY <1>0, <1>6
    <3>2. disk.map[y] \in DOMAIN files \cup {n} /\ disk.dir[y].name = disk.map[y]
      BY <1>0, <1>1, <3>1 DEF FilesInv, NamesInv
    <3>3. disk.dir[y].name = n => y > e
      <4>1. disk.dir[y].name = n => y \in EntriesOf(n)
        BY <1>0, <3>1, JobIs
      <4>2. y \in Nat /\ e \in Nat
        BY <1>0, <1>1, <3>1 DEF Used, EntryNumbers
      <4> QED BY <1>0, <3>1, <4>1, <4>2
    <3> QED BY <1>0, <3>1, <3>2, <3>3
  <2> QED BY <1>0, <1>7, <1>8, <1>9, <1>10, <2>1 DEF NamesInv
<1>14. n \in DOMAIN h <=> \E y \in Used(q) : map[y] = n /\ q[y].ext = 0
  <2>1. n \in DOMAIN disk.host <=> \E y \in Used(disk.dir) : disk.map[y] = n /\ disk.dir[y].ext = 0
    BY <1>0, <1>1 DEF FilesInv, HostInv
  <2>2. CASE disk.dir[e].ext = 0
    <3>1. \A y \in Used(q) : ~ (map[y] = n /\ q[y].ext = 0)
      BY <1>0, <1>4, <1>6, <2>2 DEF NoExtentTwice
    <3> QED BY <1>0, <2>2, <3>1
  <2>3. CASE disk.dir[e].ext # 0
    BY <1>0, <1>6, <2>1, <2>3
  <2> QED BY <1>0, <2>2, <2>3
<1>15. DiskHeld'
  BY <1>0, <1>1, <1>7, <1>8, <1>10, <1>11, <1>12, <1>13, <1>14 DEF DiskHeld
<1> QED BY <1>15, DiskHeldInvNext

(* An erase goes on (rcpmfs_chgdir: an extent is zapped).                  *)
LEMMA JobErase ==
  ASSUME FilesInv, JobStep, EntriesOf(job.name) # {}, job.op = "erase", UsersApart
  PROVE  FilesInv'
<1> DEFINE e == Min(EntriesOf(job.name))
           new == NameChanged(disk.dir[e], job.to)
           n == job.name
           q == [disk.dir EXCEPT ![e] = new]
<1>1. /\ e \in EntriesOf(n) /\ e \in Used(disk.dir) /\ e \in EntryNumbers
      /\ disk.dir[e].name = n /\ disk.dir[e] \in DiskEntry
      /\ \A x \in EntriesOf(n) : e <= x
      /\ job' = [job EXCEPT !.at = e]
      /\ UNCHANGED <<fcb, files, misread, records, opens>>
      /\ new \in DiskEntry /\ new # disk.dir[e]
      /\ PutEntry(e, new) /\ job # NoJob
  BY NextOne
<1>2. job.to = Free
  BY <1>1, ToBe
<1>3. ~InUse(new)
  BY <1>2, <1>1, NameChangedIs
<1>4. /\ DiskOK(disk) /\ HostOK(disk.host) /\ disk.map \in [EntryNumbers -> Names \cup {NoFile}]
      /\ n \notin DOMAIN files
  BY <1>1, JobIs DEF DiskOK
<1>5. disk.map[e] = n
  BY <1>1 DEF FilesInv, NamesInv
<1>6. \A m \in DOMAIN files : m \in DOMAIN disk.host
  BY <1>1, ToBe DEF FilesInv, HostInv
<1> HIDE DEF e, new
<1>7. CASE disk.dir[e].ext = 0
  <2> DEFINE r == [disk.map EXCEPT ![e] = NoFile]
             h == Without(disk.host, n)
             x == DiskOf(q, r, disk.buf, h)
  <2>1. Chgdir(disk, e, new) = Done(x)
    BY <1>1, <1>3, <1>5, <1>7, EraseFirst
  <2>2. disk' = Flush(x)
    <3>1. q \in {disk.dir, q} /\ x = DiskOf(q, r, disk.buf, h)
      OBVIOUS
    <3> HIDE DEF x, r, h
    <3> QED BY <1>1, <1>4, <2>1, <3>1, PutIt
  <2>3. HostOK(h) /\ DOMAIN h = DOMAIN disk.host \ {n}
        /\ \A m \in DOMAIN files : m \in DOMAIN h /\ h[m] = disk.host[m]
    <3>1. HostOK(h)
      BY <1>4, WithoutIs
    <3>2. \A m \in DOMAIN files : m \in DOMAIN h /\ h[m] = disk.host[m]
      BY <1>4, <1>6 DEF Without
    <3>3. DOMAIN h = DOMAIN disk.host \ {n}
      BY DEF Without
    <3> QED BY <3>1, <3>2, <3>3
  <2>4. r \in [EntryNumbers -> Names \cup {NoFile}] /\ \A y \in EntryNumbers \ {e} : r[y] = disk.map[y]
    BY <1>4
  <2>5. DOMAIN h = IF disk.dir[e].ext = 0 THEN DOMAIN disk.host \ {n} ELSE DOMAIN disk.host
    BY <1>7, <2>3
  <2>6. Erasing(e, new, q, r, h)
    <3> HIDE DEF r, h
    <3> QED BY <1>1, <1>3, <1>5, <2>3, <2>4, <2>5 DEF Erasing
  <2> HIDE DEF r, h
  <2> QED BY <1>1, <2>2, <2>6, EraseOn
<1>8. CASE disk.dir[e].ext # 0
  <2>1. PICK h : /\ ShorterOnly(h, disk.host, n)
                 /\ Chgdir(disk, e, new) = Done(DiskOf(disk.dir, disk.map, disk.buf, h))
    BY <1>1, <1>3, <1>5, <1>8, EraseLater
  <2>2. disk' = Flush(DiskOf(q, disk.map, disk.buf, h))
    <3> DEFINE x == DiskOf(disk.dir, disk.map, disk.buf, h)
               z == DiskOf(q, disk.map, disk.buf, h)
               a == disk.dir
               b == disk.map
    <3>1. a \in {disk.dir, q} /\ x = DiskOf(a, b, disk.buf, h) /\ z = DiskOf(q, b, disk.buf, h)
          /\ Chgdir(disk, e, new) = Done(x)
      BY <2>1
    <3> HIDE DEF x, z, a, b
    <3>2. disk' = Flush(z)
      BY <1>1, <1>4, <3>1, PutIt
    <3> QED BY <3>2 DEF z
  <2>3. HostOK(h) /\ DOMAIN h = DOMAIN disk.host
        /\ \A m \in DOMAIN files : m \in DOMAIN h /\ h[m] = disk.host[m]
    BY <1>4, <1>6, <2>1 DEF ShorterOnly
  <2>4. DOMAIN h = IF disk.dir[e].ext = 0 THEN DOMAIN disk.host \ {n} ELSE DOMAIN disk.host
    BY <1>8, <2>3
  <2>5. Erasing(e, new, q, disk.map, h)
    BY <1>1, <1>3, <1>4, <1>5, <2>3, <2>4 DEF Erasing
  <2> HIDE DEF q
  <2> QED BY <1>1, <2>2, <2>5, EraseOn
<1> QED BY <1>7, <1>8

(* The host file of a name, and the name in the map, become another.       *)
Renamed(z, d, f, w, r, v, n, t) ==
  /\ Held(d, f, w, {}) /\ w \subseteq DOMAIN f
  /\ \A e \in Used(d.dir) : d.map[e] \in DOMAIN f
  /\ n \in DOMAIN f /\ t \notin DOMAIN f
  /\ HostOK(r) /\ DOMAIN r = (DOMAIN f \ {n}) \cup {t}
  /\ r[t] = f[n] /\ \A m \in DOMAIN f \ {n} : r[m] = f[m]
  /\ v \subseteq DOMAIN r /\ (t \in v <=> n \in w)
  /\ \A m \in DOMAIN f \ {n} : m \in v <=> m \in w
  /\ DiskOK(z) /\ z.dir = d.dir /\ z.buf = d.buf
  /\ \A x \in EntryNumbers : z.map[x] = IF d.map[x] = n THEN t ELSE d.map[x]
  /\ DOMAIN z.host = DOMAIN r /\ \A m \in DOMAIN r : z.host[m] = r[m]

(* A disk holds its files under a new name of one of them.                 *)
LEMMA RenamedHeld ==
  ASSUME NEW z, NEW d, NEW f, NEW w, NEW r, NEW v, NEW n, NEW t,
         Renamed(z, d, f, w, r, v, n, t)
  PROVE  /\ Held(z, r, v, {})
         /\ \A e \in Used(z.dir) : z.map[e] \in DOMAIN r
<1>1. /\ Held(d, f, w, {}) /\ w \subseteq DOMAIN f /\ n \in DOMAIN f /\ t \notin DOMAIN f
      /\ \A e \in Used(d.dir) : d.map[e] \in DOMAIN f
  BY DEF Renamed
<1>2. /\ HostOK(r) /\ DOMAIN r = (DOMAIN f \ {n}) \cup {t}
      /\ r[t] = f[n] /\ \A m \in DOMAIN f \ {n} : r[m] = f[m]
  BY DEF Renamed
<1>3. /\ v \subseteq DOMAIN r /\ (t \in v <=> n \in w)
      /\ \A m \in DOMAIN f \ {n} : m \in v <=> m \in w
  BY DEF Renamed
<1>4. /\ DiskOK(z) /\ z.dir = d.dir /\ z.buf = d.buf
      /\ DOMAIN z.host = DOMAIN r /\ \A m \in DOMAIN r : z.host[m] = r[m]
  BY DEF Renamed
<1>5. \A x \in EntryNumbers : z.map[x] = IF d.map[x] = n THEN t ELSE d.map[x]
  BY DEF Renamed
<1>6. \A x \in Used(d.dir) : x \in EntryNumbers /\ d.map[x] \in DOMAIN f /\ d.map[x] # t
        /\ z.map[x] = (IF d.map[x] = n THEN t ELSE d.map[x])
  BY <1>1, <1>5 DEF Used
<1>7. Structure(z.dir, z.map, Lengths(r), v, {})
  <2>1. NoBlockTwice(z.dir)
    BY <1>1, <1>4 DEF Held, Structure
  <2>2. NoExtentTwice(z.dir, z.map)
    <3>1. NoExtentTwice(d.dir, d.map)
      BY <1>1 DEF Held, Structure
    <3> QED BY <1>4, <1>6, <3>1 DEF NoExtentTwice
  <2>3. FirstThere(z.dir, z.map, {})
    <3>1. FirstThere(d.dir, d.map, {})
      BY <1>1 DEF Held, Structure
    <3> QED BY <1>4, <1>6, <3>1 DEF FirstThere
  <2>4. ASSUME NEW m \in DOMAIN Lengths(r) \ v PROVE FileFits(z.dir, z.map, m, Lengths(r)[m])
    <3> DEFINE o == IF m = t THEN n ELSE m
    <3>1. o \in DOMAIN Lengths(f) \ w /\ Lengths(r)[m] = Lengths(f)[o]
      BY <1>1, <1>2, <1>3 DEF Lengths
    <3>2. FileFits(d.dir, d.map, o, Lengths(f)[o])
      BY <1>1, <3>1 DEF Held, Structure
    <3>3. \A x \in Used(d.dir) : z.map[x] = m <=> d.map[x] = o
      <4>1. m \in DOMAIN r
        BY DEF Lengths
      <4> QED BY <1>1, <1>2, <1>6, <4>1
    <3> HIDE DEF o
    <3> QED BY <1>4, <3>1, <3>2, <3>3 DEF FileFits
  <2> QED BY <2>1, <2>2, <2>3, <2>4 DEF Structure
<1>8. /\ Records(z, r, v) = Records(d, f, w)
      /\ \A ek \in Records(d, f, w) : r[z.map[ek[1]]] = f[d.map[ek[1]]]
  <2>1. \A x \in Used(d.dir) : z.map[x] \in DOMAIN r \ v <=> d.map[x] \in DOMAIN f \ w
    BY <1>1, <1>2, <1>3, <1>6
  <2>2. \A x \in Used(d.dir) : r[z.map[x]] = f[d.map[x]]
    BY <1>1, <1>2, <1>6
  <2> QED BY <1>4, <2>1, <2>2 DEF Records
<1>9. BufferedRight(z, r, v)
  BY <1>1, <1>4, <1>8 DEF Held, BufferedRight
<1>10. Unbuffered(z, v, {})
  <2>1. \A x \in Used(d.dir) : z.map[x] \in v => d.map[x] \in w
    BY <1>1, <1>2, <1>3, <1>6
  <2> QED BY <1>1, <1>4, <2>1 DEF Held, Unbuffered, Buffers
<1>11. \A x \in Used(z.dir) : z.map[x] \in DOMAIN r
  BY <1>1, <1>2, <1>4, <1>6
<1> QED BY <1>2, <1>4, <1>7, <1>9, <1>10, <1>11 DEF Held

(* The state after an entry has got its new name.                          *)
RenamingTo(z, e) ==
  /\ e \in EntryNumbers
  /\ Held(z, files, misread, {})
  /\ \A x \in Used(z.dir) :
       /\ z.map[x] \in DOMAIN files
       /\ \/ z.dir[x].name = z.map[x]
          \/ z.dir[x].name = job.name /\ z.map[x] = job.to /\ z.dir[x].ext # 0
       /\ z.dir[x].name = job.name => x > e

(* An entry of a renamed file has the new name.                            *)
LEMMA RenameOn ==
  ASSUME FilesInv, job # NoJob, job.op = "rename", NEW e, NEW z, RenamingTo(z, e),
         disk' = Flush(z),
         job' = [job EXCEPT !.at = e], UNCHANGED <<fcb, files, misread, records, opens>>
  PROVE  FilesInv'
<1> DEFINE x == Flush(z)
<1>1. /\ fcb = NoFcb /\ DiskTypes /\ job.name \in Names \ DOMAIN files /\ job.to \in DOMAIN files
      /\ HostOK(files) /\ Gone = {} /\ misread \subseteq DOMAIN files
  BY JobIs, ToBe
<1>2. /\ e \in EntryNumbers /\ Held(z, files, misread, {})
      /\ \A y \in Used(z.dir) : z.map[y] \in DOMAIN files
  BY DEF RenamingTo
<1>3. Flushable(z, files, misread, {})
  BY <1>2, HeldFlushable
<1>4. Held(x, files, misread, {}) /\ x.dir = z.dir /\ x.map = z.map
  <2>1. Settled(x, z, files)
    BY <1>3, FlushSettles
  <2> HIDE DEF x
  <2> QED BY <1>3, <2>1, SettledHeld
<1>5. disk' = x
  OBVIOUS
<1> HIDE DEF x
<1>6. /\ job' \in [op : {"none", "erase", "rename"}, name : Names \cup {Free},
                   to : Names \cup {Free}, at : Nat]
      /\ job'.op = "rename" /\ job'.name = job.name /\ job'.to = job.to /\ job'.at = e
      /\ job' # NoJob /\ e > 0
  <2>1. job \in [op : {"none", "erase", "rename"}, name : Names \cup {Free},
                   to : Names \cup {Free}, at : Nat]
    BY <1>1 DEF DiskTypes
  <2>2. e \in Nat /\ e > 0
    BY <1>2 DEF EntryNumbers
  <2>3. job'.op = "rename" /\ NoJob.op = "none"
    BY <2>1 DEF NoJob
  <2> QED BY <1>1, <2>1, <2>2, <2>3
<1>7. ~Pending' /\ Present' = files /\ Gone' = {} /\ Wrong' = misread
  BY <1>6 DEF Pending, Present, Gone, Wrong
<1>8. DiskTypes'
  BY <1>1, <1>4, <1>5, <1>6 DEF DiskTypes, Held
<1>9. JobInv'
  BY <1>1, <1>6, <1>7 DEF JobInv
<1>10. NamesInv'
  BY <1>4, <1>5, <1>6, <1>7 DEF NamesInv, RenamingTo
<1>11. DiskHeld'
  BY <1>1, <1>4, <1>5, <1>7, <1>8, <1>9, <1>10 DEF DiskHeld
<1> QED BY <1>11, DiskHeldInvNext

(* A rename goes on (rcpmfs_chgdir: another name).                         *)
LEMMA JobRename ==
  ASSUME FilesInv, JobStep, EntriesOf(job.name) # {}, job.op = "rename"
  PROVE  FilesInv'
<1> DEFINE e == Min(EntriesOf(job.name))
           new == NameChanged(disk.dir[e], job.to)
           n == job.name
           t == job.to
           q == [disk.dir EXCEPT ![e] = new]
<1>1. /\ e \in EntriesOf(n) /\ e \in Used(disk.dir) /\ e \in EntryNumbers
      /\ disk.dir[e].name = n /\ disk.dir[e] \in DiskEntry
      /\ \A x \in EntriesOf(n) : e <= x
      /\ job' = [job EXCEPT !.at = e]
      /\ UNCHANGED <<fcb, files, misread, records, opens>>
      /\ new \in DiskEntry /\ new # disk.dir[e] /\ t # n
      /\ PutEntry(e, new) /\ job # NoJob
  BY NextOne
<1>2. /\ DiskOK(disk) /\ HostOK(disk.host) /\ disk.map \in [EntryNumbers -> Names \cup {NoFile}]
      /\ disk.dir \in [EntryNumbers -> DiskEntry]
      /\ n \in Names \ DOMAIN files /\ t \in DOMAIN files /\ HostOK(files) /\ t \in Names
      /\ Gone = {} /\ Held(disk, Present, Wrong, {}) /\ misread \subseteq DOMAIN files
      /\ disk = [dir |-> disk.dir, map |-> disk.map, buf |-> disk.buf, host |-> disk.host]
  BY <1>1, JobIs, ToBe DEF DiskOK, HostOK
<1>3. /\ new.name = t /\ new.ext = disk.dir[e].ext /\ new.blocks = disk.dir[e].blocks
      /\ ExtentRecords(new) = ExtentRecords(disk.dir[e]) /\ InUse(new)
  BY <1>1, <1>2, NameChangedIs, NoName
<1>4. q \in [EntryNumbers -> DiskEntry] /\ Alike(disk.dir, q) /\ Used(q) = Used(disk.dir)
      /\ q[e] = new /\ \A x \in EntryNumbers \ {e} : q[x] = disk.dir[x]
  BY <1>1, <1>2, <1>3 DEF Alike, Used
<1>5. \A x \in Used(disk.dir) :
        /\ disk.map[x] \in DOMAIN Present
        /\ \/ disk.dir[x].name = disk.map[x]
           \/ /\ job.at > 0 /\ disk.dir[x].name = n /\ disk.map[x] = t /\ disk.dir[x].ext # 0
        /\ x # e /\ disk.dir[x].name = n => x > e
  <2>1. ASSUME NEW x \in Used(disk.dir), x # e, disk.dir[x].name = n PROVE x > e
    <3>1. x \in EntriesOf(n) /\ e \in Nat /\ x \in Nat
      BY <1>1, <2>1, JobIs DEF Used, EntryNumbers
    <3>2. e <= x
      BY <1>1, <3>1
    <3> QED BY <2>1, <3>1, <3>2
  <2> QED BY <1>2, <2>1 DEF FilesInv, NamesInv
<1>6. ExtentRecords(disk.dir[e]) - ExtentRecords(new) <= 0
  <2>1. ExtentRecords(disk.dir[e]) \in Nat
    BY <1>1, EntryIs, Counts
  <2> QED BY <1>3, <2>1
<1>7. \A r : RenameFile(disk, e, new) = Done(r) => Chgdir(disk, e, new) = Done(r)
  <2>1. InUse(disk.dir[e]) /\ disk.dir[e].name # new.name
    BY <1>1, <1>3 DEF Used
  <2>2. ExtentRecords(disk.dir[e]) - (IF InUse(new) THEN ExtentRecords(new) ELSE 0) <= 0
    BY <1>3, <1>6
  <2> HIDE DEF new, e
  <2> QED BY <1>3, <2>1, <2>2 DEF Chgdir
<1> HIDE DEF e, new
<1>8. CASE Pending
  <2> DEFINE map == [x \in EntryNumbers |-> IF disk.map[x] = n THEN t ELSE disk.map[x]]
             h == Put(Without(disk.host, n), t, disk.host[n])
             y == DiskOf(disk.dir, map, disk.buf, h)
             z == DiskOf(q, map, disk.buf, h)
  <2>1. disk.dir[e].ext = 0 /\ job.at = 0
    BY <1>1, <1>8 DEF FilesInv, JobInv, Pending, e
  <2>2. disk.map[e] = n
    BY <1>1, <1>5, <2>1
  <2>3. /\ DOMAIN Present = (DOMAIN files \ {t}) \cup {n} /\ Present[n] = files[t]
        /\ \A m \in DOMAIN files \ {t} : Present[m] = files[m]
        /\ Wrong = { IF m = t THEN n ELSE m : m \in misread }
    BY <1>2, <1>8 DEF Present, Wrong, Put, Without
  <2>4. DOMAIN disk.host = DOMAIN Present /\ \A m \in DOMAIN Present : disk.host[m] = Present[m]
    BY <1>2 DEF Held
  <2>5. /\ DOMAIN h = DOMAIN files /\ \A m \in DOMAIN files : h[m] = files[m]
    BY <1>2, <2>3, <2>4 DEF Put, Without
  <2>6. HostOK(h)
    BY <1>2, <2>5 DEF HostOK, Put
  <2>7. map \in [EntryNumbers -> Names \cup {NoFile}]
    BY <1>2
  <2>8. RenameFile(disk, e, new) = Done(y)
    <3>1. n \in DOMAIN disk.host
      BY <2>3, <2>4
    <3> DEFINE a == [x \in EntryNumbers |-> IF disk.map[x] = disk.map[e] THEN new.name ELSE disk.map[x]]
               b == Put(Without(disk.host, disk.map[e]), new.name, disk.host[disk.map[e]])
    <3>2. RenameFile(disk, e, new) = Done([[disk EXCEPT !.map = a] EXCEPT !.host = b])
      BY <1>3, <2>1, <2>2, <3>1 DEF RenameFile
    <3>3. a = map /\ b = h
      BY <1>3, <2>2
    <3> HIDE DEF a, b, map, h
    <3>4. [[disk EXCEPT !.map = a] EXCEPT !.host = b] = DiskOf(disk.dir, a, disk.buf, b)
      <4>1. disk = [dir |-> disk.dir, map |-> disk.map, buf |-> disk.buf, host |-> disk.host]
        BY <1>2
      <4>2. \A r, s : [[disk EXCEPT !.map = r] EXCEPT !.host = s] = DiskOf(disk.dir, r, disk.buf, s)
        BY <4>1, DiskEdit
      <4> QED BY <4>2
    <3> QED BY <3>2, <3>3, <3>4
  <2>9. disk' = Flush(z)
    <3> DEFINE a == disk.dir
    <3>1. a \in {disk.dir, q} /\ y = DiskOf(a, map, disk.buf, h) /\ z = DiskOf(q, map, disk.buf, h)
          /\ Chgdir(disk, e, new) = Done(y)
      BY <1>7, <2>8
    <3> HIDE DEF y, z, a, map, h
    <3> QED BY <1>1, <1>2, <3>1, PutIt
  <2>10. /\ y.dir = disk.dir /\ y.map = map /\ y.buf = disk.buf /\ y.host = h
         /\ y = [dir |-> y.dir, map |-> y.map, buf |-> y.buf, host |-> y.host]
         /\ z.dir = q /\ z.map = map /\ z.buf = disk.buf /\ z.host = h
         /\ z = [dir |-> z.dir, map |-> z.map, buf |-> z.buf, host |-> z.host]
    <3>1. y = DiskOf(disk.dir, map, disk.buf, h) /\ z = DiskOf(q, map, disk.buf, h)
      OBVIOUS
    <3> HIDE DEF y, z, map, h, q
    <3> QED BY <3>1, DiskOfIs
  <2>11. \A x \in EntryNumbers : map[x] = IF disk.map[x] = n THEN t ELSE disk.map[x]
    OBVIOUS
  <2> HIDE DEF y, z, map, h
  <2>12. DiskOK(y) /\ DiskOK(z)
    BY <1>2, <1>4, <2>6, <2>7, <2>10 DEF DiskOK
  <2>13. Renamed(y, disk, Present, Wrong, files, misread, n, t)
    <3>1. Wrong \subseteq DOMAIN Present
      BY <1>2, <2>3
    <3>2. t \in misread <=> n \in Wrong
      BY <1>1, <1>2, <2>3
    <3>3. \A m \in DOMAIN Present \ {n} : m \in misread <=> m \in Wrong
      BY <1>1, <1>2, <2>3
    <3>4. n \in DOMAIN Present /\ t \notin DOMAIN Present
          /\ DOMAIN files = (DOMAIN Present \ {n}) \cup {t}
          /\ files[t] = Present[n] /\ \A m \in DOMAIN Present \ {n} : files[m] = Present[m]
      BY <1>1, <1>2, <2>3
    <3>5. DOMAIN y.host = DOMAIN files /\ \A m \in DOMAIN files : y.host[m] = files[m]
      BY <2>5, <2>10
    <3>6. \A x \in EntryNumbers : y.map[x] = IF disk.map[x] = n THEN t ELSE disk.map[x]
      BY <2>10, <2>11
    <3>7. y.dir = disk.dir /\ y.buf = disk.buf
      BY <2>10
    <3>8. \A x \in Used(disk.dir) : disk.map[x] \in DOMAIN Present
      BY <1>5
    <3> QED BY <1>2, <2>12, <3>1, <3>2, <3>3, <3>4, <3>5, <3>6, <3>7, <3>8 DEF Renamed
  <2>14. Held(y, files, misread, {}) /\ \A x \in Used(disk.dir) : map[x] \in DOMAIN files
    <3>1. Held(y, files, misread, {}) /\ \A x \in Used(y.dir) : y.map[x] \in DOMAIN files
      BY <2>13, RenamedHeld
    <3> QED BY <2>10, <3>1
  <2>15. Held(z, files, misread, {})
    BY <1>4, <2>10, <2>12, <2>14, HeldAlike
  <2>16. ASSUME NEW x \in Used(z.dir)
         PROVE  /\ z.map[x] \in DOMAIN files
                /\ \/ z.dir[x].name = z.map[x]
                   \/ z.dir[x].name = n /\ z.map[x] = t /\ z.dir[x].ext # 0
                /\ z.dir[x].name = n => x > e
    <3>1. x \in Used(disk.dir) /\ x \in EntryNumbers /\ z.map[x] = map[x] /\ z.dir[x] = q[x]
      BY <1>4, <2>10 DEF Used
    <3>2. map[x] \in DOMAIN files
      BY <2>14, <3>1
    <3>3. disk.dir[x].name = disk.map[x] /\ map[x] = IF disk.map[x] = n THEN t ELSE disk.map[x]
      BY <1>5, <2>1, <2>11, <3>1
    <3>4. CASE x = e
      <4>1. q[x].name = t /\ map[x] = t
        BY <1>3, <1>4, <2>2, <3>3, <3>4
      <4> QED BY <1>1, <3>1, <3>2, <4>1
    <3>5. CASE x # e
      <4>1. q[x] = disk.dir[x]
        BY <1>4, <3>1, <3>5
      <4>2. disk.map[x] = n => disk.dir[x].ext # 0
        BY <1>1, <1>2, <2>1, <2>2, <3>1, <3>5 DEF Held, Structure, NoExtentTwice
      <4> QED BY <1>5, <3>1, <3>2, <3>3, <3>5, <4>1, <4>2
    <3> QED BY <3>4, <3>5
  <2>17. RenamingTo(z, e)
    BY <1>1, <2>15, <2>16 DEF RenamingTo
  <2> QED BY <1>1, <2>9, <2>17, RenameOn
<1>9. CASE ~Pending
  <2>1. Present = files /\ Wrong = misread
    BY <1>1, <1>9, ToBe
  <2>2. disk.map[e] = t /\ disk.dir[e].ext # 0 /\ \A x \in Used(disk.dir) : disk.map[x] \in DOMAIN files
    BY <1>1, <1>2, <1>5, <2>1
  <2>3. t \in DOMAIN disk.host
    BY <1>2, <2>1 DEF Held
  <2>4. RenameFile(disk, e, new) = Done(disk)
    BY <1>3, <2>2, <2>3 DEF RenameFile
  <2> DEFINE a == disk.dir
             map == disk.map
             h == disk.host
             z == DiskOf(q, map, disk.buf, h)
  <2>5. disk = DiskOf(a, map, disk.buf, h)
    BY <1>2 DEF DiskOf
  <2>6. disk' = Flush(z)
    <3>1. a \in {disk.dir, q} /\ z = DiskOf(q, map, disk.buf, h) /\ Chgdir(disk, e, new) = Done(disk)
      BY <1>7, <2>4
    <3> HIDE DEF z, a, map, h
    <3> QED BY <1>1, <1>2, <2>5, <3>1, PutIt
  <2>7. /\ z.dir = q /\ z.map = map /\ z.buf = disk.buf /\ z.host = h
        /\ z = [dir |-> z.dir, map |-> z.map, buf |-> z.buf, host |-> z.host]
    <3>1. z = DiskOf(q, map, disk.buf, h)
      OBVIOUS
    <3> HIDE DEF z, map, h, q
    <3> QED BY <3>1, DiskOfIs
  <2> HIDE DEF z
  <2>8. DiskOK(z)
    BY <1>2, <1>4, <2>7 DEF DiskOK
  <2>9. Held(z, files, misread, {})
    BY <1>2, <1>4, <2>1, <2>7, <2>8, HeldAlike
  <2>10. ASSUME NEW x \in Used(z.dir)
         PROVE  /\ z.map[x] \in DOMAIN files
                /\ \/ z.dir[x].name = z.map[x]
                   \/ z.dir[x].name = n /\ z.map[x] = t /\ z.dir[x].ext # 0
                /\ z.dir[x].name = n => x > e
    <3>1. x \in Used(disk.dir) /\ x \in EntryNumbers /\ z.map[x] = disk.map[x] /\ z.dir[x] = q[x]
      BY <1>4, <2>7 DEF Used
    <3>2. CASE x = e
      BY <1>1, <1>2, <1>3, <1>4, <2>2, <3>1, <3>2
    <3>3. CASE x # e
      <4>1. q[x] = disk.dir[x]
        BY <1>4, <3>1, <3>3
      <4> QED BY <1>5, <2>2, <3>1, <3>3, <4>1
    <3> QED BY <3>2, <3>3
  <2>11. RenamingTo(z, e)
    BY <1>1, <2>9, <2>10 DEF RenamingTo
  <2> QED BY <1>1, <2>6, <2>11, RenameOn
<1> QED BY <1>8, <1>9

(* An erase or a rename goes on, or is done.                               *)
LEMMA JobStepStep == ASSUME FilesInv, UsersApart, JobStep PROVE FilesInv'
<1>1. job.op \in {"erase", "rename"}
  BY JobIs DEF JobStep
<1> QED BY <1>1, JobDone, JobErase, JobRename
-----------------------------------------------------------------------------
(* Records written.                                                        *)

(* The records of a sector follow each other.                              *)
LEMMA SpotRow ==
  ASSUME NEW i \in 1 .. BlocksPerExtent, NEW u \in 0 .. SecPerBlock - 1
  PROVE  /\ Spot(i, u, 1) \in 0 .. ExtentSize - 1
         /\ \A j \in 1 .. RecPerSec :
              /\ Spot(i, u, j) = Spot(i, u, 1) + j - 1 /\ Spot(i, u, j) \in 0 .. ExtentSize - 1
              /\ Spot(i, u, j) % RecPerSec = j - 1
<1>1. SecPerBlock * (i - 1) + u \in Nat
  BY Sizes, Multiples
<1> DEFINE m == RecPerSec * (SecPerBlock * (i - 1) + u)
<1>2. m \in Nat
  BY <1>1, Sizes
<1>3. \A j \in 1 .. RecPerSec : Spot(i, u, j) = m + (j - 1)
  BY DEF Spot
<1>4. 1 \in 1 .. RecPerSec
  BY Counts
<1>5. Spot(i, u, 1) = m + (1 - 1)
  BY <1>3, <1>4
<1> HIDE DEF m
<1>6. \A j \in 1 .. RecPerSec : Spot(i, u, j) = Spot(i, u, 1) + j - 1
  BY <1>2, <1>3, <1>5
<1> QED BY <1>4, <1>6, SpotIs

(* A file of the host is the same but for one record.                      *)
OneChanged(h, host, n, p) ==
  /\ HostOK(h) /\ DOMAIN h = DOMAIN host
  /\ \A m \in DOMAIN host \ {n} : h[m] = host[m]
  /\ Len(h[n]) = Len(host[n])
  /\ \A q \in 1 .. Len(host[n]) : q # p => h[n][q] = host[n][q]

(* A sector of which the first records, but for one, are on the host.      *)
PutReady(h, host, n, at, size, data, j0) ==
  /\ HostOK(host) /\ n \in DOMAIN host /\ at \in Nat
  /\ size \in 0 .. RecPerSec /\ data \in SectorData /\ at + size <= Len(host[n])
  /\ j0 \in 1 .. RecPerSec
  /\ \A j \in 1 .. size : j # j0 => data[j] = host[n][at + j]
  /\ h = WriteFile(host, n, at, SubSeq(data, 1, size))

PutDone(h, host, n, at, size, data, j0) ==
  /\ OneChanged(h, host, n, at + j0)
  /\ j0 <= size => h[n][at + j0] = data[j0]

(* A sector is written to its file.                                        *)
LEMMA PutSector ==
  ASSUME NEW h, NEW host, NEW n, NEW at, NEW size, NEW data, NEW j0,
         PutReady(h, host, n, at, size, data, j0)
  PROVE  PutDone(h, host, n, at, size, data, j0)
<1>0. /\ HostOK(host) /\ n \in DOMAIN host /\ at \in Nat
      /\ size \in 0 .. RecPerSec /\ data \in SectorData /\ at + size <= Len(host[n])
      /\ j0 \in 1 .. RecPerSec
      /\ \A j \in 1 .. size : j # j0 => data[j] = host[n][at + j]
      /\ h = WriteFile(host, n, at, SubSeq(data, 1, size))
  BY DEF PutReady
<1> DEFINE recs == SubSeq(data, 1, size)
           len == Len(host[n])
<1>1. recs \in Seq(Int) /\ Len(recs) = size /\ \A j \in 1 .. size : recs[j] = data[j]
  <2>1. size \in 0 .. RecPerSec /\ data \in SectorData
    BY <1>0
  <2> QED BY <2>1, Sizes DEF SectorData
<1>2. len \in Nat /\ at + size <= len
  BY <1>0 DEF HostOK
<1>3. Overwritten(h, host, n, at, recs)
  <2> HIDE DEF recs
  <2>1. h = WriteFile(host, n, at, recs)
    BY <1>0 DEF recs
  <2> QED BY <1>0, <1>1, <2>1, WriteFileIs
<1> HIDE DEF recs
<1>4. Len(h[n]) = len
  <2>1. size = 0 <=> recs = <<>>
    BY <1>0, <1>1
  <2>2. AtLeast(at + size, len) = len
    <3> HIDE DEF len
    <3> QED BY <1>0, <1>2 DEF AtLeast
  <2>3. Len(h[n]) = IF recs = <<>> THEN len ELSE AtLeast(at + size, len)
    BY <1>1, <1>3 DEF Overwritten
  <2> QED BY <2>2, <2>3
<1>5. \A q \in 1 .. len :
        h[n][q] = IF at < q /\ q <= at + size THEN recs[q - at]
                  ELSE IF q <= len THEN host[n][q] ELSE E5
  BY <1>0, <1>1, <1>3, <1>4 DEF Overwritten
<1>6. \A q \in 1 .. len : q # at + j0 => h[n][q] = host[n][q]
  <2> TAKE q \in 1 .. len
  <2> HAVE q # at + j0
  <2>1. CASE at < q /\ q <= at + size
    <3> DEFINE j == q - at
    <3>1. j \in 1 .. size /\ j # j0 /\ at + j = q
      BY <1>0, <1>2, <2>1
    <3>2. h[n][q] = recs[j]
      BY <1>5, <2>1
    <3> HIDE DEF j
    <3> QED BY <1>0, <1>1, <3>1, <3>2
  <2>2. CASE ~ (at < q /\ q <= at + size)
    <3>1. q <= len
      BY <1>0, <1>2
    <3> QED BY <1>5, <2>2, <3>1
  <2> QED BY <2>1, <2>2
<1>7. ASSUME j0 <= size PROVE h[n][at + j0] = data[j0]
  <2> DEFINE q == at + j0
  <2>1. q \in 1 .. len /\ at < q /\ q <= at + size /\ q - at = j0 /\ j0 \in 1 .. size
    <3> HIDE DEF len
    <3> QED BY <1>0, <1>2, <1>7
  <2> HIDE DEF q
  <2>2. h[n][q] = recs[j0]
    BY <1>5, <2>1
  <2> QED BY <1>1, <2>1, <2>2 DEF q
<1>8. HostOK(h) /\ DOMAIN h = DOMAIN host /\ \A m \in DOMAIN host \ {n} : h[m] = host[m]
  BY <1>3 DEF Overwritten
<1>9. OneChanged(h, host, n, at + j0)
  BY <1>4, <1>6, <1>8 DEF OneChanged
<1> QED BY <1>7, <1>9 DEF PutDone

(* A record that is to be written to sector s of disk d: it is record k of *)
(* entry c, which CP/M knows as in dir and the disk knows so far as its    *)
(* records go.                                                             *)
WriteReady(d, dir, c, n, clean, base, k, i, u, j, s, val) ==
  /\ DiskOK(d) /\ dir \in [EntryNumbers -> DiskEntry] /\ NoBlockTwice(dir)
  /\ c \in Used(dir) /\ Used(d.dir) = Used(dir)
  /\ \A e \in Used(dir) : e # c => d.dir[e] = dir[e]
  /\ clean \in 0 .. ExtentSize /\ ExtentRecords(d.dir[c]) = clean
  /\ d.dir[c].ext = dir[c].ext
  /\ \A x \in 1 .. BlocksPerExtent :
       d.dir[c].blocks[x] = IF (x - 1) * RecPerBlock < clean THEN dir[c].blocks[x] ELSE 0
  /\ d.map[c] = n /\ n \in DOMAIN d.host
  /\ base = dir[c].ext * ExtentSize /\ base + clean <= Len(d.host[n])
  /\ i \in 1 .. BlocksPerExtent /\ u \in 0 .. SecPerBlock - 1 /\ j \in 1 .. RecPerSec
  /\ k = Spot(i, u, j) /\ dir[c].blocks[i] # 0
  /\ s = SectorOf(dir[c], k) /\ val \in Int

(* The sector of the record that is written belongs to its entry.          *)
LEMMA WriteWhere ==
  ASSUME NEW d, NEW dir, NEW c, NEW n, NEW clean, NEW base, NEW k, NEW i, NEW u, NEW j, NEW s, NEW val,
         WriteReady(d, dir, c, n, clean, base, k, i, u, j, s, val)
  PROVE  /\ s \in Nat /\ s \div SecPerBlock = dir[c].blocks[i] /\ s % SecPerBlock = u
         /\ s \div SecPerBlock \in DataBlocks
         /\ (i - 1) * RecPerBlock < clean =>
              PsFind2(d, s) = [file |-> n, at |-> base + Spot(i, u, 1),
                               size |-> AtMost(AtLeast(clean - Spot(i, u, 1), 0), RecPerSec)]
         /\ ~ ((i - 1) * RecPerBlock < clean) =>
              PsFind2(d, s) = [file |-> NoFile, at |-> 0, size |-> 0]
<1>1. /\ DiskOK(d) /\ dir \in [EntryNumbers -> DiskEntry] /\ NoBlockTwice(dir)
      /\ c \in Used(dir) /\ Used(d.dir) = Used(dir)
      /\ i \in 1 .. BlocksPerExtent /\ u \in 0 .. SecPerBlock - 1 /\ j \in 1 .. RecPerSec
      /\ k = Spot(i, u, j) /\ dir[c].blocks[i] # 0 /\ s = SectorOf(dir[c], k)
      /\ d.map[c] = n /\ base = dir[c].ext * ExtentSize
      /\ ExtentRecords(d.dir[c]) = clean /\ d.dir[c].ext = dir[c].ext
  BY DEF WriteReady
<1>2. /\ \A e \in Used(dir) : e # c => d.dir[e] = dir[e]
      /\ \A x \in 1 .. BlocksPerExtent :
           d.dir[c].blocks[x] = IF (x - 1) * RecPerBlock < clean THEN dir[c].blocks[x] ELSE 0
  BY DEF WriteReady
<1>3. dir[c] \in DiskEntry /\ d.dir \in [EntryNumbers -> DiskEntry]
  BY <1>1 DEF Used, DiskOK
<1>4. s \in Nat /\ s \div SecPerBlock = dir[c].blocks[i] /\ s % SecPerBlock = u
  BY <1>1, <1>3, SectorOfSpot
<1>5. s \div SecPerBlock \in DataBlocks
  BY <1>1, <1>3, <1>4, EntryIs
<1>6. \A e \in Used(dir) : \A x \in 1 .. BlocksPerExtent :
        d.dir[e].blocks[x] # 0 => d.dir[e].blocks[x] = dir[e].blocks[x]
  BY <1>2
<1>7. NoBlockTwice(d.dir)
  <2> SUFFICES ASSUME NEW e1 \in Used(dir), NEW e2 \in Used(dir),
                      NEW x \in 1 .. BlocksPerExtent, NEW y \in 1 .. BlocksPerExtent,
                      d.dir[e1].blocks[x] # 0, d.dir[e1].blocks[x] = d.dir[e2].blocks[y]
               PROVE  e1 = e2 /\ x = y
    BY <1>1 DEF NoBlockTwice
  <2>1. dir[e1].blocks[x] # 0 /\ dir[e1].blocks[x] = dir[e2].blocks[y]
    BY <1>6
  <2> QED BY <1>1, <2>1 DEF NoBlockTwice
<1>8. CASE (i - 1) * RecPerBlock < clean
  <2>1. d.dir[c].blocks[i] = s \div SecPerBlock /\ d.dir[c].blocks[i] # 0
    BY <1>1, <1>2, <1>4, <1>8
  <2>2. PsFind2(d, s) =
          [file |-> d.map[c],
           at |-> d.dir[c].ext * ExtentSize + Spot(i, s % SecPerBlock, 1),
           size |-> AtMost(AtLeast(ExtentRecords(d.dir[c]) - Spot(i, s % SecPerBlock, 1), 0),
                           RecPerSec)]
    BY <1>1, <1>3, <1>4, <1>7, <2>1, FindOwned
  <2>3. PsFind2(d, s) = [file |-> n, at |-> base + Spot(i, u, 1),
                         size |-> AtMost(AtLeast(clean - Spot(i, u, 1), 0), RecPerSec)]
    BY <1>1, <1>4, <2>2
  <2> QED BY <1>4, <1>5, <1>8, <2>3
<1>9. CASE ~ ((i - 1) * RecPerBlock < clean)
  <2>1. Owners(d.dir, s \div SecPerBlock) = {}
    <3> SUFFICES ASSUME Owners(d.dir, s \div SecPerBlock) # {} PROVE FALSE
      OBVIOUS
    <3> DEFINE b == s \div SecPerBlock
    <3>1. \E e \in Used(d.dir) : \E x \in 1 .. BlocksPerExtent : d.dir[e].blocks[x] = b
      <4> HIDE DEF b
      <4>1. Owners(d.dir, b) # {}
        BY DEF b
      <4> QED BY <1>3, <4>1, OwnerIs
    <3>2. PICK e \in Used(dir), x \in 1 .. BlocksPerExtent : d.dir[e].blocks[x] = b
      BY <1>1, <3>1
    <3>3. d.dir[e].blocks[x] # 0
      BY <1>1, <1>4, <3>2
    <3>4. dir[e].blocks[x] = dir[c].blocks[i]
      BY <1>4, <1>6, <3>2, <3>3
    <3>5. e = c /\ x = i
      BY <1>1, <3>4 DEF NoBlockTwice
    <3> QED BY <1>2, <1>9, <3>3, <3>5
  <2> QED BY <1>4, <1>5, <1>9, <2>1, FindNone
<1> QED BY <1>8, <1>9

(* What a write of sector s does to disk d: the sector is in a buffer or   *)
(* what the disk knows of it is on the host.                               *)
Wrote(x, d, dir, c, n, clean, base, k, i, u, s, val) ==
  /\ DiskOK(x) /\ x.dir = d.dir /\ x.map = d.map
  /\ OneChanged(x.host, d.host, n, base + k + 1)
  /\ \A t \in DOMAIN x.buf \ {s} : t \in DOMAIN d.buf /\ x.buf[t] = d.buf[t]
  /\ \A t \in DOMAIN d.buf : t \in DOMAIN x.buf
  /\ s \in DOMAIN x.buf => x.buf[s][(k % RecPerSec) + 1] = val
  /\ s \notin DOMAIN x.buf => x.host[n][base + k + 1] = val
  /\ \A m \in 1 .. RecPerSec :
       /\ s \in DOMAIN x.buf /\ m # (k % RecPerSec) + 1 =>
            /\ s \in DOMAIN d.buf => x.buf[s][m] = d.buf[s][m]
            /\ s \notin DOMAIN d.buf /\ Spot(i, u, m) < clean =>
                 x.buf[s][m] = d.host[n][base + Spot(i, u, m) + 1]
       /\ s \notin DOMAIN x.buf => Spot(i, u, m) < clean

(* rcpmfs_write: the sector goes to the file, to a buffer, or both.        *)
LEMMA WriteSectorIs ==
  ASSUME NEW d, NEW dir, NEW c, NEW n, NEW clean, NEW base, NEW k, NEW i, NEW u, NEW j, NEW s, NEW val,
         WriteReady(d, dir, c, n, clean, base, k, i, u, j, s, val),
         NEW data, data = [ReadSector(d, s) EXCEPT ![(k % RecPerSec) + 1] = val],
         NEW x, x = WriteSector(d, s, data)
  PROVE  Wrote(x, d, dir, c, n, clean, base, k, i, u, s, val)
<1> DEFINE where == PsFind2(d, s)
           off == Spot(i, u, 1)
           at == base + off
           size == AtMost(AtLeast(clean - off, 0), RecPerSec)
           R == ReadSector(d, s)
           h == d.host
<1>1. /\ DiskOK(d) /\ dir \in [EntryNumbers -> DiskEntry] /\ c \in Used(dir)
      /\ i \in 1 .. BlocksPerExtent /\ u \in 0 .. SecPerBlock - 1 /\ j \in 1 .. RecPerSec
      /\ k = Spot(i, u, j) /\ base = dir[c].ext * ExtentSize /\ val \in Int
      /\ clean \in 0 .. ExtentSize /\ n \in DOMAIN h /\ base + clean <= Len(h[n])
  BY DEF WriteReady
<1>2. /\ s \in Nat /\ s \div SecPerBlock \in DataBlocks
      /\ (i - 1) * RecPerBlock < clean => where = [file |-> n, at |-> at, size |-> size]
      /\ ~ ((i - 1) * RecPerBlock < clean) => where = [file |-> NoFile, at |-> 0, size |-> 0]
  BY WriteWhere
<1>3. /\ HostOK(h) /\ d.dir \in [EntryNumbers -> DiskEntry] /\ n \in Names /\ n # NoFile
      /\ d = [dir |-> d.dir, map |-> d.map, buf |-> d.buf, host |-> d.host]
      /\ d.buf \in [DOMAIN d.buf -> SectorData]
  BY <1>1, NoName DEF DiskOK, HostOK
<1>4. base \in Nat /\ clean \in Nat /\ clean <= ExtentSize
  <2>1. dir[c] \in DiskEntry
    BY <1>1 DEF Used
  <2> QED BY <1>1, <2>1, EntryIs, Counts
<1>5. /\ off \in Nat /\ at \in Nat /\ k = off + j - 1 /\ (k % RecPerSec) + 1 = j
      /\ base + k + 1 = at + j
      /\ \A m \in 1 .. RecPerSec :
           /\ Spot(i, u, m) = off + m - 1 /\ Spot(i, u, m) \in Nat
           /\ base + Spot(i, u, m) + 1 = at + m
  <2>1. /\ off \in 0 .. ExtentSize - 1
        /\ \A m \in 1 .. RecPerSec :
             /\ Spot(i, u, m) = off + m - 1 /\ Spot(i, u, m) \in 0 .. ExtentSize - 1
             /\ Spot(i, u, m) % RecPerSec = m - 1
    BY <1>1, SpotRow
  <2> HIDE DEF off
  <2>2. k = off + j - 1 /\ k % RecPerSec = j - 1 /\ off \in Nat /\ j \in Nat
    BY <1>1, <2>1, Counts
  <2>3. at \in Nat /\ (k % RecPerSec) + 1 = j /\ base + k + 1 = at + j
    BY <1>4, <2>2
  <2>4. \A m \in 1 .. RecPerSec :
           /\ Spot(i, u, m) = off + m - 1 /\ Spot(i, u, m) \in Nat
           /\ base + Spot(i, u, m) + 1 = at + m
    <3> TAKE m \in 1 .. RecPerSec
    <3>1. Spot(i, u, m) = off + m - 1 /\ Spot(i, u, m) \in 0 .. ExtentSize - 1
      BY <2>1
    <3>2. m \in Nat
      BY Counts
    <3> QED BY <1>4, <2>2, <3>1, <3>2, Counts
  <2> QED BY <2>2, <2>3, <2>4
<1>6. h[n] \in Seq(Int) /\ Len(h[n]) \in Nat
  BY <1>1, <1>3 DEF HostOK
<1>7. /\ size \in 0 .. RecPerSec /\ (size > 0 => off + size <= clean)
      /\ size = RecPerSec => \A m \in 1 .. RecPerSec : off + m - 1 < clean
      /\ \A m \in 1 .. RecPerSec : off + m - 1 < clean => m <= size
  <2> HIDE DEF off
  <2> QED BY <1>4, <1>5, Counts DEF AtMost, AtLeast
<1> HIDE DEF off, size, where
<1>8. size > 0 => at + size <= Len(h[n])
  <2> DEFINE len == Len(h[n])
  <2>1. len \in Nat /\ base + clean <= len
    BY <1>1, <1>6
  <2>2. size \in Nat /\ off \in Nat /\ base \in Nat /\ clean \in Nat /\ (size > 0 => off + size <= clean)
    BY <1>4, <1>5, <1>7, Counts
  <2> HIDE DEF len
  <2>3. size > 0 => at + size <= len
    BY <2>1, <2>2
  <2> QED BY <2>3 DEF len
<1> DEFINE file == Content(h, where.file)
<1>9. s \notin DOMAIN d.buf =>
        R = [m \in 1 .. RecPerSec |->
               IF where.at + m <= Len(file) THEN file[where.at + m] ELSE E5]
  BY DEF ReadSector, where
<1>10. file \in Seq(Int) /\ where.at \in Nat
  <2>1. NoFile \notin DOMAIN h
    BY <1>3, NoName DEF HostOK
  <2>2. CASE (i - 1) * RecPerBlock < clean
    <3>1. where.file = n /\ where.at = at
      BY <1>2, <2>2
    <3> QED BY <1>1, <1>5, <1>6, <3>1 DEF Content
  <2>3. CASE ~ ((i - 1) * RecPerBlock < clean)
    <3>1. where.file = NoFile /\ where.at = 0
      BY <1>2, <2>3
    <3> QED BY <2>1, <3>1 DEF Content
  <2> QED BY <2>2, <2>3
<1>11. R \in SectorData
  <2>1. CASE s \in DOMAIN d.buf
    BY <1>3, <2>1 DEF ReadSector
  <2>2. CASE s \notin DOMAIN d.buf
    <3> HIDE DEF R, file
    <3>1. \A m \in 1 .. RecPerSec : where.at + m <= Len(file) => file[where.at + m] \in Int
      BY <1>10, Counts
    <3> QED BY <1>9, <2>2, <3>1 DEF SectorData, E5
  <2> QED BY <2>1, <2>2
<1>12. data \in SectorData /\ data[j] = val /\ \A m \in 1 .. RecPerSec : m # j => data[m] = R[m]
  <2>1. data = [R EXCEPT ![j] = val]
    BY <1>5
  <2> HIDE DEF R
  <2> QED BY <1>1, <1>11, <2>1 DEF SectorData
<1>13. ASSUME s \notin DOMAIN d.buf, NEW m \in 1 .. RecPerSec, off + m - 1 < clean
       PROVE  R[m] = h[n][at + m]
  <2>1. m <= size
    BY <1>7, <1>13
  <2>2. (i - 1) * RecPerBlock < clean
    <3>1. (i - 1) * RecPerBlock <= Spot(i, u, m)
      BY <1>1, SpotIs
    <3>2. i - 1 \in Nat
      BY <1>1, Counts
    <3> DEFINE b == i - 1
    <3>3. b * RecPerBlock \in Nat
      <4> HIDE DEF b
      <4> QED BY <3>2, Counts DEF b
    <3> DEFINE a == b * RecPerBlock
    <3>4. Spot(i, u, m) = off + m - 1 /\ Spot(i, u, m) \in Nat
      BY <1>5
    <3> HIDE DEF a
    <3>5. a < clean
      BY <1>4, <1>13, <3>1, <3>3, <3>4 DEF a
    <3> QED BY <3>5 DEF a
  <2>3. where.file = n /\ where.at = at
    BY <1>2, <2>2
  <2>4. file = h[n]
    BY <1>1, <2>3 DEF Content
  <2>5. at + m <= Len(h[n])
    BY <1>5, <1>6, <1>7, <1>8, <2>1
  <2> HIDE DEF R, file
  <2> QED BY <1>9, <1>13, <2>3, <2>4, <2>5
<1>14. OneChanged(h, h, n, at + j)
  BY <1>3 DEF OneChanged
<1> HIDE DEF R, file
<1> DEFINE b2 == Put(d.buf, s, data)
           put == DiskOf(d.dir, d.map, b2, h)
<1>15. ASSUME x.dir = d.dir, x.map = d.map, OneChanged(x.host, h, n, at + j),
              x = [dir |-> x.dir, map |-> x.map, buf |-> x.buf, host |-> x.host],
              \/ x.buf = b2
              \/ x.buf = d.buf /\ s \notin DOMAIN d.buf /\ size = RecPerSec /\ x.host[n][at + j] = val
       PROVE  Wrote(x, d, dir, c, n, clean, base, k, i, u, s, val)
  <2>1. /\ DOMAIN b2 = DOMAIN d.buf \cup {s} /\ b2[s] = data
        /\ \A t \in DOMAIN d.buf \ {s} : b2[t] = d.buf[t]
        /\ b2 \in [DOMAIN b2 -> SectorData]
    BY <1>3, <1>12 DEF Put
  <2> HIDE DEF b2
  <2>2. DiskOK(x)
    <3>1. HostOK(x.host)
      BY <1>15 DEF OneChanged
    <3>2. x.buf \in [DOMAIN x.buf -> SectorData]
      BY <1>3, <1>15, <2>1
    <3>3. \A t \in DOMAIN x.buf : t \in Nat /\ t \div SecPerBlock \in DataBlocks
      BY <1>1, <1>2, <1>15, <2>1 DEF DiskOK
    <3> QED BY <1>1, <1>15, <3>1, <3>2, <3>3 DEF DiskOK
  <2>3. /\ \A t \in DOMAIN x.buf \ {s} : t \in DOMAIN d.buf /\ x.buf[t] = d.buf[t]
        /\ \A t \in DOMAIN d.buf : t \in DOMAIN x.buf
    BY <1>15, <2>1
  <2>4. s \in DOMAIN x.buf => x.buf[s] = data
    BY <1>15, <2>1
  <2>5. s \notin DOMAIN x.buf => x.buf = d.buf
    BY <1>15, <2>1
  <2>11. s \notin DOMAIN x.buf => size = RecPerSec /\ x.host[n][at + j] = val
    <3>1. s \in DOMAIN b2
      BY <2>1
    <3> HIDE DEF at
    <3> QED BY <1>15, <3>1
  <2>6. ASSUME NEW m \in 1 .. RecPerSec, s \in DOMAIN x.buf, m # j
        PROVE  /\ s \in DOMAIN d.buf => x.buf[s][m] = d.buf[s][m]
               /\ s \notin DOMAIN d.buf /\ Spot(i, u, m) < clean =>
                    x.buf[s][m] = d.host[n][base + Spot(i, u, m) + 1]
    <3>1. x.buf[s][m] = R[m]
      BY <1>12, <2>4, <2>6
    <3>2. s \in DOMAIN d.buf => R = d.buf[s]
      BY DEF R, ReadSector
    <3>3. Spot(i, u, m) = off + m - 1 /\ base + Spot(i, u, m) + 1 = at + m
      BY <1>5
    <3> QED BY <1>13, <3>1, <3>2, <3>3
  <2>7. \A m \in 1 .. RecPerSec : s \notin DOMAIN x.buf => Spot(i, u, m) < clean
    <3> TAKE m \in 1 .. RecPerSec
    <3> HAVE s \notin DOMAIN x.buf
    <3>1. Spot(i, u, m) = off + m - 1
      BY <1>5
    <3>2. off + m - 1 < clean
      BY <1>7, <2>11
    <3> QED BY <3>1, <3>2
  <2>8. s \notin DOMAIN x.buf => x.host[n][base + k + 1] = val
    <3>1. base + k + 1 = at + j
      BY <1>5
    <3> HIDE DEF at
    <3> QED BY <2>11, <3>1
  <2>9. s \in DOMAIN x.buf => x.buf[s][(k % RecPerSec) + 1] = val
    BY <1>5, <1>12, <2>4
  <2>10. (k % RecPerSec) + 1 = j /\ base + k + 1 = at + j
    BY <1>5
  <2> HIDE DEF at
  <2> QED BY <1>15, <2>2, <2>3, <2>6, <2>7, <2>8, <2>9, <2>10 DEF Wrote
<1>16. CASE s \in DOMAIN d.buf \/ where.file = NoFile
  <2>1. x = [d EXCEPT !.buf = b2]
    BY <1>16 DEF WriteSector, where
  <2> DEFINE a == d.dir  b == d.map  e == d.buf
  <2>2. d = [dir |-> a, map |-> b, buf |-> e, host |-> h]
    BY <1>3
  <2> HIDE DEF b2, a, b, e, h
  <2>3. x = [dir |-> a, map |-> b, buf |-> b2, host |-> h]
    BY <2>1, <2>2
  <2>4. x.dir = a /\ x.map = b /\ x.buf = b2 /\ x.host = h
    BY <2>3
  <2> QED BY <1>14, <1>15, <2>3, <2>4 DEF a, b, h
<1>17. CASE ~ (s \in DOMAIN d.buf \/ where.file = NoFile)
  <2> DEFINE g == WriteFile(h, n, at, SubSeq(data, 1, size))
             b3 == IF size < RecPerSec THEN b2 ELSE d.buf
  <2>1. where.file = n /\ where.at = at /\ where.size = size
    BY <1>2, <1>17
  <2>2. x = [d EXCEPT !.host = g, !.buf = b3]
    <3>1. x = [d EXCEPT !.host = WriteFile(d.host, where.file, where.at, SubSeq(data, 1, where.size)),
                        !.buf = IF where.size < RecPerSec THEN Put(d.buf, s, data) ELSE @]
      BY <1>17 DEF WriteSector, where
    <3>2. WriteFile(d.host, where.file, where.at, SubSeq(data, 1, where.size)) = g
      BY <2>1
    <3>3. (IF where.size < RecPerSec THEN Put(d.buf, s, data) ELSE d.buf) = b3
      BY <2>1
    <3> HIDE DEF g, b3
    <3> QED BY <3>1, <3>2, <3>3
  <2>3. OneChanged(g, h, n, at + j) /\ (j <= size => g[n][at + j] = val)
    <3>1. CASE size > 0
      <4>1. at + size <= Len(h[n])
        BY <1>8, <3>1
      <4>2. \A m \in 1 .. size : m # j => data[m] = h[n][at + m]
        <5> TAKE m \in 1 .. size
        <5> HAVE m # j
        <5>1. m \in 1 .. RecPerSec /\ off + m - 1 < clean
          <6>1. off \in Nat /\ clean \in Nat /\ size \in 0 .. RecPerSec /\ off + size <= clean
            BY <1>4, <1>5, <1>7, <3>1
          <6> QED BY <6>1, Counts
        <5>2. R[m] = h[n][at + m]
          BY <1>13, <1>17, <5>1
        <5> QED BY <1>12, <5>1, <5>2
      <4>3. size \in 0 .. RecPerSec /\ at \in Nat /\ HostOK(h) /\ n \in DOMAIN h
        BY <1>1, <1>3, <1>5, <1>7
      <4> HIDE DEF g, at
      <4>4. g = WriteFile(h, n, at, SubSeq(data, 1, size))
        BY DEF g
      <4>5. /\ OneChanged(g, h, n, at + j)
            /\ j <= size => g[n][at + j] = data[j]
        <5>1. j \in 1 .. RecPerSec /\ data \in SectorData
          BY <1>1, <1>12
        <5> HIDE DEF h
        <5>2. PutReady(g, h, n, at, size, data, j)
          BY <4>1, <4>2, <4>3, <4>4, <5>1 DEF PutReady
        <5>3. PutDone(g, h, n, at, size, data, j)
          BY <5>2, PutSector
        <5> QED BY <5>3 DEF PutDone
      <4> QED BY <1>12, <4>5
    <3>2. CASE ~ (size > 0)
      <4> DEFINE recs == SubSeq(data, 1, size)
      <4>1. size = 0 /\ recs \in Seq(Int) /\ Len(recs) = 0 /\ recs = <<>>
        BY <1>7, <1>12, <3>2, Counts DEF SectorData
      <4>2. Overwritten(g, h, n, at, recs)
        <5> HIDE DEF recs
        <5>1. g = WriteFile(h, n, at, recs)
          BY DEF recs
        <5> QED BY <1>1, <1>3, <1>5, <4>1, <5>1, WriteFileIs
      <4>3. Len(g[n]) = Len(h[n])
        BY <4>1, <4>2 DEF Overwritten
      <4>4. \A q \in 1 .. Len(h[n]) : g[n][q] = h[n][q]
        <5> TAKE q \in 1 .. Len(h[n])
        <5>1. g[n][q] = IF at < q /\ q <= at + Len(recs) THEN recs[q - at]
                        ELSE IF q <= Len(h[n]) THEN h[n][q] ELSE E5
          BY <4>2, <4>3 DEF Overwritten
        <5>2. ~ (at < q /\ q <= at + Len(recs)) /\ q <= Len(h[n])
          <6> HIDE DEF at, recs
          <6> QED BY <1>5, <1>6, <4>1
        <5> QED BY <5>1, <5>2
      <4>5. ~ (j <= size)
        BY <1>1, <4>1
      <4> HIDE DEF g, at, recs
      <4> QED BY <4>2, <4>3, <4>4, <4>5 DEF Overwritten, OneChanged
    <3> QED BY <3>1, <3>2
  <2>4. x.dir = d.dir /\ x.map = d.map /\ x.buf = b3 /\ x.host = g
        /\ x = [dir |-> x.dir, map |-> x.map, buf |-> x.buf, host |-> x.host]
    <3> DEFINE a == d.dir  b == d.map  e == d.buf
    <3>1. d = [dir |-> a, map |-> b, buf |-> e, host |-> h]
      BY <1>3
    <3> HIDE DEF b2, b3, a, b, e, h, g
    <3>2. x = [dir |-> a, map |-> b, buf |-> b3, host |-> g]
      BY <2>2, <3>1
    <3>3. x.dir = a /\ x.map = b /\ x.buf = b3 /\ x.host = g
      BY <3>2
    <3> QED BY <3>2, <3>3 DEF a, b
  <2> HIDE DEF g
  <2>5. \/ x.buf = b2
        \/ x.buf = d.buf /\ s \notin DOMAIN d.buf /\ size = RecPerSec /\ x.host[n][at + j] = val
    <3>1. CASE size < RecPerSec
      BY <2>4, <3>1
    <3>2. CASE ~ (size < RecPerSec)
      <4>1. size = RecPerSec /\ j <= size
        BY <1>1, <1>7, <3>2, Counts
      <4> QED BY <1>17, <2>3, <2>4, <3>2, <4>1
    <3> QED BY <3>1, <3>2
  <2>6. OneChanged(x.host, h, n, at + j)
    BY <2>3, <2>4
  <2> HIDE DEF b3, b2, at
  <2> QED BY <1>15, <2>4, <2>5, <2>6
<1> QED BY <1>16, <1>17

(* What a write of record k leaves of the file in hand: r records of the   *)
(* entry, k the last of them if it is new.                                 *)
Growth(k, r) ==
  /\ k \in 0 .. ExtentSize - 1 /\ r \in 0 .. ExtentSize /\ k < r
  /\ \/ r = fcb.recs
     \/ IsLast /\ k = fcb.recs /\ r = fcb.recs + 1

GrownDir(dir, r) ==
  /\ dir \in [EntryNumbers -> DiskEntry]
  /\ \A e \in EntryNumbers : e # fcb.entry => dir[e] = CpmDir[e]
  /\ dir[fcb.entry].name = fcb.name /\ dir[fcb.entry].ext = fcb.ext
  /\ ExtentRecords(dir[fcb.entry]) = r
  /\ \A i \in 1 .. BlocksPerExtent :
       /\ (i - 1) * RecPerBlock < fcb.recs => dir[fcb.entry].blocks[i] = CpmDir[fcb.entry].blocks[i]
       /\ (i - 1) * RecPerBlock < r <=> dir[fcb.entry].blocks[i] # 0
  /\ NoBlockTwice(dir)

GrownFiles(f, n, base, k, val, r) ==
  /\ HostOK(f) /\ DOMAIN f = DOMAIN files
  /\ \A m \in DOMAIN files \ {n} : f[m] = files[m]
  /\ Len(f[n]) = IF r = fcb.recs THEN Len(files[n]) ELSE base + r
  /\ f[n][base + k + 1] = val
  /\ \A p \in 1 .. Len(files[n]) : p # base + k + 1 => f[n][p] = files[n][p]

Growing(x, dir, f, c, n, base, k, i, u, j, s, val, r) ==
  /\ fcb # NoFcb /\ c = fcb.entry /\ n = fcb.name /\ base = fcb.ext * ExtentSize
  /\ Growth(k, r) /\ GrownDir(dir, r) /\ GrownFiles(f, n, base, k, val, r)
  /\ i \in 1 .. BlocksPerExtent /\ u \in 0 .. SecPerBlock - 1 /\ j \in 1 .. RecPerSec
  /\ k = Spot(i, u, j) /\ s = SectorOf(dir[c], k) /\ val \in Nat
  /\ Wrote(x, disk, dir, c, n, fcb.clean, base, k, i, u, s, val)

(* The directory has the same extents of the same files.                   *)
LEMMA GrownSame ==
  ASSUME FilesInv, NEW x, NEW dir, NEW f, NEW c, NEW n, NEW base, NEW k, NEW i, NEW u, NEW j,
         NEW s, NEW val, NEW r, Growing(x, dir, f, c, n, base, k, i, u, j, s, val, r)
  PROVE  /\ Used(dir) = Used(CpmDir) /\ Used(disk.dir) = Used(CpmDir)
         /\ c \in Used(dir) /\ c \in EntryNumbers
         /\ \A e \in EntryNumbers : dir[e].ext = CpmDir[e].ext /\ dir[e].name = CpmDir[e].name
         /\ \A e \in EntryNumbers : e # c => dir[e] = CpmDir[e]
         /\ NoExtentTwice(dir, disk.map) /\ FirstThere(dir, disk.map, {})
         /\ disk.map[c] = n /\ n \in DOMAIN files \ misread /\ n \in Names
         /\ s \in Nat /\ s \div SecPerBlock = dir[c].blocks[i] /\ s % SecPerBlock = u
         /\ dir[c].blocks[i] # 0
         /\ fcb.recs \in Nat /\ base \in Nat /\ k \in Nat
<1>1. /\ fcb # NoFcb /\ c = fcb.entry /\ n = fcb.name /\ base = fcb.ext * ExtentSize
      /\ Growth(k, r) /\ GrownDir(dir, r)
      /\ i \in 1 .. BlocksPerExtent /\ u \in 0 .. SecPerBlock - 1 /\ j \in 1 .. RecPerSec
      /\ k = Spot(i, u, j) /\ s = SectorOf(dir[c], k)
  BY DEF Growing
<1>2. /\ c \in Used(CpmDir) /\ Used(disk.dir) = Used(CpmDir) /\ CpmDir[c] = FcbEntry
      /\ FcbEntry.name = fcb.name /\ FcbEntry.ext = fcb.ext /\ FcbEntry.blocks = fcb.blocks
  BY <1>1, CpmIs
<1>3. c \in EntryNumbers
  BY <1>2 DEF Used
<1>4. /\ \A e \in EntryNumbers : dir[e].ext = CpmDir[e].ext /\ dir[e].name = CpmDir[e].name
      /\ \A e \in EntryNumbers : e # c => dir[e] = CpmDir[e]
  BY <1>1, <1>2 DEF GrownDir
<1>5. Used(dir) = Used(CpmDir)
  BY <1>4 DEF Used, InUse
<1>6. NoExtentTwice(CpmDir, disk.map) /\ FirstThere(CpmDir, disk.map, {})
  BY <1>1, FcbIs DEF FilesInv, StructInv, Structure
<1>7. NoExtentTwice(dir, disk.map)
  <2>1. \A e \in Used(CpmDir) : dir[e].ext = CpmDir[e].ext
    BY <1>4 DEF Used
  <2> QED BY <1>5, <1>6, <2>1 DEF NoExtentTwice
<1>8. FirstThere(dir, disk.map, {})
  <2>1. \A e \in Used(CpmDir) : dir[e].ext = CpmDir[e].ext
    BY <1>4 DEF Used
  <2> QED BY <1>5, <1>6, <2>1 DEF FirstThere
<1>9. disk.map[c] = n /\ n \in DOMAIN files \ misread /\ n \in Names /\ fcb.recs \in Nat /\ base \in Nat
  <2>1. fcb.recs \in 0 .. ExtentSize
    BY <1>1, FcbIs
  <2> QED BY <1>1, <2>1, FcbIs, Counts
<1>10. dir[c] \in DiskEntry
  BY <1>1, <1>3 DEF GrownDir
<1>11. s \in Nat /\ s \div SecPerBlock = dir[c].blocks[i] /\ s % SecPerBlock = u
  BY <1>1, <1>10, SectorOfSpot
<1>12. (i - 1) * RecPerBlock <= k /\ k \in Nat
  BY <1>1, SpotIs, Counts
<1>13. (i - 1) * RecPerBlock < r
  <2> DEFINE b == i - 1
  <2>1. b \in Nat
    BY <1>1, Counts
  <2> DEFINE q == b * RecPerBlock
  <2>2. q \in Nat
    <3> HIDE DEF b
    <3> QED BY <2>1, Counts
  <2>3. k < r /\ r \in Nat
    BY <1>1, Counts DEF Growth
  <2>4. q <= k
    BY <1>12
  <2> HIDE DEF q
  <2>5. q < r
    BY <1>12, <2>2, <2>3, <2>4
  <2> QED BY <2>5 DEF q
<1>14. dir[c].blocks[i] # 0
  BY <1>1, <1>13 DEF GrownDir
<1> QED BY <1>2, <1>3, <1>4, <1>5, <1>7, <1>8, <1>9, <1>11, <1>12, <1>14

(* A record that can be read after the write is the one that was written   *)
(* or one that could be read before, at the same place.                    *)
OldRecord(dir, f, n, base, k, e, q) ==
  /\ <<e, q>> \in Records(CpmDisk, files, misread)
  /\ SectorOf(dir[e], q) = SectorOf(CpmDir[e], q)
  /\ Cell(CpmDir[e], q) \in 1 .. Len(files[disk.map[e]])
  /\ disk.map[e] = n => Cell(CpmDir[e], q) # base + k + 1
  /\ f[disk.map[e]][Cell(CpmDir[e], q)] = files[disk.map[e]][Cell(CpmDir[e], q)]
  /\ q < ExtentRecords(disk.dir[e]) => Cell(CpmDir[e], q) \in 1 .. Len(disk.host[disk.map[e]])

(* The records of the new directory are the old ones and the new one.      *)
LEMMA GrownRecord ==
  ASSUME FilesInv, NEW x, NEW dir, NEW f, NEW c, NEW n, NEW base, NEW k, NEW i, NEW u, NEW j,
         NEW s, NEW val, NEW r, Growing(x, dir, f, c, n, base, k, i, u, j, s, val, r),
         NEW e \in Used(dir), NEW q \in 0 .. ExtentSize - 1, q < ExtentRecords(dir[e]),
         disk.map[e] \in DOMAIN files \ misread
  PROVE  /\ Cell(dir[e], q) = Cell(CpmDir[e], q)
         /\ (e = c /\ q = k) \/ OldRecord(dir, f, n, base, k, e, q)
         /\ SectorOf(dir[e], q) = s => e = c /\ \E m \in 1 .. RecPerSec : q = Spot(i, u, m)
<1>1. /\ fcb # NoFcb /\ c = fcb.entry /\ n = fcb.name /\ base = fcb.ext * ExtentSize
      /\ Growth(k, r) /\ GrownDir(dir, r) /\ GrownFiles(f, n, base, k, val, r)
      /\ i \in 1 .. BlocksPerExtent /\ u \in 0 .. SecPerBlock - 1
  BY DEF Growing
<1>2. /\ Used(dir) = Used(CpmDir) /\ c \in Used(dir) /\ e \in EntryNumbers
      /\ dir[e].ext = CpmDir[e].ext
      /\ e # c => dir[e] = CpmDir[e]
      /\ disk.map[c] = n /\ NoExtentTwice(dir, disk.map)
  BY GrownSame DEF Used
<1>3. s \in Nat /\ s \div SecPerBlock = dir[c].blocks[i] /\ s % SecPerBlock = u /\ dir[c].blocks[i] # 0
      /\ fcb.recs \in Nat /\ base \in Nat /\ k \in Nat
  BY GrownSame
<1>4. Cell(dir[e], q) = Cell(CpmDir[e], q)
  BY <1>2 DEF Cell
<1>5. ASSUME SectorOf(dir[e], q) = s PROVE e = c /\ \E m \in 1 .. RecPerSec : q = Spot(i, u, m)
  <2>1. dir \in [EntryNumbers -> DiskEntry] /\ NoBlockTwice(dir)
    BY <1>1 DEF GrownDir
  <2> QED BY <1>1, <1>2, <1>3, <1>5, <2>1, SectorOwner
<1>6. ASSUME ~ (e = c /\ q = k) PROVE OldRecord(dir, f, n, base, k, e, q)
  <2>1. q \in Nat
    BY Counts
  <2>2. e = c => q < fcb.recs
    <3> SUFFICES ASSUME e = c PROVE q < fcb.recs
      OBVIOUS
    <3>1. q < r /\ r \in Nat /\ q # k
      BY <1>1, <1>6, Counts DEF Growth, GrownDir
    <3>2. r = fcb.recs \/ (k = fcb.recs /\ r = fcb.recs + 1)
      BY <1>1 DEF Growth
    <3> QED BY <1>3, <2>1, <3>1, <3>2
  <2>3. q < ExtentRecords(CpmDir[e])
    <3>1. CpmDir[c] = FcbEntry /\ ExtentRecords(FcbEntry) = fcb.recs
      BY <1>1, CpmIs
    <3> QED BY <1>2, <2>2, <3>1
  <2>4. /\ Present = files /\ Wrong = misread
        /\ CpmDisk.dir = CpmDir /\ CpmDisk.map = disk.map
    BY <1>1, FcbIs, CpmIs
  <2>5. <<e, q>> \in Records(CpmDisk, files, misread)
    BY <1>2, <2>3, <2>4 DEF Records
  <2>6. SectorOf(dir[e], q) = SectorOf(CpmDir[e], q)
    <3>1. CASE e # c
      BY <1>2, <3>1
    <3>2. CASE e = c
      <4> DEFINE y == q \div RecPerBlock + 1
                 b == y - 1
      <4>1. y \in 1 .. BlocksPerExtent /\ b * RecPerBlock <= q /\ b \in Nat
        <5>1. (q \div RecPerBlock + 1) - 1 = q \div RecPerBlock
          BY BlockOf
        <5> QED BY <5>1, BlockOf
      <4>2. b * RecPerBlock < fcb.recs
        <5> HIDE DEF b
        <5>1. b * RecPerBlock \in Nat
          BY <4>1, Counts
        <5> QED BY <1>3, <2>1, <2>2, <3>2, <4>1, <5>1
      <4>3. dir[c].blocks[y] = CpmDir[c].blocks[y]
        <5> HIDE DEF y
        <5> QED BY <1>1, <4>1, <4>2 DEF GrownDir, b
      <4> QED BY <3>2, <4>3 DEF SectorOf
    <3> QED BY <3>1, <3>2
  <2>7. /\ Cell(CpmDir[e], q) \in 1 .. Len(files[disk.map[e]])
        /\ q < ExtentRecords(disk.dir[e]) => Cell(CpmDir[e], q) <= Len(disk.host[disk.map[e]])
    BY <1>2, <2>3, <2>4, RecordThere
  <2>8. CpmDir[e] \in DiskEntry /\ CpmDir[e].ext \in Nat
    BY <1>2, CpmIs, EntryIs
  <2>9. ASSUME disk.map[e] = n PROVE Cell(CpmDir[e], q) # base + k + 1
    <3> SUFFICES ASSUME Cell(CpmDir[e], q) = base + k + 1 PROVE FALSE
      OBVIOUS
    <3> DEFINE y == CpmDir[e].ext
               v == y * ExtentSize
    <3>1. v + q + 1 = base + k + 1
      BY DEF Cell
    <3>2. v \in Nat
      BY <2>8, EntryIs
    <3> HIDE DEF v
    <3>3. v + q = base + k
      BY <1>3, <2>1, <3>1, <3>2
    <3>4. k \in 0 .. ExtentSize - 1 /\ fcb.ext \in Nat
      BY <1>1, FcbIs DEF Growth
    <3>5. y = fcb.ext
      <4> DEFINE a == ExtentSize
                 t == fcb.ext
      <4>1. a \in Nat \ {0} /\ y \in Nat /\ t \in Nat /\ q \in 0 .. a - 1 /\ k \in 0 .. a - 1
        BY <2>8, <3>4, Counts
      <4>2. v = a * y /\ base = a * t
        BY <1>1, <4>1 DEF v
      <4> HIDE DEF a, t, y
      <4>3. (a * y + q) \div a = y /\ (a * t + k) \div a = t
        BY <4>1, OnlyParts
      <4>4. a * y + q = a * t + k
        BY <3>3, <4>2
      <4> QED BY <4>3, <4>4 DEF t
    <3>6. e = c
      <4>1. CpmDir[c].ext = fcb.ext
        BY <1>1, CpmIs
      <4>2. dir[c].ext = CpmDir[c].ext
        BY GrownSame
      <4> QED BY <1>2, <2>9, <3>5, <4>1, <4>2 DEF NoExtentTwice
    <3>7. v = base
      BY <1>1, <3>5 DEF v
    <3> QED BY <1>3, <1>6, <2>1, <3>3, <3>6, <3>7
  <2>10. f[disk.map[e]][Cell(CpmDir[e], q)] = files[disk.map[e]][Cell(CpmDir[e], q)]
    <3>1. CASE disk.map[e] = n
      BY <1>1, <2>7, <2>9, <3>1 DEF GrownFiles
    <3>2. CASE disk.map[e] # n
      BY <1>1, <3>2 DEF GrownFiles
    <3> QED BY <3>1, <3>2
  <2>11. q < ExtentRecords(disk.dir[e]) => Cell(CpmDir[e], q) \in 1 .. Len(disk.host[disk.map[e]])
    <3> SUFFICES ASSUME q < ExtentRecords(disk.dir[e])
                 PROVE  Cell(CpmDir[e], q) \in 1 .. Len(disk.host[disk.map[e]])
      OBVIOUS
    <3> DEFINE p == Cell(CpmDir[e], q)
               l == Len(disk.host[disk.map[e]])
               z == Len(files[disk.map[e]])
    <3>1. p \in 1 .. z /\ p <= l
      BY <2>7
    <3>2. l \in Nat /\ z \in Nat
      <4>1. DOMAIN disk.host = DOMAIN files /\ HostOK(disk.host) /\ HostOK(files)
        BY <1>1, FcbIs DEF FilesInv, HostInv, DiskTypes, DiskOK
      <4> QED BY <4>1 DEF HostOK
    <3> HIDE DEF p, l, z
    <3>3. p \in 1 .. l
      BY <3>1, <3>2
    <3> QED BY <3>3 DEF p, l
  <2> QED BY <2>5, <2>6, <2>7, <2>9, <2>10, <2>11 DEF OldRecord
<1> QED BY <1>4, <1>5, <1>6

(* What a record of the disk after the write is, by its entry and number.  *)
LEMMA GrownBuffered ==
  ASSUME FilesInv, NEW x, NEW dir, NEW f, NEW c, NEW n, NEW base, NEW k, NEW i, NEW u, NEW j,
         NEW s, NEW val, NEW r, Growing(x, dir, f, c, n, base, k, i, u, j, s, val, r),
         NEW z, z = DiskOf(dir, x.map, x.buf, x.host)
  PROVE  BufferedRight(z, f, misread)
<1>1. /\ fcb # NoFcb /\ c = fcb.entry /\ n = fcb.name /\ GrownFiles(f, n, base, k, val, r)
      /\ i \in 1 .. BlocksPerExtent /\ u \in 0 .. SecPerBlock - 1 /\ j \in 1 .. RecPerSec
      /\ k = Spot(i, u, j) /\ s = SectorOf(dir[c], k) /\ base = fcb.ext * ExtentSize
      /\ Wrote(x, disk, dir, c, n, fcb.clean, base, k, i, u, s, val)
  BY DEF Growing
<1>2. x.map = disk.map /\ x.dir = disk.dir
  BY <1>1 DEF Wrote
<1>3. z.dir = dir /\ z.map = disk.map /\ z.buf = x.buf /\ z.host = x.host
  BY <1>2, DiskOfIs
<1>4. BufferedRight(CpmDisk, files, misread) /\ OthersRight(CpmDisk, disk.dir, files, misread)
  BY <1>1, FcbIs DEF FilesInv, ContentInv
<1>5. CpmDisk.dir = CpmDir /\ CpmDisk.map = disk.map /\ CpmDisk.buf = disk.buf /\ CpmDisk.host = disk.host
  BY CpmIs
<1>6. SUFFICES ASSUME NEW ek \in Records(z, f, misread), SectorOf(dir[ek[1]], ek[2]) \in DOMAIN x.buf
               PROVE  x.buf[SectorOf(dir[ek[1]], ek[2])][(ek[2] % RecPerSec) + 1]
                      = f[disk.map[ek[1]]][Cell(dir[ek[1]], ek[2])]
  BY <1>3 DEF BufferedRight
<1> DEFINE e == ek[1]
           q == ek[2]
           t == SectorOf(dir[e], q)
           p == Cell(CpmDir[e], q)
<1>7. /\ e \in Used(dir) /\ q \in 0 .. ExtentSize - 1 /\ disk.map[e] \in DOMAIN files \ misread
      /\ q < ExtentRecords(dir[e])
  BY <1>1, <1>3 DEF Records, GrownFiles
<1>8. /\ Cell(dir[e], q) = p
      /\ (e = c /\ q = k) \/ OldRecord(dir, f, n, base, k, e, q)
      /\ t = s => e = c /\ \E m \in 1 .. RecPerSec : q = Spot(i, u, m)
  <2> HIDE DEF e, q
  <2> QED BY <1>7, GrownRecord
<1> HIDE DEF e, q
<1>9. CASE e = c /\ q = k
  <2>1. t = s /\ p = base + k + 1 /\ disk.map[e] = n
    <3>1. disk.map[c] = n /\ CpmDir[c].ext = fcb.ext
      BY <1>1, GrownSame, CpmIs
    <3> QED BY <1>1, <1>9, <3>1 DEF Cell
  <2>2. x.buf[s][(k % RecPerSec) + 1] = val
    BY <1>1, <1>6, <2>1 DEF Wrote, e, q
  <2>3. f[n][base + k + 1] = val
    BY <1>1 DEF GrownFiles
  <2>4. x.buf[t][(q % RecPerSec) + 1] = val /\ f[disk.map[e]][p] = val
    BY <1>9, <2>1, <2>2, <2>3
  <2> QED BY <1>8, <2>4 DEF e, q
<1>10. CASE ~ (e = c /\ q = k)
  <2>1. /\ <<e, q>> \in Records(CpmDisk, files, misread)
        /\ t = SectorOf(CpmDir[e], q)
        /\ f[disk.map[e]][p] = files[disk.map[e]][p]
    BY <1>8, <1>10 DEF OldRecord
  <2>2. t \in DOMAIN disk.buf => disk.buf[t][(q % RecPerSec) + 1] = files[disk.map[e]][p]
    BY <1>4, <1>5, <2>1 DEF BufferedRight
  <2>3. t \notin DOMAIN disk.buf =>
          q < ExtentRecords(disk.dir[e]) /\ disk.host[disk.map[e]][p] = files[disk.map[e]][p]
    BY <1>4, <1>5, <2>1 DEF OthersRight
  <2>4. t \in DOMAIN x.buf
    BY <1>6 DEF e, q
  <2>5. CASE t # s
    <3>1. t \in DOMAIN disk.buf /\ x.buf[t] = disk.buf[t]
      BY <1>1, <2>4, <2>5 DEF Wrote
    <3>2. x.buf[t][(q % RecPerSec) + 1] = f[disk.map[e]][p]
      BY <2>1, <2>2, <3>1
    <3> QED BY <1>8, <3>2 DEF e, q
  <2>6. CASE t = s
    <3>1. PICK m \in 1 .. RecPerSec : q = Spot(i, u, m)
      BY <1>8, <2>6
    <3>2. e = c /\ disk.map[e] = n
      BY <1>8, <2>6, GrownSame
    <3>3. q % RecPerSec = m - 1 /\ k % RecPerSec = j - 1
      BY <1>1, <3>1, SpotIs
    <3>4. m \in Nat /\ j \in Nat /\ m # j
      BY <1>1, <1>10, <3>1, <3>2, Counts
    <3>5. (q % RecPerSec) + 1 = m /\ m # (k % RecPerSec) + 1
      BY <3>3, <3>4
    <3>6. p = base + Spot(i, u, m) + 1
      <4>1. CpmDir[c].ext = fcb.ext
        BY <1>1, CpmIs
      <4> QED BY <1>1, <3>1, <3>2, <4>1 DEF Cell
    <3>7. /\ s \in DOMAIN disk.buf => x.buf[s][m] = disk.buf[s][m]
          /\ s \notin DOMAIN disk.buf /\ Spot(i, u, m) < fcb.clean =>
                 x.buf[s][m] = disk.host[n][base + Spot(i, u, m) + 1]
      BY <1>1, <2>4, <2>6, <3>1, <3>5 DEF Wrote
    <3>8. ExtentRecords(disk.dir[c]) = fcb.clean
      BY <1>1, FcbDir
    <3>9. x.buf[s][m] = f[n][p]
      <4>1. CASE s \in DOMAIN disk.buf
        <5>1. disk.buf[s][m] = files[n][p] /\ f[n][p] = files[n][p]
          BY <2>1, <2>2, <2>6, <3>2, <3>5, <4>1
        <5> QED BY <3>7, <4>1, <5>1
      <4>2. CASE s \notin DOMAIN disk.buf
        <5>1. Spot(i, u, m) < fcb.clean /\ disk.host[n][p] = files[n][p] /\ f[n][p] = files[n][p]
          BY <2>1, <2>3, <2>6, <3>1, <3>2, <3>8, <4>2
        <5> QED BY <3>6, <3>7, <4>2, <5>1
      <4> QED BY <4>1, <4>2
    <3>10. x.buf[t][(q % RecPerSec) + 1] = f[disk.map[e]][p]
      BY <2>6, <3>2, <3>5, <3>9
    <3> QED BY <1>8, <3>10 DEF e, q
  <2> QED BY <2>5, <2>6
<1> QED BY <1>9, <1>10

(* What is not buffered is on the host.                                    *)
LEMMA GrownOthers ==
  ASSUME FilesInv, NEW x, NEW dir, NEW f, NEW c, NEW n, NEW base, NEW k, NEW i, NEW u, NEW j,
         NEW s, NEW val, NEW r, Growing(x, dir, f, c, n, base, k, i, u, j, s, val, r),
         NEW z, z = DiskOf(dir, x.map, x.buf, x.host)
  PROVE  OthersRight(z, x.dir, f, misread)
<1>1. /\ fcb # NoFcb /\ c = fcb.entry /\ n = fcb.name /\ GrownFiles(f, n, base, k, val, r)
      /\ i \in 1 .. BlocksPerExtent /\ u \in 0 .. SecPerBlock - 1 /\ j \in 1 .. RecPerSec
      /\ k = Spot(i, u, j) /\ s = SectorOf(dir[c], k) /\ base = fcb.ext * ExtentSize
      /\ Wrote(x, disk, dir, c, n, fcb.clean, base, k, i, u, s, val)
  BY DEF Growing
<1>2. x.map = disk.map /\ x.dir = disk.dir
  BY <1>1 DEF Wrote
<1>3. z.dir = dir /\ z.map = disk.map /\ z.buf = x.buf /\ z.host = x.host
  BY <1>2, DiskOfIs
<1>4. OthersRight(CpmDisk, disk.dir, files, misread)
  BY <1>1, FcbIs DEF FilesInv, ContentInv
<1>5. CpmDisk.dir = CpmDir /\ CpmDisk.map = disk.map /\ CpmDisk.buf = disk.buf /\ CpmDisk.host = disk.host
  BY CpmIs
<1>6. SUFFICES ASSUME NEW ek \in Records(z, f, misread), SectorOf(dir[ek[1]], ek[2]) \notin DOMAIN x.buf
               PROVE  /\ ek[2] < ExtentRecords(disk.dir[ek[1]])
                      /\ x.host[disk.map[ek[1]]][Cell(dir[ek[1]], ek[2])]
                         = f[disk.map[ek[1]]][Cell(dir[ek[1]], ek[2])]
  BY <1>2, <1>3 DEF OthersRight
<1> DEFINE e == ek[1]
           q == ek[2]
           t == SectorOf(dir[e], q)
           p == Cell(CpmDir[e], q)
<1>7. /\ e \in Used(dir) /\ q \in 0 .. ExtentSize - 1 /\ disk.map[e] \in DOMAIN files \ misread
      /\ q < ExtentRecords(dir[e])
  BY <1>1, <1>3 DEF Records, GrownFiles
<1>8. /\ Cell(dir[e], q) = p
      /\ (e = c /\ q = k) \/ OldRecord(dir, f, n, base, k, e, q)
      /\ t = s => e = c /\ \E m \in 1 .. RecPerSec : q = Spot(i, u, m)
  <2> HIDE DEF e, q
  <2> QED BY <1>7, GrownRecord
<1> HIDE DEF e, q
<1>9. t \notin DOMAIN x.buf
  BY <1>6 DEF e, q
<1>10. ExtentRecords(disk.dir[c]) = fcb.clean
  BY <1>1, FcbDir
<1>11. CASE e = c /\ q = k
  <2>1. t = s /\ p = base + k + 1 /\ disk.map[e] = n
    <3>1. disk.map[c] = n /\ CpmDir[c].ext = fcb.ext
      BY <1>1, GrownSame, CpmIs
    <3> QED BY <1>1, <1>11, <3>1 DEF Cell
  <2>2. x.host[n][base + k + 1] = val /\ Spot(i, u, j) < fcb.clean
    BY <1>1, <1>9, <2>1 DEF Wrote
  <2>3. f[n][base + k + 1] = val
    BY <1>1 DEF GrownFiles
  <2>4. x.host[disk.map[e]][p] = f[disk.map[e]][p] /\ q < ExtentRecords(disk.dir[e])
    BY <1>1, <1>10, <1>11, <2>1, <2>2, <2>3
  <2> QED BY <1>8, <2>4 DEF e, q
<1>12. CASE ~ (e = c /\ q = k)
  <2>1. /\ <<e, q>> \in Records(CpmDisk, files, misread)
        /\ t = SectorOf(CpmDir[e], q)
        /\ disk.map[e] = n => p # base + k + 1
        /\ f[disk.map[e]][p] = files[disk.map[e]][p]
        /\ q < ExtentRecords(disk.dir[e]) => p \in 1 .. Len(disk.host[disk.map[e]])
    BY <1>8, <1>12 DEF OldRecord
  <2>2. t \notin DOMAIN disk.buf
    BY <1>1, <1>9 DEF Wrote
  <2>3. q < ExtentRecords(disk.dir[e]) /\ disk.host[disk.map[e]][p] = files[disk.map[e]][p]
    BY <1>4, <1>5, <2>1, <2>2 DEF OthersRight
  <2>4. x.host[disk.map[e]][p] = disk.host[disk.map[e]][p]
    <3>1. OneChanged(x.host, disk.host, n, base + k + 1)
      BY <1>1 DEF Wrote
    <3>2. disk.map[e] \in DOMAIN disk.host
      BY <1>1, <1>7, FcbIs DEF FilesInv, HostInv
    <3>3. CASE disk.map[e] = n
      BY <2>1, <2>3, <3>1, <3>3 DEF OneChanged
    <3>4. CASE disk.map[e] # n
      BY <3>1, <3>2, <3>4 DEF OneChanged
    <3> QED BY <3>3, <3>4
  <2>5. x.host[disk.map[e]][p] = f[disk.map[e]][p]
    BY <2>1, <2>3, <2>4
  <2> QED BY <1>8, <2>3, <2>5 DEF e, q
<1> QED BY <1>11, <1>12

(* Nothing is buffered of other files.                                     *)
LEMMA GrownUnbuffered ==
  ASSUME FilesInv, NEW x, NEW dir, NEW f, NEW c, NEW n, NEW base, NEW k, NEW i, NEW u, NEW j,
         NEW s, NEW val, NEW r, Growing(x, dir, f, c, n, base, k, i, u, j, s, val, r),
         NEW z, z = DiskOf(dir, x.map, x.buf, x.host)
  PROVE  Unbuffered(z, misread, {})
<1>1. /\ fcb # NoFcb /\ NoBlockTwice(dir) /\ i \in 1 .. BlocksPerExtent
      /\ Wrote(x, disk, dir, c, n, fcb.clean, base, k, i, u, s, val)
  BY DEF Growing, GrownDir
<1>2. x.map = disk.map /\ x.dir = disk.dir
  BY <1>1 DEF Wrote
<1>3. z.dir = dir /\ z.map = disk.map /\ z.buf = x.buf /\ z.host = x.host
  BY <1>2, DiskOfIs
<1>4. Unbuffered(CpmDisk, misread, {})
  BY <1>1, FcbIs DEF FilesInv, ContentInv
<1>5. CpmDisk.dir = CpmDir /\ CpmDisk.map = disk.map /\ CpmDisk.buf = disk.buf
  BY CpmIs
<1>6. /\ Used(dir) = Used(CpmDir) /\ c \in Used(dir) /\ disk.map[c] = n /\ n \notin misread
      /\ \A e \in Used(dir) : e # c => dir[e] = CpmDir[e]
      /\ s \div SecPerBlock = dir[c].blocks[i] /\ dir[c].blocks[i] # 0
  BY GrownSame DEF Used
<1> SUFFICES ASSUME NEW e \in Used(dir), disk.map[e] \in misread, Buffers(z, e)
             PROVE  FALSE
  BY <1>3 DEF Unbuffered
<1>7. PICK t \in DOMAIN x.buf, y \in 1 .. BlocksPerExtent : dir[e].blocks[y] = t \div SecPerBlock
  BY <1>3 DEF Buffers
<1>8. e # c /\ dir[e] = CpmDir[e]
  BY <1>6
<1>9. CASE t = s
  BY <1>1, <1>6, <1>7, <1>8, <1>9 DEF NoBlockTwice
<1>10. CASE t # s
  <2>1. t \in DOMAIN disk.buf
    BY <1>1, <1>10 DEF Wrote
  <2>2. Buffers(CpmDisk, e)
    BY <1>5, <1>7, <1>8, <2>1 DEF Buffers
  <2> QED BY <1>4, <1>5, <1>6, <2>2 DEF Unbuffered
<1> QED BY <1>9, <1>10

(* A last entry that has become longer, and the others of its file.        *)
LEMMA LongerFits ==
  ASSUME NEW entry \in DiskEntry, NEW len \in Nat, NEW r \in 0 .. ExtentSize,
         entry.ext * ExtentSize + r = len, ExtentRecords(entry) = r,
         \A i \in 1 .. BlocksPerExtent : (i - 1) * RecPerBlock < r <=> entry.blocks[i] # 0
  PROVE  EntryFits(entry, len)
<1> DEFINE q == entry.ext * ExtentSize
<1>1. q \in Nat
  BY EntryIs
<1>2. q <= len /\ r = AtMost(len - q, ExtentSize)
  <2>1. q + r = len
    OBVIOUS
  <2> HIDE DEF q
  <2> QED BY <1>1, <2>1, Counts DEF AtMost
<1> QED BY <1>2 DEF EntryFits

(* A full entry fits a longer file.                                        *)
LEMMA FullFits ==
  ASSUME NEW entry \in DiskEntry, NEW old \in Nat, NEW len \in Nat, old <= len, EntryFits(entry, old),
         ExtentRecords(entry) = ExtentSize, entry.ext * ExtentSize + ExtentSize <= old
  PROVE  EntryFits(entry, len)
<1> DEFINE q == entry.ext * ExtentSize
<1>1. q \in Nat
  BY EntryIs
<1>2. q <= len /\ ExtentSize = AtMost(len - q, ExtentSize)
  <2>1. q + ExtentSize <= old
    OBVIOUS
  <2> HIDE DEF q
  <2> QED BY <1>1, <2>1, Counts DEF AtMost
<1> QED BY <1>2 DEF EntryFits

(* The entries fit the file after the write.                               *)
LEMMA GrownFits ==
  ASSUME FilesInv, NEW x, NEW dir, NEW f, NEW c, NEW n, NEW base, NEW k, NEW i, NEW u, NEW j,
         NEW s, NEW val, NEW r, Growing(x, dir, f, c, n, base, k, i, u, j, s, val, r)
  PROVE  FileFits(dir, disk.map, n, Len(f[n]))
<1>1. /\ fcb # NoFcb /\ c = fcb.entry /\ n = fcb.name /\ base = fcb.ext * ExtentSize
      /\ Growth(k, r) /\ GrownDir(dir, r) /\ GrownFiles(f, n, base, k, val, r)
  BY DEF Growing
<1>2. /\ Used(dir) = Used(CpmDir) /\ c \in Used(dir) /\ c \in EntryNumbers
      /\ \A e \in EntryNumbers : dir[e].ext = CpmDir[e].ext
      /\ \A e \in EntryNumbers : e # c => dir[e] = CpmDir[e]
      /\ disk.map[c] = n /\ fcb.recs \in Nat /\ base \in Nat
  BY GrownSame
<1>3. FileFits(CpmDir, disk.map, n, Len(files[n])) /\ Len(files[n]) \in Nat /\ fcb.ext \in Nat
      /\ CpmDir[c] = FcbEntry
  BY <1>1, FcbIs
<1>4. dir \in [EntryNumbers -> DiskEntry] /\ dir[c].ext = fcb.ext /\ ExtentRecords(dir[c]) = r
      /\ \A y \in 1 .. BlocksPerExtent : (y - 1) * RecPerBlock < r <=> dir[c].blocks[y] # 0
  BY <1>1 DEF GrownDir
<1> DEFINE old == Len(files[n])
           len == Len(f[n])
<1>5. CASE r = fcb.recs
  <2>1. len = old
    BY <1>1, <1>5 DEF GrownFiles
  <2>2. ASSUME NEW e \in Used(dir), disk.map[e] = n PROVE EntryFits(dir[e], old)
    <3>1. EntryFits(CpmDir[e], old)
      BY <1>2, <1>3, <2>2 DEF FileFits
    <3>2. CASE e # c
      <4>1. dir[e] = CpmDir[e]
        BY <1>2, <3>2 DEF Used
      <4> QED BY <3>1, <4>1
    <3>3. CASE e = c
      <4>1. ExtentRecords(CpmDir[c]) = r /\ CpmDir[c].ext = dir[c].ext
        BY <1>1, <1>2, <1>5, CpmIs
      <4> HIDE DEF old
      <4> QED BY <1>4, <3>1, <3>3, <4>1 DEF EntryFits
    <3> QED BY <3>2, <3>3
  <2>3. ASSUME NEW y \in 0 .. old - 1, y * ExtentSize < old
        PROVE  \E e \in Used(dir) : disk.map[e] = n /\ dir[e].ext = y
    <3>1. PICK e \in Used(CpmDir) : disk.map[e] = n /\ CpmDir[e].ext = y
      BY <1>3, <2>3 DEF FileFits
    <3>2. dir[e].ext = y
      BY <1>2, <3>1 DEF Used
    <3> QED BY <1>2, <3>1, <3>2
  <2> HIDE DEF old, len
  <2>4. FileFits(dir, disk.map, n, old)
    BY <2>2, <2>3 DEF FileFits
  <2> QED BY <2>1, <2>4 DEF len
<1>6. CASE r # fcb.recs
  <2>1. IsLast /\ k = fcb.recs /\ r = fcb.recs + 1 /\ r \in 0 .. ExtentSize
    BY <1>1, <1>6 DEF Growth
  <2>2. /\ old = base + fcb.recs
        /\ \A e \in Used(CpmDir) : disk.map[e] = n /\ e # c =>
                   /\ CpmDir[e].ext < fcb.ext
                   /\ ExtentRecords(CpmDir[e]) = ExtentSize
                   /\ CpmDir[e].ext * ExtentSize + ExtentSize <= base
    BY <1>1, <2>1, FcbLast
  <2>3. len = base + r /\ len \in Nat /\ old \in Nat /\ old + 1 = len
    <3>1. len = base + r
      BY <1>1, <1>6 DEF GrownFiles
    <3> HIDE DEF len, old
    <3> QED BY <1>2, <2>1, <2>2, <3>1
  <2>4. ASSUME NEW e \in Used(dir), disk.map[e] = n PROVE EntryFits(dir[e], len)
    <3>1. EntryFits(CpmDir[e], old)
      BY <1>2, <1>3, <2>4 DEF FileFits
    <3>2. dir[e] \in DiskEntry
      BY <1>4 DEF Used
    <3>3. CASE e # c
      <4>1. dir[e] = CpmDir[e]
        BY <1>2, <3>3 DEF Used
      <4>2. dir[e].ext * ExtentSize + ExtentSize <= old /\ ExtentRecords(dir[e]) = ExtentSize
        <5> DEFINE v == dir[e].ext * ExtentSize
        <5>1. v + ExtentSize <= base /\ ExtentRecords(dir[e]) = ExtentSize
          BY <1>2, <2>2, <2>4, <3>3, <4>1
        <5>2. v \in Nat
          BY <3>2, EntryIs
        <5> HIDE DEF v, old
        <5>3. v + ExtentSize <= old
          BY <1>2, <2>2, <5>1, <5>2, Counts
        <5> QED BY <5>1, <5>3 DEF v
      <4>3. old <= len
        <5> HIDE DEF old, len
        <5> QED BY <2>3
      <4> HIDE DEF old, len
      <4> QED BY <2>3, <3>1, <3>2, <4>1, <4>2, <4>3, FullFits
    <3>4. CASE e = c
      <4>1. dir[e].ext * ExtentSize + r = len
        BY <1>1, <1>4, <2>3, <3>4
      <4> HIDE DEF len
      <4> QED BY <1>4, <2>1, <2>3, <3>2, <3>4, <4>1, LongerFits
    <3> QED BY <3>3, <3>4
  <2>5. ASSUME NEW y \in 0 .. len - 1, y * ExtentSize < len
        PROVE  \E e \in Used(dir) : disk.map[e] = n /\ dir[e].ext = y
    <3> DEFINE v == y * ExtentSize
    <3>1. y \in Nat /\ v \in Nat
      BY Counts
    <3>2. CASE v < old
      <4>1. y \in 0 .. old - 1
        <5>1. y <= v
          <6> DEFINE a == ExtentSize
          <6>1. a \in Nat \ {0} /\ v = y * a
            BY Counts
          <6> HIDE DEF a, v
          <6> QED BY <3>1, <6>1
        <5> HIDE DEF v, old
        <5> QED BY <2>3, <3>1, <3>2, <5>1
      <4>2. PICK e \in Used(CpmDir) : disk.map[e] = n /\ CpmDir[e].ext = y
        BY <1>3, <3>2, <4>1 DEF FileFits
      <4>3. dir[e].ext = y
        BY <1>2, <4>2 DEF Used
      <4> QED BY <1>2, <4>2, <4>3
    <3>3. CASE ~ (v < old)
      <4>1. v = base + fcb.recs
        <5>1. v < len
          BY <2>5
        <5> HIDE DEF v, old, len
        <5> QED BY <2>2, <2>3, <3>1, <3>3, <5>1
      <4>2. fcb.recs \in 0 .. ExtentSize - 1
        BY <1>2, <2>1, Counts
      <4>3. y = fcb.ext
        <5> DEFINE a == ExtentSize
                   t == fcb.ext
                   b == fcb.recs
        <5>1. a \in Nat \ {0} /\ t \in Nat /\ b \in 0 .. a - 1 /\ 0 \in 0 .. a - 1
          BY <1>3, <4>2, Counts
        <5>2. v = a * y /\ base = a * t
          BY <1>1, <1>3, <3>1, Counts
        <5> HIDE DEF a, t, b, v
        <5>3. (a * y + 0) \div a = y /\ (a * t + b) \div a = t
          BY <3>1, <5>1, OnlyParts
        <5>4. a * y + 0 = a * t + b
          BY <3>1, <4>1, <5>2 DEF b
        <5> QED BY <5>3, <5>4 DEF t
      <4> QED BY <1>2, <1>4, <4>3
    <3> QED BY <3>2, <3>3
  <2> HIDE DEF len
  <2>6. FileFits(dir, disk.map, n, len)
    BY <2>4, <2>5 DEF FileFits
  <2> QED BY <2>6 DEF len
<1> QED BY <1>5, <1>6

(* The directory is right after the write.                                 *)
LEMMA GrownStructure ==
  ASSUME FilesInv, NEW x, NEW dir, NEW f, NEW c, NEW n, NEW base, NEW k, NEW i, NEW u, NEW j,
         NEW s, NEW val, NEW r, Growing(x, dir, f, c, n, base, k, i, u, j, s, val, r)
  PROVE  Structure(dir, disk.map, Lengths(f), misread, {})
<1>1. fcb # NoFcb /\ GrownDir(dir, r) /\ GrownFiles(f, n, base, k, val, r)
  BY DEF Growing
<1>2. /\ Used(dir) = Used(CpmDir) /\ NoExtentTwice(dir, disk.map) /\ FirstThere(dir, disk.map, {})
      /\ disk.map[c] = n
      /\ \A e \in Used(dir) : e # c => dir[e] = CpmDir[e]
      /\ \A e \in Used(dir) : dir[e].ext = CpmDir[e].ext
  BY GrownSame DEF Used
<1>3. Structure(CpmDir, disk.map, Lengths(files), misread, {})
  BY <1>1, FcbIs DEF FilesInv, StructInv
<1>4. ASSUME NEW m \in DOMAIN f \ misread PROVE FileFits(dir, disk.map, m, Len(f[m]))
  <2>1. CASE m = n
    BY <2>1, GrownFits
  <2>2. CASE m # n
    <3>1. m \in DOMAIN files \ misread /\ f[m] = files[m]
      BY <1>1, <2>2 DEF GrownFiles
    <3>2. FileFits(CpmDir, disk.map, m, Len(files[m]))
      BY <1>3, <3>1 DEF Structure, Lengths
    <3>3. \A e \in Used(dir) : disk.map[e] = m => dir[e] = CpmDir[e]
      BY <1>2, <2>2
    <3> QED BY <1>2, <3>1, <3>2, <3>3 DEF FileFits
  <2> QED BY <2>1, <2>2
<1>5. \A m \in DOMAIN Lengths(f) \ misread : FileFits(dir, disk.map, m, Lengths(f)[m])
  BY <1>4 DEF Lengths
<1> QED BY <1>1, <1>2, <1>5 DEF Structure, GrownDir

(* A record of the file in hand has been written.                          *)
GrownFcb(dir, base, k, r, val) ==
  /\ fcb' # NoFcb /\ fcb' \in FcbTypes
  /\ fcb'.name = fcb.name /\ fcb'.entry = fcb.entry /\ fcb'.ext = fcb.ext
  /\ fcb'.clean = fcb.clean /\ fcb'.recs = r
  /\ fcb'.touched = fcb.touched \cup {base + k + 1}
  /\ fcb'.blocks = dir[fcb.entry].blocks
  /\ job' = job /\ misread' = misread /\ opens' = opens /\ records' = val

GrownTo(x, dir, f, c, n, base, k, i, u, j, s, val, r) ==
  /\ Growing(x, dir, f, c, n, base, k, i, u, j, s, val, r)
  /\ disk' = x /\ CpmDir' = dir /\ files' = f
  /\ GrownFcb(dir, base, k, r, val)

(* What the host has to have after the write.                              *)
LEMMA GrownKept ==
  ASSUME FilesInv, NEW x, NEW dir, NEW f, NEW c, NEW n, NEW base, NEW k, NEW i, NEW u, NEW j,
         NEW s, NEW val, NEW r, GrownTo(x, dir, f, c, n, base, k, i, u, j, s, val, r)
  PROVE  /\ IsLast' <=> IsLast
         /\ KeptLength' = KeptLength /\ Kept' = Kept \ {base + k + 1}
<1>1. /\ Growing(x, dir, f, c, n, base, k, i, u, j, s, val, r)
      /\ CpmDir' = dir /\ files' = f /\ GrownFcb(dir, base, k, r, val)
  BY DEF GrownTo
<1>2. /\ fcb'.name = fcb.name /\ fcb'.ext = fcb.ext /\ fcb'.clean = fcb.clean
      /\ fcb'.touched = fcb.touched \cup {base + k + 1}
  BY <1>1 DEF GrownFcb
<1>3. \A e \in EntryNumbers : dir[e].ext = CpmDir[e].ext /\ dir[e].name = CpmDir[e].name
  BY <1>1, GrownSame
<1>4. EntryOf(fcb.name, fcb.ext + 1)' = EntryOf(fcb.name, fcb.ext + 1)
  <2> DEFINE y == fcb.ext + 1  n1 == fcb.name
  <2>1. EntryOf(fcb.name, fcb.ext + 1)' =
          { e \in { e \in EntryNumbers : dir[e].name = n1 } : dir[e].ext = y }
    BY <1>1, <1>2 DEF EntryOf, EntriesOf
  <2>2. EntryOf(fcb.name, fcb.ext + 1) =
          { e \in { e \in EntryNumbers : CpmDir[e].name = n1 } : CpmDir[e].ext = y }
    BY DEF EntryOf, EntriesOf
  <2> HIDE DEF y, n1
  <2>3. \A e \in EntryNumbers : dir[e].name = n1 /\ dir[e].ext = y <=> CpmDir[e].name = n1 /\ CpmDir[e].ext = y
    BY <1>3
  <2> QED BY <2>1, <2>2, <2>3
<1>5. IsLast' <=> IsLast
  BY <1>4 DEF IsLast
<1>6. KeptLength' = KeptLength
  <2>1. CASE IsLast
    BY <1>2, <1>5, <2>1 DEF KeptLength
  <2>2. CASE ~IsLast
    <3>1. r = fcb.recs /\ n = fcb.name /\ GrownFiles(f, n, base, k, val, r)
      BY <1>1, <2>2 DEF Growing, Growth
    <3>2. Len(f[n]) = Len(files[n])
      BY <3>1 DEF GrownFiles
    <3>3. Len(files[fcb.name])' = Len(files[fcb.name])
      BY <1>1, <1>2, <3>1, <3>2
    <3> QED BY <1>5, <2>2, <3>3 DEF KeptLength
  <2> QED BY <2>1, <2>2
<1>7. Kept' = Kept \ {base + k + 1}
  <2>1. Kept' = (1 .. KeptLength') \ fcb'.touched
    BY DEF Kept
  <2>2. Kept = (1 .. KeptLength) \ fcb.touched
    BY DEF Kept
  <2> DEFINE g == 1 .. KeptLength
  <2>3. Kept' = g \ fcb'.touched /\ Kept = g \ fcb.touched
    BY <1>6, <2>1, <2>2
  <2> HIDE DEF g
  <2> QED BY <1>2, <2>3
<1> QED BY <1>5, <1>6, <1>7

(* The file in hand after the write.                                       *)
LEMMA GrownFcbInv ==
  ASSUME FilesInv, NEW x, NEW dir, NEW f, NEW c, NEW n, NEW base, NEW k, NEW i, NEW u, NEW j,
         NEW s, NEW val, NEW r, GrownTo(x, dir, f, c, n, base, k, i, u, j, s, val, r)
  PROVE  FcbInv'
<1>1. /\ Growing(x, dir, f, c, n, base, k, i, u, j, s, val, r)
      /\ CpmDir' = dir /\ files' = f /\ disk' = x /\ GrownFcb(dir, base, k, r, val)
  BY DEF GrownTo
<1>2. /\ fcb' # NoFcb /\ fcb'.name = fcb.name /\ fcb'.entry = fcb.entry /\ fcb'.ext = fcb.ext
      /\ fcb'.clean = fcb.clean /\ fcb'.recs = r
      /\ fcb'.touched = fcb.touched \cup {base + k + 1}
      /\ fcb'.blocks = dir[c].blocks /\ job' = job /\ misread' = misread
      /\ c = fcb.entry /\ n = fcb.name /\ fcb # NoFcb /\ base = fcb.ext * ExtentSize
      /\ Growth(k, r) /\ GrownDir(dir, r) /\ GrownFiles(f, n, base, k, val, r)
      /\ x.dir = disk.dir /\ x.map = disk.map
  BY <1>1 DEF GrownFcb, Growing, Wrote
<1>3. /\ job = NoJob /\ n \in DOMAIN files \ misread /\ c \in EntryNumbers /\ disk.map[c] = n
      /\ disk.dir[c].name = n /\ disk.dir[c].ext = fcb.ext
      /\ ExtentRecords(disk.dir[c]) = fcb.clean
      /\ \A y \in 1 .. BlocksPerExtent :
           disk.dir[c].blocks[y] = IF (y - 1) * RecPerBlock < fcb.clean THEN fcb.blocks[y] ELSE 0
      /\ fcb.clean <= fcb.recs
      /\ fcb.clean < fcb.recs => IsLast
      /\ fcb.touched \subseteq { Place(y) : y \in 0 .. fcb.recs - 1 }
      /\ \A y \in fcb.clean .. fcb.recs - 1 : Place(y) \in fcb.touched
  BY <1>2 DEF FilesInv, FcbInv
<1>4. fcb.clean \in Nat /\ fcb.recs \in Nat /\ k \in Nat /\ r \in Nat /\ k < r /\ fcb.recs <= r
      /\ (r = fcb.recs \/ (IsLast /\ k = fcb.recs /\ r = fcb.recs + 1)) /\ base \in Nat
  <2>1. fcb.recs \in Nat /\ fcb.clean \in Nat /\ base \in Nat
    BY <1>2, FcbIs, Counts
  <2>2. k \in Nat /\ r \in Nat /\ k < r
        /\ (r = fcb.recs \/ (IsLast /\ k = fcb.recs /\ r = fcb.recs + 1))
    BY <1>2, Counts DEF Growth
  <2> QED BY <2>1, <2>2
<1>5. \A y \in 1 .. BlocksPerExtent :
        disk.dir[c].blocks[y] = IF (y - 1) * RecPerBlock < fcb.clean THEN dir[c].blocks[y] ELSE 0
  <2> TAKE y \in 1 .. BlocksPerExtent
  <2> DEFINE q == (y - 1) * RecPerBlock
  <2>1. q \in Nat
    <3> DEFINE b == y - 1
    <3>1. b \in Nat
      BY Counts
    <3> HIDE DEF b
    <3>2. b * RecPerBlock \in Nat
      BY <3>1, Counts
    <3> QED BY <3>2 DEF b
  <2>2. q < fcb.clean => q < fcb.recs
    <3> HIDE DEF q
    <3> QED BY <1>3, <1>4, <2>1
  <2>3. q < fcb.recs => dir[c].blocks[y] = fcb.blocks[y]
    BY <1>2, CpmIs DEF GrownDir
  <2>4. disk.dir[c].blocks[y] = IF q < fcb.clean THEN fcb.blocks[y] ELSE 0
    BY <1>3
  <2> HIDE DEF q
  <2>5. disk.dir[c].blocks[y] = IF q < fcb.clean THEN dir[c].blocks[y] ELSE 0
    BY <2>2, <2>3, <2>4
  <2> QED BY <2>5 DEF q
<1>6. fcb.clean <= r /\ (fcb.clean < r => IsLast')
  <2>1. fcb.clean <= r /\ (fcb.clean < r => IsLast)
    BY <1>3, <1>4
  <2> QED BY <2>1, GrownKept
<1>7. \A y : Place(y)' = base + y + 1 /\ Place(y) = base + y + 1
  BY <1>2 DEF Place
<1>8. fcb'.touched \subseteq { Place(y)' : y \in 0 .. r - 1 }
  <2> SUFFICES ASSUME NEW p \in fcb'.touched PROVE \E y \in 0 .. r - 1 : p = Place(y)'
    OBVIOUS
  <2>1. CASE p \in fcb.touched
    <3>1. PICK y \in 0 .. fcb.recs - 1 : p = Place(y)
      BY <1>3, <2>1
    <3>2. y \in 0 .. r - 1
      BY <1>4, <3>1
    <3> QED BY <1>7, <3>1, <3>2
  <2>2. CASE p = base + k + 1
    <3>1. k \in 0 .. r - 1
      BY <1>4
    <3> QED BY <1>7, <2>2, <3>1
  <2> QED BY <1>2, <2>1, <2>2
<1>9. \A y \in fcb.clean .. r - 1 : Place(y)' \in fcb'.touched
  <2> TAKE y \in fcb.clean .. r - 1
  <2>1. CASE y = k
    BY <1>2, <1>7, <2>1
  <2>2. CASE y # k
    <3>1. y \in fcb.clean .. fcb.recs - 1
      BY <1>4, <2>2
    <3> QED BY <1>2, <1>3, <1>7, <3>1
  <2> QED BY <2>1, <2>2
<1>10. n \in DOMAIN f \ misread
  BY <1>2, <1>3 DEF GrownFiles
<1>11. (fcb'.touched \subseteq { Place(y) : y \in 0 .. fcb.recs - 1 }')
  BY <1>2, <1>8
<1> QED BY <1>1, <1>2, <1>3, <1>5, <1>6, <1>9, <1>10, <1>11 DEF FcbInv

(* The invariant after the write.                                          *)
LEMMA GrownStep ==
  ASSUME FilesInv, NEW x, NEW dir, NEW f, NEW c, NEW n, NEW base, NEW k, NEW i, NEW u, NEW j,
         NEW s, NEW val, NEW r, GrownTo(x, dir, f, c, n, base, k, i, u, j, s, val, r)
  PROVE  FilesInv'
<1>1. /\ Growing(x, dir, f, c, n, base, k, i, u, j, s, val, r)
      /\ CpmDir' = dir /\ files' = f /\ disk' = x /\ GrownFcb(dir, base, k, r, val)
  BY DEF GrownTo
<1>2. /\ fcb' # NoFcb /\ fcb'.name = fcb.name /\ fcb' \in FcbTypes
      /\ job' = job /\ misread' = misread /\ opens' = opens /\ records' = val /\ val \in Nat
      /\ n = fcb.name /\ fcb # NoFcb /\ GrownFiles(f, n, base, k, val, r)
      /\ DiskOK(x) /\ x.dir = disk.dir /\ x.map = disk.map
      /\ OneChanged(x.host, disk.host, n, base + k + 1)
  BY <1>1 DEF GrownFcb, Growing, Wrote
<1>3. /\ job = NoJob /\ Gone = {} /\ Present = files /\ Wrong = misread
      /\ n \in DOMAIN files \ misread /\ misread \subseteq DOMAIN files /\ opens \in Nat
      /\ \A e \in Used(CpmDir) : CpmDir[e].name = disk.map[e] /\ disk.map[e] \in DOMAIN files
      /\ Used(CpmDir) = Used(disk.dir)
      /\ \A e \in EntryNumbers : CpmDir[e].name = disk.dir[e].name
  BY <1>2, FcbIs, CpmIs DEF FilesInv, JobInv, DiskTypes
<1>4. ~Pending' /\ Present' = f /\ Gone' = {} /\ Wrong' = misread /\ job' = NoJob
  BY <1>1, <1>2, <1>3 DEF NoJob, Pending, Present, Gone, Wrong
<1>5. DOMAIN f = DOMAIN files /\ HostOK(f)
  BY <1>2 DEF GrownFiles
<1>6. DiskTypes'
  <2>1. misread \subseteq Names
    BY <1>3, <1>5 DEF HostOK
  <2> QED BY <1>1, <1>2, <1>3, <1>4, <1>5, <2>1, NoFcbType DEF DiskTypes, FcbTypes
<1>7. JobInv'
  BY <1>1, <1>2, <1>3, <1>4, <1>5 DEF JobInv, NoJob
<1>8. NamesInv'
  <2>1. \A e \in Used(disk.dir) : disk.dir[e].name = disk.map[e] /\ disk.map[e] \in DOMAIN f
    BY <1>3, <1>5 DEF Used
  <2>2. \A e \in Used(disk.dir) : disk.dir[e].name # Free
    BY DEF Used, InUse
  <2> QED BY <1>1, <1>2, <1>4, <2>1, <2>2 DEF NamesInv, NoJob
<1>9. FcbInv'
  BY GrownFcbInv
<1>10. StructInv'
  BY <1>1, <1>2, <1>4, GrownStructure DEF StructInv
<1> DEFINE z == DiskOf(dir, x.map, x.buf, x.host)
<1>11. CpmDisk' = z
  <2>1. CpmDisk' = [x EXCEPT !.dir = dir]
    BY <1>1 DEF CpmDisk
  <2>2. x = [dir |-> x.dir, map |-> x.map, buf |-> x.buf, host |-> x.host]
    BY <1>2 DEF DiskOK
  <2>3. [x EXCEPT !.dir = dir] = z
    BY <2>2, DiskEdit
  <2> QED BY <2>1, <2>3
<1> HIDE DEF z
<1>12. ContentInv'
  <2>1. z = DiskOf(dir, x.map, x.buf, x.host)
    BY DEF z
  <2>2. BufferedRight(z, f, misread) /\ OthersRight(z, x.dir, f, misread) /\ Unbuffered(z, misread, {})
    BY <1>1, <2>1, GrownBuffered, GrownOthers, GrownUnbuffered
  <2> QED BY <1>1, <1>4, <1>11, <2>2 DEF ContentInv
<1>13. HostInv'
  <2>1. /\ DOMAIN disk.host = DOMAIN files
        /\ \A m \in DOMAIN files : m # n => disk.host[m] = files[m]
        /\ Len(disk.host[n]) = KeptLength /\ \A p \in Kept : disk.host[n][p] = files[n][p]
    BY <1>2, <1>3 DEF FilesInv, HostInv
  <2>2. DOMAIN x.host = DOMAIN f
    BY <1>2, <1>5, <2>1 DEF OneChanged
  <2>3. ASSUME NEW m \in DOMAIN f, m # n PROVE x.host[m] = f[m]
    BY <1>2, <1>5, <2>1, <2>3 DEF OneChanged, GrownFiles
  <2>4. Len(x.host[n]) = KeptLength'
    BY <1>2, <2>1, GrownKept DEF OneChanged
  <2>5. ASSUME NEW p \in Kept' PROVE x.host[n][p] = f[n][p]
    <3>1. p \in Kept /\ p # base + k + 1
      BY GrownKept
    <3>2. p \in 1 .. Len(disk.host[n])
      BY <2>1, <3>1 DEF Kept
    <3>3. p \in 1 .. Len(files[n])
      <4>1. KeptLength \in Nat /\ KeptLength <= Len(files[n]) /\ Len(files[n]) \in Nat
        BY <1>2, FcbLast, FcbIs
      <4>2. p \in 1 .. KeptLength
        BY <2>1, <3>2
      <4> DEFINE l == Len(files[n])
                 y == KeptLength
      <4> HIDE DEF l, y
      <4>3. p \in 1 .. l
        BY <4>1, <4>2 DEF l, y
      <4> QED BY <4>3 DEF l
    <3>4. x.host[n][p] = disk.host[n][p]
      BY <1>2, <3>1, <3>2 DEF OneChanged
    <3>5. f[n][p] = files[n][p]
      BY <1>2, <3>1, <3>3 DEF GrownFiles
    <3> QED BY <2>1, <3>1, <3>4, <3>5
  <2> QED BY <1>1, <1>2, <1>4, <2>2, <2>3, <2>4, <2>5 DEF HostInv
<1> QED BY <1>6, <1>7, <1>8, <1>9, <1>10, <1>12, <1>13 DEF FilesInv

(* A write of a record of the file in hand, to the disk and to the file.   *)
Writes(x, dir, f, k, s, val, r) ==
  /\ fcb # NoFcb /\ Growth(k, r) /\ GrownDir(dir, r)
  /\ s = SectorOf(dir[fcb.entry], k) /\ val \in Nat
  /\ x = WriteSector(disk, s, [ReadSector(disk, s) EXCEPT ![(k % RecPerSec) + 1] = val])
  /\ f = [files EXCEPT ![fcb.name] = IF Place(k) > Len(@) THEN Append(@, val)
                                     ELSE [@ EXCEPT ![Place(k)] = val]]

(* The file has the record that was written.                               *)
LEMMA PutRecordFiles ==
  ASSUME FilesInv, NEW x, NEW dir, NEW f, NEW k, NEW s, NEW val, NEW r, Writes(x, dir, f, k, s, val, r)
  PROVE  GrownFiles(f, fcb.name, fcb.ext * ExtentSize, k, val, r)
<1> DEFINE n == fcb.name
           base == fcb.ext * ExtentSize
           old == files[n]
           p == base + k + 1
           new == IF p > Len(old) THEN Append(old, val) ELSE [old EXCEPT ![p] = val]
<1>1. fcb # NoFcb /\ Growth(k, r) /\ val \in Nat
  BY DEF Writes
<1>2. n \in DOMAIN files /\ base \in Nat /\ old \in Seq(Int) /\ Len(old) \in Nat
      /\ fcb.recs \in Nat /\ HostOK(files)
  BY <1>1, FcbIs, Counts DEF FilesInv, DiskTypes
<1>3. f = [files EXCEPT ![n] = new]
  BY DEF Writes, Place
<1>4. k \in Nat /\ r \in Nat /\ k < r
      /\ (r = fcb.recs \/ (IsLast /\ k = fcb.recs /\ r = fcb.recs + 1))
  BY <1>1, Counts DEF Growth
<1>5. base + fcb.recs <= Len(old) /\ (IsLast => Len(old) = base + fcb.recs)
  BY <1>1, FcbLast
<1>6. /\ new \in Seq(Int) /\ Len(new) = IF r = fcb.recs THEN Len(old) ELSE base + r
      /\ new[p] = val
      /\ \A q \in 1 .. Len(old) : q # p => new[q] = old[q]
  <2>1. CASE r = fcb.recs
    <3>1. p \in 1 .. Len(old) /\ ~ (p > Len(old))
      <4> DEFINE l == Len(old)
      <4>1. l \in Nat /\ base + fcb.recs <= l
        BY <1>2, <1>5
      <4> HIDE DEF l, base
      <4>2. p \in 1 .. l /\ ~ (p > l)
        BY <1>2, <1>4, <2>1, <4>1
      <4> QED BY <4>2 DEF l
    <3>2. new = [old EXCEPT ![p] = val]
      BY <3>1
    <3> HIDE DEF new, old, p
    <3> QED BY <1>1, <1>2, <2>1, <3>1, <3>2
  <2>2. CASE r # fcb.recs
    <3> DEFINE l == Len(old)
    <3>1. k = fcb.recs /\ r = fcb.recs + 1 /\ l = base + fcb.recs /\ l \in Nat
      BY <1>2, <1>4, <1>5, <2>2
    <3>2. p = l + 1 /\ p > l /\ base + r = l + 1
      <4> HIDE DEF l, base
      <4> QED BY <1>2, <3>1
    <3>3. new = Append(old, val)
      BY <3>2
    <3>4. \A q \in 1 .. l : q # p => new[q] = old[q]
      <4> HIDE DEF new, old, p
      <4> QED BY <1>1, <1>2, <3>3
    <3>5. new \in Seq(Int) /\ Len(new) = l + 1 /\ new[l + 1] = val
      <4> HIDE DEF new, old, p
      <4> QED BY <1>1, <1>2, <3>3 DEF l
    <3> HIDE DEF new, p, base
    <3> QED BY <2>2, <3>2, <3>4, <3>5
  <2> QED BY <2>1, <2>2
<1> HIDE DEF new
<1>7. DOMAIN f = DOMAIN files /\ f[n] = new /\ \A m \in DOMAIN files \ {n} : f[m] = files[m]
  BY <1>2, <1>3 DEF HostOK
<1>8. HostOK(f)
  <2>1. \A m \in DOMAIN f : f[m] \in Seq(Int)
    BY <1>2, <1>6, <1>7 DEF HostOK
  <2>2. f = [m \in DOMAIN f |-> f[m]]
    BY <1>3
  <2> QED BY <1>2, <1>7, <2>1, <2>2 DEF HostOK
<1> QED BY <1>6, <1>7, <1>8 DEF GrownFiles

(* The entry is ready for the write.                                       *)
LEMMA WritesReady ==
  ASSUME FilesInv, NEW x, NEW dir, NEW f, NEW k, NEW s, NEW val, NEW r, Writes(x, dir, f, k, s, val, r),
         NEW i \in 1 .. BlocksPerExtent, NEW u \in 0 .. SecPerBlock - 1, NEW j \in 1 .. RecPerSec,
         k = Spot(i, u, j)
  PROVE  WriteReady(disk, dir, fcb.entry, fcb.name, fcb.clean, fcb.ext * ExtentSize, k, i, u, j, s, val)
<1> DEFINE c == fcb.entry
           n == fcb.name
           clean == fcb.clean
           base == fcb.ext * ExtentSize
<1>1. fcb # NoFcb /\ Growth(k, r) /\ GrownDir(dir, r) /\ s = SectorOf(dir[c], k) /\ val \in Int
  BY DEF Writes
<1>2. /\ dir \in [EntryNumbers -> DiskEntry] /\ NoBlockTwice(dir)
      /\ \A e \in EntryNumbers : e # c => dir[e] = CpmDir[e]
      /\ dir[c].name = n /\ dir[c].ext = fcb.ext
      /\ \A y \in 1 .. BlocksPerExtent :
           /\ (y - 1) * RecPerBlock < fcb.recs => dir[c].blocks[y] = CpmDir[c].blocks[y]
           /\ (y - 1) * RecPerBlock < r <=> dir[c].blocks[y] # 0
  BY <1>1 DEF GrownDir
<1>3. /\ c \in Used(CpmDir) /\ Used(disk.dir) = Used(CpmDir) /\ c \in EntryNumbers
      /\ \A e \in EntryNumbers : e # c => disk.dir[e] = CpmDir[e]
      /\ n # Free /\ CpmDir[c].name = n
  BY <1>1, CpmIs, NoName DEF Used
<1>4. Used(dir) = Used(CpmDir)
  BY <1>2, <1>3 DEF Used, InUse
<1>5. /\ ExtentRecords(disk.dir[c]) = clean /\ disk.dir[c].ext = fcb.ext
      /\ \A y \in 1 .. BlocksPerExtent :
           disk.dir[c].blocks[y] = IF (y - 1) * RecPerBlock < clean THEN CpmDir[c].blocks[y] ELSE 0
      /\ clean <= fcb.recs
  BY <1>1, <1>3, FcbDir DEF FilesInv, FcbInv
<1>6. clean \in Nat /\ clean \in 0 .. ExtentSize /\ fcb.recs \in Nat /\ base \in Nat
  BY <1>1, FcbIs, Counts
<1>7. \A y \in 1 .. BlocksPerExtent :
        disk.dir[c].blocks[y] = IF (y - 1) * RecPerBlock < clean THEN dir[c].blocks[y] ELSE 0
  <2> TAKE y \in 1 .. BlocksPerExtent
  <2> DEFINE q == (y - 1) * RecPerBlock
  <2>1. q \in Nat
    <3> DEFINE b == y - 1
    <3>1. b \in Nat
      BY Counts
    <3> HIDE DEF b
    <3>2. b * RecPerBlock \in Nat
      BY <3>1, Counts
    <3> QED BY <3>2 DEF b
  <2>2. q < clean => q < fcb.recs
    <3> HIDE DEF q, clean
    <3> QED BY <1>5, <1>6, <2>1
  <2>3. q < fcb.recs => dir[c].blocks[y] = CpmDir[c].blocks[y]
    BY <1>2
  <2>4. disk.dir[c].blocks[y] = IF q < clean THEN CpmDir[c].blocks[y] ELSE 0
    BY <1>5
  <2> HIDE DEF q, c, clean
  <2>5. disk.dir[c].blocks[y] = IF q < clean THEN dir[c].blocks[y] ELSE 0
    BY <2>2, <2>3, <2>4
  <2> QED BY <2>5 DEF q
<1>8. disk.map[c] = n /\ n \in DOMAIN disk.host /\ base + clean <= Len(disk.host[n])
  <2>1. disk.map[c] = n /\ n \in DOMAIN files /\ DOMAIN disk.host = DOMAIN files
    BY <1>1, FcbIs DEF FilesInv, HostInv
  <2>2. Len(disk.host[n]) = KeptLength
    BY <1>1, <2>1, FcbIs DEF FilesInv, HostInv
  <2> QED BY <1>1, <2>1, <2>2, FcbLast
<1>9. dir[c].blocks[i] # 0
  <2>1. (i - 1) * RecPerBlock <= k /\ k \in Nat /\ k < r /\ r \in Nat
    BY <1>1, SpotIs, Counts DEF Growth
  <2> DEFINE b == i - 1
  <2>2. b \in Nat
    BY Counts
  <2> DEFINE q == b * RecPerBlock
  <2>3. q \in Nat
    <3> HIDE DEF b
    <3> QED BY <2>2, Counts
  <2>4. q <= k
    BY <2>1
  <2> HIDE DEF q
  <2>5. q < r
    BY <2>1, <2>3, <2>4
  <2> QED BY <1>2, <2>5 DEF q
<1>10. DiskOK(disk)
  BY DEF FilesInv, DiskTypes
<1>11. \A e \in Used(dir) : e # c => disk.dir[e] = dir[e]
  BY <1>2, <1>3 DEF Used
<1>12. c \in Used(dir) /\ Used(disk.dir) = Used(dir) /\ disk.dir[c].ext = dir[c].ext /\ base = dir[c].ext * ExtentSize
  BY <1>2, <1>3, <1>4, <1>5
<1> HIDE DEF c, n, clean, base
<1>13. WriteReady(disk, dir, c, n, clean, base, k, i, u, j, s, val)
  BY <1>1, <1>2, <1>5, <1>6, <1>7, <1>8, <1>9, <1>10, <1>11, <1>12 DEF WriteReady
<1> QED BY <1>13 DEF c, n, clean, base

(* A write of a record, put together.                                      *)
LEMMA WritesGrowing ==
  ASSUME FilesInv, NEW x, NEW dir, NEW f, NEW k, NEW s, NEW val, NEW r, Writes(x, dir, f, k, s, val, r)
  PROVE  \E i, u, j : Growing(x, dir, f, fcb.entry, fcb.name, fcb.ext * ExtentSize, k, i, u, j, s, val, r)
<1>1. /\ fcb # NoFcb /\ Growth(k, r) /\ GrownDir(dir, r) /\ s = SectorOf(dir[fcb.entry], k) /\ val \in Nat
      /\ x = WriteSector(disk, s, [ReadSector(disk, s) EXCEPT ![(k % RecPerSec) + 1] = val])
  BY DEF Writes
<1>2. PICK i \in 1 .. BlocksPerExtent, u \in 0 .. SecPerBlock - 1, j \in 1 .. RecPerSec : k = Spot(i, u, j)
  BY <1>1, SpotOf DEF Growth
<1> DEFINE c == fcb.entry
           n == fcb.name
           clean == fcb.clean
           base == fcb.ext * ExtentSize
           data == [ReadSector(disk, s) EXCEPT ![(k % RecPerSec) + 1] = val]
<1>3. WriteReady(disk, dir, c, n, clean, base, k, i, u, j, s, val)
  BY <1>2, WritesReady
<1>4. x = WriteSector(disk, s, data)
  BY <1>1
<1> HIDE DEF c, n, clean, base
<1>5. Wrote(x, disk, dir, c, n, clean, base, k, i, u, s, val)
  <2>1. data = [ReadSector(disk, s) EXCEPT ![(k % RecPerSec) + 1] = val]
    OBVIOUS
  <2> HIDE DEF data
  <2> QED BY <1>3, <1>4, <2>1, WriteSectorIs
<1>6. GrownFiles(f, n, base, k, val, r)
  BY PutRecordFiles DEF n, base
<1>7. Growing(x, dir, f, c, n, base, k, i, u, j, s, val, r)
  BY <1>1, <1>2, <1>5, <1>6 DEF Growing, c, n, base, clean
<1> QED BY <1>7 DEF c, n, base

(* The entry of the file in hand after a step.                             *)
NewDir == [disk.dir EXCEPT ![fcb.entry] = FcbEntry']

(* The entry of the file in hand after the write.                          *)
LEMMA NewFcbEntry ==
  ASSUME FilesInv, fcb # NoFcb, fcb' \in FcbTypes, fcb'.name = fcb.name, fcb'.ext = fcb.ext
  PROVE  /\ FcbEntry' \in DiskEntry /\ (FcbEntry').name = fcb.name /\ (FcbEntry').ext = fcb.ext
         /\ ExtentRecords(FcbEntry') = fcb'.recs /\ (FcbEntry').blocks = fcb'.blocks
         /\ NewDir \in [EntryNumbers -> DiskEntry] /\ NewDir[fcb.entry] = FcbEntry'
         /\ \A e \in EntryNumbers : e # fcb.entry => NewDir[e] = CpmDir[e]
         /\ fcb' # NoFcb
<1>1. fcb.name \in Names /\ fcb.ext \in Nat /\ fcb.name # Free
  BY FcbIs, NoName
<1>2. fcb'.recs \in 0 .. ExtentSize /\ fcb'.blocks \in BlockList
  BY DEF FcbTypes
<1> DEFINE entry == FcbEntry'
           n == fcb.name
           y == fcb.ext
           q == fcb'.recs
           b == fcb'.blocks
<1>3. entry = [name |-> n, ext |-> y,
               ex |-> IF q > RecordsPerRC THEN 1 ELSE 0,
               rc |-> IF q > RecordsPerRC THEN q - RecordsPerRC ELSE q,
               blocks |-> b]
  BY DEF FcbEntry
<1> HIDE DEF entry, n, y, q, b
<1>4. /\ entry \in DiskEntry /\ entry.name = n /\ entry.ext = y
      /\ ExtentRecords(entry) = q /\ entry.blocks = b
  BY <1>1, <1>2, <1>3, FcbEntryIs DEF n, y, q, b
<1>5. disk.dir \in [EntryNumbers -> DiskEntry] /\ fcb.entry \in EntryNumbers
      /\ \A e \in EntryNumbers : e # fcb.entry => disk.dir[e] = CpmDir[e]
  BY FcbDir, CpmIs
<1>6. NewDir = [disk.dir EXCEPT ![fcb.entry] = entry]
  BY DEF NewDir, entry
<1>7. NewDir \in [EntryNumbers -> DiskEntry] /\ NewDir[fcb.entry] = entry
      /\ \A e \in EntryNumbers : e # fcb.entry => NewDir[e] = CpmDir[e]
  BY <1>4, <1>5, <1>6
<1>8. fcb' # NoFcb
  BY <1>1 DEF NoFcb
<1> QED BY <1>4, <1>7, <1>8 DEF entry, n, y, q, b

(* A record is written.                                                    *)
LEMMA WritesStep ==
  ASSUME FilesInv, NEW k, NEW s, NEW val, Writes(disk', NewDir, files', k, s, val, fcb'.recs),
         fcb' \in FcbTypes, fcb'.name = fcb.name, fcb'.entry = fcb.entry, fcb'.ext = fcb.ext,
         fcb'.clean = fcb.clean, fcb'.touched = fcb.touched \cup {Place(k)},
         job' = job, misread' = misread, opens' = opens, records' = val
  PROVE  FilesInv'
<1> DEFINE c == fcb.entry
           n == fcb.name
           base == fcb.ext * ExtentSize
           x == disk'
           dir == NewDir
           f == files'
           r == fcb'.recs
<1>1. PICK i, u, j : Growing(x, dir, f, c, n, base, k, i, u, j, s, val, r)
  <2> HIDE DEF dir
  <2>1. Writes(x, dir, f, k, s, val, r)
    BY DEF dir
  <2> QED BY <2>1, WritesGrowing
<1>2. fcb # NoFcb
  BY DEF Writes
<1>3. fcb' # NoFcb /\ dir[fcb.entry].blocks = fcb'.blocks
  BY <1>2, NewFcbEntry
<1>4. disk'.dir = disk.dir
  BY <1>1 DEF Growing, Wrote
<1>5. CpmDir' = dir
  BY <1>3, <1>4 DEF CpmDir, NewDir
<1>6. Place(k) = base + k + 1
  BY DEF Place
<1> HIDE DEF dir
<1>7. GrownFcb(dir, base, k, r, val)
  BY <1>3, <1>6 DEF GrownFcb
<1> HIDE DEF c, n, base, r, x, f
<1>8. GrownTo(x, dir, f, c, n, base, k, i, u, j, s, val, r)
  BY <1>1, <1>5, <1>7 DEF GrownTo, x, f
<1> QED BY <1>8, GrownStep

(* A record of the entry is written again.                                 *)
LEMMA RewriteStep == ASSUME FilesInv, RewriteRecord PROVE FilesInv'
<1>1. fcb # NoFcb /\ UNCHANGED <<job, misread, opens>>
  BY DEF RewriteRecord, Writing
<1>2. PICK k \in 0 .. fcb.recs - 1 :
        /\ fcb' = [fcb EXCEPT !.touched = @ \cup {Place(k)}]
        /\ PutRecord(FcbEntry, k)
  BY DEF RewriteRecord
<1>3. fcb \in FcbTypes /\ records \in Nat
  BY DEF FilesInv, DiskTypes, FcbTypes
<1>4. fcb.recs \in Nat /\ fcb.recs <= ExtentSize /\ k \in Nat /\ k < fcb.recs /\ fcb.ext \in Nat
  BY <1>1, FcbIs, Counts
<1>5. Place(k) \in Nat
  <2>1. fcb.ext * ExtentSize \in Nat
    BY <1>1, FcbIs
  <2> QED BY <1>4, <2>1 DEF Place
<1>6. /\ fcb' \in FcbTypes /\ fcb'.name = fcb.name /\ fcb'.entry = fcb.entry /\ fcb'.ext = fcb.ext
      /\ fcb'.clean = fcb.clean /\ fcb'.touched = fcb.touched \cup {Place(k)}
      /\ fcb'.recs = fcb.recs /\ fcb'.blocks = fcb.blocks
  <2> DEFINE p == Place(k)
  <2>1. p \in Nat /\ fcb' = [fcb EXCEPT !.touched = @ \cup {p}]
    BY <1>2, <1>5
  <2> HIDE DEF p
  <2>2. fcb' \in FcbTypes /\ fcb'.name = fcb.name /\ fcb'.entry = fcb.entry /\ fcb'.ext = fcb.ext
        /\ fcb'.clean = fcb.clean /\ fcb'.touched = fcb.touched \cup {p}
        /\ fcb'.recs = fcb.recs /\ fcb'.blocks = fcb.blocks
    BY <1>3, <2>1 DEF FcbTypes
  <2> QED BY <2>2 DEF p
<1>7. /\ FcbEntry' \in DiskEntry /\ (FcbEntry').name = fcb.name /\ (FcbEntry').ext = fcb.ext
      /\ ExtentRecords(FcbEntry') = fcb.recs /\ (FcbEntry').blocks = fcb.blocks
      /\ NewDir \in [EntryNumbers -> DiskEntry] /\ NewDir[fcb.entry] = FcbEntry'
      /\ \A e \in EntryNumbers : e # fcb.entry => NewDir[e] = CpmDir[e]
  BY <1>1, <1>6, NewFcbEntry
<1>8. FcbEntry' = FcbEntry
  BY <1>6 DEF FcbEntry
<1>9. CpmDir[fcb.entry] = FcbEntry /\ fcb.entry \in EntryNumbers /\ CpmDir \in [EntryNumbers -> DiskEntry]
  BY <1>1, CpmIs DEF Used
<1>10. NewDir = CpmDir
  <2>1. \A e \in EntryNumbers : NewDir[e] = CpmDir[e]
    BY <1>7, <1>8, <1>9
  <2>2. NewDir = [e \in EntryNumbers |-> NewDir[e]] /\ CpmDir = [e \in EntryNumbers |-> CpmDir[e]]
    BY <1>7, <1>9
  <2>3. [e \in EntryNumbers |-> NewDir[e]] = [e \in EntryNumbers |-> CpmDir[e]]
    BY <2>1
  <2> QED BY <2>2, <2>3
<1>11. GrownDir(NewDir, fcb.recs)
  <2>1. NoBlockTwice(CpmDir)
    BY DEF FilesInv, StructInv, Structure
  <2>2. EntryFits(FcbEntry, Len(files[fcb.name])) /\ ExtentRecords(FcbEntry) = fcb.recs
    BY <1>1, <1>9, FcbIs, CpmIs DEF FileFits
  <2>3. \A i \in 1 .. BlocksPerExtent : (i - 1) * RecPerBlock < fcb.recs <=> FcbEntry.blocks[i] # 0
    BY <2>2 DEF EntryFits
  <2> QED BY <1>7, <1>8, <1>9, <1>10, <2>1, <2>3 DEF GrownDir
<1> DEFINE s == SectorOf(FcbEntry, k)
           val == records'
<1>12. /\ val = records + 1
       /\ disk' = WriteSector(disk, s, [ReadSector(disk, s) EXCEPT ![(k % RecPerSec) + 1] = val])
       /\ files' = [files EXCEPT ![fcb.name] = IF Place(k) > Len(@) THEN Append(@, val)
                                               ELSE [@ EXCEPT ![Place(k)] = val]]
  BY <1>2 DEF PutRecord
<1>13. Growth(k, fcb.recs)
  BY <1>4, Counts DEF Growth
<1>14. s = SectorOf(NewDir[fcb.entry], k)
  BY <1>9, <1>10
<1>15. val \in Nat
  BY <1>3, <1>12
<1> HIDE DEF s, val
<1>16. Writes(disk', NewDir, files', k, s, val, fcb'.recs)
  BY <1>1, <1>6, <1>11, <1>12, <1>13, <1>14, <1>15 DEF Writes
<1>17. records' = val
  BY DEF val
<1> QED BY <1>1, <1>6, <1>16, <1>17, WritesStep

(* A new record goes to the block of the last one or to a free block.      *)
LEMMA AppendBlocks ==
  ASSUME FilesInv, fcb # NoFcb, IsLast, fcb.recs < ExtentSize,
         NEW nb, nb = (fcb.recs \div RecPerBlock) + 1,
         NEW b, b \in IF fcb.recs % RecPerBlock = 0 THEN FreeBlocks ELSE {fcb.blocks[nb]}
  PROVE  /\ nb \in 1 .. BlocksPerExtent /\ b \in DataBlocks
         /\ \A y \in 1 .. BlocksPerExtent : y # nb =>
              ((y - 1) * RecPerBlock < fcb.recs + 1 <=> (y - 1) * RecPerBlock < fcb.recs)
         /\ (nb - 1) * RecPerBlock < fcb.recs + 1
         /\ (nb - 1) * RecPerBlock < fcb.recs => b = fcb.blocks[nb]
         /\ b \notin UsedBlocks \/ b = fcb.blocks[nb]
<1> DEFINE a == RecPerBlock
           r == fcb.recs
           q == r \div a
           m == r % a
<1>1. r \in Nat /\ r \in 0 .. ExtentSize - 1 /\ a \in Nat \ {0}
  BY FcbIs, Counts
<1>2. q \in Nat /\ m \in 0 .. a - 1 /\ r = a * q + m
  <2> HIDE DEF a, r
  <2> QED BY <1>1, Parts
<1>3. nb \in 1 .. BlocksPerExtent /\ nb = q + 1
  BY <1>1, BlockOf
<1>4. (nb - 1) * a = a * q
  <2> HIDE DEF a, q
  <2>1. nb - 1 = q
    BY <1>2, <1>3
  <2> QED BY <1>1, <1>2, <2>1
<1>5. (nb - 1) * a < r + 1 /\ ((nb - 1) * a < r => m # 0)
  <2> DEFINE v == a * q
  <2>1. v \in Nat
    <3> HIDE DEF a, q
    <3> QED BY <1>1, <1>2
  <2>2. r = v + m /\ m \in Nat
    BY <1>2
  <2> HIDE DEF v, m, r
  <2>3. v < r + 1 /\ (v < r => m # 0)
    BY <2>1, <2>2
  <2> QED BY <1>4, <2>3 DEF v
<1>6. ASSUME NEW y \in 1 .. BlocksPerExtent, y # nb
      PROVE  (y - 1) * a < r + 1 <=> (y - 1) * a < r
  <2> DEFINE t == y - 1
  <2>1. t \in Nat /\ t # q
    <3> HIDE DEF q
    <3> QED BY <1>2, <1>3, <1>6, Counts
  <2>2. a * t # r
    <3> SUFFICES ASSUME a * t = r PROVE FALSE
      OBVIOUS
    <3>1. (a * t + 0) \div a = t
      <4> HIDE DEF a, t
      <4>1. 0 \in 0 .. a - 1
        BY <1>1
      <4> QED BY <1>1, <2>1, <4>1, OnlyParts
    <3>2. a * t + 0 = r
      <4> HIDE DEF a, t
      <4> QED BY <1>1, <2>1
    <3> QED BY <2>1, <3>1, <3>2
  <2>3. t * a = a * t /\ t * a \in Nat
    <3> HIDE DEF a, t
    <3> QED BY <1>1, <2>1
  <2> DEFINE v == t * a
  <2>4. v \in Nat /\ v # r
    BY <2>2, <2>3
  <2> HIDE DEF v, r
  <2>5. v < r + 1 <=> v < r
    BY <1>1, <2>4
  <2> QED BY <2>5 DEF v
<1>7. CASE m = 0
  <2>1. b \in FreeBlocks
    BY <1>7
  <2>2. b \in DataBlocks /\ b \notin UsedBlocks
    BY <2>1 DEF FreeBlocks, DataBlocks
  <2> QED BY <1>3, <1>5, <1>6, <1>7, <2>2
<1>8. CASE m # 0
  <2>1. b = fcb.blocks[nb]
    BY <1>8
  <2>2. (nb - 1) * a < r
    <3> DEFINE v == a * q
    <3>1. v \in Nat
      <4> HIDE DEF a, q
      <4> QED BY <1>1, <1>2
    <3>2. r = v + m /\ m \in Nat
      BY <1>2
    <3> HIDE DEF v, m, r
    <3>3. v < r
      BY <1>8, <3>1, <3>2
    <3> QED BY <1>4, <3>3 DEF v
  <2>3. CpmDir[fcb.entry] = FcbEntry /\ ExtentRecords(FcbEntry) = r /\ FcbEntry.blocks = fcb.blocks
        /\ FcbEntry \in DiskEntry
    BY CpmIs
  <2>4. EntryFits(FcbEntry, Len(files[fcb.name]))
    BY <2>3, FcbIs DEF FileFits
  <2>5. fcb.blocks[nb] # 0
    BY <1>3, <2>2, <2>3, <2>4 DEF EntryFits
  <2>6. b \in DataBlocks
    BY <1>3, <2>1, <2>3, <2>5, EntryIs
  <2> QED BY <1>3, <1>5, <1>6, <2>1, <2>6
<1> QED BY <1>7, <1>8

(* The directory with the record at the end, in a new block or not.        *)
LEMMA AppendDir ==
  ASSUME FilesInv, fcb # NoFcb, IsLast, fcb.recs < ExtentSize,
         NEW nb, nb = (fcb.recs \div RecPerBlock) + 1,
         NEW b, b \in IF fcb.recs % RecPerBlock = 0 THEN FreeBlocks ELSE {fcb.blocks[nb]},
         NEW dir, dir \in [EntryNumbers -> DiskEntry],
         \A e \in EntryNumbers : e # fcb.entry => dir[e] = CpmDir[e],
         dir[fcb.entry].name = fcb.name, dir[fcb.entry].ext = fcb.ext,
         ExtentRecords(dir[fcb.entry]) = fcb.recs + 1,
         \A y \in 1 .. BlocksPerExtent :
           dir[fcb.entry].blocks[y] = IF y = nb THEN b ELSE fcb.blocks[y]
  PROVE  GrownDir(dir, fcb.recs + 1)
<1> DEFINE c == fcb.entry
           r == fcb.recs
<1>1. /\ nb \in 1 .. BlocksPerExtent /\ b \in DataBlocks
      /\ \A y \in 1 .. BlocksPerExtent : y # nb =>
              ((y - 1) * RecPerBlock < r + 1 <=> (y - 1) * RecPerBlock < r)
      /\ (nb - 1) * RecPerBlock < r + 1
      /\ (nb - 1) * RecPerBlock < r => b = fcb.blocks[nb]
      /\ b \notin UsedBlocks \/ b = fcb.blocks[nb]
  BY AppendBlocks
<1>2. /\ CpmDir[c] = FcbEntry /\ ExtentRecords(FcbEntry) = r /\ FcbEntry.blocks = fcb.blocks
      /\ c \in Used(CpmDir) /\ c \in EntryNumbers /\ fcb.name # Free
  BY CpmIs, FcbIs, NoName DEF Used
<1>3. b # 0
  <2>1. DirBlocks \in Nat \ {0}
    BY Counts
  <2> QED BY <1>1, <2>1 DEF DataBlocks
<1>4. \A y \in 1 .. BlocksPerExtent : (y - 1) * RecPerBlock < r <=> fcb.blocks[y] # 0
  <2>1. EntryFits(FcbEntry, Len(files[fcb.name]))
    BY <1>2, FcbIs DEF FileFits
  <2> QED BY <1>2, <2>1 DEF EntryFits
<1>5. ASSUME NEW y \in 1 .. BlocksPerExtent
      PROVE  /\ (y - 1) * RecPerBlock < r => dir[c].blocks[y] = CpmDir[c].blocks[y]
             /\ (y - 1) * RecPerBlock < r + 1 <=> dir[c].blocks[y] # 0
  <2>1. CASE y = nb
    BY <1>1, <1>2, <1>3, <2>1
  <2>2. CASE y # nb
    <3>1. dir[c].blocks[y] = fcb.blocks[y]
      BY <2>2
    <3> QED BY <1>1, <1>2, <1>4, <2>2, <3>1
  <2> QED BY <2>1, <2>2
<1>6. Used(dir) = Used(CpmDir)
  <2>1. CpmDir[c].name = fcb.name
    BY <1>2, CpmIs
  <2> QED BY <2>1 DEF Used, InUse
<1>7. \A e \in Used(dir) : \A y \in 1 .. BlocksPerExtent :
        \/ e = c /\ y = nb /\ dir[e].blocks[y] = b
        \/ dir[e].blocks[y] = CpmDir[e].blocks[y]
  BY <1>2 DEF Used
<1>8. b \in UsedBlocks <=> \E e \in Used(CpmDir) : \E y \in 1 .. BlocksPerExtent : CpmDir[e].blocks[y] = b
  BY DEF UsedBlocks, FreeEntries, Used
<1>9. NoBlockTwice(CpmDir)
  BY DEF FilesInv, StructInv, Structure
<1>10. NoBlockTwice(dir)
  <2>1. CASE b = fcb.blocks[nb]
    <3>1. \A e \in Used(dir) : \A y \in 1 .. BlocksPerExtent : dir[e].blocks[y] = CpmDir[e].blocks[y]
      BY <1>2, <1>7, <2>1
    <3> QED BY <1>6, <1>9, <3>1 DEF NoBlockTwice
  <2>2. CASE b \notin UsedBlocks
    <3> SUFFICES ASSUME NEW e1 \in Used(dir), NEW e2 \in Used(dir),
                        NEW i \in 1 .. BlocksPerExtent, NEW j \in 1 .. BlocksPerExtent,
                        dir[e1].blocks[i] # 0, dir[e1].blocks[i] = dir[e2].blocks[j]
                 PROVE  e1 = e2 /\ i = j
      BY DEF NoBlockTwice
    <3>1. \A e \in Used(dir) : \A y \in 1 .. BlocksPerExtent : CpmDir[e].blocks[y] # b
      BY <1>6, <1>8, <2>2
    <3>2. \A e \in Used(dir) : \A y \in 1 .. BlocksPerExtent :
            dir[e].blocks[y] = b <=> e = c /\ y = nb
      BY <1>2, <1>7, <3>1
    <3>3. CASE dir[e1].blocks[i] = b
      BY <3>2, <3>3
    <3>4. CASE dir[e1].blocks[i] # b
      <4>1. dir[e1].blocks[i] = CpmDir[e1].blocks[i] /\ dir[e2].blocks[j] = CpmDir[e2].blocks[j]
        BY <1>7, <3>4
      <4>2. CpmDir[e1].blocks[i] # 0 /\ CpmDir[e1].blocks[i] = CpmDir[e2].blocks[j]
        BY <4>1
      <4>3. e1 \in Used(CpmDir) /\ e2 \in Used(CpmDir)
        BY <1>6
      <4> HIDE DEF c
      <4> QED BY <1>9, <4>2, <4>3 DEF NoBlockTwice
    <3> QED BY <3>3, <3>4
  <2> QED BY <1>1, <2>1, <2>2
<1> QED BY <1>5, <1>10 DEF GrownDir

(* A record is written at the end of the file.                             *)
LEMMA AppendStep == ASSUME FilesInv, AppendRecord PROVE FilesInv'
<1> DEFINE k == fcb.recs
           nb == (k \div RecPerBlock) + 1
           p == Place(k)
<1>1. fcb # NoFcb /\ IsLast /\ k < ExtentSize /\ UNCHANGED <<job, misread, opens>>
  BY DEF AppendRecord, Writing
<1>2. PICK b \in IF k % RecPerBlock = 0 THEN FreeBlocks ELSE {fcb.blocks[nb]} :
        /\ fcb' = [fcb EXCEPT !.recs = @ + 1, !.blocks[nb] = b, !.touched = @ \cup {Place(fcb.recs)}]
        /\ PutRecord([FcbEntry EXCEPT !.blocks[nb] = b], k)
  BY DEF AppendRecord
<1>3. fcb \in FcbTypes /\ records \in Nat
  BY DEF FilesInv, DiskTypes, FcbTypes
<1>4. k \in Nat /\ k \in 0 .. ExtentSize - 1 /\ k + 1 \in 0 .. ExtentSize
  <2>1. k \in 0 .. ExtentSize /\ ExtentSize \in Nat
    BY <1>1, FcbIs, Counts
  <2> HIDE DEF k
  <2> QED BY <1>1, <2>1
<1>5. p \in Nat
  <2>1. fcb.ext * ExtentSize \in Nat
    BY <1>1, FcbIs
  <2> QED BY <1>4, <2>1 DEF Place
<1>6. nb \in 1 .. BlocksPerExtent /\ b \in DataBlocks
  <2>1. nb = (fcb.recs \div RecPerBlock) + 1 /\ fcb.recs < ExtentSize
        /\ b \in IF fcb.recs % RecPerBlock = 0 THEN FreeBlocks ELSE {fcb.blocks[nb]}
    BY <1>1, <1>2
  <2> HIDE DEF nb
  <2> QED BY <1>1, <2>1, AppendBlocks
<1> DEFINE bs == [fcb.blocks EXCEPT ![nb] = b]
           ts == fcb.touched \cup {p}
           k1 == k + 1
<1>7. bs \in BlockList /\ \A y \in 1 .. BlocksPerExtent : bs[y] = IF y = nb THEN b ELSE fcb.blocks[y]
  <2>1. fcb.blocks \in BlockList
    BY <1>3 DEF FcbTypes
  <2> HIDE DEF nb
  <2> QED BY <1>6, <2>1 DEF BlockList
<1>8. fcb' = [fcb EXCEPT !.recs = k1, !.blocks = bs, !.touched = ts]
  BY <1>2
<1>9. /\ fcb' \in FcbTypes /\ fcb'.name = fcb.name /\ fcb'.entry = fcb.entry /\ fcb'.ext = fcb.ext
      /\ fcb'.clean = fcb.clean /\ fcb'.touched = ts
      /\ fcb'.recs = k1 /\ fcb'.blocks = bs
  <2>1. ts \in SUBSET Nat
    <3>1. fcb.touched \in SUBSET Nat
      BY <1>3 DEF FcbTypes
    <3> HIDE DEF p
    <3> QED BY <1>5, <3>1
  <2>2. k1 \in 0 .. ExtentSize /\ bs \in BlockList
    BY <1>4, <1>7
  <2> HIDE DEF ts, k1, bs
  <2> QED BY <1>3, <1>8, <2>1, <2>2 DEF FcbTypes
<1>10. /\ FcbEntry' \in DiskEntry /\ (FcbEntry').name = fcb.name /\ (FcbEntry').ext = fcb.ext
       /\ ExtentRecords(FcbEntry') = k + 1 /\ (FcbEntry').blocks = bs
       /\ NewDir \in [EntryNumbers -> DiskEntry] /\ NewDir[fcb.entry] = FcbEntry'
       /\ \A e \in EntryNumbers : e # fcb.entry => NewDir[e] = CpmDir[e]
  BY <1>1, <1>9, NewFcbEntry
<1>11. GrownDir(NewDir, k + 1)
  <2> DEFINE dir == NewDir
  <2>1. /\ dir \in [EntryNumbers -> DiskEntry]
        /\ \A e \in EntryNumbers : e # fcb.entry => dir[e] = CpmDir[e]
        /\ dir[fcb.entry].name = fcb.name /\ dir[fcb.entry].ext = fcb.ext
        /\ ExtentRecords(dir[fcb.entry]) = fcb.recs + 1
        /\ \A y \in 1 .. BlocksPerExtent :
             dir[fcb.entry].blocks[y] = IF y = nb THEN b ELSE fcb.blocks[y]
    BY <1>7, <1>10
  <2>2. nb = (fcb.recs \div RecPerBlock) + 1 /\ fcb.recs < ExtentSize
        /\ b \in IF fcb.recs % RecPerBlock = 0 THEN FreeBlocks ELSE {fcb.blocks[nb]}
    BY <1>1, <1>2
  <2> HIDE DEF dir, nb
  <2>3. GrownDir(dir, fcb.recs + 1)
    BY <1>1, <2>1, <2>2, AppendDir
  <2> QED BY <2>3 DEF dir
<1> DEFINE s == SectorOf([FcbEntry EXCEPT !.blocks[nb] = b], k)
           val == records'
<1>12. /\ val = records + 1
       /\ disk' = WriteSector(disk, s, [ReadSector(disk, s) EXCEPT ![(k % RecPerSec) + 1] = val])
       /\ files' = [files EXCEPT ![fcb.name] = IF Place(k) > Len(@) THEN Append(@, val)
                                               ELSE [@ EXCEPT ![Place(k)] = val]]
  BY <1>2 DEF PutRecord
<1>13. Growth(k, k + 1)
  BY <1>1, <1>4 DEF Growth
<1>14. s = SectorOf(NewDir[fcb.entry], k)
  <2> DEFINE old == FcbEntry
             new == [old EXCEPT !.blocks[nb] = b]
  <2>1. new = [old EXCEPT !.blocks = [old.blocks EXCEPT ![nb] = b]]
    OBVIOUS
  <2>2. old.blocks = fcb.blocks
    BY <1>1, CpmIs
  <2>3. new = [old EXCEPT !.blocks = bs]
    BY <2>1, <2>2
  <2>4. old \in DiskEntry
    BY <1>1, CpmIs
  <2> HIDE DEF old, bs
  <2>5. new.blocks = bs
    BY <2>3, <2>4 DEF DiskEntry
  <2> HIDE DEF new
  <2>6. SectorOf(new, k) = SectorOf(NewDir[fcb.entry], k)
    BY <1>10, <2>5 DEF SectorOf
  <2> QED BY <2>6 DEF new, old
<1>15. val \in Nat
  BY <1>3, <1>12
<1> HIDE DEF s, val
<1>16. Writes(disk', NewDir, files', k, s, val, fcb'.recs)
  BY <1>1, <1>9, <1>11, <1>12, <1>13, <1>14, <1>15 DEF Writes
<1>17. records' = val
  BY DEF val
<1> QED BY <1>1, <1>9, <1>16, <1>17, WritesStep
-----------------------------------------------------------------------------
(* The theorems.                                                           *)

(* Every step.                                                             *)
LEMMA FilesStep ==
  ASSUME FilesInv, UsersApart, ~ErasesBuffered, [EmulatedDiskNext]_diskVars
  PROVE  FilesInv'
<1>1. CASE UNCHANGED diskVars
  <2>1. UNCHANGED <<disk, fcb, job, files, misread, records, opens>>
    BY <1>1 DEF diskVars
  <2>2. CpmDir' = CpmDir /\ CpmDisk' = CpmDisk /\ Gone' = Gone /\ Present' = Present /\ Wrong' = Wrong
    BY <2>1 DEF CpmDir, FcbEntry, CpmDisk, Gone, Pending, Present, Wrong
  <2>3. Pending' = Pending /\ IsLast' = IsLast /\ KeptLength' = KeptLength /\ Kept' = Kept
    BY <2>1, <2>2 DEF Pending, KeptLength, Kept, IsLast, EntryOf, EntriesOf
  <2>4. DiskTypes'
    BY <2>1 DEF FilesInv, DiskTypes
  <2>5. JobInv'
    BY <2>1, <2>2, <2>3 DEF FilesInv, JobInv, EntriesOf
  <2>6. NamesInv'
    BY <2>1, <2>2 DEF FilesInv, NamesInv
  <2>7. FcbInv'
    BY <2>1, <2>3 DEF FilesInv, FcbInv, Place
  <2>8. StructInv'
    BY <2>1, <2>2 DEF FilesInv, StructInv
  <2>9. ContentInv'
    BY <2>1, <2>2 DEF FilesInv, ContentInv
  <2>10. HostInv'
    BY <2>1, <2>2, <2>3 DEF FilesInv, HostInv
  <2> QED
    BY <2>4, <2>5, <2>6, <2>7, <2>8, <2>9, <2>10 DEF FilesInv
<1>2. CASE \E n \in Names : MakeFile(n) \/ OpenFile(n) \/ Erase(n)
  BY <1>2, MakeFileStep, OpenFileStep, EraseStep
<1>3. CASE \E n, m \in Names : Rename(n, m)
  BY <1>3, RenameStep
<1>4. CASE AppendRecord
  BY <1>4, AppendStep
<1>5. CASE RewriteRecord
  BY <1>5, RewriteStep
<1>6. CASE CloseFile
  BY <1>6, CloseFileStep
<1>7. CASE Abandon
  BY <1>7, AbandonStep
<1>8. CASE NextExtent
  BY <1>8, NextExtentStep
<1>9. CASE JobStep
  BY <1>9, JobStepStep
<1>10. CASE Select
  BY <1>10, SelectStep
<1>11. CASE Crash
  BY <1>11, CrashStep
<1> QED
  BY <1>1, <1>2, <1>3, <1>4, <1>5, <1>6, <1>7, <1>8, <1>9, <1>10, <1>11 DEF EmulatedDiskNext

(* The invariant is what HostKept says, and more.                          *)
LEMMA HostKeptIs == FilesInv => HostKept
<1> SUFFICES ASSUME FilesInv, job = NoJob PROVE HostKept
  BY DEF HostKept
<1>1. Gone = {} /\ Present = files
  BY NoJobIs
<1> QED BY <1>1 DEF FilesInv, HostInv, HostKept

(* FilesInv always holds.                                                  *)
THEOREM FilesInvAlways ==
  ASSUME NEW host, HostOK(host), UsersApart, ~ErasesBuffered
  PROVE  DiskSpec(host) => []FilesInv
<1>1. EmulatedDiskInit(host) => FilesInv
  BY FilesInit
<1>2. FilesInv /\ [EmulatedDiskNext]_diskVars => FilesInv'
  BY FilesStep
<1> QED BY <1>1, <1>2, PTL DEF DiskSpec

(* HostKept: the host has each file as CP/M has left it; of the file       *)
(* in hand it has what was closed and not written again.                   *)
THEOREM HostKeptAlways ==
  ASSUME NEW host, HostOK(host), UsersApart, ~ErasesBuffered
  PROVE  DiskSpec(host) => []HostKept
<1> QED BY FilesInvAlways, HostKeptIs, PTL

(* A record of an entry that is not buffered is read from its file.        *)
LEMMA ReadOwned ==
  ASSUME NEW d, DiskOK(d), NoBlockTwice(d.dir), NEW e \in Used(d.dir),
         NEW i \in 1 .. BlocksPerExtent, NEW u \in 0 .. SecPerBlock - 1,
         NEW j \in 1 .. RecPerSec, NEW s \in Nat, d.dir[e].blocks[i] = s \div SecPerBlock,
         s % SecPerBlock = u, d.dir[e].blocks[i] # 0, s \notin DOMAIN d.buf,
         d.map[e] \in DOMAIN d.host, Cell(d.dir[e], Spot(i, u, j)) <= Len(d.host[d.map[e]])
  PROVE  ReadSector(d, s)[j] = d.host[d.map[e]][Cell(d.dir[e], Spot(i, u, j))]
<1> DEFINE where == PsFind2(d, s)
           n == d.map[e]
<1>1. d.dir \in [EntryNumbers -> DiskEntry]
  BY DEF DiskOK
<1>2. where.file = n /\ where.at = d.dir[e].ext * ExtentSize + Spot(i, u, 1)
  BY <1>1, FindOwned
<1>3. Spot(i, u, j) = Spot(i, u, 1) + j - 1 /\ Spot(i, u, 1) \in Nat
  BY SpotRow, Counts
<1>4. d.dir[e].ext * ExtentSize \in Nat
  <2>1. d.dir[e].ext \in Nat
    BY <1>1 DEF Used, DiskEntry
  <2> QED BY <2>1, Counts
<1>5. where.at + j = Cell(d.dir[e], Spot(i, u, j))
  BY <1>2, <1>3, <1>4 DEF Cell
<1>6. Content(d.host, where.file) = d.host[n]
  BY <1>2 DEF Content
<1> HIDE DEF where, n
<1>7. ReadSector(d, s) = [x \in 1 .. RecPerSec |->
        IF where.at + x <= Len(d.host[n]) THEN d.host[n][where.at + x] ELSE E5]
  BY <1>6 DEF ReadSector, where
<1>8. n = d.map[e]
  BY DEF n
<1> QED BY <1>5, <1>7, <1>8

(* What CP/M reads as a record of an entry is that of the file.            *)
LEMMA ReadIs ==
  ASSUME FilesInv, NEW e \in Used(CpmDir), NEW k \in 0 .. ExtentSize - 1,
         disk.map[e] \in DOMAIN Present \ Wrong, k < ExtentRecords(CpmDir[e]), job = NoJob
  PROVE  ReadSector(disk, SectorOf(CpmDir[e], k))[(k % RecPerSec) + 1] =
           Present[disk.map[e]][Cell(CpmDir[e], k)]
<1> DEFINE n == disk.map[e]
           s == SectorOf(CpmDir[e], k)
<1>1. <<e, k>> \in Records(CpmDisk, Present, Wrong)
  BY CpmIs DEF Records
<1>2. CASE s \in DOMAIN disk.buf
  <2>1. disk.buf[s][(k % RecPerSec) + 1] = Present[n][Cell(CpmDir[e], k)]
    BY <1>1, <1>2, CpmIs DEF FilesInv, ContentInv, BufferedRight
  <2> QED BY <1>2, <2>1 DEF ReadSector
<1>3. CASE s \notin DOMAIN disk.buf
  <2>1. /\ k < ExtentRecords(disk.dir[e])
        /\ disk.host[n][Cell(CpmDir[e], k)] = Present[n][Cell(CpmDir[e], k)]
    BY <1>1, <1>3, CpmIs DEF FilesInv, ContentInv, OthersRight
  <2>2. CpmDir[e] \in DiskEntry /\ EntryFits(CpmDir[e], Len(Present[n])) /\ NoBlockTwice(CpmDir)
    BY CpmIs DEF FilesInv, StructInv, Structure, FileFits, Lengths, Used
  <2>3. PICK i \in 1 .. BlocksPerExtent, u \in 0 .. SecPerBlock - 1, j \in 1 .. RecPerSec :
          /\ k = Spot(i, u, j) /\ CpmDir[e].blocks[i] # 0
          /\ s \in Nat /\ s \div SecPerBlock = CpmDir[e].blocks[i] /\ s % SecPerBlock = u
    BY <2>2, RecordBlock
  <2>4. DiskOK(disk) /\ Used(CpmDir) = Used(disk.dir) /\ disk.dir[e].ext = CpmDir[e].ext
    BY CpmIs DEF FilesInv, DiskTypes, Used
  <2>5. disk.dir[e].blocks[i] = CpmDir[e].blocks[i] /\ NoBlockTwice(disk.dir)
    <3>1. CASE fcb = NoFcb
      BY <3>1, <2>2, CpmIs
    <3>2. CASE fcb # NoFcb /\ e # fcb.entry
      BY <3>2, <2>4, FcbDir
    <3>3. CASE fcb # NoFcb /\ e = fcb.entry
      <4>1. k < fcb.clean
        BY <2>1, <3>3, FcbDir
      <4>2. (i - 1) * RecPerBlock <= k
        BY <2>3, SpotIs
      <4>3. (i - 1) * RecPerBlock \in Nat /\ fcb.clean \in Nat
        <5>1. i - 1 \in Nat
          BY Counts
        <5>2. fcb.clean \in Nat
          BY FcbIs, <3>3, Counts
        <5> QED BY <5>1, <5>2, Counts
      <4>4. (i - 1) * RecPerBlock < fcb.clean
        BY <4>1, <4>2, <4>3
      <4> QED BY <3>3, <4>4, FcbDir
    <3> QED BY <3>1, <3>2, <3>3
  <2>6. n \in DOMAIN disk.host
    BY NoJobIs DEF FilesInv, HostInv
  <2>7. Cell(disk.dir[e], k) = Cell(CpmDir[e], k) /\ Cell(CpmDir[e], k) <= Len(disk.host[n])
    BY <2>1, <2>4, RecordThere DEF Cell
  <2>8. ReadSector(disk, s)[j] = disk.host[n][Cell(disk.dir[e], k)]
    BY <1>3, <2>3, <2>4, <2>5, <2>6, <2>7, ReadOwned
  <2>9. (k % RecPerSec) + 1 = j
    BY <2>3, SpotRow, Counts
  <2> QED BY <2>1, <2>7, <2>8, <2>9
<1> QED BY <1>2, <1>3

(* With no job, the entries of a file are those with its name.             *)
LEMMA OwnEntries ==
  ASSUME FilesInv, job = NoJob, NEW n \in DOMAIN files, NEW e \in EntryNumbers
  PROVE  CpmDir[e].name = n <=> e \in Used(CpmDir) /\ disk.map[e] = n
<1>1. n \in Names /\ n # Free
  BY BoundsAssumption DEF FilesInv, DiskTypes, HostOK
<1>2. e \in Used(CpmDir) => disk.dir[e].name = disk.map[e]
  BY CpmIs DEF FilesInv, NamesInv, NoJob
<1>3. CpmDir[e].name = disk.dir[e].name
  BY CpmIs
<1>4. e \in Used(CpmDir) <=> CpmDir[e].name # Free
  BY DEF Used, InUse
<1> QED BY <1>1, <1>2, <1>3, <1>4

(* The directory tells the length of a file.                               *)
LEMMA ListedIs ==
  ASSUME FilesInv, job = NoJob, NEW n \in DOMAIN files \ misread
  PROVE  ListedLength(CpmDir, n) = Len(files[n])
<1> DEFINE len == Len(files[n])
           End(e) == CpmDir[e].ext * ExtentSize + ExtentRecords(CpmDir[e])
           own == { x \in EntryNumbers : CpmDir[x].name = n }
           ends == { End(e) : e \in own }
<1>1. CpmDir \in [EntryNumbers -> DiskEntry]
  BY CpmIs
<1>2. len \in Nat
  BY DEF FilesInv, DiskTypes, HostOK
<1>3. FileFits(CpmDir, disk.map, n, len)
  BY NoJobIs DEF FilesInv, StructInv, Structure, Lengths
<1>4. own \subseteq EntryNumbers /\ \A e \in own : e \in Used(CpmDir) /\ disk.map[e] = n
  BY OwnEntries
<1>5. \A e \in EntryNumbers : e \in Used(CpmDir) /\ disk.map[e] = n => e \in own
  BY OwnEntries
<1>6. \A e \in own : End(e) \in Nat /\ End(e) <= len
  <2>1. TAKE e \in own
  <2>2. CpmDir[e] \in DiskEntry
    BY <1>1, <1>4
  <2>3. CpmDir[e].ext \in Nat /\ ExtentRecords(CpmDir[e]) \in Nat
    BY <2>2, EntryIs
  <2>4. CpmDir[e].ext * ExtentSize \in Nat
    BY <2>3, Counts
  <2>5. End(e) <= len
    BY <1>1, <1>2, <1>3, <1>4, ExtentLen
  <2> QED BY <2>3, <2>4, <2>5
<1>7. len > 0 => len \in ends
  <2> HAVE len > 0
  <2>1. len \in 1 .. len
    BY <1>2
  <2>2. InEntry(CpmDir, disk.map, n, len)
    BY <1>1, <1>2, <1>3, <2>1, RecordOf
  <2>3. PICK e \in Used(CpmDir), k \in 0 .. ExtentSize - 1 :
          disk.map[e] = n /\ k < ExtentRecords(CpmDir[e]) /\ Cell(CpmDir[e], k) = len
    BY <2>2 DEF InEntry
  <2>4. e \in own
    BY <1>5, <2>3 DEF Used
  <2>5. CpmDir[e].ext \in Nat /\ ExtentRecords(CpmDir[e]) \in Nat /\ k \in Nat
    BY <1>1, <2>4, EntryIs, Counts
  <2>6. CpmDir[e].ext * ExtentSize \in Nat
    BY <2>5, Counts
  <2>7. CpmDir[e].ext * ExtentSize + k + 1 = len
    BY <2>3 DEF Cell
  <2>8. End(e) <= len
    BY <1>6, <2>4
  <2>9. End(e) = len
    BY <1>2, <2>3, <2>5, <2>6, <2>7, <2>8
  <2> QED BY <2>4, <2>9
<1>8. ends \subseteq Nat /\ \A y \in ends : y <= len
  BY <1>6
<1>9. ListedLength(CpmDir, n) = IF ends = {} THEN 0 ELSE Max(ends)
  BY DEF ListedLength
<1> HIDE DEF ends, len
<1>10. CASE ends = {}
  BY <1>2, <1>7, <1>9, <1>10 DEF len
<1>11. CASE ends # {}
  <2>1. Max(ends) \in ends /\ \A y \in ends : y <= Max(ends)
    BY <1>2, <1>8, <1>11, MaxIs
  <2>2. Max(ends) \in Nat /\ Max(ends) <= len
    BY <1>8, <2>1
  <2>3. len > 0 => len <= Max(ends)
    BY <1>7, <2>1
  <2>4. Max(ends) = len
    BY <1>2, <2>2, <2>3
  <2> QED BY <1>9, <1>11, <2>4 DEF len
<1> QED BY <1>10, <1>11

(* Under the invariant CP/M reads what was written.                        *)
LEMMA FilesReadIs == FilesInv => FilesRead
<1> SUFFICES ASSUME FilesInv, job = NoJob, NEW n \in DOMAIN files \ misread
             PROVE  CpmFile(n) = files[n]
  BY DEF FilesRead
<1> DEFINE len == Len(files[n])
<1>1. files[n] \in Seq(Int) /\ len \in Nat /\ files[n] = [i \in 1 .. len |-> files[n][i]]
  BY DEF FilesInv, DiskTypes, HostOK
<1>2. ASSUME NEW p \in 1 .. len PROVE CpmRecord(n, p - 1) = files[n][p]
  <2>1. CpmDir \in [EntryNumbers -> DiskEntry]
    BY CpmIs
  <2>2. FileFits(CpmDir, disk.map, n, len)
    BY NoJobIs DEF FilesInv, StructInv, Structure, Lengths
  <2>3. PICK e \in Used(CpmDir), k \in 0 .. ExtentSize - 1 :
          /\ disk.map[e] = n /\ k < ExtentRecords(CpmDir[e]) /\ Cell(CpmDir[e], k) = p
          /\ CpmDir[e].ext = (p - 1) \div ExtentSize /\ k = (p - 1) % ExtentSize
    <3>1. InEntry(CpmDir, disk.map, n, p)
      BY <1>1, <2>1, <2>2, RecordOf
    <3> QED BY <3>1 DEF InEntry
  <2>4. EntryOf(n, (p - 1) \div ExtentSize) = {e}
    <3>1. e \in EntryNumbers /\ CpmDir[e].name = n
      BY <2>3, OwnEntries DEF Used
    <3>2. \A x \in EntryNumbers : CpmDir[x].name = n =>
            x \in Used(CpmDir) /\ disk.map[x] = n
      BY OwnEntries
    <3>3. NoExtentTwice(CpmDir, disk.map)
      BY DEF FilesInv, StructInv, Structure
    <3> QED BY <2>3, <3>1, <3>2, <3>3 DEF EntryOf, EntriesOf, NoExtentTwice
  <2>5. Min({e}) = e
    <3>1. {e} \in SUBSET Nat /\ {e} # {}
      BY Counts DEF Used, EntryNumbers
    <3>2. Min({e}) \in {e}
      BY <3>1, MinIs
    <3> QED BY <3>2
  <2>6. ReadSector(disk, SectorOf(CpmDir[e], k))[(k % RecPerSec) + 1] = files[n][p]
    BY <2>3, ReadIs, NoJobIs
  <2>7. ~ (k >= ExtentRecords(CpmDir[e]))
    <3>1. CpmDir[e] \in DiskEntry
      BY <2>1, <2>3 DEF Used
    <3>2. ExtentRecords(CpmDir[e]) \in Nat /\ k \in Nat
      BY <3>1, EntryIs, Counts
    <3> QED BY <2>3, <3>2
  <2>8. CpmRecord(n, p - 1) =
          ReadSector(disk, SectorOf(CpmDir[e], k))[(k % RecPerSec) + 1]
    BY <2>3, <2>4, <2>5, <2>7 DEF CpmRecord
  <2> QED BY <2>6, <2>8
<1>3. CpmFile(n) = [i \in 1 .. len |-> CpmRecord(n, i - 1)]
  BY ListedIs DEF CpmFile
<1> HIDE DEF len
<1> QED BY <1>1, <1>2, <1>3

(* FilesRead: CP/M reads every file as the programs have written it.       *)
THEOREM FilesReadAlways ==
  ASSUME NEW host, HostOK(host), UsersApart, ~ErasesBuffered
  PROVE  DiskSpec(host) => []FilesRead
<1> QED BY FilesInvAlways, FilesReadIs, PTL

(* A file nobody works on is on the host as the programs have left it.     *)
InHand == {fcb.name, job.name, job.to}
HostHas(n) ==
  n \notin InHand =>
    /\ n \in DOMAIN disk.host <=> n \in DOMAIN files
    /\ n \in DOMAIN files => disk.host[n] = files[n]

AllHostHas == \A n : HostHas(n)

(* ... in every state of the invariant.                                    *)
LEMMA HostOf == FilesInv => AllHostHas
<1> SUFFICES ASSUME FilesInv, NEW n, n \notin InHand
             PROVE  /\ n \in DOMAIN disk.host <=> n \in DOMAIN files
                    /\ n \in DOMAIN files => disk.host[n] = files[n]
  BY DEF HostHas, AllHostHas
<1>1. n # fcb.name /\ n # job.name /\ n # job.to /\ n \notin Gone
  BY DEF InHand, Gone
<1>2. n \in DOMAIN Present <=> n \in DOMAIN files
  BY <1>1 DEF Present, Put, Without
<1>3. n \in DOMAIN files => Present[n] = files[n]
  BY <1>1 DEF Present, Put, Without
<1> QED BY <1>1, <1>2, <1>3 DEF FilesInv, HostInv

Untouched(n) == n \in DOMAIN disk.host => n \in DOMAIN disk'.host /\ disk'.host[n] = disk.host[n]

(* ... and so it stays.                                                    *)
LEMMA StaysOnHost ==
  ASSUME FilesInv, FilesInv', NEW n, n \notin InHand, n \notin InHand',
         n \in DOMAIN files => n \in DOMAIN files' /\ files'[n] = files[n]
  PROVE  Untouched(n)
<1>1. HostHas(n)
  BY HostOf DEF AllHostHas
<1>2. (FilesInv => AllHostHas)'
  BY HostOf, PTL
<1>3. HostHas(n)'
  BY <1>2 DEF AllHostHas
<1> QED BY <1>1, <1>3 DEF HostHas, Untouched

(* A step leaves the host files nobody works on as they are.               *)
LEMMA OthersStep ==
  ASSUME FilesInv, FilesInv', [EmulatedDiskNext]_diskVars, opens' = opens,
         NEW n \in DOMAIN disk.host \ {fcb.name, fcb'.name, job.name, job.to}
  PROVE  Untouched(n)
<1>0. n \notin InHand
  BY DEF InHand
<1>1. ASSUME UNCHANGED disk PROVE Untouched(n)
  BY <1>1 DEF Untouched
<1>2. ASSUME job'.name = job.name, job'.to = job.to,
             n \in DOMAIN files => n \in DOMAIN files' /\ files'[n] = files[n]
      PROVE  Untouched(n)
  <2>1. n \notin InHand'
    BY <1>2 DEF InHand
  <2> QED BY <1>0, <1>2, <2>1, StaysOnHost
<1>3. CASE UNCHANGED diskVars
  BY <1>1, <1>3 DEF diskVars
<1>4. CASE \E name \in Names : MakeFile(name)
  <2>1. PICK name \in Names : fcb'.name = name /\ files' = Put(files, name, <<>>) /\ job' = job
    BY <1>4 DEF MakeFile, NoFcb
  <2> QED BY <1>2, <2>1 DEF Put
<1>5. CASE \E name \in Names : OpenFile(name) \/ Erase(name)
  BY <1>1, <1>5 DEF OpenFile, Erase
<1>6. CASE \E name, to \in Names : Rename(name, to)
  BY <1>1, <1>6 DEF Rename
<1>7. CASE AppendRecord \/ RewriteRecord
  <2>1. job' = job
    BY <1>7 DEF AppendRecord, RewriteRecord
  <2>2. \E c : files' = [files EXCEPT ![fcb.name] = c]
    BY <1>7 DEF AppendRecord, RewriteRecord, PutRecord
  <2> QED BY <1>2, <2>1, <2>2
<1>8. CASE CloseFile
  BY <1>2, <1>8 DEF CloseFile
<1>9. CASE Abandon
  BY <1>1, <1>9 DEF Abandon
<1>10. CASE NextExtent
  BY <1>2, <1>10 DEF NextExtent
<1>11. CASE JobStep
  <2>1. UNCHANGED disk \/ \E e : job' = [job EXCEPT !.at = e]
    BY <1>11 DEF JobStep
  <2>2. files' = files
    BY <1>11 DEF JobStep
  <2>3. ASSUME NEW e, job' = [job EXCEPT !.at = e] PROVE job'.name = job.name /\ job'.to = job.to
    BY <2>3 DEF FilesInv, DiskTypes
  <2> QED BY <1>1, <1>2, <2>1, <2>2, <2>3
<1>12. CASE Select \/ Crash
  BY <1>12 DEF Select, Crash, Reopen, FilesInv, DiskTypes
<1> QED
  BY <1>3, <1>4, <1>5, <1>6, <1>7, <1>8, <1>9, <1>10, <1>11, <1>12 DEF EmulatedDiskNext

(* OthersKept: a write to the sectors of one file leaves the other files   *)
(* of the host as they are.                                                *)
THEOREM OthersKeptAlways ==
  ASSUME NEW host, HostOK(host), UsersApart, ~ErasesBuffered
  PROVE  DiskSpec(host) => OthersKept
<1> DEFINE Others ==
      \A n \in DOMAIN disk.host \ {fcb.name, fcb'.name, job.name, job.to} :
        opens' = opens => n \in DOMAIN disk'.host /\ disk'.host[n] = disk.host[n]
<1>1. FilesInv /\ FilesInv' /\ [EmulatedDiskNext]_diskVars => [Others]_diskVars
  <2> SUFFICES ASSUME FilesInv, FilesInv', [EmulatedDiskNext]_diskVars,
                      NEW n \in DOMAIN disk.host \ {fcb.name, fcb'.name, job.name, job.to},
                      opens' = opens
               PROVE  n \in DOMAIN disk'.host /\ disk'.host[n] = disk.host[n]
    OBVIOUS
  <2> QED BY OthersStep DEF Untouched
<1> QED BY <1>1, FilesInvAlways, PTL DEF DiskSpec, OthersKept
=============================================================================
