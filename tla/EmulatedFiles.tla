--------------------------- MODULE EmulatedFiles ----------------------------
(***************************************************************************)
(* Why CP/M reads from an emulated disk what it has written, and why the   *)
(* host has it: how the directory, the name map, the buffered sectors and  *)
(* the files of the host belong to each other at every moment.  FilesInv   *)
(* is inductive (EmulatedDiskProofs).                                      *)
(***************************************************************************)
EXTENDS EmulatedDisk

(* The hosts the theorems are about: any files with names of CP/M.         *)
HostOK(host) == DOMAIN host \subseteq Names /\ host \in [DOMAIN host -> Seq(Int)]

(* No file of user 0 has the name of one of another user.                  *)
UsersApart == \A n \in Names : PlainName[n] \in Names => PlainName[n] = n

(* The blocks of files.                                                    *)
DataBlocks == DirBlocks .. TotalBlocks - 2

SectorData == [1 .. RecPerSec -> Int]
BlockList == [1 .. BlocksPerExtent -> DataBlocks \cup {0}]
DiskEntry ==
  [name : Names \cup {Free}, ext : Nat, ex : {0, 1}, rc : 0 .. RecordsPerRC,
   blocks : BlockList]

(* A disk of Rcpmfs.                                                       *)
DiskOK(d) ==
  /\ d = [dir |-> d.dir, map |-> d.map, buf |-> d.buf, host |-> d.host]
  /\ d.dir \in [EntryNumbers -> DiskEntry]
  /\ d.map \in [EntryNumbers -> Names \cup {NoFile}]
  /\ d.buf \in [DOMAIN d.buf -> SectorData]
  /\ \A s \in DOMAIN d.buf : s \in Nat /\ s \div SecPerBlock \in DataBlocks
  /\ HostOK(d.host)

DiskTypes ==
  /\ DiskOK(disk)
  /\ fcb \in [name : Names \cup {Free}, entry : Nat, ext : Nat, recs : 0 .. ExtentSize,
              blocks : BlockList, clean : 0 .. ExtentSize, touched : SUBSET Nat]
  /\ job \in [op : {"none", "erase", "rename"}, name : Names \cup {Free},
              to : Names \cup {Free}, at : Nat]
  /\ HostOK(files)
  /\ misread \subseteq Names
  /\ records \in Nat
  /\ opens \in Nat
-----------------------------------------------------------------------------
(* The file that is being erased; the rename that has not begun.           *)
Gone == IF job.op = "erase" THEN {job.name} ELSE {}
Pending == job.op = "rename" /\ job.at = 0

(* The files the disk has: those of the programs, but for a rename that    *)
(* has not begun.                                                          *)
Present == IF Pending THEN Put(Without(files, job.to), job.name, files[job.to])
           ELSE files
Wrong == IF Pending THEN { IF n = job.to THEN job.name ELSE n : n \in misread }
         ELSE misread

Used(dir) == { e \in EntryNumbers : InUse(dir[e]) }

JobInv ==
  /\ job.op = "none" => job = NoJob
  /\ job # NoJob => fcb = NoFcb /\ job.name \in Names \ DOMAIN files
  /\ job.op = "erase" => job.to = Free
  /\ job.op = "rename" => job.to \in DOMAIN files
  /\ Pending => /\ EntriesOf(job.name) # {}
                /\ disk.dir[Min(EntriesOf(job.name))].ext = 0
  /\ misread \subseteq DOMAIN files \cup Gone

(* An entry has the name of its file, unless a rename has not come to it.  *)
NamesInv ==
  \A e \in Used(disk.dir) :
    /\ disk.map[e] \in DOMAIN Present \cup Gone
    /\ \/ disk.dir[e].name = disk.map[e]
       \/ /\ job.op = "rename" /\ job.at > 0
          /\ disk.dir[e].name = job.name /\ disk.map[e] = job.to
          /\ disk.dir[e].ext # 0
    /\ disk.dir[e].name = job.name => e > job.at

(* The file in hand and its entry: what has been written since the entry   *)
(* was is the end of the file, and has been noted.                         *)
FcbInv ==
  fcb # NoFcb =>
    /\ job = NoJob
    /\ fcb.name \in DOMAIN files \ misread
    /\ fcb.entry \in EntryNumbers
    /\ disk.map[fcb.entry] = fcb.name
    /\ disk.dir[fcb.entry].name = fcb.name
    /\ disk.dir[fcb.entry].ext = fcb.ext
    /\ ExtentRecords(disk.dir[fcb.entry]) = fcb.clean
    /\ \A i \in 1 .. BlocksPerExtent :
         disk.dir[fcb.entry].blocks[i] =
           IF (i - 1) * RecPerBlock < fcb.clean THEN fcb.blocks[i] ELSE 0
    /\ fcb.clean <= fcb.recs
    /\ fcb.clean < fcb.recs => IsLast
    /\ fcb.touched \subseteq { Place(i) : i \in 0 .. fcb.recs - 1 }
    /\ \A i \in fcb.clean .. fcb.recs - 1 : Place(i) \in fcb.touched
-----------------------------------------------------------------------------
(* No block and no extent of a file is in the directory twice, and a file  *)
(* that is there has a first extent.                                       *)
NoBlockTwice(dir) ==
  \A e1, e2 \in Used(dir) : \A i, j \in 1 .. BlocksPerExtent :
    dir[e1].blocks[i] # 0 /\ dir[e1].blocks[i] = dir[e2].blocks[j] => e1 = e2 /\ i = j

NoExtentTwice(dir, map) ==
  \A e1, e2 \in Used(dir) : map[e1] = map[e2] /\ dir[e1].ext = dir[e2].ext => e1 = e2

FirstThere(dir, map, gone) ==
  \A e \in Used(dir) :
    map[e] \notin gone => \E x \in Used(dir) : map[x] = map[e] /\ dir[x].ext = 0

(* The entries of a file of this length: what they have, and that there    *)
(* are all of them.                                                        *)
EntryFits(entry, len) ==
  /\ entry.ext * ExtentSize <= len
  /\ ExtentRecords(entry) = AtMost(len - entry.ext * ExtentSize, ExtentSize)
  /\ \A i \in 1 .. BlocksPerExtent :
       (i - 1) * RecPerBlock < ExtentRecords(entry) <=> entry.blocks[i] # 0

FileFits(dir, map, name, len) ==
  /\ \A e \in Used(dir) : map[e] = name => EntryFits(dir[e], len)
  /\ \A x \in 0 .. len - 1 : x * ExtentSize < len =>
       \E e \in Used(dir) : map[e] = name /\ dir[e].ext = x

Structure(dir, map, lengths, wrong, gone) ==
  /\ NoBlockTwice(dir)
  /\ NoExtentTwice(dir, map)
  /\ FirstThere(dir, map, gone)
  /\ \A n \in DOMAIN lengths \ wrong : FileFits(dir, map, n, lengths[n])

Lengths(host) == [n \in DOMAIN host |-> Len(host[n])]
StructInv == Structure(CpmDir, disk.map, Lengths(Present), Wrong, Gone)
-----------------------------------------------------------------------------
(* What is read from disk d as record k of an entry is that of the files   *)
(* f: in the buffered sector, or else on the host, and the disk has been   *)
(* told of it.                                                             *)
Cell(entry, k) == entry.ext * ExtentSize + k + 1

Records(d, f, w) ==
  { ek \in Used(d.dir) \X (0 .. ExtentSize - 1) :
      d.map[ek[1]] \in DOMAIN f \ w /\ ek[2] < ExtentRecords(d.dir[ek[1]]) }

BufferedRight(d, f, w) ==
  \A ek \in Records(d, f, w) :
    LET entry == d.dir[ek[1]]
        s == SectorOf(entry, ek[2])
    IN s \in DOMAIN d.buf =>
         d.buf[s][(ek[2] % RecPerSec) + 1] = f[d.map[ek[1]]][Cell(entry, ek[2])]

OthersRight(d, told, f, w) ==
  \A ek \in Records(d, f, w) :
    LET entry == d.dir[ek[1]]
        n == d.map[ek[1]]
    IN SectorOf(entry, ek[2]) \notin DOMAIN d.buf =>
         /\ ek[2] < ExtentRecords(told[ek[1]])
         /\ d.host[n][Cell(entry, ek[2])] = f[n][Cell(entry, ek[2])]

(* Nothing is buffered of a file that is not written any more.             *)
Buffers(d, e) ==
  \E s \in DOMAIN d.buf : \E i \in 1 .. BlocksPerExtent :
    d.dir[e].blocks[i] = s \div SecPerBlock

Unbuffered(d, w, gone) ==
  \A e \in Used(d.dir) :
    d.map[e] \in w \/ (d.map[e] \in gone /\ d.dir[e].ext # 0) => ~Buffers(d, e)

CpmDisk == [disk EXCEPT !.dir = CpmDir]

ContentInv ==
  /\ BufferedRight(CpmDisk, Present, Wrong)
  /\ OthersRight(CpmDisk, disk.dir, Present, Wrong)
  /\ Unbuffered(CpmDisk, Wrong, Gone)

(* The host has the files, and the file that is being erased as long as    *)
(* the entry of its first extent is there.                                 *)
HostInv ==
  /\ DOMAIN disk.host \ Gone = DOMAIN Present
  /\ \A n \in Gone :
       n \in DOMAIN disk.host <=>
         \E e \in Used(disk.dir) : disk.map[e] = n /\ disk.dir[e].ext = 0
  /\ \A n \in DOMAIN Present :
       IF n = fcb.name
       THEN Len(disk.host[n]) = KeptLength /\ \A i \in Kept : disk.host[n][i] = Present[n][i]
       ELSE disk.host[n] = Present[n]

(* All of it: what CP/M knows, what rcpmfs knows and what the host has go  *)
(* together, in every state of a program, an erase or a rename             *)
(* (rcpmfs_chgdir, rcpmfs_flush, rcpmfs_write).                            *)
FilesInv ==
  /\ DiskTypes /\ JobInv /\ NamesInv /\ FcbInv
  /\ StructInv /\ ContentInv /\ HostInv
=============================================================================
