------------------------- MODULE IosFirmwareProofs --------------------------
(***************************************************************************)
(* Proofs about the IOS firmware: SectorInv of IosSector is inductive, and *)
(* from it follows that the disk opcodes read and write the sector the     *)
(* program has set, and change nothing else.  With it LoadInv is           *)
(* inductive, and the Z80 is started with the whole boot program.          *)
(***************************************************************************)
EXTENDS IosSector, SequenceTheorems, TLAPS, WellFoundedInduction

(* The parts of a number: what is needed of \div and %.                    *)
LEMMA Sizes ==
  /\ SegBytes \in Nat \ {0} /\ Segments \in Nat \ {0}
  /\ SectBytes \in Nat \ {0} /\ SectBytes = SegBytes * Segments
  /\ ByteMod \in Nat \ {0} /\ CntMod \in Nat /\ SectBytes < CntMod
  /\ MaxTracks \in Nat \ {0} /\ MaxSects \in Nat \ {0}
<1>1. SegBytes * Segments \in Nat \ {0}
  BY SegmentSizesAssumption
<1> QED
  BY <1>1, SegmentSizesAssumption, OpcodeBoundsAssumption DEF SectBytes

(* A number is made of its quotient and its rest.                          *)
LEMMA Parts ==
  ASSUME NEW b \in Nat \ {0}, NEW n \in Nat
  PROVE  /\ n \div b \in Nat /\ n % b \in 0 .. b - 1
         /\ n = b * (n \div b) + (n % b)
OBVIOUS

(* They are the only ones.                                                 *)
LEMMA OnlyParts ==
  ASSUME NEW b \in Nat \ {0}, NEW q \in Nat, NEW r \in 0 .. b - 1
  PROVE  (b * q + r) \div b = q /\ (b * q + r) % b = r
<1> DEFINE n == b * q + r
           p == n \div b
           s == n % b
<1>1. n \in Nat /\ b * q \in Nat
  OBVIOUS
<1>2. p \in Nat /\ s \in 0 .. b - 1 /\ n = b * p + s
  BY <1>1, Parts
<1> HIDE DEF p, s
<1>3. b * (p - q) = r - s
  <2>1. b * p + s = b * q + r
    BY <1>2
  <2> QED BY <1>2, <2>1
<1>4. CASE p - q >= 1
  <2>1. b * (p - q) >= b
    BY <1>2, <1>4
  <2> QED BY <1>2, <1>3, <2>1
<1>5. CASE p - q <= -1
  <2>1. b * (p - q) <= -b
    BY <1>2, <1>5
  <2> QED BY <1>2, <1>3, <2>1
<1>6. p = q
  BY <1>2, <1>4, <1>5
<1>7. s = r
  BY <1>2, <1>3, <1>6
<1> QED
  BY <1>6, <1>7 DEF p, s, n

(* Counting on by one.                                                     *)
LEMMA NextParts ==
  ASSUME NEW b \in Nat \ {0}, NEW n \in Nat
  PROVE  IF n % b = b - 1
         THEN (n + 1) \div b = (n \div b) + 1 /\ (n + 1) % b = 0
         ELSE (n + 1) \div b = n \div b /\ (n + 1) % b = (n % b) + 1
<1> DEFINE q == n \div b
           r == n % b
<1>1. q \in Nat /\ r \in 0 .. b - 1 /\ n = b * q + r
  BY Parts
<1> HIDE DEF q, r
<1>2. CASE r = b - 1
  <2>1. n + 1 = b * (q + 1) + 0
    BY <1>1, <1>2
  <2>2. (b * (q + 1) + 0) \div b = q + 1 /\ (b * (q + 1) + 0) % b = 0
    BY <1>1, OnlyParts
  <2> QED BY <1>2, <2>1, <2>2 DEF q, r
<1>3. CASE r # b - 1
  <2>1. n + 1 = b * q + (r + 1)
    BY <1>1
  <2>2. r + 1 \in 0 .. b - 1
    BY <1>1, <1>3
  <2>3. (b * q + (r + 1)) \div b = q /\ (b * q + (r + 1)) % b = r + 1
    BY <1>1, <2>2, OnlyParts
  <2> QED BY <1>3, <2>1, <2>3 DEF q, r
<1> QED
  BY <1>2, <1>3 DEF r

(* A number of two bytes comes back together.                              *)
LEMMA TwoBytes ==
  ASSUME NEW n \in Nat
  PROVE  ((n \div ByteMod) * ByteMod) + ((n % ByteMod) % ByteMod) = n
<1>1. /\ n \div ByteMod \in Nat /\ n % ByteMod \in 0 .. ByteMod - 1
      /\ n = ByteMod * (n \div ByteMod) + (n % ByteMod)
  BY Parts, Sizes
<1> DEFINE q == n \div ByteMod
           r == n % ByteMod
<1>2. r % ByteMod = r
  <2>1. (ByteMod * 0 + r) % ByteMod = r
    BY <1>1, OnlyParts, Sizes
  <2> QED BY <1>1, <2>1, Sizes
<1>3. q * ByteMod = ByteMod * q
  BY <1>1, Sizes
<1> QED
  BY <1>1, <1>2, <1>3

(* The segments of a legal place are on a full disk.                       *)
LEMMA PlaceOnDisk ==
  ASSUME NEW t \in Nat, NEW s \in Nat, t < MaxTracks, s < MaxSects
  PROVE  /\ (t * MaxSects + s) * Segments \in Nat
         /\ (t * MaxSects + s) * Segments + Segments <= MaxTracks * MaxSects * Segments
<1> DEFINE a == t * MaxSects + s
           m == MaxTracks * MaxSects
<1>1. t * MaxSects \in Nat /\ m \in Nat /\ a \in Nat
  BY Sizes
<1>2. a + 1 <= m
  <2>1. (t + 1) * MaxSects <= MaxTracks * MaxSects
    BY Sizes
  <2>2. (t + 1) * MaxSects = t * MaxSects + MaxSects
    BY Sizes
  <2> QED BY <1>1, <2>1, <2>2, Sizes
<1> HIDE DEF a, m
<1>3. (a + 1) * Segments <= m * Segments
  BY <1>1, <1>2, Sizes
<1>4. (a + 1) * Segments = a * Segments + Segments
  BY <1>1, Sizes
<1>5. a * Segments \in Nat /\ m * Segments \in Nat
  BY <1>1, Sizes
<1> QED
  BY <1>3, <1>4, <1>5 DEF a, m
-----------------------------------------------------------------------------
(* What a call makes of the record: the buffered sector is dropped ...     *)
LEMMA DroppedResult ==
  ASSUME NEW D, NEW s \in DiskRecord(D)
  PROVE  /\ Dropped(s) \in DiskRecord(D)
         /\ Dropped(s).at \in Nat
         /\ Dropped(s).file = s.file /\ (Dropped(s).open <=> s.open)
         /\ Dropped(s).content = s.content
<1>1. <<>> \in Seq(Segment) /\ s.at \in Nat
  BY DEF DiskRecord
<1>2. ((s.at + Segments - 1) \div Segments) * Segments \in Nat
  <2>1. s.at + Segments - 1 \in Nat
    BY <1>1, Sizes
  <2>2. (s.at + Segments - 1) \div Segments \in Nat
    BY <2>1, Sizes, Parts
  <2> QED BY <2>2, Sizes
<1> QED
  BY <1>1, <1>2 DEF Dropped, DiskRecord

(* ... openSD selects the named file ...                                   *)
LEMMA OpenResult ==
  ASSUME NEW D, NEW s \in DiskRecord(D), s.open => s.file \in D,
         NEW name, NEW r \in OpenSD(s, name)
  PROVE  /\ r.sd \in DiskRecord(D)
         /\ r.sd.open => r.sd.file \in D
         /\ r.sd.content = s.content
         /\ r.err = 0 => /\ r.sd.file \in {NoFile, name}
                         /\ r.sd.open => r.sd.file = name
<1>1. s.unsent \in Seq(Segment) /\ <<>> \in Seq(Segment) /\ s.at \in Nat
  BY DEF DiskRecord
<1>2. DOMAIN s.content = D
  BY DEF DiskRecord
<1>3. \A u \in Selected(s, name) :
        /\ u \in DiskRecord(D)
        /\ u.open => u.file \in D
        /\ u.content = s.content
        /\ u.file \in {NoFile, name}
        /\ u.open => u.file = name
  <2> SUFFICES ASSUME NEW u \in Selected(s, name)
               PROVE  /\ u \in DiskRecord(D)
                      /\ u.open => u.file \in D
                      /\ u.content = s.content
                      /\ u.file \in {NoFile, name}
                      /\ u.open => u.file = name
    OBVIOUS
  <2>1. PICK p \in Nat : u = [s EXCEPT !.file = IF name \in D THEN name ELSE NoFile,
                                       !.open = name \in D, !.at = p, !.unsent = <<>>]
    <3>1. Dropped(s).at \in Nat
      BY DroppedResult
    <3> QED BY <1>1, <1>2, <3>1 DEF Selected
  <2>2. u = [file |-> IF name \in D THEN name ELSE NoFile, open |-> name \in D,
             at |-> p, unsent |-> <<>>, content |-> s.content]
    BY <2>1 DEF DiskRecord
  <2>3. (name \in D) \in BOOLEAN
    OBVIOUS
  <2>4. s.content \in [D -> Seq(Seq(Int))]
    BY DEF DiskRecord
  <2> QED BY <1>1, <2>2, <2>3, <2>4 DEF DiskRecord
<1>4. PICK t : /\ \/ t \in Selected(s, name)
                  \/ t \in {s, Dropped(s)} /\ r.err # 0
               /\ r.sd = t
  BY DEF OpenSD, Result, FR_OK, FR_NOT_OPENED
<1>5. CASE t \in Selected(s, name)
  BY <1>3, <1>4, <1>5
<1>6. CASE t \in {s, Dropped(s)} /\ r.err # 0
  BY <1>4, <1>6, DroppedResult
<1> QED
  BY <1>4, <1>5, <1>6

(* ... seekSD goes to a sector of it, if the server has it ...             *)
LEMMA SeekResult ==
  ASSUME NEW D, NEW s \in DiskRecord(D), s.open => s.file \in D,
         NEW sector \in Nat, NEW r \in SeekSD(s, sector)
  PROVE  /\ r.sd \in DiskRecord(D)
         /\ r.sd.file = s.file /\ (r.sd.open <=> s.open) /\ r.sd.content = s.content
         /\ r.err = 0 => /\ Linked /\ s.open
                         /\ r.sd.at = sector * Segments
                         /\ r.sd.unsent = <<>>
<1>1. <<>> \in Seq(Segment) /\ s.at \in Nat
  BY DEF DiskRecord
<1>3. sector * Segments \in Nat
  BY Sizes
<1>4. /\ Dropped(s) \in DiskRecord(D)
      /\ Dropped(s).file = s.file /\ (Dropped(s).open <=> s.open)
      /\ Dropped(s).content = s.content
  BY DroppedResult
<1> DEFINE there == [s EXCEPT !.at = sector * Segments, !.unsent = <<>>]
<1>5. /\ there \in DiskRecord(D)
      /\ there.file = s.file /\ (there.open <=> s.open)
      /\ there.content = s.content
      /\ there.at = sector * Segments /\ there.unsent = <<>>
  BY <1>1, <1>3 DEF DiskRecord
<1> HIDE DEF there
<1>6. \/ r.sd = there /\ r.err = 0 /\ Linked /\ s.open
      \/ r.sd \in {s, Dropped(s), there} /\ r.err # 0
  BY DEF SeekSD, Result, FR_OK, FR_NOT_OPENED, there
<1> QED
  BY <1>4, <1>5, <1>6

(* ... readSD brings the next segment ...                                  *)
LEMMA ReadResult ==
  ASSUME NEW D, NEW s \in DiskRecord(D), s.open => s.file \in D,
         NEW buf \in Segment, NEW r \in ReadSD(s, buf)
  PROVE  /\ r.sd \in DiskRecord(D)
         /\ r.sd.file = s.file /\ (r.sd.open <=> s.open) /\ r.sd.content = s.content
         /\ r.buf \in Segment
         /\ r.err = 0 /\ ~(r.n < SegBytes) =>
              /\ s.file # NoFile
              /\ r.sd.at = s.at + 1
              /\ \A i \in 1 .. SegBytes : r.buf[i] = s.content[s.file][s.at + 1][i]
<1> DEFINE seg == NextSegment(s)
           on == [s EXCEPT !.at = s.at + 1]
           next == IF seg = <<>> THEN s ELSE on
<1>1. s.at \in Nat /\ s.content \in [D -> Seq(Seq(Int))] /\ s.file \in D \cup {NoFile}
  BY DEF DiskRecord
<1>2. ASSUME s.file # NoFile, s.at < Len(s.content[s.file])
      PROVE  s.content[s.file][s.at + 1] \in Seq(Int)
  <2>1. s.content[s.file] \in Seq(Seq(Int))
    BY <1>1, <1>2
  <2> QED BY <1>1, <1>2, <2>1
<1>3. seg \in Seq(Int)
  BY <1>2 DEF NextSegment
<1>4. seg # <<>> => s.file # NoFile /\ seg = s.content[s.file][s.at + 1]
  BY DEF NextSegment
<1> HIDE DEF seg
<1>5. /\ on \in DiskRecord(D)
      /\ on.file = s.file /\ (on.open <=> s.open) /\ on.content = s.content
      /\ on.at = s.at + 1
  <2>1. s.at + 1 \in Nat
    BY <1>1
  <2> QED BY <2>1 DEF DiskRecord
<1> HIDE DEF on
<1>6. /\ Overlay(buf, seg) \in Segment
      /\ \A i \in 1 .. SegBytes : i <= Len(seg) => Overlay(buf, seg)[i] = seg[i]
  <2>1. \A i \in 1 .. SegBytes : i <= Len(seg) => seg[i] \in Int
    BY <1>3
  <2> QED BY <2>1 DEF Overlay, Segment
<1> HIDE DEF next
<1>7. \/ r.sd = next /\ r.n = Len(seg) /\ r.buf = Overlay(buf, seg)
      \/ r.sd \in {s, next} /\ r.err # 0 /\ r.buf \in {buf, Overlay(buf, seg)}
  BY DEF ReadSD, FR_DISK_ERR, next, on, seg
<1>8. ASSUME r.err = 0, ~(r.n < SegBytes)
      PROVE  /\ s.file # NoFile
             /\ r.sd.at = s.at + 1
             /\ \A i \in 1 .. SegBytes : r.buf[i] = s.content[s.file][s.at + 1][i]
  <2>1. r.sd = next /\ SegBytes <= Len(seg) /\ r.buf = Overlay(buf, seg)
    BY <1>3, <1>7, <1>8, Sizes
  <2>2. seg # <<>>
    BY <1>3, <2>1, Sizes
  <2>3. \A i \in 1 .. SegBytes : r.buf[i] = seg[i]
    BY <1>3, <1>6, <2>1, Sizes
  <2> QED BY <1>4, <1>5, <2>1, <2>2, <2>3 DEF next
<1> QED
  BY <1>5, <1>6, <1>7, <1>8 DEF next

(* ... and writeSD collects the segments until it has a sector, which it   *)
(* sends to its place.                                                     *)
LEMMA StoredResult ==
  ASSUME NEW D, NEW s \in DiskRecord(D), s.file \in D,
         NEW segs \in Seq(Segment), Len(segs) = Segments
  PROVE  /\ Stored(s, segs) \in DiskRecord(D)
         /\ Stored(s, segs).file = s.file /\ (Stored(s, segs).open <=> s.open)
         /\ \A f \in D :
              /\ Len(Stored(s, segs).content[f]) = Len(s.content[f])
              /\ \A i \in 1 .. Len(s.content[f]) :
                   Stored(s, segs).content[f][i] =
                     IF f = s.file /\ i > s.at /\ i <= s.at + Segments
                     THEN segs[i - s.at] ELSE s.content[f][i]
<1>1. s.at \in Nat /\ s.content \in [D -> Seq(Seq(Int))] /\ <<>> \in Seq(Segment)
  BY DEF DiskRecord
<1> DEFINE old == s.content[s.file]
           new == [i \in DOMAIN old |->
                     IF i > s.at /\ i <= s.at + Segments THEN segs[i - s.at] ELSE old[i]]
<1>2. old \in Seq(Seq(Int))
  BY <1>1
<1>3. Segment \subseteq Seq(Int)
  BY Sizes DEF Segment
<1>4. \A i \in 1 .. Len(old) :
        i > s.at /\ i <= s.at + Segments => segs[i - s.at] \in Seq(Int)
  <2> SUFFICES ASSUME NEW i \in 1 .. Len(old), i > s.at, i <= s.at + Segments
               PROVE  segs[i - s.at] \in Seq(Int)
    OBVIOUS
  <2>1. i - s.at \in 1 .. Len(segs)
    BY <1>1, Sizes
  <2> QED BY <1>3, <2>1
<1>5. /\ new \in Seq(Seq(Int)) /\ Len(new) = Len(old)
      /\ \A i \in 1 .. Len(old) :
           new[i] = IF i > s.at /\ i <= s.at + Segments THEN segs[i - s.at] ELSE old[i]
  <2>1. DOMAIN old = 1 .. Len(old) /\ Len(old) \in Nat
    BY <1>2
  <2>2. \A i \in 1 .. Len(old) : new[i] \in Seq(Int)
    BY <1>2, <1>4, <2>1
  <2>3. new \in [1 .. Len(old) -> Seq(Int)]
    BY <2>1, <2>2
  <2> HIDE DEF new
  <2>4. new \in Seq(Seq(Int)) /\ Len(new) = Len(old)
    BY <2>1, <2>3
  <2> QED BY <2>1, <2>4 DEF new
<1> HIDE DEF new
<1>6. Stored(s, segs) =
        [s EXCEPT !.unsent = <<>>, !.at = @ + Segments, !.content[s.file] = new]
  BY DEF Stored, new
<1>7. s.at + Segments \in Nat
  BY <1>1, Sizes
<1> HIDE DEF old
<1>8. Stored(s, segs).content = [s.content EXCEPT ![s.file] = new]
  BY <1>6 DEF DiskRecord
<1>9. /\ Stored(s, segs) \in DiskRecord(D)
      /\ Stored(s, segs).file = s.file /\ (Stored(s, segs).open <=> s.open)
  BY <1>1, <1>5, <1>6, <1>7 DEF DiskRecord
<1> QED
  BY <1>1, <1>5, <1>8, <1>9 DEF old

(* What a write leaves: more collected segments, or a sector stored.       *)
WriteGives(D, s, buf, r) ==
  /\ r.sd \in DiskRecord(D)
  /\ r.sd.file = s.file /\ (r.sd.open <=> s.open)
  /\ \A f \in D : Len(r.sd.content[f]) = Len(s.content[f])
  /\ IF Len(s.unsent) + 1 < Segments
     THEN /\ r.sd.content = s.content
          /\ r.err = 0 => r.sd = [s EXCEPT !.unsent = Append(s.unsent, buf)]
     ELSE /\ r.err = 0 /\ Linked /\ s.open => r.sd = Stored(s, Append(s.unsent, buf))
          /\ r.sd.content # s.content => s.open /\ r.sd = Stored(s, Append(s.unsent, buf))

(* Every result of writeSD is one of them, without an error or with one.   *)
LEMMA WriteResult ==
  ASSUME NEW D, NEW s \in DiskRecord(D), s.open => s.file \in D,
         NEW buf \in Segment, NEW r \in WriteSD(s, buf),
         Len(s.unsent) < Segments
  PROVE  WriteGives(D, s, buf, r)
<1> DEFINE segs == Append(s.unsent, buf)
           none == [s EXCEPT !.unsent = <<>>]
           more == [s EXCEPT !.unsent = segs]
           sent == IF Len(segs) < Segments THEN more
                   ELSE IF Linked /\ s.open THEN Stored(s, segs) ELSE none
<1>1. /\ segs \in Seq(Segment) /\ Len(segs) = Len(s.unsent) + 1
      /\ <<>> \in Seq(Segment) /\ Len(s.unsent) \in Nat
  BY DEF DiskRecord
<1> HIDE DEF segs
<1>2. none \in DiskRecord(D) /\ none.file = s.file /\ (none.open <=> s.open)
      /\ none.content = s.content
  BY <1>1 DEF DiskRecord
<1>3. more \in DiskRecord(D) /\ more.file = s.file /\ (more.open <=> s.open)
      /\ more.content = s.content
  BY <1>1 DEF DiskRecord
<1>4. ~(Len(segs) < Segments) => Len(segs) = Segments
  BY <1>1, Sizes
<1>5. s.open /\ ~(Len(segs) < Segments) =>
        /\ Stored(s, segs) \in DiskRecord(D)
        /\ Stored(s, segs).file = s.file /\ (Stored(s, segs).open <=> s.open)
        /\ \A f \in D : Len(Stored(s, segs).content[f]) = Len(s.content[f])
  <2> SUFFICES ASSUME s.open, ~(Len(segs) < Segments)
               PROVE  /\ Stored(s, segs) \in DiskRecord(D)
                      /\ Stored(s, segs).file = s.file /\ (Stored(s, segs).open <=> s.open)
                      /\ \A f \in D : Len(Stored(s, segs).content[f]) = Len(s.content[f])
    OBVIOUS
  <2>1. Len(segs) = Segments /\ s.file \in D
    BY <1>4
  <2>2. segs \in Seq(Segment)
    BY <1>1
  <2>3. \A q \in Seq(Segment) :
          Len(q) = Segments =>
            /\ Stored(s, q) \in DiskRecord(D)
            /\ Stored(s, q).file = s.file /\ (Stored(s, q).open <=> s.open)
            /\ \A f \in D : Len(Stored(s, q).content[f]) = Len(s.content[f])
    BY <2>1, StoredResult
  <2> QED BY <2>1, <2>2, <2>3
<1> HIDE DEF none, more
<1>6. \/ r.sd = sent /\ r.err = 0
      \/ r.sd \in {s, sent} /\ r.err = 1
  BY DEF WriteSD, FR_OK, FR_DISK_ERR, sent, none, more, segs
<1>7. CASE Len(segs) < Segments
  <2>1. Len(s.unsent) + 1 < Segments
    BY <1>1, <1>7
  <2>2. r.sd \in {s, more} /\ r.err \in {0, 1} /\ (r.err = 0 => r.sd = more)
    BY <1>6, <1>7
  <2>3. more = [s EXCEPT !.unsent = Append(s.unsent, buf)]
    BY DEF more, segs
  <2> QED BY <1>3, <2>1, <2>2, <2>3 DEF WriteGives
<1>8. CASE ~(Len(segs) < Segments)
  BY <1>1, <1>2, <1>5, <1>6, <1>8 DEF segs, WriteGives
<1> QED
  BY <1>7, <1>8
-----------------------------------------------------------------------------
(* A step beside the transfers: interrupts, serial input, connections, and *)
(* the end of a call.                                                      *)
LEMMA AsideKeeps ==
  ASSUME NEW D, SectorInv(D),
         UNCHANGED <<sd, bufferSD, diskErr, trackSel, sectSel, bootPc, call, chosen,
                     disk, track, sect, placed, moved>>,
         \/ UNCHANGED <<z80, ioOpcode, ioByteCnt>>
         \/ /\ Running /\ z80' # "call"
            /\ ~Placing("SELTRACK") /\ ~Placing("SELSECT")
            /\ ioByteCnt' \in 0 .. CntMod - 1
            /\ z80' = "irq" => ioOpcode' = "SYSIRQ",
         calm' => calm /\ (Linked => Linked')
  PROVE  SectorInv(D)'
<1>1. TransferTypes(D)'
  BY DEF SectorInv, TransferTypes
<1>2. /\ \A op : Placing(op)' => Placing(op)
      /\ \A op : Amid(op)' => Amid(op)
      /\ SectorStart' = SectorStart
      /\ \A n : Refers(n) => Refers(n)'
      /\ z80' = "call" => UNCHANGED <<z80, ioOpcode, ioByteCnt>>
  BY DEF Placing, Amid, SectorStart, Refers
<1>3. Counting /\ z80' = "call" => Counting'
  BY <1>2 DEF Counting
<1>4. SectorHas(sd.content, moved) => SectorHas(sd.content, moved)'
  BY DEF SectorHas, SectorByte, SectorStart
<1>5. SettingInv'
  <2>1. UNCHANGED <<z80, ioOpcode, ioByteCnt>> => UNCHANGED <<Placing("SELTRACK"),
          Placing("SELSECT"), Placing("SELDISK")>>
    BY DEF Placing
  <2>2. PlaceError(trackSel, sectSel)' = PlaceError(trackSel, sectSel)
    BY DEF PlaceError
  <2> QED BY <1>2, <2>1, <2>2 DEF SectorInv, SettingInv, Running, Placing
<1>6. ReadInv'
  <2>1. \A n : Brought(sd, bufferSD, n) => Brought(sd, bufferSD, n)'
    BY <1>2 DEF Brought
  <2> QED BY <1>2, <1>3, <1>4, <2>1 DEF SectorInv, ReadInv, SectorRead
<1>7. WriteInv'
  <2>1. FullDisks(sd.content)' => FullDisks(sd.content)
    BY DEF FullDisks
  <2>2. \A n : Unsent(sd, bufferSD, n) => Unsent(sd, bufferSD, n)'
    BY <1>2 DEF Unsent
  <2> QED BY <1>2, <1>3, <1>4, <2>1, <2>2
          DEF SectorInv, WriteInv, SectorWritten
<1> QED
  BY <1>1, <1>5, <1>6, <1>7 DEF SectorInv

(* What the boot does to the disk is over when the program starts.         *)
LEMMA BootKeeps ==
  ASSUME NEW D, SectorInv(D), Boot
  PROVE  SectorInv(D)' /\ sd'.content = sd.content
<1>1. ~Running
  BY DEF Boot, BootStep, WaitForVirtDisk, MountSD, OpenBootFile, LoadSegment, Key,
         Escape, Running, KeyPlaces
<1>2. /\ z80 = "main" /\ call = "NOP" /\ ioOpcode = "NOP" /\ disk = -1 /\ chosen = -1
      /\ TransferTypes(D)
  BY <1>1 DEF SectorInv, SettingInv
<1>3. UNCHANGED <<ioVars, trackSel, sectSel, diskErr, progVars>>
  BY DEF Boot, BootStep, WaitForVirtDisk, MountSD, OpenBootFile, LoadSegment, Key,
         Escape, BootsOn
<1>4. /\ sd' \in DiskRecord(D) /\ (sd'.open => sd'.file \in D) /\ bufferSD' \in Segment
      /\ sd'.content = sd.content
  <2>1. CASE UNCHANGED <<sd, bufferSD>>
    BY <1>2, <2>1 DEF TransferTypes
  <2>2. CASE OpenBootFile
    <3>1. PICK r \in OpenSD(sd, BootFile) : sd' = r.sd /\ bufferSD' = bufferSD
      BY <2>2 DEF OpenBootFile
    <3> QED BY <1>2, <3>1, OpenResult DEF TransferTypes
  <2>3. CASE LoadSegment
    <3>1. PICK r \in ReadSD(sd, bufferSD) : sd' = r.sd /\ bufferSD' = r.buf
      BY <2>3 DEF LoadSegment
    <3> QED BY <1>2, <3>1, ReadResult DEF TransferTypes
  <2>4. CASE Key
    <3>1. \/ UNCHANGED <<sd, bufferSD>>
          \/ \E r \in SeekSD(sd, 0) : sd' = r.sd /\ bufferSD' = bufferSD
      BY <2>4 DEF Key
    <3>2. CASE \E r \in SeekSD(sd, 0) : sd' = r.sd /\ bufferSD' = bufferSD
      <4>1. PICK r \in SeekSD(sd, 0) : sd' = r.sd /\ bufferSD' = bufferSD
        BY <3>2
      <4>2. r.sd \in DiskRecord(D) /\ r.sd.file = sd.file /\ (r.sd.open <=> sd.open)
            /\ r.sd.content = sd.content
        BY <1>2, SeekResult DEF TransferTypes
      <4> QED BY <1>2, <4>1, <4>2 DEF TransferTypes
    <3> QED BY <2>1, <3>1, <3>2
  <2> QED BY <2>1, <2>2, <2>3, <2>4 DEF Boot, BootStep, WaitForVirtDisk, MountSD, Escape
<1>5. TransferTypes(D)'
  BY <1>2, <1>3, <1>4 DEF TransferTypes, ioVars, progVars
<1>6. SettingInv'
  <2>1. /\ UNCHANGED <<trackSel, sectSel, diskErr, z80, call, ioOpcode, disk, chosen,
                       track, sect, placed>>
        /\ PlaceError(trackSel, sectSel)' = PlaceError(trackSel, sectSel)
    BY <1>3 DEF ioVars, progVars, PlaceError
  <2> QED BY <1>2, <2>1 DEF SectorInv, SettingInv, Placing, Transfers
<1>7. ReadInv' /\ WriteInv'
  BY <1>2, <1>3 DEF ReadInv, WriteInv, SectorRead, SectorWritten, Amid, Transfers,
                    progVars
<1> QED
  BY <1>4, <1>5, <1>6, <1>7 DEF SectorInv

(* After a reset there is neither a call nor a disk.                       *)
LEMMA ResetKeeps ==
  ASSUME NEW D, SectorInv(D), Reset
  PROVE  SectorInv(D)' /\ sd'.content = sd.content
<1>1. UNCHANGED sd /\ OpcodesReset /\ ProgramReset
  BY DEF Reset
<1>2. TransferTypes(D)'
  <2>1. bufferSD' \in Segment
    BY <1>1 DEF OpcodesReset, Segment
  <2>2. 0 \in 0 .. CntMod - 1 /\ 0 \in 0 .. ByteMod * ByteMod - 1 /\ 0 \in 0 .. ByteMod - 1
    BY Sizes
  <2>3. /\ moved' = <<>> /\ <<>> \in Seq(Int) /\ Len(<<>>) <= SectBytes
        /\ ioByteCnt' = 0 /\ track' = 0 /\ sect' = 0
    BY <1>1, Sizes DEF OpcodesReset, ProgramReset
  <2> QED BY <1>1, <2>1, <2>2, <2>3 DEF SectorInv, TransferTypes
<1>3. SettingInv' /\ ReadInv' /\ WriteInv'
  BY <1>1 DEF OpcodesReset, ProgramReset, SettingInv, ReadInv, WriteInv, SectorRead, SectorWritten,
              Placing, Amid, Transfers
<1> QED
  BY <1>1, <1>2, <1>3 DEF SectorInv

(* A restart of the server closes the file; the rest is beside the calls.  *)
LEMMA LoseKeeps ==
  ASSUME NEW D, SectorInv(D), Lose
  PROVE  SectorInv(D)' /\ sd'.content = sd.content
<1>1. /\ UNCHANGED <<opcodeVars, bootVars, progVars>> /\ calm' = FALSE
      /\ sd' = sd \/ sd' = [sd EXCEPT !.open = FALSE]
  BY DEF Lose, Quiet
<1>2. CASE sd' = sd
  BY <1>1, <1>2, AsideKeeps DEF opcodeVars, ioVars, diskVars, bootVars, progVars
<1>3. CASE sd' = [sd EXCEPT !.open = FALSE]
  <2>1. /\ sd' \in DiskRecord(D) /\ ~sd'.open
        /\ sd'.file = sd.file /\ sd'.content = sd.content /\ sd'.at = sd.at
        /\ sd'.unsent = sd.unsent
    BY <1>3 DEF SectorInv, TransferTypes, DiskRecord
  <2>2. TransferTypes(D)'
    BY <1>1, <2>1 DEF SectorInv, TransferTypes, opcodeVars, ioVars, diskVars, progVars
  <2>3. /\ UNCHANGED <<z80, call, ioOpcode, ioByteCnt, diskErr, moved, bufferSD, placed,
                       trackSel, sectSel, track, sect, disk, chosen, bootPc>>
        /\ SectorStart' = SectorStart
        /\ PlaceError(trackSel, sectSel)' = PlaceError(trackSel, sectSel)
    BY <1>1 DEF opcodeVars, ioVars, diskVars, progVars, bootVars, SectorStart, PlaceError
  <2>4. \A n : Refers(n) => Refers(n)'
    BY <2>1 DEF Refers
  <2>5. SettingInv'
    BY <2>3, <2>4 DEF SectorInv, SettingInv, Placing, Running
  <2>6. SectorHas(sd.content, moved)' <=> SectorHas(sd.content, moved)
    BY <2>1, <2>3 DEF SectorHas, SectorByte
  <2>7. ReadInv'
    <3>1. Brought(sd, bufferSD, Len(moved)) => Brought(sd, bufferSD, Len(moved))'
      BY <2>1, <2>3 DEF Brought
    <3> QED BY <2>1, <2>3, <2>6, <3>1
            DEF SectorInv, ReadInv, SectorRead, Counting, Amid
  <2>8. WriteInv'
    <3>1. FullDisks(sd.content)' => FullDisks(sd.content)
      BY <2>1 DEF FullDisks
    <3>2. Unsent(sd, bufferSD, Len(moved)) => Unsent(sd, bufferSD, Len(moved))'
      BY <2>1, <2>3 DEF Unsent
    <3> QED BY <1>1, <2>3, <2>6, <3>1, <3>2
            DEF SectorInv, WriteInv, SectorWritten, Counting, Amid
  <2> QED BY <2>1, <2>2, <2>5, <2>7, <2>8 DEF SectorInv
<1> QED
  BY <1>1, <1>2, <1>3

(* A call begins with nothing moved.                                       *)
LEMMA BeginKeeps ==
  ASSUME NEW D, SectorInv(D), NEW op \in Opcodes, Begin(op)
  PROVE  SectorInv(D)' /\ sd'.content = sd.content
<1>1. /\ Running /\ z80 = "main" /\ z80' = "call" /\ call' = op /\ ioOpcode' = op
      /\ ioByteCnt' = 0 /\ moved' = <<>> /\ calm' = Linked
      /\ UNCHANGED <<sd, diskVars, chosen, bootPc, linkVars>>
      /\ op \in WriteOpcodes \cup ReadOpcodes /\ op # "SYSIRQ" /\ op # "NOP"
  BY ProgramAssumption DEF Begin, Store, Program, bootVars, WriteOpcodes, ReadOpcodes
<1>2. ~Placing("SELTRACK") /\ ~Placing("SELSECT")
  BY <1>1 DEF Placing
<1>3. TransferTypes(D)'
  <2>1. /\ 0 \in 0 .. CntMod - 1 /\ <<>> \in Seq(Int) /\ Len(<<>>) <= SectBytes
    BY Sizes
  <2>2. /\ track' \in 0 .. ByteMod * ByteMod - 1
        /\ sect' \in 0 .. ByteMod - 1
    BY ProgramAssumption DEF Begin, SectorInv, TransferTypes
  <2> QED BY <1>1, <2>1, <2>2 DEF SectorInv, TransferTypes, diskVars
<1>4. SettingInv'
  <2>1. /\ op # "SELTRACK" => track' = track
        /\ op # "SELSECT" => sect' = sect
        /\ op = "SELDISK" => disk' = -1 /\ ~placed'
        /\ op # "SELDISK" => disk' = disk
        /\ op \notin {"SELDISK", "SELTRACK", "SELSECT"} => (placed' <=> placed)
        /\ chosen # -1 => op = "ERRDISK"
        /\ op \in Transfers => disk # -1 /\ placed
    BY DEF Begin
  <2>2. /\ UNCHANGED <<diskErr, trackSel, sectSel>>
        /\ PlaceError(trackSel, sectSel)' = PlaceError(trackSel, sectSel)
    BY <1>1 DEF diskVars, PlaceError
  <2>3. \A n : Refers(n) => Refers(n)'
    BY <1>1 DEF Refers
  <2>4. \A o : Placing(o)' <=> o = op
    BY <1>1 DEF Placing
  <2>5. (disk # -1 => Refers(disk))'
    BY <2>1, <2>3 DEF SectorInv, SettingInv
  <2>6. (chosen # -1 => /\ op = "ERRDISK"
                        /\ diskErr = 0 => Refers(chosen))'
    BY <1>1, <2>1, <2>2, <2>3 DEF SectorInv, SettingInv
  <2>7. /\ trackSel' = track' \/ Placing("SELTRACK")'
        /\ sectSel' = sect' \/ Placing("SELSECT")'
    BY <1>2, <2>1, <2>2, <2>4 DEF SectorInv, SettingInv
  <2>8. placed' /\ diskErr' = 0 =>
          \/ Placing("SELTRACK")' \/ Placing("SELSECT")'
          \/ PlaceError(trackSel, sectSel)' = 0
    BY <1>2, <2>1, <2>2, <2>4 DEF SectorInv, SettingInv
  <2>9. call' \in Transfers => disk' # -1 /\ placed'
    BY <1>1, <2>1 DEF Transfers
  <2>10. Running'
    BY <1>1 DEF Running
  <2> QED BY <1>1, <2>1, <2>4, <2>5, <2>6, <2>7, <2>8, <2>9, <2>10 DEF SettingInv
<1>5. Counting' \/ call' \notin Transfers
  BY <1>1, Sizes DEF Counting
<1>6. ReadInv'
  BY <1>1, <1>5 DEF ReadInv, SectorRead, Amid, Transfers
<1>7. WriteInv'
  BY <1>1, <1>5, Sizes DEF WriteInv, Amid, SectorWritten, Transfers, Linked, linkVars
<1> QED
  BY <1>1, <1>3, <1>4, <1>6, <1>7 DEF SectorInv

(* The steps that are beside the transfers, each of them.                  *)
LEMMA BesideKeeps ==
  ASSUME NEW D, SectorInv(D),
         \/ Regain \/ Notice \/ End
         \/ PollSerial \/ TakeInterrupt \/ InterruptRoutine
         \/ Arrive \/ Interrupts
  PROVE  SectorInv(D)' /\ sd'.content = sd.content
<1>1. CASE Regain
  BY <1>1, AsideKeeps
  DEF Regain, Quiet, opcodeVars, ioVars, diskVars, bootVars, progVars, Linked
<1>2. CASE Notice
  BY <1>2, AsideKeeps
  DEF Notice, Quiet, opcodeVars, ioVars, diskVars, bootVars, progVars, Linked
<1>3. CASE End
  <2>1. /\ Running /\ z80' = "main" /\ ~Placing("SELTRACK") /\ ~Placing("SELSECT")
    BY <1>3 DEF End, InForce, Placing, Transfers
  <2>2. ioByteCnt \in 0 .. CntMod - 1
    BY DEF SectorInv, TransferTypes
  <2> QED BY <1>3, <2>1, <2>2, AsideKeeps
          DEF End, Program, opcodeVars, ioVars, diskVars, bootVars, linkVars, Linked
<1>4. CASE PollSerial
  BY <1>4, AsideKeeps
  DEF PollSerial, SerialRead, Program, diskVars, bootVars, progVars, linkVars, Linked
<1>5. CASE TakeInterrupt
  <2>1. Running /\ z80' = "ack" /\ ~Placing("SELTRACK") /\ ~Placing("SELSECT")
    BY <1>5 DEF TakeInterrupt, Placing
  <2>2. ioByteCnt \in 0 .. CntMod - 1
    BY DEF SectorInv, TransferTypes
  <2> QED BY <1>5, <2>1, <2>2, AsideKeeps
          DEF TakeInterrupt, IntAck, Program, ioVars, diskVars, bootVars, linkVars, Linked
<1>6. CASE InterruptRoutine
  <2>1. /\ Running /\ z80' # "call" /\ ~Placing("SELTRACK") /\ ~Placing("SELSECT")
    BY <1>6 DEF InterruptRoutine, Placing
  <2>2. /\ UNCHANGED <<sd, diskVars>>
        /\ ioByteCnt' \in {0, ioByteCnt}
        /\ z80' = "irq" => ioOpcode' = "SYSIRQ"
    <3>1. z80 = "irq" => ioOpcode = "SYSIRQ"
      BY DEF SectorInv, SettingInv
    <3> QED BY <1>6, <3>1
            DEF InterruptRoutine, Store, ExecuteRead, ErrDisk, ReadSect, SysIrq,
                ReadNothing, ReadOpcodes, Single, SerialRead, opcodeVars, ioVars
  <2>3. ioByteCnt' \in 0 .. CntMod - 1
    BY <2>2, Sizes DEF SectorInv, TransferTypes
  <2> QED BY <1>6, <2>1, <2>2, <2>3, AsideKeeps
          DEF InterruptRoutine, Program, diskVars, bootVars, linkVars, Linked
<1>7. CASE Arrive
  BY <1>7, AsideKeeps
  DEF Arrive, Program, ioVars, diskVars, bootVars, progVars, linkVars, Linked
<1>8. CASE Interrupts
  BY <1>8, AsideKeeps
  DEF Interrupts, SerialEvent, Systick, Program, ioVars, diskVars, bootVars, progVars,
      linkVars, Linked
<1> QED
  BY <1>1, <1>2, <1>3, <1>4, <1>5, <1>6, <1>7, <1>8
-----------------------------------------------------------------------------
(* The opcodes of one or two bytes: the numbers get to the AVR, and a disk *)
(* is selected.                                                            *)
LEMMA SetterKeeps ==
  ASSUME NEW D, SectorInv(D), Out, call \notin Transfers
  PROVE  SectorInv(D)' /\ sd'.content = sd.content
<1>1. PICK byte \in Bytes : ExecuteWrite(byte)
  BY DEF Out
<1>2. /\ z80 = "call" /\ ioOpcode = call /\ call \in WriteOpcodes /\ call # "WRITESECT"
      /\ ioData' = byte /\ Running /\ Running'
      /\ UNCHANGED <<z80, call, disk, track, sect, placed, moved, calm, bootPc>>
      /\ chosen' = IF call = "SELDISK" THEN byte ELSE chosen
      /\ bufferSD' = bufferSD
  BY <1>1 DEF Out, Transfers, InForce, ExecuteWrite, SelDisk, SelTrack, SelSect, SetIrq,
              WriteSect, WriteNothing, diskVars, Running, Program, bootVars
<1>3. ReadInv' /\ WriteInv'
  BY <1>2 DEF ReadInv, WriteInv, SectorRead, SectorWritten, Amid, Transfers, WriteOpcodes
<1>4. trackSel = track \/ call = "SELTRACK"
  BY <1>2 DEF SectorInv, SettingInv, Placing
<1>5. sectSel = sect \/ call = "SELSECT"
  BY <1>2 DEF SectorInv, SettingInv, Placing
<1>6. ioByteCnt \in Nat /\ CntMod \in Nat \ {0, 1}
  BY Sizes DEF SectorInv, TransferTypes
<1>7. CASE call = "SELDISK"
  <2>1. SelDisk /\ disk = -1 /\ ~placed
    BY <1>1, <1>2, <1>7 DEF ExecuteWrite, SelTrack, SelSect, WriteSect, SetIrq, WriteNothing,
                            SectorInv, SettingInv
  <2>2. /\ ioOpcode' = "NOP" /\ UNCHANGED <<ioByteCnt, trackSel, sectSel>>
    BY <2>1 DEF SelDisk, Single
  <2>3. /\ sd' \in DiskRecord(D) /\ (sd'.open => sd'.file \in D)
        /\ diskErr' = 0 => Refers(byte)'
        /\ sd'.content = sd.content
    <3>1. CASE byte \in DOMAIN DiskName
      <4>1. PICK r \in OpenSD(sd, DiskName[byte]) : sd' = r.sd /\ diskErr' = r.err
        BY <1>2, <2>1, <3>1 DEF SelDisk
      <4>2. sd \in DiskRecord(D) /\ (sd.open => sd.file \in D)
        BY DEF SectorInv, TransferTypes
      <4>3. /\ r.sd \in DiskRecord(D)
            /\ r.sd.open => r.sd.file \in D
            /\ r.sd.content = sd.content
            /\ r.err = 0 => /\ r.sd.file \in {NoFile, DiskName[byte]}
                            /\ r.sd.open => r.sd.file = DiskName[byte]
        BY <4>2, OpenResult
      <4> QED BY <3>1, <4>1, <4>3 DEF Refers
    <3>2. CASE byte \notin DOMAIN DiskName
      BY <1>2, <2>1, <3>2 DEF SelDisk, SectorInv, TransferTypes
    <3> QED BY <3>1, <3>2
  <2>4. TransferTypes(D)'
    BY <1>2, <2>2, <2>3 DEF SectorInv, TransferTypes
  <2>5. SettingInv'
    <3>1. chosen' # -1 /\ diskErr' = 0 => Refers(chosen)'
      BY <1>2, <1>7, <2>3 DEF Refers
    <3> QED BY <1>2, <1>4, <1>5, <1>7, <2>1, <2>2, <3>1
            DEF SettingInv, Placing, Transfers
  <2> QED BY <1>3, <2>3, <2>4, <2>5 DEF SectorInv
<1>8. ASSUME call # "SELDISK"
      PROVE  /\ chosen' = -1 /\ sd' = sd
             /\ disk' # -1 => Refers(disk)'
  <2>1. chosen = -1
    BY <1>2, <1>8 DEF SectorInv, SettingInv, WriteOpcodes
  <2>2. sd' = sd
    BY <1>1, <1>2, <1>8 DEF ExecuteWrite, SelDisk, SelTrack, SelSect, WriteSect, SetIrq,
                            WriteNothing
  <2>3. disk' # -1 => Refers(disk)
    BY <1>2 DEF SectorInv, SettingInv
  <2> QED BY <1>2, <1>8, <2>1, <2>2, <2>3 DEF Refers
<1>9. CASE call = "SELTRACK"
  <2>1. SelTrack
    BY <1>1, <1>2, <1>9 DEF ExecuteWrite, SelDisk, SelSect, WriteSect, SetIrq, WriteNothing
  <2>2. /\ byte = IF ioByteCnt = 0 THEN track % ByteMod ELSE track \div ByteMod
        /\ ioByteCnt \in {0, 1}
        /\ ioByteCnt = 1 => trackSel = track % ByteMod
        /\ track \in Nat
    BY <1>2, <1>9, Sizes DEF Bytes, SectorInv, SettingInv, Placing, TransferTypes
  <2>3. /\ UNCHANGED <<sectSel, sd>> /\ chosen' = -1
        /\ disk' # -1 => Refers(disk)'
        /\ ioByteCnt' = (ioByteCnt + 1) % CntMod
    BY <1>8, <1>9, <2>1 DEF SelTrack, Counted
  <2>4. ioByteCnt' \in 0 .. CntMod - 1
    BY <1>6, <2>3, Parts
  <2>5. TransferTypes(D)'
    BY <1>2, <2>3, <2>4 DEF SectorInv, TransferTypes
  <2>6. CASE ioByteCnt = 0
    <3>1. ioByteCnt' = 1
      <4>1. 1 \in 0 .. CntMod - 1
        BY <1>6
      <4>2. (CntMod * 0 + 1) % CntMod = 1
        BY <1>6, <4>1, OnlyParts
      <4> QED BY <1>6, <2>3, <2>6, <4>2
    <3>2. Placing("SELTRACK")' /\ trackSel' = track' % ByteMod
      BY <1>2, <1>9, <2>1, <2>2, <2>6 DEF SelTrack, Counted, Placing
    <3>3. SettingInv'
      BY <1>2, <1>5, <1>9, <2>3, <3>1, <3>2 DEF SettingInv, Transfers
    <3> QED BY <1>3, <2>3, <2>5, <3>3 DEF SectorInv
  <2>7. CASE ioByteCnt = 1
    <3>1. /\ trackSel' = (byte * ByteMod) + (trackSel % ByteMod)
          /\ diskErr' = PlaceError(trackSel, sectSel)'
          /\ ioOpcode' = "NOP"
      BY <1>2, <2>1, <2>7 DEF SelTrack, Counted, PlaceError
    <3>2. trackSel' = track
      <4>1. trackSel' = ((track \div ByteMod) * ByteMod) + ((track % ByteMod) % ByteMod)
        BY <2>2, <2>7, <3>1
      <4> QED BY <2>2, <4>1, TwoBytes
    <3>3. SettingInv'
      BY <1>2, <1>5, <1>9, <2>3, <3>1, <3>2 DEF SettingInv, Placing, Transfers
    <3> QED BY <1>3, <2>3, <2>5, <3>3 DEF SectorInv
  <2> QED BY <2>2, <2>6, <2>7
<1>10. CASE call = "SELSECT"
  <2>1. SelSect /\ byte = sect
    BY <1>1, <1>2, <1>10 DEF ExecuteWrite, SelDisk, SelTrack, WriteSect, SetIrq,
                             WriteNothing, Bytes
  <2>2. /\ sectSel' = sect
        /\ diskErr' = PlaceError(trackSel, sectSel)'
        /\ ioOpcode' = "NOP" /\ UNCHANGED <<ioByteCnt, trackSel, sd>> /\ chosen' = -1
        /\ disk' # -1 => Refers(disk)'
    BY <1>2, <1>8, <1>10, <2>1 DEF SelSect, Single, PlaceError
  <2>3. TransferTypes(D)'
    BY <1>2, <2>2 DEF SectorInv, TransferTypes
  <2>4. SettingInv'
    BY <1>2, <1>4, <1>10, <2>2 DEF SettingInv, Placing, Transfers
  <2> QED BY <1>3, <2>2, <2>3, <2>4 DEF SectorInv
<1>11. CASE call = "SETIRQ"
  <2>1. SetIrq
    BY <1>1, <1>2, <1>11 DEF ExecuteWrite, SelDisk, SelTrack, SelSect, WriteSect, WriteNothing
  <2>2. /\ UNCHANGED <<ioByteCnt, trackSel, sectSel, diskErr, sd>> /\ chosen' = -1
        /\ ioOpcode' = "NOP"
        /\ disk' # -1 => Refers(disk)'
    BY <1>8, <1>11, <2>1 DEF SetIrq, Single, diskVars
  <2>3. TransferTypes(D)'
    BY <1>2, <2>2 DEF SectorInv, TransferTypes
  <2>4. placed /\ diskErr = 0 => PlaceError(trackSel, sectSel) = 0
    BY <1>11 DEF SectorInv, SettingInv, Placing
  <2>5. SettingInv'
    BY <1>2, <1>4, <1>5, <1>11, <2>2, <2>4 DEF SettingInv, Placing, Transfers, PlaceError
  <2> QED BY <1>3, <2>2, <2>3, <2>5 DEF SectorInv
<1> QED
  BY <1>2, <1>7, <1>9, <1>10, <1>11 DEF WriteOpcodes
-----------------------------------------------------------------------------
(* A transfer stays in the settings it has begun with.                     *)
LEMMA TransferSetting ==
  ASSUME NEW D, SectorInv(D), call \in Transfers, z80 = "call", Running,
         UNCHANGED <<z80, call, chosen, disk, track, sect, placed, trackSel, sectSel,
                     bootPc>>,
         ioOpcode' \in {call, "NOP"},
         sd'.file = sd.file, sd'.open <=> sd.open,
         diskErr' = 0 => diskErr = 0
  PROVE  SettingInv'
<1>1. chosen = -1 /\ disk # -1 /\ Refers(disk)
  BY DEF SectorInv, SettingInv, Transfers
<1>2. Refers(disk)'
  BY <1>1 DEF Refers
<1>3. /\ trackSel' = track' /\ sectSel' = sect'
      /\ placed /\ diskErr' = 0 => PlaceError(trackSel, sectSel)' = 0
  BY DEF SectorInv, SettingInv, Placing, Transfers, PlaceError
<1> QED
  BY <1>1, <1>2, <1>3 DEF SectorInv, SettingInv, Placing, Transfers, Running

(* When it fails nothing is promised any more.                             *)
LEMMA FailedKeeps ==
  ASSUME NEW D, SectorInv(D), call \in Transfers, z80 = "call", Running,
         UNCHANGED <<z80, call, chosen, disk, track, sect, placed, trackSel, sectSel,
                     bootPc, calm, linkVars>>,
         ioOpcode' \in {call, "NOP"},
         sd'.file = sd.file, sd'.open <=> sd.open,
         diskErr' # 0,
         TransferTypes(D)', call = "READSECT" => Counting'
  PROVE  SectorInv(D)'
<1>1. SettingInv'
  BY TransferSetting
<1>2. ReadInv'
  BY DEF ReadInv, SectorRead, Amid
<1>3. WriteInv'
  BY DEF SectorInv, WriteInv, SectorWritten, Amid, Linked, linkVars, Transfers
<1> QED
  BY <1>1, <1>2, <1>3 DEF SectorInv

(* Before the first byte the engine goes to the sector, or fails.          *)
LEMMA SoughtResult ==
  ASSUME NEW D, SectorInv(D), call \in Transfers, z80 = "call", NEW k \in Sought
  PROVE  /\ k.sd \in DiskRecord(D)
         /\ k.sd.file = sd.file /\ (k.sd.open <=> sd.open) /\ k.sd.content = sd.content
         /\ k.err = 0 =>
              /\ diskErr = 0
              /\ track < MaxTracks /\ sect < MaxSects
              /\ IF ioByteCnt = 0
                 THEN /\ Linked /\ sd.open
                      /\ k.sd.at = SectorStart /\ k.sd.unsent = <<>>
                 ELSE k.sd = sd
<1>1. /\ sd \in DiskRecord(D) /\ (sd.open => sd.file \in D)
      /\ track \in Nat /\ sect \in Nat
  BY Sizes DEF SectorInv, TransferTypes
<1>2. /\ trackSel = track /\ sectSel = sect
      /\ diskErr = 0 => PlaceError(track, sect) = 0
  BY DEF SectorInv, SettingInv, Placing, Transfers
<1>3. PlaceError(track, sect) = 0 => track < MaxTracks /\ sect < MaxSects
  BY <1>1, Sizes DEF PlaceError
<1>4. track * MaxSects + sect \in Nat
  BY <1>1, Sizes
<1>5. CASE ioByteCnt = 0 /\ PlaceError(trackSel, sectSel) = 0 /\ diskErr = 0
  <2>1. k \in SeekSD(sd, track * MaxSects + sect)
    BY <1>2, <1>5 DEF Sought
  <2> QED BY <1>1, <1>2, <1>3, <1>4, <1>5, <2>1, SeekResult DEF SectorStart
<1>6. CASE ~(ioByteCnt = 0 /\ PlaceError(trackSel, sectSel) = 0 /\ diskErr = 0)
  <2>1. k.sd = sd /\ k.err = diskErr
    BY <1>6 DEF Sought, Result
  <2> QED BY <1>1, <1>2, <1>3, <1>6, <2>1
<1> QED
  BY <1>5, <1>6

(* The bytes of a sector, one after the other.                             *)
LEMMA Collects ==
  ASSUME NEW D, SectorInv(D), z80 = "call", call = "WRITESECT", ioOpcode = call,
         NEW byte \in Int, NEW k \in Sought, k.err = 0
  PROVE  LET n   == Len(moved)
             m   == Append(moved, byte)
             buf == [bufferSD EXCEPT ![Place] = byte]
         IN /\ ioByteCnt = n /\ n < SectBytes
            /\ m \in Seq(Int) /\ Len(m) = n + 1
            /\ buf \in Segment
            /\ k.sd.at = SectorStart
            /\ Len(k.sd.unsent) = n \div SegBytes
            /\ \A j \in 1 .. n \div SegBytes, i \in 1 .. SegBytes :
                 k.sd.unsent[j][i] = m[SegBytes * (j - 1) + i]
            /\ \A i \in 1 .. Place : buf[i] = m[SegBytes * (n \div SegBytes) + i]
            /\ calm => Linked /\ k.sd.open
<1> DEFINE n   == Len(moved)
           m   == Append(moved, byte)
           buf == [bufferSD EXCEPT ![Place] = byte]
           q   == n \div SegBytes
           r   == n % SegBytes
<1>1. /\ moved \in Seq(Int) /\ n \in Nat /\ bufferSD \in Segment
      /\ m \in Seq(Int) /\ Len(m) = n + 1
      /\ \A i \in 1 .. n : m[i] = moved[i]
      /\ m[n + 1] = byte
  BY DEF SectorInv, TransferTypes
<1>2. /\ k.err = 0 => diskErr = 0
      /\ IF ioByteCnt = 0
         THEN /\ Linked /\ sd.open
              /\ k.sd.at = SectorStart /\ k.sd.unsent = <<>> /\ (k.sd.open <=> sd.open)
         ELSE k.sd = sd
  BY SoughtResult DEF Transfers
<1>3. ioByteCnt = n /\ n < SectBytes /\ (calm => Linked)
  BY <1>2 DEF SectorInv, WriteInv, Counting, Transfers
<1>4. /\ q \in Nat /\ r \in 0 .. SegBytes - 1 /\ n = SegBytes * q + r
      /\ Place = r + 1
  BY <1>1, <1>3, Parts, Sizes DEF Place
<1>5. /\ k.sd.at = SectorStart
      /\ Len(k.sd.unsent) = q
      /\ \A j \in 1 .. q, i \in 1 .. SegBytes :
           k.sd.unsent[j][i] = moved[SegBytes * (j - 1) + i]
      /\ \A i \in 1 .. r : bufferSD[i] = moved[SegBytes * q + i]
      /\ calm => k.sd.open
  <2>1. CASE n = 0
    <3>1. q = 0 /\ r = 0
      <4>1. 0 \in 0 .. SegBytes - 1
        BY Sizes
      <4>2. (SegBytes * 0 + 0) \div SegBytes = 0 /\ (SegBytes * 0 + 0) % SegBytes = 0
        BY <4>1, OnlyParts, Sizes
      <4>3. SegBytes * 0 + 0 = 0
        BY Sizes
      <4> QED BY <2>1, <4>2, <4>3
    <3>2. k.sd.at = SectorStart /\ k.sd.unsent = <<>> /\ k.sd.open
      BY <1>2, <1>3, <2>1
    <3> HIDE DEF q, r
    <3> QED BY <3>1, <3>2
  <2>2. CASE n # 0
    <3>1. Amid("WRITESECT") /\ k.sd = sd
      BY <1>1, <1>2, <1>3, <2>2 DEF Amid
    <3>2. Unsent(sd, bufferSD, n) /\ (calm => sd.open)
      BY <3>1 DEF SectorInv, WriteInv
    <3> QED BY <3>1, <3>2 DEF Unsent
  <2> QED BY <2>1, <2>2
<1> HIDE DEF q, r, m
<1>6. \A j \in 1 .. q, i \in 1 .. SegBytes :
        k.sd.unsent[j][i] = m[SegBytes * (j - 1) + i]
  <2> SUFFICES ASSUME NEW j \in 1 .. q, NEW i \in 1 .. SegBytes
               PROVE  k.sd.unsent[j][i] = m[SegBytes * (j - 1) + i]
    OBVIOUS
  <2>1. SegBytes * j <= SegBytes * q
    BY <1>4, Sizes
  <2>2. SegBytes * (j - 1) = SegBytes * j - SegBytes /\ SegBytes * (j - 1) \in Nat
    BY <1>4, Sizes
  <2>3. SegBytes * (j - 1) + i \in 1 .. n
    BY <1>4, <2>1, <2>2, Sizes
  <2> QED BY <1>1, <1>5, <2>3
<1>7. Place \in 1 .. SegBytes
  BY <1>4, Sizes
<1>8. /\ buf \in Segment
      /\ \A i \in 1 .. SegBytes : buf[i] = IF i = r + 1 THEN byte ELSE bufferSD[i]
  BY <1>1, <1>4, <1>7 DEF Segment
<1>9. \A i \in 1 .. Place : buf[i] = m[SegBytes * q + i]
  <2> SUFFICES ASSUME NEW i \in 1 .. r + 1
               PROVE  buf[i] = m[SegBytes * q + i]
    BY <1>4
  <2>1. i \in 1 .. SegBytes /\ SegBytes * q \in Nat
    BY <1>4, Sizes
  <2>2. CASE i = r + 1
    <3>1. SegBytes * q + i = n + 1
      BY <1>4, <2>1, <2>2
    <3> QED BY <1>1, <1>8, <2>1, <2>2, <3>1
  <2>3. CASE i # r + 1
    <3>1. i \in 1 .. r /\ SegBytes * q + i \in 1 .. n
      BY <1>4, <2>1, <2>3
    <3>2. buf[i] = bufferSD[i]
      BY <1>8, <2>1, <2>3
    <3>3. bufferSD[i] = moved[SegBytes * q + i]
      BY <1>5, <3>1
    <3>4. moved[SegBytes * q + i] = m[SegBytes * q + i]
      BY <1>1, <3>1
    <3> QED BY <3>2, <3>3, <3>4
  <2> QED BY <2>2, <2>3
<1> QED
  BY <1>1, <1>3, <1>5, <1>6, <1>8, <1>9 DEF q, m
(* A sector of a full disk that is stored is there, and nothing else is    *)
(* touched.                                                                *)
LEMMA WholeSector ==
  ASSUME NEW D, NEW s \in DiskRecord(D), s.file \in D, disk \in DOMAIN DiskName,
         s.file = DiskName[disk], s.at = SectorStart,
         track \in Nat, sect \in Nat, track < MaxTracks, sect < MaxSects,
         FullDisks(s.content),
         NEW segs \in Seq(Segment), Len(segs) = Segments,
         NEW m \in Seq(Int), Len(m) = SectBytes,
         \A j \in 1 .. Segments, i \in 1 .. SegBytes :
           segs[j][i] = m[SegBytes * (j - 1) + i]
  PROVE  /\ SectorHas(Stored(s, segs).content, m)
         /\ \A f \in DOMAIN s.content : \A i \in DOMAIN s.content[f] :
              \/ Stored(s, segs).content[f][i] = s.content[f][i]
              \/ f = DiskName[disk] /\ i - SectorStart \in 1 .. Segments
<1> DEFINE new == Stored(s, segs).content
           name == DiskName[disk]
<1>1. /\ s.content \in [D -> Seq(Seq(Int))]
      /\ \A f \in D : Len(s.content[f]) \in Nat /\ DOMAIN s.content[f] = 1 .. Len(s.content[f])
  BY DEF DiskRecord
<1>2. \A f \in D : \A i \in 1 .. Len(s.content[f]) :
        new[f][i] = IF f = name /\ i > SectorStart /\ i <= SectorStart + Segments
                    THEN segs[i - SectorStart] ELSE s.content[f][i]
  BY StoredResult
<1> HIDE DEF new
<1>3. /\ SectorStart \in Nat
      /\ SectorStart + Segments <= Len(s.content[name])
  <2>1. /\ SectorStart \in Nat
        /\ SectorStart + Segments <= MaxTracks * MaxSects * Segments
    BY PlaceOnDisk DEF SectorStart
  <2>2. MaxTracks * MaxSects * Segments <= Len(s.content[name])
    BY <1>1 DEF FullDisks
  <2>3. MaxTracks * MaxSects * Segments \in Nat /\ Len(s.content[name]) \in Nat
    <3>1. MaxTracks * MaxSects \in Nat
      BY Sizes
    <3> QED BY <1>1, <3>1, Sizes
  <2> QED BY <2>1, <2>2, <2>3, Sizes
<1>4. \A i \in DOMAIN m : m[i] = SectorByte(new, i)
  <2> SUFFICES ASSUME NEW i \in 1 .. SectBytes
               PROVE  m[i] = SectorByte(new, i)
    OBVIOUS
  <2> DEFINE q == (i - 1) \div SegBytes
             r == (i - 1) % SegBytes
  <2>1. q \in Nat /\ r \in 0 .. SegBytes - 1 /\ i - 1 = SegBytes * q + r
    <3>1. i - 1 \in Nat
      BY Sizes
    <3> QED BY <3>1, Parts, Sizes
  <2> HIDE DEF q, r
  <2>2. q + 1 <= Segments
    <3>1. CASE q >= Segments
      <4>1. SegBytes * q >= SegBytes * Segments
        BY <2>1, <3>1, Sizes
      <4>2. SegBytes * q >= SectBytes
        BY <4>1, Sizes
      <4> DEFINE p == SegBytes * q
      <4>3. p \in Nat /\ p >= SectBytes /\ i - 1 = p + r
        BY <2>1, <4>2, Sizes
      <4> HIDE DEF p
      <4>4. FALSE
        BY <2>1, <4>3, Sizes
      <4> QED BY <4>4
    <3> QED BY <2>1, <3>1, Sizes
  <2>3. /\ SectorStart + q + 1 \in 1 .. Len(s.content[name])
        /\ SectorStart + q + 1 > SectorStart
        /\ SectorStart + q + 1 <= SectorStart + Segments
        /\ (SectorStart + q + 1) - SectorStart = q + 1
    BY <1>1, <1>3, <2>1, <2>2, Sizes
  <2>4. new[name][SectorStart + q + 1] = segs[q + 1]
    BY <1>2, <2>3
  <2>5. segs[q + 1][r + 1] = m[SegBytes * ((q + 1) - 1) + (r + 1)]
    BY <2>1, <2>2, Sizes
  <2>6. SegBytes * ((q + 1) - 1) + (r + 1) = i
    BY <2>1, Sizes
  <2>7. SectorByte(new, i) = new[name][SectorStart + q + 1][r + 1]
    BY DEF SectorByte, q, r
  <2> QED BY <2>4, <2>5, <2>6, <2>7
<1>5. ASSUME NEW f \in D, NEW i \in 1 .. Len(s.content[f])
      PROVE  \/ new[f][i] = s.content[f][i]
             \/ f = name /\ i - SectorStart \in 1 .. Segments
  BY <1>1, <1>2, <1>3, Sizes
<1> QED
  BY <1>1, <1>4, <1>5 DEF SectorHas, new
(* The files keep their lengths.                                           *)
LengthsKept(D) == \A f \in D : Len(sd'.content[f]) = Len(sd.content[f])

(* With their lengths kept, they are as full as before.                    *)
LEMMA FullKept ==
  ASSUME NEW D, sd \in DiskRecord(D), sd' \in DiskRecord(D), LengthsKept(D)
  PROVE  FullDisks(sd.content)' <=> FullDisks(sd.content)
<1>1. DOMAIN sd.content = D /\ DOMAIN sd'.content = D
  BY DEF DiskRecord
<1> QED
  BY <1>1 DEF FullDisks, LengthsKept

(* What a step may change of the files.                                    *)
OneSector ==
  sd'.content # sd.content =>
    /\ call = "WRITESECT" /\ Len(moved') = SectBytes
    /\ SectorHas(sd'.content, moved')
    /\ \A f \in DOMAIN sd.content :
         \A i \in DOMAIN sd.content[f] :
           \/ sd'.content[f][i] = sd.content[f][i]
           \/ f = DiskName[disk] /\ i - SectorStart \in 1 .. Segments

(* A byte of WRITESECT, with all that becomes of it.                       *)
LEMMA WriteStep ==
  ASSUME NEW D, SectorInv(D), Out, call = "WRITESECT"
  PROVE  SectorInv(D)' /\ LengthsKept(D) /\ (FullDisks(sd.content) => OneSector)
<1>1. PICK byte \in Bytes : ExecuteWrite(byte)
  BY DEF Out
<1>2. byte \in Int
  <2>1. Len(moved) \in Nat
    BY DEF SectorInv, TransferTypes
  <2>2. (Len(moved) % SectBytes) + 1 \in 1 .. SectBytes
    BY <2>1, Parts, Sizes
  <2>3. byte = NewBytes[(Len(moved) % SectBytes) + 1]
    BY <1>1 DEF Bytes
  <2> QED BY <2>2, <2>3, ProgramAssumption
<1>3. /\ z80 = "call" /\ Running /\ ioData' = byte
      /\ UNCHANGED <<z80, call, chosen, disk, track, sect, placed, bootPc, calm, linkVars>>
      /\ moved' = IF Len(moved) < SectBytes THEN Append(moved, byte) ELSE moved
  BY <1>1 DEF Out, Transfers, InForce, ExecuteWrite, Program, bootVars
<1>4. /\ call \in Transfers /\ ioOpcode \in {call, "NOP"}
      /\ WriteSect \/ WriteNothing
      /\ trackSel' = trackSel /\ sectSel' = sectSel
  <2>1. call \in Transfers
    BY DEF Transfers
  <2>2. ioOpcode \in {call, "NOP"}
    BY <1>3, <2>1 DEF SectorInv, SettingInv
  <2>3. WriteSect \/ WriteNothing
    BY <1>1, <2>2 DEF ExecuteWrite, SelDisk, SelTrack, SelSect, SetIrq
  <2> QED BY <2>1, <2>2, <2>3 DEF WriteSect, WriteNothing, diskVars
<1>5. /\ sd \in DiskRecord(D) /\ (sd.open => sd.file \in D) /\ bufferSD \in Segment
      /\ moved \in Seq(Int) /\ Len(moved) <= SectBytes /\ ioByteCnt \in 0 .. CntMod - 1
      /\ ioByteCnt \in Nat
  BY Sizes DEF SectorInv, TransferTypes
<1>6. moved' \in Seq(Int) /\ Len(moved') <= SectBytes
  BY <1>2, <1>3, <1>5, Sizes
<1>7. ASSUME sd' \in DiskRecord(D), sd'.file = sd.file, sd'.open <=> sd.open,
             bufferSD' \in Segment, ioByteCnt' \in 0 .. CntMod - 1
      PROVE  TransferTypes(D)'
  BY <1>3, <1>5, <1>6, <1>7 DEF SectorInv, TransferTypes
<1>8. disk \in DOMAIN DiskName /\ (sd.open => sd.file = DiskName[disk])
  BY <1>4 DEF SectorInv, SettingInv, Refers
<1>9. CASE WriteNothing
  <2>1. /\ UNCHANGED <<sd, bufferSD, diskErr, ioByteCnt>> /\ ioOpcode = "NOP"
        /\ ioOpcode' = "NOP"
    BY <1>4, <1>9 DEF WriteNothing, Single, diskVars, WriteOpcodes
  <2>2. TransferTypes(D)'
    BY <1>5, <1>7, <2>1
  <2>3. CASE diskErr # 0
    <3>1. SectorInv(D)'
      BY <1>3, <1>4, <2>1, <2>2, <2>3, FailedKeeps
    <3> QED BY <2>1, <3>1 DEF LengthsKept, OneSector
  <2>4. CASE diskErr = 0
    <3>1. Counting
      BY <1>3, <2>4 DEF SectorInv, WriteInv
    <3>2. moved' = moved
      BY <1>3, <2>1, <3>1 DEF Counting
    <3>3. calm' => calm /\ (Linked => Linked')
      BY <1>3 DEF linkVars, Linked
    <3>4. SectorInv(D)'
      BY <1>3, <1>4, <2>1, <3>2, <3>3, AsideKeeps
    <3> QED BY <2>1, <3>4 DEF LengthsKept, OneSector
  <2> QED BY <2>3, <2>4
<1>10. CASE WriteSect
  <2>1. ioOpcode = call
    BY <1>10 DEF WriteSect
  <2> DEFINE n    == Len(moved)
             m    == Append(moved, byte)
             buf  == [bufferSD EXCEPT ![Place] = byte]
             q    == n \div SegBytes
             last == ioByteCnt >= SectBytes - 1
  <2>2. PICK k \in Sought :
          IF k.err # 0
          THEN /\ sd' = k.sd /\ diskErr' = k.err
               /\ Counted(TRUE)
               /\ UNCHANGED bufferSD
          ELSE /\ bufferSD' = buf
               /\ IF Place < SegBytes
                  THEN /\ sd' = k.sd /\ diskErr' = 0
                       /\ Counted(TRUE)
                  ELSE \E w \in WriteSD(k.sd, buf) :
                         LET err == IF w.n < SegBytes THEN 19 ELSE w.err
                         IN /\ \E f \in IF last /\ err = 0 THEN FinalizeSD(w.sd)
                                        ELSE { Result(w.sd, err, 0) } :
                                 /\ sd' = f.sd
                                 /\ diskErr' = f.err
                            /\ Counted(~last)
    BY <1>3, <1>10 DEF WriteSect
  <2>3. /\ k.sd \in DiskRecord(D)
        /\ k.sd.file = sd.file /\ (k.sd.open <=> sd.open) /\ k.sd.content = sd.content
        /\ k.err = 0 => diskErr = 0 /\ track < MaxTracks /\ sect < MaxSects
    BY <1>3, <1>4, SoughtResult
  <2>4. /\ ioByteCnt' = (ioByteCnt + 1) % CntMod
        /\ ioOpcode' \in {call, "NOP"}
    BY <2>1, <2>2 DEF Counted
  <2>5. ioByteCnt' \in 0 .. CntMod - 1
    <3>1. ioByteCnt + 1 \in Nat /\ CntMod \in Nat \ {0}
      BY <1>5, Sizes
    <3> QED BY <2>4, <3>1, Parts
  <2>6. CASE k.err # 0
    <3>1. sd' = k.sd /\ diskErr' # 0 /\ bufferSD' = bufferSD
      BY <2>2, <2>6
    <3>2. TransferTypes(D)'
      BY <1>5, <1>7, <2>3, <2>5, <3>1
    <3>3. SectorInv(D)'
      BY <1>3, <1>4, <2>3, <2>4, <3>1, <3>2, FailedKeeps
    <3> QED BY <2>3, <3>1, <3>3 DEF LengthsKept, OneSector
  <2>7. CASE k.err = 0
    <3>1. /\ ioByteCnt = n /\ n < SectBytes
          /\ m \in Seq(Int) /\ Len(m) = n + 1
          /\ buf \in Segment
          /\ k.sd.at = SectorStart
          /\ Len(k.sd.unsent) = q
          /\ \A j \in 1 .. q, i \in 1 .. SegBytes :
               k.sd.unsent[j][i] = m[SegBytes * (j - 1) + i]
          /\ \A i \in 1 .. Place : buf[i] = m[SegBytes * q + i]
          /\ calm => Linked /\ k.sd.open
      BY <1>2, <1>3, <2>1, <2>7, Collects
    <3>2. moved' = m /\ bufferSD' = buf
      BY <1>3, <2>2, <2>7, <3>1
    <3>3. n \in Nat /\ ioByteCnt' = n + 1
      <4>1. n \in Nat /\ n + 1 \in 0 .. CntMod - 1
        BY <1>5, <3>1, Sizes
      <4>2. (CntMod * 0 + (n + 1)) % CntMod = n + 1
        BY <4>1, OnlyParts, Sizes
      <4>3. CntMod * 0 + (n + 1) = n + 1
        BY <4>1, Sizes
      <4> QED BY <2>4, <3>1, <4>1, <4>2, <4>3
    <3>4. /\ Place = (n % SegBytes) + 1 /\ n % SegBytes \in 0 .. SegBytes - 1
          /\ q \in Nat /\ n = SegBytes * q + (n % SegBytes)
      BY <3>1, <3>3, Parts, Sizes DEF Place
    <3>5. IF Place = SegBytes
          THEN (n + 1) \div SegBytes = q + 1 /\ (n + 1) % SegBytes = 0
          ELSE (n + 1) \div SegBytes = q /\ (n + 1) % SegBytes = Place
      <4>1. IF n % SegBytes = SegBytes - 1
            THEN (n + 1) \div SegBytes = q + 1 /\ (n + 1) % SegBytes = 0
            ELSE (n + 1) \div SegBytes = q /\ (n + 1) % SegBytes = (n % SegBytes) + 1
        BY <3>3, NextParts, Sizes
      <4>2. n % SegBytes = SegBytes - 1 <=> Place = SegBytes
        BY <3>4, Sizes
      <4> QED BY <3>4, <4>1, <4>2
    <3>6. /\ q + 1 <= Segments
          /\ IF Place = SegBytes THEN n + 1 = SectBytes <=> q + 1 = Segments
             ELSE n + 1 < SectBytes
      <4> HIDE DEF q, n
      <4>1. q + 1 <= Segments
        <5>1. SUFFICES ASSUME q >= Segments PROVE FALSE
          BY <3>4, Sizes
        <5>2. SegBytes * q >= SegBytes * Segments
          BY <3>4, <5>1, Sizes
        <5> DEFINE p == SegBytes * q
        <5>3. p \in Nat /\ p >= SectBytes /\ n = p + (n % SegBytes)
          BY <3>4, <5>2, Sizes
        <5> HIDE DEF p
        <5> QED BY <3>1, <3>3, <3>4, <5>3, Sizes
      <4>2. CASE Place = SegBytes
        <5>1. n + 1 = SegBytes * (q + 1)
          <6>1. SegBytes * (q + 1) = SegBytes * q + SegBytes /\ SegBytes * q \in Nat
            BY <3>4, Sizes
          <6> QED BY <3>3, <3>4, <4>2, <6>1, Sizes
        <5>2. q + 1 = Segments => n + 1 = SectBytes
          BY <5>1, Sizes
        <5>3. q + 1 # Segments => n + 1 < SectBytes
          <6>1. SUFFICES ASSUME q + 1 <= Segments - 1 PROVE n + 1 < SectBytes
            BY <3>4, <4>1, Sizes
          <6>2. SegBytes * (q + 1) <= SegBytes * (Segments - 1)
            BY <3>4, <6>1, Sizes
          <6>3. SegBytes * (Segments - 1) = SectBytes - SegBytes
            BY Sizes
          <6> QED BY <3>3, <5>1, <6>2, <6>3, Sizes
        <5> QED BY <4>1, <4>2, <5>2, <5>3, Sizes
      <4>3. CASE Place # SegBytes
        <5>1. (n + 1) % SegBytes # 0
          BY <3>4, <3>5, <4>3, Sizes
        <5>2. SectBytes % SegBytes = 0
          <6>1. (SegBytes * Segments + 0) % SegBytes = 0
            <7>1. 0 \in 0 .. SegBytes - 1
              BY Sizes
            <7> QED BY <7>1, OnlyParts, Sizes
          <6>2. SegBytes * Segments + 0 = SectBytes
            BY Sizes
          <6> QED BY <6>1, <6>2
        <5>3. n + 1 # SectBytes
          BY <5>1, <5>2
        <5> QED BY <3>1, <3>3, <4>1, <4>3, <5>3, Sizes
      <4> QED BY <4>2, <4>3
    <3>7. ASSUME sd' \in DiskRecord(D), sd'.file = sd.file, sd'.open <=> sd.open
          PROVE  TransferTypes(D)' /\ SettingInv'
      BY <1>3, <1>4, <1>7, <2>3, <2>4, <2>5, <2>7, <3>1, <3>2, <3>7, TransferSetting
    <3>8. ReadInv'
      BY <1>3 DEF ReadInv, SectorRead, Amid
    <3>9. (call \in Transfers /\ calm => Linked)'
      BY <1>3, <3>1 DEF Linked, linkVars
    <3> HIDE DEF m, buf, q
    <3>10. CASE Place < SegBytes
      <4>1. sd' = k.sd /\ ioOpcode' = call
        BY <2>1, <2>2, <2>7, <3>10 DEF Counted
      <4>2. n + 1 < SectBytes /\ (n + 1) \div SegBytes = q /\ (n + 1) % SegBytes = Place
        BY <3>4, <3>5, <3>6, <3>10, Sizes
      <4>3. Counting'
        BY <1>3, <3>1, <3>2, <3>3, <4>1, <4>2 DEF Counting
      <4>4. Unsent(sd, bufferSD, Len(moved))'
        BY <1>3, <3>1, <3>2, <4>1, <4>2 DEF Unsent, SectorStart
      <4>5. ~SectorWritten' => FALSE
        BY <3>1, <3>2, <3>3, <4>2, Sizes DEF SectorWritten
      <4>6. WriteInv'
        BY <1>3, <3>1, <3>9, <4>1, <4>3, <4>4, <4>5 DEF WriteInv
      <4>7. TransferTypes(D)' /\ SettingInv'
        BY <2>3, <3>7, <4>1
      <4> QED BY <2>3, <3>8, <4>1, <4>6, <4>7 DEF SectorInv, LengthsKept, OneSector
    <3>11. CASE ~(Place < SegBytes)
      <4> DEFINE segs == Append(k.sd.unsent, buf)
      <4>1. Place = SegBytes /\ (n + 1) \div SegBytes = q + 1 /\ (n + 1) % SegBytes = 0
        BY <3>4, <3>5, <3>11, Sizes
      <4>2. PICK w \in WriteSD(k.sd, buf) :
              LET err == IF w.n < SegBytes THEN 19 ELSE w.err
              IN /\ \E f \in IF last /\ err = 0 THEN FinalizeSD(w.sd)
                             ELSE { Result(w.sd, err, 0) } :
                      /\ sd' = f.sd
                      /\ diskErr' = f.err
                 /\ Counted(~last)
        BY <2>2, <2>7, <3>11
      <4>3. /\ sd' = w.sd
            /\ diskErr' = 0 => w.err = 0
            /\ ioOpcode' = IF last THEN "NOP" ELSE call
        <5>1. PICK f : /\ \/ f \in FinalizeSD(w.sd) /\ w.err = 0
                          \/ f = Result(w.sd, IF w.n < SegBytes THEN 19 ELSE w.err, 0)
                       /\ sd' = f.sd /\ diskErr' = f.err
          BY <4>2
        <5> QED BY <2>1, <4>2, <5>1 DEF FinalizeSD, Result, Counted
      <4>4. Len(k.sd.unsent) < Segments
        BY <3>1, <3>4, <3>6, Sizes
      <4>5. /\ w.sd \in DiskRecord(D)
            /\ w.sd.file = k.sd.file /\ (w.sd.open <=> k.sd.open)
            /\ \A f \in D : Len(w.sd.content[f]) = Len(k.sd.content[f])
            /\ IF q + 1 < Segments
               THEN /\ w.sd.content = k.sd.content
                    /\ w.err = 0 => w.sd = [k.sd EXCEPT !.unsent = segs]
               ELSE /\ w.err = 0 /\ Linked /\ k.sd.open => w.sd = Stored(k.sd, segs)
                    /\ w.sd.content # k.sd.content =>
                         k.sd.open /\ w.sd = Stored(k.sd, segs)
        <5>1. /\ k.sd \in DiskRecord(D) /\ (k.sd.open => k.sd.file \in D)
              /\ buf \in Segment /\ Len(k.sd.unsent) = q
              /\ w \in WriteSD(k.sd, buf)
          BY <1>5, <2>3, <3>1, <4>2
        <5>2. /\ w.sd \in DiskRecord(D)
              /\ w.sd.file = k.sd.file /\ (w.sd.open <=> k.sd.open)
              /\ \A f \in D : Len(w.sd.content[f]) = Len(k.sd.content[f])
              /\ IF Len(k.sd.unsent) + 1 < Segments
                 THEN /\ w.sd.content = k.sd.content
                      /\ w.err = 0 => w.sd = [k.sd EXCEPT !.unsent = segs]
                 ELSE /\ w.err = 0 /\ Linked /\ k.sd.open => w.sd = Stored(k.sd, segs)
                      /\ w.sd.content # k.sd.content =>
                           k.sd.open /\ w.sd = Stored(k.sd, segs)
          <6>1. WriteGives(D, k.sd, buf, w)
            BY <4>4, <5>1, WriteResult
          <6> QED BY <6>1 DEF WriteGives
        <5> QED BY <5>1, <5>2
      <4>6. TransferTypes(D)' /\ SettingInv' /\ LengthsKept(D)
        BY <2>3, <3>7, <4>3, <4>5 DEF LengthsKept
      <4>7. /\ segs \in Seq(Segment) /\ Len(segs) = q + 1
            /\ \A j \in 1 .. q + 1, i \in 1 .. SegBytes :
                 segs[j][i] = m[SegBytes * (j - 1) + i]
        <5>1. /\ k.sd.unsent \in Seq(Segment) /\ buf \in Segment
              /\ Len(k.sd.unsent) = q /\ q \in Nat
          BY <2>3, <3>1, <3>4 DEF DiskRecord
        <5>2. /\ segs \in Seq(Segment) /\ Len(segs) = q + 1
              /\ \A j \in 1 .. q : segs[j] = k.sd.unsent[j]
              /\ segs[q + 1] = buf
          BY <5>1
        <5> HIDE DEF segs
        <5>3. ASSUME NEW j \in 1 .. q + 1, NEW i \in 1 .. SegBytes
              PROVE  segs[j][i] = m[SegBytes * (j - 1) + i]
          <6>1. CASE j = q + 1
            <7>1. j - 1 = q
              BY <5>1, <6>1
            <7>2. buf[i] = m[SegBytes * q + i]
              BY <3>1, <4>1
            <7>3. segs[j][i] = buf[i]
              BY <5>2, <6>1
            <7> QED BY <7>1, <7>2, <7>3
          <6>2. CASE j # q + 1
            <7>1. j \in 1 .. q
              BY <3>4, <6>2
            <7>2. k.sd.unsent[j][i] = m[SegBytes * (j - 1) + i]
              BY <3>1, <7>1
            <7> QED BY <5>2, <7>1, <7>2
          <6> QED BY <6>1, <6>2
        <5> QED BY <5>2, <5>3
      <4> HIDE DEF segs
      <4>8. CASE q + 1 < Segments
        <5>1. n + 1 < SectBytes /\ ~last
          <6>1. n \in Nat /\ n < SectBytes /\ ioByteCnt = n
            BY <3>1, <3>3
          <6>2. n + 1 # SectBytes
            BY <3>4, <3>6, <4>1, <4>8, Sizes
          <6> HIDE DEF n
          <6> QED BY <6>1, <6>2, Sizes
        <5>2. sd'.content = sd.content
          BY <2>3, <4>3, <4>5, <4>8
        <5>3. CASE diskErr' = 0
          <6>1. /\ sd' = [k.sd EXCEPT !.unsent = segs]
                /\ sd'.at = k.sd.at /\ sd'.unsent = segs
            BY <2>3, <4>3, <4>5, <4>8, <5>3 DEF DiskRecord
          <6>2. Counting'
            BY <1>3, <3>1, <3>2, <3>3, <4>3, <5>1 DEF Counting
          <6>3. Unsent(sd, bufferSD, Len(moved))'
            <7>1. SectorStart' = SectorStart /\ k.sd.at = SectorStart
              BY <1>3, <3>1 DEF SectorStart
            <7>2. /\ Len(m) = n + 1 /\ (n + 1) \div SegBytes = q + 1
                  /\ (n + 1) % SegBytes = 0
              BY <3>1, <4>1
            <7> HIDE DEF n
            <7> QED BY <3>2, <4>7, <6>1, <7>1, <7>2 DEF Unsent
          <6>4. SectorWritten'
            BY <3>1, <3>2, <3>3, <5>1, Sizes DEF SectorWritten
          <6>5. WriteInv'
            BY <1>3, <3>1, <3>9, <4>3, <4>5, <6>2, <6>3, <6>4 DEF WriteInv
          <6> QED BY <3>8, <4>6, <5>2, <6>5 DEF SectorInv, OneSector
        <5>4. CASE diskErr' # 0
          <6>1. WriteInv'
            BY <3>9, <5>4 DEF WriteInv, SectorWritten, Amid
          <6> QED BY <3>8, <4>6, <5>2, <6>1 DEF SectorInv, OneSector
        <5> QED BY <5>3, <5>4
      <4>9. CASE ~(q + 1 < Segments)
        <5>1. q + 1 = Segments /\ n + 1 = SectBytes /\ last
          <6>1. q \in Nat /\ Segments \in Nat /\ q + 1 <= Segments
            BY <3>4, <3>6, Sizes
          <6>2. q + 1 = Segments
            BY <4>9, <6>1
          <6>3. n + 1 = SectBytes
            BY <3>6, <4>1, <6>2
          <6>4. n \in Nat /\ ioByteCnt = n
            BY <3>1, <3>3
          <6> HIDE DEF n
          <6> QED BY <6>2, <6>3, <6>4, Sizes
        <5>2. ASSUME FullDisks(sd.content), k.sd.open, w.sd = Stored(k.sd, segs)
              PROVE  /\ SectorHas(sd'.content, m)
                     /\ \A f \in DOMAIN sd.content : \A i \in DOMAIN sd.content[f] :
                          \/ sd'.content[f][i] = sd.content[f][i]
                          \/ f = DiskName[disk] /\ i - SectorStart \in 1 .. Segments
          <6>1. /\ k.sd.file \in D /\ k.sd.file = DiskName[disk]
                /\ FullDisks(k.sd.content)
                /\ track \in Nat /\ sect \in Nat /\ track < MaxTracks /\ sect < MaxSects
            BY <1>5, <1>8, <2>3, <2>7, <5>2, Sizes DEF SectorInv, TransferTypes
          <6>2. /\ segs \in Seq(Segment) /\ Len(segs) = Segments
                /\ m \in Seq(Int) /\ Len(m) = SectBytes
                /\ \A j \in 1 .. Segments, i \in 1 .. SegBytes :
                     segs[j][i] = m[SegBytes * (j - 1) + i]
            BY <3>1, <4>7, <5>1
          <6>3. /\ SectorHas(Stored(k.sd, segs).content, m)
                /\ \A f \in DOMAIN k.sd.content : \A i \in DOMAIN k.sd.content[f] :
                     \/ Stored(k.sd, segs).content[f][i] = k.sd.content[f][i]
                     \/ f = DiskName[disk] /\ i - SectorStart \in 1 .. Segments
            <7>1. /\ disk \in DOMAIN DiskName /\ k.sd.at = SectorStart
                  /\ k.sd \in DiskRecord(D)
              BY <1>8, <2>3, <3>1
            <7> QED BY <6>1, <6>2, <7>1, WholeSector
          <6> QED BY <2>3, <4>3, <5>2, <6>3
        <5>3. FullDisks(sd.content)' <=> FullDisks(sd.content)
          BY <1>5, <4>6, FullKept DEF TransferTypes
        <5>4. Counting'
          BY <3>1, <3>2, <4>3, <5>1 DEF Counting
        <5>5. FullDisks(sd.content)' => SectorWritten'
          <6>1. SUFFICES ASSUME FullDisks(sd.content), calm, diskErr' = 0
                         PROVE  SectorHas(sd'.content, m)
            BY <1>3, <3>2, <5>3 DEF SectorWritten, SectorHas, SectorByte, SectorStart
          <6>2. w.sd = Stored(k.sd, segs) /\ k.sd.open
            BY <3>1, <4>3, <4>5, <4>9, <6>1
          <6> QED BY <5>2, <6>1, <6>2
        <5>6. WriteInv'
          BY <1>3, <3>9, <4>3, <5>1, <5>4, <5>5 DEF WriteInv, Amid
        <5>7. FullDisks(sd.content) => OneSector
          <6>1. SUFFICES ASSUME FullDisks(sd.content), sd'.content # sd.content
                         PROVE  OneSector
            BY DEF OneSector
          <6>2. w.sd = Stored(k.sd, segs) /\ k.sd.open
            BY <2>3, <4>3, <4>5, <4>9, <6>1
          <6> QED BY <3>1, <3>2, <5>1, <5>2, <6>1, <6>2 DEF OneSector
        <5> QED BY <3>8, <4>6, <5>6, <5>7 DEF SectorInv
      <4> QED BY <4>8, <4>9
    <3> QED BY <3>10, <3>11
  <2> QED BY <2>6, <2>7
<1> QED
  BY <1>4, <1>9, <1>10
-----------------------------------------------------------------------------
(* ERRDISK confirms the disk; the other opcodes of one byte leave it.      *)
LEMMA AskKeeps ==
  ASSUME NEW D, SectorInv(D), In, call \notin Transfers
  PROVE  SectorInv(D)' /\ sd' = sd
<1>1. /\ z80 = "call" /\ ioOpcode = call /\ call \in {"ERRDISK", "SYSIRQ"}
      /\ ErrDisk \/ SysIrq
      /\ Running /\ Running'
      /\ UNCHANGED <<z80, call, track, sect, placed, moved, calm, bootPc>>
      /\ disk' = IF call = "ERRDISK" /\ chosen # -1 /\ ioData' = 0 THEN chosen ELSE disk
      /\ chosen' = IF call = "ERRDISK" THEN -1 ELSE chosen
  BY DEF In, Transfers, ReadOpcodes, InForce, ExecuteRead, ErrDisk, SysIrq, ReadSect,
         ReadNothing, Running, Program, bootVars
<1>2. /\ UNCHANGED <<sd, bufferSD, diskErr, trackSel, sectSel, ioByteCnt>>
      /\ ioOpcode' = "NOP"
      /\ call = "ERRDISK" => ioData' = diskErr
  BY <1>1 DEF ErrDisk, SysIrq, Single, diskVars
<1>3. ReadInv' /\ WriteInv'
  BY <1>1 DEF ReadInv, WriteInv, SectorRead, SectorWritten, Amid, Transfers
<1>4. TransferTypes(D)'
  BY <1>1, <1>2 DEF SectorInv, TransferTypes
<1>5. /\ trackSel = track /\ sectSel = sect
      /\ placed /\ diskErr = 0 => PlaceError(trackSel, sectSel) = 0
  BY <1>1 DEF SectorInv, SettingInv, Placing
<1>6. \A n : Refers(n) => Refers(n)'
  BY <1>2 DEF Refers
<1>7. disk' # -1 => Refers(disk)'
  <2>1. CASE call = "ERRDISK" /\ chosen # -1 /\ ioData' = 0
    <3>1. disk' = chosen /\ Refers(chosen)
      BY <1>1, <1>2, <2>1 DEF SectorInv, SettingInv
    <3> QED BY <1>2, <3>1 DEF Refers
  <2>2. CASE ~(call = "ERRDISK" /\ chosen # -1 /\ ioData' = 0)
    <3>1. disk' = disk
      BY <1>1, <2>2
    <3>2. disk # -1 => Refers(disk)
      BY DEF SectorInv, SettingInv
    <3> QED BY <1>2, <3>1, <3>2 DEF Refers
  <2> QED BY <2>1, <2>2
<1>8. chosen' = -1
  BY <1>1 DEF SectorInv, SettingInv
<1>9. SettingInv'
  BY <1>1, <1>2, <1>5, <1>7, <1>8 DEF SettingInv, Placing, Transfers, PlaceError
<1> QED
  BY <1>2, <1>3, <1>4, <1>9 DEF SectorInv

(* A byte of READSECT: it comes from the sector, by way of the buffer.     *)
LEMMA ReadStep ==
  ASSUME NEW D, SectorInv(D), In, call = "READSECT"
  PROVE  SectorInv(D)' /\ sd'.content = sd.content
<1> DEFINE n == Len(moved)
           m == Append(moved, ioData')
           q == n \div SegBytes
<1>1. /\ z80 = "call" /\ Running
      /\ UNCHANGED <<z80, call, chosen, disk, track, sect, placed, bootPc, calm, linkVars>>
      /\ moved' = IF n < SectBytes THEN m ELSE moved
  BY DEF In, Transfers, InForce, Program, bootVars
<1>2. /\ call \in Transfers /\ ioOpcode \in {call, "NOP"}
      /\ ReadSect \/ ReadNothing
      /\ trackSel' = trackSel /\ sectSel' = sectSel
  <2>1. call \in Transfers
    BY DEF Transfers
  <2>2. ioOpcode \in {call, "NOP"}
    BY <1>1, <2>1 DEF SectorInv, SettingInv
  <2>3. ReadSect \/ ReadNothing
    BY <2>2 DEF In, ExecuteRead, ErrDisk, SysIrq
  <2> QED BY <2>1, <2>2, <2>3 DEF ReadSect, ReadNothing, diskVars
<1>3. /\ sd \in DiskRecord(D) /\ (sd.open => sd.file \in D) /\ bufferSD \in Segment
      /\ moved \in Seq(Int) /\ n \in Nat
  BY DEF SectorInv, TransferTypes
<1>4. Counting
  BY <1>1 DEF SectorInv, ReadInv
<1>5. SectorStart \in Nat
  <2>1. track \in Nat /\ sect \in Nat
    BY Sizes DEF SectorInv, TransferTypes
  <2>2. track * MaxSects + sect \in Nat
    BY <2>1, Sizes
  <2> QED BY <2>2, Sizes DEF SectorStart
<1>6. CASE ReadNothing
  <2>1. /\ UNCHANGED <<sd, bufferSD, diskErr, ioByteCnt>> /\ ioOpcode = "NOP"
        /\ ioOpcode' = "NOP"
    BY <1>2, <1>6 DEF ReadNothing, Single, diskVars, ReadOpcodes
  <2>2. moved' = moved
    BY <1>1, <1>4, <2>1 DEF Counting
  <2>3. calm' => calm /\ (Linked => Linked')
    BY <1>1 DEF linkVars, Linked
  <2> QED BY <1>1, <1>2, <2>1, <2>2, <2>3, AsideKeeps
<1>7. CASE ReadSect
  <2>1. ioOpcode = call /\ ioByteCnt = n /\ n < SectBytes /\ moved' = m
    BY <1>1, <1>4, <1>7 DEF ReadSect, Counting
  <2>2. n \in Nat /\ ioByteCnt' = n + 1 /\ ioByteCnt' \in 0 .. CntMod - 1
        /\ ioOpcode' = IF n + 1 < SectBytes THEN call ELSE "NOP"
    <3>1. n + 1 \in 0 .. CntMod - 1
      BY <1>3, <2>1, Sizes
    <3>2. (CntMod * 0 + (n + 1)) % CntMod = n + 1
      BY <3>1, OnlyParts, Sizes
    <3>3. CntMod * 0 + (n + 1) = n + 1
      BY <3>1, Sizes
    <3>4. ioByteCnt' = (n + 1) % CntMod /\ ioOpcode' = IF n < SectBytes - 1 THEN call ELSE "NOP"
      BY <1>7, <2>1 DEF ReadSect, Counted
    <3> QED BY <1>3, <3>1, <3>2, <3>3, <3>4, Sizes
  <2>3. /\ q \in Nat /\ n % SegBytes \in 0 .. SegBytes - 1
        /\ n = SegBytes * q + (n % SegBytes)
        /\ Place = (n % SegBytes) + 1
    BY <1>3, <2>1, Parts, Sizes DEF Place
  <2>4. IF n % SegBytes = SegBytes - 1
        THEN (n + 1) \div SegBytes = q + 1 /\ (n + 1) % SegBytes = 0
        ELSE (n + 1) \div SegBytes = q /\ (n + 1) % SegBytes = (n % SegBytes) + 1
    BY <1>3, NextParts, Sizes
  <2>5. PICK k \in Sought :
          IF k.err # 0
          THEN sd' = k.sd /\ diskErr' = k.err /\ ioData' = 0 /\ UNCHANGED bufferSD
          ELSE IF Place > 1
          THEN ioData' = bufferSD[Place] /\ UNCHANGED <<sd, diskErr, bufferSD>>
          ELSE \E r \in ReadSD(k.sd, bufferSD) :
                 /\ sd' = r.sd
                 /\ bufferSD' = r.buf
                 /\ diskErr' = IF r.n < SegBytes THEN 19 ELSE r.err
                 /\ ioData' = IF diskErr' = 0 THEN r.buf[1] ELSE 0
    BY <1>7 DEF ReadSect
  <2>6. /\ k.sd \in DiskRecord(D)
        /\ k.sd.file = sd.file /\ (k.sd.open <=> sd.open) /\ k.sd.content = sd.content
        /\ k.err = 0 =>
             /\ diskErr = 0
             /\ IF n = 0 THEN k.sd.at = SectorStart ELSE k.sd = sd
    BY <1>1, <1>2, <2>1, SoughtResult
  <2>7. ASSUME ioData' \in Int, sd' \in DiskRecord(D), sd'.file = sd.file,
               sd'.open <=> sd.open, sd'.content = sd.content, bufferSD' \in Segment
        PROVE  TransferTypes(D)' /\ Counting'
    <3>1. m \in Seq(Int) /\ Len(m) = n + 1
      BY <1>3, <2>7
    <3>2. Counting'
      BY <1>1, <1>3, <2>1, <2>2, <3>1, Sizes DEF Counting
    <3>3. moved' \in Seq(Int) /\ Len(moved') <= SectBytes
      BY <1>3, <2>1, <3>1, Sizes
    <3>4. TransferTypes(D)'
      BY <1>1, <1>3, <2>2, <2>7, <3>3 DEF SectorInv, TransferTypes
    <3> QED BY <3>2, <3>4
  <2>8. ioOpcode' \in {call, "NOP"}
    BY <2>2
  <2>9. ASSUME ioData' \in Int, sd' \in DiskRecord(D), sd'.file = sd.file,
               sd'.open <=> sd.open, sd'.content = sd.content, bufferSD' \in Segment,
               diskErr' # 0
        PROVE  SectorInv(D)'
    BY <1>1, <1>2, <2>7, <2>8, <2>9, FailedKeeps
  <2>10. ASSUME ioData' \in Int, sd' \in DiskRecord(D), sd'.file = sd.file,
                sd'.open <=> sd.open, sd'.content = sd.content, bufferSD' \in Segment,
                diskErr' = 0, diskErr = 0,
                ioData' = sd.content[DiskName[disk]][SectorStart + q + 1][Place],
                sd'.at = SectorStart + q + 1,
                \A i \in 1 .. SegBytes :
                  bufferSD'[i] = sd.content[DiskName[disk]][SectorStart + q + 1][i]
         PROVE  SectorInv(D)'
    <3>1. TransferTypes(D)' /\ Counting' /\ SettingInv'
      BY <1>1, <1>2, <2>7, <2>8, <2>10, TransferSetting
    <3>2. /\ m \in Seq(Int) /\ Len(m) = n + 1
          /\ \A i \in 1 .. n : m[i] = moved[i]
          /\ m[n + 1] = ioData'
      BY <1>3, <2>10
    <3>3. SectorStart' = SectorStart /\ disk' = disk
      BY <1>1 DEF SectorStart
    <3> HIDE DEF m
    <3>4. \A i \in 1 .. n : moved[i] = SectorByte(sd.content, i)
      <4>1. n # 0 => moved # <<>>
        BY <1>3
      <4>2. n # 0 => SectorHas(sd.content, moved)
        BY <2>10, <4>1 DEF SectorInv, ReadInv, SectorRead
      <4>3. DOMAIN moved = 1 .. n
        BY <1>3
      <4> HIDE DEF n
      <4>4. n # 0 \/ \A i \in 1 .. n : FALSE
        BY <1>3
      <4> QED BY <4>2, <4>3, <4>4 DEF SectorHas
    <3>5. SectorByte(sd.content, n + 1) = ioData'
      <4>1. (n + 1) - 1 = n
        BY <1>3
      <4>2. SectorByte(sd.content, n + 1) =
              sd.content[DiskName[disk]][SectorStart + q + 1][(n % SegBytes) + 1]
        BY <4>1 DEF SectorByte
      <4> QED BY <2>3, <2>10, <4>2
    <3>6. SectorRead'
      <4>1. ASSUME NEW i \in 1 .. n + 1
            PROVE  m[i] = SectorByte(sd.content, i)
        <5>1. CASE i = n + 1
          BY <3>2, <3>5, <5>1
        <5>2. CASE i # n + 1
          <6>1. i \in 1 .. n
            BY <1>3, <5>2
          <6> QED BY <3>2, <3>4, <6>1
        <5> QED BY <5>1, <5>2
      <4>2. DOMAIN m = 1 .. n + 1
        BY <3>2
      <4>3. SectorHas(sd.content, m)
        BY <4>1, <4>2 DEF SectorHas
      <4>4. SectorHas(sd.content, moved)'
        BY <1>1, <2>1, <2>10, <3>3, <4>3 DEF SectorHas, SectorByte
      <4> QED BY <4>4 DEF SectorRead
    <3>7. Brought(sd, bufferSD, Len(moved))'
      <4>1. /\ sd'.at = SectorStart' + q + 1
            /\ \A i \in 1 .. SegBytes :
                 bufferSD'[i] = sd'.content[DiskName[disk']][SectorStart' + q + 1][i]
        BY <2>10, <3>3
      <4>2. Len(moved') = n + 1
        BY <2>1, <3>2
      <4>3. CASE n % SegBytes = SegBytes - 1
        <5>1. (n + 1) % SegBytes = 0 /\ (n + 1) \div SegBytes = q + 1
          BY <2>4, <4>3
        <5>2. SectorStart' + (q + 1) = SectorStart' + q + 1
          BY <1>5, <2>3, <3>3
        <5> QED BY <4>1, <4>2, <5>1, <5>2 DEF Brought
      <4>4. CASE n % SegBytes # SegBytes - 1
        <5>1. (n + 1) % SegBytes # 0 /\ (n + 1) \div SegBytes = q
          BY <2>3, <2>4, <4>4, Sizes
        <5> QED BY <4>1, <4>2, <5>1 DEF Brought
      <4> QED BY <4>3, <4>4
    <3>8. ReadInv'
      BY <3>1, <3>6, <3>7 DEF ReadInv
    <3>9. WriteInv'
      BY <1>1 DEF SectorInv, WriteInv, SectorWritten, Amid, Transfers, Linked, linkVars
    <3> QED BY <3>1, <3>8, <3>9 DEF SectorInv
  <2>11. CASE k.err # 0
    <3>1. sd' = k.sd /\ diskErr' # 0 /\ ioData' = 0 /\ bufferSD' = bufferSD
      BY <2>5, <2>11
    <3> QED BY <1>3, <2>6, <2>9, <3>1
  <2>12. CASE k.err = 0 /\ Place > 1
    <3>1. ioData' = bufferSD[Place] /\ UNCHANGED <<sd, diskErr, bufferSD>> /\ diskErr = 0
      BY <2>5, <2>6, <2>12
    <3>2. n % SegBytes # 0 /\ Place \in 1 .. SegBytes
      BY <2>3, <2>12, Sizes
    <3>3. Amid("READSECT")
      <4>1. n # 0
        <5>1. 0 \in 0 .. SegBytes - 1
          BY Sizes
        <5>2. (SegBytes * 0 + 0) % SegBytes = 0 /\ SegBytes * 0 + 0 = 0
          BY <5>1, OnlyParts, Sizes
        <5> QED BY <3>2, <5>2
      <4> QED BY <1>1, <1>3, <2>1, <3>1, <4>1 DEF Amid
    <3>4. Brought(sd, bufferSD, n)
      BY <3>3 DEF SectorInv, ReadInv
    <3>5. /\ sd.at = SectorStart + q + 1
          /\ \A i \in 1 .. SegBytes :
               bufferSD[i] = sd.content[DiskName[disk]][SectorStart + q + 1][i]
      BY <3>2, <3>4 DEF Brought
    <3>6. ioData' \in Int
      BY <1>3, <3>1, <3>2 DEF Segment
    <3> QED BY <1>3, <2>10, <3>1, <3>2, <3>5, <3>6
  <2>13. CASE k.err = 0 /\ ~(Place > 1)
    <3>1. PICK r \in ReadSD(k.sd, bufferSD) :
            /\ sd' = r.sd
            /\ bufferSD' = r.buf
            /\ diskErr' = IF r.n < SegBytes THEN 19 ELSE r.err
            /\ ioData' = IF diskErr' = 0 THEN r.buf[1] ELSE 0
      BY <2>5, <2>13
    <3>2. Place = 1 /\ n % SegBytes = 0 /\ 1 \in 1 .. SegBytes
      BY <2>3, <2>13, Sizes
    <3>3. k.sd.at = SectorStart + q
      <4>1. CASE n = 0
        <5>1. (SegBytes * 0 + 0) \div SegBytes = 0 /\ SegBytes * 0 + 0 = 0
          <6>1. 0 \in 0 .. SegBytes - 1
            BY Sizes
          <6> QED BY <6>1, OnlyParts, Sizes
        <5>2. q = 0
          BY <4>1, <5>1
        <5> QED BY <1>5, <2>6, <2>13, <4>1, <5>2
      <4>2. CASE n # 0
        <5>1. Amid("READSECT") /\ k.sd = sd
          BY <1>1, <1>3, <2>1, <2>6, <2>13, <4>2 DEF Amid
        <5>2. Brought(sd, bufferSD, n)
          BY <5>1 DEF SectorInv, ReadInv
        <5> QED BY <3>2, <5>1, <5>2 DEF Brought
      <4> QED BY <4>1, <4>2
    <3>4. /\ r.sd \in DiskRecord(D)
          /\ r.sd.file = k.sd.file /\ (r.sd.open <=> k.sd.open) /\ r.sd.content = k.sd.content
          /\ r.buf \in Segment
          /\ r.err = 0 /\ ~(r.n < SegBytes) =>
               /\ k.sd.file # NoFile
               /\ r.sd.at = k.sd.at + 1
               /\ \A i \in 1 .. SegBytes : r.buf[i] = k.sd.content[k.sd.file][k.sd.at + 1][i]
      <4>1. k.sd.open => k.sd.file \in D
        BY <1>3, <2>6
      <4> QED BY <1>3, <2>6, <3>1, <4>1, ReadResult
    <3>5. ioData' \in Int
      <4>1. r.buf[1] \in Int
        BY <3>2, <3>4 DEF Segment
      <4> QED BY <3>1, <4>1
    <3>6. CASE diskErr' # 0
      BY <2>6, <2>9, <3>1, <3>4, <3>5, <3>6
    <3>7. CASE diskErr' = 0
      <4>1. r.err = 0 /\ ~(r.n < SegBytes) /\ ioData' = r.buf[1] /\ diskErr = 0
        BY <2>6, <2>13, <3>1, <3>7
      <4>2. sd.file = DiskName[disk]
        BY <1>2, <2>6, <3>4, <4>1 DEF SectorInv, SettingInv, Refers
      <4> QED BY <2>6, <2>10, <3>1, <3>2, <3>3, <3>4, <3>5, <3>7, <4>1, <4>2
    <3> QED BY <2>6, <3>1, <3>4, <3>6, <3>7
  <2> QED BY <2>5, <2>6, <2>11, <2>12, <2>13
<1> QED
  BY <1>2, <1>6, <1>7
-----------------------------------------------------------------------------
(* Nothing is selected at first.                                           *)
LEMMA SectorInit ==
  ASSUME NEW content, FilesOK(content), NEW up \in BOOLEAN, FirmwareInit(content, up)
  PROVE  SectorInv(DOMAIN content)
<1>1. sd = [file |-> NoFile, open |-> FALSE, at |-> 0, unsent |-> <<>>, content |-> content]
  BY DEF FirmwareInit
<1>2. sd \in DiskRecord(DOMAIN content) /\ ~sd.open
  <2>1. <<>> \in Seq(Segment)
    OBVIOUS
  <2> QED BY <1>1, <2>1 DEF DiskRecord, FilesOK
<1>3. TransferTypes(DOMAIN content)
  <2>1. 0 \in 0 .. CntMod - 1 /\ 0 \in 0 .. ByteMod * ByteMod - 1 /\ 0 \in 0 .. ByteMod - 1
    BY Sizes
  <2>2. bufferSD \in Segment
    BY DEF FirmwareInit, OpcodesInit, Segment
  <2>3. /\ moved = <<>> /\ <<>> \in Seq(Int) /\ Len(<<>>) <= SectBytes
        /\ ioByteCnt = 0 /\ track = 0 /\ sect = 0
    BY Sizes DEF FirmwareInit, OpcodesInit, ProgramInit
  <2> QED BY <1>2, <2>1, <2>2, <2>3 DEF TransferTypes
<1>4. SettingInv /\ ReadInv /\ WriteInv
  BY DEF FirmwareInit, OpcodesInit, ProgramInit, SettingInv, ReadInv, WriteInv, SectorRead,
         SectorWritten, Placing, Amid, Transfers
<1> QED
  BY <1>3, <1>4 DEF SectorInv

(* Every step keeps the invariant, and only a byte of WRITESECT changes a  *)
(* file.                                                                   *)
LEMMA SectorNext ==
  ASSUME NEW D, SectorInv(D), [FirmwareNext]_firmwareVars
  PROVE  /\ SectorInv(D)'
         /\ LengthsKept(D)
         /\ FullDisks(sd.content) => OneSector /\ FullDisks(sd.content)'
<1>1. SectorInv(D)' /\ (sd'.content = sd.content \/ (Out /\ call = "WRITESECT"))
  <2>1. CASE UNCHANGED firmwareVars
    BY <2>1, AsideKeeps
    DEF firmwareVars, opcodeVars, ioVars, diskVars, bootVars, linkVars, progVars, Linked
  <2>2. CASE Boot
    BY <2>2, BootKeeps
  <2>3. CASE Reset
    BY <2>3, ResetKeeps
  <2>4. CASE Lose
    BY <2>4, LoseKeeps
  <2>5. ASSUME NEW op \in Opcodes, Begin(op)
        PROVE  SectorInv(D)' /\ sd'.content = sd.content
    BY <2>5, BeginKeeps
  <2>6. CASE Out /\ call # "WRITESECT"
    <3>1. call \notin Transfers
      BY <2>6 DEF Out, Transfers, WriteOpcodes
    <3> QED BY <2>6, <3>1, SetterKeeps
  <2>7. CASE Out /\ call = "WRITESECT"
    BY <2>7, WriteStep
  <2>8. CASE In /\ call # "READSECT"
    <3>1. call \notin Transfers
      BY <2>8 DEF In, Transfers, ReadOpcodes
    <3> QED BY <2>8, <3>1, AskKeeps
  <2>9. CASE In /\ call = "READSECT"
    BY <2>9, ReadStep
  <2>10. CASE \/ Regain \/ Notice \/ End
              \/ PollSerial \/ TakeInterrupt \/ InterruptRoutine
              \/ Arrive \/ Interrupts
    BY <2>10, BesideKeeps
  <2> QED BY <2>1, <2>2, <2>3, <2>4, <2>5, <2>6, <2>7, <2>8, <2>9, <2>10 DEF FirmwareNext
<1>2. LengthsKept(D)
  <2>1. CASE Out /\ call = "WRITESECT"
    BY <2>1, WriteStep
  <2>2. CASE sd'.content = sd.content
    BY <2>2 DEF LengthsKept
  <2> QED BY <1>1, <2>1, <2>2
<1>3. FullDisks(sd.content)' <=> FullDisks(sd.content)
  BY <1>1, <1>2, FullKept DEF SectorInv, TransferTypes
<1>4. FullDisks(sd.content) => OneSector
  <2>1. CASE Out /\ call = "WRITESECT"
    BY <2>1, WriteStep
  <2>2. CASE sd'.content = sd.content
    BY <2>2 DEF OneSector
  <2> QED BY <1>1, <2>1, <2>2
<1> QED
  BY <1>1, <1>2, <1>3, <1>4

(* The invariant holds whatever the files and the connections are at       *)
(* first, and full disks stay full.                                        *)
THEOREM SectorInvAlways ==
  ASSUME NEW content, FilesOK(content), NEW up \in BOOLEAN
  PROVE  FirmwareSpec(content, up) =>
           [](/\ SectorInv(DOMAIN content) /\ SectorsInv
              /\ FullDisks(content) => FullDisks(sd.content))
<1> DEFINE D == DOMAIN content
           Inv == SectorInv(D) /\ (FullDisks(content) => FullDisks(sd.content))
<1>1. FirmwareInit(content, up) => Inv
  <2>1. FirmwareInit(content, up) => sd.content = content
    BY DEF FirmwareInit
  <2>2. FirmwareInit(content, up) => SectorInv(D)
    BY SectorInit
  <2> QED BY <2>1, <2>2
<1>2. Inv /\ [FirmwareNext]_firmwareVars => Inv'
  <2> SUFFICES ASSUME Inv, [FirmwareNext]_firmwareVars PROVE Inv'
    OBVIOUS
  <2>1. SectorInv(D)' /\ (FullDisks(sd.content) => FullDisks(sd.content)')
    BY SectorNext
  <2> QED BY <2>1
<1> HIDE DEF Inv
<1>3. FirmwareSpec(content, up) => []Inv
  BY <1>1, <1>2, PTL DEF FirmwareSpec
<1>4. Inv => SectorsInv
  <2>1. sd \in DiskRecord(D) => DOMAIN sd.content = D
    BY DEF DiskRecord
  <2> QED BY <2>1 DEF Inv, SectorsInv, SectorInv, TransferTypes
<1> QED
  BY <1>3, <1>4, PTL DEF Inv

(* What READSECT delivers without an error is the sector the program has   *)
(* set, for all sizes, disks and programs (opcodes 0x09 to 0x0B and 0x86). *)
THEOREM SectorReadAlways ==
  ASSUME NEW content, FilesOK(content), NEW up \in BOOLEAN
  PROVE  FirmwareSpec(content, up) => []SectorRead
<1>1. SectorInv(DOMAIN content) => SectorRead
  BY DEF SectorInv, ReadInv
<1> QED
  BY <1>1, SectorInvAlways, PTL

(* A sector that WRITESECT has taken without an error, over a connection   *)
(* that was up, is on the disk, if that is one with all its sectors        *)
(* (opcode 0x0C, writeSD).                                                 *)
THEOREM SectorWrittenAlways ==
  ASSUME NEW content, FilesOK(content), FullDisks(content), NEW up \in BOOLEAN
  PROVE  FirmwareSpec(content, up) => []SectorWritten
<1>1. SectorInv(DOMAIN content) /\ (FullDisks(content) => FullDisks(sd.content))
        => SectorWritten
  BY DEF SectorInv, WriteInv
<1> QED
  BY <1>1, SectorInvAlways, PTL

(* Of full disks nothing changes but the sector the program has set, by    *)
(* all its bytes at once, whatever was cut short or has failed before.     *)
THEOREM OnlyThisSectorAlways ==
  ASSUME NEW content, FilesOK(content), FullDisks(content), NEW up \in BOOLEAN
  PROVE  FirmwareSpec(content, up) => OnlyThisSector
<1> DEFINE Inv == /\ SectorInv(DOMAIN content) /\ SectorsInv
                  /\ FullDisks(content) => FullDisks(sd.content)
<1>1. Inv /\ [FirmwareNext]_firmwareVars => [OneSector]_firmwareVars
  BY SectorNext
<1>2. FirmwareSpec(content, up) => []Inv
  BY SectorInvAlways
<1> HIDE DEF Inv
<1>3. FirmwareSpec(content, up) => [][OneSector]_firmwareVars
  BY <1>1, <1>2, PTL DEF FirmwareSpec
<1> QED
  BY <1>3 DEF OnlyThisSector, OneSector
-----------------------------------------------------------------------------
(* A set of numbers with 0 and the next of each has all of them.           *)
LEMMA Induct ==
  ASSUME NEW S, 0 \in S, \A n \in Nat : n \in S => n + 1 \in S
  PROVE  \A n \in Nat : n \in S
<1> SUFFICES ASSUME Nat \ S # {} PROVE FALSE
  OBVIOUS
<1> DEFINE R == {ss \in Nat \X Nat : ss[1] < ss[2]}
           T == Nat \ S
<1>1. IsWellFoundedOn(R, Nat)
  BY NatLessThanWellFounded DEF OpToRel
<1>2. \A x, y \in Nat : <<y, x>> \in R <=> y < x
  OBVIOUS
<1> HIDE DEF R
<1>3. T \in SUBSET Nat /\ T # {}
  OBVIOUS
<1> HIDE DEF T
<1>4. PICK x \in T : \A y \in T : ~ (<<y, x>> \in R)
  BY <1>1, <1>3, WFMin
<1>5. \A y \in T : ~ (y < x)
  BY <1>2, <1>3, <1>4
<1> QED BY <1>4, <1>5 DEF T

(* What defines the function of Joined, up to the segment n.               *)
JoinedEq(cat, segs, n) ==
  cat = [i \in 0 .. n |-> IF i = 0 THEN <<>> ELSE cat[i - 1] \o segs[i]]

(* The recursive function of Joined exists.                                *)
LEMMA JoinedExists ==
  ASSUME NEW segs
  PROVE  \A n \in Nat : \E f : JoinedEq(f, segs, n)
<1> DEFINE S == {n \in Nat : \E f : JoinedEq(f, segs, n)}
           next(v, i) == v \o segs[i]
<1>1. 0 \in S
  <2>1. JoinedEq([i \in 0 .. 0 |-> <<>>], segs, 0)
    BY DEF JoinedEq
  <2> QED BY <2>1
<1>2. ASSUME NEW n \in Nat, n \in S
      PROVE  n + 1 \in S
  <2>1. PICK f : JoinedEq(f, segs, n)
    BY <1>2
  <2>2. \A i \in 0 .. n : f[i] = IF i = 0 THEN <<>> ELSE next(f[i - 1], i)
    BY <2>1 DEF JoinedEq
  <2> DEFINE g == [i \in 0 .. n + 1 |-> IF i <= n THEN f[i] ELSE next(f[n], n + 1)]
  <2> HIDE DEF next
  <2>3. ASSUME NEW i \in 0 .. n + 1
        PROVE  g[i] = IF i = 0 THEN <<>> ELSE next(g[i - 1], i)
    <3>1. CASE i = 0
      BY <2>2, <3>1
    <3>2. CASE i # 0 /\ i <= n
      <4>1. i - 1 \in 0 .. n /\ i - 1 <= n /\ i \in 0 .. n /\ i - 1 \in 0 .. n + 1
        BY <3>2
      <4>2. g[i] = f[i] /\ g[i - 1] = f[i - 1]
        BY <3>2, <4>1
      <4> HIDE DEF g
      <4> QED BY <2>2, <3>2, <4>1, <4>2
    <3>3. CASE i = n + 1
      <4>1. i - 1 = n /\ n \in 0 .. n + 1 /\ n <= n /\ ~ (i <= n)
        BY <3>3
      <4>2. g[i] = next(f[n], n + 1) /\ g[i - 1] = f[n]
        BY <4>1
      <4> HIDE DEF g
      <4> QED BY <3>3, <4>1, <4>2
    <3> QED BY <3>1, <3>2, <3>3
  <2> HIDE DEF g
  <2>4. g = [i \in 0 .. n + 1 |-> g[i]]
    BY DEF g
  <2>5. g = [i \in 0 .. n + 1 |-> IF i = 0 THEN <<>> ELSE next(g[i - 1], i)]
    BY <2>3, <2>4
  <2>6. JoinedEq(g, segs, n + 1)
    BY <2>5 DEF JoinedEq, next
  <2> QED BY <2>6
<1> HIDE DEF S
<1>3. \A n \in Nat : n \in S
  BY <1>1, <1>2, Induct
<1> QED BY <1>3 DEF S

(* Joined has each segment behind those before it.                         *)
LEMMA JoinedIs ==
  ASSUME NEW segs \in Seq(Seq(Int))
  PROVE  /\ Joined(segs)[0] = <<>>
         /\ \A n \in 1 .. Len(segs) : Joined(segs)[n] = Joined(segs)[n - 1] \o segs[n]
<1> DEFINE f == Joined(segs)
           len == Len(segs)
<1>1. len \in Nat
  OBVIOUS
<1>2. \E g : JoinedEq(g, segs, len)
  BY <1>1, JoinedExists
<1>3. f = CHOOSE cat : JoinedEq(cat, segs, len)
  BY DEF Joined, JoinedEq
<1>4. JoinedEq(f, segs, len)
  BY <1>2, <1>3
<1> HIDE DEF f, len
<1>5. \A n \in 0 .. len : f[n] = IF n = 0 THEN <<>> ELSE f[n - 1] \o segs[n]
  BY <1>4 DEF JoinedEq
<1>6. f[0] = <<>>
  <2>1. 0 \in 0 .. len
    BY <1>1
  <2> QED BY <1>5, <2>1
<1>7. ASSUME NEW n \in 1 .. len
      PROVE  f[n] = f[n - 1] \o segs[n]
  <2>1. n \in 0 .. len /\ n # 0
    BY <1>1
  <2> QED BY <1>5, <2>1
<1> QED BY <1>6, <1>7 DEF f, len

(* Before the load nothing is in memory.                                   *)
LEMMA LoadInit ==
  ASSUME NEW content, BootFileOK(content), NEW up \in BOOLEAN, FirmwareInit(content, up)
  PROVE  LoadInv(content[BootFile])
<1>1. sd.content = content /\ bootPc = "wait" /\ ram = <<>>
  BY DEF FirmwareInit, BootInit
<1> QED BY <1>1 DEF LoadInv, BeforeLoad, KeyPlaces

(* The boot file is written by nobody.                                     *)
LEMMA BootFileKept ==
  ASSUME NEW D, SectorInv(D), [FirmwareNext]_firmwareVars,
         FullDisks(sd.content), BootFileOK(sd.content)
  PROVE  sd'.content[BootFile] = sd.content[BootFile]
<1> DEFINE segs == sd.content[BootFile]
<1>1. LengthsKept(D) /\ OneSector /\ SectorInv(D)'
  BY SectorNext
<1>2. sd \in DiskRecord(D) /\ sd' \in DiskRecord(D) /\ BootFile \in D
  <2>1. sd \in DiskRecord(D) /\ sd' \in DiskRecord(D)
    BY <1>1 DEF SectorInv, TransferTypes
  <2> QED BY <2>1 DEF BootFileOK, DiskRecord
<1>3. CASE sd'.content = sd.content
  BY <1>3
<1>4. CASE sd'.content # sd.content
  <2>1. call = "WRITESECT"
    BY <1>1, <1>4 DEF OneSector
  <2>2. disk \in DOMAIN DiskName
    BY <2>1 DEF SectorInv, SettingInv, Transfers, Refers
  <2>3. BootFile # DiskName[disk]
    BY <2>2 DEF BootFileOK
  <2>4. BootFile \in DOMAIN sd.content
    BY DEF BootFileOK
  <2>5. \A i \in DOMAIN segs : sd'.content[BootFile][i] = segs[i]
    BY <1>1, <1>4, <2>3, <2>4 DEF OneSector
  <2>6. Len(sd'.content[BootFile]) = Len(segs)
    BY <1>1, <1>2 DEF LengthsKept
  <2>7. segs \in Seq(Seq(Int)) /\ sd'.content[BootFile] \in Seq(Seq(Int))
    BY <1>2 DEF DiskRecord
  <2> QED BY <2>5, <2>6, <2>7
<1> QED BY <1>3, <1>4

(* The boot file is opened.                                                *)
LEMMA OpenLoads ==
  ASSUME NEW D, SectorInv(D), BootFileOK(sd.content), LoadInv(sd.content[BootFile]),
         OpenBootFile, Boot
  PROVE  LoadInv(sd.content[BootFile])'
<1> DEFINE segs == sd.content[BootFile]
<1>1. sd \in DiskRecord(D) /\ (sd.open => sd.file \in D) /\ DOMAIN sd.content = D
  BY DEF SectorInv, TransferTypes, DiskRecord
<1>2. PICK r \in OpenSD(sd, BootFile) :
        /\ sd' = r.sd
        /\ bootPc' = CASE bootPc = "open2" -> "open3"
                       [] bootPc # "open2" /\ r.err = FR_OK -> "load"
                       [] bootPc # "open2" /\ r.err # FR_OK -> "open key"
  BY DEF OpenBootFile
<1>3. sd'.content = sd.content
  BY BootKeeps
<1>4. bootPc \in {"open", "open2", "open3"} /\ UNCHANGED <<ram, linkVars>>
  BY DEF OpenBootFile, BootsOn
<1>5. ram = <<>>
  BY <1>4 DEF LoadInv, BeforeLoad
<1>6. bootPc' \in {"open3", "load", "open key"}
  BY <1>2, <1>4
<1>7. ASSUME bootPc' = "load"
      PROVE  /\ Linked /\ sd'.open /\ sd'.file = BootFile /\ sd'.at = 0
  <2>1. r.err = 0
    BY <1>2, <1>4, <1>7 DEF FR_OK
  <2>2. PICK t \in { u \in Selected(sd, BootFile) : Linked } : r = Result(t, FR_OK, 0)
    BY <1>2, <2>1 DEF OpenSD, Result, FR_OK, FR_NOT_OPENED
  <2>3. sd' = t /\ t \in Selected(sd, BootFile) /\ Linked
    BY <1>2, <2>2 DEF Result
  <2>4. BootFile \in D /\ BootFile \in Plain
    BY <1>1 DEF BootFileOK
  <2>5. t = [sd EXCEPT !.file = BootFile, !.open = TRUE, !.at = 0, !.unsent = <<>>]
    BY <1>1, <2>3, <2>4 DEF Selected
  <2> QED BY <1>1, <2>3, <2>5 DEF DiskRecord
<1>8. Linked' = Linked
  BY <1>4 DEF Linked, linkVars
<1>9. segs \in Seq(Seq(Int)) /\ Joined(segs)[0] = <<>>
  <2>1. BootFile \in D
    BY <1>1 DEF BootFileOK
  <2>2. segs \in Seq(Seq(Int))
    BY <1>1, <2>1 DEF DiskRecord
  <2> HIDE DEF segs
  <2> QED BY <2>2, JoinedIs
<1>10. Len(segs) \in Nat
  BY <1>9
<1>11. sd'.content[BootFile] = segs /\ segs = sd.content[BootFile]
  BY <1>3
<1> HIDE DEF segs
<1>12. ram' = <<>> /\ <<>> \in Seq(Int)
  BY <1>4, <1>5
<1>13. CASE bootPc' = "load"
  <2>1. 0 <= Len(segs)
    BY <1>10
  <2>2. Linked'
    BY <1>7, <1>8, <1>13
  <2> QED BY <1>7, <1>9, <1>11, <1>12, <1>13, <2>1, <2>2 DEF LoadInv
<1>14. CASE bootPc' # "load"
  BY <1>6, <1>11, <1>12, <1>14 DEF LoadInv
<1> QED BY <1>13, <1>14

(* A read that succeeds.                                                   *)
LEMMA GoodRead ==
  ASSUME NEW s, NEW buf, NEW r \in ReadSD(s, buf), r.err = FR_OK
  PROVE  LET seg == NextSegment(s)
         IN /\ r.sd = IF seg = <<>> THEN s ELSE [s EXCEPT !.at = s.at + 1]
            /\ r.n = Len(seg) /\ r.buf = Overlay(buf, seg)
<1> DEFINE seg == NextSegment(s)
           on == [s EXCEPT !.at = s.at + 1]
           next == IF seg = <<>> THEN s ELSE on
<1> HIDE DEF seg, on, next
<1>1. \/ r.sd = next /\ r.n = Len(seg) /\ r.buf = Overlay(buf, seg)
      \/ r.err # 0
  BY DEF ReadSD, FR_DISK_ERR, next, on, seg
<1>2. r.sd = next /\ r.n = Len(seg) /\ r.buf = Overlay(buf, seg)
  BY <1>1 DEF FR_OK
<1> QED BY <1>2 DEF next, on, seg

(* Nothing has disturbed the load, and this read succeeds.                 *)
Undisturbed == calm /\ bootPc' # "load key"

(* What a read of a load that nothing has disturbed puts into memory.      *)
LEMMA SegmentLoads ==
  ASSUME NEW D, SectorInv(D), BootFileOK(sd.content), LoadInv(sd.content[BootFile]),
         LoadSegment, Undisturbed
  PROVE  /\ sd'.content = sd.content /\ Linked /\ sd'.open /\ sd'.file = BootFile
         /\ sd'.at \in 0 .. Len(sd.content[BootFile])
         /\ ram' \in Seq(Int) /\ ram' = Joined(sd.content[BootFile])[sd'.at]
         /\ bootPc' \in {"load", "run"}
         /\ bootPc' = "run" => ram' = Flat(sd.content[BootFile])
<1> DEFINE segs == sd.content[BootFile]
           len == Len(segs)
           seg == NextSegment(sd)
<1>1. sd \in DiskRecord(D) /\ DOMAIN sd.content = D /\ BootFile \in D
  BY DEF SectorInv, TransferTypes, DiskRecord, BootFileOK
<1>2. segs \in Seq(Seq(Int)) /\ sd.at \in Nat
  BY <1>1 DEF DiskRecord
<1>3. len \in Nat /\ DOMAIN segs = 1 .. len
  <2> HIDE DEF segs
  <2> QED BY <1>2
<1>4. /\ Linked /\ sd.open /\ sd.file = BootFile /\ sd.at <= len
      /\ ram \in Seq(Int) /\ ram = Joined(segs)[sd.at]
  BY DEF LoadInv, LoadSegment, Undisturbed
<1>5. PICK r \in ReadSD(sd, bufferSD) :
        /\ sd' = r.sd /\ ram' = ram \o Loaded(r.buf, r.n)
        /\ bootPc' = IF r.err # FR_OK THEN "load key"
                     ELSE IF r.n = SegBytes THEN "load" ELSE "run"
  BY DEF LoadSegment
<1>6. r.err = FR_OK
  BY <1>5 DEF Undisturbed
<1>7. /\ r.sd = IF seg = <<>> THEN sd ELSE [sd EXCEPT !.at = sd.at + 1]
      /\ r.n = Len(seg) /\ r.buf = Overlay(bufferSD, seg)
  BY <1>5, <1>6, GoodRead
<1>8. NoFile # BootFile
  BY DEF BootFileOK
<1>9. seg = IF sd.at < len THEN segs[sd.at + 1] ELSE <<>>
  BY <1>4, <1>8 DEF NextSegment
<1>10. /\ Joined(segs)[0] = <<>>
       /\ \A n \in 1 .. len : Joined(segs)[n] = Joined(segs)[n - 1] \o segs[n]
  <2> HIDE DEF segs
  <2> QED BY <1>2, JoinedIs
<1>11. \A i \in 1 .. len : Len(segs[i]) <= SegBytes /\ (i < len => Len(segs[i]) = SegBytes)
  BY <1>3 DEF BootFileOK
<1>12. Flat(segs) = Joined(segs)[len]
  BY DEF Flat
<1>13. SegBytes \in Nat \ {0}
  BY Sizes
<1> HIDE DEF seg
<1>14. seg \in Seq(Int) /\ Len(seg) <= SegBytes
  <2>1. \A i \in 1 .. len : segs[i] \in Seq(Int)
    <3> HIDE DEF segs
    <3> QED BY <1>2, <1>3
  <2> HIDE DEF segs, len
  <2>2. CASE sd.at < len
    <3>1. sd.at + 1 \in 1 .. len
      BY <1>2, <1>3, <2>2
    <3> QED BY <1>9, <1>11, <2>1, <2>2, <3>1
  <2>3. CASE ~ (sd.at < len)
    <3>1. seg = <<>>
      BY <1>9, <2>3
    <3>2. seg \in Seq(Int) /\ Len(seg) = 0
      BY <3>1
    <3> QED BY <1>13, <3>2
  <2> QED BY <2>2, <2>3
<1>15. Loaded(r.buf, r.n) = seg
  <2> DEFINE n == Len(seg)
  <2>1. n \in Nat /\ DOMAIN seg = 1 .. n /\ seg = [i \in 1 .. n |-> seg[i]]
    BY <1>14
  <2>2. n <= SegBytes
    BY <1>14
  <2>3. r.n = n /\ r.buf = [i \in 1 .. SegBytes |-> IF i <= n THEN seg[i] ELSE bufferSD[i]]
    BY <1>7 DEF Overlay
  <2> HIDE DEF n
  <2>4. \A i \in 1 .. n : i <= SegBytes /\ i \in 1 .. SegBytes /\ i <= n
    BY <1>13, <2>1, <2>2
  <2>5. \A i \in 1 .. n : (IF i <= SegBytes THEN r.buf[i] ELSE Junk) = seg[i]
    BY <2>3, <2>4
  <2> QED BY <2>1, <2>3, <2>5 DEF Loaded
<1> HIDE DEF segs, len
<1>16. ram' = ram \o seg /\ ram' \in Seq(Int)
  <2>1. ram' = ram \o seg
    BY <1>5, <1>15
  <2>2. ram \o seg \in Seq(Int)
    BY <1>4, <1>14
  <2> QED BY <2>1, <2>2
<1>17. bootPc' \in {"load", "run"} /\ (bootPc' = "run" <=> Len(seg) # SegBytes)
  BY <1>5, <1>6, <1>7
<1>18. sd'.content = sd.content /\ sd'.open = sd.open /\ sd'.file = sd.file
  BY <1>1, <1>5, <1>7 DEF DiskRecord
<1>19. CASE seg = <<>>
  <2>1. sd' = sd
    BY <1>5, <1>7, <1>19
  <2>2. Len(seg) = 0 /\ ram' = ram /\ ram \o <<>> = ram
    BY <1>4, <1>16, <1>19
  <2>3. ram = Joined(segs)[len]
    <3>1. CASE sd.at < len
      <4>1. sd.at + 1 \in 1 .. len /\ sd.at + 1 - 1 = sd.at
        BY <1>2, <1>3, <3>1
      <4>2. segs[sd.at + 1] = <<>>
        BY <1>9, <1>19, <3>1
      <4>3. Len(segs[sd.at + 1]) = 0 /\ SegBytes # 0
        BY <1>13, <4>2
      <4>4. ~ (sd.at + 1 < len)
        BY <1>11, <4>1, <4>3
      <4>5. len = sd.at + 1
        BY <1>2, <1>3, <3>1, <4>4
      <4>6. Joined(segs)[sd.at + 1] = Joined(segs)[sd.at] \o <<>>
        <5>1. PICK n \in Int : n = sd.at + 1
          BY <1>2
        <5>2. n \in 1 .. len
          BY <4>1, <5>1
        <5>3. n - 1 = sd.at
          BY <1>2, <5>1
        <5>4. Joined(segs)[n] = Joined(segs)[n - 1] \o segs[n]
          BY <1>10, <5>2
        <5> QED BY <4>2, <5>1, <5>3, <5>4
      <4> QED BY <1>4, <2>2, <4>5, <4>6
    <3>2. CASE ~ (sd.at < len)
      <4>1. sd.at = len
        BY <1>2, <1>3, <1>4, <3>2
      <4> QED BY <1>4, <4>1
    <3> QED BY <3>1, <3>2
  <2>4. sd'.at \in 0 .. len
    BY <1>2, <1>4, <2>1, <1>3
  <2> QED BY <1>4, <1>12, <1>16, <1>17, <1>18, <2>1, <2>2, <2>3, <2>4 DEF segs, len
<1>20. CASE seg # <<>>
  <2>1. sd.at < len /\ seg = segs[sd.at + 1]
    BY <1>9, <1>20
  <2>2. sd'.at = sd.at + 1
    BY <1>1, <1>2, <1>5, <1>7, <1>20 DEF DiskRecord
  <2>3. sd.at + 1 \in 1 .. len /\ sd.at + 1 - 1 = sd.at /\ sd.at + 1 \in 0 .. len
    BY <1>2, <1>3, <2>1
  <2>4. ram' = Joined(segs)[sd.at + 1]
    <3>1. Joined(segs)[sd.at + 1] = Joined(segs)[sd.at] \o segs[sd.at + 1]
      <4>1. PICK n \in Int : n = sd.at + 1
        BY <1>2
      <4>2. n \in 1 .. len
        BY <2>3, <4>1
      <4>3. n - 1 = sd.at
        BY <1>2, <4>1
      <4>4. Joined(segs)[n] = Joined(segs)[n - 1] \o segs[n]
        BY <1>10, <4>2
      <4> QED BY <4>1, <4>3, <4>4
    <3> QED BY <1>4, <1>16, <2>1, <3>1
  <2>5. bootPc' = "run" => sd.at + 1 = len
    <3>1. Len(segs[sd.at + 1]) = SegBytes \/ ~ (sd.at + 1 < len)
      BY <1>11, <2>3
    <3> QED BY <1>2, <1>3, <1>17, <2>1, <2>3, <3>1
  <2> QED BY <1>4, <1>12, <1>16, <1>17, <1>18, <2>2, <2>3, <2>4, <2>5 DEF segs, len
<1> QED BY <1>19, <1>20

(* Nothing but the boot and a reset changes what is in memory.             *)
LEMMA BesideLoads ==
  ASSUME NEW segs, LoadInv(segs), sd'.content[BootFile] = segs,
         \/ Lose \/ Regain \/ Notice
         \/ Running /\ bootVars' = bootVars
         \/ UNCHANGED firmwareVars
  PROVE  LoadInv(segs)' /\ (bootPc = "load" => bootPc' = "load")
<1>1. bootPc' = bootPc /\ ram' = ram
  BY DEF Lose, Regain, Notice, Quiet, bootVars, firmwareVars
<1>2. CASE bootPc' # "load" /\ bootPc' # "load key"
  BY <1>1, <1>2 DEF LoadInv
<1>3. CASE bootPc' \in {"load", "load key"}
  <2>1. CASE Lose
    <3>1. calm' = FALSE
      BY <2>1 DEF Lose
    <3> QED BY <1>1, <1>3, <3>1 DEF LoadInv, BeforeLoad, KeyPlaces
  <2>2. CASE Regain \/ Notice \/ UNCHANGED firmwareVars
    <3>1. sd' = sd /\ calm' = calm
      BY <2>2 DEF Regain, Notice, firmwareVars
    <3>2. Linked => Linked'
      BY <2>2 DEF Regain, Notice, Linked, firmwareVars, linkVars
    <3> QED BY <1>1, <1>3, <3>1, <3>2 DEF LoadInv, BeforeLoad, KeyPlaces
  <2>3. CASE Running /\ bootVars' = bootVars
    BY <1>1, <1>3, <2>3 DEF Running
  <2> QED BY <2>1, <2>2, <2>3
<1> QED BY <1>1, <1>2, <1>3

(* Every step keeps the load as it is described.                           *)
LEMMA LoadNext ==
  ASSUME NEW D, SectorInv(D), FullDisks(sd.content), BootFileOK(sd.content),
         LoadInv(sd.content[BootFile]), [FirmwareNext]_firmwareVars
  PROVE  /\ LoadInv(sd.content[BootFile])'
         /\ bootPc = "load" /\ bootPc' = "run" /\ calm =>
              ram' = Flat(sd.content[BootFile])
<1> DEFINE segs == sd.content[BootFile]
<1>1. sd'.content[BootFile] = segs
  BY BootFileKept
<1>2. LoadInv(segs)' <=> LoadInv(sd.content[BootFile])'
  BY <1>1 DEF LoadInv
<1>3. CASE \/ Lose \/ Regain \/ Notice
           \/ Running /\ bootVars' = bootVars
           \/ UNCHANGED firmwareVars
  BY <1>1, <1>2, <1>3, BesideLoads
<1>4. CASE Reset
  BY <1>1, <1>4 DEF Reset, BootReset, LoadInv, BeforeLoad, KeyPlaces
<1>5. CASE Boot
  <2>1. calm' = (bootPc' \in {"load", "run"} /\ (calm \/ bootPc \in {"open", "open3"}))
    BY <1>5 DEF Boot
  <2>2. CASE OpenBootFile
    BY <1>5, <2>2, OpenLoads DEF OpenBootFile
  <2>3. CASE LoadSegment
    <3>1. CASE Undisturbed
      <4>1. /\ Linked /\ sd'.open /\ sd'.file = BootFile
            /\ sd'.at \in 0 .. Len(segs)
            /\ ram' \in Seq(Int) /\ ram' = Joined(segs)[sd'.at]
            /\ bootPc' \in {"load", "run"}
            /\ bootPc' = "run" => ram' = Flat(segs)
        BY <2>3, <3>1, SegmentLoads
      <4>2. Linked'
        BY <2>3, <4>1 DEF LoadSegment, BootsOn, Linked, linkVars
      <4>3. sd'.at <= Len(segs)
        <5> HIDE DEF segs
        <5> QED BY <4>1
      <4>4. LoadInv(segs)'
        BY <1>1, <4>1, <4>2, <4>3 DEF LoadInv, BeforeLoad, KeyPlaces
      <4> QED BY <1>2, <4>1, <4>4
    <3>2. CASE ~Undisturbed
      <4>1. bootPc = "load" /\ bootPc' \in {"load", "load key", "run"}
        BY <2>3 DEF LoadSegment
      <4>2. ~calm' /\ (bootPc' = "run" => ~calm)
        BY <2>1, <3>2, <4>1 DEF Undisturbed
      <4> QED BY <1>1, <4>1, <4>2 DEF LoadInv, BeforeLoad, KeyPlaces
    <3> QED BY <3>1, <3>2
  <2>4. CASE WaitForVirtDisk \/ Escape \/ MountSD
    <3>1. /\ bootPc \in BeforeLoad /\ bootPc' \in BeforeLoad /\ ram' = ram
      BY <2>4 DEF WaitForVirtDisk, Escape, MountSD, BeforeLoad, KeyPlaces
    <3>2. bootPc \notin {"load"} /\ bootPc' \notin {"load", "load key"}
      BY <3>1 DEF BeforeLoad, KeyPlaces
    <3> QED BY <1>1, <3>1, <3>2 DEF LoadInv
  <2>5. CASE Key
    <3>1. ram' = ram /\ bootPc # "load"
          /\ \/ bootPc \in BeforeLoad /\ bootPc' \in {"mount2", "open2"}
             \/ bootPc = "load key" /\ bootPc' = "load"
      BY <2>5 DEF Key, BeforeLoad, KeyPlaces
    <3>2. CASE bootPc = "load key" /\ bootPc' = "load"
      <4>1. ~calm
        BY <3>2 DEF LoadInv
      <4>2. ~calm'
        BY <2>1, <3>2, <4>1
      <4> QED BY <1>1, <3>2, <4>2 DEF LoadInv, BeforeLoad, KeyPlaces
    <3>3. CASE bootPc \in BeforeLoad /\ bootPc' \in {"mount2", "open2"}
      BY <1>1, <3>1, <3>3 DEF LoadInv, BeforeLoad, KeyPlaces
    <3> QED BY <3>1, <3>2, <3>3
  <2> QED BY <1>5, <2>2, <2>3, <2>4, <2>5 DEF Boot, BootStep
<1>6. CASE \/ \E op \in Opcodes : Begin(op)
           \/ Out \/ In \/ End
           \/ PollSerial \/ TakeInterrupt \/ InterruptRoutine
           \/ Arrive \/ Interrupts
  <2>1. Running /\ bootVars' = bootVars
    BY <1>6 DEF Begin, Out, In, End, PollSerial, TakeInterrupt, InterruptRoutine, Arrive,
                Interrupts, Program, progVars
  <2> QED BY <1>3, <2>1
<1> QED BY <1>3, <1>4, <1>5, <1>6 DEF FirmwareNext

(* The Z80 is started with the whole boot program in memory, at its        *)
(* address, if the boot file is one and nothing has disturbed the load     *)
(* (setup).                                                                *)
THEOREM LoadedExactAlways ==
  ASSUME NEW content, FilesOK(content), FullDisks(content), BootFileOK(content),
         NEW up \in BOOLEAN
  PROVE  FirmwareSpec(content, up) => LoadedExact
<1> DEFINE D == DOMAIN content
           segs == content[BootFile]
           Inv == SectorInv(D) /\ LoadInv(segs) /\ FullDisks(sd.content)
                  /\ BootFileOK(sd.content)
           Exact == bootPc = "load" /\ bootPc' = "run" /\ calm =>
                      ram' = Flat(sd.content[BootFile])
<1>1. FirmwareInit(content, up) => Inv
  <2> SUFFICES ASSUME FirmwareInit(content, up) PROVE Inv
    OBVIOUS
  <2>1. sd.content = content
    BY DEF FirmwareInit
  <2> QED BY <2>1, SectorInit, LoadInit
<1>2. Inv /\ [FirmwareNext]_firmwareVars => Inv' /\ Exact
  <2> SUFFICES ASSUME Inv, [FirmwareNext]_firmwareVars PROVE Inv' /\ Exact
    OBVIOUS
  <2>1. sd.content[BootFile] = segs
    BY DEF LoadInv
  <2>2. SectorInv(D)' /\ FullDisks(sd.content)'
    BY SectorNext
  <2>3. sd'.content[BootFile] = segs
    BY <2>1, BootFileKept
  <2>4. LoadInv(sd.content[BootFile])' /\ Exact
    BY <2>1, LoadNext
  <2>5. LoadInv(segs)'
    BY <2>3, <2>4 DEF LoadInv
  <2>6. BootFileOK(sd.content)'
    <3>1. DOMAIN sd.content = D /\ DOMAIN sd'.content = D
      BY <2>2 DEF SectorInv, TransferTypes, DiskRecord
    <3> QED BY <2>1, <2>3, <3>1 DEF BootFileOK
  <2> QED BY <2>2, <2>4, <2>5, <2>6
<1>3. Inv /\ [FirmwareNext]_firmwareVars => [Exact]_firmwareVars
  BY <1>2
<1> QED BY <1>1, <1>2, <1>3, PTL DEF FirmwareSpec, LoadedExact
=============================================================================
