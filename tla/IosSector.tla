----------------------------- MODULE IosSector ------------------------------
(***************************************************************************)
(* Why a program that keeps to the rules reads and writes the sector it    *)
(* has set: the numbers the AVR keeps are those the program has given, the *)
(* file of the server is the one ERRDISK has confirmed, and the byte       *)
(* counter, the segment buffer, the position and the segments not yet sent *)
(* are those of the bytes the call has moved.  The invariant is inductive  *)
(* (IosFirmwareProofs).                                                    *)
(***************************************************************************)
EXTENDS IosFirmware

(* The files have segments of bytes ...                                    *)
FilesOK(content) == content \in [DOMAIN content -> Seq(Seq(Int))]

(* ... and the disks all their sectors.                                    *)
FullDisks(content) ==
  \A n \in DOMAIN DiskName :
    DiskName[n] \in DOMAIN content =>
      MaxTracks * MaxSects * Segments <= Len(content[DiskName[n]])

Segment == [1 .. SegBytes -> Int]

(* What the calls act on, if the server has the files D.                   *)
DiskRecord(D) ==
  [file : D \cup {NoFile}, open : BOOLEAN, at : Nat, unsent : Seq(Segment),
   content : [D -> Seq(Seq(Int))]]

TransferTypes(D) ==
  /\ sd \in DiskRecord(D)
  /\ sd.open => sd.file \in D
  /\ bufferSD \in Segment
  /\ moved \in Seq(Int)
  /\ Len(moved) <= SectBytes
  /\ ioByteCnt \in 0 .. CntMod - 1
  /\ track \in 0 .. ByteMod * ByteMod - 1
  /\ sect \in 0 .. ByteMod - 1
-----------------------------------------------------------------------------
(* The program is in a call of SELTRACK or SELSECT that is not complete.   *)
Placing(op) == z80 = "call" /\ call = op /\ ioOpcode = op

(* The disk number n is that of the file the server has, if it has one.    *)
Refers(n) ==
  /\ n \in DOMAIN DiskName
  /\ sd.file \in {NoFile, DiskName[n]}
  /\ sd.open => sd.file = DiskName[n]

(* The settings: before the boot is over there are none ...                *)
SettingInv ==
  /\ ~Running => /\ z80 = "main" /\ call = "NOP" /\ ioOpcode = "NOP"
                 /\ disk = -1 /\ chosen = -1
  /\ z80 = "irq" => ioOpcode = "SYSIRQ"
  (* ... the numbers are those of the program ...                          *)
  /\ trackSel = track \/ Placing("SELTRACK")
  /\ sectSel = sect \/ Placing("SELSECT")
  /\ Placing("SELTRACK") =>
       /\ ioByteCnt \in {0, 1}
       /\ ioByteCnt = 1 => trackSel = track % ByteMod
  (* ... a place that is none is not forgotten ...                         *)
  /\ placed /\ diskErr = 0 =>
       \/ Placing("SELTRACK") \/ Placing("SELSECT")
       \/ PlaceError(trackSel, sectSel) = 0
  (* ... and neither is a disk that is none.                               *)
  /\ call = "SELDISK" => disk = -1 /\ ~placed
  /\ chosen # -1 => /\ call \in {"SELDISK", "ERRDISK"}
                    /\ ~Placing("SELDISK")
                    /\ diskErr = 0 => Refers(chosen)
  /\ disk # -1 => Refers(disk)
  /\ call \in Transfers => /\ disk # -1 /\ placed
                           /\ z80 = "call" => ioOpcode \in {call, "NOP"}
-----------------------------------------------------------------------------
(* The call counts the bytes it has moved, until it has moved them all.    *)
Counting ==
  \/ ioOpcode = call /\ ioByteCnt = Len(moved) /\ Len(moved) < SectBytes
  \/ ioOpcode = "NOP" /\ Len(moved) = SectBytes

(* In the middle of a transfer.                                            *)
Amid(op) ==
  z80 = "call" /\ call = op /\ ioOpcode = op /\ diskErr = 0 /\ moved # <<>>

(* The calls have brought the first n bytes of a sector, and the rest of   *)
(* their last segment.                                                     *)
Brought(s, buf, n) ==
  IF n % SegBytes = 0
  THEN s.at = SectorStart + (n \div SegBytes)
  ELSE /\ s.at = SectorStart + (n \div SegBytes) + 1
       /\ \A i \in 1 .. SegBytes :
            buf[i] = s.content[DiskName[disk]][SectorStart + (n \div SegBytes) + 1][i]

ReadInv ==
  /\ z80 = "call" /\ call = "READSECT" => Counting
  /\ SectorRead
  /\ Amid("READSECT") => Brought(sd, bufferSD, Len(moved))

(* The calls have collected the first n bytes of a sector.                 *)
Unsent(s, buf, n) ==
  /\ s.at = SectorStart
  /\ Len(s.unsent) = n \div SegBytes
  /\ \A j \in 1 .. n \div SegBytes, i \in 1 .. SegBytes :
       s.unsent[j][i] = moved[SegBytes * (j - 1) + i]
  /\ \A i \in 1 .. n % SegBytes : buf[i] = moved[SegBytes * (n \div SegBytes) + i]

WriteInv ==
  /\ z80 = "call" /\ call = "WRITESECT" /\ diskErr = 0 => Counting
  /\ FullDisks(sd.content) => SectorWritten
  /\ Amid("WRITESECT") =>
       /\ Unsent(sd, bufferSD, Len(moved))
       /\ calm => sd.open
  /\ call \in Transfers /\ calm => Linked

(* All of it, for the files D.                                             *)
SectorInv(D) ==
  /\ TransferTypes(D)
  /\ SettingInv
  /\ ReadInv
  /\ WriteInv

(* At every moment of a transfer, also one that is cut short, interrupted, *)
(* failing or overrun, the numbers, the counter, the buffers and the       *)
(* position of the server belong to each other (loop, writeSD, readSD,     *)
(* seekSD).                                                                *)
SectorsInv == SectorInv(DOMAIN sd.content)
-----------------------------------------------------------------------------
(* The boot program is a plain file and no disk, and its segments are full *)
(* but for the last.                                                       *)
BootFileOK(content) ==
  /\ BootFile \in DOMAIN content \cap Plain /\ BootFile # NoFile
  /\ \A n \in DOMAIN DiskName : DiskName[n] # BootFile
  /\ \A i \in DOMAIN content[BootFile] :
       /\ Len(content[BootFile][i]) <= SegBytes
       /\ i < Len(content[BootFile]) => Len(content[BootFile][i]) = SegBytes

BeforeLoad == (KeyPlaces \ {"load key"}) \cup {"wait", "mount", "mount2", "open", "open2", "open3"}

(* A load that nothing has disturbed has the segments before the position  *)
(* of the server in memory, and those only (setup).                        *)
LoadInv(segs) ==
  /\ sd.content[BootFile] = segs
  /\ bootPc \in BeforeLoad => ram = <<>>
  /\ bootPc = "load key" => ~calm
  /\ bootPc = "load" /\ calm =>
       /\ Linked /\ sd.open /\ sd.file = BootFile
       /\ sd.at <= Len(segs)
       /\ ram \in Seq(Int) /\ ram = Joined(segs)[sd.at]
=============================================================================
