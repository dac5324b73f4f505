----------------------------- MODULE VdProtocol -----------------------------
(***************************************************************************)
(* The data both sides of the virtual disk protocol share: the SPI command *)
(* packets the AVR sends to the ESP8266, the TCP packets the ESP8266 and   *)
(* the server exchange, and disk images.                                   *)
(*                                                                         *)
(* Units.  The code moves 16 bytes per SPI packet: a "chunk".  A segment   *)
(* (one vd_read or vd_write call) is two chunks, and the 512 bytes of a    *)
(* sector are BufLen = 2 * Segments chunks (Segments = 16 in the code).    *)
(* Positions and lengths are counted in chunks throughout.                 *)
(***************************************************************************)
EXTENDS Integers, Sequences

CONSTANTS
  Files,       \* disk files that exist in the directory of the server
  Emulated,    \* names the server's ini file maps to a directory (rcpmfs)
  Missing,     \* names the AVR may open and no file has
  NoName,      \* the empty file name
  Chunk,       \* the values 16 bytes can take
  ZeroChunk,   \* sixteen zero bytes
  BadChunk,    \* sixteen bytes damaged on the SPI wires
  Segments     \* vd_read/vd_write calls that make up a sector

Disks == Files \cup Emulated \cup Missing
Stored == Files \cup Emulated

ASSUME NamesAssumption ==
  /\ Files \cap Emulated = {}
  /\ Missing \cap Stored = {}
  /\ NoName \notin Disks

ASSUME ChunkAssumption ==
  /\ ZeroChunk \in Chunk
  /\ BadChunk \in Chunk

ASSUME SegmentsAssumption == Segments \in Nat \ {0}

SegmentLen == 2
BufLen == SegmentLen * Segments
Buffer == [1 .. BufLen -> Chunk]
ZeroBuffer == [i \in 1 .. BufLen |-> ZeroChunk]

Min2(a, b) == IF a < b THEN a ELSE b
Max2(a, b) == IF a < b THEN b ELSE a
-----------------------------------------------------------------------------
(***************************************************************************)
(* Commands of the SPI and TCP packets (enum vdCommands).  NONE stands for *)
(* every byte that is no command, or one neither side handles.             *)
(***************************************************************************)
Commands == {"SEL_FILE", "RD_FILE", "RD_NEXT", "WR_FILE", "WR_NEXT",
             "SEEK_FILE", "STATUS", "NONE"}

Statuses == {"OK", "FILE_RD_ERROR", "DISK_NOT_FOUND"}

(***************************************************************************)
(* What the AVR shifts out for one command.  Each command uses some of the *)
(* fields; valid says whether the bytes sum up to zero where the receiver  *)
(* looks for the checksum.                                                 *)
(***************************************************************************)
SpiPacket == [cmd : Commands, filename : Disks \cup {NoName}, offset : Nat,
              len : Nat, fileOffset : Nat, chunk : Chunk, valid : BOOLEAN]

Command(c) == [cmd |-> c, filename |-> NoName, offset |-> 0, len |-> 0,
               fileOffset |-> 0, chunk |-> ZeroChunk, valid |-> TRUE]

SelFile(f)      == [Command("SEL_FILE") EXCEPT !.filename = f]
RdFile(o)       == [Command("RD_FILE") EXCEPT !.offset = o, !.len = 1]
RdNext(n)       == [Command("RD_NEXT") EXCEPT !.len = n]
WrFile(o, c)    == [Command("WR_FILE") EXCEPT !.offset = o, !.len = 1,
                                              !.chunk = c]
WrNext(n)       == [Command("WR_NEXT") EXCEPT !.len = n]
SeekFile(pos)   == [Command("SEEK_FILE") EXCEPT !.fileOffset = pos]

(***************************************************************************)
(* A packet on the TCP connection (vdPacket_t, 536 bytes).                 *)
(***************************************************************************)
TcpPacket == [cmd : Commands, status : Statuses,
              filename : Disks \cup {NoName}, fileOffset : Nat,
              data : Buffer, dataLen : Nat]
-----------------------------------------------------------------------------
(***************************************************************************)
(* Disk images are sequences of chunks.                                    *)
(***************************************************************************)

(* The bytes a read of 512 bytes at pos fills the packet with: what the    *)
(* image has there, and zeros behind its end.                              *)
ReadAt(img, pos) ==
  [i \in 1 .. BufLen |-> IF pos + i <= Len(img) THEN img[pos + i] ELSE ZeroChunk]

(* The chunks such a read finds.                                           *)
CountAt(img, pos) == IF pos < Len(img) THEN Min2(BufLen, Len(img) - pos) ELSE 0

(* A slip in WriteAt: the file is cut off behind the sector.               *)
WriteAtTruncating(img, pos, buf) ==
  [i \in 1 .. pos + BufLen |->
     IF i > pos THEN buf[i - pos] ELSE IF i <= Len(img) THEN img[i] ELSE ZeroChunk]

(* The image after 512 bytes were written at pos; a gap reads as zeros.    *)
WriteAt(img, pos, buf) ==
  [i \in 1 .. Max2(Len(img), pos + BufLen) |->
     IF i > pos /\ i <= pos + BufLen THEN buf[i - pos]
     ELSE IF i <= Len(img) THEN img[i]
     ELSE ZeroChunk]
=============================================================================
