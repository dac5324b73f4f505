------------------------------ MODULE IosDisk -------------------------------
(***************************************************************************)
(* The disk calls of the IOS firmware - openSD, seekSD, readSD, writeSD    *)
(* and mountSD - as the opcode engine and the boot loader see them when    *)
(* they go to the WiFi-VirtDisk: what each can return and leave behind.    *)
(* VdSystem has what happens inside a call; here a call is one step, and a *)
(* call that gives up after its retries costs a fault.                     *)
(*                                                                         *)
(* The part of the ESP8266 and the server is a record:                     *)
(*   file     the file the last openSD selected, or NoFile                 *)
(*   open     the server has it, until it is started again                 *)
(*   at       the position in it, in segments (32 bytes in the code)       *)
(*   unsent   the segments of a sector that the ESP8266 has collected      *)
(*   content  the files, sequences of segments, a segment one of bytes     *)
(***************************************************************************)
EXTENDS Faults, Sequences

CONSTANTS
  NoFile,
  Plain,      \* the files that are no emulated disks
  SegBytes,   \* the bytes of a segment: 32
  Segments,   \* the segments of a sector: 16
  Junk        \* a byte from memory nobody has written

ASSUME SegmentSizesAssumption == SegBytes \in Nat \ {0} /\ Segments \in Nat \ {0}

VARIABLES
  sd,         \* what the calls act on
  wifi,       \* the ESP8266 has joined the WiFi network
  server,     \* its connection to the server is up
  srvFlag     \* what it believes of that connection (tcpSrvStatus)

linkVars == <<wifi, server, srvFlag>>

SectBytes == SegBytes * Segments

FR_OK == 0
FR_DISK_ERR == 1
FR_NOT_READY == 2
FR_NOT_OPENED == 4

(* The requests of the ESP8266 are answered.                               *)
Linked == wifi /\ server
-----------------------------------------------------------------------------
(* Each call yields the set of its results: the record it leaves, the      *)
(* error it returns and the faults that took.                              *)
Result(s, e, f) == [sd |-> s, err |-> e, fault |-> f]

(* Where the server stands when the ESP8266 drops its buffered sector.     *)
Dropped(s) ==
  [s EXCEPT !.at = ((s.at + Segments - 1) \div Segments) * Segments,
            !.unsent = <<>>]

(* Selecting a plain file begins at its start; an emulated disk may keep   *)
(* the place of the last one.                                              *)
Selected(s, name) ==
  { [s EXCEPT !.file = IF name \in DOMAIN s.content THEN name ELSE NoFile,
              !.open = name \in DOMAIN s.content,
              !.at = p, !.unsent = <<>>] :
      p \in IF name \in Plain THEN {0} ELSE {0, Dropped(s).at} }

(* openSD: a name without a file is selected without an error.  Without an *)
(* answer of the server the buffered sector is dropped all the same.  A    *)
(* call that gives up may have selected the file, or have done nothing.    *)
OpenSD(s, name) ==
  { Result(t, FR_OK, 0) : t \in { u \in Selected(s, name) : Linked } }
    \cup { Result(Dropped(s), FR_NOT_OPENED, IF Linked THEN 1 ELSE 0) }
    \cup { Result(t, FR_NOT_OPENED, 1) :
             t \in {s} \cup { u \in Selected(s, name) : Linked } }

(* A slip in SeekSD: the segments collected before stay.                   *)
SeekKeepsUnsent(s, sector) ==
  LET there == [s EXCEPT !.at = sector * Segments]
  IN IF Linked /\ s.open
     THEN { Result(there, FR_OK, 0) }
            \cup { Result(t, FR_NOT_OPENED, 1) : t \in {s, Dropped(s), there} }
     ELSE { Result(Dropped(s), FR_NOT_OPENED, 0), Result(s, FR_NOT_OPENED, 1) }

(* seekSD: without an open file, or an answer, it is an error; the         *)
(* buffered sector is dropped in any case the command arrives.             *)
SeekSD(s, sector) ==
  LET there == [s EXCEPT !.at = sector * Segments, !.unsent = <<>>]
  IN IF Linked /\ s.open
     THEN { Result(there, FR_OK, 0) }
            \cup { Result(t, FR_NOT_OPENED, 1) : t \in {s, Dropped(s), there} }
     ELSE { Result(Dropped(s), FR_NOT_OPENED, 0), Result(s, FR_NOT_OPENED, 1) }

(* The segment a read gets: one of the buffered sector, or of the next one *)
(* if the server answers; nothing at the end of the file, and nothing      *)
(* without an answer - which is no error.                                  *)
NextSegment(s) ==
  IF /\ s.file # NoFile
     /\ (Linked /\ s.open) \/ s.at % Segments # 0
     /\ s.at < Len(s.content[s.file])
  THEN s.content[s.file][s.at + 1] ELSE <<>>

Overlay(buf, seg) ==
  [i \in 1 .. SegBytes |-> IF i <= Len(seg) THEN seg[i] ELSE buf[i]]

(* readSD: when vd_read gives up the byte count is whatever was in memory. *)
ReadSD(s, buf) ==
  LET seg  == NextSegment(s)
      next == IF seg = <<>> THEN s ELSE [s EXCEPT !.at = @ + 1]
  IN { [sd |-> next, err |-> FR_OK, fault |-> 0, n |-> Len(seg),
        buf |-> Overlay(buf, seg)] }
       \cup { [sd |-> t, err |-> FR_DISK_ERR, fault |-> 1, n |-> count, buf |-> b] :
                t \in {s, next}, count \in 0 .. SegBytes + 1,
                b \in {buf, Overlay(buf, seg)} }

Stored(s, segs) ==
  [s EXCEPT !.unsent = <<>>,
            !.at = @ + Segments,
            !.content[s.file] =
              [i \in DOMAIN s.content[s.file] |->
                 IF i > s.at /\ i <= s.at + Segments THEN segs[i - s.at] ELSE @[i]]]

(* writeSD: the last segment of a sector sends it to the server; if no     *)
(* answer comes, as from a server without a selected file, the call        *)
(* returns no error.                                                       *)
WriteSD(s, buf) ==
  LET segs == Append(s.unsent, buf)
      sent == IF Len(segs) < Segments THEN [s EXCEPT !.unsent = segs]
              ELSE IF Linked /\ s.open THEN Stored(s, segs)
              ELSE [s EXCEPT !.unsent = <<>>]
  IN { [sd |-> sent, err |-> FR_OK, fault |-> 0, n |-> SegBytes] }
       \cup { [sd |-> t, err |-> FR_DISK_ERR, fault |-> 1, n |-> count] :
                t \in {s, sent}, count \in {0, SegBytes} }

(* writeSD(NULL): another WR_NEXT, of no bytes.                            *)
FinalizeSD(s) == { Result(s, FR_OK, 0), Result(s, FR_DISK_ERR, 1) }

(* vd_status, from the status packet: an error only when WiFi and server   *)
(* are both down.  After a damaged packet it returns an error in any case, *)
(* with what the next try has brought, or nothing; and after a time-out.   *)
VdStatus(seen) ==
  LET now == [wifi |-> wifi, srv |-> srvFlag]
      ok  == wifi \/ srvFlag
  IN { [seen |-> now, err |-> IF ok THEN FR_OK ELSE FR_NOT_READY, fault |-> 0] }
       \cup { [seen |-> t, err |-> FR_NOT_READY, fault |-> 1] :
                t \in {now, seen, [wifi |-> FALSE, srv |-> FALSE]} }

(* The faults of a call are taken from the budget.                         *)
Costs(f) == faults + f <= MaxFaults /\ faults' = faults + f
=============================================================================
