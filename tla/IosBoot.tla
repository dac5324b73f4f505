------------------------------ MODULE IosBoot -------------------------------
(***************************************************************************)
(* setup() of the IOS firmware from the wait for the WiFi-VirtDisk to the  *)
(* start of the Z80: mount, open and load the boot program, each repeated  *)
(* until its error disappears.  The places:                                *)
(*                                                                         *)
(*   wait     vd_status until WiFi and server are there, or ESC            *)
(*   mount, mount2       mountSD, twice                                    *)
(*   open, open2, open3  openSD, and the two tries after a key             *)
(*   load     readSD and loadByteToRAM, segment by segment                 *)
(*   mount key, open key, load key   waitKey after an error                *)
(*   run      the Z80 runs what is in its memory                           *)
(***************************************************************************)
EXTENDS IosOpcodes

CONSTANT BootFile   \* the file of the boot mode

VARIABLES
  bootPc,
  seen,        \* wifiStatus and srvStatus of setup()
  ram          \* the bytes loaded, from BootStrAddr on: HL is their end

bootVars == <<bootPc, seen, ram>>

KeyPlaces == {"mount key", "open key", "load key"}
BootPlaces == KeyPlaces \cup
  {"wait", "mount", "mount2", "open", "open2", "open3", "load", "run"}

BootTypeOK ==
  /\ bootPc \in BootPlaces
  /\ seen \in [wifi : BOOLEAN, srv : BOOLEAN]
  /\ \A i \in DOMAIN ram : ram[i] \in Int

(* The locals of setup() start with what is on the stack.                  *)
BootInit ==
  /\ bootPc = "wait"
  /\ seen \in [wifi : BOOLEAN, srv : BOOLEAN]
  /\ ram = <<>>

BootReset ==
  /\ bootPc' = "wait"
  /\ seen' \in [wifi : BOOLEAN, srv : BOOLEAN]
  /\ ram' = <<>>
-----------------------------------------------------------------------------
(* What setup() has seen is of no use behind the loop.                     *)
NotUsed == [wifi |-> FALSE, srv |-> FALSE]

BootsOn == UNCHANGED <<ioVars, trackSel, sectSel, diskErr, irqVars, linkVars>>

(* The loop goes on until both are up; ESC leaves it.  The vd_status       *)
(* before it only chooses a message: its results are those the first round *)
(* of the loop may start with.                                             *)
WaitForVirtDisk ==
  /\ bootPc = "wait"
  /\ \E r \in VdStatus(seen) :
       /\ Costs(r.fault)
       /\ IF r.seen.wifi /\ r.seen.srv
          THEN bootPc' = "mount" /\ seen' = NotUsed
          ELSE bootPc' = "wait" /\ seen' = r.seen
  /\ UNCHANGED <<ram, sd, bufferSD>> /\ BootsOn

Escape ==
  /\ bootPc = "wait"
  /\ bootPc' = "mount"
  /\ seen' = NotUsed
  /\ UNCHANGED <<ram, sd, bufferSD, faults>> /\ BootsOn

MountSD ==
  /\ bootPc \in {"mount", "mount2"}
  /\ \E r \in VdStatus(seen) :
       /\ Costs(r.fault)
       /\ bootPc' = IF r.err = FR_OK THEN "open"
                    ELSE IF bootPc = "mount" THEN "mount2" ELSE "mount key"
  /\ UNCHANGED <<seen, ram, sd, bufferSD>> /\ BootsOn

(* After a key openSD is called, and since its result is never 3, once     *)
(* more, also when it has succeeded; the second result counts.             *)
OpenBootFile ==
  /\ bootPc \in {"open", "open2", "open3"}
  /\ \E r \in OpenSD(sd, BootFile) :
       /\ Costs(r.fault)
       /\ sd' = r.sd
       /\ bootPc' = CASE bootPc = "open2" -> "open3"
                      [] bootPc # "open2" /\ r.err = FR_OK -> "load"
                      [] bootPc # "open2" /\ r.err # FR_OK -> "open key"
  /\ UNCHANGED <<seen, ram, bufferSD>> /\ BootsOn

(* What loadByteToRAM gets for a count n: bytes behind the buffer as well. *)
Loaded(buf, n) == [i \in 1 .. n |-> IF i <= SegBytes THEN buf[i] ELSE Junk]

(* A slip in LoadSegment: a segment that is not full ends the loop before  *)
(* its bytes are in memory.                                                *)
LoadFullSegment ==
  /\ bootPc = "load"
  /\ \E r \in ReadSD(sd, bufferSD) :
       /\ Costs(r.fault)
       /\ sd' = r.sd
       /\ bufferSD' = r.buf
       /\ ram' = IF r.n = SegBytes THEN ram \o Loaded(r.buf, r.n) ELSE ram
       /\ bootPc' = IF r.err # FR_OK THEN "load key"
                    ELSE IF r.n = SegBytes THEN "load" ELSE "run"
  /\ UNCHANGED seen /\ BootsOn

(* A segment is read and loaded, whatever the call returned; an error is   *)
(* looked at behind the loop.  Fewer than 32 bytes are the end of file.    *)
LoadSegment ==
  /\ bootPc = "load"
  /\ \E r \in ReadSD(sd, bufferSD) :
       /\ Costs(r.fault)
       /\ sd' = r.sd
       /\ bufferSD' = r.buf
       /\ ram' = ram \o Loaded(r.buf, r.n)
       /\ bootPc' = IF r.err # FR_OK THEN "load key"
                    ELSE IF r.n = SegBytes THEN "load" ELSE "run"
  /\ UNCHANGED seen /\ BootsOn

(* A key ends waitKey.  mountSD is called twice, the first result is not   *)
(* looked at; seekSD(0) once, and neither its result is looked at nor HL   *)
(* set back.                                                               *)
Key ==
  /\ \/ /\ bootPc = "mount key"
        /\ bootPc' = "mount2"
        /\ UNCHANGED <<sd, faults>>
     \/ /\ bootPc = "open key"
        /\ bootPc' = "open2"
        /\ UNCHANGED <<sd, faults>>
     \/ /\ bootPc = "load key"
        /\ bootPc' = "load"
        /\ \E r \in SeekSD(sd, 0) : sd' = r.sd /\ Costs(r.fault)
  /\ UNCHANGED <<seen, ram, bufferSD>> /\ BootsOn

BootStep == WaitForVirtDisk \/ MountSD \/ OpenBootFile \/ LoadSegment \/ Key
=============================================================================
