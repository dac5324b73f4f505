----------------------------- MODULE IosDriver ------------------------------
(***************************************************************************)
(* The AVR's side: one disk operation of the Z80 - select a disk, read or  *)
(* write a sector - as the IOS firmware carries it out with vd_open,       *)
(* vd_lseek, vd_read and vd_write.  stage is the command the current call  *)
(* sends; each command runs through these places:                          *)
(*                                                                         *)
(*   send     SELECT ... DESELECT                                          *)
(*   poll     waitReady_spi reads the status until it is not busy          *)
(*   expired  it has read "busy" for the last time and sleeps 512 ms more  *)
(*   data     vd_read fetches the data packet                              *)
(***************************************************************************)
EXTENDS SpiLink, Faults

CONSTANTS
  Sectors,       \* the sector numbers the Z80 uses
  Contents,      \* the contents it writes
  MaxAttempts,   \* MAX_ATTEMPTS
  Corruptions,   \* the ways a packet may be damaged on the wires
  Corruptible    \* the commands whose packets may be damaged

CorruptionKinds == {"payload", "offset", "cmd", "data"}

ASSUME SectorsAssumption == Sectors \subseteq Nat
ASSUME ContentsAssumption == Contents \subseteq Buffer
ASSUME MaxAttemptsAssumption == MaxAttempts \in 1 .. 127
ASSUME CorruptionsAssumption ==
  Corruptions \subseteq CorruptionKinds /\ Corruptible \subseteq Commands

VARIABLES
  iosPc,       \* the place in the current call
  req,         \* the operation the Z80 has asked for
  curDisk,     \* the disk of the last vd_open that returned FR_OK
  stage,       \* the command of the current call
  seg,         \* the vd_read/vd_write calls of the sector already made
  offset,      \* the chunk of the segment (0 or 1)
  attempts,    \* the tries of the current call, as it counts them
  dataLen,     \* the chunks the current call has transferred
  pathSent,    \* has vd_open moved its path pointer to the terminator?
  cmdData,     \* vdStatus.cmd_data as last read
  bufferSD,    \* what the Z80 has got of the sector it reads
  diskErr      \* the outcome of the operation

iosVars == <<iosPc, req, curDisk, stage, seg, offset, attempts, dataLen,
             pathSent, cmdData, bufferSD, diskErr>>

Stages == Commands \ {"STATUS", "NONE"}

Errors == {"OK", "NOT_OPENED", "DISK_ERR", "UNEXPECTED_EOF"}
Outcomes == Errors \cup {"PENDING", "ABANDONED", "RESET"}

SelectReq == [kind : {"select"}, disk : Disks]
ReadReq == [kind : {"read"}, disk : Disks, sector : Sectors]
WriteReq == [kind : {"write"}, disk : Disks, sector : Sectors,
             content : Contents]

IosTypeOK ==
  /\ iosPc \in {"idle", "send", "poll", "expired", "data"}
  /\ req \in SelectReq \cup ReadReq \cup WriteReq
  /\ curDisk \in Disks \cup {NoName}
  /\ stage \in Stages
  /\ seg \in 0 .. Segments
  /\ offset \in 0 .. SegmentLen - 1
  /\ attempts \in 0 .. 255
  /\ dataLen \in Nat
  /\ pathSent \in BOOLEAN
  /\ cmdData \in Nat
  /\ bufferSD \in Buffer
  /\ diskErr \in Outcomes

IosInit ==
  /\ iosPc = "idle"
  /\ req \in SelectReq
  /\ curDisk = NoName
  /\ stage = "SEL_FILE"
  /\ seg = 0
  /\ offset = 0
  /\ attempts = 0
  /\ dataLen = 0
  /\ pathSent = FALSE
  /\ cmdData = 0
  /\ bufferSD = ZeroBuffer
  /\ diskErr = "RESET"
-----------------------------------------------------------------------------
(* A slip in SegmentDone: the loop goes on for a third chunk.              *)
SegmentDoneLate == offset + 1 > SegmentLen

(* The chunk just transferred is the last of its segment.                  *)
SegmentDone == offset + 1 > SegmentLen - 1

(* A new call of vd_open, vd_lseek, vd_read or vd_write.                   *)
BeginCall(s, n) ==
  /\ iosPc' = "send"
  /\ stage' = s
  /\ seg' = n
  /\ offset' = 0
  /\ attempts' = 0
  /\ dataLen' = 0
  /\ pathSent' = FALSE

(* The operation is over.  What the call leaves in its locals is gone, and *)
(* the Z80 has no use for a part of a sector.                              *)
EndOp(err) ==
  /\ iosPc' = "idle"
  /\ diskErr' = err
  /\ bufferSD' = IF err = "OK" THEN bufferSD ELSE ZeroBuffer
  /\ stage' = "SEL_FILE"
  /\ seg' = 0
  /\ offset' = 0
  /\ attempts' = 0
  /\ dataLen' = 0
  /\ pathSent' = FALSE

(* SELDISK: openSD, after which the disk in use is the new one or none.    *)
StartSelect ==
  /\ iosPc = "idle"
  /\ req' \in SelectReq
  /\ curDisk' = NoName
  /\ BeginCall("SEL_FILE", 0)

(* READSECT, WRITESECT: the first byte of the sector calls seekSD.         *)
StartTransfer ==
  /\ iosPc = "idle"
  /\ curDisk # NoName
  /\ req' \in { r \in ReadReq \cup WriteReq : r.disk = curDisk }
  /\ BeginCall("SEEK_FILE", 0)
  /\ UNCHANGED curDisk

StartOp ==
  /\ StartSelect \/ StartTransfer
  /\ diskErr' = "PENDING"
  /\ bufferSD' = ZeroBuffer
  /\ UNCHANGED <<cmdData, spiVars, faults>>

(* The Z80 stores another opcode although the sector is not complete; it   *)
(* can do so whenever no vd_read or vd_write is running.                   *)
Abandon ==
  /\ iosPc = "send"
  /\ attempts = 0
  /\ offset = 0
  /\ \/ stage = "WR_FILE"
     \/ stage = "RD_FILE" /\ seg > 0
  /\ EndOp("ABANDONED")
  /\ UNCHANGED <<req, curDisk, cmdData, spiVars, faults>>

(* The reset button, or the server's 'R' key: the AVR starts over.         *)
Reset ==
  /\ Fault
  /\ EndOp("RESET")
  /\ curDisk' = NoName
  /\ UNCHANGED <<req, cmdData, spiVars>>
-----------------------------------------------------------------------------
(* The packet of the current call.  vd_open sends the name through the     *)
(* path pointer and does not set it back for another try.                  *)
Packet ==
  CASE stage = "SEL_FILE"  -> SelFile(IF pathSent THEN NoName ELSE req.disk)
    [] stage = "SEEK_FILE" -> SeekFile(req.sector * BufLen)
    [] stage = "RD_FILE"   -> RdFile(offset)
    [] stage = "RD_NEXT"   -> RdNext(dataLen)
    [] stage = "WR_FILE"   -> WrFile(offset,
                                req.content[SegmentLen * seg + offset + 1])
    [] stage = "WR_NEXT"   -> WrNext(dataLen)

(* The commands one bit away from a command.                               *)
OneBitOff ==
  [SEL_FILE  |-> {"RD_FILE", "WR_NEXT", "NONE"},
   RD_FILE   |-> {"STATUS", "SEL_FILE", "SEEK_FILE", "NONE"},
   RD_NEXT   |-> {"WR_FILE", "WR_NEXT", "NONE"},
   WR_FILE   |-> {"STATUS", "RD_NEXT", "SEEK_FILE", "NONE"},
   WR_NEXT   |-> {"SEL_FILE", "RD_NEXT", "SEEK_FILE", "NONE"},
   SEEK_FILE |-> {"RD_FILE", "WR_FILE", "WR_NEXT", "NONE"}]

(* The second byte of a packet, taken for the offset of a WR_FILE.         *)
SecondByte(p) ==
  IF p.cmd \in {"RD_NEXT", "WR_NEXT"} /\ p.len = 0 THEN 0 ELSE BufLen

(* What the receiver may get for p when a byte of it is damaged: payload   *)
(* or checksum, the offset of a chunk, or the command.                     *)
Damaged(p) ==
  LET Bad(q) == [q EXCEPT !.valid = FALSE]
  IN  { q \in {Bad([p EXCEPT !.chunk = BadChunk])} : "payload" \in Corruptions }
      \cup
      { q \in { Bad([p EXCEPT !.offset = o]) : o \in 0 .. SegmentLen - 1 } :
          /\ "offset" \in Corruptions
          /\ p.cmd = "WR_FILE"
          /\ q.offset # p.offset }
      \cup
      { q \in { Bad([p EXCEPT !.cmd = c, !.chunk = BadChunk, !.len = 1,
                              !.offset = SecondByte(p)]) :
                c \in OneBitOff[p.cmd] } :
          "cmd" \in Corruptions }

(* These calls count a try when it begins, the others when it has failed.  *)
CountedAtStart == {"SEL_FILE", "SEEK_FILE", "RD_FILE", "WR_FILE"}

Bump(n) == (attempts + n) % 256

Send ==
  /\ iosPc = "send"
  /\ \/ SPIOnData(Packet) /\ UNCHANGED faults
     \/ /\ stage \in Corruptible
        /\ \E p \in Damaged(Packet) : SPIOnData(p)
        /\ Fault
  /\ attempts' = IF stage \in CountedAtStart THEN Bump(1) ELSE attempts
  /\ pathSent' = (stage = "SEL_FILE")
  /\ iosPc' = "poll"
  /\ UNCHANGED <<req, curDisk, stage, seg, offset, dataLen, cmdData, bufferSD,
                 diskErr>>
-----------------------------------------------------------------------------
(* Send the command of the current call once more.                         *)
Again(tries) ==
  /\ iosPc' = "send"
  /\ attempts' = tries
  /\ UNCHANGED <<curDisk, stage, seg, offset, dataLen, pathSent, bufferSD,
                 diskErr>>

(* Go on with the next command or call of the operation.                   *)
GoOn(s, n) ==
  /\ BeginCall(s, n)
  /\ UNCHANGED <<curDisk, bufferSD, diskErr>>

Return(errs) ==
  /\ \E err \in errs : EndOp(err)
  /\ UNCHANGED curDisk

(* The command was carried out.                                            *)
Succeeded ==
  \/ /\ stage = "SEL_FILE"
     /\ curDisk' = req.disk
     /\ EndOp("OK")
  \/ /\ stage = "SEEK_FILE"
     /\ GoOn(IF req.kind = "read" THEN "RD_FILE" ELSE "WR_FILE", 0)
  \/ /\ stage = "RD_FILE"
     /\ iosPc' = "data"
     /\ UNCHANGED <<curDisk, stage, seg, offset, attempts, dataLen, pathSent,
                    bufferSD, diskErr>>
  \/ /\ stage = "RD_NEXT"
     /\ dataLen < SegmentLen
     /\ Return({"UNEXPECTED_EOF"})
  \/ /\ stage = "RD_NEXT"
     /\ dataLen >= SegmentLen
     /\ IF seg + 1 < Segments THEN GoOn("RD_FILE", seg + 1) ELSE Return({"OK"})
  \/ /\ stage = "WR_FILE"
     /\ dataLen' = dataLen + 1
     /\ IF SegmentDone
        THEN offset' = 0 /\ stage' = "WR_NEXT" /\ attempts' = 0
        ELSE offset' = offset + 1 /\ UNCHANGED <<stage, attempts>>
     /\ iosPc' = "send"
     /\ UNCHANGED <<curDisk, seg, pathSent, bufferSD, diskErr>>
  \/ /\ stage = "WR_NEXT"
     /\ IF seg + 1 < Segments THEN GoOn("WR_FILE", seg + 1)
        ELSE IF seg + 1 = Segments THEN GoOn("WR_NEXT", Segments)
        ELSE Return({"OK"})

(* It was not; checksum says that the receiver found the packet damaged.   *)
(* When vd_read or vd_write gives up in the middle of a segment the byte   *)
(* count it returns was never set.                                         *)
Failed(checksum) ==
  \/ /\ stage \in {"SEL_FILE", "SEEK_FILE"}
     /\ IF checksum /\ attempts + 1 <= MaxAttempts THEN Again(Bump(1))
        ELSE Return({"NOT_OPENED"})
  \/ /\ stage \in {"RD_FILE", "WR_FILE"}
     /\ IF attempts > 2 * MaxAttempts THEN Return({"DISK_ERR", "UNEXPECTED_EOF"})
        ELSE Again(attempts)
  \/ /\ stage \in {"RD_NEXT", "WR_NEXT"}
     /\ IF attempts + 1 > MaxAttempts
        THEN Return(IF stage = "RD_NEXT" /\ dataLen < SegmentLen
                  THEN {"UNEXPECTED_EOF"} ELSE {"DISK_ERR"})
        ELSE Again(Bump(1))

(* waitReady_spi reads a status that is not busy.                          *)
Poll ==
  /\ iosPc = "poll"
  /\ spiStatus.status # "BUSY"
  /\ cmdData' = spiStatus.cmd_data
  /\ IF spiStatus.status = "READY" /\ spiStatus.cmd_status = 0
     THEN Succeeded
     ELSE Failed(spiStatus.status = "CHKSUM_ERR")
  /\ UNCHANGED <<req, spiVars, faults>>

(* A slip in LastPoll: the delay is not doubled and the loop never ends.   *)
LastPollNever ==
  /\ iosPc = "poll"
  /\ spiStatus.status = "BUSY"
  /\ UNCHANGED <<iosVars, spiVars>>

(* waitReady_spi reads "busy" for the last time, 511 ms after the first.   *)
LastPoll ==
  /\ iosPc = "poll"
  /\ spiStatus.status = "BUSY"
  /\ iosPc' = "expired"
  /\ cmdData' = 0
  /\ UNCHANGED <<req, curDisk, stage, seg, offset, attempts, dataLen, pathSent,
                 bufferSD, diskErr, spiVars>>

(* It returns 1 after the last delay without another look at the status.   *)
Expire ==
  /\ iosPc = "expired"
  /\ Failed(FALSE)
  /\ UNCHANGED <<req, cmdData, spiVars, faults>>

(* vd_read fetches as many bytes as the status promised.  More than the    *)
(* packet has are bytes behind it, fewer leave a wrong checksum.           *)
ReadData ==
  /\ iosPc = "data"
  /\ iosPc' = "send"
  /\ \/ /\ cmdData >= spiOut.len
        /\ bufferSD' = IF cmdData = 0 THEN bufferSD
                       ELSE [bufferSD EXCEPT ![SegmentLen * seg + offset + 1] =
                               IF spiOut.len = 1 THEN spiOut.chunk ELSE BadChunk]
        /\ dataLen' = dataLen + cmdData
        /\ IF SegmentDone
           THEN offset' = 0 /\ stage' = "RD_NEXT" /\ attempts' = 0
           ELSE offset' = offset + 1 /\ UNCHANGED <<stage, attempts>>
        /\ UNCHANGED faults
     \/ /\ cmdData < spiOut.len
        /\ UNCHANGED <<bufferSD, dataLen, offset, stage, attempts, faults>>
     \/ /\ "data" \in Corruptions
        /\ Fault
        /\ UNCHANGED <<bufferSD, dataLen, offset, stage, attempts>>
  /\ UNCHANGED <<req, curDisk, seg, pathSent, cmdData, diskErr, spiVars>>
=============================================================================
