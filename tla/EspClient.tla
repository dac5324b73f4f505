----------------------------- MODULE EspClient ------------------------------
(***************************************************************************)
(* The ESP8266's command processor (vdProcessCmd of the client), called    *)
(* from loop() whenever the receive interrupt has set spiDataRcvd.  One    *)
(* command runs through these places:                                      *)
(*                                                                         *)
(*   loop   take a copy of the packet and process it                       *)
(*   wait   a request was sent; poll for 536 bytes for 250 ms              *)
(*   ack    everything is done but SPISlave.setStatus                      *)
(*   clear  the status is set, spiDataRcvd is still TRUE                   *)
(*                                                                         *)
(* The interrupt can strike between any two of them.                       *)
(***************************************************************************)
EXTENDS SpiLink, TcpLink, Faults

CONSTANT TcpLate   \* may a reply take longer than the 250 ms it is waited for?

ASSUME TcpLateAssumption == TcpLate \in BOOLEAN

VARIABLES
  espPc,      \* the place in vdProcessCmd
  dataBuf,    \* the local copy of the packet being processed, or of the last
  vdStatus,   \* the status setStatus will be called with
  vd,         \* the global TCP packet buffer
  vdData      \* filename, position, length and bytes of the buffered sector

espVars == <<espPc, dataBuf, vdStatus, vd, vdData>>

(* The struct vdData of the client.                                        *)
SectorBuffer == [filename : Disks \cup {NoName}, filePos : Nat,
                 dataLen : Nat, data : Buffer]

EspTypeOK ==
  /\ espPc \in {"loop", "wait", "ack", "clear"}
  /\ dataBuf \in SpiPacket
  /\ vdStatus \in StatusRegister
  /\ vd \in TcpPacket
  /\ vdData \in SectorBuffer

EspInit ==
  /\ espPc = "loop"
  /\ dataBuf = Command("NONE")
  /\ vdStatus = ReadyStatus
  /\ vd = [cmd |-> "NONE", status |-> "OK", filename |-> NoName,
           fileOffset |-> 0, data |-> ZeroBuffer, dataLen |-> 0]
  /\ vdData = [filename |-> NoName, filePos |-> 0, dataLen |-> 0,
               data |-> ZeroBuffer]
-----------------------------------------------------------------------------
(* loop() finds a packet with this command.                                *)
Received(cmd) ==
  /\ espPc = "loop"
  /\ spiDataRcvd
  /\ spiBuf.cmd = cmd
  /\ dataBuf' = spiBuf

(* Go on to setStatus with READY and these values ...                      *)
Finish(cmd_status, cmd_data) ==
  /\ vdStatus' = [status |-> "READY", cmd_status |-> cmd_status,
                  cmd_data |-> cmd_data]
  /\ espPc' = "ack"

(* ... or with SPISLAVE_CHKSUM_ERR.                                        *)
ChecksumError(cmd_data) ==
  /\ vdStatus' = [status |-> "CHKSUM_ERR", cmd_status |-> 0,
                  cmd_data |-> cmd_data]
  /\ espPc' = "ack"

(* A slip in Call: the answer is not waited for.                           *)
CallAndForget(p) ==
  /\ vd' = p
  /\ SendRequest(p)
  /\ Finish(0, 0)

(* Send the packet buffer, which then holds p, and wait for the answer.    *)
Call(p) ==
  /\ vd' = p
  /\ SendRequest(p)
  /\ espPc' = "wait"
  /\ UNCHANGED vdStatus

Rejects(cmd, cmd_data) ==
  /\ Received(cmd)
  /\ ~spiBuf.valid
  /\ ChecksumError(cmd_data)

Accepts(cmd) ==
  /\ Received(cmd)
  /\ spiBuf.valid
-----------------------------------------------------------------------------
(* VD_CMD_SEL_FILE                                                         *)
EspSelect ==
  \/ /\ Accepts("SEL_FILE")
     /\ vdData' = [vdData EXCEPT !.filename = spiBuf.filename,
                                 !.filePos = 0, !.dataLen = 0]
     /\ Call([vd EXCEPT !.cmd = "SEL_FILE", !.filename = spiBuf.filename])
     /\ UNCHANGED <<spiVars, faults>>
  \/ /\ Rejects("SEL_FILE", 0)
     /\ UNCHANGED <<spiVars, tcpVars, vd, vdData, faults>>

(* A slip in DropBuffer: the buffer outlives the seek.                     *)
KeepBuffer == vdData

DropBuffer == [vdData EXCEPT !.dataLen = 0]

(* VD_CMD_SEEK_FILE; the buffered sector is dropped in any case.           *)
EspSeek ==
  /\ vdData' = DropBuffer
  /\ \/ /\ Accepts("SEEK_FILE")
        /\ Call([vd EXCEPT !.cmd = "SEEK_FILE",
                           !.filename = vdData.filename,
                           !.fileOffset = spiBuf.fileOffset])
     \/ /\ Rejects("SEEK_FILE", 0)
        /\ UNCHANGED <<tcpVars, vd>>
  /\ UNCHANGED <<spiVars, faults>>

(* VD_CMD_RD_FILE: the chunk at offset of the segment that starts at       *)
(* filePos, as far as the buffer b has it.                                 *)
Out(b, offset) ==
  LET i == b.filePos + offset
  IN IF i < BufLen /\ i < b.dataLen
     THEN [len |-> 1, chunk |-> b.data[i + 1]]
     ELSE [len |-> 0, chunk |-> ZeroChunk]

(* SPISlave.setData, then on to setStatus with the length of the data.     *)
Deliver(b, offset) ==
  /\ spiOut' = Out(b, offset)
  /\ Finish(0, Out(b, offset).len)

EspRead ==
  \/ /\ Accepts("RD_FILE")
     /\ vdData.dataLen = 0
     /\ Call([vd EXCEPT !.cmd = "RD_FILE", !.filename = vdData.filename])
     /\ UNCHANGED <<spiVars, vdData, faults>>
  \/ /\ Accepts("RD_FILE")
     /\ vdData.dataLen # 0
     /\ Deliver(vdData, spiBuf.offset)
     /\ UNCHANGED <<spiStatus, spiBuf, spiDataRcvd, tcpVars, vd, vdData, faults>>
  \/ /\ Rejects("RD_FILE", spiBuf.len)
     /\ UNCHANGED <<spiVars, tcpVars, vd, vdData, faults>>

(* VD_CMD_RD_NEXT: the AVR has the segment; at the end of the buffered     *)
(* data the buffer is given up.                                            *)
EspReadNext ==
  \/ /\ Accepts("RD_NEXT")
     /\ LET pos == vdData.filePos + spiBuf.len
        IN vdData' = [vdData EXCEPT
                        !.filePos = pos,
                        !.dataLen = IF pos = vdData.dataLen \/ pos = BufLen
                                    THEN 0 ELSE vdData.dataLen]
     /\ Finish(0, spiBuf.len)
     /\ UNCHANGED <<spiVars, tcpVars, vd, faults>>
  \/ /\ Rejects("RD_NEXT", spiBuf.len)
     /\ UNCHANGED <<spiVars, tcpVars, vd, vdData, faults>>
-----------------------------------------------------------------------------
(* A slip in WriteStart: a new sector starts where the last one stopped.   *)
WriteStartKept == vdData.filePos

(* Where in the buffer the segment being written starts.                   *)
WriteStart == IF vdData.dataLen = 0 THEN 0 ELSE vdData.filePos

(* VD_CMD_WR_FILE: the chunk goes into the buffer, behind the segments     *)
(* already there, before its checksum is looked at; of a chunk that does   *)
(* not fit the wrong byte is taken for the checksum.                       *)
EspWrite ==
  /\ Received("WR_FILE")
  /\ LET i    == WriteStart + spiBuf.offset
         fits == i < BufLen /\ spiBuf.len > 0
     IN /\ vdData' = [vdData EXCEPT
                        !.filePos = WriteStart,
                        !.data = IF fits THEN [@ EXCEPT ![i + 1] = spiBuf.chunk]
                                 ELSE @]
        /\ \/ fits /\ spiBuf.valid /\ Finish(0, 0)
           \/ ~(fits /\ spiBuf.valid) /\ ChecksumError(0)
  /\ vd' = IF vdData.dataLen = 0
           THEN [vd EXCEPT !.cmd = "WR_FILE", !.filename = vdData.filename]
           ELSE vd
  /\ UNCHANGED <<spiVars, tcpVars, faults>>

(* VD_CMD_WR_NEXT: the segment is complete; the last one sends the sector. *)
EspWriteNext ==
  LET pos == vdData.filePos + spiBuf.len
      len == vdData.dataLen + spiBuf.len
  IN
  \/ /\ Accepts("WR_NEXT")
     /\ pos = BufLen
     /\ vdData' = [vdData EXCEPT !.filePos = 0, !.dataLen = len]
     /\ Call([vd EXCEPT !.data = vdData.data, !.dataLen = len])
     /\ UNCHANGED <<spiVars, faults>>
  \/ /\ Accepts("WR_NEXT")
     /\ pos # BufLen
     /\ vdData' = [vdData EXCEPT !.filePos = pos, !.dataLen = len]
     /\ Finish(0, spiBuf.len)
     /\ UNCHANGED <<spiVars, tcpVars, vd, faults>>
  \/ /\ Rejects("WR_NEXT", spiBuf.len)
     /\ UNCHANGED <<spiVars, tcpVars, vd, vdData, faults>>

(* tcpSrvStatus: connected to the server (1) and its debug port (4).       *)
SrvConnected == 1 + 4

(* VD_CMD_STATUS, which the AVR sends before it uses a disk (vd_status,    *)
(* vd_mount) and any one-bit damage may make of a command; the connections *)
(* are up.                                                                 *)
EspStatus ==
  /\ Received("STATUS")
  /\ IF spiBuf.valid THEN Finish(WlConnected, SrvConnected) ELSE ChecksumError(0)
  /\ UNCHANGED <<spiVars, tcpVars, vd, vdData, faults>>

(* Any other first byte: the packet is dropped, the status stays busy.     *)
EspUnknown ==
  /\ Received("NONE")
  /\ espPc' = "clear"
  /\ UNCHANGED <<spiVars, tcpVars, vdStatus, vd, vdData, faults>>
-----------------------------------------------------------------------------
(* What each command does with the outcome of waitForTcpData.  reply says  *)
(* that the packet p has been read into vd; otherwise the wait ran out.    *)
AfterWait(reply, p) ==
  CASE dataBuf.cmd \in {"SEL_FILE", "SEEK_FILE"} ->
         /\ Finish(IF reply THEN 0 ELSE 1, 0)
         /\ UNCHANGED <<spiOut, vdData>>
    [] dataBuf.cmd = "RD_FILE" ->
         /\ vdData' = IF reply /\ p.status = "OK"
                      THEN [vdData EXCEPT !.data = p.data,
                                          !.dataLen = p.dataLen,
                                          !.filePos = 0]
                      ELSE vdData
         /\ Deliver(vdData', dataBuf.offset)
    [] dataBuf.cmd = "WR_NEXT" ->
         /\ vdData' = [vdData EXCEPT !.dataLen = 0]
         /\ Finish(0, dataBuf.len)
         /\ UNCHANGED spiOut

(* waitForTcpData is content with exactly 536 bytes.                       *)
EspReply ==
  /\ espPc = "wait"
  /\ Len(s2c) = 1
  /\ vd' = Head(s2c)
  /\ s2c' = <<>>
  /\ AfterWait(TRUE, Head(s2c))
  /\ UNCHANGED <<spiStatus, spiBuf, spiDataRcvd, c2s, dataBuf, faults>>

(* 250 ms have passed: no answer will come, or there are bytes of more     *)
(* than one, or - a fault - the answer is late.                            *)
EspTimeout ==
  /\ espPc = "wait"
  /\ \/ c2s = <<>> /\ s2c = <<>> /\ UNCHANGED faults
     \/ Len(s2c) > 1 /\ UNCHANGED faults
     \/ TcpLate /\ c2s \o s2c # <<>> /\ Fault
  /\ AfterWait(FALSE, vd)
  /\ UNCHANGED <<spiStatus, spiBuf, spiDataRcvd, tcpVars, dataBuf, vd>>
-----------------------------------------------------------------------------
(* SPISlave.setStatus                                                      *)
EspSetStatus ==
  /\ espPc = "ack"
  /\ spiStatus' = vdStatus
  /\ espPc' = "clear"
  /\ UNCHANGED <<spiOut, spiBuf, spiDataRcvd, tcpVars, dataBuf, vdStatus, vd,
                 vdData, faults>>

(* spiDataRcvd = false: also forgets a packet that came in the meantime.   *)
EspClear ==
  /\ espPc = "clear"
  /\ spiDataRcvd' = FALSE
  /\ espPc' = "loop"
  /\ UNCHANGED <<spiStatus, spiOut, spiBuf, tcpVars, dataBuf, vdStatus, vd,
                 vdData, faults>>

EspStep ==
  \/ EspSelect \/ EspSeek \/ EspRead \/ EspReadNext
  \/ EspWrite \/ EspWriteNext \/ EspStatus \/ EspUnknown
  \/ EspReply \/ EspTimeout
  \/ EspSetStatus \/ EspClear
=============================================================================
