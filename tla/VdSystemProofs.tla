--------------------------- MODULE VdSystemProofs ---------------------------
(***************************************************************************)
(* Theorems about the three processors together, for any disks, any sector *)
(* size, any number of attempts and any number of faults.                  *)
(***************************************************************************)
EXTENDS VdSystem, VdServerProofs

(* The call the AVR is in fits the operation asked for, and the segment it *)
(* transfers lies within the sector.                                       *)
StageFits ==
  /\ stage # "SEL_FILE" => req.kind \in {"read", "write"}
  /\ stage \in {"WR_FILE", "WR_NEXT"} => req.kind = "write"
  /\ stage \in {"RD_FILE", "WR_FILE"} => seg < Segments
  /\ iosPc = "data" => stage = "RD_FILE"

(* The ESP8266 waits for answers to these commands only.                   *)
WaitFits ==
  espPc = "wait" => dataBuf.cmd \in {"SEL_FILE", "SEEK_FILE", "RD_FILE", "WR_NEXT"}

IosTypes == IosTypeOK /\ StageFits
EspTypes == EspTypeOK /\ WaitFits
TypeInv == TypeOK /\ StageFits /\ WaitFits
-----------------------------------------------------------------------------
LEMMA BufLenType == BufLen \in Nat \ {0} /\ BufLen = 2 * Segments
BY SegmentsAssumption DEF BufLen, SegmentLen

(* What a request has, by its kind.                                        *)
LEMMA ReqType ==
  ASSUME req \in SelectReq \cup ReadReq \cup WriteReq
  PROVE  /\ req.disk \in Disks
         /\ req.kind \in {"read", "write"} => req.sector \in Nat
         /\ req.kind = "write" => req.content \in Buffer
BY SectorsAssumption, ContentsAssumption DEF SelectReq, ReadReq, WriteReq

LEMMA CommandType ==
  ASSUME NEW c \in Commands
  PROVE  Command(c) \in SpiPacket
BY ChunkAssumption DEF Command, SpiPacket

(* The AVR sends packets.                                                  *)
LEMMA PacketType ==
  ASSUME IosTypes
  PROVE  Packet \in SpiPacket /\ Packet.cmd = stage
<1> USE DEF IosTypes, IosTypeOK, Stages
<1>1. CASE stage = "SEL_FILE"
  <2>1. req.disk \in Disks
    BY ReqType
  <2> QED BY <1>1, <2>1, ChunkAssumption
          DEF Packet, SelFile, Command, SpiPacket, Commands
<1>2. CASE stage = "SEEK_FILE"
  <2>1. req.sector \in Nat
    BY <1>2, ReqType DEF StageFits
  <2>2. req.sector * BufLen \in Nat
    BY <2>1, BufLenType
  <2> QED BY <1>2, <2>2, ChunkAssumption
          DEF Packet, SeekFile, Command, SpiPacket, Commands
<1>3. CASE stage = "RD_FILE"
  <2>1. offset \in Nat
    BY DEF SegmentLen
  <2>2. Packet = RdFile(offset)
    BY <1>3 DEF Packet
  <2> QED BY <1>3, <2>1, <2>2, ChunkAssumption
          DEF RdFile, Command, SpiPacket, Commands
<1>4. CASE stage = "RD_NEXT"
  BY <1>4, ChunkAssumption DEF Packet, RdNext, Command, SpiPacket, Commands
<1>5. CASE stage = "WR_FILE"
  <2>1. req.content \in Buffer /\ seg < Segments
    BY <1>5, ReqType DEF StageFits
  <2>2. SegmentLen * seg + offset + 1 \in 1 .. BufLen
    BY <2>1, SegmentsAssumption DEF SegmentLen, BufLen
  <2>3. req.content[SegmentLen * seg + offset + 1] \in Chunk
    BY <2>1, <2>2 DEF Buffer
  <2>4. offset \in Nat
    BY DEF SegmentLen
  <2> DEFINE c == req.content[SegmentLen * seg + offset + 1]
  <2>5. Packet = WrFile(offset, c)
    BY <1>5 DEF Packet
  <2> HIDE DEF c
  <2> QED BY <1>5, <2>3, <2>4, <2>5, ChunkAssumption
          DEF c, WrFile, Command, SpiPacket, Commands
<1>6. CASE stage = "WR_NEXT"
  BY <1>6, ChunkAssumption DEF Packet, WrNext, Command, SpiPacket, Commands
<1> QED
  BY <1>1, <1>2, <1>3, <1>4, <1>5, <1>6 DEF Commands

(* A damaged packet is a packet that does not check.                       *)
LEMMA DamagedType ==
  ASSUME NEW p \in SpiPacket, p.cmd \in Stages, NEW q \in Damaged(p)
  PROVE  q \in SpiPacket /\ ~q.valid
<1> DEFINE Bad(r) == [r EXCEPT !.valid = FALSE]
<1>1. CASE q = Bad([p EXCEPT !.chunk = BadChunk])
  BY <1>1, ChunkAssumption DEF SpiPacket
<1>2. CASE \E o \in 0 .. SegmentLen - 1 : q = Bad([p EXCEPT !.offset = o])
  <2>1. PICK o \in 0 .. SegmentLen - 1 : q = Bad([p EXCEPT !.offset = o])
    BY <1>2
  <2>2. o \in Nat
    BY DEF SegmentLen
  <2> QED BY <2>1, <2>2 DEF SpiPacket
<1>3. CASE \E c \in OneBitOff[p.cmd] :
             q = Bad([p EXCEPT !.cmd = c, !.chunk = BadChunk, !.len = 1,
                               !.offset = SecondByte(p)])
  <2>1. OneBitOff[p.cmd] \subseteq Commands
    <3>1. p.cmd \in {"SEL_FILE", "RD_FILE", "RD_NEXT", "WR_FILE", "WR_NEXT",
                    "SEEK_FILE"}
      BY DEF Stages, Commands
    <3>2. OneBitOff["SEL_FILE"] \subseteq Commands
      BY DEF OneBitOff, Commands
    <3>3. OneBitOff["RD_FILE"] \subseteq Commands
      BY DEF OneBitOff, Commands
    <3>4. OneBitOff["RD_NEXT"] \subseteq Commands
      BY DEF OneBitOff, Commands
    <3>5. OneBitOff["WR_FILE"] \subseteq Commands
      BY DEF OneBitOff, Commands
    <3>6. OneBitOff["WR_NEXT"] \subseteq Commands
      BY DEF OneBitOff, Commands
    <3>7. OneBitOff["SEEK_FILE"] \subseteq Commands
      BY DEF OneBitOff, Commands
    <3> QED BY <3>1, <3>2, <3>3, <3>4, <3>5, <3>6, <3>7
  <2>2. SecondByte(p) \in Nat
    BY BufLenType DEF SecondByte
  <2>3. PICK c \in Commands :
             q = Bad([p EXCEPT !.cmd = c, !.chunk = BadChunk, !.len = 1,
                               !.offset = SecondByte(p)])
    BY <1>3, <2>1
  <2> QED BY <2>2, <2>3, ChunkAssumption DEF SpiPacket
<1> QED
  BY <1>1, <1>2, <1>3 DEF Damaged
-----------------------------------------------------------------------------
(* The operation ends, or a call begins, with everything else well typed.  *)
LEMMA EndOpType ==
  ASSUME IosTypes, NEW err \in Outcomes, EndOp(err),
         req' \in SelectReq \cup ReadReq \cup WriteReq,
         curDisk' \in Disks \cup {NoName}, cmdData' \in Nat
  PROVE  IosTypes'
<1>1. ZeroBuffer \in Buffer
  BY ZeroBufferType
<1>2. bufferSD' \in Buffer
  BY <1>1 DEF EndOp, IosTypes, IosTypeOK
<1>3. pathSent' \in BOOLEAN
  BY DEF EndOp
<1>4. /\ iosPc' \in {"idle", "send", "poll", "expired", "data"}
      /\ stage' \in Stages
      /\ diskErr' \in Outcomes
  BY DEF EndOp, Stages, Commands
<1>5. /\ seg' \in 0 .. Segments
      /\ offset' \in 0 .. SegmentLen - 1
      /\ attempts' \in 0 .. 255
      /\ dataLen' \in Nat
  BY SegmentsAssumption DEF EndOp, SegmentLen
<1>6. IosTypeOK'
  BY <1>2, <1>3, <1>4, <1>5 DEF IosTypeOK
<1>7. StageFits'
  BY DEF EndOp, StageFits
<1> QED
  BY <1>6, <1>7 DEF IosTypes

LEMMA BeginCallType ==
  ASSUME NEW s \in Stages, NEW n \in 0 .. Segments, BeginCall(s, n),
         req' \in SelectReq \cup ReadReq \cup WriteReq,
         curDisk' \in Disks \cup {NoName}, cmdData' \in Nat,
         bufferSD' \in Buffer, diskErr' \in Outcomes,
         s # "SEL_FILE" => req'.kind \in {"read", "write"},
         s \in {"WR_FILE", "WR_NEXT"} => req'.kind = "write",
         s \in {"RD_FILE", "WR_FILE"} => n < Segments
  PROVE  IosTypes'
<1>1. pathSent' \in BOOLEAN
  BY DEF BeginCall
<1>2. /\ iosPc' \in {"idle", "send", "poll", "expired", "data"}
      /\ stage' \in Stages
  BY DEF BeginCall
<1>3. /\ seg' \in 0 .. Segments
      /\ offset' \in 0 .. SegmentLen - 1
      /\ attempts' \in 0 .. 255
      /\ dataLen' \in Nat
  BY DEF BeginCall, SegmentLen
<1>4. IosTypeOK'
  BY <1>1, <1>2, <1>3 DEF IosTypeOK
<1>5. StageFits'
  BY DEF BeginCall, StageFits
<1> QED
  BY <1>4, <1>5 DEF IosTypes

LEMMA BumpType ==
  ASSUME attempts \in 0 .. 255, NEW n \in Nat
  PROVE  Bump(n) \in 0 .. 255
BY DEF Bump

(* A command that was not carried out is sent again, or the operation      *)
(* reports an error.                                                       *)
LEMMA FailedType ==
  ASSUME IosTypes, NEW checksum \in BOOLEAN, Failed(checksum),
         req' = req, cmdData' \in Nat
  PROVE  IosTypes'
<1>1. ASSUME NEW tries \in 0 .. 255, Again(tries)
      PROVE  IosTypes'
  BY <1>1 DEF Again, IosTypes, IosTypeOK, StageFits
<1>2. ASSUME NEW errs \in SUBSET Outcomes, Return(errs)
      PROVE  IosTypes'
  <2>1. PICK err \in Outcomes : EndOp(err)
    BY <1>2 DEF Return
  <2>2. req' \in SelectReq \cup ReadReq \cup WriteReq
    BY DEF IosTypes, IosTypeOK
  <2>3. curDisk' \in Disks \cup {NoName}
    BY <1>2 DEF Return, IosTypes, IosTypeOK
  <2> QED BY <2>1, <2>2, <2>3, EndOpType
<1>3. attempts \in 0 .. 255 /\ Bump(1) \in 0 .. 255
  BY BumpType DEF IosTypes, IosTypeOK
<1>4. Errors \subseteq Outcomes
  BY DEF Outcomes
<1>5. {"NOT_OPENED"} \subseteq Outcomes /\ {"DISK_ERR"} \subseteq Outcomes
        /\ {"UNEXPECTED_EOF"} \subseteq Outcomes
        /\ {"DISK_ERR", "UNEXPECTED_EOF"} \subseteq Outcomes
  BY DEF Outcomes, Errors
<1> QED
  BY <1>1, <1>2, <1>3, <1>5 DEF Failed

(* A command that was carried out is followed by the next of the           *)
(* operation.                                                              *)
LEMMA SucceededType ==
  ASSUME IosTypes, Succeeded, req' = req, cmdData' \in Nat
  PROVE  IosTypes'
<1> USE DEF IosTypes, IosTypeOK
<1>1. ASSUME NEW s \in Stages \ {"SEL_FILE"}, NEW n \in 0 .. Segments, GoOn(s, n),
             req.kind \in {"read", "write"},
             s \in {"WR_FILE", "WR_NEXT"} => req.kind = "write",
             s \in {"RD_FILE", "WR_FILE"} => n < Segments
      PROVE  IosTypes'
  <2>1. BeginCall(s, n) /\ UNCHANGED <<curDisk, bufferSD, diskErr>>
    BY <1>1 DEF GoOn
  <2>2. /\ req' \in SelectReq \cup ReadReq \cup WriteReq
        /\ req'.kind \in {"read", "write"}
        /\ s \in {"WR_FILE", "WR_NEXT"} => req'.kind = "write"
    BY <1>1
  <2>3. curDisk' \in Disks \cup {NoName} /\ bufferSD' \in Buffer
          /\ diskErr' \in Outcomes
    BY <2>1
  <2> HIDE DEF IosTypes
  <2> QED BY <1>1, <2>1, <2>2, <2>3, BeginCallType
<1>2. ASSUME NEW err \in {"OK", "UNEXPECTED_EOF"}, EndOp(err),
             curDisk' \in Disks \cup {NoName}
      PROVE  IosTypes'
  <2>1. err \in Outcomes
    BY DEF Outcomes, Errors
  <2>2. req' \in SelectReq \cup ReadReq \cup WriteReq
    OBVIOUS
  <2> QED BY <1>2, <2>1, <2>2, EndOpType
<1>3. CASE stage = "SEL_FILE"
  <2>1. curDisk' = req.disk /\ EndOp("OK")
    BY <1>3 DEF Succeeded
  <2> QED BY <1>2, <2>1, ReqType
<1>4. CASE stage = "SEEK_FILE"
  <2>1. GoOn(IF req.kind = "read" THEN "RD_FILE" ELSE "WR_FILE", 0)
    BY <1>4 DEF Succeeded
  <2>2. req.kind \in {"read", "write"}
    BY <1>4 DEF StageFits
  <2>3. "RD_FILE" \in Stages \ {"SEL_FILE"} /\ "WR_FILE" \in Stages \ {"SEL_FILE"}
    BY DEF Stages, Commands
  <2>4. 0 \in 0 .. Segments /\ 0 < Segments
    BY SegmentsAssumption
  <2> QED BY <1>1, <2>1, <2>2, <2>3, <2>4
<1>5. CASE stage = "RD_FILE"
  BY <1>5 DEF Succeeded, StageFits
<1>6. CASE stage = "RD_NEXT"
  <2>1. "RD_FILE" \in Stages \ {"SEL_FILE"}
    BY DEF Stages, Commands
  <2>2. req.kind \in {"read", "write"}
    BY <1>6 DEF StageFits
  <2>3. seg + 1 < Segments => seg + 1 \in 0 .. Segments
    BY SegmentsAssumption
  <2>4. (GoOn("RD_FILE", seg + 1) /\ seg + 1 < Segments)
          \/ Return({"OK"}) \/ Return({"UNEXPECTED_EOF"})
    BY <1>6 DEF Succeeded
  <2> QED BY <1>1, <1>2, <2>1, <2>2, <2>3, <2>4 DEF Return
<1>7. CASE stage = "WR_FILE"
  BY <1>7, SegmentsAssumption
  DEF Succeeded, SegmentDone, SegmentLen, StageFits, Stages, Commands
<1>8. CASE stage = "WR_NEXT"
  <2>1. {"WR_FILE", "WR_NEXT"} \subseteq Stages \ {"SEL_FILE"}
    BY DEF Stages, Commands
  <2>2. req.kind = "write"
    BY <1>8 DEF StageFits
  <2>3. Segments \in 0 .. Segments /\ (seg + 1 < Segments => seg + 1 \in 0 .. Segments)
    BY SegmentsAssumption
  <2>4. (GoOn("WR_FILE", seg + 1) /\ seg + 1 < Segments)
          \/ GoOn("WR_NEXT", Segments) \/ Return({"OK"})
    BY <1>8 DEF Succeeded
  <2> QED BY <1>1, <1>2, <2>1, <2>2, <2>3, <2>4 DEF Return
<1> QED
  BY <1>3, <1>4, <1>5, <1>6, <1>7, <1>8 DEF Stages, Commands
-----------------------------------------------------------------------------
LEMMA FaultType ==
  ASSUME FaultsTypeOK, Fault \/ UNCHANGED faults
  PROVE  FaultsTypeOK'
BY MaxFaultsAssumption DEF FaultsTypeOK, Fault

(* The receive interrupt leaves the SPI slave well typed.                  *)
LEMMA SPIOnDataType ==
  ASSUME SpiTypeOK, NEW p \in SpiPacket, SPIOnData(p)
  PROVE  SpiTypeOK'
<1>1. BusyStatus \in StatusRegister
  BY DEF BusyStatus, StatusRegister, SpiStates
<1>2. spiDataRcvd' \in BOOLEAN
  BY DEF SPIOnData
<1> QED
  BY <1>1, <1>2 DEF SPIOnData, SpiTypeOK

SideTypes == IosTypes /\ SpiTypeOK /\ FaultsTypeOK

(* Every step of the AVR keeps the types of its own state, of the SPI      *)
(* slave and of the fault budget.                                          *)
LEMMA IosStepType ==
  ASSUME SideTypes, IosStep
  PROVE  SideTypes'
<1> USE DEF SideTypes
<1>1. CASE StartOp
  <2>1. BufLen \in Nat /\ ZeroBuffer \in Buffer
    BY BufLenType, ZeroBufferType
  <2>2. /\ bufferSD' \in Buffer
        /\ diskErr' \in Outcomes
        /\ cmdData' \in Nat
    BY <1>1, <2>1 DEF StartOp, Outcomes, IosTypes, IosTypeOK
  <2>3. 0 \in 0 .. Segments /\ {"SEL_FILE", "SEEK_FILE"} \subseteq Stages
    BY SegmentsAssumption DEF Stages, Commands
  <2>4. CASE StartSelect
    <3>1. req' \in SelectReq /\ curDisk' = NoName /\ BeginCall("SEL_FILE", 0)
      BY <2>4 DEF StartSelect
    <3> QED BY <1>1, <2>2, <2>3, <3>1, BeginCallType
            DEF StartOp, spiVars, SpiTypeOK, FaultsTypeOK
  <2>5. CASE StartTransfer
    <3>1. /\ req' \in ReadReq \cup WriteReq
          /\ curDisk' \in Disks \cup {NoName}
          /\ BeginCall("SEEK_FILE", 0)
      BY <2>5 DEF StartTransfer, IosTypes, IosTypeOK
    <3>2. req'.kind \in {"read", "write"}
      BY <3>1 DEF ReadReq, WriteReq
    <3> QED BY <1>1, <2>2, <2>3, <3>1, <3>2, BeginCallType
            DEF StartOp, spiVars, SpiTypeOK, FaultsTypeOK
  <2> QED BY <1>1, <2>4, <2>5 DEF StartOp
<1>2. ASSUME NEW err \in {"ABANDONED", "RESET"}, EndOp(err),
             UNCHANGED <<req, cmdData>>, curDisk' \in {curDisk, NoName}
      PROVE  IosTypes'
  <2>1. err \in Outcomes
    BY DEF Outcomes
  <2>2. /\ req' \in SelectReq \cup ReadReq \cup WriteReq
        /\ curDisk' \in Disks \cup {NoName}
        /\ cmdData' \in Nat
    BY <1>2 DEF IosTypes, IosTypeOK
  <2> QED BY <1>2, <2>1, <2>2, EndOpType
<1>3. CASE Abandon
  BY <1>2, <1>3 DEF Abandon, spiVars, SpiTypeOK, FaultsTypeOK
<1>4. CASE Reset
  BY <1>2, <1>4, FaultType DEF Reset, spiVars, SpiTypeOK
<1>5. CASE Send
  <2>1. PICK p \in SpiPacket : SPIOnData(p)
    <3>1. Packet \in SpiPacket /\ Packet.cmd \in Stages
      BY PacketType DEF IosTypes, IosTypeOK
    <3> QED BY <1>5, <3>1, DamagedType DEF Send
  <2>2. SpiTypeOK'
    BY <2>1, SPIOnDataType
  <2>3. FaultsTypeOK'
    BY <1>5, FaultType DEF Send
  <2>4. attempts' \in 0 .. 255
    BY <1>5, BumpType DEF Send, IosTypes, IosTypeOK
  <2>5. pathSent' \in BOOLEAN
    BY <1>5 DEF Send
  <2>6. IosTypeOK'
    BY <1>5, <2>4, <2>5 DEF Send, IosTypes, IosTypeOK
  <2>7. StageFits'
    BY <1>5 DEF Send, IosTypes, StageFits
  <2> QED BY <2>2, <2>3, <2>6, <2>7 DEF IosTypes
<1>6. CASE Poll
  <2>1. cmdData' \in Nat /\ req' = req
    BY <1>6 DEF Poll, SpiTypeOK, StatusRegister
  <2>2. Succeeded \/ \E c \in BOOLEAN : Failed(c)
    BY <1>6 DEF Poll
  <2>3. IosTypes'
    BY <2>1, <2>2, SucceededType, FailedType
  <2> QED BY <1>6, <2>3 DEF Poll, spiVars, SpiTypeOK, FaultsTypeOK
<1>8. CASE Expire
  <2>1. IosTypes'
    BY <1>8, FailedType DEF Expire, IosTypes, IosTypeOK
  <2> QED BY <1>8, <2>1 DEF Expire, spiVars, SpiTypeOK, FaultsTypeOK
<1>9. CASE ReadData
  <2>1. FaultsTypeOK' /\ SpiTypeOK'
    BY <1>9, FaultType DEF ReadData, spiVars, SpiTypeOK
  <2>2. SegmentLen * seg + offset + 1 \in 1 .. BufLen
    BY <1>9, SegmentsAssumption
    DEF ReadData, IosTypes, IosTypeOK, StageFits, SegmentLen, BufLen
  <2> DEFINE c == IF spiOut.len = 1 THEN spiOut.chunk ELSE BadChunk
             k == SegmentLen * seg + offset + 1
  <2>3. c \in Chunk
    BY ChunkAssumption DEF SpiTypeOK, OutPacket
  <2>4. bufferSD' = bufferSD \/ bufferSD' = [bufferSD EXCEPT ![k] = c]
    BY <1>9 DEF ReadData
  <2>5. bufferSD' \in Buffer
    <3> HIDE DEF c, k
    <3> QED BY <2>3, <2>4 DEF IosTypes, IosTypeOK, Buffer
  <2>6. dataLen' \in Nat
    BY <1>9 DEF ReadData, IosTypes, IosTypeOK
  <2>7. offset' \in 0 .. SegmentLen - 1 /\ stage' \in {"RD_FILE", "RD_NEXT"}
          /\ attempts' \in 0 .. 255
    BY <1>9 DEF ReadData, SegmentDone, SegmentLen, IosTypes, IosTypeOK, StageFits
  <2>8. iosPc' = "send" /\ stage = "RD_FILE"
          /\ UNCHANGED <<req, curDisk, seg, pathSent, cmdData, diskErr>>
    BY <1>9 DEF ReadData, IosTypes, StageFits
  <2>9. IosTypeOK'
    BY <2>5, <2>6, <2>7, <2>8 DEF IosTypes, IosTypeOK, Stages, Commands
  <2>10. StageFits'
    BY <2>7, <2>8 DEF IosTypes, StageFits
  <2> QED BY <2>1, <2>9, <2>10 DEF IosTypes
<1>10. ASSUME LastPoll, Fault \/ UNCHANGED faults
       PROVE  SideTypes'
  <2>1. FaultsTypeOK'
    BY <1>10, FaultType
  <2>2. SpiTypeOK'
    BY <1>10 DEF LastPoll, spiVars, SpiTypeOK
  <2>3. IosTypes'
    BY <1>10 DEF LastPoll, IosTypes, IosTypeOK, StageFits
  <2> QED BY <2>1, <2>2, <2>3
<1> QED
  BY <1>1, <1>3, <1>4, <1>5, <1>6, <1>8, <1>9, <1>10
  DEF IosStep, IosRun, Start, LoseLastPoll, StalledLastPoll
-----------------------------------------------------------------------------
EspSideTypes == SpiTypeOK /\ EspTypes /\ TcpTypeOK /\ FaultsTypeOK

LEMMA FinishType ==
  ASSUME NEW s \in {0, 1, WlConnected}, NEW n \in Nat,
         Finish(s, n) \/ ChecksumError(n)
  PROVE  vdStatus' \in StatusRegister /\ espPc' = "ack"
BY DEF Finish, ChecksumError, StatusRegister, SpiStates, WlConnected

LEMMA CallType ==
  ASSUME EspTypeOK, TcpTypeOK, NEW p \in TcpPacket, Call(p)
  PROVE  /\ TcpTypeOK'
         /\ vd' \in TcpPacket
         /\ vdStatus' \in StatusRegister
         /\ espPc' = "wait"
BY DEF Call, SendRequest, TcpTypeOK, EspTypeOK

(* What the ESP8266 puts into the data register.                           *)
LEMMA OutType ==
  ASSUME NEW b \in SectorBuffer, NEW o \in Nat
  PROVE  Out(b, o) \in OutPacket /\ Out(b, o).len \in Nat
<1>1. b.data \in Buffer /\ b.filePos \in Nat
  BY DEF SectorBuffer
<1>2. BufLen \in Nat
  BY BufLenType
<1>3. b.filePos + o < BufLen => b.data[b.filePos + o + 1] \in Chunk
  BY <1>1, <1>2 DEF Buffer
<1> QED
  BY <1>3, ChunkAssumption DEF Out, OutPacket

LEMMA DeliverType ==
  ASSUME NEW b \in SectorBuffer, NEW o \in Nat, Deliver(b, o)
  PROVE  /\ spiOut' \in OutPacket
         /\ vdStatus' \in StatusRegister
         /\ espPc' = "ack"
<1>1. spiOut' = Out(b, o) /\ Finish(0, Out(b, o).len)
  BY DEF Deliver
<1> QED
  BY <1>1, OutType, FinishType

(* What becomes of a command once its answer is there or given up.         *)
LEMMA AfterWaitType ==
  ASSUME SpiTypeOK, EspTypes, espPc = "wait",
         NEW reply \in BOOLEAN, NEW p \in TcpPacket, AfterWait(reply, p)
  PROVE  /\ spiOut' \in OutPacket
         /\ vdStatus' \in StatusRegister
         /\ vdData' \in SectorBuffer
         /\ espPc' = "ack"
<1> USE DEF EspTypes, EspTypeOK
<1>1. dataBuf.len \in Nat /\ dataBuf.offset \in Nat
  BY DEF SpiPacket
<1>2. /\ dataBuf.cmd \in {"SEL_FILE", "SEEK_FILE", "RD_FILE", "WR_NEXT"}
      /\ spiOut \in OutPacket
  BY DEF WaitFits, SpiTypeOK
<1>3. CASE dataBuf.cmd \in {"SEL_FILE", "SEEK_FILE"}
  <2>1. Finish(IF reply THEN 0 ELSE 1, 0) /\ UNCHANGED <<spiOut, vdData>>
    BY <1>3 DEF AfterWait
  <2> QED BY <1>2, <2>1, FinishType
<1>4. CASE dataBuf.cmd = "RD_FILE"
  <2>1. /\ vdData' = IF reply /\ p.status = "OK"
                     THEN [vdData EXCEPT !.data = p.data, !.dataLen = p.dataLen,
                                         !.filePos = 0]
                     ELSE vdData
        /\ Deliver(vdData', dataBuf.offset)
    BY <1>4 DEF AfterWait
  <2>2. vdData' \in SectorBuffer
    BY <2>1 DEF SectorBuffer, TcpPacket
  <2> QED BY <1>1, <2>1, <2>2, DeliverType
<1>5. CASE dataBuf.cmd = "WR_NEXT"
  <2>1. /\ vdData' = [vdData EXCEPT !.dataLen = 0]
        /\ Finish(0, dataBuf.len)
        /\ UNCHANGED spiOut
    BY <1>5 DEF AfterWait
  <2>2. vdData' \in SectorBuffer
    BY <2>1 DEF SectorBuffer
  <2> QED BY <1>1, <1>2, <2>1, <2>2, FinishType
<1> QED
  BY <1>2, <1>3, <1>4, <1>5

(* The fields of a received packet.                                        *)
LEMMA SpiBufType ==
  ASSUME SpiTypeOK
  PROVE  /\ spiBuf \in SpiPacket
         /\ spiBuf.filename \in Disks \cup {NoName}
         /\ spiBuf.offset \in Nat
         /\ spiBuf.len \in Nat
         /\ spiBuf.fileOffset \in Nat
         /\ spiBuf.chunk \in Chunk
BY DEF SpiTypeOK, SpiPacket

(* A command that finishes at once, or not.                                *)
LEMMA EspAckType ==
  ASSUME EspSideTypes, dataBuf' = spiBuf, UNCHANGED <<tcpVars, faults>>,
         UNCHANGED <<spiStatus, spiBuf, spiDataRcvd>>, spiOut' \in OutPacket,
         vdStatus' \in StatusRegister, espPc' = "ack",
         vd' \in TcpPacket, vdData' \in SectorBuffer
  PROVE  EspSideTypes'
<1>1. SpiTypeOK'
  BY DEF EspSideTypes, SpiTypeOK
<1>2. EspTypes'
  BY SpiBufType DEF EspSideTypes, EspTypes, EspTypeOK, WaitFits
<1>3. TcpTypeOK' /\ FaultsTypeOK'
  BY DEF EspSideTypes, TcpTypeOK, FaultsTypeOK, tcpVars
<1> QED
  BY <1>1, <1>2, <1>3 DEF EspSideTypes

LEMMA EspCallType ==
  ASSUME EspSideTypes, dataBuf' = spiBuf, UNCHANGED <<spiVars, faults>>,
         spiBuf.cmd \in {"SEL_FILE", "SEEK_FILE", "RD_FILE", "WR_NEXT"},
         NEW p \in TcpPacket, Call(p), vdData' \in SectorBuffer
  PROVE  EspSideTypes'
<1>1. SpiTypeOK'
  BY DEF EspSideTypes, SpiTypeOK, spiVars
<1>2. TcpTypeOK' /\ vd' \in TcpPacket /\ vdStatus' \in StatusRegister
        /\ espPc' = "wait"
  BY CallType DEF EspSideTypes, EspTypes
<1>3. EspTypes'
  BY <1>2, SpiBufType DEF EspSideTypes, EspTypes, EspTypeOK, WaitFits
<1>4. FaultsTypeOK'
  BY DEF EspSideTypes, FaultsTypeOK
<1> QED
  BY <1>1, <1>2, <1>3, <1>4 DEF EspSideTypes

(* Every step of the ESP8266 keeps the types of its own state, of the SPI  *)
(* slave, of the queues and of the fault budget.                           *)
LEMMA EspStepType ==
  ASSUME EspSideTypes, EspStep
  PROVE  EspSideTypes'
<1>1. /\ vdData \in SectorBuffer
      /\ vdData.filename \in Disks \cup {NoName}
      /\ vdData.filePos \in Nat
      /\ vdData.dataLen \in Nat
      /\ vdData.data \in Buffer
  BY DEF EspSideTypes, EspTypes, EspTypeOK, SectorBuffer
<1>2. vd \in TcpPacket /\ spiOut \in OutPacket /\ BufLen \in Nat
  BY BufLenType DEF EspSideTypes, EspTypes, EspTypeOK, SpiTypeOK
<1>3. SpiTypeOK
  BY DEF EspSideTypes
<1>4. ASSUME NEW cmd \in Commands, NEW n \in Nat, Rejects(cmd, n),
             UNCHANGED <<spiVars, tcpVars, vd, faults>>, vdData' \in SectorBuffer
      PROVE  EspSideTypes'
  BY <1>2, <1>4, FinishType, EspAckType DEF Rejects, Received, spiVars
<1>5. CASE EspSelect
  <2>1. CASE Accepts("SEL_FILE")
    <3> DEFINE p == [vd EXCEPT !.cmd = "SEL_FILE", !.filename = spiBuf.filename]
    <3>1. p \in TcpPacket
      BY <1>2, <1>3, SpiBufType DEF TcpPacket, Commands
    <3>2. /\ vdData' = [vdData EXCEPT !.filename = spiBuf.filename,
                                      !.filePos = 0, !.dataLen = 0]
          /\ Call(p)
          /\ UNCHANGED <<spiVars, faults>>
      BY <1>5, <2>1 DEF EspSelect, Accepts, Rejects
    <3>3. vdData' \in SectorBuffer
      BY <1>1, <1>3, <3>2, SpiBufType DEF SectorBuffer
    <3> HIDE DEF p
    <3> QED BY <2>1, <3>1, <3>2, <3>3, EspCallType DEF Accepts, Received
  <2>2. CASE Rejects("SEL_FILE", 0)
    BY <1>1, <1>4, <1>5, <2>2 DEF EspSelect, Accepts, Rejects, Commands
  <2> QED BY <1>5, <2>1, <2>2 DEF EspSelect
<1>6. CASE EspSeek
  <2>1. vdData' \in SectorBuffer
    BY <1>1, <1>6 DEF EspSeek, DropBuffer, SectorBuffer
  <2>2. CASE Accepts("SEEK_FILE")
    <3> DEFINE p == [vd EXCEPT !.cmd = "SEEK_FILE", !.filename = vdData.filename,
                               !.fileOffset = spiBuf.fileOffset]
    <3>1. p \in TcpPacket
      BY <1>1, <1>2, <1>3, SpiBufType DEF TcpPacket, Commands
    <3>2. Call(p) /\ UNCHANGED <<spiVars, faults>>
      BY <1>6, <2>2 DEF EspSeek, Accepts, Rejects
    <3> HIDE DEF p
    <3> QED BY <2>1, <2>2, <3>1, <3>2, EspCallType DEF Accepts, Received
  <2>3. CASE Rejects("SEEK_FILE", 0)
    BY <1>4, <1>6, <2>1, <2>3 DEF EspSeek, Accepts, Rejects, Commands
  <2> QED BY <1>6, <2>2, <2>3 DEF EspSeek
<1>7. CASE EspRead
  <2>1. CASE Accepts("RD_FILE") /\ vdData.dataLen = 0
    <3> DEFINE p == [vd EXCEPT !.cmd = "RD_FILE", !.filename = vdData.filename]
    <3>1. p \in TcpPacket
      BY <1>1, <1>2 DEF TcpPacket, Commands
    <3>2. Call(p) /\ vdData' \in SectorBuffer /\ UNCHANGED <<spiVars, faults>>
      BY <1>1, <1>7, <2>1 DEF EspRead, Accepts, Rejects
    <3> HIDE DEF p
    <3> QED BY <2>1, <3>1, <3>2, EspCallType DEF Accepts, Received
  <2>2. CASE Accepts("RD_FILE") /\ vdData.dataLen # 0
    <3>1. /\ Deliver(vdData, spiBuf.offset)
          /\ UNCHANGED <<spiStatus, spiBuf, spiDataRcvd, tcpVars, vd, vdData, faults>>
          /\ dataBuf' = spiBuf
      BY <1>7, <2>2 DEF EspRead, Accepts, Rejects, Received
    <3> QED BY <1>1, <1>2, <1>3, <3>1, SpiBufType, DeliverType, EspAckType
  <2>3. CASE Rejects("RD_FILE", spiBuf.len)
    BY <1>1, <1>3, <1>4, <1>7, <2>3, SpiBufType
    DEF EspRead, Accepts, Rejects, Commands
  <2> QED BY <1>7, <2>1, <2>2, <2>3 DEF EspRead
<1>8. CASE EspReadNext
  <2>1. CASE Accepts("RD_NEXT")
    <3>1. vdData.filePos + spiBuf.len \in Nat
      BY <1>1, <1>3, SpiBufType
    <3>2. vdData' \in SectorBuffer
      <4>1. \A n, l \in Nat :
              [vdData EXCEPT !.filePos = n, !.dataLen = l] \in SectorBuffer
        BY <1>1 DEF SectorBuffer
      <4>2. PICK n \in Nat, l \in {0, vdData.dataLen} :
              vdData' = [vdData EXCEPT !.filePos = n, !.dataLen = l]
        BY <1>8, <2>1, <3>1 DEF EspReadNext, Accepts, Rejects
      <4> QED BY <1>1, <4>1, <4>2
    <3>3. /\ Finish(0, spiBuf.len)
          /\ UNCHANGED <<spiVars, tcpVars, vd, faults>>
          /\ dataBuf' = spiBuf
      BY <1>8, <2>1 DEF EspReadNext, Accepts, Rejects, Received
    <3>4. spiBuf.len \in Nat
      BY <1>3, SpiBufType
    <3>5. vdStatus' \in StatusRegister /\ espPc' = "ack"
      BY <3>3, <3>4, FinishType
    <3> QED BY <1>2, <3>2, <3>3, <3>5, EspAckType DEF spiVars
  <2>2. CASE Rejects("RD_NEXT", spiBuf.len)
    BY <1>1, <1>3, <1>4, <1>8, <2>2, SpiBufType
    DEF EspReadNext, Accepts, Rejects, Commands
  <2> QED BY <1>8, <2>1, <2>2 DEF EspReadNext
<1>9. CASE EspWrite
  <2> DEFINE i == WriteStart + spiBuf.offset
             fits == i < BufLen /\ spiBuf.len > 0
             d == IF fits THEN [vdData.data EXCEPT ![i + 1] = spiBuf.chunk]
                  ELSE vdData.data
  <2>1. WriteStart \in Nat
    BY <1>1 DEF WriteStart
  <2>2. d \in Buffer
    BY <1>1, <1>3, SpiBufType DEF Buffer
  <2>3. /\ vdData' = [vdData EXCEPT !.filePos = WriteStart, !.data = d]
        /\ Finish(0, 0) \/ ChecksumError(0)
        /\ dataBuf' = spiBuf
        /\ UNCHANGED <<spiVars, tcpVars, faults>>
    BY <1>9 DEF EspWrite, Received
  <2>4. vdData' \in SectorBuffer
    <3>1. \A n \in Nat, e \in Buffer :
            [vdData EXCEPT !.filePos = n, !.data = e] \in SectorBuffer
      BY <1>1 DEF SectorBuffer
    <3> HIDE DEF d
    <3> QED BY <2>1, <2>2, <2>3, <3>1
  <2>5. vd' \in TcpPacket
    BY <1>1, <1>2, <1>9 DEF EspWrite, TcpPacket, Commands
  <2>6. vdStatus' \in StatusRegister /\ espPc' = "ack"
    BY <2>3, FinishType
  <2> QED BY <1>2, <2>3, <2>4, <2>5, <2>6, EspAckType DEF spiVars
<1>10. CASE EspWriteNext
  <2> DEFINE pos == vdData.filePos + spiBuf.len
             len == vdData.dataLen + spiBuf.len
  <2>1. pos \in Nat /\ len \in Nat /\ spiBuf.len \in Nat
    BY <1>1, <1>3, SpiBufType
  <2>2. CASE Accepts("WR_NEXT") /\ pos = BufLen
    <3> DEFINE p == [vd EXCEPT !.data = vdData.data, !.dataLen = len]
    <3>1. p \in TcpPacket
      BY <1>1, <1>2, <2>1 DEF TcpPacket
    <3>2. /\ vdData' = [vdData EXCEPT !.filePos = 0, !.dataLen = len]
          /\ Call(p)
          /\ UNCHANGED <<spiVars, faults>>
      BY <1>10, <2>2 DEF EspWriteNext, Accepts, Rejects
    <3>3. vdData' \in SectorBuffer
      BY <1>1, <2>1, <3>2 DEF SectorBuffer
    <3> HIDE DEF p
    <3> QED BY <2>2, <3>1, <3>2, <3>3, EspCallType DEF Accepts, Received
  <2>3. CASE Accepts("WR_NEXT") /\ pos # BufLen
    <3>1. /\ vdData' = [vdData EXCEPT !.filePos = pos, !.dataLen = len]
          /\ Finish(0, spiBuf.len)
          /\ UNCHANGED <<spiVars, tcpVars, vd, faults>>
          /\ dataBuf' = spiBuf
      BY <1>10, <2>3 DEF EspWriteNext, Accepts, Rejects, Received
    <3>2. vdData' \in SectorBuffer
      BY <1>1, <2>1, <3>1 DEF SectorBuffer
    <3>3. vdStatus' \in StatusRegister /\ espPc' = "ack"
      BY <2>1, <3>1, FinishType
    <3> QED BY <1>2, <3>1, <3>2, <3>3, EspAckType DEF spiVars
  <2>4. CASE Rejects("WR_NEXT", spiBuf.len)
    BY <1>1, <1>4, <1>10, <2>1, <2>4 DEF EspWriteNext, Accepts, Rejects, Commands
  <2> QED BY <1>10, <2>2, <2>3, <2>4 DEF EspWriteNext
<1>11. CASE EspStatus
  <2>1. /\ Finish(WlConnected, SrvConnected) \/ ChecksumError(0)
        /\ dataBuf' = spiBuf
        /\ UNCHANGED <<spiVars, tcpVars, vd, vdData, faults>>
    BY <1>11 DEF EspStatus, Received
  <2>2. vdStatus' \in StatusRegister /\ espPc' = "ack"
    BY <2>1, FinishType DEF SrvConnected
  <2> QED BY <1>1, <1>2, <2>1, <2>2, EspAckType DEF spiVars
<1>12. CASE EspUnknown
  BY <1>3, <1>12, SpiBufType
  DEF EspUnknown, Received, EspSideTypes, EspTypes, EspTypeOK, WaitFits, SpiTypeOK,
      spiVars, TcpTypeOK, tcpVars, FaultsTypeOK
<1>13. ASSUME espPc = "wait", NEW reply \in BOOLEAN, NEW p \in TcpPacket,
              AfterWait(reply, p), vd' \in TcpPacket,
              UNCHANGED <<spiStatus, spiBuf, spiDataRcvd, dataBuf>>
       PROVE  SpiTypeOK' /\ EspTypes'
  BY <1>13, AfterWaitType
  DEF EspSideTypes, SpiTypeOK, EspTypes, EspTypeOK, WaitFits
<1>14. CASE EspReply
  <2>1. Head(s2c) \in TcpPacket
    BY <1>14 DEF EspReply, EspSideTypes, TcpTypeOK
  <2>2. TcpTypeOK' /\ FaultsTypeOK'
    BY <1>14 DEF EspReply, EspSideTypes, TcpTypeOK, FaultsTypeOK
  <2> QED BY <1>13, <1>14, <2>1, <2>2 DEF EspReply, EspSideTypes
<1>15. CASE EspTimeout
  <2>1. FaultsTypeOK'
    BY <1>15, FaultType DEF EspTimeout, EspSideTypes
  <2>2. TcpTypeOK'
    BY <1>15 DEF EspTimeout, EspSideTypes, TcpTypeOK, tcpVars
  <2> QED BY <1>2, <1>13, <1>15, <2>1, <2>2 DEF EspTimeout, EspSideTypes
<1>16. CASE EspSetStatus
  BY <1>16
  DEF EspSetStatus, EspSideTypes, EspTypes, EspTypeOK, WaitFits, SpiTypeOK,
      TcpTypeOK, tcpVars, FaultsTypeOK
<1>17. CASE EspClear
  BY <1>17
  DEF EspClear, EspSideTypes, EspTypes, EspTypeOK, WaitFits, SpiTypeOK, TcpTypeOK,
      tcpVars, FaultsTypeOK
<1> QED
  BY <1>5, <1>6, <1>7, <1>8, <1>9, <1>10, <1>11, <1>12, <1>14, <1>15, <1>16, <1>17
  DEF EspStep
-----------------------------------------------------------------------------
LEMMA InitType == Init => TypeInv
<1> SUFFICES ASSUME Init
             PROVE  TypeInv
  OBVIOUS
<1> USE DEF Init
<1>1. ServerTypeOK /\ TcpTypeOK
  BY ServerInitType, ImagesAssumption DEF ServerTypes
<1>2. Command("NONE") \in SpiPacket /\ ZeroBuffer \in Buffer
  BY CommandType, ZeroBufferType DEF Commands
<1>3. IosTypeOK /\ StageFits
  <2>1. pathSent \in BOOLEAN
    BY DEF IosInit
  <2>2. 0 \in 0 .. Segments /\ 0 \in 0 .. SegmentLen - 1 /\ 0 \in 0 .. 255
    BY SegmentsAssumption DEF SegmentLen
  <2>3. "SEL_FILE" \in Stages /\ "RESET" \in Outcomes
    BY DEF Stages, Commands, Outcomes
  <2>4. IosTypeOK
    BY <1>2, <2>1, <2>2, <2>3 DEF IosInit, IosTypeOK
  <2> QED BY <2>4 DEF IosInit, StageFits
<1>4. ReadyStatus \in StatusRegister
  BY DEF ReadyStatus, StatusRegister, SpiStates
<1>5. SpiTypeOK
  BY <1>2, <1>4, ChunkAssumption DEF SpiInit, SpiTypeOK, OutPacket
<1>6. EspTypeOK /\ WaitFits
  BY <1>2, <1>4
  DEF EspInit, EspTypeOK, WaitFits, TcpPacket, SectorBuffer, Commands, Statuses
<1>7. FaultsTypeOK
  BY MaxFaultsAssumption DEF FaultsInit, FaultsTypeOK
<1> QED
  BY <1>1, <1>3, <1>5, <1>6, <1>7 DEF TypeInv, TypeOK

LEMMA NextType == TypeInv /\ [Next]_vars => TypeInv'
<1> SUFFICES ASSUME TypeInv, [Next]_vars
             PROVE  TypeInv'
  OBVIOUS
<1> USE DEF TypeInv, TypeOK
<1>1. CASE Ios
  <2>1. SideTypes'
    BY <1>1, IosStepType DEF Ios, SideTypes, IosTypes
  <2>2. EspTypeOK' /\ WaitFits'
    BY <1>1 DEF Ios, espVars, EspTypeOK, WaitFits
  <2>3. TcpTypeOK' /\ ServerTypeOK'
    BY <1>1 DEF Ios, tcpVars, serverVars, TcpTypeOK, ServerTypeOK
  <2> QED BY <2>1, <2>2, <2>3 DEF SideTypes, IosTypes
<1>2. CASE Esp
  <2>1. EspSideTypes'
    BY <1>2, EspStepType DEF Esp, EspSideTypes, EspTypes
  <2>2. IosTypeOK' /\ StageFits'
    BY <1>2 DEF Esp, iosVars, IosTypeOK, StageFits
  <2>3. ServerTypeOK'
    BY <1>2 DEF Esp, serverVars, ServerTypeOK
  <2> QED BY <2>1, <2>2, <2>3 DEF EspSideTypes, EspTypes
<1>3. CASE Server
  <2>1. ServerTypeOK' /\ TcpTypeOK'
    BY <1>3, ServerStepType DEF Server, ServerTypes
  <2>2. IosTypeOK' /\ StageFits'
    BY <1>3 DEF Server, iosVars, IosTypeOK, StageFits
  <2>3. SpiTypeOK' /\ FaultsTypeOK'
    BY <1>3 DEF Server, spiVars, SpiTypeOK, FaultsTypeOK
  <2>4. EspTypeOK' /\ WaitFits'
    BY <1>3 DEF Server, espVars, EspTypeOK, WaitFits
  <2> QED BY <2>1, <2>2, <2>3, <2>4
<1>4. CASE UNCHANGED vars
  <2>1. IosTypeOK' /\ StageFits'
    BY <1>4 DEF vars, iosVars, IosTypeOK, StageFits
  <2>2. SpiTypeOK' /\ FaultsTypeOK'
    BY <1>4 DEF vars, spiVars, SpiTypeOK, FaultsTypeOK
  <2>3. EspTypeOK' /\ WaitFits'
    BY <1>4 DEF vars, espVars, EspTypeOK, WaitFits
  <2>4. TcpTypeOK' /\ ServerTypeOK'
    BY <1>4 DEF vars, tcpVars, serverVars, TcpTypeOK, ServerTypeOK
  <2> QED BY <2>1, <2>2, <2>3, <2>4
<1> QED
  BY <1>1, <1>2, <1>3, <1>4 DEF Next

(* The state of all three processors is well formed in every step, however *)
(* packets are damaged, replies delayed and operations cut short: indices  *)
(* into the 512-byte buffers stay within them (the segment and chunk of    *)
(* vd_read and vd_write, filePos and offset of VD_CMD_RD_FILE and          *)
(* VD_CMD_WR_FILE), and the ESP8266 waits only for answers it knows what   *)
(* to do with.                                                             *)
THEOREM TypeCorrect == Spec => []TypeOK
<1>1. Init => TypeInv
  BY InitType
<1>2. TypeInv /\ [Next]_vars => TypeInv'
  BY NextType
<1>3. TypeInv => TypeOK
  BY DEF TypeInv
<1> QED
  BY <1>1, <1>2, <1>3, PTL DEF Spec
-----------------------------------------------------------------------------
(* Why the unnumbered packets of both links cannot be taken for one        *)
(* another: on the TCP connection because a reply is never later than it   *)
(* is waited for (~TcpLate), on the SPI bus because the ESP8266 is never   *)
(* held up for longer than the AVR polls (~Stall).                         *)

(* LockStep is inductive as it stands.  The reply is taken, or the wait    *)
(* ends with nothing under way, before the ESP8266 goes on; a new request  *)
(* therefore finds both queues empty.                                      *)
LEMMA ServerLockStep ==
  ASSUME TcpTypeOK, LockStep, ServerStep, UNCHANGED espVars
  PROVE  LockStep'
<1>1. c2s # <<>>
  BY DEF ServerStep, SelectEmulated, SelectPlain, SelectMissing, ReadEmulated,
         ReadPlain, ReadMismatch, WriteEmulated, WritePlain, WriteRefused,
         SeekEmulated, SeekPlain, SeekRefused, IgnoreCommand, Requested
<1>2. (\E p : Answer(p)) \/ NoAnswer
  BY DEF ServerStep, SelectEmulated, SelectPlain, SelectMissing, ReadEmulated,
         ReadPlain, ReadMismatch, WriteEmulated, WritePlain, WriteRefused,
         SeekEmulated, SeekPlain, SeekRefused, IgnoreCommand
<1>3. Len(c2s) = 1 /\ Len(s2c) = 0 /\ espPc = "wait"
  <2>1. Len(c2s) \in Nat \ {0} /\ Len(s2c) \in Nat
    BY <1>1 DEF TcpTypeOK
  <2>2. Len(c2s) + Len(s2c) <= 1 /\ espPc = "wait"
    BY <1>1 DEF LockStep
  <2> QED BY <2>1, <2>2
<1>4. Len(s2c') <= 1 /\ Len(s2c') \in Nat
  BY <1>2, <1>3 DEF Answer, NoAnswer, TcpTypeOK
<1>5. Len(c2s') = 0
  <2>1. c2s' = Tail(c2s)
    BY <1>2 DEF Answer, NoAnswer
  <2> QED BY <1>3, <2>1 DEF TcpTypeOK
<1>6. Len(c2s') + Len(s2c') <= 1
  BY <1>4, <1>5
<1>7. espPc' = "wait"
  BY <1>3 DEF espVars
<1> QED
  BY <1>6, <1>7 DEF LockStep

LEMMA CallLockStep ==
  ASSUME TcpTypeOK, LockStep, espPc = "loop", NEW p, Call(p)
  PROVE  LockStep'
<1>1. c2s = <<>> /\ s2c = <<>>
  BY DEF LockStep
<1>2. c2s' = Append(<<>>, p) /\ s2c' = <<>>
  BY <1>1, WindowAssumption DEF Call, SendRequest
<1>3. Len(c2s') = 1 /\ Len(s2c') = 0
  BY <1>2
<1>4. Len(c2s') + Len(s2c') <= 1
  BY <1>3
<1>5. espPc' = "wait"
  BY DEF Call
<1> QED
  BY <1>4, <1>5 DEF LockStep

LEMMA EspLockStep ==
  ASSUME TypeInv, LockStep, EspStep, ~TcpLate
  PROVE  LockStep'
<1>1. TcpTypeOK /\ SpiTypeOK /\ EspTypes /\ vd \in TcpPacket
  BY DEF TypeInv, TypeOK, EspTypes, EspTypeOK
<1>2. ASSUME espPc # "wait", UNCHANGED tcpVars
      PROVE  LockStep'
  BY <1>2 DEF LockStep, tcpVars
<1>3. CASE EspSelect
  BY <1>1, <1>2, <1>3, CallLockStep DEF EspSelect, Accepts, Rejects, Received
<1>4. CASE EspSeek
  BY <1>1, <1>2, <1>4, CallLockStep DEF EspSeek, Accepts, Rejects, Received
<1>5. CASE EspRead
  BY <1>1, <1>2, <1>5, CallLockStep DEF EspRead, Accepts, Rejects, Received
<1>6. CASE EspReadNext
  BY <1>2, <1>6 DEF EspReadNext, Accepts, Rejects, Received
<1>7. CASE EspWrite
  BY <1>2, <1>7 DEF EspWrite, Received
<1>8. CASE EspWriteNext
  BY <1>1, <1>2, <1>8, CallLockStep DEF EspWriteNext, Accepts, Rejects, Received
<1>9. CASE EspStatus \/ EspUnknown \/ EspSetStatus \/ EspClear
  BY <1>2, <1>9 DEF EspStatus, EspUnknown, EspSetStatus, EspClear, Received, tcpVars
<1>10. CASE EspReply
  <2>1. Len(c2s) = 0 /\ s2c' = <<>> /\ c2s' = c2s
    BY <1>1, <1>10 DEF EspReply, LockStep, TcpTypeOK
  <2>2. c2s' = <<>>
    BY <1>1, <2>1 DEF TcpTypeOK
  <2> QED BY <2>1, <2>2 DEF LockStep
<1>11. CASE EspTimeout
  <2>1. c2s = <<>> /\ s2c = <<>>
    <3>1. ~(Len(s2c) > 1)
      BY <1>1 DEF LockStep, TcpTypeOK
    <3> QED BY <1>11, <3>1 DEF EspTimeout
  <2> QED BY <1>11, <2>1 DEF EspTimeout, LockStep, tcpVars
<1> QED
  BY <1>3, <1>4, <1>5, <1>6, <1>7, <1>8, <1>9, <1>10, <1>11 DEF EspStep

(* At most one TCP packet is under way, and only while the ESP8266 waits   *)
(* for it (waitForTcpData), however packets are damaged on the SPI bus and *)
(* whenever the AVR gives up, abandons a sector or starts over - as long   *)
(* as no reply takes more than the 250 ms it is waited for.                *)
THEOREM LockStepAlways ==
  ASSUME ~TcpLate
  PROVE  Spec => []LockStep
<1>1. Init => TypeInv /\ LockStep
  BY InitType DEF Init, TcpInit, LockStep
<1>2. TypeInv /\ LockStep /\ [Next]_vars => (TypeInv /\ LockStep)'
  <2> SUFFICES ASSUME TypeInv, LockStep, [Next]_vars
               PROVE  LockStep'
    BY NextType
  <2>1. CASE Ios
    BY <2>1 DEF Ios, LockStep, espVars, tcpVars
  <2>2. CASE Esp
    BY <2>2, EspLockStep DEF Esp
  <2>3. CASE Server
    BY <2>3, ServerLockStep DEF Server, TypeInv, TypeOK
  <2>4. CASE UNCHANGED vars
    BY <2>4 DEF vars, LockStep, espVars, tcpVars
  <2> QED BY <2>1, <2>2, <2>3, <2>4 DEF Next
<1> QED
  BY <1>1, <1>2, PTL DEF Spec
-----------------------------------------------------------------------------
(* The ESP8266 will not touch its status before the next packet.           *)
Quiet == espPc = "clear" \/ EspSettled

(* AnswersThisCommand says nothing of the ESP8266 while the AVR does not   *)
(* poll; that the next packet does not run into a command still being      *)
(* processed takes the rest.                                               *)
AnswerInv ==
  /\ iosPc \in {"send", "data"} => Quiet
  /\ iosPc = "idle" /\ diskErr # "RESET" => Quiet
  /\ iosPc = "expired" => EspSettled
  /\ iosPc = "poll" /\ spiStatus.status # "BUSY" => Quiet /\ dataBuf = spiBuf
  /\ iosPc = "poll" /\ espPc \in {"wait", "ack"} => dataBuf = spiBuf

(* Where a step of the AVR that ends a call, or makes another, leads.      *)
LEMMA OutcomeOfFailed ==
  ASSUME NEW checksum \in BOOLEAN, Failed(checksum)
  PROVE  iosPc' = "send" \/ (iosPc' = "idle" /\ diskErr' # "RESET")
BY DEF Failed, Again, Return, EndOp

LEMMA OutcomeOfSucceeded ==
  ASSUME Succeeded
  PROVE  iosPc' \in {"send", "data"} \/ (iosPc' = "idle" /\ diskErr' # "RESET")
BY DEF Succeeded, GoOn, BeginCall, Return, EndOp

LEMMA IosAnswer ==
  ASSUME AnswerInv, IosStep, UNCHANGED espVars, ~Stall
  PROVE  AnswerInv'
<1> USE DEF AnswerInv
<1>1. ASSUME Quiet, UNCHANGED spiDataRcvd,
             iosPc' \in {"send", "data"} \/ (iosPc' = "idle" /\ diskErr' # "RESET")
      PROVE  AnswerInv'
  BY <1>1 DEF Quiet, EspSettled, espVars
<1>2. CASE Start
  <2>1. Quiet
    BY <1>2 DEF Start, StartOp, StartSelect, StartTransfer, Quiet
  <2>2. iosPc' = "send" /\ UNCHANGED spiDataRcvd
    BY <1>2 DEF Start, StartOp, StartSelect, StartTransfer, BeginCall, spiVars
  <2> QED BY <1>1, <2>1, <2>2
<1>3. CASE Abandon
  BY <1>1, <1>3 DEF Abandon, EndOp, spiVars
<1>4. CASE Reset
  BY <1>4 DEF Reset, EndOp
<1>5. CASE Send
  <2>1. PICK p : SPIOnData(p)
    BY <1>5 DEF Send
  <2>2. iosPc = "send" /\ iosPc' = "poll" /\ spiStatus'.status = "BUSY"
    BY <1>5, <2>1 DEF Send, SPIOnData, BusyStatus
  <2> QED BY <2>2 DEF Quiet, EspSettled, espVars
<1>6. CASE Poll
  <2>1. Quiet /\ UNCHANGED spiDataRcvd
    BY <1>6 DEF Poll, spiVars
  <2>2. iosPc' \in {"send", "data"} \/ (iosPc' = "idle" /\ diskErr' # "RESET")
    BY <1>6, OutcomeOfFailed, OutcomeOfSucceeded DEF Poll
  <2> QED BY <1>1, <2>1, <2>2
<1>7. CASE ReadData
  BY <1>1, <1>7 DEF ReadData, spiVars
<1>8. CASE LoseLastPoll
  BY <1>8 DEF LoseLastPoll, LastPoll, EspSettled, espVars, spiVars
<1>9. CASE Expire
  <2>1. Quiet /\ UNCHANGED spiDataRcvd
    BY <1>9 DEF Expire, Quiet, spiVars
  <2> QED BY <1>1, <1>9, <2>1, OutcomeOfFailed DEF Expire
<1>10. ~StalledLastPoll
  BY DEF StalledLastPoll
<1> QED
  BY <1>2, <1>3, <1>4, <1>5, <1>6, <1>7, <1>8, <1>9, <1>10 DEF IosStep, IosRun

LEMMA EspAnswer ==
  ASSUME TypeInv, AnswerInv, EspStep, UNCHANGED iosVars
  PROVE  AnswerInv'
<1> USE DEF AnswerInv
<1>1. UNCHANGED <<iosPc, diskErr>>
  BY DEF iosVars
<1>2. ASSUME NEW cmd, Received(cmd), espPc' \in {"wait", "ack", "clear"},
             UNCHANGED <<spiStatus, spiBuf, spiDataRcvd>>
      PROVE  AnswerInv'
  BY <1>1, <1>2 DEF Received, Quiet, EspSettled
<1>3. CASE EspSelect
  BY <1>2, <1>3
  DEF EspSelect, Accepts, Rejects, Call, Finish, ChecksumError, spiVars
<1>4. CASE EspSeek
  BY <1>2, <1>4 DEF EspSeek, Accepts, Rejects, Call, Finish, ChecksumError, spiVars
<1>5. CASE EspRead
  BY <1>2, <1>5
  DEF EspRead, Accepts, Rejects, Call, Deliver, Finish, ChecksumError, spiVars
<1>6. CASE EspReadNext
  BY <1>2, <1>6 DEF EspReadNext, Accepts, Rejects, Finish, ChecksumError, spiVars
<1>7. CASE EspWrite
  BY <1>2, <1>7 DEF EspWrite, Finish, ChecksumError, spiVars
<1>8. CASE EspWriteNext
  BY <1>2, <1>8
  DEF EspWriteNext, Accepts, Rejects, Call, Finish, ChecksumError, spiVars
<1>9. CASE EspStatus
  BY <1>2, <1>9 DEF EspStatus, Finish, ChecksumError, spiVars
<1>10. CASE EspUnknown
  BY <1>2, <1>10 DEF EspUnknown, spiVars
<1>11. ASSUME espPc = "wait", espPc' = "ack",
              UNCHANGED <<spiStatus, spiBuf, spiDataRcvd, dataBuf>>
       PROVE  AnswerInv'
  BY <1>1, <1>11 DEF Quiet, EspSettled
<1>12. SpiTypeOK /\ EspTypes /\ TcpTypeOK /\ vd \in TcpPacket
  BY DEF TypeInv, TypeOK, EspTypes, EspTypeOK
<1>13. CASE EspReply
  <2>1. Head(s2c) \in TcpPacket
    BY <1>12, <1>13 DEF EspReply, TcpTypeOK
  <2>2. espPc' = "ack"
    BY <1>12, <1>13, <2>1, AfterWaitType DEF EspReply
  <2> QED BY <1>11, <1>13, <2>2 DEF EspReply
<1>14. CASE EspTimeout
  <2>1. espPc' = "ack"
    BY <1>12, <1>14, AfterWaitType DEF EspTimeout
  <2> QED BY <1>11, <1>14, <2>1 DEF EspTimeout
<1>15. CASE EspSetStatus
  BY <1>1, <1>15 DEF EspSetStatus, Quiet, EspSettled
<1>16. CASE EspClear
  BY <1>1, <1>16 DEF EspClear, Quiet, EspSettled
<1> QED
  BY <1>3, <1>4, <1>5, <1>6, <1>7, <1>8, <1>9, <1>10, <1>13, <1>14, <1>15, <1>16
  DEF EspStep

(* A status the AVR reads that is not busy is the answer to the packet it  *)
(* has just sent, also after packets were damaged, replies lost or late,   *)
(* sectors abandoned and either reset button pressed - as long as loop()   *)
(* of the ESP8266 is never held up for half a second (SPIOnData,           *)
(* vdProcessCmd, waitReady_spi).                                           *)
THEOREM AnswersThisCommandAlways ==
  ASSUME ~Stall
  PROVE  Spec => []AnswersThisCommand
<1>1. Init => TypeInv /\ AnswerInv
  BY InitType DEF Init, IosInit, AnswerInv
<1>2. TypeInv /\ AnswerInv /\ [Next]_vars => (TypeInv /\ AnswerInv)'
  <2> SUFFICES ASSUME TypeInv, AnswerInv, [Next]_vars
               PROVE  AnswerInv'
    BY NextType
  <2>1. CASE Ios
    BY <2>1, IosAnswer DEF Ios
  <2>2. CASE Esp
    BY <2>2, EspAnswer DEF Esp
  <2>3. CASE Server
    BY <2>3
    DEF Server, AnswerInv, Quiet, EspSettled, iosVars, espVars, spiVars
  <2>4. CASE UNCHANGED vars
    BY <2>4 DEF vars, AnswerInv, Quiet, EspSettled, iosVars, espVars, spiVars
  <2> QED BY <2>1, <2>2, <2>3, <2>4 DEF Next
<1>3. AnswerInv => AnswersThisCommand
  BY DEF AnswerInv, AnswersThisCommand, Quiet, EspSettled
<1> QED
  BY <1>1, <1>2, <1>3, PTL DEF Spec
=============================================================================
