------------------------------ MODULE VdSystem ------------------------------
(***************************************************************************)
(* The AVR, the ESP8266 and the server, joined by the SPI bus and by one   *)
(* TCP connection that stays up.                                           *)
(***************************************************************************)
EXTENDS IosDriver, EspClient, VdServer

CONSTANTS
  Images,   \* what the disks may hold in the beginning
  Stall     \* may loop() of the ESP8266 be held up for half a second?

ASSUME ImagesAssumption == Images \subseteq [Stored -> Seq(Chunk)]
ASSUME StallAssumption == Stall \in BOOLEAN

vars == <<iosVars, spiVars, espVars, tcpVars, serverVars, faults>>

TypeOK ==
  /\ IosTypeOK
  /\ SpiTypeOK
  /\ EspTypeOK
  /\ TcpTypeOK
  /\ ServerTypeOK
  /\ FaultsTypeOK

Init ==
  /\ IosInit
  /\ SpiInit
  /\ EspInit
  /\ TcpInit
  /\ ServerInit(Images)
  /\ FaultsInit

(* The ESP8266 has done all it is going to do.                             *)
EspSettled == espPc = "loop" /\ ~spiDataRcvd

(* The AVR boots for longer than the ESP8266 needs to finish a command.    *)
Start ==
  /\ diskErr = "RESET" => Stall \/ EspSettled
  /\ StartOp

(* The last look at the status is half a second after the packet; by then  *)
(* the ESP8266 has answered, unless it never will or is held up.           *)
LoseLastPoll ==
  /\ LastPoll
  /\ EspSettled
  /\ UNCHANGED faults

StalledLastPoll ==
  /\ LastPoll
  /\ ~EspSettled
  /\ Stall
  /\ Fault

IosRun == Send \/ Poll \/ ReadData \/ LoseLastPoll \/ Expire
IosStep == Start \/ Abandon \/ Reset \/ IosRun \/ StalledLastPoll

Ios == IosStep /\ UNCHANGED <<espVars, tcpVars, serverVars>>
Esp == EspStep /\ UNCHANGED <<iosVars, serverVars>>
Server == ServerStep /\ UNCHANGED <<iosVars, spiVars, espVars, faults>>

Next == Ios \/ Esp \/ Server

Spec == Init /\ [][Next]_vars

(* Every processor keeps running; nobody is made to start an operation, to *)
(* abandon one or to press a reset button.                                 *)
Fairness ==
  /\ WF_vars(IosRun /\ UNCHANGED <<espVars, tcpVars, serverVars>>)
  /\ WF_vars(Esp)
  /\ WF_vars(Server)

FairSpec == Spec /\ Fairness
-----------------------------------------------------------------------------
SectorStartOf(s) == s * BufLen

(* The 512 bytes of sector s of an image, fewer when it ends before.       *)
SectorOf(img, s) ==
  SubSeq(img, SectorStartOf(s) + 1, Min2(SectorStartOf(s) + BufLen, Len(img)))

(* A read that tells the Z80 it went well has delivered the 512 bytes the  *)
(* selected disk has at the sector asked for: no stale buffer of the       *)
(* ESP8266, no chunk out of place, no bytes from the wire (vd_read,        *)
(* VD_CMD_RD_FILE, VD_CMD_RD_NEXT).                                        *)
ReadExact ==
  diskErr = "OK" /\ req.kind = "read" =>
    /\ req.disk \in Stored
    /\ bufferSD = SectorOf(image[req.disk], req.sector)

(* A write that tells the Z80 it went well is on the disk, whole and at    *)
(* the sector asked for (vd_write, VD_CMD_WR_FILE, VD_CMD_WR_NEXT).        *)
WriteExact ==
  diskErr = "OK" /\ req.kind = "write" =>
    /\ req.disk \in Stored
    /\ SectorOf(image[req.disk], req.sector) = req.content

(* The unnumbered TCP packets cannot be taken for one another: at most one *)
(* is under way, and only while the ESP8266 waits for its answer           *)
(* (waitForTcpData takes whatever 536 bytes there are).                    *)
LockStep ==
  /\ Len(c2s) + Len(s2c) <= 1
  /\ espPc # "wait" => c2s = <<>> /\ s2c = <<>>

(* "The slave remains Busy until the command is processed": a status that  *)
(* is not busy is the answer to the command the AVR has just sent.         *)
AnswersThisCommand ==
  iosPc = "poll" /\ spiStatus.status # "BUSY" =>
    dataBuf = spiBuf /\ espPc \in {"clear", "loop"}

(* Every operation the Z80 starts comes to an end, whatever is damaged,    *)
(* lost or late: no retry loop runs for ever (vd_open, vd_lseek, vd_read,  *)
(* vd_write, waitReady_spi).                                               *)
Termination == iosPc # "idle" ~> iosPc = "idle"

(* After a successful select the server has the disk selected that was     *)
(* asked for (vd_open: "Checksum error, try again").                       *)
SelectsRequested ==
  diskErr = "OK" /\ req.kind = "select" => filename = req.disk

Abstract == INSTANCE SectorDisk WITH
  StoredNames <- Stored,
  None <- NoName,
  Requests <- SelectReq \cup ReadReq \cup WriteReq,
  NoData <- <<>>,
  store <- [d \in Stored |-> [s \in Sectors |-> SectorOf(image[d], s)]],
  disk <- curDisk,
  op <- req,
  outcome <- [err |-> diskErr,
              data |-> IF diskErr = "OK" /\ req.kind = "read"
                       THEN bufferSD ELSE <<>>]

(* The whole system is a disk with atomic sectors (module SectorDisk).     *)
IsSectorDisk == Abstract!SDSpec
=============================================================================
