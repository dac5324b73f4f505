------------------------------ MODULE SpiLink -------------------------------
(***************************************************************************)
(* The SPI slave of the ESP8266 as both processors see it: the status      *)
(* register the AVR polls, the data register it reads, and the buffer and  *)
(* flag the receive interrupt fills.  The AVR is the only master; it can   *)
(* send a packet at any time, also while the last one is being processed.  *)
(***************************************************************************)
EXTENDS VdProtocol

VARIABLES
  spiStatus,    \* SPI1WS: what the AVR reads with SPI_RD_STATUS
  spiOut,       \* SPI1W8..15: what the AVR reads with SPI_RD_DATA
  spiBuf,       \* spiDataBuf: the last packet received
  spiDataRcvd   \* set by the interrupt, cleared at the end of vdProcessCmd

spiVars == <<spiStatus, spiOut, spiBuf, spiDataRcvd>>

(* wl_status_t of the ESP8266 while it is connected.                       *)
WlConnected == 3

SpiStates == {"READY", "BUSY", "CHKSUM_ERR"}

StatusRegister == [status : SpiStates, cmd_status : {0, 1, WlConnected}, cmd_data : Nat]

ReadyStatus == [status |-> "READY", cmd_status |-> 0, cmd_data |-> 0]
BusyStatus  == [status |-> "BUSY", cmd_status |-> 0, cmd_data |-> 0]

(* A data packet for the AVR: its length, and the chunk it carries when    *)
(* the length is 1.                                                        *)
OutPacket == [len : {0, 1}, chunk : Chunk]

SpiTypeOK ==
  /\ spiStatus \in StatusRegister
  /\ spiOut \in OutPacket
  /\ spiBuf \in SpiPacket
  /\ spiDataRcvd \in BOOLEAN

SpiInit ==
  /\ spiStatus = ReadyStatus
  /\ spiOut = [len |-> 0, chunk |-> ZeroChunk]
  /\ spiBuf = Command("NONE")
  /\ spiDataRcvd = FALSE

(* A slip in SPIOnData: the status is left as it was.                      *)
SPIOnDataNotBusy(p) ==
  /\ spiBuf' = p
  /\ spiDataRcvd' = TRUE
  /\ UNCHANGED <<spiStatus, spiOut>>

(* The AVR's transfer of p ends in the receive interrupt, which sets the   *)
(* status to busy and hands the bytes to the main loop.                    *)
SPIOnData(p) ==
  /\ spiStatus' = BusyStatus
  /\ spiBuf' = p
  /\ spiDataRcvd' = TRUE
  /\ UNCHANGED spiOut
=============================================================================
