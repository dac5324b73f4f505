----------------------------- MODULE IosOpcodes -----------------------------
(***************************************************************************)
(* loop() of the IOS firmware: the engine that serves the I/O operations   *)
(* of the Z80.  STORE names an opcode, every further OUT or IN exchanges   *)
(* one byte of it; serial input and the system tick pull the INT_ line.    *)
(* A handler is one step: the Z80 stands in a wait state meanwhile, and    *)
(* serialEvent and the tick are looked at between two calls of loop().     *)
(***************************************************************************)
EXTENDS IosDisk

CONSTANTS
  DiskName,     \* the file name of each disk number
  MaxTracks,    \* 512
  MaxSects,     \* 32
  ByteMod,      \* 256: a track number takes two bytes
  CntMod,       \* 65536: the byte counter is a word
  SerialSize,   \* the size of the serial receive buffer
  BootIrqs      \* the interrupts enabled for the boot program

ASSUME OpcodeBoundsAssumption ==
  /\ MaxTracks \in Nat \ {0} /\ MaxSects \in Nat \ {0}
  /\ ByteMod \in Nat \ {0}
  /\ CntMod \in Nat /\ SectBytes < CntMod
  /\ SerialSize \in Nat
  /\ BootIrqs \subseteq {"Rx", "Tick"}

VARIABLES
  ioOpcode,     \* the stored opcode
  ioByteCnt,    \* the bytes exchanged since
  ioData,       \* the byte on the data bus
  trackSel, sectSel,
  diskErr,      \* what ERRDISK tells
  bufferSD,     \* a segment
  irqStatus,    \* the causes SYSIRQ tells
  irqEnabled,   \* Z80IntRx and Z80IntSysTick
  intLow,       \* INT_ is active
  RxDoneFlag,   \* a serial read since the last receive interrupt
  serialRx      \* the characters in the serial receive buffer

diskVars == <<trackSel, sectSel, diskErr, bufferSD>>
irqVars == <<irqStatus, irqEnabled, intLow, RxDoneFlag, serialRx>>
ioVars == <<ioOpcode, ioByteCnt, ioData>>
opcodeVars == <<ioVars, diskVars, irqVars>>

(* The interrupt causes are bits of a byte.                                *)
Causes == {"Rx", "Tick"}
Bit == [Rx |-> 1, Tick |-> 2]
Bits(causes) ==
  (IF "Rx" \in causes THEN Bit.Rx ELSE 0) + (IF "Tick" \in causes THEN Bit.Tick ELSE 0)
CausesOf(byte) == { c \in Causes : (byte \div Bit[c]) % 2 = 1 }

WriteOpcodes == {"SELDISK", "SELTRACK", "SELSECT", "WRITESECT", "SETIRQ"}
ReadOpcodes == {"ERRDISK", "READSECT", "SYSIRQ"}

OpcodesTypeOK ==
  /\ ioOpcode \in WriteOpcodes \cup ReadOpcodes \cup {"NOP"}
  /\ ioByteCnt \in 0 .. CntMod - 1
  /\ trackSel \in 0 .. ByteMod * ByteMod - 1
  /\ sectSel \in 0 .. ByteMod - 1
  /\ diskErr \in {0, 1, 4, 16, 17, 18, 19}
  /\ DOMAIN bufferSD = 1 .. SegBytes
  /\ irqStatus \subseteq Causes
  /\ irqEnabled \subseteq Causes
  /\ intLow \in BOOLEAN
  /\ RxDoneFlag \in BOOLEAN
  /\ serialRx \in 0 .. SerialSize

(* What a reset leaves; the boot loader enables the interrupts that the    *)
(* program it loads wants.                                                 *)
OpcodesInit ==
  /\ ioOpcode = "NOP"
  /\ ioByteCnt = 0
  /\ ioData = 0
  /\ trackSel = 0
  /\ sectSel = 0
  /\ diskErr = 19
  /\ bufferSD = [i \in 1 .. SegBytes |-> 0]
  /\ irqStatus = {}
  /\ irqEnabled = BootIrqs
  /\ intLow = FALSE
  /\ RxDoneFlag = TRUE
  /\ serialRx = 0
(* The same, as a step.                                                    *)
OpcodesReset ==
  /\ ioOpcode' = "NOP"
  /\ ioByteCnt' = 0
  /\ ioData' = 0
  /\ trackSel' = 0
  /\ sectSel' = 0
  /\ diskErr' = 19
  /\ bufferSD' = [i \in 1 .. SegBytes |-> 0]
  /\ irqStatus' = {}
  /\ irqEnabled' = BootIrqs
  /\ intLow' = FALSE
  /\ RxDoneFlag' = TRUE
  /\ serialRx' = 0
-----------------------------------------------------------------------------
(* A slip in Store: the counter goes on.                                   *)
StoreOnly(op) ==
  /\ ioOpcode' = op
  /\ ioData' = 0
  /\ UNCHANGED <<ioByteCnt, diskVars, irqVars, sd, faults>>

(* OUT to the odd address: STORE.  The byte on the bus is the opcode.      *)
Store(op) ==
  /\ ioOpcode' = op
  /\ ioByteCnt' = 0
  /\ ioData' = 0
  /\ UNCHANGED <<diskVars, irqVars, sd, faults>>

(* One more byte; the opcode stays in force, or not.                       *)
Counted(goesOn) ==
  /\ ioByteCnt' = (ioByteCnt + 1) % CntMod
  /\ ioOpcode' = IF goesOn THEN ioOpcode ELSE "NOP"

Single == ioOpcode' = "NOP" /\ UNCHANGED ioByteCnt

SelDisk ==
  /\ ioOpcode = "SELDISK"
  /\ IF ioData' \in DOMAIN DiskName
     THEN \E r \in OpenSD(sd, DiskName[ioData']) :
            sd' = r.sd /\ diskErr' = r.err /\ Costs(r.fault)
     ELSE diskErr' = 16 /\ UNCHANGED <<sd, faults>>
  /\ Single
  /\ UNCHANGED <<trackSel, sectSel, bufferSD, irqVars>>

PlaceError(track, sect) ==
  IF sect >= MaxSects THEN 18 ELSE IF track >= MaxTracks THEN 17 ELSE 0

(* The low byte replaces the whole number, the high byte joins it and has  *)
(* both numbers checked.                                                   *)
SelTrack ==
  /\ ioOpcode = "SELTRACK"
  /\ IF ioByteCnt = 0
     THEN /\ trackSel' = ioData'
          /\ Counted(TRUE)
          /\ UNCHANGED diskErr
     ELSE /\ trackSel' = (ioData' * ByteMod) + (trackSel % ByteMod)
          /\ diskErr' = PlaceError(trackSel', sectSel)
          /\ Counted(FALSE)
  /\ UNCHANGED <<sectSel, bufferSD, irqVars, sd, faults>>

SelSect ==
  /\ ioOpcode = "SELSECT"
  /\ sectSel' = ioData'
  /\ diskErr' = PlaceError(trackSel, sectSel')
  /\ Single
  /\ UNCHANGED <<trackSel, bufferSD, irqVars, sd, faults>>

(* The seek before the first byte of a sector.                             *)
Sought ==
  IF ioByteCnt = 0 /\ PlaceError(trackSel, sectSel) = 0 /\ diskErr = 0
  THEN SeekSD(sd, trackSel * MaxSects + sectSel)
  ELSE { Result(sd, diskErr, 0) }

(* The byte's place in its segment, counted from 1.                        *)
Place == (ioByteCnt % SegBytes) + 1

(* WRITESECT: a full segment is written, the last one finalised too.  Once *)
(* an error has come the bytes are ignored and the opcode stays in force.  *)
WriteSect ==
  /\ ioOpcode = "WRITESECT"
  /\ \E k \in Sought :
       IF k.err # 0
       THEN /\ sd' = k.sd /\ diskErr' = k.err /\ Costs(k.fault)
            /\ Counted(TRUE)
            /\ UNCHANGED bufferSD
       ELSE LET buf  == [bufferSD EXCEPT ![Place] = ioData']
                last == ioByteCnt >= SectBytes - 1
            IN /\ bufferSD' = buf
               /\ IF Place < SegBytes
                  THEN /\ sd' = k.sd /\ diskErr' = 0 /\ Costs(k.fault)
                       /\ Counted(TRUE)
                  ELSE \E w \in WriteSD(k.sd, buf) :
                         LET err == IF w.n < SegBytes THEN 19 ELSE w.err
                         IN /\ \E f \in IF last /\ err = 0 THEN FinalizeSD(w.sd)
                                        ELSE { Result(w.sd, err, 0) } :
                                 /\ sd' = f.sd
                                 /\ diskErr' = f.err
                                 /\ Costs(k.fault + w.fault + f.fault)
                            /\ Counted(~last)
  /\ UNCHANGED <<trackSel, sectSel, irqVars>>

SetIrq ==
  /\ ioOpcode = "SETIRQ"
  /\ irqEnabled' = CausesOf(ioData')
  /\ Single
  /\ UNCHANGED <<diskVars, irqStatus, intLow, RxDoneFlag, serialRx, sd, faults>>

(* An opcode that is none of these ignores the byte.                       *)
WriteNothing ==
  /\ ioOpcode \notin WriteOpcodes
  /\ Single
  /\ UNCHANGED <<diskVars, irqVars, sd, faults>>

(* OUT to the even address: EXECUTE WRITE.                                 *)
ExecuteWrite(byte) ==
  /\ ioData' = byte
  /\ \/ SelDisk \/ SelTrack \/ SelSect \/ WriteSect \/ SetIrq \/ WriteNothing
-----------------------------------------------------------------------------
ErrDisk ==
  /\ ioOpcode = "ERRDISK"
  /\ ioData' = diskErr
  /\ Single
  /\ UNCHANGED <<diskVars, irqVars, sd, faults>>

(* READSECT: a segment is read for its first byte; after an error, zeros.  *)
ReadSect ==
  /\ ioOpcode = "READSECT"
  /\ \E k \in Sought :
       IF k.err # 0
       THEN /\ sd' = k.sd /\ diskErr' = k.err /\ Costs(k.fault)
            /\ ioData' = 0
            /\ UNCHANGED bufferSD
       ELSE IF Place > 1
       THEN /\ ioData' = bufferSD[Place]
            /\ UNCHANGED <<sd, diskErr, bufferSD, faults>>
       ELSE \E r \in ReadSD(k.sd, bufferSD) :
              /\ sd' = r.sd
              /\ bufferSD' = r.buf
              /\ diskErr' = IF r.n < SegBytes THEN 19 ELSE r.err
              /\ ioData' = IF diskErr' = 0 THEN r.buf[1] ELSE 0
              /\ Costs(k.fault + r.fault)
  /\ Counted(ioByteCnt < SectBytes - 1)
  /\ UNCHANGED <<trackSel, sectSel, irqVars>>

SysIrq ==
  /\ ioOpcode = "SYSIRQ"
  /\ ioData' = Bits(irqStatus)
  /\ irqStatus' = {}
  /\ Single
  /\ UNCHANGED <<diskVars, irqEnabled, intLow, RxDoneFlag, serialRx, sd, faults>>

ReadNothing ==
  /\ ioOpcode \notin ReadOpcodes
  /\ ioData' = 0
  /\ Single
  /\ UNCHANGED <<diskVars, irqVars, sd, faults>>

(* IN from the even address: EXECUTE READ.                                 *)
ExecuteRead == ErrDisk \/ ReadSect \/ SysIrq \/ ReadNothing

(* A slip in SerialRead: the flag that re-arms the interrupt is not set.   *)
SerialReadUnarmed ==
  /\ ioData' = IF serialRx > 0 THEN 1 ELSE ByteMod - 1
  /\ serialRx' = IF serialRx > 0 THEN serialRx - 1 ELSE 0
  /\ intLow' = FALSE
  /\ irqStatus' = irqStatus \ {"Rx"}
  /\ UNCHANGED <<ioOpcode, ioByteCnt, diskVars, irqEnabled, RxDoneFlag, sd, faults>>

(* IN from the odd address: SERIAL RX.  INT_ goes up even if a tick had    *)
(* pulled it down.                                                         *)
SerialRead ==
  /\ ioData' = IF serialRx > 0 THEN 1 ELSE ByteMod - 1
  /\ serialRx' = IF serialRx > 0 THEN serialRx - 1 ELSE 0
  /\ intLow' = FALSE
  /\ irqStatus' = irqStatus \ {"Rx"}
  /\ RxDoneFlag' = TRUE
  /\ UNCHANGED <<ioOpcode, ioByteCnt, diskVars, irqEnabled, sd, faults>>

(* The interrupt acknowledge cycle.                                        *)
IntAck ==
  /\ intLow' = FALSE
  /\ UNCHANGED <<ioVars, diskVars, irqStatus, irqEnabled, RxDoneFlag, serialRx,
                 sd, faults>>

(* serialEvent, after a call of loop().                                    *)
SerialEvent ==
  /\ serialRx > 0
  /\ "Rx" \in irqEnabled
  /\ RxDoneFlag
  /\ intLow' = TRUE
  /\ irqStatus' = irqStatus \cup {"Rx"}
  /\ RxDoneFlag' = FALSE
  /\ UNCHANGED <<ioVars, diskVars, irqEnabled, serialRx, sd, faults>>

(* A slip in Systick: the line is pulled only for the first of the causes. *)
SystickOnce ==
  /\ "Tick" \in irqEnabled
  /\ intLow' = (intLow \/ irqStatus = {})
  /\ irqStatus' = irqStatus \cup {"Tick"}
  /\ UNCHANGED <<ioVars, diskVars, irqEnabled, RxDoneFlag, serialRx, sd, faults>>

(* The end of loop() when sysTickTime has passed.                          *)
Systick ==
  /\ "Tick" \in irqEnabled
  /\ intLow' = TRUE
  /\ irqStatus' = irqStatus \cup {"Tick"}
  /\ UNCHANGED <<ioVars, diskVars, irqEnabled, RxDoneFlag, serialRx, sd, faults>>
=============================================================================
