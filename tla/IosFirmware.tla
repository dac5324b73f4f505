---------------------------- MODULE IosFirmware -----------------------------
(***************************************************************************)
(* The IOS firmware at work: setup() loads a program, loop() serves it.    *)
(* The program is any that keeps to the rules the comments of the engine   *)
(* give: interrupts are off during a call of an opcode, ERRDISK follows    *)
(* SELDISK, and SELTRACK or SELSECT precedes the transfers, SYSIRQ is read *)
(* in the interrupt routine only.  It may cut a sector short, or ask for   *)
(* more bytes than there are.  The connections to the WiFi network and the *)
(* server come and go, and the AVR may be reset at any time.               *)
(***************************************************************************)
EXTENDS IosBoot

CONSTANTS
  Opcodes,        \* the opcodes the program calls
  DiskNums, Tracks, Sects,  \* the numbers it uses
  NewBytes,       \* the bytes it writes into a sector
  MaxWrites,      \* bound: the sectors it begins to write
  Losses,         \* what can be lost: "wifi", "server", "restart"
  MaxDrops        \* bound: how often something is lost

ASSUME ProgramAssumption ==
  /\ Opcodes \subseteq (WriteOpcodes \cup ReadOpcodes) \ {"SYSIRQ"}
  /\ DiskNums \subseteq Nat
  /\ Tracks \subseteq 0 .. ByteMod * ByteMod - 1
  /\ Sects \subseteq 0 .. ByteMod - 1
  /\ NewBytes \in [1 .. SectBytes -> Int]
  /\ Losses \subseteq {"wifi", "server", "restart"}
  /\ MaxWrites \in Nat /\ MaxDrops \in Nat

VARIABLES
  z80,      \* main; call: in a call of an opcode; ack, irq, serve: in the
            \* interrupt routine before, in and after its call of SYSIRQ
  call,     \* the opcode of the call, or of the last one
  chosen,   \* the disk number of the last SELDISK until ERRDISK, or -1
  disk,     \* the disk number ERRDISK has confirmed, or -1
  track, sect,  \* the numbers the program has set
  placed,   \* one of them since the last SELDISK
  moved,    \* the bytes of a sector read or written by the call
  toServe,  \* the causes the interrupt routine has still to serve
  calm,     \* nothing has failed since the transfer or the load began
  writes, drops

progVars == <<z80, call, chosen, disk, track, sect, placed, moved, toServe>>
budgets == <<writes, drops>>
firmwareVars == <<opcodeVars, bootVars, sd, linkVars, faults, progVars, calm,
                  budgets>>

Running == bootPc = "run"

FirmwareTypeOK ==
  /\ OpcodesTypeOK
  /\ BootTypeOK
  /\ FaultsTypeOK
  /\ z80 \in {"main", "call", "ack", "irq", "serve"}
  /\ chosen \in DiskNums \cup {-1}
  /\ disk \in DiskNums \cup {-1}
  /\ toServe \subseteq Causes
  /\ Len(moved) <= SectBytes

ProgramInit ==
  /\ z80 = "main"
  /\ call = "NOP"
  /\ chosen = -1
  /\ disk = -1
  /\ track = 0
  /\ sect = 0
  /\ placed = FALSE
  /\ moved = <<>>
  /\ toServe = {}
  /\ calm = FALSE

ProgramReset ==
  /\ z80' = "main"
  /\ call' = "NOP"
  /\ chosen' = -1
  /\ disk' = -1
  /\ track' = 0
  /\ sect' = 0
  /\ placed' = FALSE
  /\ moved' = <<>>
  /\ toServe' = {}
  /\ calm' = FALSE

FirmwareInit(content, up) ==
  /\ sd = [file |-> NoFile, open |-> FALSE, at |-> 0, unsent |-> <<>>, content |-> content]
  /\ wifi = up /\ server = up /\ srvFlag = up
  /\ FaultsInit
  /\ OpcodesInit
  /\ BootInit
  /\ ProgramInit
  /\ writes = 0 /\ drops = 0
-----------------------------------------------------------------------------
Boot ==
  /\ BootStep \/ Escape
  /\ calm' = (bootPc' \in {"load", "run"} /\ (calm \/ bootPc \in {"open", "open3"}))
  /\ UNCHANGED <<progVars, budgets>>

(* The reset button, or the 'R' key of the server.                         *)
Reset ==
  /\ Fault
  /\ OpcodesReset
  /\ BootReset
  /\ ProgramReset
  /\ UNCHANGED <<sd, linkVars, budgets>>

Quiet == UNCHANGED <<opcodeVars, bootVars, faults, progVars, writes>>

(* A connection is lost, or the server ends, which when it is started      *)
(* again has no file selected.                                             *)
Lose ==
  /\ drops < MaxDrops
  /\ drops' = drops + 1
  /\ \E loss \in Losses :
       \/ /\ loss = "wifi" /\ wifi
          /\ wifi' = FALSE /\ server' = FALSE /\ UNCHANGED sd
       \/ /\ loss = "server" /\ server
          /\ server' = FALSE /\ UNCHANGED <<wifi, sd>>
       \/ /\ loss = "restart" /\ server
          /\ server' = FALSE /\ sd' = [sd EXCEPT !.open = FALSE] /\ UNCHANGED wifi
  /\ calm' = FALSE
  /\ Quiet /\ UNCHANGED srvFlag

Regain ==
  /\ \/ ~wifi /\ wifi' = TRUE /\ UNCHANGED server
     \/ wifi /\ ~server /\ server' = TRUE /\ UNCHANGED wifi
  /\ Quiet /\ UNCHANGED <<sd, srvFlag, calm, drops>>

(* A slip in Notice: the flag is taken back, and never set.                *)
NoticeLoss ==
  /\ wifi
  /\ srvFlag /\ ~server
  /\ srvFlag' = server
  /\ Quiet /\ UNCHANGED <<sd, wifi, server, calm, drops>>

(* loop() of the ESP8266 looks at its connection to the server only while  *)
(* the WiFi network is there.                                              *)
Notice ==
  /\ wifi
  /\ srvFlag # server
  /\ srvFlag' = server
  /\ Quiet /\ UNCHANGED <<sd, wifi, server, calm, drops>>
-----------------------------------------------------------------------------
Program == UNCHANGED <<bootVars, linkVars, drops>>

Transfers == {"READSECT", "WRITESECT"}

(* Interrupts are disabled and an opcode stored.                           *)
Begin(op) ==
  /\ Running /\ z80 = "main"
  /\ chosen # -1 => op = "ERRDISK"
  /\ op \in Transfers => disk # -1 /\ placed
  /\ op = "WRITESECT" => writes < MaxWrites
  /\ Store(op)
  /\ z80' = "call" /\ call' = op
  /\ disk' = IF op = "SELDISK" THEN -1 ELSE disk
  /\ IF op = "SELTRACK" THEN track' \in Tracks ELSE track' = track
  /\ IF op = "SELSECT" THEN sect' \in Sects ELSE sect' = sect
  /\ placed' = (op \in {"SELTRACK", "SELSECT"} \/ (placed /\ op # "SELDISK"))
  /\ moved' = <<>>
  /\ calm' = Linked
  /\ writes' = IF op = "WRITESECT" THEN writes + 1 ELSE writes
  /\ UNCHANGED <<chosen, toServe>> /\ Program

(* The bytes the program may send now.                                     *)
Bytes ==
  CASE call = "SELDISK"   -> DiskNums
    [] call = "SELTRACK"  -> { IF ioByteCnt = 0 THEN track % ByteMod
                               ELSE track \div ByteMod }
    [] call = "SELSECT"   -> {sect}
    [] call = "SETIRQ"    -> { Bits(c) : c \in SUBSET Causes }
    [] call = "WRITESECT" -> { NewBytes[(Len(moved) % SectBytes) + 1] }

InForce == z80 = "call" /\ ioOpcode = call

(* One byte to or from the engine; a transfer may be overrun.              *)
Out ==
  /\ Running
  /\ call \in WriteOpcodes
  /\ InForce \/ (z80 = "call" /\ call \in Transfers)
  /\ \E byte \in Bytes : ExecuteWrite(byte)
  /\ moved' = IF call = "WRITESECT" /\ Len(moved) < SectBytes
              THEN Append(moved, ioData') ELSE moved
  /\ chosen' = IF call = "SELDISK" THEN ioData' ELSE chosen
  /\ UNCHANGED <<z80, call, disk, track, sect, placed, toServe, calm, writes>> /\ Program

In ==
  /\ Running
  /\ call \in ReadOpcodes
  /\ InForce \/ (z80 = "call" /\ call \in Transfers)
  /\ ExecuteRead
  /\ moved' = IF call = "READSECT" /\ Len(moved) < SectBytes
              THEN Append(moved, ioData') ELSE moved
  /\ disk' = IF call = "ERRDISK" /\ chosen # -1 /\ ioData' = 0 THEN chosen ELSE disk
  /\ chosen' = IF call = "ERRDISK" THEN -1 ELSE chosen
  /\ UNCHANGED <<z80, call, track, sect, placed, toServe, calm, writes>> /\ Program

(* The call is over, or cut short if it moves a sector; interrupts are     *)
(* enabled.                                                                *)
End ==
  /\ Running /\ z80 = "call"
  /\ InForce => call \in Transfers
  /\ z80' = "main"
  /\ UNCHANGED <<opcodeVars, sd, faults, call, chosen, disk, track, sect,
                 placed, moved, toServe, calm, writes>> /\ Program

(* The program looks for a character by itself.                            *)
PollSerial ==
  /\ Running /\ z80 = "main"
  /\ SerialRead
  /\ UNCHANGED <<progVars, calm, writes>> /\ Program

TakeInterrupt ==
  /\ Running /\ z80 = "main" /\ intLow
  /\ IntAck
  /\ z80' = "ack"
  /\ UNCHANGED <<call, chosen, disk, track, sect, placed, moved, toServe, calm, writes>>
  /\ Program

InterruptRoutine ==
  /\ Running
  /\ \/ /\ z80 = "ack"
        /\ Store("SYSIRQ")
        /\ z80' = "irq"
        /\ UNCHANGED toServe
     \/ /\ z80 = "irq"
        /\ ExecuteRead
        /\ toServe' = CausesOf(ioData')
        /\ z80' = "serve"
     \/ /\ z80 = "serve"
        /\ "Rx" \in toServe
        /\ SerialRead
        /\ toServe' = toServe \ {"Rx"}
        /\ UNCHANGED z80
     \/ /\ z80 = "serve"
        /\ "Rx" \notin toServe
        /\ toServe' = {}
        /\ z80' = "main"
        /\ UNCHANGED <<opcodeVars, sd, faults>>
  /\ UNCHANGED <<call, chosen, disk, track, sect, placed, moved, calm, writes>> /\ Program

(* A character arrives; a full buffer drops it.                            *)
Arrive ==
  /\ Running
  /\ serialRx < SerialSize
  /\ serialRx' = serialRx + 1
  /\ UNCHANGED <<ioVars, diskVars, irqStatus, irqEnabled, intLow, RxDoneFlag, sd,
                 faults, progVars, calm, writes>> /\ Program

Interrupts ==
  /\ Running
  /\ SerialEvent \/ Systick
  /\ UNCHANGED <<progVars, calm, writes>> /\ Program

FirmwareNext ==
  \/ Boot \/ Reset
  \/ Lose \/ Regain \/ Notice
  \/ \E op \in Opcodes : Begin(op)
  \/ Out \/ In \/ End
  \/ PollSerial \/ TakeInterrupt \/ InterruptRoutine
  \/ Arrive \/ Interrupts

FirmwareSpec(content, up) ==
  FirmwareInit(content, up) /\ [][FirmwareNext]_firmwareVars

(* Both processors keep running.  The Z80 looks at INT_ after each         *)
(* instruction, so a line that is low again and again is seen; the user    *)
(* presses the key waitKey asks for.  Nobody is made to start a call, to   *)
(* poll, to type or to connect.                                            *)
FirmwareFairness ==
  /\ WF_firmwareVars(Boot /\ BootStep)
  /\ WF_firmwareVars(Notice)
  /\ WF_firmwareVars(Out \/ In)
  /\ WF_firmwareVars(End)
  /\ SF_firmwareVars(TakeInterrupt)
  /\ WF_firmwareVars(InterruptRoutine)
  /\ WF_firmwareVars(Interrupts /\ SerialEvent)
  /\ WF_firmwareVars(Interrupts /\ Systick)
-----------------------------------------------------------------------------
(* The bytes of the first segments of a file, and of the whole file.       *)
Joined(segs) ==
  LET cat[i \in 0 .. Len(segs)] == IF i = 0 THEN <<>> ELSE cat[i - 1] \o segs[i]
  IN cat
Flat(segs) == Joined(segs)[Len(segs)]

(* Byte i of the sector the program has set.                               *)
SectorStart == (track * MaxSects + sect) * Segments
SectorByte(content, i) ==
  content[DiskName[disk]]
    [SectorStart + ((i - 1) \div SegBytes) + 1][((i - 1) % SegBytes) + 1]

(* The sector begins with these bytes.                                     *)
SectorHas(content, bytes) ==
  \A i \in DOMAIN bytes : bytes[i] = SectorByte(content, i)

(* As long as ERRDISK tells no error, the bytes READSECT has delivered are *)
(* those of the sector the program has set on the disk it has selected,    *)
(* whatever it cut short before, and whatever failed (loop, opcodes 0x09   *)
(* to 0x0B and 0x86).                                                      *)
SectorRead ==
  call = "READSECT" /\ diskErr = 0 /\ moved # <<>> =>
    SectorHas(sd.content, moved)

(* When all bytes of WRITESECT are exchanged and ERRDISK tells no error    *)
(* the sector holds them, provided that the connection was up (opcode      *)
(* 0x0C, writeSD).                                                         *)
SectorWritten ==
  /\ call = "WRITESECT" /\ diskErr = 0 /\ calm
  /\ Len(moved) = SectBytes
  => SectorHas(sd.content, moved)

(* Nothing changes but the sector the program has set, by all the bytes of *)
(* WRITESECT at once: none of a call that was cut short or failed before   *)
(* stays in a buffer and gets onto a disk later.                           *)
OnlyThisSector ==
  [][sd'.content # sd.content =>
       /\ call = "WRITESECT" /\ Len(moved') = SectBytes
       /\ SectorHas(sd'.content, moved')
       /\ \A f \in DOMAIN sd.content :
            \A i \in DOMAIN sd.content[f] :
              \/ sd'.content[f][i] = sd.content[f][i]
              \/ f = DiskName[disk] /\ i - SectorStart \in 1 .. Segments
    ]_firmwareVars

(* The Z80 is started with the whole boot program in its memory, at its    *)
(* address, whatever failed before it was opened at last - provided that   *)
(* nothing failed while it was read (setup).                               *)
LoadedExact ==
  [][bootPc = "load" /\ bootPc' = "run" /\ calm =>
       ram' = Flat(sd.content[BootFile])]_firmwareVars

(* The same also if a read failed and was repeated (setup: "If an error    *)
(* occurs repeat until error disappears").                                 *)
LoadedAfterRetry ==
  [][bootPc = "load" /\ bootPc' = "run" /\ drops = 0 =>
       ram' = Flat(sd.content[BootFile])]_firmwareVars

(* A character that was received is read, in the interrupt routine if not  *)
(* before: the receive interrupt is never lost (serialEvent, RxDoneFlag,   *)
(* INT_ shared with the tick).                                             *)
RxServed ==
  \A n \in 1 .. SerialSize :
    Running /\ serialRx = n ~> ~Running \/ serialRx # n \/ "Rx" \notin irqEnabled

(* A tick is served, also when the serial input has taken INT_ back.       *)
TickServed ==
  Running /\ "Tick" \in irqStatus ~>
    ~Running \/ "Tick" \notin irqStatus \/ "Tick" \notin irqEnabled

(* If the connections come up and stay, the Z80 is started at last.        *)
BootRuns == <>[]Linked => <>[]Running
=============================================================================
