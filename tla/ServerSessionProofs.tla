------------------------- MODULE ServerSessionProofs -------------------------
(***************************************************************************)
(* The server alone keeps its types, its selection coherent, and changes   *)
(* the selected disk only - for any disks, any images and any requests.    *)
(***************************************************************************)
EXTENDS ServerSession, VdServerProofs

(* A request of the client is a packet.                                    *)
LEMMA RequestsType == Requests \subseteq TcpPacket
<1>1. BufLen \in Nat
  BY SegmentsAssumption DEF BufLen, SegmentLen
<1>2. ZeroBuffer \in Buffer
  BY ZeroBufferType
<1> SUFFICES ASSUME NEW p \in Requests
             PROVE  p \in TcpPacket
  OBVIOUS
<1>3. p \in [cmd : Commands, status : {"OK"}, filename : Disks \cup {NoName},
             fileOffset : Offsets \cup {0}, data : Contents \cup {ZeroBuffer},
             dataLen : {0, BufLen}]
  BY DEF Requests
<1>4. Offsets \cup {0} \subseteq Nat /\ Contents \cup {ZeroBuffer} \subseteq Buffer
  BY <1>2, SessionAssumption
<1> QED
  BY <1>1, <1>3, <1>4 DEF TcpPacket, Statuses

LEMMA SessionNextType ==
  ASSUME SessionTypeOK, [SessionNext]_sessionVars
  PROVE  SessionTypeOK'
<1> USE DEF SessionTypeOK
<1>1. CASE Ask
  <2>1. PICK p \in Requests : SendRequest(p)
    BY <1>1 DEF Ask
  <2>2. p \in TcpPacket
    BY RequestsType
  <2>3. TcpTypeOK'
    BY <2>1, <2>2 DEF SendRequest, TcpTypeOK
  <2> QED BY <1>1, <2>3 DEF Ask, ServerTypeOK, serverVars
<1>2. CASE Take
  BY <1>2 DEF Take, TcpTypeOK, ServerTypeOK, serverVars
<1>3. CASE ServerStep
  BY <1>3, ServerStepType DEF ServerTypes
<1>4. CASE UNCHANGED sessionVars
  BY <1>4 DEF sessionVars, tcpVars, serverVars, TcpTypeOK, ServerTypeOK
<1> QED
  BY <1>1, <1>2, <1>3, <1>4 DEF SessionNext

(* The queues hold packets, the selected name, the positions, the open     *)
(* file and drive and the images are what vdProcessCmd may make of them.   *)
THEOREM SessionTypeCorrect == SessionSpec => []SessionTypeOK
<1>1. SessionInit => SessionTypeOK
  BY SessionAssumption, ServerInitType
  DEF SessionInit, SessionTypeOK, ServerTypes
<1> QED
  BY <1>1, SessionNextType, PTL DEF SessionSpec
-----------------------------------------------------------------------------
(* A step of the server keeps the open file the selected one: only the     *)
(* three ways to select a name change filename, stream or drive.           *)
LEMMA SelectionKept ==
  ASSUME SelectionCoherent, [SessionNext]_sessionVars
  PROVE  SelectionCoherent'
<1> USE NamesAssumption, DrivesAssumption DEF SelectionCoherent, Stored, Disks
<1>1. CASE SelectEmulated
  BY <1>1 DEF SelectEmulated, streamVars
<1>2. CASE SelectPlain
  BY <1>2 DEF SelectPlain
<1>3. CASE SelectMissing
  BY <1>3 DEF SelectMissing
<1>4. CASE UNCHANGED <<filename, stream, drive>>
  BY <1>4
<1>5. ASSUME Ask \/ Take \/ UNCHANGED sessionVars
      PROVE  UNCHANGED <<filename, stream, drive>>
  BY <1>5 DEF Ask, Take, sessionVars, serverVars
<1>6. ASSUME ReadEmulated \/ ReadPlain \/ ReadMismatch
      PROVE  UNCHANGED <<filename, stream, drive>>
  BY <1>6 DEF ReadEmulated, ReadPlain, ReadMismatch, serverVars, streamVars
<1>7. ASSUME WriteEmulated \/ WritePlain \/ WriteRefused
      PROVE  UNCHANGED <<filename, stream, drive>>
  BY <1>7 DEF WriteEmulated, WritePlain, WriteRefused, serverVars, streamVars
<1>8. ASSUME SeekEmulated \/ SeekPlain \/ SeekRefused \/ IgnoreCommand
      PROVE  UNCHANGED <<filename, stream, drive>>
  BY <1>8 DEF SeekEmulated, SeekPlain, SeekRefused, IgnoreCommand, serverVars,
              streamVars
<1> QED
  BY <1>1, <1>2, <1>3, <1>4, <1>5, <1>6, <1>7, <1>8 DEF SessionNext, ServerStep

LEMMA SelectionInit ==
  ASSUME SessionInit
  PROVE  SelectionCoherent
BY NamesAssumption DEF SessionInit, ServerInit, SelectionCoherent, Stored, Disks

(* Whatever is selected in whatever order, the open stream and the open    *)
(* drive never belong to another name of the same kind than the selected   *)
(* one, and a name without a file leaves no stream open.                   *)
THEOREM SelectionAlwaysCoherent == SessionSpec => []SelectionCoherent
BY SelectionInit, SelectionKept, PTL DEF SessionSpec
-----------------------------------------------------------------------------
(* A step writes to the disk of the request, which is the selected one.    *)
LEMMA StepChangesSelected ==
  ASSUME SessionTypeOK, SelectionCoherent, [SessionNext]_sessionVars,
         NEW d \in Stored, image'[d] # image[d]
  PROVE  d = filename /\ d = Request.filename
<1> USE DEF SessionTypeOK
<1>1. CASE WriteEmulated
  <2>1. d = drive /\ drive # NoName
    BY <1>1 DEF WriteEmulated, DriveHasSector, ServerTypeOK
  <2>2. drive = filename
    BY <1>1, <2>1 DEF WriteEmulated, SelectionCoherent
  <2> QED BY <1>1, <2>1, <2>2 DEF WriteEmulated, NameMatches
<1>2. CASE WritePlain
  <2>1. d = stream /\ stream # NoName
    BY <1>2 DEF WritePlain, ServerTypeOK
  <2>2. stream = filename
    BY <1>2, <2>1 DEF WritePlain, SelectionCoherent, Stored
  <2> QED BY <1>2, <2>1, <2>2 DEF WritePlain, NameMatches
<1>3. ASSUME Ask \/ Take \/ UNCHANGED sessionVars
      PROVE  image' = image
  BY <1>3 DEF Ask, Take, sessionVars, serverVars
<1>4. ASSUME ServerStep, ~WriteEmulated, ~WritePlain
      PROVE  image' = image
  BY <1>4 DEF ServerStep, SelectEmulated, SelectPlain, SelectMissing,
              ReadEmulated, ReadPlain, ReadMismatch, WriteRefused, SeekEmulated,
              SeekPlain, SeekRefused, IgnoreCommand, serverVars
<1> QED
  BY <1>1, <1>2, <1>3, <1>4 DEF SessionNext

(* A write never reaches another disk than the one selected and named in   *)
(* the request, whatever stream or drive is still open.                    *)
THEOREM OnlySelectedDiskChanges == SessionSpec => OnlySelectedChanges
<1>1. SessionTypeOK /\ SelectionCoherent /\ [SessionNext]_sessionVars =>
        [\A d \in Stored :
           image'[d] # image[d] => d = filename /\ d = Request.filename]_sessionVars
  BY StepChangesSelected
<1> QED
  BY <1>1, SessionTypeCorrect, SelectionAlwaysCoherent, PTL
  DEF SessionSpec, OnlySelectedChanges
=============================================================================
