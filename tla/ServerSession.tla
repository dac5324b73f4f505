--------------------------- MODULE ServerSession ----------------------------
(***************************************************************************)
(* The server alone, with a client that may send any request in any order: *)
(* what a session after a restart of either side, or another client, makes *)
(* it do.  The client waits for the answer before it sends the next        *)
(* request, or gives the last one up when there is none.                   *)
(***************************************************************************)
EXTENDS VdServer

CONSTANTS
  Images,     \* what the disks may hold in the beginning
  Contents,   \* what the client writes
  Offsets,    \* where it seeks to
  MaxPos      \* bound: it stops reading and writing behind this position

ASSUME SessionAssumption ==
  /\ Images \subseteq [Stored -> Seq(Chunk)]
  /\ Contents \subseteq Buffer
  /\ Offsets \subseteq Nat
  /\ MaxPos \in Nat

sessionVars == <<tcpVars, serverVars>>

SessionTypeOK == TcpTypeOK /\ ServerTypeOK

SessionInit == TcpInit /\ ServerInit(Images)

(* Only the fields a command uses differ.                                  *)
Requests ==
  { p \in [cmd : Commands, status : {"OK"}, filename : Disks \cup {NoName},
           fileOffset : Offsets \cup {0}, data : Contents \cup {ZeroBuffer},
           dataLen : {0, BufLen}] :
      /\ p.cmd # "SEEK_FILE" => p.fileOffset = 0
      /\ p.data # ZeroBuffer <=> p.cmd = "WR_FILE"
      /\ p.dataLen = BufLen <=> p.cmd = "WR_FILE" }

Ask ==
  /\ c2s = <<>>
  /\ s2c = <<>>
  /\ \E p \in Requests :
       /\ p.cmd \in {"RD_FILE", "WR_FILE"} =>
            filePos <= MaxPos /\ streamPos <= MaxPos
       /\ SendRequest(p)
  /\ UNCHANGED serverVars

Take ==
  /\ s2c # <<>>
  /\ s2c' = Tail(s2c)
  /\ UNCHANGED <<c2s, serverVars>>

SessionNext == Ask \/ Take \/ ServerStep

SessionSpec == SessionInit /\ [][SessionNext]_sessionVars
-----------------------------------------------------------------------------
(* The file that is open is the file that is selected, and none is open    *)
(* when the selected name has none; of two kinds of files the one that is  *)
(* not selected may stay open (vdProcessCmd, VD_CMD_SEL_FILE).             *)
SelectionCoherent ==
  /\ filename \in Files => stream = filename
  /\ filename \in Emulated => drive \in {filename, NoName}
  /\ filename \notin Stored => stream = NoName

(* A request changes the disk that is selected and no other, although the  *)
(* drive of an emulated disk stays open while a plain file is selected,    *)
(* and the stream while an emulated disk is.                               *)
OnlySelectedChanges ==
  [][\A d \in Stored :
       image'[d] # image[d] => d = filename /\ d = Request.filename]_sessionVars
=============================================================================
