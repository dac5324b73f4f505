------------------------------ MODULE TcpLink -------------------------------
(***************************************************************************)
(* The TCP connection between the ESP8266 and the server: two reliable,    *)
(* ordered queues of whole packets.  Neither end numbers its packets.      *)
(***************************************************************************)
EXTENDS VdProtocol

CONSTANT Window   \* how many packets a receiver's buffer takes

ASSUME WindowAssumption == Window \in Nat \ {0}

VARIABLES
  c2s,   \* requests on the way to the server
  s2c    \* replies on the way to the ESP8266

tcpVars == <<c2s, s2c>>

TcpTypeOK ==
  /\ c2s \in Seq(TcpPacket)
  /\ s2c \in Seq(TcpPacket)

TcpInit ==
  /\ c2s = <<>>
  /\ s2c = <<>>

(* tcpClient.write and tcpClient.flush; what does not fit is not sent, and *)
(* the client does not ask whether it was.                                 *)
SendRequest(p) ==
  /\ c2s' = IF Len(c2s) < Window THEN Append(c2s, p) ELSE c2s
  /\ UNCHANGED s2c

(* The server answers the request at the head of the queue, as soon as     *)
(* there is room for the answer ...                                        *)
Answer(p) ==
  /\ Len(s2c) < Window
  /\ c2s' = Tail(c2s)
  /\ s2c' = Append(s2c, p)

(* ... or drops it without an answer.                                      *)
NoAnswer ==
  /\ c2s' = Tail(c2s)
  /\ UNCHANGED s2c
=============================================================================
