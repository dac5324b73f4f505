------------------------- MODULE ServerThreadsProofs -------------------------
(***************************************************************************)
(* The connection accepted last is kept, for any number of connections and *)
(* any descriptors.                                                        *)
(***************************************************************************)
EXTENDS ServerThreads, TLAPS

(* oldTcpClient is the descriptor of the newest handler, and an order to   *)
(* close, however old, never names that descriptor.                        *)
OrderSparesNewest ==
  /\ Newest > 0 => tcpClientThreads[Newest].socket = oldTcpClient
  /\ oldTcpClient = INVALID_SOCKET => gCloseTcpSocket = INVALID_SOCKET
  /\ gCloseTcpSocket # INVALID_SOCKET => gCloseTcpSocket # oldTcpClient

ThreadsInv == ThreadsTypeOK /\ OrderSparesNewest /\ NewestKept

(* A thread that goes from one place to another leaves the number and the  *)
(* descriptors of the threads as they are.                                 *)
LEMMA MovesType ==
  ASSUME ThreadsTypeOK, NEW i \in Handlers,
         NEW from \in HandlerPlaces, NEW to \in HandlerPlaces, Moves(i, from, to)
  PROVE  /\ tcpClientThreads' \in Seq(Handler)
         /\ Newest' = Newest
         /\ \A j \in Handlers :
              /\ tcpClientThreads[j].socket \in Sockets
              /\ tcpClientThreads'[j].socket = tcpClientThreads[j].socket
              /\ tcpClientThreads'[j].pc =
                   IF j = i THEN to ELSE tcpClientThreads[j].pc
<1> DEFINE t == tcpClientThreads
<1>1. t \in Seq(Handler) /\ i \in 1 .. Len(t)
  BY DEF ThreadsTypeOK, Handlers
<1>2. \A j \in 1 .. Len(t) : t[j] \in Handler
  BY <1>1
<1>3. [t[i] EXCEPT !.pc = to] \in Handler
  BY <1>1, <1>2 DEF Handler
<1>4. t' = [t EXCEPT ![i] = [t[i] EXCEPT !.pc = to]]
  BY DEF Moves
<1>5. t' \in Seq(Handler) /\ Len(t') = Len(t)
  BY <1>1, <1>3, <1>4
<1>6. ASSUME NEW j \in 1 .. Len(t)
      PROVE  /\ t[j].socket \in Sockets
             /\ t'[j].socket = t[j].socket
             /\ t'[j].pc = IF j = i THEN to ELSE t[j].pc
  BY <1>1, <1>2, <1>4 DEF Handler
<1> QED
  BY <1>5, <1>6 DEF Newest, Handlers

(* A step of a handler that tells nobody to close, and leaves the order as *)
(* it is or takes it back, preserves the invariant.                        *)
LEMMA MovesKeep ==
  ASSUME ThreadsInv, NEW i \in Handlers,
         NEW from \in HandlerPlaces, NEW to \in HandlerPlaces, Moves(i, from, to),
         gCloseTcpSocket' \in {gCloseTcpSocket, INVALID_SOCKET},
         to = "told" => i # Newest,
         isOpen' \in SUBSET OpenFiles, diskPath' \in BOOLEAN
  PROVE  ThreadsInv'
<1>1. ThreadsTypeOK /\ OrderSparesNewest /\ NewestKept
  BY DEF ThreadsInv
<1>2. /\ tcpClientThreads' \in Seq(Handler)
      /\ Newest' = Newest
      /\ \A j \in Handlers :
           /\ tcpClientThreads'[j].socket = tcpClientThreads[j].socket
           /\ tcpClientThreads'[j].pc = IF j = i THEN to ELSE tcpClientThreads[j].pc
  BY <1>1, MovesType
<1>3. Handlers' = Handlers /\ (Newest > 0 => Newest \in Handlers)
  <2>1. tcpClientThreads \in Seq(Handler)
    BY <1>1 DEF ThreadsTypeOK
  <2>2. Newest \in Nat
    BY <2>1 DEF Newest
  <2> QED
    BY <1>2, <2>2 DEF Handlers, Newest
<1>4. UNCHANGED <<gSrvRunning, oldTcpClient, mainPc, joined>>
  BY DEF Moves
<1>5. ThreadsTypeOK'
  BY <1>1, <1>2, <1>4 DEF ThreadsTypeOK
<1>6. OrderSparesNewest'
  BY <1>1, <1>2, <1>3, <1>4 DEF OrderSparesNewest
<1>7. NewestKept'
  BY <1>1, <1>2, <1>3 DEF NewestKept
<1> QED
  BY <1>5, <1>6, <1>7 DEF ThreadsInv

(* Only the top of the loop tells a handler to close, and never the newest *)
(* one.                                                                    *)
LEMMA HandlerKeeps ==
  ASSUME ThreadsInv, NEW i \in Handlers, HandlerGoesOn(i) \/ ClientSpeaks(i)
  PROVE  ThreadsInv'
<1> USE DEF HandlerPlaces
<1>1. ThreadsTypeOK /\ OrderSparesNewest
  BY DEF ThreadsInv
<1>2. isOpen \in SUBSET OpenFiles /\ diskPath \in BOOLEAN
  BY <1>1 DEF ThreadsTypeOK
<1>3. CASE Check(i)
  <2> DEFINE to == IF ~gSrvRunning THEN "closing"
                   ELSE IF gCloseTcpSocket = tcpClientThreads[i].socket
                   THEN "told" ELSE "receive"
  <2>1. Moves(i, "check", to) /\ UNCHANGED <<gCloseTcpSocket, sharedVars>>
    BY <1>3 DEF Check
  <2>2. to \in HandlerPlaces
    OBVIOUS
  <2>3. tcpClientThreads[i].socket \in Sockets
    BY <1>1, <2>1, MovesType
  <2>4. ASSUME to = "told"
        PROVE  i # Newest
    <3>1. gCloseTcpSocket = tcpClientThreads[i].socket
      BY <2>4
    <3>2. gCloseTcpSocket # oldTcpClient
      BY <1>1, <2>3, <3>1, SocketsAssumption DEF OrderSparesNewest
    <3>3. Newest > 0
      <4>1. tcpClientThreads \in Seq(Handler)
        BY <1>1 DEF ThreadsTypeOK
      <4>2. Len(tcpClientThreads) \in Nat
        BY <4>1
      <4> QED
        BY <4>2 DEF Handlers, Newest
    <3> QED
      BY <1>1, <3>1, <3>2, <3>3 DEF OrderSparesNewest
  <2> HIDE DEF to
  <2> QED
    BY <1>2, <2>1, <2>2, <2>4, MovesKeep DEF sharedVars
<1>4. CASE TakeBack(i)
  BY <1>2, <1>4, MovesKeep DEF TakeBack, sharedVars
<1>5. CASE ReceiveNothing(i)
  BY <1>2, <1>5, MovesKeep DEF ReceiveNothing, sharedVars
<1>6. CASE Process(i)
  <2>1. Moves(i, "process", "check") /\ UNCHANGED gCloseTcpSocket
    BY <1>6 DEF Process
  <2>2. isOpen' \in SUBSET OpenFiles /\ diskPath' \in BOOLEAN
    BY <1>2, <1>6 DEF Process, Leaves, OpenFiles
  <2> QED
    BY <2>1, <2>2, MovesKeep
<1>7. CASE Disconnect(i)
  BY <1>2, <1>7, MovesKeep DEF Disconnect, sharedVars
<1>8. CASE ReceiveRequest(i)
  BY <1>2, <1>8, MovesKeep DEF ReceiveRequest, sharedVars
<1>9. CASE ReceiveEnd(i)
  BY <1>2, <1>9, MovesKeep DEF ReceiveEnd, sharedVars
<1> QED
  BY <1>3, <1>4, <1>5, <1>6, <1>7, <1>8, <1>9 DEF HandlerGoesOn, ClientSpeaks

(* The new handler is the newest one, and the order goes to the one before *)
(* it, unless that one had the same descriptor and has ended.              *)
LEMMA AcceptKeeps ==
  ASSUME ThreadsInv, Accept
  PROVE  ThreadsInv'
<1> DEFINE t == tcpClientThreads
<1>1. ThreadsTypeOK /\ OrderSparesNewest /\ NewestKept
  BY DEF ThreadsInv
<1>2. PICK s \in Sockets : /\ MarkOld(s)
                           /\ t' = Append(t, [pc |-> "check", socket |-> s])
  BY DEF Accept
<1>3. [pc |-> "check", socket |-> s] \in Handler
  BY DEF Handler, HandlerPlaces
<1>4. t \in Seq(Handler)
  BY <1>1 DEF ThreadsTypeOK
<1>5. /\ t' \in Seq(Handler)
      /\ Len(t') = Len(t) + 1
      /\ t'[Len(t) + 1] = [pc |-> "check", socket |-> s]
      /\ \A j \in 1 .. Len(t) : t'[j] = t[j]
  BY <1>2, <1>3, <1>4
<1>6. UNCHANGED <<gSrvRunning, mainPc, joined, isOpen, diskPath>>
  BY DEF Accept, sharedVars
<1>7. ThreadsTypeOK'
  BY <1>1, <1>2, <1>5, <1>6 DEF ThreadsTypeOK, MarkOld
<1>8. OrderSparesNewest'
  BY <1>1, <1>2, <1>5, SocketsAssumption DEF OrderSparesNewest, MarkOld, Newest
<1>9. NewestKept'
  <2> SUFFICES ASSUME NEW i \in Handlers', t'[i].pc = "told"
               PROVE  i # Newest'
    BY DEF NewestKept
  <2> QED
    BY <1>5 DEF Handlers, Newest
<1> QED
  BY <1>7, <1>8, <1>9 DEF ThreadsInv

(* The invariant is inductive.                                             *)
LEMMA ThreadsInvStep ==
  ASSUME ThreadsInv, [ThreadsNext]_threadsVars
  PROVE  ThreadsInv'
<1> USE DEF ThreadsInv
<1>1. CASE Accept
  BY <1>1, AcceptKeeps
<1>2. CASE Reload \/ Quit \/ Finishing \/ JoinDebug
  <2>1. UNCHANGED <<gCloseTcpSocket, oldTcpClient, tcpClientThreads>>
    BY <1>2 DEF Reload, Quit, Finishing, CloseStream, CloseDrive, Join, JoinDebug
  <2>2. /\ gSrvRunning' \in BOOLEAN
        /\ mainPc' \in {"loop", "close stream", "close drive", "join", "join debug", "end"}
        /\ joined' \in Nat
        /\ diskPath' \in BOOLEAN
    <3>1. CASE Reload
      BY <3>1 DEF Reload, ThreadsTypeOK
    <3>2. CASE Quit
      BY <3>2 DEF Quit, ThreadsTypeOK, sharedVars
    <3>3. CASE CloseStream
      BY <3>3 DEF CloseStream, ThreadsTypeOK
    <3>4. CASE CloseDrive
      BY <3>4 DEF CloseDrive, ThreadsTypeOK
    <3>5. CASE Join
      <4>1. /\ mainPc' \in {mainPc, "join debug"}
            /\ joined' \in {joined, joined + 1}
            /\ UNCHANGED <<gSrvRunning, diskPath>>
        BY <3>5 DEF Join, sharedVars
      <4>2. joined \in Nat
        BY DEF ThreadsTypeOK
      <4>3. joined + 1 \in Nat
        BY <4>2
      <4> QED
        BY <4>1, <4>2, <4>3, Zenon DEF ThreadsTypeOK
    <3>6. CASE JoinDebug
      BY <3>6 DEF JoinDebug, ThreadsTypeOK, sharedVars
    <3> QED
      BY <1>2, <3>1, <3>2, <3>3, <3>4, <3>5, <3>6 DEF Finishing
  <2>3. isOpen' \in SUBSET OpenFiles
    BY <1>2 DEF Reload, Quit, Finishing, CloseStream, CloseDrive, Join, JoinDebug,
                ThreadsTypeOK, sharedVars, Leaves, OpenFiles
  <2> QED
    BY <2>1, <2>2, <2>3
       DEF ThreadsTypeOK, OrderSparesNewest, NewestKept, Newest, Handlers
<1>3. CASE \E i \in Handlers : HandlerGoesOn(i) \/ ClientSpeaks(i)
  BY <1>3, HandlerKeeps
<1>4. CASE Ended \/ UNCHANGED threadsVars
  BY <1>4 DEF Ended, threadsVars, ThreadsTypeOK, OrderSparesNewest, NewestKept,
              Newest, Handlers
<1> QED
  BY <1>1, <1>2, <1>3, <1>4 DEF ThreadsNext, Main

(* The connection accepted last is never told to close, for any number of  *)
(* connections and however descriptors come again (main, handleTcpClient). *)
THEOREM NewestAlwaysKept == ThreadsSpec => []NewestKept
<1>1. ThreadsInit => ThreadsInv
  <2> SUFFICES ASSUME ThreadsInit
               PROVE  ThreadsInv
    OBVIOUS
  <2>1. ThreadsTypeOK
    <3>1. tcpClientThreads \in Seq(Handler)
      BY DEF ThreadsInit
    <3> QED
      BY <3>1 DEF ThreadsInit, ThreadsTypeOK
  <2>2. Len(tcpClientThreads) = 0
    BY DEF ThreadsInit
  <2>3. OrderSparesNewest /\ NewestKept
    BY <2>2 DEF ThreadsInit, OrderSparesNewest, NewestKept, Newest, Handlers
  <2> QED
    BY <2>1, <2>3 DEF ThreadsInv
<1>2. ThreadsInv => NewestKept
  BY DEF ThreadsInv
<1> QED
  BY <1>1, <1>2, ThreadsInvStep, PTL DEF ThreadsSpec
=============================================================================
