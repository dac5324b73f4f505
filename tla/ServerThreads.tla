---------------------------- MODULE ServerThreads ----------------------------
(***************************************************************************)
(* The threads of the server: main(), which accepts connections, reads the *)
(* keyboard and shuts down, and one handleTcpClient per connection.  They  *)
(* share gSrvRunning, gCloseTcpSocket and the open files, without a lock.  *)
(*                                                                         *)
(* A handler runs through these places:                                    *)
(*                                                                         *)
(*   check     the top of its loop                                         *)
(*   told      it has found its own descriptor in gCloseTcpSocket          *)
(*   receive   Receive, which times out after 100 ms                       *)
(*   process   inside vdProcessCmd                                         *)
(*   closing   the loop is left, Disconnect comes next                     *)
(*   done      the thread has ended and its descriptor is free             *)
(***************************************************************************)
EXTENDS Integers, Sequences

CONSTANTS
  Sockets,          \* the descriptors connections get
  INVALID_SOCKET,
  MaxConnections    \* bound: connections accepted in a behaviour

ASSUME SocketsAssumption == INVALID_SOCKET \notin Sockets
ASSUME MaxConnectionsAssumption == MaxConnections \in Nat

VARIABLES
  gSrvRunning,
  gCloseTcpSocket,    \* the connection that shall be closed
  oldTcpClient,       \* the connection accepted last
  tcpClientThreads,   \* the handlers, in the order they were started
  mainPc,             \* where main() is
  joined,             \* the handlers it has joined
  isOpen,             \* which of vdData.fileStream and drive are open
  diskPath            \* has an emulated disk been selected?

threadsVars == <<gSrvRunning, gCloseTcpSocket, oldTcpClient, tcpClientThreads,
                 mainPc, joined, isOpen, diskPath>>
sharedVars == <<isOpen, diskPath>>

OpenFiles == {"stream", "drive"}

HandlerPlaces == {"check", "told", "receive", "process", "closing", "done"}

Handler == [pc : HandlerPlaces, socket : Sockets]

Handlers == 1 .. Len(tcpClientThreads)
Newest == Len(tcpClientThreads)

ThreadsTypeOK ==
  /\ gSrvRunning \in BOOLEAN
  /\ gCloseTcpSocket \in Sockets \cup {INVALID_SOCKET}
  /\ oldTcpClient \in Sockets \cup {INVALID_SOCKET}
  /\ tcpClientThreads \in Seq(Handler)
  /\ mainPc \in {"loop", "close stream", "close drive", "join", "join debug", "end"}
  /\ joined \in Nat
  /\ isOpen \in SUBSET OpenFiles
  /\ diskPath \in BOOLEAN

ThreadsInit ==
  /\ gSrvRunning = TRUE
  /\ gCloseTcpSocket = INVALID_SOCKET
  /\ oldTcpClient = INVALID_SOCKET
  /\ tcpClientThreads = <<>>
  /\ mainPc = "loop"
  /\ joined = 0
  /\ isOpen = {}
  /\ diskPath = FALSE
-----------------------------------------------------------------------------
InUse == { tcpClientThreads[i].socket :
             i \in { j \in Handlers : tcpClientThreads[j].pc # "done" } }

(* A slip in MarkOld: oldTcpClient is updated before it is used.           *)
MarkNew(s) ==
  /\ oldTcpClient' = s
  /\ gCloseTcpSocket' = IF oldTcpClient \in {INVALID_SOCKET, s} THEN gCloseTcpSocket
                        ELSE s

(* The connection before this one shall be closed.                         *)
MarkOld(s) ==
  /\ oldTcpClient' = s
  /\ gCloseTcpSocket' = IF oldTcpClient \in {INVALID_SOCKET, s} THEN gCloseTcpSocket
                        ELSE oldTcpClient

(* Listen returns a connection, on any descriptor that is free, also one a *)
(* closed connection had; a handler is started for it.  One step, since    *)
(* nobody else sees oldTcpClient or a thread that has not started.         *)
Accept ==
  /\ mainPc = "loop"
  /\ Len(tcpClientThreads) < MaxConnections
  /\ \E s \in Sockets \ InUse :
       /\ MarkOld(s)
       /\ tcpClientThreads' =
            Append(tcpClientThreads, [pc |-> "check", socket |-> s])
  /\ UNCHANGED <<gSrvRunning, mainPc, joined, sharedVars>>

(* Is somebody else in the shared files?  Then anything may come out.      *)
Racing(i) == \E j \in Handlers \ {i} : tcpClientThreads[j].pc = "process"

(* The files are open as stated afterwards, unless the access was a race.  *)
Leaves(i, open) == isOpen' \in (IF Racing(i) THEN SUBSET OpenFiles ELSE {open})

(* Key 'L', vdReloadDiskImage: the drive is closed and opened again, which *)
(* needs a path and may fail.                                              *)
Reload ==
  /\ mainPc = "loop"
  /\ \/ diskPath /\ Leaves(0, isOpen \cup {"drive"})
     \/ Leaves(0, isOpen \ {"drive"})
  /\ UNCHANGED <<gSrvRunning, gCloseTcpSocket, oldTcpClient, tcpClientThreads,
                 mainPc, joined, diskPath>>

(* Key 'Q': the loop ends.                                                 *)
Quit ==
  /\ mainPc = "loop"
  /\ gSrvRunning' = FALSE
  /\ mainPc' = "close stream"
  /\ UNCHANGED <<gCloseTcpSocket, oldTcpClient, tcpClientThreads, joined,
                 sharedVars>>

CloseStream ==
  /\ mainPc = "close stream"
  /\ Leaves(0, isOpen \ {"stream"})
  /\ mainPc' = "close drive"
  /\ UNCHANGED <<gSrvRunning, gCloseTcpSocket, oldTcpClient, tcpClientThreads,
                 joined, diskPath>>

CloseDrive ==
  /\ mainPc = "close drive"
  /\ Leaves(0, isOpen \ {"drive"})
  /\ mainPc' = "join"
  /\ UNCHANGED <<gSrvRunning, gCloseTcpSocket, oldTcpClient, tcpClientThreads,
                 joined, diskPath>>

(* The handlers are joined in the order they were started.                 *)
Join ==
  /\ mainPc = "join"
  /\ IF joined = Len(tcpClientThreads)
     THEN mainPc' = "join debug" /\ UNCHANGED joined
     ELSE /\ tcpClientThreads[joined + 1].pc = "done"
          /\ joined' = joined + 1
          /\ UNCHANGED mainPc
  /\ UNCHANGED <<gSrvRunning, gCloseTcpSocket, oldTcpClient, tcpClientThreads,
                 sharedVars>>

(* Then the debug threads are woken and joined, see DebugChannel: if one   *)
(* misses its notification this never comes to an end.                     *)
JoinDebug ==
  /\ mainPc = "join debug"
  /\ mainPc' = "end"
  /\ UNCHANGED <<gSrvRunning, gCloseTcpSocket, oldTcpClient, tcpClientThreads,
                 joined, sharedVars>>

Finishing == CloseStream \/ CloseDrive \/ Join
Main == Accept \/ Reload \/ Quit \/ Finishing \/ JoinDebug
-----------------------------------------------------------------------------
(* Handler i goes from one place to another.                               *)
Moves(i, from, to) ==
  /\ tcpClientThreads[i].pc = from
  /\ tcpClientThreads' = [tcpClientThreads EXCEPT ![i].pc = to]
  /\ UNCHANGED <<gSrvRunning, oldTcpClient, mainPc, joined>>

(* A slip in Check: an order is taken back by whoever sees it.             *)
CheckAnyOrder(i) ==
  /\ Moves(i, "check", IF ~gSrvRunning THEN "closing"
                       ELSE IF gCloseTcpSocket = tcpClientThreads[i].socket
                       THEN "told" ELSE "receive")
  /\ gCloseTcpSocket' = IF ~gSrvRunning THEN gCloseTcpSocket ELSE INVALID_SOCKET
  /\ UNCHANGED sharedVars

(* The top of the loop: shut down, told to close, or go on.                *)
Check(i) ==
  /\ Moves(i, "check", IF ~gSrvRunning THEN "closing"
                       ELSE IF gCloseTcpSocket = tcpClientThreads[i].socket
                       THEN "told" ELSE "receive")
  /\ UNCHANGED <<gCloseTcpSocket, sharedVars>>

(* The order is taken back, also when it is another one by now.            *)
TakeBack(i) ==
  /\ Moves(i, "told", "closing")
  /\ gCloseTcpSocket' = INVALID_SOCKET
  /\ UNCHANGED sharedVars

(* What Receive returns is up to the client: a request, the end of the     *)
(* connection, or nothing, perhaps for ever.                               *)
ReceiveRequest(i) ==
  /\ Moves(i, "receive", "process")
  /\ UNCHANGED <<gCloseTcpSocket, sharedVars>>

(* A slip in ReceiveNothing: there is no time-out.                         *)
ReceiveBlocks(i) == FALSE

(* 100 ms have passed, or there was an error.                              *)
ReceiveNothing(i) ==
  /\ Moves(i, "receive", "check")
  /\ UNCHANGED <<gCloseTcpSocket, sharedVars>>

ReceiveEnd(i) ==
  /\ Moves(i, "receive", "closing")
  /\ UNCHANGED <<gCloseTcpSocket, sharedVars>>

(* vdProcessCmd selects an emulated disk, or a plain file that may be      *)
(* missing, or uses what is open; the answer is sent.                      *)
Process(i) ==
  /\ Moves(i, "process", "check")
  /\ \/ /\ Leaves(i, isOpen \cup {"drive"}) \/ Leaves(i, isOpen \ {"drive"})
        /\ diskPath' = TRUE
     \/ /\ Leaves(i, isOpen \cup {"stream"}) \/ Leaves(i, isOpen \ {"stream"})
        /\ UNCHANGED diskPath
     \/ Leaves(i, isOpen) /\ UNCHANGED diskPath
  /\ UNCHANGED gCloseTcpSocket

Disconnect(i) ==
  /\ Moves(i, "closing", "done")
  /\ UNCHANGED <<gCloseTcpSocket, sharedVars>>

ClientSpeaks(i) == ReceiveRequest(i) \/ ReceiveEnd(i)

HandlerGoesOn(i) ==
  Check(i) \/ TakeBack(i) \/ ReceiveNothing(i) \/ Process(i) \/ Disconnect(i)

(* The process has ended.                                                  *)
Ended == mainPc = "end" /\ UNCHANGED threadsVars

ThreadsNext ==
  \/ Main
  \/ \E i \in Handlers : HandlerGoesOn(i) \/ ClientSpeaks(i)
  \/ Ended

ThreadsSpec == ThreadsInit /\ [][ThreadsNext]_threadsVars

(* The system schedules every thread; nobody is made to connect, to say    *)
(* anything or to press a key, and the debug threads may never be joined.  *)
ThreadsFairness ==
  /\ WF_threadsVars(Finishing)
  /\ \A i \in 1 .. MaxConnections :
       WF_threadsVars(i \in Handlers /\ HandlerGoesOn(i))

FairThreadsSpec == ThreadsSpec /\ ThreadsFairness
-----------------------------------------------------------------------------
(* The connection accepted last is never told to close, although orders    *)
(* are given by descriptor, descriptors come again, and orders stay behind *)
(* when their addressee has ended by itself (main, handleTcpClient).       *)
NewestKept ==
  \A i \in Handlers : tcpClientThreads[i].pc = "told" => i # Newest

(* After key 'Q' main() gets past the joins of its handlers, and each of   *)
(* them has ended, whatever connections are up, silent or waiting to be    *)
(* closed (main: "Wait for all client threads are terminated.").  That the *)
(* server ends is not claimed: the debug threads are joined afterwards.    *)
HandlersJoined ==
  ~gSrvRunning ~> (/\ mainPc \in {"join debug", "end"}
                   /\ \A i \in Handlers : tcpClientThreads[i].pc = "done")

(* The last order to close is obeyed if no handler is still taking an      *)
(* earlier one back and no other connection comes: the client may keep     *)
(* asking, and the other handlers run (handleTcpClient).                   *)
OrderEnds ==
  \A i \in 1 .. MaxConnections, n \in 1 .. MaxConnections :
    (/\ i \in Handlers /\ n = Newest
     /\ tcpClientThreads[i].pc # "done"
     /\ tcpClientThreads[i].socket = gCloseTcpSocket
     /\ \A j \in Handlers \ {i} : tcpClientThreads[j].pc # "told")
    ~> (Newest > n \/ (i \in Handlers /\ tcpClientThreads[i].pc = "done"))
=============================================================================
