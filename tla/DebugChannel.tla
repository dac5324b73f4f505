---------------------------- MODULE DebugChannel -----------------------------
(***************************************************************************)
(* The way of the keys 'R' and 'U' of the server to the buttons of the     *)
(* Z80-MBC2: main() passes the key to a debug thread by a command byte, a  *)
(* flag and a condition variable, the thread sends it to the ESP8266, and  *)
(* loop() there works the pins.  One flag and one condition variable serve *)
(* for keys, for closing an old connection and for the shutdown, and two   *)
(* of the three set the flag without the mutex.                            *)
(*                                                                         *)
(* A handler (handleDbgClient) runs through these places:                  *)
(*                                                                         *)
(*   check    the top of its loop                                          *)
(*   lock     waits for the mutex, at first or after it was woken          *)
(*   test     gCv.wait looks at the flag                                   *)
(*   block    it has seen it false and goes to sleep                       *)
(*   asleep   in the wait set, the mutex is free                           *)
(*   serve    it has seen the flag true                                    *)
(*   clear    the command is served, the flag is still up                  *)
(*   closing  the loop is left;   done  the thread has ended               *)
(***************************************************************************)
EXTENDS Integers, Sequences

CONSTANTS
  Keys,             \* the keys passed on, 'R' and 'U'
  NoKey,            \* ' '
  Sockets,          \* the descriptors connections get
  INVALID_SOCKET,
  MaxConnections,   \* bound: connections accepted in a behaviour
  MaxKeys           \* bound: how often each key is pressed

ASSUME KeysAssumption == NoKey \notin Keys
ASSUME DbgSocketsAssumption == INVALID_SOCKET \notin Sockets
ASSUME DbgBoundsAssumption == MaxConnections \in Nat /\ MaxKeys \in Nat

VARIABLES
  gSrvRunning,
  gCloseDbgSocket,    \* the connection that shall be closed
  gDbgCmd,            \* the key to pass on
  gDbgDataReady,      \* the flag the condition variable stands for
  gMutex,             \* the handler that holds it, or 0
  oldDbgClient,       \* the connection accepted last
  dbgClient,          \* the connection being accepted
  dbgClientThreads,   \* the handlers, in the order they were started
  mainPc,             \* where main() is
  joined,             \* the handlers it has joined
  inbox,              \* commands on the way to the ESP8266, by key
  pressed,            \* how often each key was pressed
  worked              \* how often its pins were worked for it

dbgVars == <<gSrvRunning, gCloseDbgSocket, gDbgCmd, gDbgDataReady, gMutex,
             oldDbgClient, dbgClient, dbgClientThreads, mainPc, joined,
             inbox, pressed, worked>>
mainVars == <<oldDbgClient, dbgClient, mainPc, joined>>
clientVars == <<inbox, worked>>

DbgPlaces == {"check", "lock", "test", "block", "asleep", "serve", "clear",
              "closing", "done"}

DbgHandler == [pc : DbgPlaces, socket : Sockets]

DbgHandlers == 1 .. Len(dbgClientThreads)
NewestDbg == Len(dbgClientThreads)

MainPlaces == {"loop", "old ready", "old notify", "key notify", "join",
               "join notify", "join wait", "end"}

DbgTypeOK ==
  /\ gSrvRunning \in BOOLEAN
  /\ gCloseDbgSocket \in Sockets \cup {INVALID_SOCKET}
  /\ gDbgCmd \in Keys \cup {NoKey}
  /\ gDbgDataReady \in BOOLEAN
  /\ gMutex \in Nat
  /\ oldDbgClient \in Sockets \cup {INVALID_SOCKET}
  /\ dbgClient \in Sockets \cup {INVALID_SOCKET}
  /\ dbgClientThreads \in Seq(DbgHandler)
  /\ mainPc \in MainPlaces
  /\ joined \in Nat
  /\ inbox \in [Keys -> Nat]
  /\ pressed \in [Keys -> Nat]
  /\ worked \in [Keys -> Nat]

DbgInit ==
  /\ gSrvRunning = TRUE
  /\ gCloseDbgSocket = INVALID_SOCKET
  /\ gDbgCmd = NoKey
  /\ gDbgDataReady = FALSE
  /\ gMutex = 0
  /\ oldDbgClient = INVALID_SOCKET
  /\ dbgClient = INVALID_SOCKET
  /\ dbgClientThreads = <<>>
  /\ mainPc = "loop"
  /\ joined = 0
  /\ inbox = [k \in Keys |-> 0]
  /\ pressed = [k \in Keys |-> 0]
  /\ worked = [k \in Keys |-> 0]
-----------------------------------------------------------------------------
InUse == { dbgClientThreads[i].socket :
             i \in { j \in DbgHandlers : dbgClientThreads[j].pc # "done" } }

Asleep == { i \in DbgHandlers : dbgClientThreads[i].pc = "asleep" }

(* The threads after notify_one: any one of those asleep is woken, and     *)
(* nothing is kept for one that is not asleep yet.                         *)
Notified ==
  IF Asleep = {} THEN {dbgClientThreads}
  ELSE { [dbgClientThreads EXCEPT ![i].pc = "lock"] : i \in Asleep }

Started(threads, s) == Append(threads, [pc |-> "check", socket |-> s])

(* The ESP8266 connects; what was still on its old connection is lost.     *)
Accept ==
  /\ mainPc = "loop"
  /\ NewestDbg < MaxConnections
  /\ \E s \in Sockets \ InUse :
       /\ dbgClient' = s
       /\ IF oldDbgClient \in {INVALID_SOCKET, s}
          THEN /\ oldDbgClient' = s
               /\ dbgClientThreads' = Started(dbgClientThreads, s)
               /\ UNCHANGED <<gCloseDbgSocket, mainPc>>
          ELSE /\ gCloseDbgSocket' = oldDbgClient
               /\ mainPc' = "old ready"
               /\ UNCHANGED <<oldDbgClient, dbgClientThreads>>
  /\ inbox' = [k \in Keys |-> 0]
  /\ UNCHANGED <<gSrvRunning, gDbgCmd, gDbgDataReady, gMutex, joined, pressed,
                 worked>>

(* The flag is set for the old connection, without the mutex.              *)
OldReady ==
  /\ mainPc = "old ready"
  /\ gDbgDataReady' = TRUE
  /\ mainPc' = "old notify"
  /\ UNCHANGED <<gSrvRunning, gCloseDbgSocket, gDbgCmd, gMutex, oldDbgClient,
                 dbgClient, dbgClientThreads, joined, pressed, clientVars>>

(* notify_one, the new thread, and back to the loop.                       *)
OldNotify ==
  /\ mainPc = "old notify"
  /\ \E threads \in Notified : dbgClientThreads' = Started(threads, dbgClient)
  /\ oldDbgClient' = dbgClient
  /\ mainPc' = "loop"
  /\ UNCHANGED <<gSrvRunning, gCloseDbgSocket, gDbgCmd, gDbgDataReady, gMutex,
                 dbgClient, joined, pressed, clientVars>>

(* A slip in Press: the mutex is not taken.                                *)
PressUnlocked(k) ==
  /\ mainPc = "loop"
  /\ pressed[k] < MaxKeys
  /\ gDbgCmd' = k
  /\ gDbgDataReady' = TRUE
  /\ pressed' = [pressed EXCEPT ![k] = @ + 1]
  /\ mainPc' = "key notify"
  /\ UNCHANGED <<gSrvRunning, gCloseDbgSocket, gMutex, oldDbgClient, dbgClient,
                 dbgClientThreads, joined, clientVars>>

(* Key 'R' or 'U': the command before, if nobody has sent it yet, is lost. *)
Press(k) ==
  /\ mainPc = "loop"
  /\ gMutex = 0
  /\ pressed[k] < MaxKeys
  /\ gDbgCmd' = k
  /\ gDbgDataReady' = TRUE
  /\ pressed' = [pressed EXCEPT ![k] = @ + 1]
  /\ mainPc' = "key notify"
  /\ UNCHANGED <<gSrvRunning, gCloseDbgSocket, gMutex, oldDbgClient, dbgClient,
                 dbgClientThreads, joined, clientVars>>

KeyNotify ==
  /\ mainPc = "key notify"
  /\ dbgClientThreads' \in Notified
  /\ mainPc' = "loop"
  /\ UNCHANGED <<gSrvRunning, gCloseDbgSocket, gDbgCmd, gDbgDataReady, gMutex,
                 oldDbgClient, dbgClient, joined, pressed, clientVars>>

Quit ==
  /\ mainPc = "loop"
  /\ gSrvRunning' = FALSE
  /\ mainPc' = "join"
  /\ UNCHANGED <<gCloseDbgSocket, gDbgCmd, gDbgDataReady, gMutex, oldDbgClient,
                 dbgClient, dbgClientThreads, joined, pressed, clientVars>>

(* For each thread in turn: the flag, without the mutex, ...               *)
JoinReady ==
  /\ mainPc = "join"
  /\ IF joined = NewestDbg
     THEN mainPc' = "end" /\ UNCHANGED gDbgDataReady
     ELSE mainPc' = "join notify" /\ gDbgDataReady' = TRUE
  /\ UNCHANGED <<gSrvRunning, gCloseDbgSocket, gDbgCmd, gMutex, oldDbgClient,
                 dbgClient, dbgClientThreads, joined, pressed, clientVars>>

(* ... notify_one, whichever it wakes, ...                                 *)
JoinNotify ==
  /\ mainPc = "join notify"
  /\ dbgClientThreads' \in Notified
  /\ mainPc' = "join wait"
  /\ UNCHANGED <<gSrvRunning, gCloseDbgSocket, gDbgCmd, gDbgDataReady, gMutex,
                 oldDbgClient, dbgClient, joined, pressed, clientVars>>

(* ... and join.                                                           *)
JoinWait ==
  /\ mainPc = "join wait"
  /\ dbgClientThreads[joined + 1].pc = "done"
  /\ joined' = joined + 1
  /\ mainPc' = "join"
  /\ UNCHANGED <<gSrvRunning, gCloseDbgSocket, gDbgCmd, gDbgDataReady, gMutex,
                 oldDbgClient, dbgClient, dbgClientThreads, pressed, clientVars>>

(* What main() does by itself.                                             *)
MainGoesOn == OldReady \/ OldNotify \/ KeyNotify \/ JoinReady \/ JoinNotify \/ JoinWait

Main == Accept \/ (\E k \in Keys : Press(k)) \/ Quit \/ MainGoesOn
-----------------------------------------------------------------------------
(* Handler i goes from one place to another.                               *)
Moves(i, from, to) ==
  /\ dbgClientThreads[i].pc = from
  /\ dbgClientThreads' = [dbgClientThreads EXCEPT ![i].pc = to]
  /\ UNCHANGED <<gSrvRunning, mainVars, pressed, worked>>

Check(i) ==
  /\ Moves(i, "check", IF gSrvRunning THEN "lock" ELSE "closing")
  /\ UNCHANGED <<gCloseDbgSocket, gDbgCmd, gDbgDataReady, gMutex, inbox>>

Lock(i) ==
  /\ gMutex = 0
  /\ Moves(i, "lock", "test")
  /\ gMutex' = i
  /\ UNCHANGED <<gCloseDbgSocket, gDbgCmd, gDbgDataReady, inbox>>

Test(i) ==
  /\ Moves(i, "test", IF gDbgDataReady THEN "serve" ELSE "block")
  /\ UNCHANGED <<gCloseDbgSocket, gDbgCmd, gDbgDataReady, gMutex, inbox>>

(* The thread enters the wait set and gives the mutex back, in one step.   *)
Block(i) ==
  /\ Moves(i, "block", "asleep")
  /\ gMutex' = 0
  /\ UNCHANGED <<gCloseDbgSocket, gDbgCmd, gDbgDataReady, inbox>>

(* A condition variable may wake a thread for no reason.                   *)
Spurious(i) ==
  /\ Moves(i, "asleep", "lock")
  /\ UNCHANGED <<gCloseDbgSocket, gDbgCmd, gDbgDataReady, gMutex, inbox>>

MustClose(i) == gCloseDbgSocket = dbgClientThreads[i].socket

(* The order to close is obeyed; the flag and the command stay.            *)
ServeClose(i) ==
  /\ MustClose(i)
  /\ Moves(i, "serve", "closing")
  /\ gCloseDbgSocket' = INVALID_SOCKET
  /\ gMutex' = 0
  /\ UNCHANGED <<gDbgCmd, gDbgDataReady, inbox>>

(* A slip in ServeKey: the command is not taken back.                      *)
ServeKeyAgain(i) ==
  /\ ~MustClose(i)
  /\ Moves(i, "serve", "clear")
  /\ gDbgCmd \in Keys
  /\ inbox' = IF i = NewestDbg /\ mainPc \notin {"old ready", "old notify"}
              THEN [inbox EXCEPT ![gDbgCmd] = @ + 1] ELSE inbox
  /\ UNCHANGED <<gCloseDbgSocket, gDbgCmd, gDbgDataReady, gMutex>>

(* The command is sent; it arrives if this is the connection of the        *)
(* ESP8266 and not one it has given up.                                    *)
ServeKey(i) ==
  /\ ~MustClose(i)
  /\ Moves(i, "serve", "clear")
  /\ gDbgCmd \in Keys
  /\ inbox' = IF i = NewestDbg /\ mainPc \notin {"old ready", "old notify"}
              THEN [inbox EXCEPT ![gDbgCmd] = @ + 1] ELSE inbox
  /\ gDbgCmd' = NoKey
  /\ UNCHANGED <<gCloseDbgSocket, gDbgDataReady, gMutex>>

ServeNothing(i) ==
  /\ ~MustClose(i)
  /\ gDbgCmd = NoKey
  /\ Moves(i, "serve", "clear")
  /\ UNCHANGED <<gCloseDbgSocket, gDbgCmd, gDbgDataReady, gMutex, inbox>>

Clear(i) ==
  /\ Moves(i, "clear", "check")
  /\ gDbgDataReady' = FALSE
  /\ gMutex' = 0
  /\ UNCHANGED <<gCloseDbgSocket, gDbgCmd, inbox>>

Disconnect(i) ==
  /\ Moves(i, "closing", "done")
  /\ UNCHANGED <<gCloseDbgSocket, gDbgCmd, gDbgDataReady, gMutex, inbox>>

DbgGoesOn(i) ==
  \/ Check(i) \/ Lock(i) \/ Test(i) \/ Block(i)
  \/ ServeClose(i) \/ ServeKey(i) \/ ServeNothing(i) \/ Clear(i)
  \/ Disconnect(i)

(* loop() of the ESP8266 reads a command and works the pins.               *)
WorkPins(k) ==
  /\ inbox[k] > 0
  /\ inbox' = [inbox EXCEPT ![k] = @ - 1]
  /\ worked' = [worked EXCEPT ![k] = @ + 1]
  /\ UNCHANGED <<gSrvRunning, gCloseDbgSocket, gDbgCmd, gDbgDataReady, gMutex,
                 mainVars, dbgClientThreads, pressed>>

(* The process has ended.                                                  *)
Ended == mainPc = "end" /\ UNCHANGED dbgVars

DbgNext ==
  \/ Main
  \/ \E i \in DbgHandlers : DbgGoesOn(i) \/ Spurious(i)
  \/ \E k \in Keys : WorkPins(k)
  \/ Ended

DbgSpec == DbgInit /\ [][DbgNext]_dbgVars

(* Every thread is scheduled, and the mutex is given to a thread that asks *)
(* for it again and again.  Nobody is made to connect, to press a key or   *)
(* to wake up by accident.                                                 *)
DbgFairness ==
  /\ WF_dbgVars(MainGoesOn)
  /\ \A i \in 1 .. MaxConnections :
       /\ WF_dbgVars(i \in DbgHandlers /\ DbgGoesOn(i))
       /\ SF_dbgVars(i \in DbgHandlers /\ Lock(i))

FairDbgSpec == DbgSpec /\ DbgFairness
-----------------------------------------------------------------------------
(* A key works the buttons of the Z80-MBC2 at most once and is never taken *)
(* for the other, whichever threads race for the flag, the command and the *)
(* connection (main, handleDbgClient, loop of the ESP8266).                *)
WorkedAtMostOnce == \A k \in Keys : worked[k] + inbox[k] <= pressed[k]

(* A key pressed while no connection waits to be closed is sent, unless    *)
(* another connection comes, or the end (main, handleDbgClient): the flag  *)
(* is never down, and no thread stays asleep, while it stands.             *)
KeySent ==
  \A n \in 1 .. MaxConnections :
    (/\ mainPc = "key notify" /\ NewestDbg = n
     /\ gCloseDbgSocket = INVALID_SOCKET)
    ~> (gDbgCmd = NoKey \/ NewestDbg > n \/ ~gSrvRunning)
=============================================================================
