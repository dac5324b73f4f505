------------------------- MODULE DebugChannelProofs -------------------------
(***************************************************************************)
(* A key works the buttons at most once, for any number of keys, presses,  *)
(* connections and threads.                                                *)
(***************************************************************************)
EXTENDS DebugChannel, TLAPS

CountsTypeOK ==
  /\ gDbgCmd \in Keys \cup {NoKey}
  /\ inbox \in [Keys -> Nat]
  /\ pressed \in [Keys -> Nat]
  /\ worked \in [Keys -> Nat]

Standing(k) == IF gDbgCmd = k THEN 1 ELSE 0

(* A press of a key stands in the command byte, is on its way, has worked  *)
(* the pins or is lost.  WorkedAtMostOnce alone is not inductive: it does  *)
(* not know that a key that stands was pressed once more than it arrived.  *)
PressesCover ==
  \A k \in Keys : worked[k] + inbox[k] + Standing(k) <= pressed[k]

CountsInv == CountsTypeOK /\ PressesCover

LEMMA CountsInitially == DbgInit => CountsInv
BY KeysAssumption DEF DbgInit, CountsInv, CountsTypeOK, PressesCover, Standing

(* A step that leaves the counters alone, and the command or takes it back.*)
LEMMA CountsStay ==
  ASSUME CountsInv, gDbgCmd' \in {gDbgCmd, NoKey},
         UNCHANGED <<inbox, pressed, worked>>
  PROVE  CountsInv'
BY KeysAssumption DEF CountsInv, CountsTypeOK, PressesCover, Standing

(* What was on the old connection is lost when another is accepted.        *)
LEMMA AcceptCounts == CountsInv /\ Accept => CountsInv'
<1> SUFFICES ASSUME CountsInv, Accept PROVE CountsInv'
  OBVIOUS
<1>1. /\ inbox' = [k \in Keys |-> 0]
      /\ UNCHANGED <<gDbgCmd, pressed, worked>>
  BY DEF Accept
<1> QED
  BY <1>1 DEF CountsInv, CountsTypeOK, PressesCover, Standing

LEMMA PressCounts == ASSUME NEW k \in Keys, CountsInv, Press(k) PROVE CountsInv'
<1>1. /\ gDbgCmd' = k
      /\ pressed' = [pressed EXCEPT ![k] = @ + 1]
      /\ UNCHANGED <<inbox, worked>>
  BY DEF Press, clientVars
<1>2. CountsTypeOK'
  BY <1>1 DEF CountsInv, CountsTypeOK
<1>3. ASSUME NEW j \in Keys
      PROVE  (worked[j] + inbox[j] + Standing(j) <= pressed[j])'
  <2>1. /\ worked[j] \in Nat /\ inbox[j] \in Nat /\ pressed[j] \in Nat
        /\ worked[j] + inbox[j] <= pressed[j]
    BY DEF CountsInv, CountsTypeOK, PressesCover, Standing
  <2>2. CASE j = k
    BY <1>1, <2>1, <2>2 DEF CountsInv, CountsTypeOK, Standing
  <2>3. CASE j # k
    BY <1>1, <2>1, <2>3 DEF CountsInv, CountsTypeOK, Standing
  <2> QED
    BY <2>2, <2>3
<1> QED
  BY <1>2, <1>3 DEF CountsInv, PressesCover

(* The key that stood is on its way, or lost on a connection that is no    *)
(* longer the ESP8266's.                                                   *)
LEMMA ServeKeyCounts ==
  ASSUME NEW i \in DbgHandlers, CountsInv, ServeKey(i) PROVE CountsInv'
<1>1. /\ gDbgCmd \in Keys /\ gDbgCmd' = NoKey
      /\ inbox' \in {inbox, [inbox EXCEPT ![gDbgCmd] = @ + 1]}
      /\ UNCHANGED <<pressed, worked>>
  BY DEF ServeKey, Moves
<1>2. CountsTypeOK'
  BY <1>1 DEF CountsInv, CountsTypeOK
<1>3. ASSUME NEW k \in Keys
      PROVE  (worked[k] + inbox[k] + Standing(k) <= pressed[k])'
  <2>1. /\ worked[k] \in Nat /\ inbox[k] \in Nat /\ pressed[k] \in Nat
        /\ worked[k] + inbox[k] + Standing(k) <= pressed[k]
    BY DEF CountsInv, CountsTypeOK, PressesCover
  <2>2. Standing(k)' = 0
    BY <1>1, KeysAssumption DEF Standing
  <2>3. inbox'[k] <= inbox[k] + Standing(k)
    BY <1>1, <2>1 DEF CountsInv, CountsTypeOK, Standing
  <2>4. Standing(k) \in Nat /\ inbox'[k] \in Nat
    BY <1>2 DEF CountsTypeOK, Standing
  <2> QED
    BY <1>1, <2>1, <2>2, <2>3, <2>4
<1> QED
  BY <1>2, <1>3 DEF CountsInv, PressesCover

LEMMA WorkPinsCounts == ASSUME NEW k \in Keys, CountsInv, WorkPins(k) PROVE CountsInv'
<1>1. /\ inbox[k] > 0
      /\ inbox' = [inbox EXCEPT ![k] = @ - 1]
      /\ worked' = [worked EXCEPT ![k] = @ + 1]
      /\ UNCHANGED <<gDbgCmd, pressed>>
  BY DEF WorkPins
<1>2. CountsTypeOK'
  BY <1>1 DEF CountsInv, CountsTypeOK
<1>3. ASSUME NEW j \in Keys
      PROVE  worked'[j] + inbox'[j] = worked[j] + inbox[j]
  BY <1>1 DEF CountsInv, CountsTypeOK
<1> QED
  BY <1>1, <1>2, <1>3 DEF CountsInv, PressesCover, Standing

(* The other steps of main() ...                                           *)
LEMMA MainCounts == CountsInv /\ (Quit \/ MainGoesOn) => CountsInv'
<1> SUFFICES ASSUME CountsInv, Quit \/ MainGoesOn PROVE CountsInv'
  OBVIOUS
<1>1. UNCHANGED <<gDbgCmd, inbox, pressed, worked>>
  BY DEF Quit, MainGoesOn, OldReady, OldNotify, KeyNotify, JoinReady, JoinNotify,
         JoinWait, clientVars
<1> QED
  BY <1>1, CountsStay

(* ... and of a handler.                                                   *)
LEMMA HandlerCounts ==
  ASSUME NEW i \in DbgHandlers, CountsInv, DbgGoesOn(i) \/ Spurious(i)
  PROVE  CountsInv'
<1>1. CASE ServeKey(i)
  BY <1>1, ServeKeyCounts
<1>2. CASE \/ Check(i) \/ Lock(i) \/ Test(i) \/ Block(i) \/ Spurious(i)
           \/ ServeClose(i) \/ ServeNothing(i) \/ Clear(i) \/ Disconnect(i)
  <2>1. UNCHANGED <<gDbgCmd, inbox, pressed, worked>>
    BY <1>2 DEF Check, Lock, Test, Block, Spurious, ServeClose, ServeNothing, Clear,
                Disconnect, Moves
  <2> QED
    BY <2>1, CountsStay
<1> QED
  BY <1>1, <1>2 DEF DbgGoesOn

LEMMA CountsKept == CountsInv /\ [DbgNext]_dbgVars => CountsInv'
<1> SUFFICES ASSUME CountsInv, [DbgNext]_dbgVars PROVE CountsInv'
  OBVIOUS
<1>1. CASE Main
  BY <1>1, AcceptCounts, PressCounts, MainCounts DEF Main
<1>2. CASE \E i \in DbgHandlers : DbgGoesOn(i) \/ Spurious(i)
  BY <1>2, HandlerCounts
<1>3. CASE \E k \in Keys : WorkPins(k)
  BY <1>3, WorkPinsCounts
<1>4. CASE Ended \/ UNCHANGED dbgVars
  BY <1>4, CountsStay DEF Ended, dbgVars
<1> QED
  BY <1>1, <1>2, <1>3, <1>4 DEF DbgNext

LEMMA CountsGiveOnce == CountsInv => WorkedAtMostOnce
<1> SUFFICES ASSUME CountsInv, NEW k \in Keys
             PROVE  worked[k] + inbox[k] <= pressed[k]
  BY DEF WorkedAtMostOnce
<1>1. /\ worked[k] \in Nat /\ inbox[k] \in Nat /\ pressed[k] \in Nat
      /\ worked[k] + inbox[k] + Standing(k) <= pressed[k]
  BY DEF CountsInv, CountsTypeOK, PressesCover
<1>2. Standing(k) \in {0, 1}
  BY DEF Standing
<1> QED
  BY <1>1, <1>2

(* A key works the buttons of the Z80-MBC2 at most once, whichever threads *)
(* race for the flag, the command and the connection (handleDbgClient).    *)
THEOREM KeysWorkAtMostOnce == DbgSpec => []WorkedAtMostOnce
<1>1. DbgSpec => []CountsInv
  BY CountsInitially, CountsKept, PTL DEF DbgSpec
<1> QED
  BY <1>1, CountsGiveOnce, PTL
=============================================================================
