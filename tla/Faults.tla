------------------------------- MODULE Faults -------------------------------
(***************************************************************************)
(* The budget of faults of a behaviour: damaged packets, late replies,     *)
(* stalls and resets.                                                      *)
(***************************************************************************)
EXTENDS Integers

CONSTANT MaxFaults   \* how many faults a behaviour has at most

ASSUME MaxFaultsAssumption == MaxFaults \in Nat

VARIABLE faults      \* how many there have been

FaultsTypeOK == faults \in 0 .. MaxFaults
FaultsInit == faults = 0

Fault == faults < MaxFaults /\ faults' = faults + 1
=============================================================================
