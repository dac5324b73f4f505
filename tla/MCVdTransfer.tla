---------------------------- MODULE MCVdTransfer ----------------------------
(***************************************************************************)
(* The instances of VdSystem the theorems of VdTransferProofs are about.   *)
(***************************************************************************)
EXTENDS MCVdSystem, VdTransfer

ASSUME TheoremsApply == CleanLinks /\ WholeDisks /\ NoGaps
=============================================================================
