--------------------------- MODULE MCServerThreads ---------------------------
(***************************************************************************)
(* Small instances of ServerThreads.                                       *)
(***************************************************************************)
EXTENDS ServerThreads

(* Descriptors are numbers.                                                *)
MCSockets == {4, 5, 6}
MCInvalid == -1
=============================================================================
