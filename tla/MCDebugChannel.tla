--------------------------- MODULE MCDebugChannel ----------------------------
(***************************************************************************)
(* Small instances of DebugChannel.                                        *)
(***************************************************************************)
EXTENDS DebugChannel

MCSockets == {4, 5}
MCInvalid == -1
=============================================================================
