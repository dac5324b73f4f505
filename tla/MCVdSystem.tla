----------------------------- MODULE MCVdSystem -----------------------------
(***************************************************************************)
(* Small instances of VdSystem.  A chunk is a pair that tells whose bytes  *)
(* these are and where they belong, so that any mix-up shows.              *)
(***************************************************************************)
EXTENDS VdSystem, TLC

MCZero == <<"zero", 0>>
MCBad == <<"bad", 0>>

MCSectors == {0, 1}

(* Sector s of disk d, and what the Z80 writes.                            *)
Filled(d, s) == [i \in 1 .. BufLen |-> <<d, BufLen * s + i>>]
Written == [i \in 1 .. BufLen |-> <<"new", i>>]

MCChunk ==
  {MCZero, MCBad}
    \cup { <<"new", i>> : i \in 1 .. BufLen }
    \cup { <<d, i>> : d \in Stored, i \in 1 .. 2 * BufLen }

MCContents == {Written}

(* Every disk has both sectors.                                            *)
FullImages == {[d \in Stored |-> Filled(d, 0) \o Filled(d, 1)]}

(* The plain files end after their first sector.                           *)
ShortImages ==
  {[d \in Stored |-> IF d \in Files THEN Filled(d, 0)
                     ELSE Filled(d, 0) \o Filled(d, 1)]}
=============================================================================
