-------------------------- MODULE MCServerSession ---------------------------
(***************************************************************************)
(* A small server: two plain files, two emulated disks of which one cannot *)
(* be opened, and a name without a file.                                   *)
(***************************************************************************)
EXTENDS ServerSession

MCZero == <<"zero", 0>>
MCBad == <<"bad", 0>>

Filled(d, s) == [i \in 1 .. BufLen |-> <<d, BufLen * s + i>>]
Written == [i \in 1 .. BufLen |-> <<"new", i>>]

MCChunk ==
  {MCZero, MCBad}
    \cup { <<"new", i>> : i \in 1 .. BufLen }
    \cup { <<d, i>> : d \in Stored, i \in 1 .. 2 * BufLen }

MCContents == {Written}

(* A plain file of one and a half sectors, another of one; drives of two.  *)
MCImages ==
  {[d \in Stored |->
     IF d \in Emulated THEN Filled(d, 0) \o Filled(d, 1)
     ELSE IF d = "A" THEN SubSeq(Filled(d, 0) \o Filled(d, 1), 1, BufLen + 1)
     ELSE Filled(d, 0)]}

MCOffsets == {0, BufLen}
=============================================================================
