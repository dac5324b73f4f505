--------------------------- MODULE MCEmulatedDisk ---------------------------
(***************************************************************************)
(* A small instance of EmulatedDisk: entries of two blocks, sectors of two *)
(* records, the record count of an entry up to two; "1b" is a file of user *)
(* 1.                                                                      *)
(***************************************************************************)
EXTENDS EmulatedFiles, TLC

MCPlainName == ("a" :> "a") @@ ("1b" :> "b")

MCHosts == { <<>>, ("a" :> <<101>>), ("1b" :> <<101, 102, 103>>) }

EmulatedDiskSpec ==
  /\ \E host \in MCHosts : EmulatedDiskInit(host)
  /\ [][EmulatedDiskNext]_diskVars

(* The hypotheses of the theorems.                                         *)
ASSUME TheoremsApply == UsersApart /\ \A host \in MCHosts : HostOK(host)
=============================================================================
