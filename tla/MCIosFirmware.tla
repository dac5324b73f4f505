---------------------------- MODULE MCIosFirmware ---------------------------
(***************************************************************************)
(* Small instances of IosFirmware: disk 0 is a file of two sectors of two  *)
(* segments of two bytes, disk 1 has no file.                              *)
(***************************************************************************)
EXTENDS IosSector, TLC

MCDiskName == (0 :> "DS0N00.DSK") @@ (1 :> "DS0N01.DSK")
MCContent ==
  ("DS0N00.DSK" :> <<<<10, 11>>, <<12, 13>>, <<14, 15>>, <<16, 17>>>>)
    @@ ("CPM22.BIN" :> <<<<20, 21>>, <<22>>>>)
MCNewBytes == <<30, 31, 32, 33>>
MCJunk == -1

MCNoProgram == ("DS0N00.DSK" :> MCContent["DS0N00.DSK"]) @@ ("CPM22.BIN" :> <<>>)

(* The hypotheses of the theorems about the disk opcodes hold here.        *)
ASSUME TheoremsApply ==
  \A content \in {MCContent, MCNoProgram} : FilesOK(content) /\ FullDisks(content) /\ BootFileOK(content)

(* The boot loader, from the first connection on, and the interrupts.      *)
BootSpec == FirmwareInit(MCContent, FALSE) /\ [][FirmwareNext]_firmwareVars
FairBootSpec == BootSpec /\ FirmwareFairness

(* The disk opcodes, after an empty boot program.                          *)
OpcodesSpec == FirmwareInit(MCNoProgram, TRUE) /\ [][FirmwareNext]_firmwareVars
=============================================================================
