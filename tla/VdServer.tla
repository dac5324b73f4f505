------------------------------ MODULE VdServer ------------------------------
(***************************************************************************)
(* The command processor of the WiFi-VirtDisk server (vdProcessCmd): it    *)
(* takes the request at the head of the connection, changes the selected   *)
(* file, its position or a disk image, and sends the request back with     *)
(* some fields changed - or sends nothing.                                 *)
(*                                                                         *)
(* A name is either a plain file, kept open in one stream, or an emulated  *)
(* disk, a host directory the libdsk driver rcpmfs shows as a CP/M disk.   *)
(* libdsk is third-party code: dsk_lread and dsk_lwrite transfer one whole *)
(* sector of the image of the drive, or fail when there is none.           *)
(***************************************************************************)
EXTENDS TcpLink

CONSTANT Drives   \* the emulated disks whose Device_open succeeds

ASSUME DrivesAssumption == Drives \subseteq Emulated

VARIABLES
  filename,     \* vdData.filename: the selected name
  filePos,      \* vdData.filePos: the position an emulated disk is used at
  stream,       \* the file vdData.fileStream has open, or NoName
  streamPos,    \* its read and write position
  streamFail,   \* its failbit
  drive,        \* the emulated disk drive.dev has open, or NoName
  sector,       \* the global sector buffer of the emulated disks
  image         \* the contents of the disk files and directories

serverVars == <<filename, filePos, stream, streamPos, streamFail, drive,
                sector, image>>
streamVars == <<stream, streamPos, streamFail>>

ServerTypeOK ==
  /\ filename \in Disks \cup {NoName}
  /\ filePos \in Nat
  /\ stream \in Files \cup {NoName}
  /\ streamPos \in Nat
  /\ streamFail \in BOOLEAN
  /\ drive \in Drives \cup {NoName}
  /\ sector \in Buffer
  /\ image \in [Stored -> Seq(Chunk)]

ServerInit(images) ==
  /\ filename = NoName
  /\ filePos = 0
  /\ stream = NoName
  /\ streamPos = 0
  /\ streamFail = FALSE
  /\ drive = NoName
  /\ sector = ZeroBuffer
  /\ image \in images
-----------------------------------------------------------------------------
Request == Head(c2s)

Requested(cmd) == c2s # <<>> /\ Request.cmd = cmd

(* A slip in NameMatches: the name is not compared.                        *)
AnyName == c2s # <<>>

(* The request is for the file that is selected.                           *)
NameMatches == Request.filename = filename

(* VD_CMD_SEL_FILE of an emulated disk: an open drive is closed and the    *)
(* disk opened; the answer is OK whether or not that worked.  Neither the  *)
(* position nor an open stream is touched.                                 *)
SelectEmulated ==
  /\ Requested("SEL_FILE")
  /\ Request.filename \in Emulated
  /\ filename' = Request.filename
  /\ drive' = IF Request.filename \in Drives THEN Request.filename ELSE NoName
  /\ Answer([Request EXCEPT !.status = "OK"])
  /\ UNCHANGED <<filePos, streamVars, sector, image>>

(* VD_CMD_SEL_FILE of a plain file: an open stream is closed first.        *)
SelectPlain ==
  /\ Requested("SEL_FILE")
  /\ Request.filename \in Files
  /\ filename' = Request.filename
  /\ stream' = Request.filename
  /\ streamPos' = 0
  /\ streamFail' = FALSE
  /\ filePos' = 0
  /\ Answer([Request EXCEPT !.status = "OK"])
  /\ UNCHANGED <<drive, sector, image>>

(* A slip in SelectMissing: the stream is closed only to open another.     *)
SelectMissingKeepsStream ==
  /\ Requested("SEL_FILE")
  /\ Request.filename \notin Stored
  /\ filename' = Request.filename
  /\ Answer([Request EXCEPT !.status = "DISK_NOT_FOUND"])
  /\ UNCHANGED <<filePos, streamVars, drive, sector, image>>

(* VD_CMD_SEL_FILE of a name that cannot be opened; the name is selected   *)
(* all the same.                                                           *)
SelectMissing ==
  /\ Requested("SEL_FILE")
  /\ Request.filename \notin Stored
  /\ filename' = Request.filename
  /\ stream' = NoName
  /\ streamFail' = TRUE
  /\ Answer([Request EXCEPT !.status = "DISK_NOT_FOUND"])
  /\ UNCHANGED <<filePos, streamPos, drive, sector, image>>
-----------------------------------------------------------------------------
(* A slip in SectorStart: the position is divided by 1024.                 *)
SectorStartHalved == BufLen * (filePos \div (2 * BufLen))

(* The sector the position lies in, and whether the drive has it.          *)
SectorStart == BufLen * (filePos \div BufLen)
DriveHasSector == drive # NoName /\ SectorStart + BufLen <= Len(image[drive])

(* VD_CMD_RD_FILE of an emulated disk: when dsk_lread fails the sector     *)
(* buffer still holds what the last transfer left there, and is sent.      *)
ReadEmulated ==
  /\ Requested("RD_FILE")
  /\ NameMatches
  /\ filename \in Emulated
  /\ sector' = IF DriveHasSector THEN ReadAt(image[drive], SectorStart)
               ELSE sector
  /\ filePos' = filePos + BufLen
  /\ Answer([Request EXCEPT !.status = "OK", !.data = sector',
                            !.dataLen = BufLen])
  /\ UNCHANGED <<filename, streamVars, drive, image>>

(* VD_CMD_RD_FILE of a plain file: whatever the stream delivers, which is  *)
(* nothing when it is closed or has failed.  A short read sets failbit.    *)
ReadPlain ==
  /\ Requested("RD_FILE")
  /\ NameMatches
  /\ filename \notin Emulated
  /\ LET good == stream # NoName /\ ~streamFail
         n    == IF good THEN CountAt(image[stream], streamPos) ELSE 0
     IN /\ streamPos' = streamPos + n
        /\ streamFail' = (n < BufLen)
        /\ filePos' = IF n = BufLen THEN streamPos' ELSE filePos
        /\ Answer([Request EXCEPT
                     !.status  = "OK",
                     !.data    = IF n > 0 THEN ReadAt(image[stream], streamPos)
                                 ELSE ZeroBuffer,
                     !.dataLen = n])
  /\ UNCHANGED <<filename, stream, drive, sector, image>>

(* VD_CMD_RD_FILE with another name than the selected one.                 *)
ReadMismatch ==
  /\ Requested("RD_FILE")
  /\ ~NameMatches
  /\ Answer([Request EXCEPT !.status = "FILE_RD_ERROR"])
  /\ UNCHANGED serverVars
-----------------------------------------------------------------------------
(* VD_CMD_WR_FILE of an emulated disk: an error of dsk_lwrite is logged;   *)
(* the answer is the same.                                                 *)
WriteEmulated ==
  /\ Requested("WR_FILE")
  /\ NameMatches
  /\ filename \in Emulated
  /\ sector' = Request.data
  /\ image' = IF DriveHasSector
              THEN [image EXCEPT ![drive] =
                      WriteAt(image[drive], SectorStart, Request.data)]
              ELSE image
  /\ filePos' = filePos + BufLen
  /\ Answer(Request)
  /\ UNCHANGED <<filename, streamVars, drive>>

(* VD_CMD_WR_FILE of a plain file; a failed stream swallows the data.      *)
WritePlain ==
  /\ Requested("WR_FILE")
  /\ NameMatches
  /\ filename \notin Emulated
  /\ stream # NoName
  /\ image' = IF streamFail THEN image
              ELSE [image EXCEPT ![stream] =
                      WriteAt(image[stream], streamPos, Request.data)]
  /\ streamPos' = IF streamFail THEN streamPos ELSE streamPos + BufLen
  /\ Answer(Request)
  /\ UNCHANGED <<filename, filePos, stream, streamFail, drive, sector>>

(* VD_CMD_WR_FILE that goes nowhere: no answer.                            *)
WriteRefused ==
  /\ Requested("WR_FILE")
  /\ ~NameMatches \/ (filename \notin Emulated /\ stream = NoName)
  /\ NoAnswer
  /\ UNCHANGED serverVars
-----------------------------------------------------------------------------
(* VD_CMD_SEEK_FILE of an emulated disk just notes the position.           *)
SeekEmulated ==
  /\ Requested("SEEK_FILE")
  /\ NameMatches
  /\ filename \in Emulated
  /\ filePos' = Request.fileOffset
  /\ Answer([Request EXCEPT !.status = "OK"])
  /\ UNCHANGED <<filename, streamVars, drive, sector, image>>

(* VD_CMD_SEEK_FILE of a plain file clears failbit and moves the stream.   *)
SeekPlain ==
  /\ Requested("SEEK_FILE")
  /\ NameMatches
  /\ filename \notin Emulated
  /\ stream # NoName
  /\ streamFail' = FALSE
  /\ streamPos' = Request.fileOffset
  /\ filePos' = Request.fileOffset
  /\ Answer([Request EXCEPT !.status = "OK"])
  /\ UNCHANGED <<filename, stream, drive, sector, image>>

(* VD_CMD_SEEK_FILE of another name, or with no open file: no answer.      *)
SeekRefused ==
  /\ Requested("SEEK_FILE")
  /\ ~NameMatches \/ (filename \notin Emulated /\ stream = NoName)
  /\ NoAnswer
  /\ UNCHANGED serverVars

(* Every other command is ignored.                                         *)
IgnoreCommand ==
  /\ c2s # <<>>
  /\ Request.cmd \in {"RD_NEXT", "WR_NEXT", "STATUS", "NONE"}
  /\ NoAnswer
  /\ UNCHANGED serverVars
-----------------------------------------------------------------------------
(* handleTcpClient: receive one request, process it, answer.               *)
ServerStep ==
  \/ SelectEmulated \/ SelectPlain \/ SelectMissing
  \/ ReadEmulated \/ ReadPlain \/ ReadMismatch
  \/ WriteEmulated \/ WritePlain \/ WriteRefused
  \/ SeekEmulated \/ SeekPlain \/ SeekRefused
  \/ IgnoreCommand
=============================================================================
