---------------------------- MODULE EmulatedDisk ----------------------------
(***************************************************************************)
(* An emulated disk in use: the BDOS of CP/M 2.2 works on files through    *)
(* the sectors that the server reads and writes with rcpmfs, selecting the *)
(* disk closes and opens it again, and the server may be killed.           *)
(*                                                                         *)
(* The BDOS is modelled from what CP/M prescribes: it writes a changed     *)
(* directory entry at once, one at a time, in the order of the directory;  *)
(* the data of a file goes to free blocks before the entry that names      *)
(* them is written; a file is closed at the end of each logical extent.    *)
(* It is told of no error (the server answers OK).                         *)
(***************************************************************************)
EXTENDS Rcpmfs

CONSTANTS
  Names,          \* of files, as CP/M and the host have them
  EntriesPerSec,  \* directory entries of a sector: 16
  ErasesBuffered, \* files are erased while a sector of them is buffered
  MaxRecords,     \* bound: records the programs write
  MaxOpens        \* bound: how often the disk is opened again

ASSUME BoundsAssumption ==
  /\ EntriesPerSec \in Nat \ {0} /\ Entries % EntriesPerSec = 0
  /\ ErasesBuffered \in BOOLEAN
  /\ MaxRecords \in Nat /\ MaxOpens \in Nat
  /\ Free \notin Names /\ NoFile \notin Names /\ IsFiniteSet(Names)
  /\ Names \subseteq DOMAIN PlainName

VARIABLES
  disk,      \* the disk of Rcpmfs
  fcb,       \* the file a program writes
  job,       \* the file operation that goes through the directory
  files,     \* the files as the programs have left them
  misread,   \* the files whose length has been listed wrong at the last open
  records,   \* the records written
  opens

diskVars == <<disk, fcb, job, files, misread, records, opens>>

NoFcb == [name |-> Free, entry |-> 0, ext |-> 0, recs |-> 0, blocks |-> NoBlocks,
          clean |-> 0, touched |-> {}]
NoJob == [op |-> "none", name |-> Free, to |-> Free, at |-> 0]
Idle == fcb = NoFcb /\ job = NoJob

RecPerBlock == RecPerSec * SecPerBlock

(* The entry of the file in hand, as the BDOS writes it.                   *)
FcbEntry ==
  [name |-> fcb.name,
   ext  |-> fcb.ext,
   ex   |-> IF fcb.recs > RecordsPerRC THEN 1 ELSE 0,
   rc   |-> IF fcb.recs > RecordsPerRC THEN fcb.recs - RecordsPerRC ELSE fcb.recs,
   blocks |-> fcb.blocks]

(* The directory as CP/M knows it.                                         *)
CpmDir == IF fcb = NoFcb THEN disk.dir ELSE [disk.dir EXCEPT ![fcb.entry] = FcbEntry]

EntriesOf(name) == { e \in EntryNumbers : CpmDir[e].name = name }
EntryOf(name, ext) == { e \in EntriesOf(name) : CpmDir[e].ext = ext }
FreeEntries == { e \in EntryNumbers : ~InUse(CpmDir[e]) }
UsedBlocks ==
  { CpmDir[e].blocks[i] : e \in EntryNumbers \ FreeEntries, i \in 1 .. BlocksPerExtent }
(* CP/M has fewer blocks than rcpmfs: the disk ends before block 2048.     *)
FreeBlocks == (DirBlocks .. TotalBlocks - 2) \ UsedBlocks

(* The sector that holds record i of an entry, counted from 0.             *)
SectorOf(entry, i) ==
  entry.blocks[(i \div RecPerBlock) + 1] * SecPerBlock + ((i % RecPerBlock) \div RecPerSec)

(* The length the directory tells of a file: the end of its last extent.   *)
ListedLength(dir, name) ==
  LET ends == { dir[e].ext * ExtentSize + ExtentRecords(dir[e]) :
                  e \in { x \in EntryNumbers : dir[x].name = name } }
  IN IF ends = {} THEN 0 ELSE Max(ends)

(* A file as CP/M reads it.                                                *)
CpmRecord(name, i) ==
  LET es == EntryOf(name, i \div ExtentSize)
      entry == CpmDir[Min(es)]
      k == i % ExtentSize
  IN IF es = {} \/ k >= ExtentRecords(entry) THEN E5
     ELSE ReadSector(disk, SectorOf(entry, k))[(k % RecPerSec) + 1]
CpmFile(name) == [i \in 1 .. ListedLength(CpmDir, name) |-> CpmRecord(name, i - 1)]

(* The records of the file in hand that its written entries cover, without *)
(* those that have been written since.                                     *)
IsLast == EntryOf(fcb.name, fcb.ext + 1) = {}
KeptLength == IF IsLast THEN fcb.ext * ExtentSize + fcb.clean ELSE Len(files[fcb.name])
Kept == (1 .. KeptLength) \ fcb.touched

Orders(set) == { o \in [1 .. Cardinality(set) -> set] : \A i, j \in DOMAIN o : o[i] = o[j] => i = j }

(* The files whose directory entries tell another length than they have.   *)
ListedWrong(d) ==
  { n \in DOMAIN d.host : Len(d.host[n]) # ListedLength(d.dir, n) }

EmulatedDiskInit(host) ==
  /\ \E order \in Orders(DOMAIN host) : disk = Opened(host, order)
  /\ fcb = NoFcb
  /\ job = NoJob
  /\ files = host
  /\ misread = ListedWrong(disk)
  /\ records = 0
  /\ opens = 0
-----------------------------------------------------------------------------
(* The BDOS writes the sector of one entry.                                *)
PutEntry(e, entry) ==
  LET first == ((e - 1) \div EntriesPerSec) * EntriesPerSec + 1
      sector == [i \in 1 .. EntriesPerSec |-> disk.dir[first + i - 1]]
  IN disk' = WriteDirectory(disk, first, [sector EXCEPT ![e - first + 1] = entry]).disk

MakeFile(name) ==
  /\ Idle
  /\ EntriesOf(name) = {}
  /\ FreeEntries # {}
  /\ PutEntry(Min(FreeEntries), [FreeEntry EXCEPT !.name = name])
  /\ fcb' = [NoFcb EXCEPT !.name = name, !.entry = Min(FreeEntries)]
  /\ files' = Put(files, name, <<>>)
  /\ misread' = misread \ {name}
  /\ UNCHANGED <<job, records, opens>>

(* A file whose length CP/M does not know is not written.                  *)
OpenFile(name) ==
  /\ Idle
  /\ name \in DOMAIN files \ misread
  /\ \E e \in EntriesOf(name) :
       LET entry == disk.dir[e] IN
       fcb' = [name |-> name, entry |-> e, ext |-> entry.ext, recs |-> ExtentRecords(entry),
               blocks |-> entry.blocks, clean |-> ExtentRecords(entry), touched |-> {}]
  /\ UNCHANGED <<disk, job, files, misread, records, opens>>

Writing == fcb # NoFcb /\ records < MaxRecords
Clean == fcb.touched = {}

(* The place in the file of record i of the entry, counted from 0.         *)
Place(i) == fcb.ext * ExtentSize + i + 1

(* Record i of the entry gets a value of its own; the BIOS reads and       *)
(* writes the sector it is in.                                             *)
PutRecord(entry, i) ==
  LET s == SectorOf(entry, i)
  IN /\ records' = records + 1
     /\ disk' = WriteSector(disk, s,
                  [ReadSector(disk, s) EXCEPT ![(i % RecPerSec) + 1] = records'])
     /\ files' = [files EXCEPT ![fcb.name] =
                    IF Place(i) > Len(@) THEN Append(@, records')
                    ELSE [@ EXCEPT ![Place(i)] = records']]

AppendRecord ==
  /\ Writing /\ IsLast
  /\ fcb.recs < ExtentSize
  /\ fcb.recs = RecordsPerRC => Clean
  /\ LET nb == (fcb.recs \div RecPerBlock) + 1
     IN \E b \in IF fcb.recs % RecPerBlock = 0 THEN FreeBlocks ELSE {fcb.blocks[nb]} :
          /\ fcb' = [fcb EXCEPT !.recs = @ + 1, !.blocks[nb] = b,
                                !.touched = @ \cup {Place(fcb.recs)}]
          /\ PutRecord([FcbEntry EXCEPT !.blocks[nb] = b], fcb.recs)
  /\ UNCHANGED <<job, misread, opens>>

RewriteRecord ==
  /\ Writing
  /\ \E i \in 0 .. fcb.recs - 1 :
       /\ fcb' = [fcb EXCEPT !.touched = @ \cup {Place(i)}]
       /\ PutRecord(FcbEntry, i)
  /\ UNCHANGED <<job, misread, opens>>

(* The entry is written if a record was, changed or not.                   *)
CloseFile ==
  /\ fcb # NoFcb
  /\ IF Clean THEN fcb' = NoFcb /\ UNCHANGED disk
     ELSE PutEntry(fcb.entry, FcbEntry) /\ fcb' = [fcb EXCEPT !.clean = fcb.recs, !.touched = {}]
  /\ UNCHANGED <<job, files, misread, records, opens>>

(* The program ends without closing the file it has made longer.           *)
Abandon ==
  /\ fcb # NoFcb /\ ~Clean
  /\ \A i \in fcb.touched : i > KeptLength
  /\ fcb' = NoFcb
  /\ files' = [files EXCEPT ![fcb.name] = SubSeq(@, 1, KeptLength)]
  /\ UNCHANGED <<disk, job, misread, records, opens>>

NextExtent ==
  /\ Writing /\ IsLast /\ Clean
  /\ fcb.recs = ExtentSize
  /\ FreeEntries # {}
  /\ PutEntry(Min(FreeEntries), [FreeEntry EXCEPT !.name = fcb.name, !.ext = fcb.ext + 1])
  /\ fcb' = [NoFcb EXCEPT !.name = fcb.name, !.entry = Min(FreeEntries), !.ext = fcb.ext + 1]
  /\ UNCHANGED <<job, files, misread, records, opens>>

(* rcpmfs has a sector of an entry other than the first in a buffer.       *)
Buffered(name) ==
  \E s \in DOMAIN disk.buf :
    \E e \in EntriesOf(name) :
      /\ disk.dir[e].ext # 0
      /\ \E i \in 1 .. BlocksPerExtent : disk.dir[e].blocks[i] = s \div SecPerBlock

Erase(name) ==
  /\ Idle
  /\ name \in DOMAIN files /\ EntriesOf(name) # {}
  /\ Buffered(name) => ErasesBuffered
  /\ job' = [NoJob EXCEPT !.op = "erase", !.name = name]
  /\ files' = Without(files, name)
  /\ UNCHANGED <<disk, fcb, misread, records, opens>>

(* Only for a file whose first entry comes first in the directory, and not *)
(* to the name of a file that found no room there.                         *)
Rename(name, to) ==
  /\ Idle
  /\ name \in DOMAIN files /\ EntriesOf(name) # {}
  /\ to \notin DOMAIN files /\ EntriesOf(to) = {}
  /\ disk.dir[Min(EntriesOf(name))].ext = 0
  /\ job' = [NoJob EXCEPT !.op = "rename", !.name = name, !.to = to]
  /\ files' = Put(Without(files, name), to, files[name])
  /\ misread' = { IF n = name THEN to ELSE n : n \in misread }
  /\ UNCHANGED <<disk, fcb, records, opens>>

(* Erase or Rename goes on to the next entry of the file.                  *)
JobStep ==
  LET left == { e \in EntriesOf(job.name) : e > job.at }
  IN /\ job # NoJob
     /\ IF left = {} THEN job' = NoJob /\ UNCHANGED disk
        ELSE /\ PutEntry(Min(left), [disk.dir[Min(left)] EXCEPT !.name = job.to])
             /\ job' = [job EXCEPT !.at = Min(left)]
     /\ misread' = IF left = {} /\ job.op = "erase" THEN misread \ {job.name} ELSE misread
     /\ UNCHANGED <<fcb, files, records, opens>>

Reopen(host) ==
  /\ opens < MaxOpens
  /\ opens' = opens + 1
  /\ \E order \in Orders(DOMAIN host) : disk' = Opened(host, order)
  /\ misread' = ListedWrong(disk')

(* The disk is selected (Device_close, Device_open), and CP/M logs it in   *)
(* as after a warm start.                                                  *)
Select ==
  /\ Idle
  /\ Reopen(Flush(disk).host)
  /\ UNCHANGED <<fcb, job, files, records>>

(* The server is killed and started again, the Z80 as well.  Of a file     *)
(* that was in hand there is what the host has.                            *)
Crash ==
  /\ Reopen(disk.host)
  /\ LET inHand == {fcb.name, job.name, job.to}
     IN files' = [n \in (DOMAIN files \ inHand) \cup (DOMAIN disk.host \cap inHand) |->
                    IF n \in inHand THEN disk.host[n] ELSE files[n]]
  /\ fcb' = NoFcb /\ job' = NoJob
  /\ UNCHANGED records

EmulatedDiskNext ==
  \/ \E n \in Names : MakeFile(n) \/ OpenFile(n) \/ Erase(n)
  \/ \E n, m \in Names : Rename(n, m)
  \/ AppendRecord \/ RewriteRecord \/ CloseFile \/ Abandon \/ NextExtent
  \/ JobStep
  \/ Select \/ Crash

DiskSpec(host) == EmulatedDiskInit(host) /\ [][EmulatedDiskNext]_diskVars
-----------------------------------------------------------------------------
(* CP/M reads every file as the programs have written it, the one that is  *)
(* being written included: whatever was erased, given up, selected again   *)
(* or killed in between, no sector of it comes from another file or an     *)
(* earlier life of its block (rcpmfs_read, rcpmfs_write, rcpmfs_flush).    *)
(* Files that were listed with a wrong length at the open are excepted.    *)
FilesRead ==
  job = NoJob => \A n \in DOMAIN files \ misread : CpmFile(n) = files[n]

(* The directory has the files the programs have left and no others, also  *)
(* after the server has made it up again (rcpmfs_readdir) - if all files   *)
(* of the host find room in it; rcpmfs_readdir leaves out the others.      *)
FilesListed ==
  job = NoJob => { CpmDir[e].name : e \in EntryNumbers \ FreeEntries } = DOMAIN files

(* What a program has closed is in the files of the host, with no close of *)
(* the disk: the host has each file as CP/M has left it, and no other; of  *)
(* the file in hand it has what was closed and not written again.          *)
HostKept ==
  job = NoJob =>
    /\ DOMAIN disk.host = DOMAIN files
    /\ \A n \in DOMAIN files :
         IF n = fcb.name
         THEN /\ Len(disk.host[n]) = KeptLength
              /\ \A i \in Kept : disk.host[n][i] = files[n][i]
         ELSE disk.host[n] = files[n]

(* A write to the sectors of one file leaves the other files of the host   *)
(* as they are (rcpmfs_chgdir, rcpmfs_flush).                              *)
OthersKept ==
  [][\A n \in DOMAIN disk.host \ {fcb.name, fcb'.name, job.name, job.to} :
       opens' = opens => n \in DOMAIN disk'.host /\ disk'.host[n] = disk.host[n]]_diskVars

(* A file that was erased, with all of its entries, is gone from the host: *)
(* "if extent zero is zapped, the whole file is assumed to have gone"      *)
(* (rcpmfs_chgdir).                                                        *)
ErasedGone == job = NoJob => DOMAIN disk.host \subseteq DOMAIN files
=============================================================================
