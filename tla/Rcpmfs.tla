------------------------------- MODULE Rcpmfs -------------------------------
(***************************************************************************)
(* The reverse CP/M file system of libdsk, which shows a directory of the  *)
(* host as a CP/M disk: the directory of that disk is made up when it is   *)
(* opened, and a write to it is carried out on the files of the host.      *)
(*                                                                         *)
(* A disk is a record:                                                     *)
(*   dir    the directory entries, in buffers that are never dropped       *)
(*   map    the name of the host file of each entry                        *)
(*   buf    the other buffered sectors, from sector numbers to contents    *)
(*   host   the files of the host, sequences of records                    *)
(*                                                                         *)
(* A file is a number of whole records (128 bytes); sectors and blocks are *)
(* counted from the start of the directory.  Labels, time stamps, the last *)
(* record byte count and attributes are not modelled, nor a host that      *)
(* fails.                                                                  *)
(***************************************************************************)
EXTENDS Integers, Sequences, FiniteSetsExt

CONSTANTS
  Free,          \* the name in an entry that is not in use
  NoFile,        \* no host file
  RecordsPerRC,  \* the records the record count of an entry can count: 128
  RecPerSec,     \* records of a sector: 4
  SecPerBlock,   \* sectors of a block: 8
  BlocksPerExtent,  \* blocks of an entry: 8
  Entries,       \* entries of the directory: 512
  DirBlocks,     \* blocks of the directory: 4
  TotalBlocks,   \* 2048
  PlainName      \* the name of user 0 for the names of all users

(* An entry has two logical extents (the extent mask is 1).                *)
ExtentSize == BlocksPerExtent * SecPerBlock * RecPerSec

Sectors == TotalBlocks * SecPerBlock

ASSUME GeometryAssumption ==
  /\ RecordsPerRC \in Nat \ {0}
  /\ RecPerSec \in Nat \ {0} /\ SecPerBlock \in Nat \ {0}
  /\ BlocksPerExtent \in Nat \ {0} /\ Entries \in Nat \ {0}
  /\ DirBlocks \in Nat \ {0} /\ TotalBlocks \in Nat
  /\ ExtentSize = 2 * RecordsPerRC

E5 == 0          \* a record nobody has written

EntryNumbers == 1 .. Entries
NoBlocks == [i \in 1 .. BlocksPerExtent |-> 0]

(* ext and ex are the extent counter of an entry: ext the number of the    *)
(* entry in its file, ex the bit below it.                                 *)
FreeEntry == [name |-> Free, ext |-> 0, ex |-> 0, rc |-> 0, blocks |-> NoBlocks]

InUse(entry) == entry.name # Free

(* The length of the extent.                                               *)
ExtentRecords(entry) == entry.rc + entry.ex * RecordsPerRC

AtLeast(n, low) == IF n < low THEN low ELSE n
AtMost(n, high) == IF n > high THEN high ELSE n
-----------------------------------------------------------------------------
(* rcpmfs_lookup: the first entry that has the block.                      *)
Owners(dir, block) ==
  { e \in EntryNumbers : InUse(dir[e]) /\ \E i \in DOMAIN dir[e].blocks : dir[e].blocks[i] = block }

(* rcpmfs_psfind2: the file a sector is in, its place there, and how much  *)
(* of it belongs to the file as the entry tells.                           *)
PsFind2(d, sector) ==
  LET block == sector \div SecPerBlock
      owners == Owners(d.dir, block)
      e      == Min(owners)
      entry  == d.dir[e]
      nb     == CHOOSE i \in 1 .. BlocksPerExtent :
                  /\ entry.blocks[i] = block
                  /\ \A j \in 1 .. i - 1 : entry.blocks[j] # block
      offset == ((nb - 1) * SecPerBlock + (sector % SecPerBlock)) * RecPerSec
  IN IF owners = {} THEN [file |-> NoFile, at |-> 0, size |-> 0]
     ELSE [file |-> d.map[e],
           at   |-> entry.ext * ExtentSize + offset,
           size |-> AtMost(AtLeast(ExtentRecords(entry) - offset, 0), RecPerSec)]

Content(host, file) == IF file \in DOMAIN host THEN host[file] ELSE <<>>

Put(host, file, content) == [f \in DOMAIN host \cup {file} |->
                               IF f = file THEN content ELSE host[f]]
Without(fun, x) == [y \in DOMAIN fun \ {x} |-> fun[y]]

(* rcpmfs_writefile: a missing file is created, a short one filled up.     *)
WriteFile(host, file, at, recs) ==
  LET old == Content(host, file)
      len == IF recs = <<>> THEN Len(old) ELSE AtLeast(at + Len(recs), Len(old))
  IN Put(host, file,
         [i \in 1 .. len |-> IF i > at /\ i <= at + Len(recs) THEN recs[i - at]
                             ELSE IF i <= Len(old) THEN old[i] ELSE E5])

(* A slip in FlushSector: all of a sector is written to the file that has  *)
(* a part of it.                                                           *)
FlushSectorWhole(d, sector) ==
  LET where == PsFind2(d, sector)
  IN IF where.file = NoFile \/ where.size = 0 THEN d
     ELSE [d EXCEPT !.host = WriteFile(d.host, where.file, where.at, d.buf[sector]),
                    !.buf = Without(d.buf, sector)]

(* rcpmfs_flush: what belongs to a file by now is written to it; a sector  *)
(* that does so as a whole needs no buffer any more.                       *)
FlushSector(d, sector) ==
  LET where == PsFind2(d, sector)
  IN IF where.file = NoFile \/ where.size = 0 THEN d
     ELSE [d EXCEPT !.host = WriteFile(d.host, where.file, where.at,
                                       SubSeq(d.buf[sector], 1, where.size)),
                    !.buf = IF where.size = RecPerSec THEN Without(d.buf, sector)
                            ELSE @]

Flush(d) ==
  LET flushed[s \in 0 .. Sectors] ==
        IF s = 0 THEN d
        ELSE IF s - 1 \in DOMAIN d.buf THEN FlushSector(flushed[s - 1], s - 1)
        ELSE flushed[s - 1]
  IN flushed[Sectors]

(* rcpmfs_read of a sector behind the directory.                           *)
ReadSector(d, sector) ==
  LET where == PsFind2(d, sector)
      file  == Content(d.host, where.file)
  IN IF sector \in DOMAIN d.buf THEN d.buf[sector]
     ELSE [i \in 1 .. RecPerSec |->
             IF where.at + i <= Len(file) THEN file[where.at + i] ELSE E5]

(* A slip in WriteSector: no buffer is kept for a part of a sector.        *)
WriteSectorUnbuffered(d, sector, data) ==
  LET where == PsFind2(d, sector)
  IN IF sector \in DOMAIN d.buf \/ where.file = NoFile
     THEN [d EXCEPT !.buf = Put(d.buf, sector, data)]
     ELSE [d EXCEPT !.host = WriteFile(d.host, where.file, where.at,
                                       SubSeq(data, 1, where.size))]

(* rcpmfs_write of a sector behind the directory.                          *)
WriteSector(d, sector, data) ==
  LET where == PsFind2(d, sector)
  IN IF sector \in DOMAIN d.buf \/ where.file = NoFile
     THEN [d EXCEPT !.buf = Put(d.buf, sector, data)]
     ELSE [d EXCEPT !.host = WriteFile(d.host, where.file, where.at,
                                       SubSeq(data, 1, where.size)),
                    !.buf = IF where.size < RecPerSec THEN Put(d.buf, sector, data)
                            ELSE @]
-----------------------------------------------------------------------------
(* rcpmfs_adjust_size: a missing file is no error.                         *)
Shorten(host, file, delta) ==
  IF file \in DOMAIN host /\ delta <= Len(host[file])
  THEN Put(host, file, SubSeq(host[file], 1, Len(host[file]) - delta)) ELSE host

Done(d) == [disk |-> d, err |-> FALSE]
Failed(d) == [disk |-> d, err |-> TRUE]

(* rcpmfs_write_dirent                                                     *)
WriteDirent(d, e, new, file) == [d EXCEPT !.dir[e] = new, !.map[e] = file]

CreateFile(d, e, new) ==
  Done([WriteDirent(d, e, new, new.name) EXCEPT !.host = Put(@, new.name, <<>>)])

EraseFile(d, e, new) ==
  IF d.map[e] \in DOMAIN d.host
  THEN Done([WriteDirent(d, e, new, NoFile) EXCEPT !.host = Without(@, d.map[e])])
  ELSE Failed(d)

(* A slip in RenameFile: the other entries of the file keep the old name.  *)
RenameOneEntry(d, e, new) ==
  LET old == d.map[e]
  IN IF new.ext = 0 /\ old \in DOMAIN d.host
     THEN Done([d EXCEPT !.map[e] = new.name,
                         !.host = Put(Without(@, old), new.name, d.host[old])])
     ELSE IF new.name \in DOMAIN d.host THEN Done(d) ELSE Failed(d)

(* rcpmfs_rename, when the entry is the first of the file, and the check   *)
(* that rcpmfs_chmod makes in passing: there is a file of the new name.    *)
RenameFile(d, e, new) ==
  LET old     == d.map[e]
      renamed == [d EXCEPT !.map = [x \in EntryNumbers |-> IF @[x] = old THEN new.name ELSE @[x]],
                           !.host = Put(Without(@, old), new.name, d.host[old])]
  IN IF new.ext = 0
     THEN IF old \in DOMAIN d.host THEN Done(renamed) ELSE Failed(d)
     ELSE IF new.name \in DOMAIN d.host THEN Done(d) ELSE Failed(d)

(* A slip in Chgdir: the entry of a second extent makes a file as well.    *)
ChgdirCreates(d, e, new) ==
  IF ~InUse(d.dir[e]) /\ InUse(new) THEN CreateFile(d, e, new)
  ELSE IF InUse(d.dir[e]) /\ ~InUse(new) /\ d.dir[e].ext = 0 THEN EraseFile(d, e, new)
  ELSE Done(d)

(* rcpmfs_chgdir: the file of a changed entry is created, erased, renamed  *)
(* or made shorter.  An erased entry of a second extent has lost its user  *)
(* number, and the file of user 0 is made shorter.                         *)
Chgdir(d, e, new) ==
  LET old == d.dir[e]
      moved == IF InUse(old) /\ InUse(new) /\ old.name # new.name
               THEN RenameFile(d, e, new) ELSE Done(d)
      lost == ExtentRecords(old) - (IF InUse(new) THEN ExtentRecords(new) ELSE 0)
      file == IF InUse(new) THEN new.name ELSE PlainName[old.name]
  IN CASE ~InUse(old) /\ InUse(new) /\ new.ext = 0 -> CreateFile(d, e, new)
       [] ~InUse(old) /\ InUse(new) /\ new.ext # 0 ->
            Done(WriteDirent(d, e, new, new.name))
       [] InUse(old) /\ ~InUse(new) /\ old.ext = 0 -> EraseFile(d, e, new)
       [] InUse(old) /\ (InUse(new) \/ old.ext # 0) ->
            IF moved.err \/ lost <= 0 THEN moved
            ELSE Done([moved.disk EXCEPT !.host = Shorten(@, file, lost)])
       [] ~InUse(old) /\ ~InUse(new) -> Done(d)

(* rcpmfs_write of a sector of the directory, with the entries from first  *)
(* on: one changed entry after the other; an error leaves the rest, and    *)
(* what chgdir has not written itself, as it was.                          *)
WriteDirectory(d, first, entries) ==
  LET change(r, i) ==
        IF r.err \/ r.disk.dir[first + i - 1] = entries[i] THEN r
        ELSE Chgdir(r.disk, first + i - 1, entries[i])
      changed[i \in 0 .. Len(entries)] ==
        IF i = 0 THEN Done(d) ELSE change(changed[i - 1], i)
      r == changed[Len(entries)]
      written == [r.disk EXCEPT !.dir =
                    [e \in EntryNumbers |->
                       IF e - first \in 0 .. Len(entries) - 1 THEN entries[e - first + 1]
                       ELSE @[e]]]
  IN IF r.err THEN r ELSE Done(Flush(written))
-----------------------------------------------------------------------------
CeilDiv(n, m) == (n + m - 1) \div m

(* The k-th entry of a file, of a number of records, that starts at block. *)
MadeEntry(file, records, block, k) ==
  LET blocks == CeilDiv(records, RecPerSec * SecPerBlock)
      last   == k * BlocksPerExtent >= blocks
      recs   == AtMost(records - (k - 1) * ExtentSize, ExtentSize)
      done   == (k - 1) * BlocksPerExtent
  IN [name |-> file,
      ext  |-> k - 1,
      ex   |-> IF recs \div RecordsPerRC > 0 THEN 1 ELSE 0,
      rc   |-> IF recs <= RecordsPerRC THEN recs
               ELSE IF last THEN recs % RecordsPerRC ELSE RecordsPerRC,
      blocks |-> [i \in 1 .. BlocksPerExtent |->
                    IF done + i <= blocks THEN block + done + i - 1 ELSE 0]]

(* A slip in NumEntries: a file without blocks gets no entry.              *)
NumEntriesOfBlocks(blocks) == CeilDiv(blocks, BlocksPerExtent)

(* The entries for a file with this number of blocks.                      *)
NumEntries(blocks) == AtLeast(CeilDiv(blocks, BlocksPerExtent), 1)

(* One file of rcpmfs_readdir, which takes blocks entry by entry and ends  *)
(* after the first entry that has no room any more.  When the blocks are   *)
(* used up the file is left out, and so are all that follow; when the      *)
(* entries are, the rest of it.                                            *)
ListFile(l, file, records) ==
  LET blocks == CeilDiv(records, RecPerSec * SecPerBlock)
      number == NumEntries(blocks)
      taken  == AtMost(blocks, (Entries + 2 - l.next) * BlocksPerExtent)
      mine(e) == e - l.next \in 0 .. number - 1
  IN IF l.full THEN l
     ELSE IF l.block + taken >= TotalBlocks THEN [l EXCEPT !.full = TRUE]
     ELSE [l EXCEPT
             !.dir = [e \in EntryNumbers |->
                        IF mine(e) THEN MadeEntry(file, records, l.block, e - l.next + 1)
                        ELSE @[e]],
             !.map = [e \in EntryNumbers |-> IF mine(e) THEN file ELSE @[e]],
             !.next = AtMost(@ + number, Entries + 1),
             !.block = @ + taken]

(* rcpmfs_open: the directory, from the files in the order the host lists  *)
(* them.                                                                   *)
Opened(host, order) ==
  LET none == [dir |-> [e \in EntryNumbers |-> FreeEntry],
               map |-> [e \in EntryNumbers |-> NoFile],
               next |-> 1, block |-> DirBlocks, full |-> FALSE]
      listed[i \in 0 .. Len(order)] ==
        IF i = 0 THEN none ELSE ListFile(listed[i - 1], order[i], Len(host[order[i]]))
      l == listed[Len(order)]
  IN [dir |-> l.dir, map |-> l.map, buf |-> <<>>, host |-> host]
=============================================================================
