# WiFi-VirtDisk, specified and checked

WiFi-VirtDisk gives a Z80-MBC2 computer disks that live on a PC. A disk
operation of the Z80 passes through three processors:

```
Z80 --opcodes--> AVR (IOS firmware) --SPI--> ESP8266 --TCP (WiFi)--> server (PC) --> disk file
                                                                              \-> libdsk/rcpmfs --> directory
```

Each hop has its own packets, its own time-outs and its own idea of an error,
and none of the packets carries a number. This directory holds TLA+ modules of
that path, configurations that model-check them on small instances, and proofs
that TLAPS checks for every instance.

Contents: [inventory](#inventory) ·
[modules](#modules) · [runs](#runs) · [bounds](#bounds) · [fairness](#fairness) ·
[proofs](#proofs) · [disagreements](#disagreements) · [left out](#left-out) ·
[plan](#plan)

## Inventory

Paths are relative to `src/`. "IOS" stands for `S220718-R290823_IOS-Z80-MBC2`,
"Client" for `WiFi-VirtDisk-Client`, "Server" for `WiFi-VirtDisk-Server/src`.

| component | state it keeps | operations | modelled |
|---|---|---|---|
| IOS opcode layer and boot (`IOS/*.ino`) | `ioOpcode`, `ioByteCnt`, `diskErr`, `trackSel`, `sectSel`, `bufferSD`, `irqStatus`, `INT_`, `RxDoneFlag` | SELDISK, SELTRACK, SELSECT, WRITESECT, READSECT, ERRDISK, SETIRQ, SYSIRQ, serial receive, system tick; `setup` | partly |
| IOS disk calls (`IOS/virtDisk.cpp`) | locals of the running call, `vdStatus` | `vd_open`, `vd_lseek`, `vd_read`, `vd_write`, `vd_status`, `vd_mount`, `waitReady_spi` | modelled |
| SPI slave (`Client/SPICallbacks.cpp`, `hspi_slave.c`) | status register, data register, `spiDataBuf`, `spiDataRcvd` | receive interrupt, `setStatus`, `setData` | partly |
| Command processor of the client (`Client/virtDisk.cpp`) | `vd`, `vdData` (one buffered sector), `vdStatus` | one branch of `vdProcessCmd` per command, `waitForTcpData` | modelled |
| Main loop of the client (`Client/*.ino`) | WiFi, TCP and debug connection | `loop`, `setup` | partly |
| TCP connection | packets under way in both directions | `write`, `recv` | partly |
| Command processor of the server (`Server/virtDisk.cpp`) | `vdData` (name, position, stream), `drive`, `sector`, the images | `vdProcessCmd`, `vdReloadDiskImage` | partly |
| Server threads (`Server/WiFi-VirtDisk-Server.cpp`) | sockets, `gCloseTcpSocket`, flags | accept loop, one handler per connection, keyboard, shutdown | modelled |
| Debug channel (both ends) | `gDbgCmd`, `gDbgDataReady`, `gCloseDbgSocket`, a mutex and a condition variable | keys 'R' and 'U', debug threads, reset and user button of the Z80-MBC2 | modelled |
| Emulated disks (`Server/libdsk/drvrcpm.c`, `cpmtools/device_libdsk.c`) | directory, name map and sector buffers; the files of the host | open, read, write, `rcpmfs_chgdir`, flush, close | partly |
| Set-up portal, ini file, message output, tests | | | no |
| cpmtools, the rest of libdsk, PetitFS, SimpleIni | | third-party | by what the callers use |

How they interact:

* The Z80 writes an opcode and then exchanges bytes; one `vd_read` or `vd_write`
  moves a *segment* of 32 bytes, sixteen of them a sector. The Z80 may store
  another opcode at any time, which drops the rest of a sector.
* The AVR is the SPI master. It sends a command packet, polls the status register
  with growing delays (`waitReady_spi`, half a second in all), reads a data packet
  after RD_FILE, and retries on its own what the receiver found damaged.
* The ESP8266 receives in an interrupt, which sets the status to busy, and works
  in `loop()`. It keeps one sector: RD_FILE fetches it from the server when the
  buffer is empty, RD_NEXT moves on and empties the buffer at its end, WR_FILE
  collects chunks, the last WR_NEXT sends them all.
* The server handles one request after the other and answers by sending the packet
  back with some fields changed - or does not answer.

What is hard to test in this:

* *Three layers of time-outs without numbered packets.* The AVR gives a command up
  while the ESP8266 still works on it; the ESP8266 gives an answer up that still
  comes. What is answered, and to whom?
* *The interrupt against the main loop.* A packet can arrive between `setStatus`
  and `spiDataRcvd = false`, or while the last one is being processed.
* *Retries of commands that had an effect.* A command may have been carried out,
  in full or in part, when it is sent once more.
* *The sector buffer in the middle.* It outlives operations that are cut short,
  resets of the AVR and changes of the disk.
* *Errors that vanish between layers*: statuses that are not passed on, byte counts
  that are never set.
* *Selections on the server*: a name, a stream and a drive that must agree, the
  position kept twice.
* *Threads of the server* on shared globals without locks, and one flag with one
  condition variable for three purposes.
* *A byte counter that outlives a transfer*, an error byte that four opcodes
  overwrite, an interrupt line that two sources share.
* *A directory that is written sector by sector and obeyed entry by entry*, with
  sectors kept aside because the directory does not say yet whose they are.

`PROJECT.json` lists every such place with its line ("hazards") and the properties
that cover it.

What makes each part correct:

* AVR: every operation ends; a success means what it says.
* SPI link: the status the AVR acts on is the answer to its own command.
* ESP8266: the buffered sector is the sector of the selected file at the
  sought position, or is not used.
* Opcodes: the bytes exchanged are those of the sector that was set, on the disk that
  ERRDISK has confirmed; no interrupt is lost. Boot: what is started is the program.
* Emulated disk: CP/M reads what it has written, and the host has what CP/M has closed.
* Debug channel: a key works once, as itself, or not at all.
* TCP link: an answer is taken for the request it belongs to.
* Server: what is open belongs to what is selected; nothing else changes a disk.
* All of them together: disks with atomic sectors (`SectorDisk`).

## Modules

| module | models | of |
|---|---|---|
| `VdProtocol` | packets of both links, buffers, images | the headers, `doc/Protocol definitions.md` via the code |
| `SpiLink` | registers and receive interrupt | `Client/SPICallbacks.cpp`, `hspi_slave.c` |
| `TcpLink` | two queues of packets | `tcpClient.write`, `recv`, `send` |
| `Faults` | the budget of faults | - |
| `IosDriver` | one disk operation of the Z80 | `IOS/virtDisk.cpp` and the opcodes READSECT, WRITESECT, SELDISK |
| `EspClient` | `vdProcessCmd` of the ESP8266 | `Client/virtDisk.cpp`, `loop()` |
| `VdServer` | `vdProcessCmd` of the server | `Server/virtDisk.cpp`, `handleTcpClient` |
| `VdSystem` | composition of the six, and the properties | |
| `VdTransfer` | `VdSystem` with the invariant behind its end-to-end properties | |
| `SectorDisk` | what the whole promises the Z80 (abstract) | |
| `ServerSession` | `VdServer` with a client that sends anything | |
| `ServerThreads` | `main()` and the handler threads of the server | `Server/WiFi-VirtDisk-Server.cpp`, `socket-cpp/TCPServer.cpp`, `vdReloadDiskImage` |
| `DebugChannel` | the keys 'R' and 'U': `main()`, the debug threads, `loop()` of the ESP8266 | `Server/WiFi-VirtDisk-Server.cpp`, `Client/*.ino` |
| `IosDisk` | what a disk call of the AVR can return and leave behind | `IOS/virtDisk.cpp` with what is behind it |
| `IosOpcodes` | `loop()` of the IOS firmware, byte by byte | `IOS/*.ino` |
| `IosBoot` | `setup()` from the wait for the WiFi-VirtDisk to the start of the Z80 | `IOS/*.ino`, `vd_status`, `vd_mount` |
| `IosFirmware` | both with a program of the Z80, connections that come and go, and the properties | `IOS/*.ino`, `Client/*.ino` |
| `IosSector` | `IosFirmware` with the invariants behind its sector properties and its boot | |
| `Rcpmfs` | the reverse CP/M file system, as operators on a disk | `Server/libdsk/drvrcpm.c` |
| `EmulatedDisk` | `Rcpmfs` under the BDOS of CP/M, selected again and killed | `drvrcpm.c`, `device_libdsk.c` |
| `EmulatedFiles` | `EmulatedDisk` with the invariant behind its properties | |
| `MCVdSystem`, `MCVdTransfer`, `MCServerSession`, `MCServerThreads`, `MCDebugChannel`, `MCIosFirmware`, `MCEmulatedDisk` | small instances for TLC | |
| `VdServerProofs`, `ServerSessionProofs`, `VdSystemProofs`, `VdTransferProofs`, `IosFirmwareProofs`, `ServerThreadsProofs`, `DebugChannelProofs`, `EmulatedDiskProofs` | theorems | |

**Units.** The code moves 16 bytes per SPI packet. The modules call that a *chunk*
and count every position and length in chunks: a segment is two, a sector
`BufLen = 2 * Segments`. The checksum is the field `valid` of a packet; bytes
damaged on the wire are `BadChunk`. The code has `Segments = 16`; the instances
take 1 or 2, the proofs any positive number.

**`IosDriver`.** `stage` is the command the current call sends and `iosPc` the place
in it: `send`, `poll`, `expired`, `data`. `StartSelect` is SELDISK, `StartTransfer`
the seek the first byte of READSECT or WRITESECT makes. `Send` puts the packet on
the wire, perhaps damaged. `Poll` is the read of a status that is not busy, and does
all `vd_*` does until the next packet: `Succeeded` moves on (the next chunk, RD_NEXT
or WR_NEXT, the next segment, the end), `Failed` retries or gives up with the counts
of the code - the calls count differently: `vd_open` and `vd_lseek` at the start of
a try and again after a checksum error, `vd_read` and `vd_write` up to twice
`MAX_ATTEMPTS` for the chunks and once for the NEXT command, and a time-out in
`vd_open` or `vd_lseek` is not retried at all. `LastPoll` and `Expire` are the two ends of
`waitReady_spi`'s last delay, which is not followed by another look at the status.
`Abandon` is another opcode of the Z80 in the middle of a sector, `Reset` the reset
button. `vd_open` moves its path pointer while it sends (`pathSent`), and the byte
counts that are never set when a call gives up are a choice between both outcomes
their test can have.

**`EspClient`.** One branch of `vdProcessCmd` per command: `EspSelect`, `EspSeek`,
`EspRead`, `EspReadNext`, `EspWrite`, `EspWriteNext`, `EspStatus`, `EspUnknown`. A
branch that asks the server stops at `wait` and goes on with `EspReply` or
`EspTimeout` (both through `AfterWait`); every branch but the last ends at `ack`.
`EspSetStatus` and `EspClear` are the last two statements; they are actions of their
own because the receive interrupt, which is part of the AVR's `Send`, can come
between them.

**`VdServer`.** One action per outcome of each command: for a plain file, for an
emulated disk, and for a request that is refused without an answer. A plain file is
kept in a C++ stream with its position and its failbit, an emulated disk in a drive of
libdsk with the position in `filePos`. A step receives a request, processes it and
answers it, as `handleTcpClient` does.

**`VdSystem`.** Interleaves the three. Two facts about time enter as guards, each
with a constant that takes it away. The AVR's last look at the status comes half a
second after the packet, and the ESP8266 has finished by then, because its longest
wait is 250 ms (`LoseLastPoll`) - unless `loop()` is held up by a connect or a delay
(`StalledLastPoll`, `Stall`). The ESP8266 waits 250 ms, and the answer is there by
then if one comes - unless it is late (`EspTimeout`, `TcpLate`).

**`ServerThreads`.** Stands beside the others: it abstracts requests away and keeps the
threads. `Accept` is the accept loop with the order it gives to the connection before
(`MarkOld`); `Reload` and `Quit` are the keys 'L' and 'Q'; `CloseStream`, `CloseDrive`,
`Join` and `JoinDebug` the end of `main()`. `JoinDebug` stands for the joins of the debug
threads, which may never come to an end (`DebugChannel` has them step by step). A handler is at a place of its loop: `Check` and `TakeBack` are
the test of `gCloseTcpSocket` and its reset, which are two accesses;
`ReceiveRequest`, `ReceiveNothing` and `ReceiveEnd` the three results of `Receive`. A
descriptor is free again after `Disconnect`, and the next connection may get it. An
access to the files while another thread is in `vdProcessCmd` is a data race (`Racing`),
which leaves any of them open or closed. The keys 'R' and 'U' and the debug threads
share nothing with these but `main()`; they are in `DebugChannel`.

**`SectorDisk`.** The abstract disk: `Ask`, `Commit`, `Succeed`, `Refuse`, `Restart`. A
read that succeeds returns the sector as it is; a write that succeeds has replaced
it; one that fails or is cut short has replaced it all or not at all. The refinement
mapping is at the end of `VdSystem`: the store is cut out of the server's images, the
disk, the operation and its outcome are the AVR's.

**`DebugChannel`.** A handler goes through `gCv.wait` in the steps at which another thread
can come between: it takes the mutex (`Lock`), looks at the flag (`Test`), and enters the
wait set and gives the mutex back in one step (`Block`). `Notified` wakes any one
thread that is asleep, and none is remembered if nobody is. `Press` takes the mutex,
`OldReady` and `JoinReady` set the flag without it. A command reaches the ESP8266 if
it is sent on the connection the ESP8266 uses.

**`IosDisk`.** The calls `openSD`, `seekSD`, `readSD`, `writeSD` and `vd_status` as sets of
results: the record they leave (file, position, unsent segments, contents, and `open`: the
server has the file), the error, the byte count, and whether it took a fault. A server that
is started again has no file open, but the ESP8266 still delivers the rest of the sector
it has buffered (`NextSegment`). A call that gives up may have had its
effect or not, and leaves the byte count as it was in memory. These sets are the
behaviours that `IosDriver`, `EspClient` and `VdServer` show call by call; that they
contain all of them is read from the code and not checked by a refinement (see
[plan](#plan)).

**`IosOpcodes`.** One action per opcode and byte, with the counter, `diskErr` and the
segment buffer of the code; `Sought` is the seek before the first byte. A handler is
one step, since the Z80 stands in a wait state. `SerialRead`, `IntAck`, `SerialEvent` and
`Systick` share `INT_`. Numbers have a width: `ByteMod` and `CntMod`.

**`IosBoot`.** The places of `setup()`. The two tries of `mountSD` and of `openSD` after a
key are kept, with the results nobody looks at. `ram` is what `loadByteToRAM` has written
from the start address on; its length is the register HL.

**`IosFirmware`.** The program of the Z80 is any that keeps to what the comments of the
opcodes ask: ERRDISK after SELDISK, SELTRACK or SELSECT before a transfer, interrupts
off during a call, SYSIRQ in the interrupt routine. It may cut a sector short or go on behind
its end. `Lose` takes WiFi, the connection or the server's selection away, `Regain`
brings a connection back, `Notice` is the flag `loop()` of the ESP8266 keeps. A reset
of the AVR is a fault.

**`Rcpmfs`, `EmulatedDisk`.** A disk is its directory, the name map, the buffered
sectors and the files of the host; each function of `drvrcpm.c` that changes one is an
operator. `WriteDirectory` applies `Chgdir` to each changed entry and flushes.
`EmulatedDisk` lets CP/M make, open, append to, rewrite, close, abandon, erase and
rename files. `files` is what CP/M's programs have written; the properties compare it
with what is read through the sectors and with the host.

## Runs

| run | module / cfg | checks | distinct states |
|---|---|---|---|
| `damaged` | `MCVdTransfer` / `damaged.cfg` | `TransferInv`, `ReadExact`, `WriteExact`, `LockStep`, `AnswersThisCommand`, `IsSectorDisk` | 0.6 million |
| `disks` | `MCVdTransfer` / `disks.cfg` | `TransferInv`, `ReadExact`, `IsSectorDisk` | 1.1 million |
| `chaos` | `MCVdSystem` / `chaos.cfg` | `TypeOK`, `Termination` | 0.14 million |
| `session` | `MCServerSession` / `session.cfg` | `SelectionCoherent`, `OnlySelectedChanges` | 0.83 million |
| `threads` | `MCServerThreads` / `threads.cfg` | `NewestKept`, `HandlersJoined`, `OrderEnds` | 0.1 million |
| `debug` | `MCDebugChannel` / `debug.cfg` | `WorkedAtMostOnce`, `KeySent` | 0.37 million |
| `opcodes` | `MCIosFirmware` / `opcodes.cfg` | `SectorsInv`, `SectorRead`, `SectorWritten`, `OnlyThisSector` | 2.2 million |
| `boot` | `MCIosFirmware` / `boot.cfg` | `LoadedExact`, `RxServed`, `TickServed`, `BootRuns` | 0.16 million |
| `rcpmfs` | `MCEmulatedDisk` / `rcpmfs.cfg` | `FilesInv`, `FilesRead`, `FilesListed`, `HostKept`, `OthersKept` | 0.43 million |

* `damaged`: sectors of two segments on a file that ends after its first sector, up
  to two faults among damaged payloads, damaged data packets and resets, and sectors
  cut short whenever the code allows it. Reads and writes that report success are
  exact, packets on both links are never mixed up, and the system implements
  `SectorDisk`. This is the run that exercises retries across segments.
* `disks`: no faults, but a plain file, an emulated disk and a missing one,
  selected, read and written in any order. Nothing of one disk shows in another.
* `chaos`: every kind of damage (also to offsets and command bytes), late answers
  and stalls. Nothing can be said about data, but every operation ends, and every
  index stays in its buffer.
* `session`: the server with a client that sends any request in any order, as after
  a restart of one side. The open stream and drive belong to the selected name, and
  only the selected disk changes.
* `threads`: three connections, accepted at any time on any free descriptor, with
  handlers that end by themselves, are told to close or are shut down. The newest
  is never told to close; after 'Q' every handler ends and `main()` joins them all, which
  is not yet the end of the server, since it joins the debug threads then; and an order
  to close is obeyed if none is given after it and no handler is still taking an earlier
  one back.
* `debug`: three debug connections on two descriptors, each key pressed up to twice, the
  end at any time, spurious wake-ups. A key that is pressed while no connection waits
  to be closed is sent, and none works the buttons twice.
* `opcodes`: every sequence of the disk opcodes a program may call, byte by byte, on
  a disk and a number without a file, with a legal and an illegal track and two writes,
  the first of which may be cut short or given up; a call that gives up or a reset, and the
  loss of the server with its selection, at any moment. Reads without an error deliver the sector that was set, and
  nothing else is ever written.
* `boot`: from the wait for the WiFi-VirtDisk, with ESC and the key retries, to a
  program that enables and serves interrupts; a failing call and a lost connection at
  any moment. The program is started in the end and is complete if nothing
  disturbed its load; receive and tick interrupts are not lost.
* `rcpmfs`: two files, one of user 1, on a disk of four blocks: written over two
  extents, rewritten, erased, renamed, given up; the disk selected again between
  files or the server killed between requests. CP/M reads what it has written, the host has what CP/M has
  closed and no other file changes. `CHECK_DEADLOCK FALSE`: the programs stop at the bounds.

The other three runs each show a disagreement with a comment of the repository; they
are under [disagreements](#disagreements).

The properties, and why they are worth a run:

* `ReadExact`, `WriteExact` - end to end, from the bytes the Z80 gets to the image
  on the server, across three buffers and two retry loops.
* `TransferInv` - says of every moment of a command what the AVR may count on: the chunks
  it has, those the ESP8266 has buffered or collected and the position of the server are of
  one place of one disk. A retry finds what its first try left behind.
* `LockStep` - relates the two queues to the place of the ESP8266; TCP packets
  cannot be told apart, so everything rests on there being one.
* `AnswersThisCommand` - relates a register the AVR reads to the interrupt, the main
  loop and the packet in the ESP8266's memory.
* `IsSectorDisk` - adds to the invariants what happens *between*: no write takes
  effect after its operation has reported, none takes half a sector, none
  happens unasked, the disk in use is never another than the one selected last.
* `Termination` - the retry loops count in different ways and one of them gives up on
  a different comparison; together with forgotten packets and a status that stays
  busy they still end.
* `SelectionCoherent`, `OnlySelectedChanges` - two kinds of open files live side by
  side, and the selection changes without closing the other kind.
* `NewestKept` - orders to close are given by descriptor and stay behind when their
  addressee has ended by itself; descriptors come again. That a stale order never
  hits the newest connection depends on the order of two tests and assignments.
* `WorkedAtMostOnce`, `KeySent` - one flag and one wait set serve keys, orders and the
  shutdown, two of which set the flag without the mutex; that a key is not lost rests on
  the mutex around flag and command, that it is not sent twice on the command byte.
* `SectorRead`, `SectorWritten`, `OnlyThisSector` - relate what a program has set over
  several calls to the counter, the buffers and the position three processors away,
  after transfers cut short at any byte and selections that were lost.
* `SectorsInv` - the same for the layer above: the numbers the AVR keeps against those the
  program has given, `diskErr` against the opcodes that overwrite it, the counter against
  the bytes moved, the segment buffer and the unsent segments against the sector.
* `LoadedExact`, `BootRuns` - eight retry loops whose results are partly ignored.
* `RxServed`, `TickServed` - each of the two interrupts takes back the line of the other.
* `FilesRead`, `HostKept`, `OthersKept` - the data of a file come before the directory
  entry that says whose they are, blocks change hands, and the host must be right at
  every moment since the server may be killed.
* `FilesListed` - the directory is made up again at each open, from what is on the host at
  that moment: no file may be missing from it, and none that was erased or renamed come back.
* `FilesInv` - says of every moment what belongs together: the directory of CP/M, the name
  map, the sectors kept aside and the files of the host, also between two entries of a
  file that is erased or renamed.
* `HandlersJoined`, `OrderEnds` - handlers leave for three reasons, one of which is
  an order that another handler may take back.

Each property of a passing run has a mutant in `PROJECT.json`: a slip in the code,
written next to the definition it would change (`KeepBuffer`, `WriteStartKept`,
`CallAndForget`, ...), under which TLC finds the property violated.

## Bounds

* *Segments 1 or 2.* Two is the least number at which a sector has a segment that is
  not its last: RD_NEXT in the middle and at the end, WR_NEXT that collects and WR_NEXT
  that sends, buffer positions other than 0. Sixteen repeat the middle.
* *Two sectors, one content to write.* Enough for a read or write at a wrong place
  to show. Each chunk of the initial images is distinct, as is each written chunk.
* *`ShortImages`*: the file has one sector of two, so reads behind its end, short
  reads and writes that grow it happen.
* *`MaxAttempts` 1 or 2* (the code: 4). Two retries show a repeated retry. `chaos`
  takes 1: one retry, its failure and the end of the call are all there.
* *`MaxFaults` 1 or 2.* Damage, late answers, stalls and resets draw from one
  budget; two of them can hit one command and its retry. `Abandon` is free.
* *`Window` 2*: a receive buffer with room for two packets (1072 bytes); the
  difference between one and two is what `LockStep` is about.
* *`MaxPos` (session)*: the client stops reading and writing behind it, so that
  positions stay finite; seeks still reach every offset.
* *`MaxConnections` 3 on three descriptors* (`threads`): the least number at which an
  order is overwritten by the next; fewer descriptors are in use whenever a handler has
  ended, so they come again.
* `debug`: two descriptors for three connections, so that one comes again; two
  presses of each key, so that one overwrites another of either kind.
* `opcodes`, `boot`: two segments of two bytes make a sector (first, middle and last
  byte of the first and of another segment); `ByteMod` 2 makes a track number two bytes;
  the boot program ends with a segment that is not full. `MaxFaults` 1, `MaxDrops` 1: one
  call that gives up or one reset, and one loss, in any order.
* `opcodes`: the program sets track 1, the second sector of the disk, or 2, which is none;
  before it sets one the AVR stands at track 0, the first sector. A sector number that is
  none takes the same branch as a track that is none, and a disk number that is none fails
  like one without a file; both are left to the theorems.
  `MaxWrites` 2, so that a write can follow one that was cut short: with one, segments that
  stay unsent harm nobody. `Losses` is the restart of the server only: a disk call
  sees the loss of the WiFi or of the connection as no answer, as here, and the
  selection is lost as well; `boot` has the others.
* `boot`: `Losses` leaves the restart of the server out: its selection is not used after
  the load, and a load it disturbs is excepted.
* `rcpmfs`: entries of two blocks, sectors of two records, record counts up to two:
  an entry has two logical extents as in the code (an extent mask of 1), a file needs a
  second entry with its fifth record. Three records are written (`MaxRecords`; four with one
  open pass as well), the disk is opened once more (`MaxOpens`: what is
  opened again is a host as programs leave it, and the theorems know no bound), the host starts
  empty or with one of the files. Directory sectors have two entries of four.
* The runs have no state constraint; the models are finite under these constants.
* Damage is to one byte. A byte whose change leaves the sum right needs a second
  damaged byte and is not modelled; the status packet has no checksum at all and is
  left undamaged, since no property can hold without it.

## Fairness

`FairSpec` gives weak fairness to three processes: the AVR once an operation runs
(`IosRun`), the ESP8266 (`Esp`) and the server (`Server`). The AVR's calls are
loops without waits for others except through the polled status; `loop()` of the ESP8266
is called again and again by the Arduino core; the server's handler blocks in `recv` and
is woken by a request. Nothing makes the Z80 start an operation, cut one
short, or makes anybody press a reset button; no fault is made to happen. Answers
are not made to arrive: `EspTimeout` is enabled when none will come.
`Termination` needs no more than this.

`FairThreadsSpec` gives weak fairness to the end of `main()` (`Finishing`) and to each
handler on its own (`HandlerGoesOn`), which the operating system's scheduler justifies:
nothing in them waits for another but the joins and the time-out of `Receive`.
`JoinDebug` is left out on purpose: it waits for threads that may sleep for ever, so no
schedule makes it happen, and the properties claim nothing of what comes after it. What
clients do (`Accept`, `ClientSpeaks`) and keys are not made to happen.

`DbgFairness`: weak fairness for what `main()` does by itself and for each debug thread,
strong fairness for `Lock`, because a mutex is given to a thread that asks for it again
and again. No connection, key or spurious wake-up is made to happen.

`FirmwareFairness`: the AVR goes on with its boot and its loop, where serial input and
the tick are looked at again and again (the tick comes every 100 ms); the ESP8266
notices what its connection is; the Z80 ends the call and the interrupt routine it is in,
and takes an interrupt if the line is low again and again (strong fairness: it looks
after every instruction with interrupts enabled, and a program enables them after each
call). The user presses the key `waitKey` asks for (without it the boot stops for
good, which is what the message tells). Starting a call, typing, losing and regaining a
connection are not made to happen; `BootRuns` supposes that the connections stay up from
some time on.

## Proofs

TLAPS checks them all with its SMT, Zenon and temporal backends. They hold for every
value of the constants under the named assumptions of the modules, of which the
ones that matter are: names of plain, emulated and missing files differ
(`NamesAssumption`), `Segments`, `Window` at least 1, images are sequences of chunks.

| theorem | module | says | rests on |
|---|---|---|---|
| `ImplementsSectorDisk` | `VdTransferProofs` | `CleanLinks`, `WholeDisks`, `NoGaps` give `Spec => IsSectorDisk` | `ExactInv`, `GapInv` |
| `ReadExactAlways` | `VdTransferProofs` | `CleanLinks`, `WholeDisks` give `Spec => []ReadExact` | `TransferInvAlways` |
| `WriteExactAlways` | `VdTransferProofs` | `CleanLinks`, `WholeDisks` give `Spec => []WriteExact` | `TransferInvAlways` |
| `TransferInvAlways` | `VdTransferProofs` | `CleanLinks`, `WholeDisks` give `Spec => []TransferInv` | `ExactInv` |
| `SectorReadAlways` | `IosFirmwareProofs` | `FilesOK` gives `FirmwareSpec => []SectorRead` | `SectorInvAlways` |
| `SectorWrittenAlways` | `IosFirmwareProofs` | `FilesOK`, `FullDisks` give `FirmwareSpec => []SectorWritten` | `SectorInvAlways` |
| `OnlyThisSectorAlways` | `IosFirmwareProofs` | `FilesOK`, `FullDisks` give `FirmwareSpec => OnlyThisSector` | `SectorInvAlways` |
| `SectorInvAlways` | `IosFirmwareProofs` | `FilesOK` gives `FirmwareSpec => []SectorsInv` | inductive as it stands |
| `LoadedExactAlways` | `IosFirmwareProofs` | `FilesOK`, `FullDisks`, `BootFileOK` give `FirmwareSpec => LoadedExact` | `SectorInv`, `LoadInv` |
| `FilesInvAlways` | `EmulatedDiskProofs` | `HostOK`, `UsersApart`, `~ErasesBuffered` give `DiskSpec => []FilesInv` | inductive as it stands |
| `HostKeptAlways` | `EmulatedDiskProofs` | the same give `DiskSpec => []HostKept` | `FilesInvAlways` |
| `FilesReadAlways` | `EmulatedDiskProofs` | the same give `DiskSpec => []FilesRead` | `FilesInvAlways` |
| `OthersKeptAlways` | `EmulatedDiskProofs` | the same give `DiskSpec => OthersKept` | `FilesInvAlways` |
| `AnswersThisCommandAlways` | `VdSystemProofs` | `~Stall` gives `Spec => []AnswersThisCommand` | `AnswerInv` |
| `LockStepAlways` | `VdSystemProofs` | `~TcpLate` gives `Spec => []LockStep` | inductive with `TypeInv` |
| `NewestAlwaysKept` | `ServerThreadsProofs` | `ThreadsSpec => []NewestKept` | `ThreadsInv` |
| `TypeCorrect` | `VdSystemProofs` | `Spec => []TypeOK` | `TypeInv` |
| `SelectionAlwaysCoherent` | `ServerSessionProofs` | `SessionSpec => []SelectionCoherent` | inductive as it stands |
| `OnlySelectedDiskChanges` | `ServerSessionProofs` | `SessionSpec => OnlySelectedChanges` | the one above, and types |
| `KeysWorkAtMostOnce` | `DebugChannelProofs` | `DbgSpec => []WorkedAtMostOnce` | `CountsInv` |
| `SessionTypeCorrect` | `ServerSessionProofs` | `SessionSpec => []SessionTypeOK` | lemmas on images |

*Types.* `TypeOK` is not inductive: that `bufferSD[...]` or `req.content[...]` is
used within its domain depends on the call the AVR is in. `StageFits` says which
stage belongs to which operation and keeps the segment below `Segments` where one
is transferred; the packet after it is an ordinary lemma (`PacketType`), as is what
damage makes of it (`DamagedType`). `WaitFits` says for which commands the ESP8266
waits, without which `AfterWait` has no case.

*Lock step.* Inductive given the types: a request is sent only from `loop`, where
both queues are empty; the server turns one request into at most one answer; and
without late answers the wait ends only when the answer is taken or nothing is under
way.

*Answers.* The invariant `AnswersThisCommand` speaks of the AVR at `poll` only. That
its next packet cannot run into a command still being processed needs `AnswerInv`: while
the AVR is about to send, the ESP8266 is `Quiet` (it has set its status already, or waits
for a packet); while a command is processed, the copy being processed is the packet last
sent. The hypothesis `~Stall` is used in two places, after a reset and at the last
poll.

*The sector disk.* That a read or write is exact depends on what happened many packets ago,
so `TransferInv` says it packet by packet. `Before` and `After` are what holds before
a command is carried out and what its success means, for each of the six commands;
`During` is what holds while the ESP8266 waits for the server, and `Answered` that a status
that is not busy tells the truth: READY without an error means `After`, anything else
that `Before` still holds, so the command can be sent again. A success turns
`After` of one command into `Before` of the next. `SelectedInv` keeps name, stream and drive
at the disk in use from one operation to the next. `WriteInv` speaks of
writes the AVR has given up: a sector the ESP8266 or the link still holds is that of the
operation and goes to its place even if the AVR was reset meanwhile. `TransferInv` is not
inductive alone; `ExactInv` joins the types, `LockStep` (the answer in the queue is that of
the request) and `AnswerInv` (the status is that of the command).

For the refinement each step of `ExactInv /\ Next` is a stutter or a step of `SectorDisk`: the
start of an operation is `Ask`, the server's write of a collected sector is `Commit`, the end of an operation `Succeed` or
`Refuse`, a reset `Restart`. `GapInv` is needed there only: images never get shorter.

The hypotheses leave out what the code does wrong, not what is hard to prove: without
them the properties are false of it. `CleanLinks`: a late answer or a stall of
`loop()` lets the next command take the answer of the last; a damaged offset or
command byte stores a chunk elsewhere or drops the buffer; the retry of a damaged select
sends the empty name (run `select_damaged`; see [disagreements](#disagreements)). `WholeDisks`: an emulated disk whose
read fails answers OK with the bytes of the sector before. `NoGaps`: a write behind the end
of a file makes the sectors in between appear as zeros, so it changes more than one
sector; the refinement, which knows sectors only, would not allow it. `MCVdTransfer` has TLC
evaluate all three for the constants of `damaged` and `disks`: both runs are
instances of the theorems.

*Sectors, byte by byte.* `SectorInv` has four parts. `TransferTypes`. `SettingInv`: `trackSel` and
`sectSel` are the program's numbers except in the middle of SELTRACK or SELSECT; if
the program has placed and `diskErr` is 0 the place is legal; if it has confirmed a disk,
the server's file is that disk's or the server has been started again. The program's
rules (ERRDISK after SELDISK, a place before a transfer) are used here, and only
here. `ReadInv`: `ioByteCnt` counts the bytes moved, and the position of the server and `bufferSD`
are those of that byte (`Brought`), which is different at a segment's first byte
and within it. `WriteInv`: the same for the unsent segments and the part of `bufferSD` that is
filled (`Unsent`), and that a call without a loss has its file open. The invariant does not
ask anything of what another transfer has left behind: the seek before the
first byte sets all of it, and a mutant whose seek keeps the unsent segments
(`SeekKeepsUnsent`) breaks it.

`FilesOK` says that files are sequences of segments of bytes. `FullDisks` says that a disk
image has all the sectors the opcodes can reach: "the range [0..16383] ... where 512 is
the number of emulated tracks, 32 is the number of emulated sectors" (`IOS/*.ino:2857`). A write
behind the end of a shorter file would put zeros before it, and `OnlyThisSector` would not
hold; `SectorReadAlways` needs no such hypothesis. `MCIosFirmware` has TLC evaluate both.

*The newest connection.* `NewestKept` speaks of a handler that has been told. That it
never is needs `OrderSparesNewest`: `oldTcpClient` is the descriptor of the newest handler,
and an order that is still standing names another. A new connection on
the descriptor a stale order names is spared because accepting it gives a new order,
to the connection before; one on the descriptor of the connection before, because the order
standing then named another already.

*Keys.* `WorkedAtMostOnce` does not know that a key which stands in `gDbgCmd` was pressed
once more than it arrived. `PressesCover` adds it: worked, on its way and standing together
are at most the presses. A press may lose the command before it, and a new connection
what was on the old one; both only lower the left side.

*The boot program.* `LoadInv` says of a load that nothing has disturbed: the memory has
the segments of the boot file before the position of the server, and those only. Until the
load begins the memory is empty. A read that fails waits for a key and is tried again, and
the load counts as disturbed from then on (`calm`): that is the finding of `boot_retry`. That the
boot file stays as it is follows from `SectorInv`, since WRITESECT changes disks only.
`BootFileOK` says what a boot file is: a plain file that is none of the disks, read in full
segments up to the last.

*The emulated disk.* Its state is four things that say the same: the directory CP/M writes,
the name map, the buffered sectors, the files of the host. They are never changed
together, so `FilesInv` says of each moment what is still to come.

* `JobInv`, `NamesInv`: an erase or a rename goes through the entries in the order of the
  directory. `Gone` is the file that is being erased; `Present` has a file under its old
  name until the rename has come to its first entry; afterwards the entries not yet
  reached have the old name in the directory and the new one in the name map.
* `FcbInv`: the file in hand and its entry differ by the records written since the entry
  was, and those are in `touched`.
* `StructInv`: no block and no extent of a file is in the directory twice, and the entries
  of a file are those of a file of its length (`EntryFits`). Without it a
  sector would belong to two files, and `Chgdir` could not tell whose it is.
* `ContentInv`: a record that is buffered is right there, any other is right on the host
  *and* in the directory rcpmfs has been told of; a file that nobody writes any more has
  nothing buffered. The last is what lets blocks change hands.
* `HostInv`: the host has each file, the one in hand as far as its records have an owner.
* `Wrong` are the files listed with a wrong length (see [disagreements](#disagreements)): what
  CP/M reads of them is left open, but the host keeps them as they are.

The proof follows the code from the inside: a flushed sector (`FlushOne`), the loop over
all of them (`FlushSettles`: it ends with every sector that has an owner on the host), a
directory entry (`WriteDirentIs`, `ShortenIs`, `NameChangedIs`), the listing of the host at an
open (`ListStep`, `OpenedIs`), and then one lemma per action. `HostOK`: the host has
files with CP/M's names. `UsersApart` and `~ErasesBuffered` leave out what the code does
wrong: a file of user 0 is shortened when one of user 1 with its name is erased, and
an erase with a buffered sector creates the file again (run `rcpmfs_erased`). `MCEmulatedDisk` has TLC evaluate
the hypotheses for `rcpmfs`.

*Loops.* The loops of rcpmfs and of the boot are recursive functions. What they
compute is proved with `Induct`: a set of numbers that has 0 and the next of each of its
elements has them all. It follows from the well-foundedness of `<`, by the least number
not in the set, and needs no operator as a parameter as the library's induction does.

Only model-checked: `FilesListed`, which is not true of every host, since one with
more files than the directory has entries cannot be listed in full; and, since liveness
under fairness is beyond the prover, `Termination`, `HandlersJoined`, `OrderEnds`, `KeySent`,
`RxServed`, `TickServed` and `BootRuns`. The three findings are TLC's as well.

## Disagreements

| run | the code | what is said of it |
|---|---|---|
| `select_damaged` | a retry of `vd_open` sends the empty name and succeeds | "Checksum error, try again" (`IOS/virtDisk.cpp:283`) |
| `boot_retry` | a boot program that is read again after an error is appended to what was loaded; HL is not set back | "repeat until error disappears", "Reset the sector pointer" (`IOS/*.ino:959`, `976`) |
| `rcpmfs_erased` | erasing a file of two extents with a buffered sector creates it again | "if extent zero is zapped, the whole file is assumed to have gone" (`Server/libdsk/drvrcpm.c:1921`) |

More are in the models without a run of their own.

* The status of the server's answer to a select is not passed on (`EspSelect`): a disk
  without a file is selected without an error. `IOS/*.ino:2893` lists `NO_FILE`, "Could
  not find the file." for `openSD()`.
* A damaged chunk is stored before its checksum is looked at (`EspWrite`); a damaged
  offset overwrites a chunk that was acknowledged. `doc/Protocol definitions.md:164`:
  "Slave checks checksum, processes the command, and sets status."
* A damaged seek drops the buffered sector all the same (`EspSeek`), and so does any
  packet that damage turns into one.
* An answer after 250 ms answers the next request (`EspTimeout`), where `:238` says
  "Server processes the command and sends a response packet back."
* The status of an old command acknowledges a new one after a stall of `loop()`
  (`EspSetStatus`, `EspClear`), where `:176` says "The slave remains "Busy" until the
  command is processed."
* A second reconnect overwrites the order to close the first connection (`MarkOld`), which
  stays: "Set the socket to close" (`Server/WiFi-VirtDisk-Server.cpp:411`).
* The debug threads may not end at shutdown (`JoinReady`, `JoinNotify`): one that has seen
  the flag down and goes to sleep after `notify_one` is never woken, and `main()` joins it
  for ever behind "Waiting for all debug client threads to stop." (`:563`).
* A failed `dsk_lread` is answered with OK and old bytes, where
  `doc/Protocol definitions.md:249` says "Error codes are returned in the status field".
* At shutdown the drive is closed before the handlers are joined, and a request processed
  in between opens it again (`CloseDrive`, `Process`).
* A read that gets no answer at the start of a sector returns no bytes and no error
  (`NextSegment`); the boot loader takes that for the end of the file and starts what it has
  (`LoadSegment`).
* A file whose last entry has exactly 128 or 256 records is listed with another length
  than it has (`MadeEntry`, `drvrcpm.c:1196-1220`).
* An erased entry of a later extent has lost its user number, so a file of user 0 with the
  same name is made shorter (`Chgdir`, `drvrcpm.c:1929`).
* Sectors that belong to no file, or in part, are buffered until the directory says
  whose they are; selecting another disk drops them (`Select`), and the next open numbers
  the blocks anew.

These are why the passing runs have the constants and environments they have: `damaged`
leaves the damage of selects, offsets and command bytes out, and late answers and stalls
are off there (`chaos` has them all). `LoadedExact` and `SectorWritten` speak of
undisturbed loads and writes. `EmulatedDisk` keeps to these restrictions: the BDOS
writes one directory entry at a time, in the order of the directory; the disk is selected
again only when no file is in hand; files that were listed with a wrong length are not
written; a file is renamed only if the entry of its first extent comes first; there is no
file of user 0 with the name of one of user 1; `ErasesBuffered` is off in `rcpmfs`.

## Left out

* In `VdSystem` the connection stays up; what its loss does to calls is in `IosFirmware`.
  Joining the WiFi network is external.
* That `recv` can join or split packets; requests and answers stay whole. With one request
  under way (`LockStep`) none can be joined to another.
* What two handlers do to the data when they race: `VdSystem` and `ServerSession` have
  one handler, and `ServerThreads` keeps only which files are open.
* Of the IOS firmware: the opcodes for LED, serial output, GPIO, banked RAM, RTC, SPP,
  options, SDMOUNT; the boot from flash; the name of the OS, which is read from a file
  of its own before the boot (`printOsName`); the menu.
* Of rcpmfs: the boot tracks, the directory label, time stamps and attributes, files
  that are not whole records, names that are not CP/M's, the ini file of a disk, and errors
  of the host's file system. `VdServer` models whole-sector reads and writes of a drive.
* Memory behind a buffer: where the code would write past `bufferSD` the model
  stores a damaged chunk.
* The rest of libdsk and cpmtools, PetitFS and the SD card, SimpleIni, argparse, the
  set-up portal, message output, the tests. They are most of the lines of the repository,
  come from elsewhere, and are not reached by a disk operation of the Z80 (or, as the SD
  card, are the alternative to it). The modules cover the code between the Z80 and the
  files of the host.

## Plan

1. `IosDriver` with `EspClient` and `VdServer` as a refinement of the calls of `IosDisk`,
   by a mapping that takes a call as one step at its end; `TransferInv` has most of what it
   needs.
2. The end of the TCP connection in `VdSystem`, with the answers that go with it, and
   packets that `recv` splits.
3. `FilesListed` as a theorem, with the hypothesis that the files fit in the directory
   and on the disk after every rewrite; `ListedRight` has what it needs of one open.
