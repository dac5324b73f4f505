----------------------------- MODULE VdTransfer -----------------------------
(***************************************************************************)
(* Why a read returns what the disk holds and a write puts there what the  *)
(* Z80 wrote: the chunks the AVR counts, those the ESP8266 has buffered    *)
(* and the position of the server agree before and after every command.    *)
(* TransferInv says so; the module VdTransferProofs proves it.             *)
(***************************************************************************)
EXTENDS VdSystem

(* The links of the theorems below: no reply is later than it is waited    *)
(* for, loop() is never held up, and what is damaged on the SPI bus is the *)
(* payload or the checksum, of a command other than SEL_FILE, whose retry  *)
(* sends an empty name.                                                    *)
CleanLinks ==
  /\ ~TcpLate
  /\ ~Stall
  /\ Corruptions \subseteq {"payload", "data"}
  /\ "SEL_FILE" \notin Corruptible

(* Emulated disks open, and have all the sectors the Z80 uses.             *)
WholeDisks ==
  /\ Drives = Emulated
  /\ \A img \in Images, d \in Emulated, s \in Sectors :
       SectorStartOf(s) + BufLen <= Len(img[d])

(* No write leaves a gap: every disk reaches to the sectors the Z80 uses.  *)
NoGaps ==
  \A img \in Images, d \in Stored, s \in Sectors : SectorStartOf(s) <= Len(img[d])
-----------------------------------------------------------------------------
(* The place of the operation on its disk, and what is there.              *)
Home == SectorStartOf(req.sector)
Wanted == ReadAt(image[req.disk], Home)
Found == CountAt(image[req.disk], Home)

(* The server has d selected, and open if there is such a disk.            *)
ServerHas(d) ==
  /\ filename = d
  /\ d \in Emulated => drive = d
  /\ d \in Files => stream = d
  /\ d \in Missing => stream = NoName

(* The server will read or write at the place of the operation.            *)
ServerAt ==
  /\ req.disk \in Stored
  /\ IF req.disk \in Emulated THEN filePos = Home
     ELSE streamPos = Home /\ ~streamFail

(* The ESP8266 has the sector, of which the AVR has g segments.            *)
Buffered(g) ==
  /\ vdData.dataLen = Found
  /\ vdData.data = Wanted
  /\ vdData.filePos = SegmentLen * g
  /\ SegmentLen * g < Found
  /\ Found < BufLen => req.disk \notin Emulated /\ streamFail

(* The file has ended: another read will bring nothing.                    *)
Exhausted ==
  /\ vdData.dataLen = 0
  /\ req.disk \notin Emulated
  /\ streamFail

(* The AVR has g segments and has made k attempts at another's chunks.     *)
Got(g, k) ==
  /\ SegmentLen * g <= Found
  /\ \A i \in 1 .. SegmentLen * g : bufferSD[i] = Wanted[i]
  /\ dataLen <= k
  /\ dataLen = k =>
       /\ SegmentLen * g + k <= Found
       /\ \A i \in 1 .. SegmentLen * g + k : bufferSD[i] = Wanted[i]

(* The ESP8266 has collected g segments and k chunks of what is written.   *)
Collected(g, k) ==
  /\ vdData.dataLen = SegmentLen * g
  /\ g + k > 0 => /\ vdData.filePos = SegmentLen * g
                  /\ vd.cmd = "WR_FILE"
                  /\ vd.filename = req.disk
  /\ \A i \in 1 .. SegmentLen * g + k : vdData.data[i] = req.content[i]

OnDisk ==
  /\ req.disk \in Stored
  /\ SectorOf(image[req.disk], req.sector) = req.content
-----------------------------------------------------------------------------
(* What holds before the command of the current call is carried out ...    *)
Before ==
  /\ stage = "RD_FILE" =>
       /\ req.disk \in Stored
       /\ Got(seg, offset)
       /\ \/ ServerAt /\ vdData.dataLen = 0 /\ seg = 0 /\ offset = 0
          \/ Buffered(seg)
          \/ Exhausted /\ dataLen = 0
  /\ stage = "RD_NEXT" =>
       /\ req.disk \in Stored
       /\ Got(seg, SegmentLen)
       /\ dataLen = 0 \/ Buffered(seg)
       /\ Buffered(seg) \/ Exhausted
  /\ stage = "WR_FILE" =>
       /\ ServerAt
       /\ Collected(seg, offset)
       /\ dataLen = offset
  /\ stage = "WR_NEXT" =>
       IF seg < Segments
       THEN ServerAt /\ Collected(seg, SegmentLen) /\ dataLen = SegmentLen
       ELSE OnDisk /\ vdData.filePos = 0 /\ dataLen = 0

(* ... and after it; n is the length the AVR is told.                      *)
After(n) ==
  /\ stage = "SEL_FILE" => ServerHas(req.disk) /\ vdData.filename = req.disk
  /\ stage = "SEEK_FILE" => ServerAt /\ vdData.dataLen = 0
  /\ stage = "RD_FILE" =>
       /\ req.disk \in Stored
       /\ n = spiOut.len
       /\ Got(seg, offset)
       /\ \/ /\ Buffered(seg)
             /\ n = 1 => /\ SegmentLen * seg + offset < Found
                         /\ spiOut.chunk = Wanted[SegmentLen * seg + offset + 1]
          \/ Exhausted /\ dataLen = 0 /\ n = 0
  /\ stage = "RD_NEXT" =>
       /\ req.disk \in Stored
       /\ Got(seg, SegmentLen)
       /\ dataLen = SegmentLen /\ seg + 1 < Segments =>
            Buffered(seg + 1) \/ Exhausted
  /\ stage = "WR_FILE" =>
       /\ ServerAt
       /\ Collected(seg, offset + 1)
       /\ dataLen = offset
  /\ stage = "WR_NEXT" =>
       IF seg + 1 < Segments
       THEN ServerAt /\ Collected(seg + 1, 0)
       ELSE OnDisk /\ vdData.filePos = 0

(* What the status st, which is not busy, tells the AVR is true.           *)
Answered(st) ==
  /\ stage = "SEL_FILE" => st.status = "READY"
  /\ IF st.status = "READY" /\ st.cmd_status = 0 THEN After(st.cmd_data)
     ELSE Before

(* The request on the way to the server is the one the command needs.      *)
RequestIs(cmd) ==
  /\ Request.cmd = cmd
  /\ Request.filename = req.disk

(* While the answer to the command of the current call is waited for.      *)
During ==
  /\ stage = "SEL_FILE" =>
       /\ vdData.filename = req.disk
       /\ c2s # <<>> => RequestIs("SEL_FILE")
       /\ c2s = <<>> => s2c # <<>> /\ ServerHas(req.disk)
  /\ stage = "SEEK_FILE" =>
       /\ vdData.dataLen = 0
       /\ c2s # <<>> => RequestIs("SEEK_FILE") /\ Request.fileOffset = Home
       /\ s2c # <<>> => ServerAt
  /\ stage = "RD_FILE" =>
       /\ req.disk \in Stored
       /\ vdData.dataLen = 0
       /\ dataLen = 0
       /\ Got(seg, offset)
       /\ c2s # <<>> =>
            /\ RequestIs("RD_FILE")
            /\ (ServerAt /\ seg = 0 /\ offset = 0) \/ Exhausted
       /\ c2s = <<>> =>
            /\ s2c # <<>>
            /\ Head(s2c).status = "OK"
            /\ \/ /\ seg = 0
                  /\ offset = 0
                  /\ Head(s2c).dataLen = Found
                  /\ Head(s2c).data = Wanted
                  /\ Found < BufLen => Exhausted
               \/ Head(s2c).dataLen = 0 /\ Exhausted
  /\ stage = "WR_NEXT" =>
       /\ seg + 1 = Segments
       /\ vdData.filePos = 0
       /\ c2s # <<>> => RequestIs("WR_FILE") /\ ServerAt /\ Request.data = req.content
       /\ c2s = <<>> => s2c # <<>> /\ OnDisk
  /\ stage \in {"SEL_FILE", "SEEK_FILE", "RD_FILE", "WR_NEXT"}

(* The packet of the current call as it was sent, if it was not damaged.   *)
Sent ==
  /\ spiBuf.cmd = stage
  /\ spiBuf.valid \/ stage # "SEL_FILE"
  /\ stage = "SEL_FILE" => spiBuf.filename = req.disk
  /\ stage = "SEEK_FILE" => spiBuf.fileOffset = Home
  /\ stage \in {"RD_FILE", "WR_FILE"} => spiBuf.offset = offset /\ spiBuf.len = 1
  /\ stage = "WR_FILE" /\ spiBuf.valid =>
       spiBuf.chunk = req.content[SegmentLen * seg + offset + 1]
  /\ stage \in {"RD_NEXT", "WR_NEXT"} => spiBuf.len = dataLen
-----------------------------------------------------------------------------
(* The part of the AVR.                                                    *)
CallInv ==
  /\ iosPc # "idle" <=> diskErr = "PENDING"
  /\ diskErr = "RESET" => curDisk = NoName
  /\ iosPc # "idle" /\ stage = "SEL_FILE" => curDisk = NoName /\ req.kind = "select"
  /\ iosPc # "idle" /\ stage # "SEL_FILE" => curDisk = req.disk
  /\ iosPc = "send" /\ stage = "SEL_FILE" => ~pathSent
  /\ stage \in {"RD_FILE", "RD_NEXT"} => req.kind = "read"
  /\ stage = "RD_NEXT" => seg < Segments
  /\ stage \in {"SEL_FILE", "SEEK_FILE", "RD_NEXT", "WR_NEXT"} => offset = 0

(* The disk in use is the one the ESP8266 and the server have selected.    *)
SelectedInv ==
  curDisk # NoName => ServerHas(curDisk) /\ vdData.filename = curDisk

(* How far the command of the current call has got.                        *)
CommandInv ==
  /\ vdStatus.status # "BUSY"
  /\ iosPc \in {"send", "expired"} => Before
  /\ iosPc = "data" => After(cmdData)
  /\ iosPc = "poll" =>
       /\ Sent
       /\ espPc \in {"loop", "clear"} /\ spiStatus.status = "BUSY" => Before
       /\ espPc = "wait" => During
       /\ espPc = "ack" => Answered(vdStatus)
       /\ spiStatus.status # "BUSY" => Answered(spiStatus)

(* A write that has got as far as the ESP8266 goes to its place even after *)
(* the AVR was reset: nothing else can be written.                         *)
Writable ==
  /\ req.kind = "write"
  /\ ServerAt
  /\ ServerHas(req.disk)

WriteInv ==
  /\ /\ espPc = "loop" /\ spiDataRcvd
     /\ spiBuf.cmd = "WR_NEXT" /\ spiBuf.valid
     /\ vdData.filePos + spiBuf.len = BufLen
     => /\ Writable
        /\ vd.cmd = "WR_FILE" /\ vd.filename = req.disk
        /\ vdData.data = req.content
  /\ c2s # <<>> /\ Request.cmd = "WR_FILE" =>
        /\ Writable
        /\ Request.filename = req.disk
        /\ Request.data = req.content

(* The images never get shorter.                                           *)
WholeInv ==
  \A d \in Emulated, s \in Sectors : SectorStartOf(s) + BufLen <= Len(image[d])

(* TransferInv: whatever command is under way, what the AVR has counted,   *)
(* what the ESP8266 has buffered and where the server stands are of one    *)
(* and the same place of one and the same disk (vd_read, vd_write,         *)
(* vdProcessCmd of both sides), and what has been reported is true.        *)
TransferInv ==
  /\ CallInv
  /\ SelectedInv
  /\ CommandInv
  /\ WriteInv
  /\ WholeInv
  /\ ReadExact
  /\ WriteExact
=============================================================================
