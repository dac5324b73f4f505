-------------------------- MODULE VdTransferProofs --------------------------
(***************************************************************************)
(* TransferInv holds where the links are clean and the emulated disks      *)
(* whole.  It is inductive together with the types, the lock step of the   *)
(* TCP connection and the fact that a status answers the command just sent *)
(* (ExactInv).  From it follow the exactness of reads and writes and the   *)
(* refinement of SectorDisk.                                               *)
(*                                                                         *)
(* The parts: what a write does to an image; operators of several          *)
(* processors; the steps of the server, of the AVR, of the ESP8266; the    *)
(* theorems.                                                               *)
(***************************************************************************)
EXTENDS VdTransfer, VdSystemProofs, SequenceTheorems

(* The inductive invariant.                                                *)
ExactInv == TypeInv /\ LockStep /\ AnswerInv /\ TransferInv
-----------------------------------------------------------------------------
(* The sector of a position that is a multiple of the sector size.         *)
LEMMA DivideBack ==
  ASSUME NEW s \in Nat
  PROVE  (s * BufLen) \div BufLen = s
<1> DEFINE b == BufLen
           q == (s * b) \div b
           r == (s * b) % b
<1>1. b \in Nat \ {0}
  BY BufLenType
<1>2. s * b \in Nat
  BY <1>1
<1>3. q \in Nat /\ r \in 0 .. b - 1 /\ s * b = b * q + r
  BY <1>1, <1>2
<1> HIDE DEF b, q, r
<1>4. b * (s - q) = r
  BY <1>1, <1>3
<1>5. CASE s - q >= 1
  BY <1>1, <1>3, <1>4, <1>5
<1>6. CASE s - q <= -1
  BY <1>1, <1>3, <1>4, <1>6
<1>7. s = q
  BY <1>1, <1>3, <1>5, <1>6
<1> QED
  BY <1>7 DEF q, b

(* Two different sectors do not overlap.                                   *)
LEMMA SectorsApart ==
  ASSUME NEW s \in Nat, NEW t \in Nat, s < t
  PROVE  s * BufLen + BufLen <= t * BufLen
<1> DEFINE b == BufLen
           k == t - s - 1
<1>1. b \in Nat /\ k \in Nat
  BY BufLenType
<1>2. t * b = (s * b + b) + k * b
  BY <1>1
<1>3. k * b \in Nat /\ s * b \in Nat /\ t * b \in Nat
  BY <1>1
<1> HIDE DEF b, k
<1>4. s * b + b <= t * b
  BY <1>1, <1>2, <1>3
<1> QED
  BY <1>4 DEF b

(* Positions of sectors are numbers.                                       *)
LEMMA SectorPlace ==
  ASSUME NEW s \in Nat
  PROVE  SectorStartOf(s) \in Nat
BY BufLenType DEF SectorStartOf

(* The chunks of a sector that is there as a whole ...                     *)
LEMMA WholeSector ==
  ASSUME NEW img \in Seq(Chunk), NEW s \in Nat,
         SectorStartOf(s) + BufLen <= Len(img)
  PROVE  SectorOf(img, s) = [i \in 1 .. BufLen |-> img[SectorStartOf(s) + i]]
<1> DEFINE p == SectorStartOf(s)
           b == BufLen
           sub == SubSeq(img, p + 1, p + b)
<1>1. p \in Nat /\ b \in Nat /\ Len(img) \in Nat
  BY SectorPlace, BufLenType
<1>2. SectorOf(img, s) = sub
  BY <1>1 DEF SectorOf, Min2
<1> HIDE DEF p, b
<1>3. p + b <= Len(img)
  BY DEF p, b
<1>4. \A i \in p + 1 .. p + b : img[i] \in Chunk
  BY <1>1, <1>3
<1>5. /\ sub \in Seq(Chunk)
      /\ Len(sub) = b
      /\ \A i \in 1 .. b : sub[i] = img[p + 1 + i - 1]
  <2>1. /\ sub \in Seq(Chunk)
        /\ Len(sub) = IF p + 1 <= p + b THEN (p + b) - (p + 1) + 1 ELSE 0
        /\ \A i \in 1 .. (p + b) - (p + 1) + 1 : sub[i] = img[p + 1 + i - 1]
    <3> HIDE DEF sub
    <3>1. p + 1 \in Int /\ p + b \in Int
      BY <1>1
    <3> QED BY <1>4, <3>1, SubSeqProperties DEF sub
  <2> QED BY <1>1, <2>1
<1>6. sub = [i \in 1 .. b |-> img[p + i]]
  <2>1. sub \in [1 .. b -> Chunk]
    BY <1>5, LenProperties
  <2> HIDE DEF sub
  <2>2. \A i \in 1 .. b : sub[i] = img[p + i]
    BY <1>1, <1>5
  <2> QED BY <2>1, <2>2
<1> QED
  BY <1>2, <1>6 DEF p, b

(* What a write leaves: a longer image, with the new chunks in their place *)
(* and the others where they were.                                         *)
LEMMA WriteAtParts ==
  ASSUME NEW img \in Seq(Chunk), NEW pos \in Nat, NEW buf \in Buffer
  PROVE  /\ WriteAt(img, pos, buf) \in Seq(Chunk)
         /\ Len(WriteAt(img, pos, buf)) = Max2(Len(img), pos + BufLen)
         /\ \A i \in 1 .. BufLen : WriteAt(img, pos, buf)[pos + i] = buf[i]
         /\ \A i \in 1 .. Len(img) :
              i <= pos \/ pos + BufLen < i => WriteAt(img, pos, buf)[i] = img[i]
<1> DEFINE b == BufLen
           n == Max2(Len(img), pos + b)
           w == WriteAt(img, pos, buf)
<1>1. b \in Nat /\ Len(img) \in Nat /\ n \in Nat
  BY BufLenType DEF Max2
<1>2. pos + b <= n /\ Len(img) <= n
  BY <1>1 DEF Max2
<1>3. w \in Seq(Chunk)
  BY WriteAtType
<1>4. w = [i \in 1 .. n |-> IF i > pos /\ i <= pos + b THEN buf[i - pos]
                            ELSE IF i <= Len(img) THEN img[i] ELSE ZeroChunk]
  BY DEF WriteAt
<1> HIDE DEF b, n, w
<1>5. Len(w) = n
  BY <1>1, <1>3, <1>4, LenProperties
<1>6. \A i \in 1 .. b : w[pos + i] = buf[i]
  <2> SUFFICES ASSUME NEW i \in 1 .. b
               PROVE  w[pos + i] = buf[i]
    OBVIOUS
  <2>1. pos + i \in 1 .. n /\ pos + i > pos /\ pos + i <= pos + b
    BY <1>1, <1>2
  <2>2. w[pos + i] = buf[(pos + i) - pos]
    BY <1>4, <2>1
  <2> QED BY <1>1, <2>2
<1>7. \A i \in 1 .. Len(img) : i <= pos \/ pos + b < i => w[i] = img[i]
  BY <1>1, <1>2, <1>4
<1> QED
  BY <1>3, <1>5, <1>6, <1>7 DEF b, n, w

(* The sector that was written holds what was written.                     *)
LEMMA SectorWrittenTo ==
  ASSUME NEW img \in Seq(Chunk), NEW s \in Nat, NEW buf \in Buffer
  PROVE  SectorOf(WriteAt(img, SectorStartOf(s), buf), s) = buf
<1> DEFINE p == SectorStartOf(s)
           w == WriteAt(img, p, buf)
<1>1. p \in Nat /\ BufLen \in Nat /\ Len(img) \in Nat
  <2>1. p \in Nat
    BY SectorPlace
  <2>2. BufLen \in Nat /\ Len(img) \in Nat
    BY BufLenType, LenProperties
  <2> QED BY <2>1, <2>2
<1>2. /\ w \in Seq(Chunk)
      /\ Len(w) = Max2(Len(img), p + BufLen)
      /\ \A i \in 1 .. BufLen : w[p + i] = buf[i]
  BY <1>1, WriteAtParts
<1>3. p + BufLen <= Len(w)
  BY <1>1, <1>2 DEF Max2
<1>4. SectorOf(w, s) = [i \in 1 .. BufLen |-> w[p + i]]
  <2> HIDE DEF w
  <2> QED BY <1>2, <1>3, WholeSector
<1>5. buf = [i \in 1 .. BufLen |-> buf[i]]
  BY DEF Buffer
<1> QED
  BY <1>2, <1>4, <1>5

(* The other sectors hold what they held, provided that both begin within  *)
(* the image: nothing is filled up with zeros.                             *)
LEMMA OtherSectorsKept ==
  ASSUME NEW img \in Seq(Chunk), NEW s \in Nat, NEW t \in Nat, NEW buf \in Buffer,
         t # s, SectorStartOf(s) <= Len(img), SectorStartOf(t) <= Len(img)
  PROVE  SectorOf(WriteAt(img, SectorStartOf(s), buf), t) = SectorOf(img, t)
<1> DEFINE p == SectorStartOf(s)
           q == SectorStartOf(t)
           w == WriteAt(img, p, buf)
           last == Min2(q + BufLen, Len(img))
<1>1. p \in Nat /\ q \in Nat /\ BufLen \in Nat \ {0} /\ Len(img) \in Nat
  <2>1. p \in Nat /\ q \in Nat
    BY SectorPlace
  <2>2. BufLen \in Nat \ {0} /\ Len(img) \in Nat
    BY BufLenType, LenProperties
  <2> QED BY <2>1, <2>2
<1>2. p + BufLen <= q \/ q + BufLen <= p
  <2>1. CASE s < t
    BY <2>1, SectorsApart DEF SectorStartOf
  <2>2. CASE t < s
    BY <2>2, SectorsApart DEF SectorStartOf
  <2> QED BY <2>1, <2>2
<1>3. /\ w \in Seq(Chunk)
      /\ Len(w) = Max2(Len(img), p + BufLen)
      /\ \A i \in 1 .. Len(img) : i <= p \/ p + BufLen < i => w[i] = img[i]
  BY <1>1, WriteAtParts
<1> HIDE DEF p, q, w
<1>4. p <= Len(img) /\ q <= Len(img)
  BY DEF p, q
<1>5. Min2(q + BufLen, Len(w)) = last
  <2>1. CASE p + BufLen <= q
    BY <1>1, <1>3, <1>4, <2>1 DEF Min2, Max2
  <2>2. CASE q + BufLen <= p
    BY <1>1, <1>3, <1>4, <2>2 DEF Min2, Max2
  <2> QED BY <1>2, <2>1, <2>2
<1>6. last \in Nat /\ last <= Len(img) /\ last <= q + BufLen
  BY <1>1 DEF Min2
<1> HIDE DEF last
<1>7. \A i \in q + 1 .. last : w[i] = img[i] /\ img[i] \in Chunk
  BY <1>1, <1>2, <1>3, <1>6
<1>8. SubSeq(w, q + 1, last) = SubSeq(img, q + 1, last)
  <2> DEFINE u == SubSeq(w, q + 1, last)
             v == SubSeq(img, q + 1, last)
  <2>1. q + 1 \in Int /\ last \in Int
    BY <1>1, <1>6
  <2>2. \A i \in q + 1 .. last : w[i] \in Chunk
    BY <1>7
  <2>3. /\ u \in Seq(Chunk)
        /\ Len(u) = IF q + 1 <= last THEN last - (q + 1) + 1 ELSE 0
        /\ \A i \in 1 .. last - (q + 1) + 1 : u[i] = w[q + 1 + i - 1]
    BY <2>1, <2>2, SubSeqProperties
  <2>4. /\ v \in Seq(Chunk)
        /\ Len(v) = IF q + 1 <= last THEN last - (q + 1) + 1 ELSE 0
        /\ \A i \in 1 .. last - (q + 1) + 1 : v[i] = img[q + 1 + i - 1]
    BY <1>7, <2>1, SubSeqProperties
  <2> HIDE DEF u, v
  <2>5. Len(u) = Len(v)
    BY <2>3, <2>4
  <2>6. \A i \in 1 .. Len(u) : u[i] = v[i]
    <3> SUFFICES ASSUME NEW i \in 1 .. Len(u)
                 PROVE  u[i] = v[i]
      OBVIOUS
    <3>1. /\ i \in 1 .. last - (q + 1) + 1
          /\ q + 1 + i - 1 \in q + 1 .. last
      BY <1>1, <1>6, <2>3
    <3> QED BY <1>7, <2>3, <2>4, <3>1
  <2>7. u = v
    BY <2>3, <2>4, <2>5, <2>6, SeqEqual
  <2> QED BY <2>7 DEF u, v
<1>9. SectorOf(w, t) = SubSeq(w, q + 1, Min2(q + BufLen, Len(w)))
  BY DEF SectorOf, q
<1>10. SectorOf(img, t) = SubSeq(img, q + 1, last)
  BY DEF SectorOf, q, last
<1> QED
  BY <1>5, <1>8, <1>9, <1>10 DEF w, p
-----------------------------------------------------------------------------
(* What the operation asked for has.                                       *)
LEMMA OpType ==
  ASSUME TypeInv, req.kind \in {"read", "write"}
  PROVE  /\ req.sector \in Sectors /\ req.sector \in Nat
         /\ Home \in Nat
         /\ req.disk \in Stored =>
              /\ image[req.disk] \in Seq(Chunk)
              /\ Wanted \in Buffer
              /\ Found \in 0 .. BufLen
<1>1. req.sector \in Sectors
  BY DEF TypeInv, TypeOK, IosTypeOK, SelectReq, ReadReq, WriteReq
<1>2. req.sector \in Nat
  BY <1>1, SectorsAssumption
<1>3. Home \in Nat
  BY <1>2, SectorPlace DEF Home
<1>4. req.disk \in Stored => image[req.disk] \in Seq(Chunk)
  BY DEF TypeInv, TypeOK, ServerTypeOK
<1> QED
  BY <1>1, <1>2, <1>3, <1>4, ReadAtType, CountAtType DEF Wanted, Found

(* The drive of an emulated disk transfers the whole sector.               *)
LEMMA DriveReady ==
  ASSUME TypeInv, WholeInv, ServerAt, ServerHas(req.disk),
         req.disk \in Emulated, req.kind \in {"read", "write"}
  PROVE  /\ drive = req.disk
         /\ SectorStart = Home
         /\ DriveHasSector
         /\ Found = BufLen
<1>1. drive = req.disk /\ drive # NoName /\ req.disk \in Stored
  BY NamesAssumption DEF ServerHas, Stored, Disks
<1>2. req.sector \in Sectors /\ req.sector \in Nat
  BY OpType
<1>3. SectorStart = Home
  <2>1. filePos = req.sector * BufLen
    BY DEF ServerAt, Home, SectorStartOf
  <2>2. filePos \div BufLen = req.sector
    BY <1>2, <2>1, DivideBack
  <2>3. BufLen * req.sector = req.sector * BufLen
    BY <1>2, BufLenType
  <2> QED BY <2>1, <2>2, <2>3 DEF SectorStart, Home, SectorStartOf
<1>4. Home + BufLen <= Len(image[req.disk])
  BY <1>2 DEF WholeInv, Home
<1>5. Home \in Nat /\ BufLen \in Nat \ {0} /\ Len(image[req.disk]) \in Nat
  <2>1. image[req.disk] \in Seq(Chunk) /\ Home \in Nat
    BY <1>1, OpType
  <2> QED BY <2>1, BufLenType, LenProperties
<1>6. Found = BufLen
  BY <1>4, <1>5 DEF Found, CountAt, Min2
<1> QED
  BY <1>1, <1>3, <1>4, <1>6 DEF DriveHasSector

(* Nothing of what Before is about changes.                                *)
callVars == <<req, stage, seg, offset, dataLen, bufferSD>>
diskVars == <<vd, vdData, serverVars>>

(* What depends on the operation and on the images only.                   *)
LEMMA SameOperation ==
  ASSUME UNCHANGED <<req, image>>
  PROVE  Home' = Home /\ Wanted' = Wanted /\ Found' = Found /\ OnDisk' = OnDisk
BY DEF Home, Wanted, Found, OnDisk

(* Before speaks of the call and of what the ESP8266 and the server have.  *)
LEMMA SameBefore ==
  ASSUME Before, UNCHANGED <<callVars, diskVars>>
  PROVE  Before'
<1>1. UNCHANGED <<req, image>>
  BY DEF callVars, diskVars, serverVars
<1>2. Home' = Home /\ Wanted' = Wanted /\ Found' = Found /\ OnDisk' = OnDisk
  BY <1>1, SameOperation
<1> QED
  BY <1>2 DEF Before, callVars, diskVars, serverVars, ServerAt, Got, Buffered,
              Exhausted, Collected

(* So does After, and of the data packet for the AVR.                      *)
LEMMA SameAfter ==
  ASSUME NEW n, After(n), UNCHANGED <<callVars, diskVars, spiOut>>
  PROVE  After(n)'
<1>1. UNCHANGED <<req, image>>
  BY DEF callVars, diskVars, serverVars
<1>2. Home' = Home /\ Wanted' = Wanted /\ Found' = Found /\ OnDisk' = OnDisk
  BY <1>1, SameOperation
<1> QED
  BY <1>2 DEF After, callVars, diskVars, serverVars, ServerAt, ServerHas, Got,
              Buffered, Exhausted, Collected
-----------------------------------------------------------------------------
(* The server has the one packet that is under way.                        *)
LEMMA ServerQueue ==
  ASSUME TypeInv, LockStep, ServerStep
  PROVE  /\ c2s # <<>> /\ s2c = <<>>
         /\ espPc = "wait"
         /\ Request \in TcpPacket
         /\ c2s' = <<>>
<1>1. TcpTypeOK
  BY DEF TypeInv, TypeOK
<1>2. c2s # <<>>
  BY DEF ServerStep, SelectEmulated, SelectPlain, SelectMissing, ReadEmulated,
         ReadPlain, ReadMismatch, WriteEmulated, WritePlain, WriteRefused,
         SeekEmulated, SeekPlain, SeekRefused, IgnoreCommand, Requested
<1>3. c2s' = Tail(c2s)
  BY DEF ServerStep, SelectEmulated, SelectPlain, SelectMissing, ReadEmulated,
         ReadPlain, ReadMismatch, WriteEmulated, WritePlain, WriteRefused,
         SeekEmulated, SeekPlain, SeekRefused, IgnoreCommand, Answer, NoAnswer
<1>4. Len(c2s) = 1 /\ Len(s2c) = 0
  BY <1>1, <1>2 DEF LockStep, TcpTypeOK
<1>5. s2c = <<>> /\ Tail(c2s) = <<>>
  BY <1>1, <1>2, <1>4 DEF TcpTypeOK
<1> QED
  BY <1>1, <1>2, <1>3, <1>5, RequestType DEF LockStep, Request, TcpTypeOK

(* The only packet under way is the answer just sent ...                   *)
LEMMA AnswerQueue ==
  ASSUME s2c = <<>>, NEW p, Answer(p)
  PROVE  s2c' # <<>> /\ Head(s2c') = p
<1>1. s2c' = <<p>>
  BY DEF Answer
<1> QED
  BY <1>1

(* ... or the request.                                                     *)
LEMMA CallQueue ==
  ASSUME c2s = <<>>, s2c = <<>>, NEW p, Call(p)
  PROVE  c2s' # <<>> /\ s2c' = <<>> /\ Head(c2s') = p
<1>1. c2s' = <<p>> /\ s2c' = <<>>
  BY WindowAssumption DEF Call, SendRequest
<1> QED
  BY <1>1

(* A write goes to the place of the operation, and nothing else changes a  *)
(* disk.                                                                   *)
LEMMA ServerWrites ==
  ASSUME TypeInv, WholeInv, WriteInv, ServerStep
  PROVE  IF Request.cmd = "WR_FILE"
         THEN /\ Writable
              /\ image' = [image EXCEPT ![req.disk] =
                             WriteAt(image[req.disk], Home, req.content)]
         ELSE UNCHANGED image
<1>1. c2s # <<>>
  BY DEF ServerStep, SelectEmulated, SelectPlain, SelectMissing, ReadEmulated,
         ReadPlain, ReadMismatch, WriteEmulated, WritePlain, WriteRefused,
         SeekEmulated, SeekPlain, SeekRefused, IgnoreCommand, Requested
<1>2. CASE Request.cmd # "WR_FILE"
  BY <1>2 DEF ServerStep, SelectEmulated, SelectPlain, SelectMissing, ReadEmulated,
         ReadPlain, ReadMismatch, WriteEmulated, WritePlain, WriteRefused,
         SeekEmulated, SeekPlain, SeekRefused, IgnoreCommand, Requested, serverVars
<1>3. CASE Request.cmd = "WR_FILE"
  <2>1. /\ Writable
        /\ Request.filename = req.disk
        /\ Request.data = req.content
    BY <1>1, <1>3 DEF WriteInv
  <2>2. /\ ServerAt
        /\ ServerHas(req.disk)
        /\ req.kind = "write"
        /\ req.disk \in Stored
        /\ filename = req.disk
    BY <2>1 DEF Writable, ServerAt, ServerHas
  <2>3. WriteEmulated \/ WritePlain \/ WriteRefused
    BY <1>3 DEF ServerStep, SelectEmulated, SelectPlain, SelectMissing,
                ReadEmulated, ReadPlain, ReadMismatch, SeekEmulated, SeekPlain,
                SeekRefused, IgnoreCommand, Requested
  <2>4. CASE req.disk \in Emulated
    <3>1. drive = req.disk /\ SectorStart = Home /\ DriveHasSector
      BY <2>2, <2>4, DriveReady
    <3>2. WriteEmulated
      BY <2>1, <2>2, <2>3, <2>4 DEF WritePlain, WriteRefused, NameMatches
    <3> QED BY <1>3, <2>1, <3>1, <3>2 DEF WriteEmulated
  <2>5. CASE req.disk \notin Emulated
    <3>1. stream = req.disk /\ stream # NoName /\ streamPos = Home /\ ~streamFail
      BY <2>2, <2>5, NamesAssumption DEF ServerHas, ServerAt, Stored, Disks
    <3>2. WritePlain
      BY <2>1, <2>2, <2>3, <2>5, <3>1 DEF WriteEmulated, WriteRefused, NameMatches
    <3> QED BY <1>3, <2>1, <3>1, <3>2 DEF WritePlain
  <2> QED BY <2>4, <2>5
<1> QED
  BY <1>2, <1>3

(* Images get longer or stay as they are, also the one that is written.    *)
LEMMA ServerWhole ==
  ASSUME TypeInv, WholeInv, WriteInv, ServerStep
  PROVE  /\ WholeInv'
         /\ \A d \in Stored : Len(image[d]) <= Len(image'[d])
<1>1. CASE UNCHANGED image
  <2>1. \A d \in Stored : Len(image[d]) \in Nat
    BY LenProperties DEF TypeInv, TypeOK, ServerTypeOK
  <2> QED BY <1>1, <2>1 DEF WholeInv
<1>2. CASE Request.cmd = "WR_FILE"
  <2> DEFINE w == WriteAt(image[req.disk], Home, req.content)
  <2>1. /\ req.kind = "write"
        /\ req.disk \in Stored
        /\ image' = [image EXCEPT ![req.disk] = w]
    BY <1>2, ServerWrites DEF Writable, ServerAt
  <2>2. Home \in Nat /\ image[req.disk] \in Seq(Chunk)
    BY <2>1, OpType
  <2>3. req.content \in Buffer
    BY <2>1, ReqType DEF TypeInv, TypeOK, IosTypeOK
  <2>4. Len(w) = Max2(Len(image[req.disk]), Home + BufLen)
    BY <2>2, <2>3, WriteAtParts
  <2> HIDE DEF w
  <2>5. image \in [Stored -> Seq(Chunk)]
    BY DEF TypeInv, TypeOK, ServerTypeOK
  <2>6. \A d \in Stored : Len(image[d]) \in Nat
    BY <2>5, LenProperties
  <2>7. BufLen \in Nat
    BY BufLenType
  <2>8. \A d \in Stored : Len(image[d]) <= Len(image'[d]) /\ Len(image'[d]) \in Nat
    <3> SUFFICES ASSUME NEW d \in Stored
                 PROVE  Len(image[d]) <= Len(image'[d]) /\ Len(image'[d]) \in Nat
      OBVIOUS
    <3>1. CASE d = req.disk
      <4>1. image'[d] = w
        BY <2>1, <2>5, <3>1
      <4> QED BY <2>2, <2>4, <2>6, <2>7, <3>1, <4>1 DEF Max2
    <3>2. CASE d # req.disk
      <4>1. image'[d] = image[d]
        BY <2>1, <2>5, <3>2
      <4> QED BY <2>6, <4>1
    <3> QED BY <3>1, <3>2
  <2>9. WholeInv'
    <3> SUFFICES ASSUME NEW d \in Emulated, NEW s \in Sectors
                 PROVE  SectorStartOf(s) + BufLen <= Len(image'[d])
      BY DEF WholeInv
    <3>1. d \in Stored
      BY DEF Stored
    <3>2. SectorStartOf(s) + BufLen <= Len(image[d])
      BY DEF WholeInv
    <3>3. SectorStartOf(s) + BufLen \in Nat
      BY <2>7, SectorsAssumption, SectorPlace
    <3> HIDE DEF SectorStartOf
    <3> QED BY <2>6, <2>8, <3>1, <3>2, <3>3
  <2> QED BY <2>8, <2>9
<1> QED
  BY <1>1, <1>2, ServerWrites

(* What the server has selected changes only with a select.                *)
LEMMA ServerKeeps ==
  ASSUME ServerStep, Request.cmd # "SEL_FILE"
  PROVE  UNCHANGED <<filename, drive, stream>>
BY DEF ServerStep, SelectEmulated, SelectPlain, SelectMissing, ReadEmulated,
       ReadPlain, ReadMismatch, WriteEmulated, WritePlain, WriteRefused,
       SeekEmulated, SeekPlain, SeekRefused, IgnoreCommand, Requested, serverVars,
       streamVars

(* A select leaves the server with the requested disk, and it open if it   *)
(* can be.                                                                 *)
LEMMA ServerSelects ==
  ASSUME WholeDisks, ServerStep, RequestIs("SEL_FILE"), req.disk \in Disks,
         UNCHANGED req
  PROVE  ServerHas(req.disk)'
<1>1. SelectEmulated \/ SelectPlain \/ SelectMissing
  BY DEF RequestIs, ServerStep, ReadEmulated, ReadPlain, ReadMismatch, WriteEmulated,
         WritePlain, WriteRefused, SeekEmulated, SeekPlain, SeekRefused,
         IgnoreCommand, Requested
<1>2. CASE SelectEmulated
  BY <1>2, NamesAssumption
  DEF SelectEmulated, RequestIs, ServerHas, WholeDisks, Stored
<1>3. CASE SelectPlain
  BY <1>3, NamesAssumption DEF SelectPlain, RequestIs, ServerHas, Stored
<1>4. CASE SelectMissing
  BY <1>4, NamesAssumption DEF SelectMissing, RequestIs, ServerHas, Stored, Disks
<1> QED
  BY <1>1, <1>2, <1>3, <1>4

(* A seek is answered when the server stands where it should.              *)
LEMMA ServerSeeks ==
  ASSUME s2c = <<>>, ServerStep, RequestIs("SEEK_FILE"), Request.fileOffset = Home,
         ServerHas(req.disk), req.disk \in Disks, UNCHANGED req
  PROVE  s2c' # <<>> => ServerAt'
<1>1. SeekEmulated \/ SeekPlain \/ SeekRefused
  BY DEF RequestIs, ServerStep, SelectEmulated, SelectPlain, SelectMissing,
         ReadEmulated, ReadPlain, ReadMismatch, WriteEmulated, WritePlain,
         WriteRefused, IgnoreCommand, Requested
<1>2. Home' = Home
  BY DEF Home
<1>3. CASE SeekEmulated
  BY <1>2, <1>3 DEF SeekEmulated, RequestIs, ServerHas, ServerAt, Stored
<1>4. CASE SeekPlain
  BY <1>2, <1>4 DEF SeekPlain, RequestIs, ServerHas, ServerAt, Stored, Disks
<1>5. CASE SeekRefused
  BY <1>5 DEF SeekRefused, NoAnswer
<1> QED
  BY <1>1, <1>3, <1>4, <1>5

(* A read that is answered brings the sector, what the file has of it, or  *)
(* nothing.                                                                *)
LEMMA ServerReads ==
  ASSUME TypeInv, WholeInv, s2c = <<>>, ServerStep, RequestIs("RD_FILE"),
         ServerHas(req.disk), req.disk \in Stored, req.kind = "read",
         (ServerAt /\ seg = 0 /\ offset = 0) \/ Exhausted, vdData.dataLen = 0,
         UNCHANGED <<req, vdData>>
  PROVE  /\ s2c' # <<>>
         /\ Head(s2c').status = "OK"
         /\ \/ /\ seg = 0
               /\ offset = 0
               /\ Head(s2c').dataLen = Found
               /\ Head(s2c').data = Wanted
               /\ Found < BufLen => Exhausted'
            \/ Head(s2c').dataLen = 0 /\ Exhausted'
<1>1. c2s # <<>> /\ TcpTypeOK
  BY DEF ServerStep, SelectEmulated, SelectPlain, SelectMissing, ReadEmulated,
         ReadPlain, ReadMismatch, WriteEmulated, WritePlain, WriteRefused,
         SeekEmulated, SeekPlain, SeekRefused, IgnoreCommand, Requested,
         TypeInv, TypeOK
<1>2. Request \in TcpPacket
  BY <1>1, RequestType
<1>3. filename = req.disk
  BY DEF ServerHas
<1>4. ReadEmulated \/ ReadPlain
  BY <1>3
  DEF RequestIs, ServerStep, SelectEmulated, SelectPlain, SelectMissing,
      ReadMismatch, NameMatches, WriteEmulated, WritePlain, WriteRefused,
      SeekEmulated, SeekPlain, SeekRefused, IgnoreCommand, Requested
<1>5. /\ Wanted \in Buffer
      /\ Found \in 0 .. BufLen
      /\ Home \in Nat
      /\ image[req.disk] \in Seq(Chunk)
  BY OpType
<1>6. BufLen \in Nat \ {0} /\ Len(image[req.disk]) \in Nat
  BY <1>5, BufLenType, LenProperties
<1>7. CASE ReadEmulated
  <2>1. req.disk \in Emulated
    BY <1>3, <1>7 DEF ReadEmulated
  <2>2. ServerAt /\ seg = 0 /\ offset = 0
    BY <2>1 DEF Exhausted
  <2>3. /\ drive = req.disk
        /\ SectorStart = Home
        /\ DriveHasSector
        /\ Found = BufLen
    BY <2>1, <2>2, DriveReady
  <2>4. sector' = Wanted
    BY <1>7, <2>3 DEF ReadEmulated, Wanted
  <2>5. PICK p : /\ p = [Request EXCEPT !.status = "OK", !.data = sector',
                                        !.dataLen = BufLen]
                 /\ Answer(p)
    BY <1>7 DEF ReadEmulated
  <2>6. p.status = "OK" /\ p.data = Wanted /\ p.dataLen = Found
    BY <1>2, <2>3, <2>4, <2>5 DEF TcpPacket
  <2>7. s2c' # <<>> /\ Head(s2c') = p
    BY <2>5, AnswerQueue
  <2>8. ~(Found < BufLen)
    BY <1>6, <2>3
  <2> QED BY <2>2, <2>6, <2>7, <2>8
<1>8. CASE ReadPlain
  <2> DEFINE good == stream # NoName /\ ~streamFail
             n == IF good THEN CountAt(image[stream], streamPos) ELSE 0
             data == IF n > 0 THEN ReadAt(image[stream], streamPos) ELSE ZeroBuffer
  <2>1. req.disk \notin Emulated /\ req.disk \in Files
    BY <1>3, <1>8 DEF ReadPlain, Stored
  <2>2. stream = req.disk /\ stream # NoName
    BY <2>1, NamesAssumption DEF ServerHas, Stored, Disks
  <2>3. PICK p : /\ p = [Request EXCEPT !.status = "OK", !.data = data,
                                        !.dataLen = n]
                 /\ Answer(p)
    BY <1>8 DEF ReadPlain
  <2>4. streamFail' = (n < BufLen)
    BY <1>8 DEF ReadPlain
  <2> HIDE DEF n, data
  <2>5. p.status = "OK" /\ p.data = data /\ p.dataLen = n
    BY <1>2, <2>3 DEF TcpPacket
  <2>6. s2c' # <<>> /\ Head(s2c') = p
    BY <2>3, AnswerQueue
  <2>7. vdData'.dataLen = 0 /\ req'.disk \notin Emulated
    BY <2>1
  <2>8. CASE ServerAt /\ seg = 0 /\ offset = 0
    <3>1. streamPos = Home /\ ~streamFail
      BY <2>1, <2>8 DEF ServerAt
    <3>2. n = Found
      BY <2>2, <3>1 DEF n, Found
    <3>3. data = Wanted
      <4>1. CASE n > 0
        BY <2>2, <3>1, <4>1 DEF data, Wanted
      <4>2. CASE ~(n > 0)
        <5>1. Found = 0
          BY <1>5, <1>6, <3>2, <4>2
        <5>2. ~(Home < Len(image[req.disk]))
          BY <1>5, <1>6, <5>1 DEF Found, CountAt, Min2
        <5>3. \A i \in 1 .. BufLen : ~(Home + i <= Len(image[req.disk]))
          BY <1>5, <1>6, <5>2
        <5>4. Wanted = ZeroBuffer
          BY <5>3 DEF Wanted, ReadAt, ZeroBuffer
        <5> QED BY <4>2, <5>4 DEF data
      <4> QED BY <4>1, <4>2
    <3>4. Found < BufLen => Exhausted'
      BY <2>4, <2>7, <3>2 DEF Exhausted
    <3> QED BY <2>5, <2>6, <2>8, <3>2, <3>3, <3>4
  <2>9. CASE Exhausted
    <3>1. n = 0
      BY <2>9 DEF n, Exhausted
    <3>2. n < BufLen
      BY <1>6, <3>1
    <3>3. Exhausted'
      BY <2>4, <2>7, <3>2 DEF Exhausted
    <3> QED BY <2>5, <2>6, <3>1, <3>3
  <2> QED BY <2>8, <2>9
<1> QED
  BY <1>4, <1>7, <1>8

(* The server carries out the request of the command of the current call.  *)
LEMMA ServerDuring ==
  ASSUME WholeDisks, TypeInv, LockStep, CallInv, SelectedInv, WriteInv, WholeInv,
         During, iosPc = "poll", ServerStep, UNCHANGED <<iosVars, espVars>>
  PROVE  During' /\ SelectedInv'
<1>1. /\ c2s # <<>> /\ s2c = <<>>
      /\ c2s' = <<>>
      /\ Request \in TcpPacket
  BY ServerQueue
<1>2. /\ UNCHANGED <<req, stage, seg, offset, dataLen, bufferSD, curDisk>>
      /\ UNCHANGED vdData
  BY DEF iosVars, espVars
<1>3. req.disk \in Disks /\ req.disk # NoName
  BY ReqType, NamesAssumption DEF TypeInv, TypeOK, IosTypeOK
<1>4. Home' = Home
  BY <1>2 DEF Home
<1>5. CASE stage = "SEL_FILE"
  <2>1. RequestIs("SEL_FILE")
    BY <1>1, <1>5 DEF During
  <2>2. curDisk = NoName
    BY <1>5 DEF CallInv
  <2>3. ServerHas(req.disk)'
    BY <1>1, <1>2, <1>3, <2>1, ServerSelects
  <2>4. s2c' # <<>>
    BY <1>1, <2>1, AnswerQueue
    DEF RequestIs, ServerStep, SelectEmulated, SelectPlain, SelectMissing,
        ReadEmulated, ReadPlain, ReadMismatch, WriteEmulated, WritePlain,
        WriteRefused, SeekEmulated, SeekPlain, SeekRefused, IgnoreCommand, Requested
  <2> QED BY <1>1, <1>2, <1>5, <2>2, <2>3, <2>4 DEF During, SelectedInv
<1>6. ASSUME stage # "SEL_FILE", Request.cmd # "SEL_FILE"
      PROVE  ServerHas(req.disk) /\ SelectedInv'
  <2>1. curDisk = req.disk /\ ServerHas(req.disk) /\ vdData.filename = req.disk
    BY <1>3, <1>6 DEF CallInv, SelectedInv
  <2>2. UNCHANGED <<filename, drive, stream>>
    BY <1>6, ServerKeeps
  <2> QED BY <1>2, <2>1, <2>2 DEF ServerHas, SelectedInv
<1>7. CASE stage = "SEEK_FILE"
  <2>1. RequestIs("SEEK_FILE") /\ Request.fileOffset = Home /\ vdData.dataLen = 0
    BY <1>1, <1>7 DEF During
  <2>2. ServerHas(req.disk) /\ SelectedInv'
    BY <1>6, <1>7, <2>1 DEF RequestIs
  <2>3. s2c' # <<>> => ServerAt'
    BY <1>1, <1>2, <1>3, <2>1, <2>2, ServerSeeks
  <2> QED BY <1>1, <1>2, <1>7, <2>1, <2>2, <2>3 DEF During
<1>8. CASE stage = "RD_FILE"
  <2>1. /\ req.disk \in Stored
        /\ vdData.dataLen = 0
        /\ dataLen = 0
        /\ Got(seg, offset)
        /\ RequestIs("RD_FILE")
        /\ (ServerAt /\ seg = 0 /\ offset = 0) \/ Exhausted
    BY <1>1, <1>8 DEF During
  <2>2. ServerHas(req.disk) /\ SelectedInv'
    BY <1>6, <1>8, <2>1 DEF RequestIs
  <2>3. req.kind = "read"
    BY <1>8 DEF CallInv
  <2>4. UNCHANGED image
    <3>1. Request.cmd # "WR_FILE"
      BY <2>1 DEF RequestIs
    <3> QED BY <3>1, ServerWrites
  <2>5. Wanted' = Wanted /\ Found' = Found
    BY <1>2, <2>4, SameOperation
  <2>6. Got(seg, offset)'
    BY <1>2, <2>1, <2>5 DEF Got
  <2>7. /\ s2c' # <<>>
        /\ Head(s2c').status = "OK"
        /\ \/ /\ seg = 0
              /\ offset = 0
              /\ Head(s2c').dataLen = Found
              /\ Head(s2c').data = Wanted
              /\ Found < BufLen => Exhausted'
           \/ Head(s2c').dataLen = 0 /\ Exhausted'
    BY <1>1, <1>2, <2>1, <2>2, <2>3, ServerReads
  <2> QED BY <1>1, <1>2, <1>8, <2>1, <2>2, <2>5, <2>6, <2>7 DEF During
<1>9. CASE stage = "WR_NEXT"
  <2>1. RequestIs("WR_FILE") /\ seg + 1 = Segments /\ vdData.filePos = 0
    BY <1>1, <1>9 DEF During
  <2>2. SelectedInv'
    BY <1>6, <1>9, <2>1 DEF RequestIs
  <2>3. /\ Writable
        /\ image' = [image EXCEPT ![req.disk] =
                       WriteAt(image[req.disk], Home, req.content)]
    BY <2>1, ServerWrites DEF RequestIs
  <2>4. req.kind = "write" /\ req.disk \in Stored
    BY <2>3 DEF Writable, ServerAt
  <2>5. /\ image[req.disk] \in Seq(Chunk)
        /\ req.sector \in Nat
        /\ req.content \in Buffer
        /\ image \in [Stored -> Seq(Chunk)]
    BY <2>4, OpType, ReqType DEF TypeInv, TypeOK, IosTypeOK, ServerTypeOK
  <2>6. OnDisk'
    <3>1. image'[req.disk] = WriteAt(image[req.disk], Home, req.content)
      BY <2>3, <2>4, <2>5
    <3>2. SectorOf(image'[req.disk], req.sector) = req.content
      BY <2>5, <3>1, SectorWrittenTo DEF Home
    <3> QED BY <1>2, <2>4, <3>2 DEF OnDisk
  <2>7. s2c' # <<>>
    <3>1. ServerHas(req.disk) /\ Request.filename = req.disk
      BY <2>1, <2>3 DEF Writable, RequestIs
    <3>2. filename \notin Emulated => stream # NoName
      BY <1>3, <2>4, <3>1 DEF ServerHas, Stored
    <3>3. WriteEmulated \/ WritePlain
      BY <2>1, <3>1, <3>2
      DEF RequestIs, ServerStep, SelectEmulated, SelectPlain, SelectMissing,
          ReadEmulated, ReadPlain, ReadMismatch, WriteRefused, SeekEmulated,
          SeekPlain, SeekRefused, IgnoreCommand, Requested, NameMatches, ServerHas
    <3> QED BY <1>1, <3>3, AnswerQueue DEF WriteEmulated, WritePlain
  <2> QED BY <1>1, <1>2, <1>9, <2>1, <2>2, <2>6, <2>7 DEF During
<1> QED
  BY <1>5, <1>7, <1>8, <1>9 DEF During

(* While the ESP8266 is busy the AVR polls, or has just been reset.        *)
LEMMA Busy ==
  ASSUME TypeInv, AnswerInv, CallInv, ~Quiet
  PROVE  \/ iosPc = "poll" /\ diskErr = "PENDING" /\ spiStatus.status = "BUSY"
         \/ iosPc = "idle" /\ diskErr = "RESET" /\ curDisk = NoName
BY DEF AnswerInv, CallInv, Quiet, TypeInv, TypeOK, IosTypeOK

(* A step of the server.                                                   *)
LEMMA ServerTransfers ==
  ASSUME WholeDisks, ExactInv, Server
  PROVE  TransferInv'
<1>1. TypeInv /\ LockStep /\ AnswerInv /\ TransferInv
  BY DEF ExactInv
<1>2. ServerStep /\ UNCHANGED <<iosVars, spiVars, espVars, faults>>
  BY DEF Server
<1>3. espPc = "wait" /\ espPc' = "wait" /\ c2s' = <<>>
  BY <1>1, <1>2, ServerQueue DEF espVars
<1>4. CallInv'
  BY <1>1, <1>2 DEF TransferInv, CallInv, iosVars
<1>5. WriteInv'
  BY <1>3 DEF WriteInv
<1>6. WholeInv'
  BY <1>1, <1>2, ServerWhole DEF TransferInv
<1>7. ~Quiet
  BY <1>3 DEF Quiet, EspSettled
<1>8. vdStatus'.status # "BUSY"
  BY <1>1, <1>2 DEF TransferInv, CommandInv, espVars
<1>9. CASE iosPc = "poll" /\ diskErr = "PENDING" /\ spiStatus.status = "BUSY"
  <2>1. iosPc' = "poll" /\ diskErr' = "PENDING" /\ spiStatus'.status = "BUSY"
    BY <1>2, <1>9 DEF iosVars, spiVars
  <2>2. Sent /\ During
    BY <1>1, <1>3, <1>9 DEF TransferInv, CommandInv
  <2>3. During' /\ SelectedInv'
    BY <1>1, <1>2, <1>9, <2>2, ServerDuring DEF TransferInv
  <2>4. Sent'
    BY <1>2, <2>2 DEF Sent, iosVars, spiVars, Home
  <2>5. CommandInv'
    BY <1>3, <1>8, <2>1, <2>3, <2>4 DEF CommandInv
  <2>6. ReadExact' /\ WriteExact'
    BY <2>1 DEF ReadExact, WriteExact
  <2> QED BY <1>4, <1>5, <1>6, <2>3, <2>5, <2>6 DEF TransferInv
<1>10. CASE iosPc = "idle" /\ diskErr = "RESET" /\ curDisk = NoName
  <2>1. iosPc' = "idle" /\ diskErr' = "RESET" /\ curDisk' = NoName
    BY <1>2, <1>10 DEF iosVars
  <2>2. SelectedInv' /\ CommandInv' /\ ReadExact' /\ WriteExact'
    BY <1>8, <2>1 DEF SelectedInv, CommandInv, ReadExact, WriteExact
  <2> QED BY <1>4, <1>5, <1>6, <2>2 DEF TransferInv
<1> QED
  BY <1>1, <1>7, <1>9, <1>10, Busy DEF TransferInv
-----------------------------------------------------------------------------
(* What an action of the AVR leaves alone.                                 *)
othersVars == <<espVars, tcpVars, serverVars>>

(* A step of the AVR that starts nothing and sends nothing cannot disturb  *)
(* a write under way.                                                      *)
LEMMA SameWrite ==
  ASSUME WriteInv, UNCHANGED <<req, spiBuf, spiDataRcvd, othersVars>>
  PROVE  WriteInv'
BY DEF WriteInv, Writable, ServerAt, ServerHas, Home, Request, othersVars, espVars,
       tcpVars, serverVars

(* Nor can it disturb the selection, which it gives up at most.            *)
LEMMA SameSelected ==
  ASSUME SelectedInv, UNCHANGED othersVars, curDisk' \in {curDisk, NoName}
  PROVE  SelectedInv'
BY DEF SelectedInv, ServerHas, othersVars, espVars, serverVars

(* An operation under way has not ended well.                              *)
LEMMA PendingExact ==
  ASSUME CallInv', iosPc' # "idle"
  PROVE  ReadExact' /\ WriteExact'
BY DEF CallInv, ReadExact, WriteExact

(* The operation ends, and not well.                                       *)
LEMMA EndsBadly ==
  ASSUME TransferInv, NEW err, EndOp(err), err \notin {"OK", "PENDING"},
         curDisk' \in {curDisk, NoName}, err = "RESET" => curDisk' = NoName,
         UNCHANGED <<req, spiVars, othersVars>>
  PROVE  TransferInv'
<1> USE DEF TransferInv
<1>1. CallInv'
  BY DEF EndOp, CallInv
<1>2. WriteInv' /\ SelectedInv'
  BY SameWrite, SameSelected DEF spiVars
<1>3. CommandInv'
  BY DEF EndOp, CommandInv, othersVars, espVars
<1>4. WholeInv'
  BY DEF WholeInv, othersVars, serverVars
<1>5. ReadExact' /\ WriteExact'
  BY DEF EndOp, ReadExact, WriteExact
<1> QED
  BY <1>1, <1>2, <1>3, <1>4, <1>5

(* A command is about to be sent, and what it needs holds.                 *)
LEMMA SendsNext ==
  ASSUME TransferInv, CallInv', Before', iosPc' = "send",
         curDisk' \in {curDisk, NoName},
         UNCHANGED <<req, spiVars, othersVars>>
  PROVE  TransferInv'
<1> USE DEF TransferInv
<1>1. WriteInv' /\ SelectedInv'
  BY SameWrite, SameSelected DEF spiVars
<1>2. CommandInv'
  BY DEF CommandInv, othersVars, espVars
<1>3. WholeInv'
  BY DEF WholeInv, othersVars, serverVars
<1>4. ReadExact' /\ WriteExact'
  BY PendingExact
<1> QED
  BY <1>1, <1>2, <1>3, <1>4

(* A call that failed is sent again as it was, or ends the operation with  *)
(* an error.                                                               *)
LEMMA FailedTransfers ==
  ASSUME ExactInv, Before, iosPc # "idle", NEW checksum \in BOOLEAN,
         Failed(checksum), stage = "SEL_FILE" => ~checksum,
         UNCHANGED <<req, spiVars, othersVars>>
  PROVE  TransferInv'
<1> USE DEF ExactInv
<1>1. ASSUME NEW tries, Again(tries), stage # "SEL_FILE"
      PROVE  TransferInv'
  <2>1. CallInv'
    BY <1>1 DEF Again, TransferInv, CallInv
  <2>2. Before'
    BY <1>1, SameBefore DEF Again, callVars, diskVars, othersVars, espVars
  <2> QED BY <1>1, <2>1, <2>2, SendsNext DEF Again
<1>2. ASSUME NEW err \in {"NOT_OPENED", "DISK_ERR", "UNEXPECTED_EOF"},
             EndOp(err), UNCHANGED curDisk
      PROVE  TransferInv'
  BY <1>2, EndsBadly
<1>3. (stage # "SEL_FILE" /\ \E tries : Again(tries))
        \/ (\E err \in {"NOT_OPENED", "DISK_ERR", "UNEXPECTED_EOF"} :
              EndOp(err) /\ UNCHANGED curDisk)
  BY DEF Failed, Return
<1> QED
  BY <1>1, <1>2, <1>3

(* The segments of a sector.                                               *)
LEMMA SegmentPlaces ==
  ASSUME NEW g \in Nat
  PROVE  /\ SegmentLen * (g + 1) = SegmentLen * g + SegmentLen
         /\ SegmentLen * g \in Nat
         /\ g < Segments => SegmentLen * g + SegmentLen <= BufLen
         /\ g + 1 = Segments <=> SegmentLen * g + SegmentLen = BufLen
BY SegmentsAssumption DEF SegmentLen, BufLen

(* All the chunks of the sector have been read.                            *)
LEMMA SectorComplete ==
  ASSUME TypeInv, req.kind = "read", req.disk \in Stored,
         BufLen <= Found, \A i \in 1 .. BufLen : bufferSD[i] = Wanted[i]
  PROVE  bufferSD = SectorOf(image[req.disk], req.sector)
<1> DEFINE img == image[req.disk]
<1>1. /\ req.sector \in Nat
      /\ Home \in Nat
      /\ img \in Seq(Chunk)
      /\ Found \in 0 .. BufLen
  BY OpType
<1>2. BufLen \in Nat \ {0} /\ Len(img) \in Nat
  BY <1>1, BufLenType, LenProperties
<1>3. Home + BufLen <= Len(img)
  BY <1>1, <1>2 DEF Found, CountAt, Min2
<1>4. SectorOf(img, req.sector) = [i \in 1 .. BufLen |-> img[Home + i]]
  <2> HIDE DEF img
  <2> QED BY <1>1, <1>3, WholeSector DEF Home
<1>5. bufferSD = [i \in 1 .. BufLen |-> bufferSD[i]]
  BY DEF TypeInv, TypeOK, IosTypeOK, Buffer
<1>6. \A i \in 1 .. BufLen : Wanted[i] = img[Home + i]
  <2> SUFFICES ASSUME NEW i \in 1 .. BufLen
               PROVE  Wanted[i] = img[Home + i]
    OBVIOUS
  <2>1. Home + i <= Len(img)
    BY <1>1, <1>2, <1>3
  <2> QED BY <2>1 DEF Wanted, ReadAt
<1> QED
  BY <1>4, <1>5, <1>6

(* The AVR makes what it is told of.                                       *)
LEMMA SucceededTransfers ==
  ASSUME ExactInv, iosPc = "poll", Succeeded, After(cmdData'),
         UNCHANGED <<req, spiVars, othersVars>>
  PROVE  TransferInv'
<1> USE DEF ExactInv
<1>1. UNCHANGED <<req, image, vd, vdData, serverVars, spiOut, vdStatus>>
  BY DEF othersVars, espVars, serverVars, spiVars
<1>2. Home' = Home /\ Wanted' = Wanted /\ Found' = Found /\ OnDisk' = OnDisk
  BY <1>1, SameOperation
<1>3. ServerAt => ServerAt'
  BY <1>1, <1>2 DEF ServerAt, serverVars
<1>4. /\ seg \in 0 .. Segments
      /\ offset \in 0 .. SegmentLen - 1
      /\ dataLen \in Nat
      /\ Segments \in Nat \ {0}
  BY SegmentsAssumption DEF TypeInv, TypeOK, IosTypeOK
<1>5. CallInv /\ WriteInv /\ SelectedInv /\ WholeInv
  BY DEF TransferInv
<1>6. StageFits
  BY DEF TypeInv
<1>7. CASE stage = "SEL_FILE"
  <2>1. /\ curDisk' = req.disk /\ EndOp("OK")
        /\ ServerHas(req.disk) /\ vdData.filename = req.disk
    BY <1>7 DEF Succeeded, After
  <2>2. req.kind = "select"
    BY <1>5, <1>7 DEF CallInv
  <2>3. CallInv'
    BY <2>1 DEF EndOp, CallInv
  <2>4. SelectedInv'
    BY <1>1, <2>1 DEF SelectedInv, ServerHas, serverVars
  <2>5. CommandInv'
    BY <1>1, <2>1 DEF EndOp, CommandInv, TransferInv
  <2>6. WriteInv' /\ WholeInv'
    BY <1>1, <1>5, SameWrite DEF spiVars, WholeInv
  <2>7. ReadExact' /\ WriteExact'
    BY <1>1, <2>2 DEF ReadExact, WriteExact
  <2> QED BY <2>3, <2>4, <2>5, <2>6, <2>7 DEF TransferInv
<1>8. CASE stage = "SEEK_FILE"
  <2>1. /\ GoOn(IF req.kind = "read" THEN "RD_FILE" ELSE "WR_FILE", 0)
        /\ ServerAt /\ vdData.dataLen = 0
    BY <1>8 DEF Succeeded, After
  <2>2. /\ iosPc' = "send" /\ curDisk' = curDisk
        /\ stage' = (IF req.kind = "read" THEN "RD_FILE" ELSE "WR_FILE")
        /\ seg' = 0 /\ offset' = 0 /\ dataLen' = 0
    BY <2>1 DEF GoOn, BeginCall
  <2>3. CallInv'
    BY <1>1, <1>5, <1>8, <2>1, <2>2 DEF GoOn, CallInv
  <2>4. req.disk \in Stored /\ Found \in 0 .. BufLen
    BY <1>6, <1>8, <2>1, OpType DEF ServerAt, StageFits
  <2>5. Before'
    BY <1>1, <1>2, <1>3, <2>1, <2>2, <2>4
    DEF Before, Got, Collected, SegmentLen
  <2> QED BY <2>2, <2>3, <2>5, SendsNext
<1>9. CASE stage = "RD_FILE"
  <2>1. iosPc' = "data" /\ UNCHANGED <<curDisk, pathSent, callVars, diskErr>>
    BY <1>1, <1>9 DEF Succeeded, callVars
  <2>2. CallInv'
    BY <1>1, <1>5, <1>9, <2>1 DEF CallInv, callVars
  <2>3. After(cmdData)'
    <3>1. PICK n : n = cmdData'
      OBVIOUS
    <3>2. After(n)'
      BY <1>1, <2>1, <3>1, SameAfter DEF diskVars
    <3> QED BY <3>1, <3>2 DEF After
  <2>4. CommandInv'
    BY <1>1, <2>1, <2>3 DEF CommandInv, TransferInv
  <2>5. WriteInv' /\ WholeInv' /\ SelectedInv'
    BY <1>1, <1>5, <2>1, SameWrite, SameSelected DEF spiVars, WholeInv
  <2> QED BY <2>1, <2>2, <2>4, <2>5, PendingExact DEF TransferInv
<1>10. CASE stage = "RD_NEXT" /\ dataLen < SegmentLen
  <2>1. EndOp("UNEXPECTED_EOF") /\ UNCHANGED curDisk
    BY <1>4, <1>10 DEF Succeeded, Return, SegmentLen
  <2> QED BY <2>1, EndsBadly
<1>11. CASE stage = "RD_NEXT" /\ ~(dataLen < SegmentLen)
  <2>1. /\ req.disk \in Stored
        /\ Got(seg, SegmentLen)
        /\ dataLen = SegmentLen /\ seg + 1 < Segments =>
             Buffered(seg + 1) \/ Exhausted
    BY <1>11 DEF After
  <2>2. dataLen = SegmentLen
    BY <1>4, <1>11, <2>1 DEF Got, SegmentLen
  <2>3. IF seg + 1 < Segments THEN GoOn("RD_FILE", seg + 1) ELSE Return({"OK"})
    BY <1>11 DEF Succeeded
  <2>4. /\ SegmentLen * (seg + 1) <= Found
        /\ \A i \in 1 .. SegmentLen * (seg + 1) : bufferSD[i] = Wanted[i]
    <3>1. seg \in Nat
      BY <1>4
    <3>2. SegmentLen * (seg + 1) = SegmentLen * seg + SegmentLen
      BY <3>1, SegmentPlaces
    <3> QED BY <2>1, <2>2, <3>2 DEF Got
  <2>5. req.kind = "read" /\ seg < Segments
    BY <1>5, <1>11 DEF CallInv
  <2>6. CASE seg + 1 < Segments
    <3>1. /\ iosPc' = "send" /\ curDisk' = curDisk
          /\ stage' = "RD_FILE" /\ seg' = seg + 1
          /\ offset' = 0 /\ dataLen' = 0 /\ bufferSD' = bufferSD
      BY <2>3, <2>6 DEF GoOn, BeginCall
    <3>2. CallInv'
      BY <1>1, <1>5, <1>11, <2>3, <2>5, <2>6, <3>1 DEF GoOn, CallInv
    <3>3. Got(seg, offset)'
      <4>1. SegmentLen * (seg + 1) + 0 = SegmentLen * (seg + 1)
        BY <1>4, SegmentPlaces
      <4> QED BY <1>2, <2>4, <3>1, <4>1 DEF Got
    <3>4. Buffered(seg)' \/ Exhausted'
      BY <1>1, <1>2, <2>1, <2>2, <2>6, <3>1 DEF Buffered, Exhausted, serverVars
    <3>5. Before'
      BY <1>1, <2>1, <3>1, <3>3, <3>4 DEF Before
    <3> QED BY <3>1, <3>2, <3>5, SendsNext
  <2>7. CASE ~(seg + 1 < Segments)
    <3>1. EndOp("OK") /\ curDisk' = curDisk
      BY <2>3, <2>7 DEF Return
    <3>2. seg + 1 = Segments
      BY <1>4, <2>5, <2>7
    <3>3. SegmentLen * (seg + 1) = BufLen
      BY <1>4, <3>2, SegmentPlaces DEF BufLen
    <3>4. bufferSD = SectorOf(image[req.disk], req.sector)
      BY <2>1, <2>4, <2>5, <3>3, SectorComplete
    <3>5. ReadExact'
      BY <1>1, <2>1, <3>1, <3>4 DEF ReadExact, EndOp
    <3>6. WriteExact'
      BY <1>1, <2>5 DEF WriteExact
    <3>7. CallInv' /\ CommandInv'
      BY <1>1, <3>1 DEF EndOp, CallInv, CommandInv, TransferInv
    <3>8. WriteInv' /\ WholeInv' /\ SelectedInv'
      BY <1>1, <1>5, <3>1, SameWrite, SameSelected DEF spiVars, WholeInv
    <3> QED BY <3>5, <3>6, <3>7, <3>8 DEF TransferInv
  <2> QED BY <2>6, <2>7
<1>12. CASE stage = "WR_FILE"
  <2>1. ServerAt /\ Collected(seg, offset + 1) /\ dataLen = offset
    BY <1>12 DEF After
  <2>2. /\ dataLen' = dataLen + 1
        /\ iosPc' = "send"
        /\ UNCHANGED <<curDisk, seg, pathSent, bufferSD, diskErr>>
        /\ IF SegmentDone
           THEN offset' = 0 /\ stage' = "WR_NEXT" /\ attempts' = 0
           ELSE offset' = offset + 1 /\ UNCHANGED <<stage, attempts>>
    BY <1>12 DEF Succeeded
  <2>3. seg < Segments
    BY <1>6, <1>12 DEF StageFits
  <2>4. CallInv'
    BY <1>1, <1>5, <1>12, <2>2 DEF CallInv
  <2>6. CASE SegmentDone
    <3>1. offset = 1
      BY <1>4, <2>6 DEF SegmentDone, SegmentLen
    <3>2. stage' = "WR_NEXT" /\ dataLen' = SegmentLen
      BY <2>1, <2>2, <2>6, <3>1 DEF SegmentLen
    <3>3. Collected(seg, SegmentLen)'
      BY <1>1, <2>1, <2>2, <3>1 DEF Collected, SegmentLen
    <3>4. Before'
      BY <1>3, <2>1, <2>2, <2>3, <3>2, <3>3 DEF Before
    <3> QED BY <2>2, <2>4, <3>4, SendsNext
  <2>7. CASE ~SegmentDone
    <3>1. offset = 0
      BY <1>4, <2>7 DEF SegmentDone, SegmentLen
    <3>2. stage' = "WR_FILE" /\ offset' = 1 /\ dataLen' = 1
      BY <1>12, <2>1, <2>2, <2>7, <3>1
    <3>3. Collected(seg, offset)'
      BY <1>1, <2>1, <2>2, <3>1, <3>2 DEF Collected
    <3>4. Before'
      BY <1>3, <2>1, <3>2, <3>3 DEF Before
    <3> QED BY <2>2, <2>4, <3>4, SendsNext
  <2> QED BY <2>6, <2>7
<1>13. CASE stage = "WR_NEXT"
  <2>1. IF seg + 1 < Segments THEN ServerAt /\ Collected(seg + 1, 0)
        ELSE OnDisk /\ vdData.filePos = 0
    BY <1>13 DEF After
  <2>2. IF seg + 1 < Segments THEN GoOn("WR_FILE", seg + 1)
        ELSE IF seg + 1 = Segments THEN GoOn("WR_NEXT", Segments)
        ELSE Return({"OK"})
    BY <1>13 DEF Succeeded
  <2>3. CASE seg + 1 < Segments
    <3>1. /\ iosPc' = "send" /\ curDisk' = curDisk /\ diskErr' = diskErr
          /\ stage' = "WR_FILE" /\ seg' = seg + 1 /\ offset' = 0 /\ dataLen' = 0
      BY <2>2, <2>3 DEF GoOn, BeginCall
    <3>2. CallInv'
      BY <1>1, <1>5, <1>13, <3>1 DEF CallInv
    <3>3. Collected(seg, offset)'
      BY <1>1, <2>1, <2>3, <3>1 DEF Collected
    <3>4. Before'
      BY <1>3, <2>1, <2>3, <3>1, <3>3 DEF Before
    <3> QED BY <3>1, <3>2, <3>4, SendsNext
  <2>4. CASE seg + 1 = Segments
    <3>1. /\ iosPc' = "send" /\ curDisk' = curDisk /\ diskErr' = diskErr
          /\ stage' = "WR_NEXT" /\ seg' = Segments /\ offset' = 0 /\ dataLen' = 0
      BY <1>4, <2>2, <2>4 DEF GoOn, BeginCall
    <3>2. CallInv'
      BY <1>1, <1>5, <1>13, <3>1 DEF CallInv
    <3>3. Before'
      BY <1>1, <1>2, <1>4, <2>1, <2>4, <3>1 DEF Before
    <3> QED BY <3>1, <3>2, <3>3, SendsNext
  <2>5. CASE seg + 1 > Segments
    <3>1. EndOp("OK") /\ curDisk' = curDisk /\ OnDisk
      BY <1>4, <2>1, <2>2, <2>5 DEF Return
    <3>2. req.kind = "write"
      BY <1>6, <1>13 DEF StageFits
    <3>3. ReadExact' /\ WriteExact'
      BY <1>1, <3>1, <3>2 DEF ReadExact, WriteExact, OnDisk
    <3>4. CallInv' /\ CommandInv'
      BY <1>1, <3>1 DEF EndOp, CallInv, CommandInv, TransferInv
    <3>5. WriteInv' /\ WholeInv' /\ SelectedInv'
      BY <1>1, <1>5, <3>1, SameWrite, SameSelected DEF spiVars, WholeInv
    <3> QED BY <3>3, <3>4, <3>5 DEF TransferInv
  <2> QED BY <1>4, <2>3, <2>4, <2>5
<1>14. stage \in {"SEL_FILE", "SEEK_FILE", "RD_FILE", "RD_NEXT", "WR_FILE", "WR_NEXT"}
  BY DEF Succeeded
<1> QED
  BY <1>7, <1>8, <1>9, <1>10, <1>11, <1>12, <1>13, <1>14

(* The packet of the current call, as it is and as it may arrive.          *)
LEMMA PacketFields ==
  ASSUME TypeInv, stage = "SEL_FILE" => ~pathSent
  PROVE  /\ Packet \in SpiPacket
         /\ Packet.cmd = stage
         /\ Packet.valid
         /\ stage = "SEL_FILE" => Packet.filename = req.disk
         /\ stage = "SEEK_FILE" => Packet.fileOffset = Home
         /\ stage \in {"RD_FILE", "WR_FILE"} => Packet.offset = offset /\ Packet.len = 1
         /\ stage = "WR_FILE" =>
              Packet.chunk = req.content[SegmentLen * seg + offset + 1]
         /\ stage \in {"RD_NEXT", "WR_NEXT"} => Packet.len = dataLen
<1>1. Packet \in SpiPacket /\ Packet.cmd = stage
  BY PacketType DEF TypeInv, TypeOK, IosTypes
<1>2. stage \in Stages
  BY DEF TypeInv, TypeOK, IosTypeOK
<1>3. CASE stage = "SEL_FILE"
  BY <1>1, <1>3 DEF Packet, SelFile, Command
<1>4. CASE stage = "SEEK_FILE"
  BY <1>1, <1>4 DEF Packet, SeekFile, Command, Home, SectorStartOf
<1>5. CASE stage = "RD_FILE"
  BY <1>1, <1>5 DEF Packet, RdFile, Command
<1>6. CASE stage = "RD_NEXT"
  BY <1>1, <1>6 DEF Packet, RdNext, Command
<1>7. CASE stage = "WR_FILE"
  <2> DEFINE c == req.content[SegmentLen * seg + offset + 1]
  <2>1. Packet = WrFile(offset, c)
    BY <1>7 DEF Packet
  <2> HIDE DEF c
  <2>2. /\ Packet.valid /\ Packet.offset = offset /\ Packet.len = 1
        /\ Packet.chunk = c
    BY <2>1 DEF WrFile, Command
  <2> QED BY <1>1, <1>7, <2>2 DEF c
<1>8. CASE stage = "WR_NEXT"
  BY <1>1, <1>8 DEF Packet, WrNext, Command
<1> QED
  BY <1>2, <1>3, <1>4, <1>5, <1>6, <1>7, <1>8 DEF Stages, Commands

(* A packet arrives as it was sent, or as damaged in its payload or        *)
(* checksum.                                                               *)
LEMMA PacketSent ==
  ASSUME CleanLinks, TypeInv, CallInv, Send
  PROVE  /\ Sent'
         /\ spiStatus' = BusyStatus
         /\ UNCHANGED <<spiOut, callVars>>
<1> DEFINE Bad == [Packet EXCEPT !.chunk = BadChunk, !.valid = FALSE]
<1>1. iosPc = "send" /\ UNCHANGED callVars
  BY DEF Send, callVars
<1>2. stage = "SEL_FILE" => ~pathSent
  BY <1>1 DEF CallInv
<1>3. PICK p : /\ SPIOnData(p)
               /\ p = Packet \/ (stage \in Corruptible /\ p \in Damaged(Packet))
  BY DEF Send
<1>4. spiBuf' = p /\ spiStatus' = BusyStatus /\ UNCHANGED spiOut
  BY <1>3 DEF SPIOnData
<1>5. Home' = Home
  BY <1>1 DEF Home, callVars
<1>6. p = Packet \/ (p = Bad /\ stage # "SEL_FILE")
  <2>1. "offset" \notin Corruptions /\ "cmd" \notin Corruptions
    BY DEF CleanLinks
  <2>2. stage \in Corruptible => stage # "SEL_FILE"
    BY DEF CleanLinks
  <2>3. Damaged(Packet) \subseteq {[[Packet EXCEPT !.chunk = BadChunk] EXCEPT !.valid = FALSE]}
    <3> HIDE DEF Bad
    <3> QED BY <2>1 DEF Damaged
  <2>4. Bad = [[Packet EXCEPT !.chunk = BadChunk] EXCEPT !.valid = FALSE]
    BY <1>2, PacketFields DEF SpiPacket
  <2> QED BY <1>3, <2>2, <2>3, <2>4
<1>7. CASE p = Packet
  <2> HIDE DEF Bad
  <2> QED BY <1>1, <1>2, <1>4, <1>5, <1>7, PacketFields DEF Sent, callVars
<1>8. CASE p = Bad /\ stage # "SEL_FILE"
  <2>1. /\ Bad.cmd = Packet.cmd /\ Bad.filename = Packet.filename
        /\ Bad.offset = Packet.offset /\ Bad.len = Packet.len
        /\ Bad.fileOffset = Packet.fileOffset
        /\ ~Bad.valid
    BY <1>2, PacketFields DEF SpiPacket
  <2> HIDE DEF Bad
  <2> QED BY <1>1, <1>2, <1>4, <1>5, <1>8, <2>1, PacketFields DEF Sent, callVars
<1> QED
  BY <1>1, <1>4, <1>6, <1>7, <1>8

(* Send: what was true before the command is, while its packet waits.      *)
LEMMA SendTransfers ==
  ASSUME CleanLinks, ExactInv, Send, UNCHANGED othersVars
  PROVE  TransferInv'
<1> USE DEF ExactInv
<1>1. CallInv /\ SelectedInv /\ WholeInv
  BY DEF TransferInv
<1>2. /\ Sent'
      /\ spiStatus' = BusyStatus
      /\ UNCHANGED callVars
  BY <1>1, PacketSent
<1>3. /\ iosPc = "send" /\ iosPc' = "poll"
      /\ UNCHANGED <<req, curDisk, stage, seg, offset, dataLen, diskErr>>
  BY DEF Send
<1>4. CallInv'
  BY <1>1, <1>3 DEF CallInv
<1>5. Before /\ Quiet
  BY <1>3 DEF AnswerInv, TransferInv, CommandInv
<1>6. Before'
  BY <1>2, <1>5, SameBefore DEF diskVars, othersVars, espVars
<1>7. espPc' \in {"loop", "clear"} /\ c2s' = <<>>
  BY <1>5 DEF Quiet, EspSettled, LockStep, othersVars, espVars, tcpVars
<1>8. CommandInv'
  BY <1>2, <1>3, <1>6, <1>7
  DEF CommandInv, TransferInv, BusyStatus, othersVars, espVars
<1>9. SelectedInv' /\ WholeInv'
  BY <1>1, <1>3, SameSelected DEF WholeInv, othersVars, serverVars
<1>10. WriteInv'
  <2> SUFFICES ASSUME spiBuf'.cmd = "WR_NEXT", spiBuf'.valid,
                      vdData'.filePos + spiBuf'.len = BufLen
               PROVE  /\ Writable'
                      /\ vd'.cmd = "WR_FILE" /\ vd'.filename = req'.disk
                      /\ vdData'.data = req'.content
    BY <1>7 DEF WriteInv
  <2>1. stage = "WR_NEXT" /\ spiBuf'.len = dataLen
    BY <1>2, <1>3 DEF Sent
  <2>2. UNCHANGED <<vd, vdData, serverVars, req>>
    BY <1>3 DEF othersVars, espVars
  <2>3. vdData.filePos + dataLen = BufLen
    BY <2>1, <2>2
  <2>4. /\ seg \in Nat /\ BufLen \in Nat \ {0}
        /\ req.kind = "write"
        /\ req.content \in Buffer /\ vdData.data \in Buffer
        /\ req.disk \in Disks /\ req.disk # NoName
    BY <2>1, BufLenType, ReqType, NamesAssumption
    DEF TypeInv, TypeOK, IosTypeOK, EspTypeOK, SectorBuffer, StageFits
  <2>5. seg < Segments
    BY <1>5, <2>1, <2>3, <2>4 DEF Before
  <2>6. ServerAt /\ Collected(seg, SegmentLen) /\ dataLen = SegmentLen
    BY <1>5, <2>1, <2>5 DEF Before
  <2>7. seg + SegmentLen > 0
    BY <2>4 DEF SegmentLen
  <2>8. /\ vdData.filePos = SegmentLen * seg
        /\ vd.cmd = "WR_FILE" /\ vd.filename = req.disk
        /\ \A i \in 1 .. SegmentLen * seg + SegmentLen :
             vdData.data[i] = req.content[i]
    BY <2>6, <2>7 DEF Collected
  <2>9. SegmentLen * seg + SegmentLen = BufLen
    BY <2>3, <2>6, <2>8
  <2>10. vdData.data = req.content
    BY <2>4, <2>8, <2>9 DEF Buffer
  <2>11. ServerHas(req.disk)
    BY <1>1, <1>3, <2>1, <2>4 DEF CallInv, SelectedInv
  <2>12. Writable'
    BY <2>2, <2>4, <2>6, <2>11 DEF Writable, ServerAt, ServerHas, Home, serverVars
  <2> QED BY <2>2, <2>8, <2>10, <2>12
<1> QED
  BY <1>3, <1>4, <1>8, <1>9, <1>10, PendingExact DEF TransferInv

(* ReadData: a chunk whose checksum is right is the one of the place it is *)
(* stored at.                                                              *)
LEMMA ReadDataTransfers ==
  ASSUME ExactInv, ReadData, UNCHANGED othersVars
  PROVE  TransferInv'
<1> USE DEF ExactInv
<1>1. /\ iosPc = "data" /\ iosPc' = "send"
      /\ UNCHANGED <<req, curDisk, seg, pathSent, diskErr, spiVars>>
  BY DEF ReadData
<1>2. stage = "RD_FILE" /\ seg < Segments
  BY <1>1 DEF TypeInv, StageFits
<1>3. After(cmdData)
  BY <1>1 DEF TransferInv, CommandInv
<1>4. /\ req.disk \in Stored
      /\ cmdData = spiOut.len
      /\ Got(seg, offset)
      /\ \/ /\ Buffered(seg)
            /\ cmdData = 1 =>
                 /\ SegmentLen * seg + offset < Found
                 /\ spiOut.chunk = Wanted[SegmentLen * seg + offset + 1]
         \/ Exhausted /\ dataLen = 0 /\ cmdData = 0
  BY <1>2, <1>3 DEF After
<1>5. /\ seg \in Nat /\ offset \in 0 .. 1
      /\ dataLen \in Nat
      /\ spiOut.len \in {0, 1}
      /\ bufferSD \in Buffer
  BY DEF TypeInv, TypeOK, IosTypeOK, SpiTypeOK, OutPacket, SegmentLen
<1>6. CallInv
  BY DEF TransferInv
<1>7. UNCHANGED <<req, image, vd, vdData, serverVars>>
  BY <1>1 DEF othersVars, espVars, serverVars
<1>8. /\ Home' = Home /\ Wanted' = Wanted /\ Found' = Found
      /\ Buffered(seg) => Buffered(seg)'
      /\ Exhausted => Exhausted'
  <2>1. Home' = Home /\ Wanted' = Wanted /\ Found' = Found
    BY <1>7, SameOperation
  <2> QED BY <1>1, <1>7, <2>1 DEF Buffered, Exhausted, serverVars
<1>9. CASE UNCHANGED <<bufferSD, dataLen, offset, stage>>
  <2>1. CallInv'
    BY <1>1, <1>2, <1>6, <1>9 DEF CallInv
  <2>2. Got(seg, offset)'
    BY <1>1, <1>4, <1>8, <1>9 DEF Got
  <2>3. Before'
    BY <1>1, <1>2, <1>4, <1>7, <1>8, <1>9, <2>2 DEF Before
  <2> QED BY <1>1, <2>1, <2>3, SendsNext
<1>10. ASSUME bufferSD' = IF cmdData = 0 THEN bufferSD
                          ELSE [bufferSD EXCEPT ![SegmentLen * seg + offset + 1] =
                                  IF spiOut.len = 1 THEN spiOut.chunk ELSE BadChunk],
              dataLen' = dataLen + cmdData,
              IF SegmentDone THEN offset' = 0 /\ stage' = "RD_NEXT"
              ELSE offset' = offset + 1 /\ UNCHANGED stage
       PROVE  TransferInv'
  <2> DEFINE g == SegmentLen * seg
             k == offset + 1
             HasChunks(n) == \A i \in 1 .. n : bufferSD[i] = Wanted[i]
             NowHasChunks(n) == \A i \in 1 .. n : bufferSD'[i] = Wanted[i]
  <2>1. g \in Nat /\ k \in 1 .. 2
    BY <1>5, SegmentPlaces
  <2>2. CallInv'
    BY <1>1, <1>2, <1>6, <1>10 DEF CallInv
  <2> HIDE DEF g
  <2>3. g + offset < BufLen
    <3>1. g + SegmentLen <= BufLen
      BY <1>2, <1>5, SegmentPlaces DEF g
    <3> QED BY <1>5, <2>1, <3>1, BufLenType DEF SegmentLen
  <2>4. /\ g <= Found
        /\ HasChunks(g)
        /\ dataLen <= offset
        /\ dataLen = offset => g + offset <= Found /\ HasChunks(g + offset)
    BY <1>4 DEF Got, g
  <2>5. Found \in 0 .. BufLen /\ BufLen \in Nat
    BY <1>2, <1>4, <1>6, OpType, BufLenType DEF CallInv
  <2>6. /\ NowHasChunks(g)
        /\ dataLen' <= k
        /\ dataLen' = k => g + k <= Found /\ NowHasChunks(g + k)
    <3>1. CASE cmdData = 0
      BY <1>5, <1>10, <2>4, <3>1
    <3>2. CASE cmdData = 1
      <4>1. /\ g + offset < Found
            /\ spiOut.chunk = Wanted[g + offset + 1]
        BY <1>4, <3>2 DEF g
      <4>2. bufferSD' = [bufferSD EXCEPT ![g + offset + 1] = spiOut.chunk]
        BY <1>4, <1>10, <3>2 DEF g
      <4>3. g + offset + 1 \in 1 .. BufLen
        BY <1>5, <2>1, <2>3, <2>5
      <4>4. bufferSD'[g + offset + 1] = Wanted[g + offset + 1]
        BY <1>5, <4>1, <4>2, <4>3 DEF Buffer
      <4>5. \A i \in 1 .. g + offset : bufferSD'[i] = bufferSD[i]
        BY <1>5, <2>1, <2>3, <2>5, <4>2 DEF Buffer
      <4>6. NowHasChunks(g)
        BY <1>5, <2>1, <2>4, <4>5
      <4>7. dataLen' = dataLen + 1
        BY <1>10, <3>2
      <4>8. ASSUME dataLen = offset
            PROVE  g + k <= Found /\ NowHasChunks(g + k)
        <5>1. HasChunks(g + offset)
          BY <2>4, <4>8
        <5>2. NowHasChunks(g + offset)
          BY <4>5, <5>1
        <5>3. NowHasChunks(g + k)
          <6> SUFFICES ASSUME NEW i \in 1 .. g + k
                       PROVE  bufferSD'[i] = Wanted[i]
            OBVIOUS
          <6>1. i \in 1 .. g + offset \/ i = g + offset + 1
            BY <1>5, <2>1
          <6> QED BY <4>4, <5>2, <6>1
        <5> QED BY <1>5, <2>1, <2>5, <4>1, <5>3
      <4> QED BY <1>5, <2>4, <4>6, <4>7, <4>8
    <3> QED BY <1>4, <1>5, <3>1, <3>2
  <2> HIDE DEF k
  <2>7. CASE SegmentDone
    <3>1. k = SegmentLen /\ stage' = "RD_NEXT"
      BY <1>5, <1>10, <2>7 DEF SegmentDone, SegmentLen, k
    <3>2. Got(seg, SegmentLen)'
      BY <1>1, <1>8, <2>4, <2>6, <3>1 DEF Got, g
    <3>3. dataLen' = 0 \/ Buffered(seg)'
      BY <1>4, <1>8, <1>10
    <3>4. Before'
      BY <1>4, <1>7, <1>8, <3>1, <3>2, <3>3 DEF Before
    <3> QED BY <1>1, <2>2, <3>4, SendsNext
  <2>8. CASE ~SegmentDone
    <3>1. stage' = "RD_FILE" /\ offset' = k
      BY <1>2, <1>10, <2>8 DEF k
    <3>2. Got(seg, offset)'
      BY <1>1, <1>8, <2>4, <2>6, <3>1 DEF Got, g
    <3>3. Buffered(seg)' \/ (Exhausted' /\ dataLen' = 0)
      BY <1>4, <1>8, <1>10
    <3>4. Before'
      BY <1>4, <1>7, <3>1, <3>2, <3>3 DEF Before
    <3> QED BY <1>1, <2>2, <3>4, SendsNext
  <2> QED BY <2>7, <2>8
<1> QED
  BY <1>9, <1>10 DEF ReadData

(* A step of the AVR.                                                      *)
LEMMA IosTransfers ==
  ASSUME CleanLinks, ExactInv, Ios
  PROVE  TransferInv'
<1> USE DEF ExactInv
<1>1. IosStep /\ UNCHANGED othersVars
  BY DEF Ios, othersVars
<1>2. CallInv /\ SelectedInv /\ CommandInv /\ WriteInv /\ WholeInv
  BY DEF TransferInv
<1>3. CASE Start
  <2>1. /\ iosPc = "idle" /\ iosPc' = "send"
        /\ stage' \in {"SEL_FILE", "SEEK_FILE"}
        /\ curDisk' \in {curDisk, NoName}
        /\ diskErr' = "PENDING"
        /\ UNCHANGED spiVars
    BY <1>3 DEF Start, StartOp, StartSelect, StartTransfer, BeginCall
  <2>2. Quiet
    BY <1>3, <2>1 DEF Start, AnswerInv, CleanLinks, Quiet
  <2>3. CallInv'
    <3>1. CASE StartSelect
      BY <1>3, <2>1, <3>1 DEF StartSelect, BeginCall, CallInv, SelectReq
    <3>2. CASE StartTransfer
      BY <1>3, <2>1, <3>2 DEF StartTransfer, BeginCall, CallInv
    <3> QED BY <1>3, <3>1, <3>2 DEF Start, StartOp
  <2>4. Before'
    BY <2>1 DEF Before
  <2>5. WriteInv'
    BY <2>1, <2>2, <1>1
    DEF WriteInv, Quiet, EspSettled, LockStep, othersVars, espVars, tcpVars, spiVars
  <2>6. CommandInv'
    BY <1>1, <1>2, <2>1, <2>4 DEF CommandInv, othersVars, espVars
  <2>7. SelectedInv' /\ WholeInv'
    BY <1>1, <1>2, <2>1, SameSelected DEF WholeInv, othersVars, serverVars
  <2> QED BY <2>1, <2>3, <2>5, <2>6, <2>7, PendingExact DEF TransferInv
<1>4. CASE Abandon
  BY <1>1, <1>4, EndsBadly DEF Abandon
<1>5. CASE Reset
  BY <1>1, <1>5, EndsBadly DEF Reset
<1>6. CASE Send
  BY <1>1, <1>6, SendTransfers
<1>7. CASE Poll
  <2>1. /\ iosPc = "poll" /\ spiStatus.status # "BUSY"
        /\ cmdData' = spiStatus.cmd_data
        /\ UNCHANGED <<req, spiVars>>
    BY <1>7 DEF Poll
  <2>2. Answered(spiStatus)
    BY <1>2, <2>1 DEF CommandInv
  <2>3. CASE spiStatus.status = "READY" /\ spiStatus.cmd_status = 0
    <3>1. Succeeded
      BY <1>7, <2>3 DEF Poll
    <3>2. After(cmdData')
      BY <2>1, <2>2, <2>3 DEF Answered
    <3> QED BY <1>1, <2>1, <3>1, <3>2, SucceededTransfers
  <2>4. CASE ~(spiStatus.status = "READY" /\ spiStatus.cmd_status = 0)
    <3>1. Failed(spiStatus.status = "CHKSUM_ERR")
      BY <1>7, <2>4 DEF Poll
    <3>2. Before /\ (stage = "SEL_FILE" => spiStatus.status = "READY")
      BY <2>2, <2>4 DEF Answered
    <3> DEFINE c == spiStatus.status = "CHKSUM_ERR"
    <3>3. c \in BOOLEAN /\ Failed(c) /\ (stage = "SEL_FILE" => ~c)
      BY <3>1, <3>2
    <3> HIDE DEF c
    <3> QED BY <1>1, <2>1, <3>2, <3>3, FailedTransfers
  <2> QED BY <2>3, <2>4
<1>8. CASE ReadData
  BY <1>1, <1>8, ReadDataTransfers
<1>9. CASE LoseLastPoll
  <2>1. /\ iosPc = "poll" /\ iosPc' = "expired"
        /\ spiStatus.status = "BUSY"
        /\ espPc = "loop"
        /\ UNCHANGED <<req, curDisk, diskErr, pathSent, callVars, spiVars>>
    BY <1>9 DEF LoseLastPoll, LastPoll, EspSettled, callVars
  <2>2. CallInv'
    BY <1>2, <2>1 DEF CallInv, callVars
  <2>3. Before'
    BY <1>1, <1>2, <2>1, SameBefore DEF CommandInv, diskVars, othersVars, espVars
  <2>4. CommandInv'
    BY <1>1, <1>2, <2>1, <2>3 DEF CommandInv, othersVars, espVars
  <2>5. WriteInv' /\ SelectedInv' /\ WholeInv'
    BY <1>1, <1>2, <2>1, SameWrite, SameSelected
    DEF spiVars, WholeInv, othersVars, serverVars
  <2> QED BY <2>1, <2>2, <2>4, <2>5, PendingExact DEF TransferInv
<1>10. CASE Expire
  <2>1. iosPc = "expired" /\ Failed(FALSE) /\ UNCHANGED <<req, spiVars>>
    BY <1>10 DEF Expire
  <2>2. Before
    BY <1>2, <2>1 DEF CommandInv
  <2> QED BY <1>1, <2>1, <2>2, FailedTransfers
<1>11. ~StalledLastPoll
  BY DEF StalledLastPoll, CleanLinks
<1> QED
  BY <1>1, <1>3, <1>4, <1>5, <1>6, <1>7, <1>8, <1>9, <1>10, <1>11
  DEF IosStep, IosRun
-----------------------------------------------------------------------------
(* What a step of the ESP8266 leaves alone.                                *)
LEMMA EspKeeps ==
  ASSUME ExactInv, UNCHANGED <<iosVars, serverVars>>
  PROVE  /\ CallInv' /\ WholeInv' /\ ReadExact' /\ WriteExact'
         /\ UNCHANGED <<callVars, curDisk, iosPc, image>>
         /\ Home' = Home /\ Wanted' = Wanted /\ Found' = Found /\ OnDisk' = OnDisk
         /\ ServerAt => ServerAt'
         /\ \A d : ServerHas(d) => ServerHas(d)'
<1>1. CallInv /\ WholeInv /\ ReadExact /\ WriteExact
  BY DEF ExactInv, TransferInv
<1>2. UNCHANGED <<req, image, callVars, curDisk, iosPc>>
  BY DEF iosVars, serverVars, callVars
<1>3. Home' = Home /\ Wanted' = Wanted /\ Found' = Found /\ OnDisk' = OnDisk
  BY <1>2, SameOperation
<1>4. CallInv'
  BY <1>1 DEF CallInv, iosVars
<1>5. WholeInv'
  BY <1>1, <1>2 DEF WholeInv
<1>6. ReadExact' /\ WriteExact'
  BY <1>1 DEF ReadExact, WriteExact, iosVars, serverVars
<1>7. ServerAt => ServerAt'
  BY <1>2, <1>3 DEF ServerAt, serverVars
<1>8. \A d : ServerHas(d) => ServerHas(d)'
  BY DEF ServerHas, serverVars
<1> QED
  BY <1>2, <1>3, <1>4, <1>5, <1>6, <1>7, <1>8

(* A packet the ESP8266 finds is the one the AVR has just sent, or one     *)
(* from before its reset.                                                  *)
LEMMA EspFinds ==
  ASSUME ExactInv, espPc = "loop", spiDataRcvd
  PROVE  /\ c2s = <<>> /\ s2c = <<>>
         /\ iosPc = "poll" \/ (iosPc = "idle" /\ curDisk = NoName)
         /\ iosPc = "poll" =>
              /\ spiStatus.status = "BUSY"
              /\ Sent
              /\ Before
              /\ stage # "SEL_FILE" => /\ ServerHas(req.disk)
                                       /\ vdData.filename = req.disk
<1>1. TypeInv /\ LockStep /\ AnswerInv /\ CallInv /\ SelectedInv /\ CommandInv
  BY DEF ExactInv, TransferInv
<1>2. ~Quiet
  BY DEF Quiet, EspSettled
<1>3. \/ iosPc = "poll" /\ spiStatus.status = "BUSY"
      \/ iosPc = "idle" /\ curDisk = NoName
  BY <1>1, <1>2, Busy
<1>4. c2s = <<>> /\ s2c = <<>>
  BY <1>1 DEF LockStep
<1>5. req.disk # NoName
  BY <1>1, ReqType, NamesAssumption DEF TypeInv, TypeOK, IosTypeOK
<1> QED
  BY <1>1, <1>3, <1>4, <1>5 DEF CommandInv, CallInv, SelectedInv

(* It answers without asking the server.                                   *)
LEMMA EspActs ==
  ASSUME ExactInv, espPc = "loop", spiDataRcvd, espPc' = "ack",
         vdStatus'.status # "BUSY", vdData'.filename = vdData.filename,
         UNCHANGED <<iosVars, serverVars, tcpVars, spiStatus, spiBuf, spiDataRcvd>>,
         iosPc = "poll" => Answered(vdStatus)'
  PROVE  TransferInv'
<1>1. /\ c2s' = <<>>
      /\ iosPc = "poll" => spiStatus'.status = "BUSY" /\ Sent
      /\ iosPc \in {"poll", "idle"}
  BY EspFinds DEF tcpVars
<1>2. WriteInv'
  BY <1>1 DEF WriteInv
<1>3. SelectedInv'
  BY EspKeeps DEF ExactInv, TransferInv, SelectedInv
<1>4. iosPc = "poll" => Sent'
  BY <1>1, EspKeeps DEF Sent, callVars
<1>5. CommandInv'
  BY <1>1, <1>4, EspKeeps DEF CommandInv
<1> QED
  BY <1>2, <1>3, <1>5, EspKeeps DEF TransferInv

(* It sends the server a request.                                          *)
LEMMA EspAsks ==
  ASSUME ExactInv, espPc = "loop", spiDataRcvd, NEW p, Call(p),
         curDisk # NoName => vdData'.filename = vdData.filename,
         p.cmd = "WR_FILE" =>
           Writable /\ p.filename = req.disk /\ p.data = req.content,
         UNCHANGED <<iosVars, serverVars, spiVars>>,
         iosPc = "poll" => During'
  PROVE  TransferInv'
<1>1. /\ iosPc = "poll" => spiStatus'.status = "BUSY" /\ Sent
      /\ iosPc \in {"poll", "idle"}
      /\ c2s = <<>> /\ s2c = <<>>
  BY EspFinds DEF spiVars
<1>2. /\ espPc' = "wait" /\ UNCHANGED vdStatus
      /\ c2s' # <<>> /\ s2c' = <<>> /\ Request' = p
  BY <1>1, CallQueue DEF Call, Request
<1>3. WriteInv'
  <2>1. Writable => Writable'
    BY EspKeeps DEF Writable, callVars
  <2> QED BY <1>2, <2>1, EspKeeps DEF WriteInv, callVars
<1>4. SelectedInv'
  BY EspKeeps DEF ExactInv, TransferInv, SelectedInv
<1>5. iosPc = "poll" => Sent'
  BY <1>1, EspKeeps DEF Sent, callVars, spiVars
<1>6. CommandInv'
  BY <1>1, <1>2, <1>5, EspKeeps DEF CommandInv, ExactInv, TransferInv
<1> QED
  BY <1>3, <1>4, <1>6, EspKeeps DEF TransferInv

(* It finds the packet damaged and does nothing.                           *)
LEMMA EspRejects ==
  ASSUME ExactInv, NEW cmd, NEW n, Rejects(cmd, n),
         UNCHANGED <<iosVars, serverVars, spiVars, tcpVars, vd, vdData>>
  PROVE  TransferInv'
<1>1. /\ espPc = "loop" /\ spiDataRcvd /\ ~spiBuf.valid
      /\ espPc' = "ack"
      /\ vdStatus'.status = "CHKSUM_ERR"
  BY DEF Rejects, Received, ChecksumError
<1>2. ASSUME iosPc = "poll"
      PROVE  Answered(vdStatus)'
  <2>1. Before /\ stage # "SEL_FILE"
    BY <1>1, <1>2, EspFinds DEF Sent
  <2>2. Before'
    BY <2>1, EspKeeps, SameBefore DEF diskVars
  <2>3. stage' # "SEL_FILE"
    BY <2>1, EspKeeps DEF callVars
  <2> QED BY <1>1, <2>2, <2>3 DEF Answered
<1> QED
  BY <1>1, <1>2, EspActs DEF spiVars

(* EspSelect: the request goes to the server with the name the AVR has     *)
(* sent.                                                                   *)
LEMMA SelectTransfers ==
  ASSUME ExactInv, EspSelect, UNCHANGED <<iosVars, serverVars>>
  PROVE  TransferInv'
<1>1. CASE Rejects("SEL_FILE", 0)
  BY <1>1, EspRejects DEF EspSelect, Accepts, Rejects
<1>2. CASE Accepts("SEL_FILE")
  <2> DEFINE p == [vd EXCEPT !.cmd = "SEL_FILE", !.filename = spiBuf.filename]
  <2>1. /\ vdData' = [vdData EXCEPT !.filename = spiBuf.filename,
                                    !.filePos = 0, !.dataLen = 0]
        /\ Call(p)
        /\ UNCHANGED spiVars
        /\ espPc = "loop" /\ spiDataRcvd /\ spiBuf.cmd = "SEL_FILE"
    BY <1>2 DEF EspSelect, Accepts, Rejects, Received
  <2>2. p.cmd = "SEL_FILE" /\ p.filename = spiBuf.filename
        /\ vdData'.filename = spiBuf.filename
    BY <2>1 DEF ExactInv, TypeInv, TypeOK, EspTypeOK, TcpPacket, SectorBuffer
  <2> HIDE DEF p
  <2>3. ASSUME iosPc = "poll"
        PROVE  stage = "SEL_FILE" /\ spiBuf.filename = req.disk /\ curDisk = NoName
    BY <2>1, <2>3, EspFinds DEF Sent, ExactInv, TransferInv, CallInv
  <2>4. c2s' # <<>> /\ Request' = p
    BY <2>1, EspFinds, CallQueue DEF Request
  <2>5. iosPc = "poll" => During'
    BY <2>2, <2>3, <2>4, EspKeeps DEF During, RequestIs, callVars
  <2>6. curDisk = NoName
    BY <2>1, <2>3, EspFinds
  <2> QED BY <2>1, <2>2, <2>5, <2>6, EspAsks
<1> QED
  BY <1>1, <1>2 DEF EspSelect

(* EspSeek: the buffered sector is dropped, the position goes to the       *)
(* server.                                                                 *)
LEMMA SeekTransfers ==
  ASSUME ExactInv, EspSeek, UNCHANGED <<iosVars, serverVars>>
  PROVE  TransferInv'
<1>1. /\ vdData' = [vdData EXCEPT !.dataLen = 0]
      /\ UNCHANGED spiVars
      /\ espPc = "loop" /\ spiDataRcvd /\ spiBuf.cmd = "SEEK_FILE"
  BY DEF EspSeek, DropBuffer, Accepts, Rejects, Received
<1>2. vdData'.dataLen = 0 /\ vdData'.filename = vdData.filename
  BY <1>1 DEF ExactInv, TypeInv, TypeOK, EspTypeOK, SectorBuffer
<1>3. ASSUME iosPc = "poll"
      PROVE  /\ stage = "SEEK_FILE" /\ spiBuf.fileOffset = Home
             /\ vdData.filename = req.disk
  BY <1>1, <1>3, EspFinds DEF Sent
<1>4. CASE Rejects("SEEK_FILE", 0)
  <2>1. /\ espPc' = "ack" /\ UNCHANGED tcpVars
        /\ vdStatus'.status = "CHKSUM_ERR"
    BY <1>4 DEF EspSeek, Accepts, Rejects, ChecksumError
  <2>2. iosPc = "poll" => Answered(vdStatus)'
    BY <1>3, <2>1, EspKeeps DEF Answered, Before, callVars
  <2> QED BY <1>1, <1>2, <2>1, <2>2, EspActs DEF spiVars
<1>5. CASE Accepts("SEEK_FILE")
  <2> DEFINE p == [vd EXCEPT !.cmd = "SEEK_FILE", !.filename = vdData.filename,
                             !.fileOffset = spiBuf.fileOffset]
  <2>1. Call(p)
    BY <1>5 DEF EspSeek, Accepts, Rejects
  <2>2. /\ p.cmd = "SEEK_FILE" /\ p.filename = vdData.filename
        /\ p.fileOffset = spiBuf.fileOffset
    BY DEF ExactInv, TypeInv, TypeOK, EspTypeOK, TcpPacket
  <2> HIDE DEF p
  <2>3. c2s' # <<>> /\ s2c' = <<>> /\ Request' = p
    BY <1>1, <2>1, EspFinds, CallQueue DEF Request
  <2>4. iosPc = "poll" => During'
    BY <1>2, <1>3, <2>2, <2>3, EspKeeps DEF During, RequestIs, callVars
  <2> QED BY <1>1, <1>2, <2>1, <2>2, <2>4, EspAsks
<1> QED
  BY <1>4, <1>5 DEF EspSeek

(* What the ESP8266 delivers of a buffered sector.                         *)
LEMMA OutOfSector ==
  ASSUME NEW b \in SectorBuffer, NEW g \in Nat, NEW o \in Nat,
         b.filePos = SegmentLen * g
  PROVE  /\ Out(b, o).len \in {0, 1}
         /\ Out(b, o).len = 1 =>
              /\ SegmentLen * g + o < b.dataLen
              /\ Out(b, o).chunk = b.data[SegmentLen * g + o + 1]
BY DEF Out

(* EspRead: the chunk comes out of the buffered sector, or the sector is   *)
(* asked for.                                                              *)
LEMMA ReadTransfers ==
  ASSUME ExactInv, EspRead, UNCHANGED <<iosVars, serverVars>>
  PROVE  TransferInv'
<1>1. CASE Rejects("RD_FILE", spiBuf.len)
  BY <1>1, EspRejects DEF EspRead, Accepts, Rejects
<1>2. CASE Accepts("RD_FILE")
  <2>1. /\ espPc = "loop" /\ spiDataRcvd /\ spiBuf.cmd = "RD_FILE"
        /\ UNCHANGED <<spiStatus, spiBuf, spiDataRcvd, vdData>>
    BY <1>2 DEF EspRead, Accepts, Rejects, Received, spiVars
  <2>2. /\ seg \in Nat /\ offset \in Nat /\ dataLen \in Nat
        /\ vdData \in SectorBuffer
        /\ vd \in TcpPacket
    BY DEF ExactInv, TypeInv, TypeOK, IosTypeOK, EspTypeOK, SegmentLen
  <2>3. ASSUME iosPc = "poll"
        PROVE  /\ stage = "RD_FILE" /\ spiBuf.offset = offset
               /\ vdData.filename = req.disk
               /\ req.disk \in Stored
               /\ Got(seg, offset)
               /\ \/ ServerAt /\ vdData.dataLen = 0 /\ seg = 0 /\ offset = 0
                  \/ Buffered(seg)
                  \/ Exhausted /\ dataLen = 0
    BY <2>1, <2>3, EspFinds DEF Sent, Before
  <2>4. CASE vdData.dataLen = 0
    <3> DEFINE p == [vd EXCEPT !.cmd = "RD_FILE", !.filename = vdData.filename]
    <3>1. Call(p) /\ UNCHANGED spiVars
      BY <1>2, <2>4 DEF EspRead, Accepts, Rejects
    <3>2. p.cmd = "RD_FILE" /\ p.filename = vdData.filename
      BY <2>2 DEF TcpPacket
    <3> HIDE DEF p
    <3>3. c2s' # <<>> /\ s2c' = <<>> /\ Request' = p
      BY <2>1, <3>1, EspFinds, CallQueue DEF Request
    <3>4. ASSUME iosPc = "poll"
          PROVE  During'
      <4>1. (ServerAt /\ seg = 0 /\ offset = 0) \/ (Exhausted /\ dataLen = 0)
        <5>1. SegmentLen * seg \in Nat
          BY <2>2, SegmentPlaces
        <5>2. ~Buffered(seg)
          BY <2>4, <5>1 DEF Buffered
        <5> QED BY <2>3, <3>4, <5>2
      <4>2. dataLen = 0
        BY <2>2, <2>3, <3>4, <4>1 DEF Got
      <4>3. Got(seg, offset)'
        BY <2>3, <3>4, EspKeeps DEF Got, callVars
      <4>4. (ServerAt' /\ seg' = 0 /\ offset' = 0) \/ Exhausted'
        BY <2>1, <4>1, EspKeeps DEF Exhausted, callVars, serverVars
      <4> QED BY <2>1, <2>3, <2>4, <3>2, <3>3, <3>4, <4>2, <4>3, <4>4, EspKeeps
              DEF During, RequestIs, callVars
    <3> QED BY <2>1, <3>1, <3>2, <3>4, EspAsks
  <2>5. CASE vdData.dataLen # 0
    <3>1. /\ Deliver(vdData, spiBuf.offset)
          /\ UNCHANGED <<tcpVars, vd>>
      BY <1>2, <2>5 DEF EspRead, Accepts, Rejects
    <3>2. /\ spiOut' = Out(vdData, spiBuf.offset)
          /\ espPc' = "ack"
          /\ vdStatus'.status = "READY" /\ vdStatus'.cmd_status = 0
          /\ vdStatus'.cmd_data = spiOut'.len
      BY <3>1 DEF Deliver, Finish
    <3>3. ASSUME iosPc = "poll"
          PROVE  Answered(vdStatus)'
      <4>1. Buffered(seg)
        BY <2>3, <2>5, <3>3 DEF Exhausted
      <4>2. spiOut'.len = 1 =>
              /\ SegmentLen * seg + offset < Found
              /\ spiOut'.chunk = Wanted[SegmentLen * seg + offset + 1]
        BY <2>2, <2>3, <3>2, <3>3, <4>1, OutOfSector DEF Buffered
      <4>3. Buffered(seg)' /\ Got(seg, offset)'
        BY <2>1, <2>3, <3>3, <4>1, EspKeeps DEF Buffered, Got, callVars, serverVars
      <4>4. After(vdStatus.cmd_data)'
        BY <2>3, <3>2, <3>3, <4>2, <4>3, EspKeeps DEF After, callVars
      <4> QED BY <2>3, <3>2, <3>3, <4>4, EspKeeps DEF Answered
    <3> QED BY <2>1, <3>1, <3>2, <3>3, EspActs
  <2> QED BY <2>4, <2>5
<1> QED
  BY <1>1, <1>2 DEF EspRead

(* EspReadNext: the buffer moves on by a segment and is dropped at its     *)
(* end.                                                                    *)
LEMMA ReadNextTransfers ==
  ASSUME ExactInv, EspReadNext, UNCHANGED <<iosVars, serverVars>>
  PROVE  TransferInv'
<1>1. CASE Rejects("RD_NEXT", spiBuf.len)
  BY <1>1, EspRejects DEF EspReadNext, Accepts, Rejects
<1>2. CASE Accepts("RD_NEXT")
  <2> DEFINE pos == vdData.filePos + spiBuf.len
             left == IF pos = vdData.dataLen \/ pos = BufLen THEN 0
                     ELSE vdData.dataLen
  <2>1. /\ vdData' = [vdData EXCEPT !.filePos = pos, !.dataLen = left]
        /\ espPc = "loop" /\ spiDataRcvd /\ spiBuf.cmd = "RD_NEXT"
        /\ espPc' = "ack"
        /\ vdStatus'.status = "READY" /\ vdStatus'.cmd_status = 0
        /\ UNCHANGED <<spiVars, tcpVars, vd>>
    BY <1>2 DEF EspReadNext, Accepts, Rejects, Received, Finish
  <2>2. /\ seg \in Nat /\ dataLen \in Nat
        /\ vdData \in SectorBuffer
    BY DEF ExactInv, TypeInv, TypeOK, IosTypeOK, EspTypeOK
  <2>3. /\ vdData'.filePos = pos /\ vdData'.dataLen = left
        /\ vdData'.data = vdData.data /\ vdData'.filename = vdData.filename
    <3> HIDE DEF pos, left
    <3> QED BY <2>1, <2>2 DEF SectorBuffer
  <2>4. ASSUME iosPc = "poll"
        PROVE  Answered(vdStatus)'
    <3>1. /\ stage = "RD_NEXT" /\ spiBuf.len = dataLen
          /\ req.disk \in Stored
          /\ Got(seg, SegmentLen)
          /\ dataLen = 0 \/ Buffered(seg)
      BY <2>1, <2>4, EspFinds DEF Sent, Before
    <3>2. Got(seg, SegmentLen)'
      BY <3>1, EspKeeps DEF Got, callVars
    <3>3. ASSUME dataLen = SegmentLen, seg + 1 < Segments
          PROVE  (Buffered(seg + 1) \/ Exhausted)'
      <4>1. Buffered(seg)
        BY <3>1, <3>3 DEF SegmentLen
      <4>2. pos = SegmentLen * (seg + 1)
        BY <2>2, <3>1, <3>3, <4>1, SegmentPlaces DEF Buffered
      <4>3. SegmentLen * (seg + 1) <= Found
        BY <2>2, <3>1, <3>3, SegmentPlaces DEF Got
      <4>4. SegmentLen * (seg + 1) < BufLen
        <5>1. seg + 1 \in Nat
          BY <2>2
        <5>2. SegmentLen * (seg + 1) + SegmentLen <= BufLen
          BY <3>3, <5>1, SegmentPlaces
        <5>3. SegmentLen * (seg + 1) \in Nat
          BY <5>1, SegmentPlaces
        <5> QED BY <5>2, <5>3, BufLenType DEF SegmentLen
      <4>5. Found \in 0 .. BufLen /\ BufLen \in Nat /\ SegmentLen * (seg + 1) \in Nat
        <5>1. req.kind = "read"
          BY <3>1 DEF ExactInv, TransferInv, CallInv
        <5>2. Found \in 0 .. BufLen
          BY <3>1, <5>1, OpType DEF ExactInv
        <5>3. seg + 1 \in Nat
          BY <2>2
        <5> QED BY <5>2, <5>3, BufLenType, SegmentPlaces
      <4> HIDE DEF pos
      <4>6. CASE pos = Found
        <5>1. left = 0
          BY <4>1, <4>6 DEF Buffered
        <5>2. Exhausted'
          BY <2>3, <4>1, <4>2, <4>4, <4>6, <5>1, EspKeeps
          DEF Buffered, Exhausted, callVars, serverVars
        <5> QED BY <5>2
      <4>7. CASE pos # Found
        <5>1. pos < Found /\ pos < BufLen
          BY <4>2, <4>3, <4>4, <4>5, <4>7
        <5>2. left = Found
          BY <4>1, <4>2, <4>5, <4>7, <5>1 DEF Buffered
        <5>3. Buffered(seg + 1)'
          <6>1. seg' = seg
            BY EspKeeps DEF callVars
          <6> HIDE DEF left
          <6> QED BY <2>3, <4>1, <4>2, <5>1, <5>2, <6>1, EspKeeps
                  DEF Buffered, callVars, serverVars
        <5> QED BY <5>3
      <4> QED BY <4>6, <4>7
    <3>4. After(vdStatus.cmd_data)'
      BY <3>1, <3>2, <3>3, EspKeeps DEF After, callVars
    <3> QED BY <2>1, <3>1, <3>4, EspKeeps DEF Answered, callVars
  <2> QED BY <2>1, <2>3, <2>4, EspActs DEF spiVars
<1> QED
  BY <1>1, <1>2 DEF EspReadNext

(* EspWrite: a chunk goes to its place; one sent again goes there once     *)
(* more.                                                                   *)
LEMMA WriteTransfers ==
  ASSUME ExactInv, EspWrite, UNCHANGED <<iosVars, serverVars>>
  PROVE  TransferInv'
<1> DEFINE i == WriteStart + spiBuf.offset
           fits == i < BufLen /\ spiBuf.len > 0
           d == IF fits THEN [vdData.data EXCEPT ![i + 1] = spiBuf.chunk]
                ELSE vdData.data
<1>1. /\ vdData' = [vdData EXCEPT !.filePos = WriteStart, !.data = d]
      /\ \/ fits /\ spiBuf.valid /\ Finish(0, 0)
         \/ ~(fits /\ spiBuf.valid) /\ ChecksumError(0)
      /\ vd' = IF vdData.dataLen = 0
               THEN [vd EXCEPT !.cmd = "WR_FILE", !.filename = vdData.filename]
               ELSE vd
      /\ espPc = "loop" /\ spiDataRcvd /\ spiBuf.cmd = "WR_FILE"
      /\ UNCHANGED <<spiVars, tcpVars>>
  BY DEF EspWrite, Received
<1>2. /\ seg \in Nat /\ offset \in 0 .. 1
      /\ vdData \in SectorBuffer /\ vdData.data \in Buffer
      /\ vdData.filePos \in Nat /\ spiBuf.offset \in Nat
      /\ spiBuf.chunk \in Chunk
      /\ vd \in TcpPacket
      /\ BufLen \in Nat
  BY BufLenType
  DEF ExactInv, TypeInv, TypeOK, IosTypeOK, EspTypeOK, SpiTypeOK, SectorBuffer,
      SpiPacket, SegmentLen
<1>3. /\ vdData'.filePos = WriteStart /\ vdData'.data = d
      /\ vdData'.dataLen = vdData.dataLen /\ vdData'.filename = vdData.filename
  <2> HIDE DEF d
  <2> QED BY <1>1, <1>2 DEF SectorBuffer
<1> HIDE DEF i, fits, d
<1>4. espPc' = "ack" /\ vdStatus'.status # "BUSY"
  BY <1>1 DEF Finish, ChecksumError
<1>5. ASSUME iosPc = "poll"
      PROVE  Answered(vdStatus)'
  <2> DEFINE g == SegmentLen * seg
  <2>1. /\ stage = "WR_FILE" /\ spiBuf.offset = offset /\ spiBuf.len = 1
        /\ spiBuf.valid => spiBuf.chunk = req.content[g + offset + 1]
        /\ vdData.filename = req.disk
        /\ ServerAt /\ Collected(seg, offset) /\ dataLen = offset
    BY <1>1, <1>5, EspFinds DEF Sent, Before
  <2>2. seg < Segments
    BY <2>1 DEF ExactInv, TypeInv, StageFits
  <2>3. g \in Nat /\ g + SegmentLen <= BufLen
    BY <1>2, <2>2, SegmentPlaces
  <2>4. vdData.dataLen = g
    BY <2>1 DEF Collected
  <2>5. WriteStart = g
    <3>1. CASE seg = 0
      <4>1. g = 0
        BY <3>1 DEF SegmentLen
      <4> QED BY <2>4, <4>1 DEF WriteStart
    <3>2. CASE seg # 0
      <4>1. seg + offset > 0 /\ g # 0
        BY <1>2, <3>2 DEF SegmentLen
      <4>2. vdData.filePos = g
        BY <2>1, <4>1 DEF Collected
      <4> QED BY <2>4, <4>1, <4>2 DEF WriteStart
    <3> QED BY <3>1, <3>2
  <2>6. vd'.cmd = "WR_FILE" /\ vd'.filename = req.disk
    <3>1. CASE vdData.dataLen = 0
      BY <1>1, <1>2, <2>1, <3>1 DEF TcpPacket
    <3>2. CASE vdData.dataLen # 0
      <4>1. seg + offset > 0
        BY <1>2, <2>4, <3>2 DEF SegmentLen
      <4> QED BY <1>1, <2>1, <3>2, <4>1 DEF Collected
    <3> QED BY <3>1, <3>2
  <2>7. i = g + offset /\ fits
    <3> HIDE DEF g
    <3>1. g + offset < BufLen
      BY <1>2, <2>3 DEF SegmentLen
    <3> QED BY <2>1, <2>5, <3>1 DEF i, fits
  <2>8. d = [vdData.data EXCEPT ![g + offset + 1] = spiBuf.chunk]
    BY <2>7 DEF d
  <2> DEFINE HasChunks(n) == \A j \in 1 .. n : vdData.data[j] = req.content[j]
             NowHasChunks(n) == \A j \in 1 .. n : d[j] = req.content[j]
  <2>9. HasChunks(g + offset)
    BY <2>1 DEF Collected
  <2> HIDE DEF g
  <2>10. g + offset + 1 \in 1 .. BufLen
    BY <1>2, <2>3 DEF SegmentLen
  <2>11. NowHasChunks(g + offset)
    <3> SUFFICES ASSUME NEW j \in 1 .. g + offset
                 PROVE  d[j] = req.content[j]
      OBVIOUS
    <3>1. j # g + offset + 1 /\ j \in 1 .. BufLen
      BY <1>2, <2>3, <2>10
    <3>2. d[j] = vdData.data[j]
      BY <1>2, <2>8, <3>1 DEF Buffer
    <3> QED BY <2>9, <3>2
  <2>12. CASE spiBuf.valid
    <3>1. d[g + offset + 1] = req.content[g + offset + 1]
      BY <1>2, <2>1, <2>8, <2>10, <2>12 DEF Buffer, g
    <3>2. NowHasChunks(g + (offset + 1))
      <4> SUFFICES ASSUME NEW j \in 1 .. g + (offset + 1)
                   PROVE  d[j] = req.content[j]
        OBVIOUS
      <4>1. j \in 1 .. g + offset \/ j = g + offset + 1
        BY <1>2, <2>3
      <4> QED BY <2>11, <3>1, <4>1
    <3>3. Collected(seg, offset + 1)'
      <4>1. /\ seg' = seg /\ offset' = offset /\ req' = req
            /\ seg' + (offset' + 1) > 0
        BY <1>2, EspKeeps DEF callVars
      <4>2. vdData'.dataLen = SegmentLen * seg' /\ vdData'.filePos = SegmentLen * seg'
        BY <1>3, <2>4, <2>5, <4>1 DEF g
      <4>3. \A j \in 1 .. SegmentLen * seg' + (offset' + 1) :
              vdData'.data[j] = req'.content[j]
        BY <1>3, <3>2, <4>1 DEF g
      <4>4. vd'.cmd = "WR_FILE" /\ vd'.filename = req'.disk
        BY <2>6, <4>1
      <4> QED BY <4>2, <4>3, <4>4 DEF Collected
    <3>4. After(vdStatus.cmd_data)'
      BY <2>1, <3>3, EspKeeps DEF After, callVars
    <3>5. vdStatus'.status = "READY" /\ vdStatus'.cmd_status = 0
      BY <1>1, <2>7, <2>12 DEF Finish
    <3> QED BY <2>1, <3>4, <3>5, EspKeeps DEF Answered, callVars
  <2>13. CASE ~spiBuf.valid
    <3>1. Collected(seg, offset)'
      <4>1. seg' = seg /\ offset' = offset /\ req' = req
        BY EspKeeps DEF callVars
      <4>2. vdData'.dataLen = SegmentLen * seg' /\ vdData'.filePos = SegmentLen * seg'
        BY <1>3, <2>4, <2>5, <4>1 DEF g
      <4>3. \A j \in 1 .. SegmentLen * seg' + offset' : vdData'.data[j] = req'.content[j]
        BY <1>3, <2>11, <4>1 DEF g
      <4>4. vd'.cmd = "WR_FILE" /\ vd'.filename = req'.disk
        BY <2>6, <4>1
      <4> QED BY <4>2, <4>3, <4>4 DEF Collected
    <3>2. Before'
      BY <2>1, <3>1, EspKeeps DEF Before, callVars
    <3>3. vdStatus'.status = "CHKSUM_ERR"
      BY <1>1, <2>13 DEF ChecksumError
    <3> QED BY <2>1, <3>2, <3>3, EspKeeps DEF Answered, callVars
  <2> QED BY <2>12, <2>13
<1> QED
  BY <1>1, <1>3, <1>4, <1>5, EspActs DEF spiVars

(* EspWriteNext: the last segment sends the sector, the others move on.    *)
LEMMA WriteNextTransfers ==
  ASSUME ExactInv, EspWriteNext, UNCHANGED <<iosVars, serverVars>>
  PROVE  TransferInv'
<1> DEFINE pos == vdData.filePos + spiBuf.len
           len == vdData.dataLen + spiBuf.len
<1>1. /\ seg \in Nat /\ dataLen \in Nat
      /\ vdData \in SectorBuffer
      /\ vd \in TcpPacket
      /\ BufLen \in Nat \ {0} /\ Segments \in Nat \ {0}
  BY BufLenType, SegmentsAssumption
  DEF ExactInv, TypeInv, TypeOK, IosTypeOK, EspTypeOK
<1>2. CASE Rejects("WR_NEXT", spiBuf.len)
  BY <1>2, EspRejects DEF EspWriteNext, Accepts, Rejects
<1>3. ASSUME Accepts("WR_NEXT"), iosPc = "poll"
      PROVE  /\ stage = "WR_NEXT" /\ spiBuf.len = dataLen
             /\ IF seg < Segments
                THEN ServerAt /\ Collected(seg, SegmentLen) /\ dataLen = SegmentLen
                ELSE OnDisk /\ vdData.filePos = 0 /\ dataLen = 0
  BY <1>3, EspFinds DEF Accepts, Received, Sent, Before
<1>4. ASSUME Accepts("WR_NEXT"), iosPc = "poll", seg < Segments
      PROVE  /\ vdData.filePos = SegmentLen * seg
             /\ vdData.dataLen = SegmentLen * seg
             /\ pos = SegmentLen * (seg + 1) /\ len = SegmentLen * (seg + 1)
             /\ vd.cmd = "WR_FILE" /\ vd.filename = req.disk
             /\ \A j \in 1 .. SegmentLen * (seg + 1) : vdData.data[j] = req.content[j]
  <2>1. Collected(seg, SegmentLen) /\ spiBuf.len = SegmentLen
    BY <1>3, <1>4
  <2>2. seg + SegmentLen > 0
    BY <1>1 DEF SegmentLen
  <2> QED BY <1>1, <2>1, <2>2, SegmentPlaces DEF Collected
<1>5. CASE Accepts("WR_NEXT") /\ pos = BufLen
  <2> DEFINE p == [vd EXCEPT !.data = vdData.data, !.dataLen = len]
  <2>1. /\ vdData' = [vdData EXCEPT !.filePos = 0, !.dataLen = len]
        /\ Call(p)
        /\ UNCHANGED spiVars
        /\ espPc = "loop" /\ spiDataRcvd
    BY <1>5 DEF EspWriteNext, Accepts, Rejects, Received
  <2>2. p.cmd = vd.cmd /\ p.filename = vd.filename /\ p.data = vdData.data
    BY <1>1 DEF TcpPacket
  <2>3. /\ vdData'.filePos = 0
        /\ vdData'.filename = vdData.filename
    BY <1>1, <2>1 DEF SectorBuffer
  <2> HIDE DEF p
  <2>4. /\ Writable
        /\ vd.cmd = "WR_FILE" /\ vd.filename = req.disk
        /\ vdData.data = req.content
    BY <1>5, <2>1 DEF ExactInv, TransferInv, WriteInv, Accepts, Received
  <2>5. c2s' # <<>> /\ Request' = p
    BY <2>1, EspFinds, CallQueue DEF Request
  <2>6. ASSUME iosPc = "poll"
        PROVE  During'
    <3>1. stage = "WR_NEXT" /\ seg < Segments
      BY <1>1, <1>3, <1>5, <2>6
    <3>2. seg + 1 = Segments
      <4>1. SegmentLen * seg + SegmentLen = BufLen
        BY <1>1, <1>4, <1>5, <2>6, <3>1, SegmentPlaces
      <4> QED BY <1>1, <4>1, SegmentPlaces
    <3> QED BY <2>2, <2>3, <2>4, <2>5, <3>1, <3>2, EspKeeps
            DEF During, RequestIs, Writable, callVars
  <2> QED BY <2>1, <2>2, <2>3, <2>4, <2>6, EspAsks
<1>6. CASE Accepts("WR_NEXT") /\ pos # BufLen
  <2>1. /\ vdData' = [vdData EXCEPT !.filePos = pos, !.dataLen = len]
        /\ espPc' = "ack"
        /\ vdStatus'.status = "READY" /\ vdStatus'.cmd_status = 0
        /\ UNCHANGED <<spiVars, tcpVars, vd>>
        /\ espPc = "loop" /\ spiDataRcvd
    BY <1>6 DEF EspWriteNext, Accepts, Rejects, Received, Finish
  <2>2. /\ vdData'.filePos = pos /\ vdData'.dataLen = len
        /\ vdData'.data = vdData.data /\ vdData'.filename = vdData.filename
    <3> HIDE DEF pos, len
    <3> QED BY <1>1, <2>1 DEF SectorBuffer
  <2>3. ASSUME iosPc = "poll"
        PROVE  Answered(vdStatus)'
    <3>1. stage = "WR_NEXT"
      BY <1>3, <1>6, <2>3
    <3>2. CASE seg < Segments
      <4>1. ServerAt
        BY <1>3, <1>6, <2>3, <3>2
      <4>2. seg + 1 < Segments
        <5>1. SegmentLen * seg + SegmentLen # BufLen
          BY <1>1, <1>4, <1>6, <2>3, <3>2, SegmentPlaces
        <5>2. seg + 1 # Segments
          BY <1>1, <5>1, SegmentPlaces
        <5> QED BY <1>1, <3>2, <5>2
      <4>3. SegmentLen * (seg + 1) + 0 = SegmentLen * (seg + 1)
        BY <1>1, SegmentPlaces
      <4> HIDE DEF pos, len
      <4>4. Collected(seg + 1, 0)'
        BY <1>4, <1>6, <2>1, <2>2, <2>3, <3>2, <4>3, EspKeeps DEF Collected, callVars
      <4>5. After(vdStatus.cmd_data)'
        BY <3>1, <4>1, <4>2, <4>4, EspKeeps DEF After, callVars
      <4> QED BY <2>1, <3>1, <4>5, EspKeeps DEF Answered, callVars
    <3>3. CASE ~(seg < Segments)
      <4>1. OnDisk /\ pos = 0
        BY <1>3, <1>6, <2>3, <3>3
      <4>2. ~(seg + 1 < Segments)
        BY <1>1, <3>3
      <4> HIDE DEF pos, len
      <4>3. After(vdStatus.cmd_data)'
        BY <2>2, <3>1, <4>1, <4>2, EspKeeps DEF After, callVars
      <4> QED BY <2>1, <3>1, <4>3, EspKeeps DEF Answered, callVars
    <3> QED BY <3>2, <3>3
  <2> HIDE DEF pos, len
  <2> QED BY <2>1, <2>2, <2>3, EspActs DEF spiVars
<1> QED
  BY <1>2, <1>5, <1>6 DEF EspWriteNext

(* The answer of the server has come ...                                   *)
LEMMA ReplyTransfers ==
  ASSUME ExactInv, EspReply, UNCHANGED <<iosVars, serverVars>>
  PROVE  TransferInv'
<1> DEFINE p == Head(s2c)
<1>1. TypeInv /\ LockStep /\ AnswerInv /\ TransferInv
  BY DEF ExactInv
<1>2. /\ espPc = "wait" /\ Len(s2c) = 1
      /\ c2s' = c2s
      /\ AfterWait(TRUE, p)
      /\ UNCHANGED <<spiStatus, spiBuf, spiDataRcvd, dataBuf>>
  BY DEF EspReply
<1>3. /\ c2s = <<>> /\ s2c # <<>> /\ p \in TcpPacket
      /\ dataBuf.cmd \in {"SEL_FILE", "SEEK_FILE", "RD_FILE", "WR_NEXT"}
      /\ vdData \in SectorBuffer
      /\ dataBuf.offset \in Nat
  <2>1. TcpTypeOK /\ WaitFits /\ EspTypeOK
    BY <1>1 DEF TypeInv, TypeOK
  <2>2. c2s = <<>> /\ s2c # <<>>
    BY <1>1, <1>2, <2>1 DEF LockStep, TcpTypeOK
  <2>3. p \in TcpPacket
    BY <2>1, <2>2 DEF TcpTypeOK
  <2>4. /\ dataBuf.cmd \in {"SEL_FILE", "SEEK_FILE", "RD_FILE", "WR_NEXT"}
        /\ vdData \in SectorBuffer
        /\ dataBuf.offset \in Nat
    BY <1>2, <2>1 DEF WaitFits, EspTypeOK, SpiPacket
  <2> QED BY <2>2, <2>3, <2>4
<1> HIDE DEF p
<1>4. /\ espPc' = "ack"
      /\ vdStatus'.status = "READY"
      /\ vdStatus'.cmd_status = 0
  <2>1. \E n : Finish(0, n)
    BY <1>2, <1>3 DEF AfterWait, Deliver
  <2> QED BY <2>1 DEF Finish
<1>5. vdData'.filename = vdData.filename
  BY <1>2, <1>3 DEF AfterWait, SectorBuffer
<1>6. WriteInv'
  BY <1>2, <1>3, <1>4 DEF WriteInv
<1>7. SelectedInv'
  BY <1>1, <1>5, EspKeeps DEF TransferInv, SelectedInv
<1>8. ASSUME iosPc = "poll"
      PROVE  Answered(vdStatus)' /\ Sent' /\ spiStatus'.status = "BUSY"
  <2>1. spiStatus.status = "BUSY"
    BY <1>1, <1>2, <1>8 DEF AnswerInv, Quiet, EspSettled
  <2>2. Sent /\ During /\ dataBuf = spiBuf
    BY <1>1, <1>2, <1>8 DEF TransferInv, CommandInv, AnswerInv
  <2>3. Sent'
    BY <1>2, <2>2, EspKeeps DEF Sent, callVars
  <2>4. dataBuf.cmd = stage
    BY <2>2 DEF Sent
  <2>5. CASE stage = "SEL_FILE"
    <3>1. ServerHas(req.disk) /\ vdData.filename = req.disk
      BY <1>3, <2>2, <2>5 DEF During
    <3>2. After(vdStatus.cmd_data)'
      BY <1>5, <2>5, <3>1, EspKeeps DEF After, callVars
    <3> QED BY <1>2, <1>4, <2>1, <2>3, <3>2 DEF Answered
  <2>6. CASE stage = "SEEK_FILE"
    <3>1. ServerAt /\ vdData.dataLen = 0
      BY <1>3, <2>2, <2>6 DEF During
    <3>2. vdData' = vdData
      BY <1>2, <2>4, <2>6 DEF AfterWait
    <3>3. After(vdStatus.cmd_data)'
      BY <2>6, <3>1, <3>2, EspKeeps DEF After, callVars
    <3> QED BY <1>2, <1>4, <2>1, <2>3, <2>6, <3>3, EspKeeps DEF Answered, callVars
  <2>7. CASE stage = "RD_FILE"
    <3>1. /\ req.disk \in Stored
          /\ dataLen = 0
          /\ Got(seg, offset)
          /\ p.status = "OK"
          /\ \/ /\ seg = 0 /\ offset = 0
                /\ p.dataLen = Found /\ p.data = Wanted
                /\ Found < BufLen => Exhausted
             \/ p.dataLen = 0 /\ Exhausted
      BY <1>3, <2>2, <2>7 DEF During, p
    <3>2. /\ vdData' = [vdData EXCEPT !.data = p.data, !.dataLen = p.dataLen,
                                      !.filePos = 0]
          /\ Deliver(vdData', dataBuf.offset)
      BY <1>2, <2>4, <2>7, <3>1 DEF AfterWait
    <3>3. /\ vdData'.data = p.data /\ vdData'.dataLen = p.dataLen
          /\ vdData'.filePos = 0
      BY <1>3, <3>2 DEF SectorBuffer
    <3>4. /\ spiOut' = Out(vdData', dataBuf.offset)
          /\ vdStatus'.cmd_data = spiOut'.len
      BY <3>2 DEF Deliver, Finish
    <3>5. dataBuf.offset = offset /\ offset \in 0 .. 1
      BY <1>1, <2>2, <2>7 DEF Sent, TypeInv, TypeOK, IosTypeOK, SegmentLen
    <3>6. Got(seg, offset)'
      BY <3>1, EspKeeps DEF Got, callVars
    <3>7. /\ Found \in 0 .. BufLen /\ BufLen \in Nat \ {0}
      <4>1. req.kind = "read"
        BY <1>1, <2>7 DEF TransferInv, CallInv
      <4> QED BY <1>1, <3>1, <4>1, OpType, BufLenType
    <3>8. spiOut'.len = 1 =>
            /\ offset < p.dataLen
            /\ spiOut'.chunk = p.data[offset + 1]
      BY <3>3, <3>4, <3>5 DEF Out
    <3>9. spiOut'.len \in {0, 1}
      BY <3>4 DEF Out
    <3>10. CASE p.dataLen = 0
      <4>1. Exhausted
        BY <3>1, <3>7, <3>10
      <4>2. Exhausted'
        BY <3>3, <3>10, <4>1, EspKeeps DEF Exhausted, callVars, serverVars
      <4>3. spiOut'.len = 0
        BY <3>5, <3>8, <3>9, <3>10
      <4>4. After(vdStatus.cmd_data)'
        BY <2>7, <3>1, <3>4, <3>6, <4>2, <4>3, EspKeeps DEF After, callVars
      <4> QED BY <1>2, <1>4, <2>1, <2>3, <2>7, <4>4, EspKeeps DEF Answered, callVars
    <3>11. CASE p.dataLen # 0
      <4>1. /\ seg = 0 /\ offset = 0
            /\ p.dataLen = Found /\ p.data = Wanted
            /\ Found < BufLen => req.disk \notin Emulated /\ streamFail
            /\ 0 < Found
        BY <3>1, <3>7, <3>11 DEF Exhausted
      <4>2. SegmentLen * seg = 0
        BY <4>1 DEF SegmentLen
      <4>3. Buffered(seg)'
        <5>1. seg' = seg /\ req' = req /\ streamFail' = streamFail
          BY EspKeeps DEF callVars, serverVars
        <5> QED BY <3>3, <4>1, <4>2, <5>1, EspKeeps DEF Buffered
      <4>4. spiOut'.len = 1 =>
              /\ SegmentLen * seg + offset < Found
              /\ spiOut'.chunk = Wanted[SegmentLen * seg + offset + 1]
        BY <3>8, <4>1, <4>2
      <4>5. After(vdStatus.cmd_data)'
        BY <2>7, <3>1, <3>4, <3>6, <4>3, <4>4, EspKeeps DEF After, callVars
      <4> QED BY <1>2, <1>4, <2>1, <2>3, <2>7, <4>5, EspKeeps DEF Answered, callVars
    <3> QED BY <3>10, <3>11
  <2>8. CASE stage = "WR_NEXT"
    <3>1. seg + 1 = Segments /\ vdData.filePos = 0 /\ OnDisk
      BY <1>3, <2>2, <2>8 DEF During
    <3>2. ~(seg + 1 < Segments)
      BY <3>1, SegmentsAssumption
    <3>3. vdData' = [vdData EXCEPT !.dataLen = 0]
      BY <1>2, <2>4, <2>8 DEF AfterWait
    <3>4. vdData'.filePos = 0
      BY <1>3, <3>1, <3>3 DEF SectorBuffer
    <3>5. After(vdStatus.cmd_data)'
      BY <2>8, <3>1, <3>2, <3>4, EspKeeps DEF After, callVars
    <3> QED BY <1>2, <1>4, <2>1, <2>3, <2>8, <3>5, EspKeeps DEF Answered, callVars
  <2> QED BY <1>3, <2>4, <2>5, <2>6, <2>7, <2>8
<1>9. iosPc \in {"poll", "idle"}
  <2>1. ~Quiet
    BY <1>2 DEF Quiet, EspSettled
  <2> QED BY <1>1, <2>1, Busy DEF TransferInv
<1>10. CommandInv'
  BY <1>4, <1>8, <1>9, EspKeeps DEF CommandInv
<1> QED
  BY <1>6, <1>7, <1>10, EspKeeps DEF TransferInv

(* ... or will not come, which happens to a seek only.                     *)
LEMMA TimeoutTransfers ==
  ASSUME CleanLinks, ExactInv, EspTimeout, UNCHANGED <<iosVars, serverVars>>
  PROVE  TransferInv'
<1>1. TypeInv /\ LockStep /\ AnswerInv /\ TransferInv
  BY DEF ExactInv
<1>2. /\ espPc = "wait"
      /\ AfterWait(FALSE, vd)
      /\ UNCHANGED <<spiStatus, spiBuf, spiDataRcvd, tcpVars, dataBuf, vd>>
  BY DEF EspTimeout
<1>3. /\ dataBuf.cmd \in {"SEL_FILE", "SEEK_FILE", "RD_FILE", "WR_NEXT"}
      /\ vdData \in SectorBuffer
      /\ c2s = <<>> /\ s2c = <<>>
  <2>1. TcpTypeOK /\ WaitFits /\ EspTypeOK
    BY <1>1 DEF TypeInv, TypeOK
  <2>2. ~(Len(s2c) > 1)
    BY <1>1, <2>1 DEF LockStep, TcpTypeOK
  <2> QED BY <1>2, <2>1, <2>2 DEF EspTimeout, CleanLinks, WaitFits, EspTypeOK
<1>4. espPc' = "ack" /\ vdStatus'.status = "READY"
  <2>1. \E st, n : Finish(st, n)
    BY <1>2, <1>3 DEF AfterWait, Deliver
  <2> QED BY <2>1 DEF Finish
<1>5. vdData'.filename = vdData.filename
  BY <1>2, <1>3 DEF AfterWait, SectorBuffer
<1>6. WriteInv'
  BY <1>2, <1>3, <1>4 DEF WriteInv, tcpVars
<1>7. SelectedInv'
  BY <1>1, <1>5, EspKeeps DEF TransferInv, SelectedInv
<1>8. ASSUME iosPc = "poll"
      PROVE  Answered(vdStatus)' /\ Sent' /\ spiStatus'.status = "BUSY"
  <2>1. spiStatus.status = "BUSY"
    BY <1>1, <1>2, <1>8 DEF AnswerInv, Quiet, EspSettled
  <2>2. Sent /\ During /\ dataBuf = spiBuf
    BY <1>1, <1>2, <1>8 DEF TransferInv, CommandInv, AnswerInv
  <2>3. Sent'
    BY <1>2, <2>2, EspKeeps DEF Sent, callVars
  <2>4. stage = "SEEK_FILE" /\ dataBuf.cmd = stage
    BY <1>3, <2>2 DEF During, Sent
  <2>5. vdStatus'.cmd_status = 1
    BY <1>2, <2>4 DEF AfterWait, Finish
  <2>6. Before'
    BY <2>4, EspKeeps DEF Before, callVars
  <2> QED BY <1>2, <2>1, <2>3, <2>4, <2>5, <2>6, EspKeeps DEF Answered, callVars
<1>9. iosPc \in {"poll", "idle"}
  <2>1. ~Quiet
    BY <1>2 DEF Quiet, EspSettled
  <2> QED BY <1>1, <2>1, Busy DEF TransferInv
<1>10. CommandInv'
  BY <1>4, <1>8, <1>9, EspKeeps DEF CommandInv
<1> QED
  BY <1>6, <1>7, <1>10, EspKeeps DEF TransferInv

(* Every step of the ESP8266.                                              *)
LEMMA EspTransfers ==
  ASSUME CleanLinks, ExactInv, Esp
  PROVE  TransferInv'
<1>1. EspStep /\ UNCHANGED <<iosVars, serverVars>>
  BY DEF Esp
<1>2. LockStep /\ TransferInv
  BY DEF ExactInv
<1>3. CASE EspSelect
  BY <1>1, <1>3, SelectTransfers
<1>4. CASE EspSeek
  BY <1>1, <1>4, SeekTransfers
<1>5. CASE EspRead
  BY <1>1, <1>5, ReadTransfers
<1>6. CASE EspReadNext
  BY <1>1, <1>6, ReadNextTransfers
<1>7. CASE EspWrite
  BY <1>1, <1>7, WriteTransfers
<1>8. CASE EspWriteNext
  BY <1>1, <1>8, WriteNextTransfers
<1>9. CASE EspStatus
  <2>1. /\ espPc = "loop" /\ spiDataRcvd /\ spiBuf.cmd = "STATUS"
        /\ espPc' = "ack" /\ vdStatus'.status # "BUSY"
        /\ UNCHANGED <<spiVars, tcpVars, vdData>>
    BY <1>9 DEF EspStatus, Received, Finish, ChecksumError
  <2>2. iosPc # "poll"
    BY <2>1, EspFinds
    DEF Sent, ExactInv, TypeInv, TypeOK, IosTypeOK, Stages
  <2> QED BY <1>1, <2>1, <2>2, EspActs DEF spiVars
<1>10. CASE EspUnknown
  <2>1. /\ espPc = "loop" /\ spiDataRcvd /\ spiBuf.cmd = "NONE"
        /\ espPc' = "clear"
        /\ UNCHANGED <<spiVars, tcpVars, vdStatus, vdData>>
    BY <1>10 DEF EspUnknown, Received
  <2>2. iosPc = "idle" /\ c2s = <<>>
    BY <2>1, EspFinds
    DEF Sent, ExactInv, TypeInv, TypeOK, IosTypeOK, Stages
  <2>3. WriteInv'
    BY <2>1, <2>2 DEF WriteInv, tcpVars
  <2>4. SelectedInv'
    BY <1>1, <1>2, <2>1, EspKeeps DEF TransferInv, SelectedInv
  <2>5. CommandInv'
    BY <1>1, <1>2, <2>1, <2>2, EspKeeps DEF TransferInv, CommandInv
  <2> QED BY <1>1, <2>3, <2>4, <2>5, EspKeeps DEF TransferInv
<1>11. CASE EspReply
  BY <1>1, <1>11, ReplyTransfers
<1>12. CASE EspTimeout
  BY <1>1, <1>12, TimeoutTransfers
<1>13. CASE EspSetStatus
  <2>1. /\ espPc = "ack" /\ espPc' = "clear"
        /\ spiStatus' = vdStatus
        /\ UNCHANGED <<spiOut, spiBuf, tcpVars, vdStatus, vd, vdData>>
    BY <1>13 DEF EspSetStatus
  <2>2. c2s' = <<>>
    BY <1>2, <2>1 DEF LockStep, tcpVars
  <2>3. WriteInv'
    BY <2>1, <2>2 DEF WriteInv
  <2>4. SelectedInv'
    BY <1>1, <1>2, <2>1, EspKeeps DEF TransferInv, SelectedInv
  <2>5. ASSUME iosPc = "poll"
        PROVE  Sent' /\ Answered(spiStatus)'
    <3>1. Sent /\ Answered(vdStatus)
      BY <1>2, <2>1, <2>5 DEF TransferInv, CommandInv
    <3>2. Sent'
      BY <1>1, <2>1, <3>1, EspKeeps DEF Sent, callVars
    <3>3. UNCHANGED <<callVars, diskVars, spiOut>>
      BY <1>1, <2>1, EspKeeps DEF diskVars
    <3> DEFINE n == vdStatus.cmd_data
    <3>4. After(n) => After(n)'
      <4> HIDE DEF n
      <4>1. PICK m : m = n
        OBVIOUS
      <4>2. After(m) => After(m)'
        BY <3>3, SameAfter
      <4>3. n' = n
        BY <2>1 DEF n
      <4> QED BY <4>1, <4>2, <4>3 DEF After
    <3>5. Before => Before'
      BY <3>3, SameBefore
    <3>6. stage' = stage
      BY <3>3 DEF callVars
    <3>7. After(spiStatus'.cmd_data) = After(vdStatus.cmd_data)
      BY <2>1
    <3>8. CASE vdStatus.status = "READY" /\ vdStatus.cmd_status = 0
      <4>1. After(n)'
        BY <3>1, <3>4, <3>8 DEF Answered
      <4>2. After(spiStatus.cmd_data)'
        BY <2>1, <4>1 DEF After
      <4> QED BY <2>1, <3>1, <3>2, <3>6, <3>8, <4>2 DEF Answered
    <3>9. CASE ~(vdStatus.status = "READY" /\ vdStatus.cmd_status = 0)
      <4>1. Before'
        BY <3>1, <3>5, <3>9 DEF Answered
      <4> QED BY <2>1, <3>1, <3>2, <3>6, <3>9, <4>1 DEF Answered
    <3> QED BY <3>8, <3>9
  <2>6. iosPc \in {"poll", "idle"}
    <3>1. ~Quiet
      BY <2>1 DEF Quiet, EspSettled
    <3> QED BY <3>1, Busy DEF ExactInv, TransferInv
  <2>7. CommandInv'
    BY <1>1, <1>2, <2>1, <2>5, <2>6, EspKeeps DEF TransferInv, CommandInv
  <2> QED BY <1>1, <2>3, <2>4, <2>7, EspKeeps DEF TransferInv
<1>14. CASE EspClear
  <2>1. /\ espPc = "clear" /\ espPc' = "loop" /\ ~spiDataRcvd'
        /\ UNCHANGED <<spiStatus, spiOut, spiBuf, tcpVars, vdStatus, vd, vdData>>
    BY <1>14 DEF EspClear
  <2>2. c2s' = <<>>
    BY <1>2, <2>1 DEF LockStep, tcpVars
  <2>3. WriteInv'
    BY <2>1, <2>2 DEF WriteInv
  <2>4. SelectedInv'
    BY <1>1, <1>2, <2>1, EspKeeps DEF TransferInv, SelectedInv
  <2>5. UNCHANGED <<callVars, diskVars, spiOut, iosPc, cmdData>>
    BY <1>1, <2>1, EspKeeps DEF diskVars, iosVars
  <2>6. Before => Before'
    BY <2>5, SameBefore
  <2>7. ASSUME NEW n
        PROVE  After(n) => After(n)'
    BY <2>5, SameAfter
  <2>8. Sent => Sent'
    BY <1>1, <2>1, EspKeeps DEF Sent, callVars
  <2>9. CommandInv'
    <3>1. After(cmdData) => After(cmdData)'
      <4>1. PICK m : m = cmdData
        OBVIOUS
      <4>2. After(m) => After(m)'
        BY <2>7
      <4> QED BY <2>5, <4>1, <4>2 DEF After
    <3>2. Answered(spiStatus) => Answered(spiStatus)'
      <4>1. PICK m : m = spiStatus.cmd_data
        OBVIOUS
      <4>2. After(m) => After(m)'
        BY <2>7
      <4>3. After(spiStatus.cmd_data) => After(spiStatus.cmd_data)'
        BY <2>1, <4>1, <4>2 DEF After
      <4> QED BY <2>1, <2>5, <2>6, <4>3 DEF Answered, callVars
    <3> QED BY <1>2, <2>1, <2>5, <2>6, <2>8, <3>1, <3>2 DEF TransferInv, CommandInv
  <2> QED BY <1>1, <2>3, <2>4, <2>9, EspKeeps DEF TransferInv
<1> QED
  BY <1>1, <1>3, <1>4, <1>5, <1>6, <1>7, <1>8, <1>9, <1>10, <1>11, <1>12, <1>13, <1>14
  DEF EspStep
-----------------------------------------------------------------------------
(* In the initial state nothing is under way and nothing selected.         *)
LEMMA ExactInit ==
  ASSUME WholeDisks, Init
  PROVE  ExactInv
<1>1. TypeInv
  BY InitType
<1>2. LockStep /\ AnswerInv
  BY DEF Init, IosInit, TcpInit, LockStep, AnswerInv
<1>3. CallInv /\ SelectedInv
  BY DEF Init, IosInit, CallInv, SelectedInv
<1>4. CommandInv
  BY DEF Init, IosInit, EspInit, ReadyStatus, CommandInv
<1>5. WriteInv
  BY DEF Init, SpiInit, TcpInit, WriteInv
<1>6. WholeInv
  BY DEF Init, ServerInit, WholeDisks, WholeInv
<1>7. ReadExact /\ WriteExact
  BY DEF Init, IosInit, ReadExact, WriteExact
<1> QED
  BY <1>1, <1>2, <1>3, <1>4, <1>5, <1>6, <1>7 DEF ExactInv, TransferInv

(* Every step of the system.                                               *)
LEMMA ExactNext ==
  ASSUME CleanLinks, WholeDisks, ExactInv, [Next]_vars
  PROVE  ExactInv'
<1> USE DEF ExactInv
<1>1. TypeInv'
  BY NextType
<1>2. CASE Ios
  <2>1. LockStep'
    BY <1>2 DEF Ios, LockStep, espVars, tcpVars
  <2>2. AnswerInv'
    BY <1>2, IosAnswer DEF Ios, CleanLinks
  <2> QED BY <1>1, <1>2, <2>1, <2>2, IosTransfers
<1>3. CASE Esp
  <2>1. LockStep' /\ AnswerInv'
    BY <1>3, EspLockStep, EspAnswer DEF Esp, CleanLinks
  <2> QED BY <1>1, <1>3, <2>1, EspTransfers
<1>4. CASE Server
  <2>1. LockStep'
    BY <1>4, ServerLockStep DEF Server, TypeInv, TypeOK
  <2>2. AnswerInv'
    BY <1>4 DEF Server, AnswerInv, Quiet, EspSettled, iosVars, espVars, spiVars
  <2> QED BY <1>1, <1>4, <2>1, <2>2, ServerTransfers
<1>5. CASE UNCHANGED vars
  <2>1. UNCHANGED <<iosVars, spiVars, espVars, tcpVars, serverVars>>
    BY <1>5 DEF vars
  <2>2. LockStep' /\ AnswerInv'
    BY <2>1 DEF LockStep, AnswerInv, Quiet, EspSettled, iosVars, espVars, spiVars,
                tcpVars
  <2>3. UNCHANGED <<callVars, diskVars, curDisk, pathSent, diskErr>>
    BY <2>1 DEF callVars, diskVars, iosVars, espVars
  <2>4. CallInv' /\ WholeInv' /\ ReadExact' /\ WriteExact'
    BY <2>1, EspKeeps DEF TransferInv
  <2>5. SelectedInv' /\ WriteInv'
    BY <2>1, SameSelected, SameWrite
    DEF TransferInv, othersVars, iosVars, spiVars
  <2>6. CommandInv'
    <3>1. UNCHANGED <<iosPc, cmdData, spiOut, spiBuf, spiStatus, c2s, s2c,
                      espPc, vdStatus, vd, vdData>>
      BY <2>1 DEF iosVars, spiVars, espVars, tcpVars
    <3>2. Before => Before'
      BY <2>3, SameBefore
    <3>3. \A n : After(n) => After(n)'
      BY <2>3, <3>1, SameAfter
    <3>4. Sent => Sent'
      BY <2>1, <3>1, EspKeeps DEF Sent, callVars
    <3>5. During => During'
      <4>1. Request' = Request /\ Exhausted' = Exhausted
        BY <2>1, <3>1, EspKeeps DEF Request, Exhausted, callVars, serverVars
      <4>2. Got(seg, offset) => Got(seg, offset)'
        BY <2>1, EspKeeps DEF Got, callVars
      <4> QED BY <2>1, <3>1, <4>1, <4>2, EspKeeps DEF During, RequestIs, callVars
    <3>6. stage' = stage
      BY <2>3 DEF callVars
    <3>7. After(cmdData) => After(cmdData)'
      <4>1. PICK m : m = cmdData
        OBVIOUS
      <4> QED BY <3>1, <3>3, <4>1 DEF After
    <3>8. ASSUME NEW st
          PROVE  Answered(st) => Answered(st)'
      BY <3>2, <3>3, <3>6 DEF Answered
    <3>9. Answered(vdStatus) => Answered(vdStatus)'
      <4>1. PICK m : m = vdStatus
        OBVIOUS
      <4>2. Answered(m) => Answered(m)'
        BY <3>8
      <4> QED BY <3>1, <4>1, <4>2 DEF Answered, After
    <3>10. Answered(spiStatus) => Answered(spiStatus)'
      <4>1. PICK m : m = spiStatus
        OBVIOUS
      <4>2. Answered(m) => Answered(m)'
        BY <3>8
      <4> QED BY <3>1, <4>1, <4>2 DEF Answered, After
    <3> QED BY <3>1, <3>2, <3>4, <3>5, <3>7, <3>9, <3>10 DEF TransferInv, CommandInv
  <2> QED BY <1>1, <2>2, <2>4, <2>5, <2>6 DEF TransferInv
<1> QED
  BY <1>2, <1>3, <1>4, <1>5 DEF Next

(* Provided that replies are in time, that loop() is not held up, that     *)
(* what is damaged on the SPI bus is a payload or checksum of a command    *)
(* other than SEL_FILE, and that the emulated disks have their sectors:    *)
(* before and after each command the three processors agree on the place   *)
(* in the disk (vd_read, vd_write, and vdProcessCmd of the ESP8266 and of  *)
(* the server).                                                            *)
THEOREM TransferInvAlways ==
  ASSUME CleanLinks, WholeDisks
  PROVE  Spec => []TransferInv
<1>1. Init => ExactInv
  BY ExactInit
<1>2. ExactInv /\ [Next]_vars => ExactInv'
  BY ExactNext
<1>3. ExactInv => TransferInv
  BY DEF ExactInv
<1> QED
  BY <1>1, <1>2, <1>3, PTL DEF Spec

(* A read that tells the Z80 it went well has delivered what the selected  *)
(* disk has at the sector asked for, whatever packets were damaged on the  *)
(* SPI bus, and however often the AVR tried again, gave up, was reset or   *)
(* abandoned a sector (vd_read, VD_CMD_RD_FILE, VD_CMD_RD_NEXT).           *)
THEOREM ReadExactAlways ==
  ASSUME CleanLinks, WholeDisks
  PROVE  Spec => []ReadExact
<1>1. TransferInv => ReadExact
  BY DEF TransferInv
<1> QED
  BY <1>1, TransferInvAlways, PTL

(* A write that tells the Z80 it went well is on the disk, whole and at    *)
(* the sector asked for, in the same circumstances (vd_write,              *)
(* VD_CMD_WR_FILE, VD_CMD_WR_NEXT).                                        *)
THEOREM WriteExactAlways ==
  ASSUME CleanLinks, WholeDisks
  PROVE  Spec => []WriteExact
<1>1. TransferInv => WriteExact
  BY DEF TransferInv
<1> QED
  BY <1>1, TransferInvAlways, PTL
-----------------------------------------------------------------------------
(* What NoGaps says of the images at the start stays true.                 *)
GapInv ==
  \A d \in Stored, s \in Sectors : SectorStartOf(s) <= Len(image[d])

(* What the Z80 sees of the system.                                        *)
Store == [d \in Stored |-> [s \in Sectors |-> SectorOf(image[d], s)]]
Outcome == [err |-> diskErr,
            data |-> IF diskErr = "OK" /\ req.kind = "read" THEN bufferSD ELSE <<>>]

(* Images only grow, so no gap comes up.                                   *)
LEMMA GapNext ==
  ASSUME ExactInv, GapInv, [Next]_vars
  PROVE  GapInv'
<1>1. CASE UNCHANGED image
  BY <1>1 DEF GapInv
<1>2. CASE Server
  <2>1. \A d \in Stored : Len(image[d]) <= Len(image'[d])
    BY <1>2, ServerWhole DEF Server, ExactInv, TransferInv
  <2>2. ExactInv => image \in [Stored -> Seq(Chunk)]
    BY DEF ExactInv, TypeInv, TypeOK, ServerTypeOK
  <2>3. image' \in [Stored -> Seq(Chunk)]
    BY NextType DEF ExactInv, TypeInv, TypeOK, ServerTypeOK
  <2>4. \A d \in Stored : Len(image[d]) \in Nat /\ Len(image'[d]) \in Nat
    BY <2>2, <2>3, LenProperties
  <2>5. \A s \in Sectors : SectorStartOf(s) \in Nat
    BY SectorsAssumption, SectorPlace
  <2> QED BY <2>1, <2>4, <2>5 DEF GapInv
<1> QED
  BY <1>1, <1>2 DEF Next, Ios, Esp, vars, serverVars

(* A write of the server replaces one sector.                              *)
LEMMA WriteStores ==
  ASSUME ExactInv, GapInv, req.kind = "write", req.disk \in Stored,
         image' = [image EXCEPT ![req.disk] =
                     WriteAt(image[req.disk], Home, req.content)]
  PROVE  Store' = [Store EXCEPT ![req.disk][req.sector] = req.content]
<1>1. /\ image \in [Stored -> Seq(Chunk)]
      /\ req.sector \in Sectors
      /\ req.content \in Buffer
  BY OpType, ReqType DEF ExactInv, TypeInv, TypeOK, IosTypeOK, ServerTypeOK
<1>2. \A s \in Sectors :
        SectorOf(image'[req.disk], s) =
          IF s = req.sector THEN req.content ELSE SectorOf(image[req.disk], s)
  <2> SUFFICES ASSUME NEW s \in Sectors
               PROVE  SectorOf(image'[req.disk], s) =
                        IF s = req.sector THEN req.content
                        ELSE SectorOf(image[req.disk], s)
    OBVIOUS
  <2>1. s \in Nat /\ req.sector \in Nat /\ image[req.disk] \in Seq(Chunk)
    BY <1>1, SectorsAssumption
  <2>2. /\ SectorStartOf(s) <= Len(image[req.disk])
        /\ SectorStartOf(req.sector) <= Len(image[req.disk])
    BY <1>1 DEF GapInv
  <2>3. image'[req.disk] =
          WriteAt(image[req.disk], SectorStartOf(req.sector), req.content)
    BY <1>1 DEF Home
  <2>4. CASE s = req.sector
    BY <1>1, <2>1, <2>3, <2>4, SectorWrittenTo
  <2>5. CASE s # req.sector
    BY <1>1, <2>1, <2>2, <2>3, <2>5, OtherSectorsKept
  <2> QED BY <2>4, <2>5
<1>3. \A d \in Stored : d # req.disk => image'[d] = image[d]
  BY <1>1
<1>4. \A d \in Stored, s \in Sectors :
        SectorOf(image'[d], s) =
          IF d = req.disk /\ s = req.sector THEN req.content
          ELSE SectorOf(image[d], s)
  BY <1>2, <1>3
<1> QED
  BY <1>1, <1>4 DEF Store

(* The operation under way goes on.                                        *)
LEMMA GoesOn ==
  ASSUME diskErr = "PENDING", UNCHANGED <<req, curDisk, diskErr, image>>
  PROVE  UNCHANGED Abstract!sdVars
BY DEF Abstract!sdVars

(* It ends with an error.                                                  *)
LEMMA Refused ==
  ASSUME diskErr = "PENDING", UNCHANGED <<req, curDisk, image>>,
         NEW err \in {"NOT_OPENED", "DISK_ERR", "UNEXPECTED_EOF", "ABANDONED"},
         diskErr' = err
  PROVE  Abstract!Refuse
BY DEF Abstract!Refuse, Abstract!Running

(* A call that failed ends the operation with an error, or is sent again.  *)
LEMMA FailedMaps ==
  ASSUME diskErr = "PENDING", UNCHANGED <<req, image>>,
         NEW checksum, Failed(checksum)
  PROVE  Abstract!Refuse \/ UNCHANGED Abstract!sdVars
<1>1. \/ UNCHANGED <<curDisk, diskErr>>
      \/ \E err \in {"NOT_OPENED", "DISK_ERR", "UNEXPECTED_EOF"} :
           diskErr' = err /\ UNCHANGED curDisk
  BY DEF Failed, Again, Return, EndOp
<1> QED
  BY <1>1, GoesOn, Refused

(* An operation ends well when its last call has; then the sector is the   *)
(* one asked for.                                                          *)
LEMMA SucceededMaps ==
  ASSUME ExactInv, ExactInv', iosPc = "poll", Succeeded, UNCHANGED <<req, image>>
  PROVE  Abstract!Succeed \/ Abstract!Refuse \/ UNCHANGED Abstract!sdVars
<1>1. diskErr = "PENDING" /\ CallInv /\ StageFits /\ ReadExact' /\ WriteExact'
  BY DEF ExactInv, TransferInv, CallInv, TypeInv
<1>2. req.kind \in {"select", "read", "write"}
  BY DEF ExactInv, TypeInv, TypeOK, IosTypeOK, SelectReq, ReadReq, WriteReq
<1>3. \/ UNCHANGED <<curDisk, diskErr>>
      \/ diskErr' = "UNEXPECTED_EOF" /\ UNCHANGED curDisk
      \/ stage = "SEL_FILE" /\ curDisk' = req.disk /\ diskErr' = "OK"
      \/ stage # "SEL_FILE" /\ diskErr' = "OK" /\ UNCHANGED curDisk
  BY DEF Succeeded, GoOn, Return, EndOp
<1>4. CASE UNCHANGED <<curDisk, diskErr>>
  BY <1>1, <1>4, GoesOn
<1>5. CASE diskErr' = "UNEXPECTED_EOF" /\ UNCHANGED curDisk
  BY <1>1, <1>5, Refused
<1>6. CASE stage = "SEL_FILE" /\ curDisk' = req.disk /\ diskErr' = "OK"
  <2>1. req.kind = "select"
    BY <1>1, <1>6 DEF CallInv, ExactInv, TransferInv
  <2> QED BY <1>1, <1>6, <2>1 DEF Abstract!Succeed, Abstract!Running
<1>7. CASE stage # "SEL_FILE" /\ diskErr' = "OK" /\ UNCHANGED curDisk
  <2>1. req.kind \in {"read", "write"}
    BY <1>1, <1>7 DEF StageFits
  <2>2. req.sector \in Sectors
    BY <2>1, OpType DEF ExactInv
  <2>3. CASE req.kind = "read"
    <3>1. req.disk \in Stored /\ bufferSD' = SectorOf(image[req.disk], req.sector)
      BY <1>1, <1>7, <2>3 DEF ReadExact
    <3>2. Store[req.disk][req.sector] = bufferSD'
      BY <2>2, <3>1 DEF Store
    <3> QED BY <1>1, <1>7, <2>3, <3>1, <3>2
            DEF Abstract!Succeed, Abstract!Running, Store
  <2>4. CASE req.kind = "write"
    <3>1. req.disk \in Stored /\ SectorOf(image[req.disk], req.sector) = req.content
      BY <1>1, <1>7, <2>4 DEF WriteExact
    <3>2. Store[req.disk][req.sector] = req.content
      BY <2>2, <3>1 DEF Store
    <3> QED BY <1>1, <1>7, <2>4, <3>1, <3>2
            DEF Abstract!Succeed, Abstract!Running, Store
  <2> QED BY <2>1, <2>3, <2>4
<1> QED
  BY <1>3, <1>4, <1>5, <1>6, <1>7

(* Every step of the AVR is a step of the abstract disk, or none.          *)
LEMMA IosMaps ==
  ASSUME CleanLinks, ExactInv, ExactInv', Ios
  PROVE  [Abstract!SDNext]_Abstract!sdVars
<1>1. IosStep /\ UNCHANGED image
  BY DEF Ios, serverVars
<1>2. CallInv /\ CallInv'
  BY DEF ExactInv, TransferInv
<1>3. CASE Start
  <2>1. iosPc = "idle" /\ diskErr # "PENDING" /\ diskErr' = "PENDING"
    BY <1>2, <1>3 DEF Start, StartOp, StartSelect, StartTransfer, CallInv
  <2>2. CASE StartSelect
    BY <1>1, <2>1, <2>2
    DEF StartSelect, SelectReq, Abstract!SDNext, Abstract!Ask, Abstract!Running
  <2>3. CASE StartTransfer
    BY <1>1, <2>1, <2>3
    DEF StartTransfer, ReadReq, WriteReq, Abstract!SDNext, Abstract!Ask,
        Abstract!Running
  <2> QED BY <1>3, <2>2, <2>3 DEF Start, StartOp
<1>4. CASE Abandon
  <2>1. /\ diskErr = "PENDING" /\ diskErr' = "ABANDONED"
        /\ UNCHANGED <<req, curDisk, image>>
    BY <1>1, <1>2, <1>4 DEF Abandon, EndOp, CallInv
  <2> QED BY <2>1, Refused DEF Abstract!SDNext
<1>5. CASE Reset
  BY <1>1, <1>5 DEF Reset, EndOp, Abstract!SDNext, Abstract!Restart
<1>6. CASE Send \/ ReadData \/ LoseLastPoll
  <2>1. iosPc # "idle" /\ UNCHANGED <<req, curDisk, diskErr, image>>
    BY <1>1, <1>6 DEF Send, ReadData, LoseLastPoll, LastPoll
  <2>2. diskErr = "PENDING"
    BY <1>2, <2>1 DEF CallInv
  <2> QED BY <2>1, <2>2, GoesOn
<1>7. CASE Poll
  <2>1. iosPc = "poll" /\ diskErr = "PENDING" /\ UNCHANGED <<req, image>>
    BY <1>1, <1>2, <1>7 DEF Poll, CallInv
  <2>2. Succeeded \/ Failed(spiStatus.status = "CHKSUM_ERR")
    BY <1>7 DEF Poll
  <2> QED BY <2>1, <2>2, FailedMaps, SucceededMaps DEF Abstract!SDNext
<1>8. CASE Expire
  <2>1. diskErr = "PENDING" /\ UNCHANGED <<req, image>> /\ Failed(FALSE)
    BY <1>1, <1>2, <1>8 DEF Expire, CallInv
  <2> QED BY <2>1, FailedMaps DEF Abstract!SDNext
<1>9. ~StalledLastPoll
  BY DEF StalledLastPoll, CleanLinks
<1> QED
  BY <1>1, <1>3, <1>4, <1>5, <1>6, <1>7, <1>8, <1>9 DEF IosStep, IosRun

(* So is every step of the server, which alone changes what is stored.     *)
LEMMA ServerMaps ==
  ASSUME ExactInv, GapInv, Server
  PROVE  [Abstract!SDNext]_Abstract!sdVars
<1>1. ServerStep /\ UNCHANGED <<req, curDisk, diskErr, bufferSD>>
  BY DEF Server, iosVars
<1>2. CASE UNCHANGED image
  BY <1>1, <1>2 DEF Abstract!sdVars
<1>3. CASE Request.cmd = "WR_FILE"
  <2>1. /\ req.kind = "write" /\ req.disk \in Stored
        /\ image' = [image EXCEPT ![req.disk] =
                       WriteAt(image[req.disk], Home, req.content)]
    BY <1>1, <1>3, ServerWrites DEF ExactInv, TransferInv, Writable, ServerAt
  <2>2. Store' = [Store EXCEPT ![req.disk][req.sector] = req.content]
    BY <2>1, WriteStores
  <2>3. diskErr \in {"PENDING", "RESET"}
    <3>1. ~Quiet
      BY <1>1, ServerQueue DEF ExactInv, Quiet, EspSettled
    <3> QED BY <3>1, Busy DEF ExactInv, TransferInv
  <2>4. Abstract!Commit
    BY <1>1, <2>1, <2>2, <2>3
    DEF Abstract!Commit, Abstract!Running, Abstract!CutShort, Store
  <2> QED BY <2>4 DEF Abstract!SDNext
<1> QED
  BY <1>1, <1>2, <1>3, ServerWrites DEF ExactInv, TransferInv

(* To the Z80 the three processors are a set of disks with atomic sectors: *)
(* a write replaces the whole sector or nothing, whatever becomes of the   *)
(* packets and of the AVR, and nothing else changes a disk.                *)
THEOREM ImplementsSectorDisk ==
  ASSUME CleanLinks, WholeDisks, NoGaps
  PROVE  Spec => IsSectorDisk
<1>1. Init => ExactInv /\ GapInv /\ Abstract!SDInit
  <2> SUFFICES ASSUME Init
               PROVE  ExactInv /\ GapInv /\ Abstract!SDInit
    OBVIOUS
  <2>1. ExactInv
    BY ExactInit
  <2>2. GapInv
    BY DEF Init, ServerInit, NoGaps, GapInv
  <2>3. Abstract!SDInit
    BY DEF Init, IosInit, SelectReq, Abstract!SDInit
  <2> QED BY <2>1, <2>2, <2>3
<1>2. ExactInv /\ GapInv /\ [Next]_vars => (ExactInv /\ GapInv)'
  BY ExactNext, GapNext
<1>3. ExactInv /\ GapInv /\ ExactInv' /\ [Next]_vars =>
        [Abstract!SDNext]_Abstract!sdVars
  <2> SUFFICES ASSUME ExactInv, GapInv, ExactInv', [Next]_vars
               PROVE  [Abstract!SDNext]_Abstract!sdVars
    OBVIOUS
  <2>1. CASE Esp \/ UNCHANGED vars
    BY <2>1 DEF Esp, vars, iosVars, serverVars, Abstract!sdVars
  <2> QED BY <2>1, IosMaps, ServerMaps DEF Next
<1> QED
  BY <1>1, <1>2, <1>3, PTL DEF Spec, IsSectorDisk, Abstract!SDSpec
=============================================================================
