--------------------------- MODULE VdServerProofs ---------------------------
(***************************************************************************)
(* What a step of the server keeps, whoever sends it requests: types, and  *)
(* the agreement of the selected name with what is open.                   *)
(***************************************************************************)
EXTENDS VdServer, TLAPS

LEMMA ZeroBufferType == ZeroBuffer \in Buffer
BY ChunkAssumption DEF ZeroBuffer, Buffer

(* What a read of an image delivers fits into a packet.                    *)
LEMMA ReadAtType ==
  ASSUME NEW img \in Seq(Chunk), NEW pos \in Nat
  PROVE  ReadAt(img, pos) \in Buffer
BY ChunkAssumption, SegmentsAssumption DEF ReadAt, Buffer, BufLen, SegmentLen

(* ... and is as long as the answer says.                                  *)
LEMMA CountAtType ==
  ASSUME NEW img \in Seq(Chunk), NEW pos \in Nat
  PROVE  CountAt(img, pos) \in 0 .. BufLen
BY SegmentsAssumption DEF CountAt, Min2, BufLen, SegmentLen

(* A written image is an image.                                            *)
LEMMA WriteAtType ==
  ASSUME NEW img \in Seq(Chunk), NEW pos \in Nat, NEW buf \in Buffer
  PROVE  WriteAt(img, pos, buf) \in Seq(Chunk)
<1> DEFINE n == Max2(Len(img), pos + BufLen)
<1>1. BufLen \in Nat /\ Len(img) \in Nat
  BY SegmentsAssumption DEF BufLen, SegmentLen
<1>2. n \in Nat
  BY <1>1 DEF Max2
<1>3. \A i \in 1 .. n : i > pos /\ i <= pos + BufLen => buf[i - pos] \in Chunk
  <2> SUFFICES ASSUME NEW i \in 1 .. n, i > pos, i <= pos + BufLen
               PROVE  buf[i - pos] \in Chunk
    OBVIOUS
  <2>1. i - pos \in 1 .. BufLen
    BY <1>1, <1>2
  <2> QED
    BY <2>1 DEF Buffer
<1>4. \A i \in 1 .. n : i <= Len(img) => img[i] \in Chunk
  BY <1>1, <1>2
<1>5. WriteAt(img, pos, buf) \in [1 .. n -> Chunk]
  BY <1>1, <1>2, <1>3, <1>4, ChunkAssumption DEF WriteAt
<1> QED
  BY <1>2, <1>5

(* Where the position of an emulated disk lies.                            *)
LEMMA SectorStartType ==
  ASSUME filePos \in Nat
  PROVE  SectorStart \in Nat
<1>1. BufLen \in Nat \ {0}
  BY SegmentsAssumption DEF BufLen, SegmentLen
<1>2. filePos \div BufLen \in Nat
  BY <1>1
<1> QED
  BY <1>1, <1>2 DEF SectorStart
-----------------------------------------------------------------------------
ServerTypes == TcpTypeOK /\ ServerTypeOK

(* The request is a packet, and so is what is left of the queue.           *)
LEMMA RequestType ==
  ASSUME TcpTypeOK, c2s # <<>>
  PROVE  /\ Request \in TcpPacket
         /\ Tail(c2s) \in Seq(TcpPacket)
BY DEF TcpTypeOK, Request

(* Answering and not answering keep the queues well formed.                *)
LEMMA AnswerType ==
  ASSUME TcpTypeOK, c2s # <<>>, NEW p \in TcpPacket, Answer(p)
  PROVE  TcpTypeOK'
BY RequestType DEF TcpTypeOK, Answer

LEMMA NoAnswerType ==
  ASSUME TcpTypeOK, c2s # <<>>, NoAnswer
  PROVE  TcpTypeOK'
BY RequestType DEF TcpTypeOK, NoAnswer

(* The server starts with nothing selected, open or under way.             *)
LEMMA ServerInitType ==
  ASSUME NEW images, images \subseteq [Stored -> Seq(Chunk)],
         TcpInit, ServerInit(images)
  PROVE  ServerTypes
<1>1. TcpTypeOK
  BY DEF TcpInit, TcpTypeOK
<1>2. ServerTypeOK
  BY ZeroBufferType DEF ServerInit, ServerTypeOK
<1> QED
  BY <1>1, <1>2 DEF ServerTypes

(* Every step of the server keeps the types of the queues, the selection,  *)
(* the positions and the images.                                           *)
LEMMA ServerStepType ==
  ASSUME ServerTypes, ServerStep
  PROVE  ServerTypes'
<1> USE DEF ServerTypes
<1>1. c2s # <<>>
  BY DEF ServerStep, SelectEmulated, SelectPlain, SelectMissing, ReadEmulated,
         ReadPlain, ReadMismatch, WriteEmulated, WritePlain, WriteRefused,
         SeekEmulated, SeekPlain, SeekRefused, IgnoreCommand, Requested
<1>2. Request \in TcpPacket
  BY <1>1, RequestType
<1>3. BufLen \in Nat \ {0}
  BY SegmentsAssumption DEF BufLen, SegmentLen
<1>4. CASE SelectEmulated
  <2>1. [Request EXCEPT !.status = "OK"] \in TcpPacket
    BY <1>2 DEF TcpPacket, Statuses
  <2>2. TcpTypeOK'
    BY <1>1, <1>4, <2>1, AnswerType DEF SelectEmulated
  <2>3. ServerTypeOK'
    BY <1>2, <1>4 DEF SelectEmulated, ServerTypeOK, streamVars, TcpPacket
  <2> QED BY <2>2, <2>3
<1>5. CASE SelectPlain
  <2>1. [Request EXCEPT !.status = "OK"] \in TcpPacket
    BY <1>2 DEF TcpPacket, Statuses
  <2>2. TcpTypeOK'
    BY <1>1, <1>5, <2>1, AnswerType DEF SelectPlain
  <2>3. ServerTypeOK'
    BY <1>2, <1>5 DEF SelectPlain, ServerTypeOK, streamVars, TcpPacket
  <2> QED BY <2>2, <2>3
<1>6. CASE SelectMissing
  <2>1. [Request EXCEPT !.status = "DISK_NOT_FOUND"] \in TcpPacket
    BY <1>2 DEF TcpPacket, Statuses
  <2>2. TcpTypeOK'
    BY <1>1, <1>6, <2>1, AnswerType DEF SelectMissing
  <2>3. ServerTypeOK'
    BY <1>2, <1>6 DEF SelectMissing, ServerTypeOK, streamVars, TcpPacket
  <2> QED BY <2>2, <2>3
<1>7. CASE ReadEmulated
  <2>1. sector' \in Buffer
    <3>1. CASE DriveHasSector
      <4>1. image[drive] \in Seq(Chunk)
        BY <3>1, DrivesAssumption DEF DriveHasSector, ServerTypeOK, Stored
      <4>2. SectorStart \in Nat
        BY SectorStartType DEF ServerTypeOK
      <4> QED BY <1>7, <3>1, <4>1, <4>2, ReadAtType DEF ReadEmulated
    <3>2. CASE ~DriveHasSector
      BY <1>7, <3>2 DEF ReadEmulated, ServerTypeOK
    <3> QED BY <3>1, <3>2
  <2>2. [Request EXCEPT !.status = "OK", !.data = sector', !.dataLen = BufLen]
          \in TcpPacket
    BY <1>2, <1>3, <2>1 DEF TcpPacket, Statuses
  <2>3. TcpTypeOK'
    BY <1>1, <1>7, <2>2, AnswerType DEF ReadEmulated
  <2>4. ServerTypeOK'
    BY <1>3, <1>7, <2>1 DEF ReadEmulated, ServerTypeOK, streamVars
  <2> QED BY <2>3, <2>4
<1>8. CASE ReadPlain
  <2> DEFINE good == stream # NoName /\ ~streamFail
             n    == IF good THEN CountAt(image[stream], streamPos) ELSE 0
             data == IF n > 0 THEN ReadAt(image[stream], streamPos)
                     ELSE ZeroBuffer
  <2>1. good => image[stream] \in Seq(Chunk)
    BY DEF ServerTypeOK, Stored
  <2>2. n \in 0 .. BufLen
    BY <1>3, <2>1, CountAtType DEF ServerTypeOK
  <2>3. data \in Buffer
    <3>1. ZeroBuffer \in Buffer
      BY ZeroBufferType
    <3>2. n > 0 => ReadAt(image[stream], streamPos) \in Buffer
      BY <2>1, ReadAtType DEF ServerTypeOK
    <3> QED BY <3>1, <3>2
  <2>4. [Request EXCEPT !.status = "OK", !.data = data, !.dataLen = n]
          \in TcpPacket
    <3>1. n \in Nat
      BY <1>3, <2>2
    <3>2. \A d \in Buffer, k \in Nat :
            [Request EXCEPT !.status = "OK", !.data = d, !.dataLen = k]
              \in TcpPacket
      BY <1>2 DEF TcpPacket, Statuses
    <3> QED BY <2>3, <3>1, <3>2
  <2>5. TcpTypeOK'
    BY <1>1, <1>8, <2>4, AnswerType DEF ReadPlain
  <2>6. /\ streamPos' = streamPos + n
        /\ streamFail' = (n < BufLen)
        /\ filePos' = IF n = BufLen THEN streamPos' ELSE filePos
        /\ UNCHANGED <<filename, stream, drive, sector, image>>
    BY <1>8 DEF ReadPlain
  <2>7. ServerTypeOK'
    <3> HIDE DEF n
    <3> QED BY <1>3, <2>2, <2>6 DEF ServerTypeOK
  <2> QED BY <2>5, <2>7
<1>9. CASE ReadMismatch
  <2>1. [Request EXCEPT !.status = "FILE_RD_ERROR"] \in TcpPacket
    BY <1>2 DEF TcpPacket, Statuses
  <2>2. TcpTypeOK'
    BY <1>1, <1>9, <2>1, AnswerType DEF ReadMismatch
  <2>3. ServerTypeOK'
    BY <1>9 DEF ReadMismatch, ServerTypeOK, serverVars
  <2> QED BY <2>2, <2>3
<1>10. CASE WriteEmulated
  <2>1. TcpTypeOK'
    BY <1>1, <1>2, <1>10, AnswerType DEF WriteEmulated
  <2>2. Request.data \in Buffer
    BY <1>2 DEF TcpPacket
  <2>3. image' \in [Stored -> Seq(Chunk)]
    <3>1. CASE DriveHasSector
      <4>1. drive \in Stored /\ image[drive] \in Seq(Chunk)
        BY <3>1, DrivesAssumption DEF DriveHasSector, ServerTypeOK, Stored
      <4>2. WriteAt(image[drive], SectorStart, Request.data) \in Seq(Chunk)
        BY <2>2, <4>1, SectorStartType, WriteAtType DEF ServerTypeOK
      <4>3. image' = [image EXCEPT ![drive] =
                        WriteAt(image[drive], SectorStart, Request.data)]
        BY <1>10, <3>1 DEF WriteEmulated
      <4> QED BY <4>1, <4>2, <4>3 DEF ServerTypeOK
    <3>2. CASE ~DriveHasSector
      BY <1>10, <3>2 DEF WriteEmulated, ServerTypeOK
    <3> QED BY <3>1, <3>2
  <2>4. ServerTypeOK'
    BY <1>3, <1>10, <2>2, <2>3 DEF WriteEmulated, ServerTypeOK, streamVars
  <2> QED BY <2>1, <2>4
<1>11. CASE WritePlain
  <2>1. TcpTypeOK'
    BY <1>1, <1>2, <1>11, AnswerType DEF WritePlain
  <2>2. Request.data \in Buffer
    BY <1>2 DEF TcpPacket
  <2>3. image' \in [Stored -> Seq(Chunk)]
    <3>1. stream \in Stored /\ image[stream] \in Seq(Chunk)
      BY <1>11 DEF WritePlain, ServerTypeOK, Stored
    <3>2. WriteAt(image[stream], streamPos, Request.data) \in Seq(Chunk)
      BY <2>2, <3>1, WriteAtType DEF ServerTypeOK
    <3>3. image' = IF streamFail THEN image
                   ELSE [image EXCEPT ![stream] =
                           WriteAt(image[stream], streamPos, Request.data)]
      BY <1>11 DEF WritePlain
    <3> QED BY <3>1, <3>2, <3>3 DEF ServerTypeOK
  <2>4. ServerTypeOK'
    BY <1>3, <1>11, <2>3 DEF WritePlain, ServerTypeOK
  <2> QED BY <2>1, <2>4
<1>12. CASE WriteRefused
  BY <1>1, <1>12, NoAnswerType DEF WriteRefused, ServerTypeOK, serverVars
<1>13. CASE SeekEmulated
  <2>1. [Request EXCEPT !.status = "OK"] \in TcpPacket
    BY <1>2 DEF TcpPacket, Statuses
  <2>2. TcpTypeOK'
    BY <1>1, <1>13, <2>1, AnswerType DEF SeekEmulated
  <2>3. ServerTypeOK'
    BY <1>2, <1>13 DEF SeekEmulated, ServerTypeOK, streamVars, TcpPacket
  <2> QED BY <2>2, <2>3
<1>14. CASE SeekPlain
  <2>1. [Request EXCEPT !.status = "OK"] \in TcpPacket
    BY <1>2 DEF TcpPacket, Statuses
  <2>2. TcpTypeOK'
    BY <1>1, <1>14, <2>1, AnswerType DEF SeekPlain
  <2>3. ServerTypeOK'
    BY <1>2, <1>14 DEF SeekPlain, ServerTypeOK, TcpPacket
  <2> QED BY <2>2, <2>3
<1>15. CASE SeekRefused
  BY <1>1, <1>15, NoAnswerType DEF SeekRefused, ServerTypeOK, serverVars
<1>16. CASE IgnoreCommand
  BY <1>1, <1>16, NoAnswerType DEF IgnoreCommand, ServerTypeOK, serverVars
<1> QED
  BY <1>4, <1>5, <1>6, <1>7, <1>8, <1>9, <1>10, <1>11, <1>12, <1>13, <1>14,
     <1>15, <1>16 DEF ServerStep
=============================================================================
