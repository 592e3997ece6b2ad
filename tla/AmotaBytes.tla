----------------------------- MODULE AmotaBytes -----------------------------
(***************************************************************************)
(* The bytes and the numbers of one exchange: sendFwHeader decodes the     *)
(* declared size, calcCrc32 sums the data, sendOtaCmd assembles the packet,*)
(* a device takes it apart by the format of amOta.h and answers, and       *)
(* otaCmdResponse decodes the answer.  After the header's answer the data  *)
(* loop of sendFwData counts, and its progress is the 32-bit calculation   *)
(* of the code; the data packets themselves are exchanges of their own.    *)
(*                                                                         *)
(* Bytes are 0..255, an Int is a number from -2^31 to 2^31 - 1.            *)
(***************************************************************************)
EXTENDS AmotaProtocol, AmotaCrc, Sequences

CONSTANTS
  Buffers,    (* the data of data packets                                  *)
  Images,     (* sizes a header may declare, with the counter it is        *)
              (* answered with, four bytes each, lowest first              *)
  Statuses    (* the status bytes of the answers                           *)

Bytes == 0..255

\* The length of a packet takes 16 bits, the checksum four bytes, and the header
\* has room for the size.  A device has no more of an image than the image, and
\* one of 2^31 bytes or more, which no file has, is taken up at its end only.
ASSUME BytesAssumption ==
  /\ FwHeaderSize \in 12..FwPacketSize
  /\ CrcSizeInPkt = 4
  /\ FwPacketSize + CrcSizeInPkt < 2^16
  /\ \A b \in Buffers : b \in Seq(Bytes) /\ Len(b) \in 1..FwPacketSize
  /\ \A m \in Images :
       /\ m.size \in [1..4 -> Bytes] /\ m.counter \in [1..4 -> Bytes]
       /\ m.counter[4] <= m.size[4]
       /\ m.size[4] > 127 => m.counter = m.size
  /\ 0 \in Statuses /\ Statuses \subseteq Bytes

VARIABLES
  pc,
  cmd,
  data,
  counter,      \* what the device will answer
  i, crc,       \* of calcCrc32
  packet,
  response,
  heard,        \* the command that otaCmdResponse made of the answer
  fileSize, fileOffset,
  offset,       \* of sendFwData
  progress,     \* the UPGRADE_PROGRESS posted last
  rem           \* the remainder that the definition gives

vars == <<pc, cmd, data, counter, i, crc, packet, response, heard, fileSize,
          fileOffset, offset, progress, rem>>

-----------------------------------------------------------------------------
(* Numbers of 32 bits.                                                     *)

\* Mutant: a byte is not masked, and extends its sign.
DecodeUnmasked(b) ==
  LET signed(x) == IF x < 128 THEN x ELSE x - 256 IN
  signed(b[4]) * 2^24 + b[3] * 2^16 + signed(b[2]) * 2^8 + b[1]

\* The sum of four masked and shifted bytes, as an Int.
Decode(b) ==
  (IF b[4] < 128 THEN b[4] ELSE b[4] - 256) * 2^24
    + b[3] * 2^16 + b[2] * 2^8 + b[1]

\* n * 100 as an Int, n not negative.
Times100(n) ==
  LET low  == (n % 2^16) * 100
      high == ((n \div 2^16) * 100 + low \div 2^16) % 2^16
  IN (IF high < 2^15 THEN high ELSE high - 2^16) * 2^16 + (low % 2^16)

\* Division of Ints by a positive one, towards zero.
Quotient(a, b) ==
  IF a >= 0 THEN a \div b
  ELSE IF a > -b THEN 0 ELSE -1 - ((-(a + b)) \div b)

\* Mutant: the division comes first.
PercentDividesFirst(n, size) == Times100(Quotient(n, size))

Percent(n, size) == Quotient(Times100(n), size)

-----------------------------------------------------------------------------
(* The packet and its answer, by amOta.h.                                  *)

\* metaDataFormat, mdfBinLength.
mdfBinLength(meta) == SubSeq(meta, 9, 12)

AMOTA_LENGTH_SIZE == 2
AMOTA_CMD_SIZE == 1
AMOTA_CS_SIZE == 4

\* The fields of a packet: length, command, data and checksum.
PKG_LENG(p) == p[1] + 256 * p[2]
PKG_CMD(p)  == p[AMOTA_LENGTH_SIZE + 1]
PKG_Data(p) ==
  SubSeq(p, AMOTA_LENGTH_SIZE + AMOTA_CMD_SIZE + 1, Len(p) - AMOTA_CS_SIZE)
PKG_CS(p)   == SubSeq(p, Len(p) - AMOTA_CS_SIZE + 1, Len(p))

\* The length counts data and checksum.  amOta.h also bounds the data by 512 bytes
\* (111, PKG_Data_MAX): left out, as both platforms send 4096, so that the devices
\* in use cannot have that bound.
IsPacket(p) ==
  /\ Len(p) >= AMOTA_LENGTH_SIZE + AMOTA_CMD_SIZE + AMOTA_CS_SIZE
  /\ Len(p) = AMOTA_LENGTH_SIZE + AMOTA_CMD_SIZE + PKG_LENG(p)

\* eAmotaCommand.
eAmotaCommand == <<HEADER, DATA, VERIFY, RESET, MAX>>

\* eCmdRspFormat: the header's and the data's answers carry a byte counter.
CmdRsp(code, status, n) ==
  IF eAmotaCommand[code] \in {HEADER, DATA}
  THEN <<5, 0, code, status>> \o n
  ELSE <<1, 0, code, status>>

-----------------------------------------------------------------------------

\* A header of the declared size; what else it says does not matter here.
Meta(size) ==
  [k \in 1..FwHeaderSize |-> IF k \in 9..12 THEN size[k - 8] ELSE (k * 37) % 256]

Init ==
  /\ \/ \E m \in Images :
          cmd = HEADER /\ data = Meta(m.size) /\ counter = m.counter
     \/ cmd = DATA /\ data \in Buffers /\ counter = <<0, 0, 0, 0>>
     \/ cmd = VERIFY /\ data = <<>> /\ counter = <<0, 0, 0, 0>>
  /\ pc = IF cmd = HEADER THEN "sendFwHeader" ELSE "sendOtaCmd"
  /\ i = 0
  /\ crc = AllOnes
  /\ rem = AllOnes
  /\ packet = <<>>
  /\ response = <<>>
  /\ heard = UNKNOWN
  /\ fileSize = 0
  /\ fileOffset = 0
  /\ offset = 0
  /\ progress = 0

sendFwHeader ==
  /\ pc = "sendFwHeader"
  /\ pc' = "sendOtaCmd"
  /\ fileSize' = Decode(SubSeq(data, 9, 12))
  /\ UNCHANGED <<cmd, data, counter, i, crc, packet, response, heard, fileOffset,
                 offset, progress, rem>>

\* The loop of calcCrc32.
calcCrc32 ==
  /\ pc = "sendOtaCmd"
  /\ i < Len(data)
  /\ crc' = TableStep(crc, data[i + 1])
  /\ rem' = PolynomialStep(rem, data[i + 1])
  /\ i' = i + 1
  /\ UNCHANGED <<pc, cmd, data, counter, packet, response, heard, fileSize,
                 fileOffset, offset, progress>>

\* Mutant: the highest byte first.
CrcFieldReversed(w) ==
  [n \in 1..CrcSizeInPkt |-> ToByte(Xor(w, AllOnes), CrcSizeInPkt - n)]

\* The checksum of the packet, from the value that the loop leaves.
CrcField(w) == [n \in 1..CrcSizeInPkt |-> ToByte(Xor(w, AllOnes), n - 1)]

\* Without data the checksum is zero.
sendOtaCmd ==
  /\ pc = "sendOtaCmd"
  /\ i = Len(data)
  /\ packet' = LengthField(Len(data)) \o <<amOtaCmd2Byte(cmd)>> \o data
                 \o (IF data = <<>> THEN <<0, 0, 0, 0>> ELSE CrcField(crc))
  /\ pc' = "sent"
  /\ UNCHANGED <<cmd, data, counter, i, crc, response, heard, fileSize,
                 fileOffset, offset, progress, rem>>

\* The device answers the command it reads in the packet.
DeviceAnswers ==
  /\ pc = "sent"
  /\ IsPacket(packet)
  /\ \E s \in Statuses : response' = CmdRsp(PKG_CMD(packet), s, counter)
  /\ pc' = "answered"
  /\ UNCHANGED <<cmd, data, counter, i, crc, packet, heard, fileSize, fileOffset,
                 offset, progress, rem>>

otaCmdResponseError ==
  /\ pc = "answered"
  /\ response[4] # 0
  /\ heard' = byte2OtaCmd(response[3])
  /\ pc' = "stopped"
  /\ UNCHANGED <<cmd, data, counter, i, crc, packet, response, fileSize,
                 fileOffset, offset, progress, rem>>

otaCmdResponse ==
  /\ pc = "answered"
  /\ response[4] = 0
  /\ heard' = byte2OtaCmd(response[3])
  /\ \/ /\ heard' = HEADER
        /\ fileOffset' = Decode(SubSeq(response, 5, 8))
        /\ offset' = fileOffset'
        /\ pc' = "sendFwData"
     \/ /\ heard' # HEADER
        /\ pc' = "done"
        /\ UNCHANGED <<fileOffset, offset>>
  /\ UNCHANGED <<cmd, data, counter, i, crc, packet, response, fileSize,
                 progress, rem>>

\* One turn of sendFwData's loop, over a file as long as it declares.
sendFwData ==
  LET rest == fileSize - offset
      ret  == IF rest < FwPacketSize THEN rest ELSE FwPacketSize
  IN
  /\ pc = "sendFwData"
  /\ offset < fileSize
  /\ offset' = offset + ret
  /\ progress' = Percent(offset', fileSize)
  /\ UNCHANGED <<pc, cmd, data, counter, i, crc, packet, response, heard,
                 fileSize, fileOffset, rem>>

DataSent ==
  /\ pc = "sendFwData"
  /\ offset >= fileSize
  /\ pc' = "done"
  /\ UNCHANGED <<cmd, data, counter, i, crc, packet, response, heard, fileSize,
                 fileOffset, offset, progress, rem>>

Next ==
  \/ sendFwHeader \/ calcCrc32 \/ sendOtaCmd
  \/ DeviceAnswers \/ otaCmdResponseError \/ otaCmdResponse
  \/ sendFwData \/ DataSent

Spec == Init /\ [][Next]_vars

-----------------------------------------------------------------------------

Int32(n) == -2^30 - 2^30 <= n /\ n <= 2^30 - 1 + 2^30

TypeOK ==
  /\ cmd \in {HEADER, DATA, VERIFY}
  /\ data \in Seq(Bytes)
  /\ i \in 0..Len(data)
  /\ crc \subseteq 0..31 /\ rem \subseteq 0..31
  /\ packet \in Seq(Bytes) /\ response \in Seq(Bytes)
  /\ heard \in AmotaCmd
  /\ Int32(fileSize) /\ Int32(fileOffset) /\ Int32(offset) /\ Int32(progress)

\* The table of calcCrc32, signed Ints and all, computes the CRC of crc32.h:
\* after every byte the two agree.
CrcAgrees == crc = rem

\* The device finds in a packet the command, the data and their checksum where
\* amOta.h says they are, whatever the bytes are and wherever the length field
\* carries over.
DeviceReadsPacket ==
  packet # <<>> =>
    /\ IsPacket(packet)
    /\ eAmotaCommand[PKG_CMD(packet)] = cmd
    /\ PKG_Data(packet) = data
    /\ FromBytes(PKG_CS(packet)) = Xor(rem, AllOnes)

\* The answer is recognised as that of the command it answers, and the declared
\* size and the byte counter are decoded to their 32 bits.
AnswerDecoded ==
  /\ heard # UNKNOWN => heard = cmd
  /\ pc \in {"done", "sendFwData"} => heard = cmd
  /\ cmd = HEADER /\ pc # "sendFwHeader" =>
       Word(fileSize) = FromBytes(mdfBinLength(data))
  /\ heard = HEADER /\ pc # "stopped" => Word(fileOffset) = FromBytes(counter)

\* The largest size whose progress is calculated without overflow.
MaxExact == (2^30 - 1 + 2^30) \div 100

\* For an image of up to MaxExact bytes the progress is the exact percentage
\* after every packet, from the resume offset on, and 100 when the loop ends.
ProgressIsExact ==
  cmd = HEADER /\ 0 < fileSize /\ fileSize <= MaxExact =>
    /\ pc = "sendFwData" /\ offset > fileOffset =>
         progress = (offset * 100) \div fileSize
    /\ pc = "done" /\ offset > fileOffset => progress = 100

=============================================================================
