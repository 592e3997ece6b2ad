\* The sizes of AmotaConstants.kt.
CONSTANTS
  FwHeaderSize = 48
  FwPacketSize = 4096
  MaxPayload = 240
  HeaderSizeInPkt = 3
  CrcSizeInPkt = 4
  Buffers <- MCBuffers
  Images <- MCImages
  Statuses = {0, 1, 128}
SPECIFICATION Spec
INVARIANTS TypeOK CrcAgrees DeviceReadsPacket AnswerDecoded ProgressIsExact
\* An exchange ends.
CHECK_DEADLOCK FALSE
