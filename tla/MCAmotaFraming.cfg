\* The sizes of AmotaConstants.kt.
CONSTANTS
  FwHeaderSize = 48
  FwPacketSize = 4096
  MaxPayload = 240
  HeaderSizeInPkt = 3
  CrcSizeInPkt = 4
  MaxDataLength = 4096
SPECIFICATION Spec
INVARIANTS TypeOK NoWaitMidPacket CompleteWithLastFrame
PROPERTY PacketDelivered
CHECK_DEADLOCK FALSE
