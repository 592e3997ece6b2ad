\* Scaled sizes: a header or verify packet is one frame, a full data packet three.
CONSTANTS
  FwHeaderSize = 2
  FwPacketSize = 10
  MaxPayload = 5
  HeaderSizeInPkt = 1
  CrcSizeInPkt = 1
  good = good
  edge = edge
  Path = {edge}
  NoPath = NoPath
  Firmware <- MCEdgeFile
  Offsets = {0}
  MaxStarts = 1
  MaxPermits = 20
  ReadMayFail = FALSE
  Stored = {0}
  MaxLosses = 0
  MayStop = FALSE
SPECIFICATION SysSpec
INVARIANTS VerifyAnsweredInTime
\* The system rests when the user starts nothing and no job runs.
CHECK_DEADLOCK FALSE
