\* Scaled sizes: a header or verify packet is one frame, a full data packet two.
CONSTANTS
  FwHeaderSize = 2
  FwPacketSize = 4
  MaxPayload = 5
  HeaderSizeInPkt = 1
  CrcSizeInPkt = 1
  good = good
  cut = cut
  short = short
  empty = empty
  absent = absent
  Path = {good}
  NoPath = NoPath
  Firmware <- MCGoodFile
  Offsets = {0}
  MaxStarts = 2
  MaxPermits = 1
  ReadMayFail = FALSE
SPECIFICATION Spec
PROPERTIES StartLaunchesJob
\* The service rests when no call comes and no job runs.
CHECK_DEADLOCK FALSE
