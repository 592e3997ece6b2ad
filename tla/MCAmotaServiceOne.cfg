\* Scaled sizes: a header or verify packet is one frame, a full data packet two.
CONSTANTS
  FwHeaderSize = 2
  FwPacketSize = 4
  MaxPayload = 5
  HeaderSizeInPkt = 1
  CrcSizeInPkt = 1
  good = good
  cut = cut
  short = short
  empty = empty
  absent = absent
  Path = {good, cut, short, empty, absent}
  NoPath = NoPath
  Firmware <- MCFirmware
  Offsets = {0, 3}
  MaxStarts = 1
  MaxPermits = 1
  ReadMayFail = TRUE
SPECIFICATION FairSpec
INVARIANTS StopWakesJob AtMostOneStray EndIsReported
PROPERTIES JobTerminates
\* The service rests when no call comes and no job runs.
CHECK_DEADLOCK FALSE
