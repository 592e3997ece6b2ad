CONSTANTS
  good = good
  empty = empty
  tiny = tiny
  absent = absent
  Peripheral = {p1, p2}
  NoPeripheral = NoPeripheral
  File = {good, tiny, empty, absent}
  NoFile = NoFile
  Size <- MCSize
  HeaderLength = 2
  Resume = {0, 4}
  Refusals = {"CRC_ERROR"}
  Brick = 4
  MaxStarts = 2
  MaxInits = 1
SPECIFICATION Spec
PROPERTIES StopIsFinal
\* The service rests when no call comes.
CHECK_DEADLOCK FALSE
