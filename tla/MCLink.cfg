\* Three packets of one to three fragments over a line that refuses, damages and invents bytes,
\* packet ids that wrap at two.  Once all is sent and read, nothing more happens.
SPECIFICATION Spec
CONSTANTS
  Bytes = {0, 1, 2, 3}
  Sof = 2
  Payload = {0, 2}
  CrcLen = 1
  FrameCap = 5
  Pull = 3
  PidMod = 2
  MaxFrags = 3
  Room = 2
  MaxPackets = 3
  MaxNoise = 1
  LineCap = 2
  MaxResets = 1
INVARIANTS FramesExact NothingHeardIsLost PacketsWhole
CHECK_DEADLOCK FALSE
