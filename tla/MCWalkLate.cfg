SPECIFICATION Spec
CONSTANTS
  A = A
  B = B
  C = C
  Nodes = {A, B, C}
  Host = Host
  NPorts = 2
  Peer <- ChainPeer
  LastBoard = 7
  Slice = 2
  StartAddrs <- AllStarts
  MaxNodes = 8
  MaxTasks = 16
  Tries = 2
  Faults = {"early"}
  MaxFaults = 1
  Cap = 3
CHECK_DEADLOCK FALSE
PROPERTY CollisionsAreReal
