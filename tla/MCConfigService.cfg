SPECIFICATION FairService
CONSTANTS
  k1 = k1  k2 = k2  small = small  large = large
  Tomb = Tomb
  NoCall = NoCall
  Bad = Bad
  AddrKey = k1
  OdoKey = k2
  Key <- TwoKeys
  Value <- OneValue
  Size <- MCSize
  Requests <- MCRequests
  PageCap = 3
  SeqHalf = 3
  Faults = {"program", "discard"}
INVARIANTS PrefixApplied NoSpaceIsGenuine
PROPERTIES OkIsDurable ArmedWritesNothing RequestsAnswered
