SPECIFICATION Spec
CONSTANTS
  k1 = k1  k2 = k2  small = small  large = large
  Tomb = Tomb
  NoCall = NoCall
  Key <- TwoKeys
  Value <- OneValue
  Size <- MCSize
  PageCap = 4
  SeqHalf = 3
  Faults = {"program", "spare", "discard"}
INVARIANTS NoSplitBrain
PROPERTIES Atomic RecoveredIsWritable
