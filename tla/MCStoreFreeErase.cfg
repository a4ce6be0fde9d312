SPECIFICATION Spec
CONSTANTS
  k1 = k1  k2 = k2  small = small  large = large
  Tomb = Tomb
  NoCall = NoCall
  Key <- OneKey
  Value <- TwoValues
  Size <- MCSize
  PageCap = 3
  SeqHalf = 3
  Faults = {"free"}
INVARIANT NoSplitBrain
