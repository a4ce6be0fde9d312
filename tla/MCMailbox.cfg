\* Rings of two frames, chunks that cut a frame, one board reset and one lost session anywhere.
SPECIFICATION FairSpec
CONSTANTS
  Cap = 4
  IdxMod = 8
  FrameLen = 2
  Pull = 3
  Budget = 2
  QueueCap = 2
  MaxFrames = 3
  Drive <- LastTwo
  MaxResets = 1
  MaxLosses = 1
INVARIANTS SessionIsFifo AnswersInOrder
PROPERTIES FlushSparesSession Reconnects Served
