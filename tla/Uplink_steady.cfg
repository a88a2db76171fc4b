SPECIFICATION Spec
CONSTANTS
  Grounds = {"steady"}
  MaxFrames = 8
  MaxLen = 2
  FifoDepth = 4
  NapTicks = 2
  QueueDepth = 1
  StoreCap = 1
  PktTicks = 3
  Replies = {1}
  Patience = 18
INVARIANT
  NeverStarved
