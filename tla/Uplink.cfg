SPECIFICATION Spec
CONSTANTS
  Grounds = {"lockstep", "free"}
  MaxFrames = 2
  MaxLen = 2
  FifoDepth = 3
  NapTicks = 1
  QueueDepth = 1
  StoreCap = 1
  PktTicks = 3
  Replies = {0, 1}
  Patience = 16
INVARIANTS
  TypeOK
  UplinkFaithful
  
PROPERTIES
  NapLosesNothing
  FifoDrains
  LinkRecovers
