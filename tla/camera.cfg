CONSTANTS
  MaxBuffers = 3
  Granted <- MCGranted
  Faults <- AllFaults
  MaxFaults = 4
  NoFrame = NoFrame
  Wild = Wild
SPECIFICATION FairSpec
INVARIANTS
  TypeOK
  LentFrameIsReal
  LossIsBounded
  LentIsMapped
  ReleasedOnce
  CleanedUp
PROPERTY FramesKeepComing
CHECK_DEADLOCK FALSE
