CONSTANT MaxFrames = 5
SPECIFICATION FairSpec
INVARIANTS
  TypeOK
  NoLostWakeup
  LagIsBounded
PROPERTIES
  HandOffSpec
  AwaitEnds
CHECK_DEADLOCK FALSE
