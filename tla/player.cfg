CONSTANTS
  NIn = 2
  NOut = 3
  MaxEvents = 2
  MaxChanges = 2
SPECIFICATION FairSpec
INVARIANTS
  TypeOK
  NativeSafe
  LatencyBounded
  NoMutualWait
PROPERTIES
  TurnEnds
  StopsAfterClose
CHECK_DEADLOCK FALSE
