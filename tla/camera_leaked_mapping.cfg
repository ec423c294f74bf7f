CONSTANTS
  MaxBuffers = 3
  Granted <- MCGranted
  Faults <- AllFaults
  MaxFaults = 1
  NoFrame = NoFrame
  Wild = Wild
SPECIFICATION Spec
INVARIANT ClosedIsClean
CHECK_DEADLOCK FALSE
