CONSTANTS
  MaxBuffers = 3
  Granted <- MCGranted
  Faults <- RunningFaults
  MaxFaults = 1
  NoFrame = NoFrame
  Wild = Wild
SPECIFICATION Spec
INVARIANT SuccessMeansFrame
CHECK_DEADLOCK FALSE
