CONSTANTS
  Formats <- AvcOnly
  MinFb = 2
  Capacity <- PicturesThatFit
  LoopMax = 3
  None = None
  MaxCalls = 3
  MaxErrors = 0
SPECIFICATION Spec
INVARIANT DisplayedIsHeld
CHECK_DEADLOCK FALSE
