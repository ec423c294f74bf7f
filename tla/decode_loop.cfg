CONSTANTS
  Formats <- BothFormats
  MinFb = 2
  Capacity <- PicturesThatFit
  LoopMax = 2
  None = None
  MaxCalls = 4
  MaxErrors = 2
SPECIFICATION FairSpec
INVARIANTS
  TypeOK
  FlagsAccounted
  NeverStarved
  OwnPicture
  LagIsBounded
PROPERTY CallReturns
CHECK_DEADLOCK FALSE
