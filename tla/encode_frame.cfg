CONSTANTS
  Layouts <- MCLayouts
  Sizes <- MCSizes
  Surplus = 3
  Stale = Stale
  GopSize = 3
  MaxWaits = 1
  SliceSizes = {1}
  MaxSlices = 4
  CodedSizes = {1, 2}
  HeaderSizes <- MCHeaderSizes
  MaxNal = 3
  MaxLost = 2
SPECIFICATION FairSpec
INVARIANTS
  TypeOK
  ChromaInPlane
  SourceIsPicture
  OnlyTheTailIsStale
  DeliveredIsCoherent
  DamageIsBounded
PROPERTIES
  ForcedIsIntra
  CallReturns
CHECK_DEADLOCK FALSE
