CONSTANTS
  Size = 8
  Margin = 2
  Block = 2
  FillSize = 3
  Sources <- AllSources
  FrameSizes <- SomeSizes
  FileLength = 16
  MaxErrors = 2
  MaxStream = 16
SPECIFICATION Spec
INVARIANTS
  TypeOK
  NothingMissing
  OnlyTheTailIsLost
PROPERTY StreamSpec
CHECK_DEADLOCK FALSE
