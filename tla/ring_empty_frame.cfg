CONSTANTS
  Size = 8
  Margin = 2
  Block = 2
  FillSize = 3
  Sources <- MemorySource
  FrameSizes <- SizesWithNone
  FileLength = 0
  MaxErrors = 0
  MaxStream = 8
SPECIFICATION Spec
INVARIANT OnlyFrameBytes
CHECK_DEADLOCK FALSE
