SPECIFICATION RomFsSpec
CONSTANTS
  Emu = emu
  Async = {h1}
  FileSize = 5
  DataSize = 5
  LineSize = 2
  LineCount = 2
  MaxOffset = 5
  MaxLength = 3
  SizeMod = 64
  InBounds = FALSE
INVARIANTS OneInCache
CHECK_DEADLOCK FALSE
