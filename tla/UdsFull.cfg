SPECIFICATION UdsSpec
CONSTANTS
  Station = {h1, c1, c2}
  Hosts = {h1}
  MaxNodes = 2
  Types = {"Client"}
  Orderly = FALSE
  MayEnd = {}
  MaxData = 0
  Flags = {0}
  None = None
INVARIANT NeverOverfull
CHECK_DEADLOCK FALSE
