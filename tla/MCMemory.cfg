SPECIFICATION AllSpec
CONSTANTS
  None = None
  NoPage = NoPage
  p1 = p1  p2 = p2  b1 = b1
  o1 = o1  o2 = o2  o3 = o3  o4 = o4
  s1 = s1  s2 = s2
  Process <- Processes
  Object <- Objects
  Kind <- Kinds
  MayFail <- Failing
  LeavesShared = TRUE
  TableSize = 2
  SlotsPerPage = 2
  MaxPages = 1
  MaxCount = 4
  Block <- BlocksMade
  Frames = 3
  HeapPages = 3
  MaxSize = 2
  Careless = {}
SYMMETRY Symmetry
INVARIANTS LimitSound  MemorySound
PROPERTIES ImplementsPages ImplementsAddressSpace BuffersRestored
CHECK_DEADLOCK FALSE
