CONSTANTS
  MaxCount = 3
  GenLimit = 5
  SlotMod = 4
  HandleMod = 40
  Object = {o1, o2}
  Null = Null
SPECIFICATION MCSpec
INVARIANTS FreeListSound StaleHandlesInvalid
PROPERTY ImplementsMap
