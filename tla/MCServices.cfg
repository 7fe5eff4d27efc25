SPECIFICATION AllSpec
CONSTANTS
  None = None
  Session = {s1, s2}
  MaxGSPThreads = 2
  Slots = 2
  Wrap = 8
  Commands = 2
  Command <- DrawAndStop
  Frame = {}
  Drawn = {}
  Lag = 1
  Patient = TRUE
  Station = {h1, c1, c2}
  Hosts = {h1}
  MaxNodes = 2
  Types = {"Client", "Spectator"}
  Orderly = TRUE
  MayEnd = {h1, c1}
  MaxData = 0
  Flags = {0}
  s1 = s1
  s2 = s2
  f1 = f1
  App = App
  Home = Home
  Sys = Sys
  Lib = Lib
  h1 = h1
  c1 = c1
  c2 = c2
  Crs = Crs
  ra = ra
  rb = rb
  rc = rc
INVARIANTS  SharedMemoryFaithful    ModulesSound
 
CHECK_DEADLOCK FALSE
