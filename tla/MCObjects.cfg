SPECIFICATION AllSpec
CONSTANTS
  None = None
  Port = Port
  Client = {c1, c2}
  Server = {v1}
  Session = {s1, s2, s3}
  MaxSessions = 2
  HandleLists <- PortLists
  MayStop = {c1, v1}
  MayClose = TRUE
  Worker = {w1, w2}
  MaxWork = 3
  MayRequestStop = TRUE
  Emu = emu
  Async = {host}
  FileSize = 5
  DataSize = 5
  LineSize = 2
  LineCount = 2
  MaxOffset = 5
  MaxLength = 3
  SizeMod = 64
  InBounds = TRUE
  s1 = s1  s2 = s2  s3 = s3  c1 = c1  c2 = c2  v1 = v1
  t1 = t1  t2 = t2  t3 = t3  a1 = a1  a2 = a2
  h1 = h1  n1 = n1  n2 = n2  n3 = n3  w1 = w1  w2 = w2
  emu = emu  host = host
INVARIANTS SessionsSound ReturnsWhenDone EventsKept ReadsFaithful
PROPERTIES BestWaiterFirst ImplementsQueues
CHECK_DEADLOCK FALSE
