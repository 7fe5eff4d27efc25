CONSTANTS
  t1 = t1  t2 = t2  t3 = t3  m1 = m1  m2 = m2
  e1 = e1  e2 = e2  s1 = s1  tm1 = tm1
  Thread = {t1, t2}
  Mutex = {m1}
  Semaphore = {}
  Event = {e1}
  Timer = {}
  None = None
  NumCores = 1
  core_id <- OneCore
  Process = {1}
  owner_process <- OneProcess
  ThreadPrioLowest = 3
  reset_type <- Resets
  max_count <- Maxima
  IntHalf = 4
  WaitTargets <- OnOthers
  WaitLists <- NoLists
  ReleaseCounts <- Counts
  CreatePrios <- Ranked
  SetPrios = {}
  Suspendable = {}
  MaxLock = 1
  Port = Port
  s2 = s2
  c1 = c1
  c2 = c2
  v1 = v1
  a1 = a1
  a2 = a2
  h1 = h1
  n1 = n1
  n2 = n2
  App = App
  Home = Home
  Sys = Sys
  Lib = Lib
  w1 = w1
  w2 = w2
SPECIFICATION AllSpec
PROPERTIES
  HandlersTerminate WaitsEnd  HostThreadsServed  
CHECK_DEADLOCK FALSE
