CONSTANTS
  t1 = t1  t2 = t2  t3 = t3  m1 = m1  m2 = m2
  e1 = e1  e2 = e2  s1 = s1  tm1 = tm1
  Thread = {t1, t2}
  Mutex = {}
  Semaphore = {s1}
  Event = {e1, e2}
  Timer = {tm1}
  None = None
  NumCores = 1
  core_id <- OneCore
  Process = {1}
  owner_process <- OneProcess
  ThreadPrioLowest = 3
  reset_type <- Resets
  max_count <- Maxima
  IntHalf = 4
  WaitTargets <- OnOthers
  WaitLists <- Signals
  ReleaseCounts <- Counts
  CreatePrios <- Ranked
  SetPrios = {}
  Suspendable = {}
  MaxLock = 1
SPECIFICATION Spec
INVARIANTS NoLostWakeup TimeoutsBelongToTheirWait CallAssertions
CHECK_DEADLOCK FALSE
