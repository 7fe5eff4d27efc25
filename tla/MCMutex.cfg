CONSTANTS
  t1 = t1  t2 = t2  t3 = t3  m1 = m1  m2 = m2
  e1 = e1  e2 = e2  s1 = s1  tm1 = tm1
  Thread = {t1, t2, t3}
  Mutex = {m1, m2}
  Semaphore = {}
  Event = {}
  Timer = {}
  None = None
  NumCores = 1
  core_id <- OneCore
  Process = {1}
  owner_process <- OneProcess
  ThreadPrioLowest = 3
  reset_type <- Resets
  max_count <- Maxima
  IntHalf = 4
  WaitTargets <- OnMutexes
  WaitLists <- MutexPairs
  ReleaseCounts <- Counts
  CreatePrios <- Ranked
  SetPrios = {}
  Suspendable = {}
  MaxLock = 1
SPECIFICATION Spec
INVARIANTS TypeOK OwnershipConsistent ReadyQueueConsistent  NoMissedPreemption
           WaitListsConsistent
PROPERTIES HeldUntilReleased
CHECK_DEADLOCK FALSE
