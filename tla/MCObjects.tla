------------------------------ MODULE MCObjects ------------------------------
(***************************************************************************)
(* Sessions, the address arbiter, core timing, the ready queue, the worker *)
(* threads and the RomFS reader in one run.                                *)
(* They share no state: in a behaviour the one that `part` names moves and *)
(* the others stay in their initial states, so that TLC visits the sum of  *)
(* their state spaces and not the product.                                 *)
(***************************************************************************)
EXTENDS Sessions, ThreadWorker, RomFsReader

CONSTANTS s1, s2, s3, c1, c2, v1, t1, t2, t3, a1, a2, h1, n1, n2, n3, w1, w2,
          emu, host

VARIABLES part,
  memory, thread_status, wait_address, waiting_threads, wakeup_event,     \* AddressArbiter
  wakeup_callback, alive, stale_waiter, stale_callback,
  first, tsFirst, eventPool, eventTsPool, allocatedTsEvents, hasTsEvents, \* CoreTiming
  globalTimer, pc, current, calls, lock, hand, hostpc, file,
  best, queues, popped                                                    \* ThreadQueueList

\* One server thread, two clients and ports for two of three sessions (the module
\* Sessions itself); threads die and server handles are closed, also of sessions
\* that a wait keeps alive while somebody connects.
PortLists == {<<Port, s1>>, <<Port, s2, s1>>, <<s2, s1>>}

\* Two of the three threads have the same priority.
A == INSTANCE AddressArbiter WITH
       Thread <- {t1, t2, t3}, Address <- {a1, a2},
       Priority <- [t \in {t1, t2, t3} |-> IF t = t1 THEN 0 ELSE 1],
       Low <- -2, High <- 1, MayStop <- {}, MayClose <- FALSE, status <- thread_status

\* The queues while the emulation runs, and across save states and restarts.
T == INSTANCE CoreTiming WITH
       Node <- {n1, n2, n3}, Host <- {h1}, Type <- {"a", "b"}, Delays <- {0, 2}, MaxIdle <- 2,
       MaxTime <- 3, MaxBorrowed <- 3, MaxCalls <- 1, MayRestore <- FALSE, MayRestart <- FALSE
R == INSTANCE CoreTiming WITH
       Node <- {n1, n2}, Host <- {h1}, Type <- {"a"}, Delays <- {0, 1}, MaxIdle <- 2,
       MaxTime <- 1, MaxBorrowed <- 2, MaxCalls <- 1, MayRestore <- TRUE, MayRestart <- TRUE

\* Two threads in queues of three priorities.
Q == INSTANCE ThreadQueueList WITH
       Id <- {t1, t2}, NUM_QUEUES <- 3, INITIAL_CAPACITY <- 2, first <- best

\* Two workers, which may be stopped, and lines of two bytes for a RomFS of five,
\* so that reads fit a line, span two or are too big (the modules ThreadWorker and
\* RomFsReader themselves).

sessions == vars
arbiter  == <<memory, thread_status, wait_address, waiting_threads, wakeup_event,
              wakeup_callback, alive, stale_waiter, stale_callback>>
timing   == <<first, tsFirst, eventPool, eventTsPool, allocatedTsEvents, hasTsEvents,
              globalTimer, pc, current, calls, lock, hand, hostpc, file>>
ready    == <<best, queues, popped>>
workers  == worker_vars
romfs    == romfs_vars
all      == <<part, sessions, arbiter, timing, ready, workers, romfs>>

AllInit ==
  /\ part \in {"sessions", "arbiter", "timing", "restarts", "ready", "workers", "romfs"}
  /\ Init /\ T!Init /\ Q!Init /\ WorkersInit /\ RomFsInit
  /\ A!Init /\ (part # "arbiter" => memory = [a \in {a1, a2} |-> 0])

AllNext ==
  \/ part = "sessions" /\ Next /\ UNCHANGED <<part, arbiter, timing, ready, workers, romfs>>
  \/ part = "arbiter"  /\ A!Next /\ UNCHANGED <<part, sessions, timing, ready, workers, romfs>>
  \/ part = "timing"   /\ T!Next /\ UNCHANGED <<part, sessions, arbiter, ready, workers, romfs>>
  \/ part = "restarts" /\ R!Next /\ UNCHANGED <<part, sessions, arbiter, ready, workers, romfs>>
  \/ part = "ready"    /\ Q!Next /\ UNCHANGED <<part, sessions, arbiter, timing, workers, romfs>>
  \/ part = "workers"  /\ WorkersNext /\ UNCHANGED <<part, sessions, arbiter, timing, ready, romfs>>
  \/ part = "romfs"    /\ RomFsNext /\ UNCHANGED <<part, sessions, arbiter, timing, ready, workers>>

AllSpec == AllInit /\ [][AllNext]_all

-----------------------------------------------------------------------------
\* A signal wakes the best of the waiting threads, and the arbiter's list holds
\* exactly the threads that still wait.
BestWaiterFirst == [][part = "arbiter" => A!BestWaiterFirst /\ A!ListHoldsTheWaiters']_all

\* An event structure is in one list, pool or hand and events run in the order of
\* their times, also after save states are read and the emulator is restarted;
\* while neither happens, no event of the CPU thread is more than a cycle late, and
\* the flag announces every event that another thread has appended.
EventsKept ==
  /\ part = "timing"   => T!NodesInOnePlace /\ T!EventsInOrder /\ T!NeverSkipped /\ T!FlagCoversQueue
  /\ part = "restarts" => R!NodesInOnePlace /\ R!EventsInOrder

\* The ready queue's arrays behave as one sequence per priority and keep room
\* at both ends.
ImplementsQueues ==
  /\ part = "ready" => Q!Lists!Init
  /\ [][part = "ready" =>
          /\ Q!Lists!Next \/ UNCHANGED <<[p \in Q!Priority |-> Q!Contents(queues[p])], popped>>
          /\ Q!RoomAtBothEnds']_all
=============================================================================
