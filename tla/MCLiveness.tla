----------------------------- MODULE MCLiveness -----------------------------
(***************************************************************************)
(* What must eventually happen in the kernel, sessions, the address        *)
(* arbiter, core timing, APT, nwm::UDS and the worker threads, in one run. *)
(* In a behaviour only the one that `part` names moves, as in MCObjects;   *)
(* each has the fairness of its own module.                                *)
(***************************************************************************)
EXTENDS MCKernel

CONSTANTS Port, s2, c1, c2, v1, a1, a2, h1, n1, n2, App, Home, Sys, Lib, w1, w2

VARIABLES part,
  peer, peer_waits, kind, client, held, pending_requesting_threads,       \* Sessions
  currently_handling, pending_sessions, active_sessions, dead_resumed,
  memory, arb_status, wait_address, arb_threads, arb_event, arb_callback, \* AddressArbiter
  alive, stale_waiter, stale_callback,
  first, tsFirst, eventPool, eventTsPool, allocatedTsEvents, hasTsEvents, \* CoreTiming
  globalTimer, pc, current, callbacks, lock, hand, hostpc, file,
  apt, proc, prep, dspAsked,                                              \* AppletManager
  st, node_map, channel_data, out, net, overfull, sent, got,              \* Uds
  requests, queue_mutex, worker, owner, work_scheduled, work_done,        \* ThreadWorker
  workers_stopped, stop

S == INSTANCE MCSessions WITH
       Client <- {c1, c2}, Server <- {v1}, Session <- {s1, s2}, MaxSessions <- 2,
       HandleLists <- {}, MayStop <- {}, MayClose <- FALSE, status <- peer, wait_objects <- peer_waits
A == INSTANCE AddressArbiter WITH
       Thread <- {t1, t2}, Address <- {a1, a2}, Priority <- [t \in {t1, t2} |-> IF t = t1 THEN 0 ELSE 1],
       Low <- -2, High <- 1, MayStop <- {t2}, MayClose <- TRUE, status <- arb_status,
       waiting_threads <- arb_threads, wakeup_event <- arb_event, wakeup_callback <- arb_callback
T == INSTANCE CoreTiming WITH
       Node <- {n1, n2}, Host <- {h1}, Type <- {"a"}, Delays <- {1, 2}, MaxIdle <- 2,
       MaxTime <- 2, MaxBorrowed <- 3, MaxCalls <- 1, MayRestore <- FALSE, MayRestart <- FALSE,
       calls <- callbacks
P == INSTANCE AppletManager WITH Chatter <- {}, Hasty <- FALSE, Dsp <- FALSE
U == INSTANCE Uds WITH
       Station <- {h1, c1, c2}, Hosts <- {h1}, MaxNodes <- 3, Types <- {"Client", "Spectator"},
       Orderly <- TRUE, MayEnd <- {}, MaxData <- 0, Flags <- {0}
K == INSTANCE ThreadWorker WITH Worker <- {w1, w2}, MaxWork <- 3, MayRequestStop <- FALSE

sessions == <<peer, peer_waits, kind, client, held, pending_requesting_threads,
              currently_handling, pending_sessions, active_sessions, dead_resumed>>
arbiter  == <<memory, arb_status, wait_address, arb_threads, arb_event, arb_callback, alive,
              stale_waiter, stale_callback>>
timing   == <<first, tsFirst, eventPool, eventTsPool, allocatedTsEvents, hasTsEvents,
              globalTimer, pc, current, callbacks, lock, hand, hostpc, file>>
applets  == <<apt, proc, prep, dspAsked>>
uds      == <<st, node_map, channel_data, out, net, overfull, sent, got>>
workers  == <<requests, queue_mutex, worker, owner, work_scheduled, work_done, workers_stopped,
              stop>>
all      == <<part, vars, sessions, arbiter, timing, applets, uds, workers>>

AllInit ==
  /\ part \in {"kernel", "sessions", "arbiter", "timing", "applets", "uds", "workers"}
  /\ Init /\ S!Init /\ T!Init /\ U!UdsInit /\ K!WorkersInit
  /\ A!Init /\ (part # "arbiter" => memory = [a \in {a1, a2} |-> 0])
  /\ P!Init /\ (part # "applets" => proc[App] = "started")

\* A step of one part, in which the others rest.
OfKernel(step)   == /\ part = "kernel"   /\ step
                    /\ UNCHANGED <<part, sessions, arbiter, timing, applets, uds, workers>>
OfSessions(step) == /\ part = "sessions" /\ step
                    /\ UNCHANGED <<part, vars, arbiter, timing, applets, uds, workers>>
OfArbiter(step)  == /\ part = "arbiter"  /\ step
                    /\ UNCHANGED <<part, vars, sessions, timing, applets, uds, workers>>
OfTiming(step)   == /\ part = "timing"   /\ step
                    /\ UNCHANGED <<part, vars, sessions, arbiter, applets, uds, workers>>
OfApplets(step)  == /\ part = "applets"  /\ step
                    /\ UNCHANGED <<part, vars, sessions, arbiter, timing, uds, workers>>
OfUds(step)      == /\ part = "uds"      /\ step
                    /\ UNCHANGED <<part, vars, sessions, arbiter, timing, applets, workers>>
OfWorkers(step)  == /\ part = "workers"  /\ step
                    /\ UNCHANGED <<part, vars, sessions, arbiter, timing, applets, uds>>

AllNext ==
  \/ OfKernel(Next) \/ OfSessions(S!LoopNext) \/ OfArbiter(A!Next)
  \/ OfTiming(T!Next) \/ OfApplets(P!Next) \/ OfUds(U!UdsNext) \/ OfWorkers(K!WorkersNext)

AllFairness ==
  /\ WF_all(OfKernel(CallStep))
  /\ \A t \in Thread : SF_all(OfKernel(ThreadWakeupCallback(t)))
  /\ \A c \in Core : SF_all(OfKernel(Reschedule(c)))
  /\ WF_all(OfSessions(S!Loop(v1)))
  /\ \A t \in {t1, t2} : WF_all(OfArbiter(A!Timeout(t))) /\ WF_all(OfArbiter(A!Run(t)))
  /\ WF_all(OfTiming(T!Tick)) /\ WF_all(OfTiming(T!Check)) /\ SF_all(OfTiming(T!MoveEvents))
  /\ WF_all(OfTiming(T!Callback)) /\ WF_all(OfTiming(T!CallbackReturns)) /\ WF_all(OfTiming(T!Processed))
  /\ WF_all(OfTiming(T!HostStep(h1)))
  /\ \A x \in {App, Home, Sys} : /\ WF_all(OfApplets(P!Initialize(x))) /\ WF_all(OfApplets(P!Enable(x)))
                                 /\ WF_all(OfApplets(P!ReceiveParameter(x)))
  /\ WF_all(OfApplets(apt.hle \in {"closed", "revived"} /\ P!HLEAppletUpdate))
  /\ \A s \in {h1, c1, c2} : WF_all(OfUds(U!NetworkThread(s))) /\ WF_all(OfUds(U!SendPacket(s)))
  /\ WF_all(OfWorkers(K!Notify)) /\ WF_all(OfWorkers(K!OwnerReturns))
  /\ \A w \in {w1, w2} : WF_all(OfWorkers(K!WorkerStep(w)))

AllSpec == AllInit /\ [][AllNext]_all /\ AllFairness

-----------------------------------------------------------------------------
\* Every request of a client is answered by a server that serves its sessions.
EveryRequestAnswered == S!EveryRequestAnswered

\* A wait with a timeout ends, for objects and in the arbiter.
WaitsEnd == TimedWaitsEnd /\ A!TimedArbitrationEnds

\* What one host thread hands to another is served: an event reaches the queue
\* of the CPU thread, and WaitForRequests returns.
HostThreadsServed == T!HostEventsArrive /\ K!WaitEnds

\* Whoever is put in the foreground comes to run.
ForegroundResumes == P!ForegroundResumes

\* An attempt to join a network that goes on and has room succeeds.
JoinCompletes == U!JoinCompletes
=============================================================================
