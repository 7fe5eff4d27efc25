----------------------------- MODULE ThreadWorker -----------------------------
(***************************************************************************)
(* common/thread_worker.h: host threads that run queued tasks, and an      *)
(* owner that queues work and waits until it is done.  A worker counts a   *)
(* finished task without the lock and announces an empty queue when it     *)
(* next takes it.  The owner's wait is two steps, as what it tests may     *)
(* change between the test and the moment it sleeps.                       *)
(***************************************************************************)
EXTENDS Integers, FiniteSets

CONSTANTS Worker,
          MaxWork,   \* bound: tasks queued
          MayRequestStop   \* whether a stop is requested while the owner waits

VARIABLES requests,         \* number of queued tasks
          queue_mutex,      \* its holder
          worker,           \* [worker -> where it is]
          owner,            \* where the owner is
          work_scheduled, work_done, workers_stopped,
          stop              \* stop was requested

worker_vars == <<requests, queue_mutex, worker, owner, work_scheduled, work_done, workers_stopped, stop>>

WorkersInit ==
  /\ requests = 0 /\ queue_mutex = "free"
  /\ worker = [w \in Worker |-> "loop"] /\ owner = "out"
  /\ work_scheduled = 0 /\ work_done = 0 /\ workers_stopped = 0
  /\ stop = FALSE

-----------------------------------------------------------------------------
(* The loop of a worker *)

\* wait_condition.notify_all
Announced == IF owner = "waits" THEN "woken" ELSE owner

LoopQuietly(w) ==   \* mutant
  /\ worker[w] = "loop" /\ queue_mutex = "free"
  /\ \/ stop /\ worker' = [worker EXCEPT ![w] = "leaves"] /\ UNCHANGED requests
     \/ ~ stop /\ requests = 0 /\ worker' = [worker EXCEPT ![w] = "waits"] /\ UNCHANGED requests
     \/ ~ stop /\ requests > 0 /\ worker' = [worker EXCEPT ![w] = "runs"] /\ requests' = requests - 1
  /\ UNCHANGED <<queue_mutex, owner, work_scheduled, work_done, workers_stopped, stop>>

\* Under the lock: an empty queue is announced; then the worker sleeps, takes a
\* task or sees that it should stop, if it did not before.
Loop(w) ==
  /\ worker[w] = "loop" /\ queue_mutex = "free"
  /\ owner' = IF requests = 0 THEN Announced ELSE owner
  /\ \/ stop /\ worker' = [worker EXCEPT ![w] = "leaves"] /\ UNCHANGED requests
     \/ ~ stop /\ requests = 0 /\ worker' = [worker EXCEPT ![w] = "waits"] /\ UNCHANGED requests
     \/ ~ stop /\ requests > 0 /\ worker' = [worker EXCEPT ![w] = "runs"] /\ requests' = requests - 1
  /\ UNCHANGED <<queue_mutex, work_scheduled, work_done, workers_stopped, stop>>

\* CondvarWait returns with the lock, or goes on waiting.
Awake(w) ==
  /\ worker[w] = "woken" /\ queue_mutex = "free"
  /\ worker' = [worker EXCEPT ![w] = IF stop THEN "leaves" ELSE IF requests > 0 THEN "runs" ELSE "waits"]
  /\ requests' = IF ~ stop /\ requests > 0 THEN requests - 1 ELSE requests
  /\ UNCHANGED <<queue_mutex, owner, work_scheduled, work_done, workers_stopped, stop>>

Finish(w) ==
  /\ worker[w] = "runs"
  /\ work_done' = work_done + 1
  /\ worker' = [worker EXCEPT ![w] = "loop"]
  /\ UNCHANGED <<requests, queue_mutex, owner, work_scheduled, workers_stopped, stop>>

\* The test at the head of the loop.
StopRequested(w) ==
  /\ worker[w] = "loop" /\ stop
  /\ worker' = [worker EXCEPT ![w] = "leaves"]
  /\ UNCHANGED <<requests, queue_mutex, owner, work_scheduled, work_done, workers_stopped, stop>>

\* The count, and the announcement without the lock.
Leave(w) ==
  /\ worker[w] = "leaves"
  /\ workers_stopped' = workers_stopped + 1
  /\ worker' = [worker EXCEPT ![w] = "announces"]
  /\ UNCHANGED <<requests, queue_mutex, owner, work_scheduled, work_done, stop>>

Gone(w) ==
  /\ worker[w] = "announces"
  /\ owner' = Announced
  /\ worker' = [worker EXCEPT ![w] = "gone"]
  /\ UNCHANGED <<requests, queue_mutex, work_scheduled, work_done, workers_stopped, stop>>

-----------------------------------------------------------------------------
(* The owner *)

QueueWork ==
  /\ owner = "out" /\ queue_mutex = "free" /\ work_scheduled < MaxWork
  /\ requests' = requests + 1 /\ work_scheduled' = work_scheduled + 1
  /\ owner' = "notifies"
  /\ UNCHANGED <<queue_mutex, worker, work_done, workers_stopped, stop>>

\* condition.notify_one
Notify ==
  /\ owner = "notifies" /\ owner' = "out"
  /\ \/ \E w \in Worker : worker[w] = "waits" /\ worker' = [worker EXCEPT ![w] = "woken"]
     \/ (\A w \in Worker : worker[w] # "waits") /\ UNCHANGED worker
  /\ UNCHANGED <<requests, queue_mutex, work_scheduled, work_done, workers_stopped, stop>>

DoneUnlessStarted == requests = 0   \* mutant

Done == workers_stopped >= Cardinality(Worker) \/ work_done >= work_scheduled

\* WaitForRequests; the lock is held until the owner sleeps.
WaitForRequests ==
  /\ owner \in {"out", "woken"} /\ queue_mutex = "free"
  /\ owner = "out" => work_scheduled > 0
  /\ IF Done THEN owner' = "returned" /\ UNCHANGED queue_mutex
     ELSE owner' = "tested" /\ queue_mutex' = "owner"
  /\ UNCHANGED <<requests, worker, work_scheduled, work_done, workers_stopped, stop>>

Sleep ==
  /\ owner = "tested" /\ owner' = "waits" /\ queue_mutex' = "free"
  /\ UNCHANGED <<requests, worker, work_scheduled, work_done, workers_stopped, stop>>

Continue ==
  /\ owner = "returned" /\ owner' = "out"
  /\ UNCHANGED <<requests, queue_mutex, worker, work_scheduled, work_done, workers_stopped, stop>>

\* The stop token of WaitForRequests asks all workers to stop.
RequestStop ==
  /\ MayRequestStop /\ owner \in {"tested", "waits", "woken"} /\ ~ stop
  /\ stop' = TRUE
  /\ worker' = [w \in Worker |-> IF worker[w] = "waits" THEN "woken" ELSE worker[w]]
  /\ UNCHANGED <<requests, queue_mutex, owner, work_scheduled, work_done, workers_stopped>>

WorkerStep(w) == StopRequested(w) \/ Loop(w) \/ Awake(w) \/ Finish(w) \/ Leave(w) \/ Gone(w)
WorkersNext ==
  \/ \E w \in Worker : WorkerStep(w)
  \/ QueueWork \/ Notify \/ WaitForRequests \/ Sleep \/ Continue \/ RequestStop

WorkersSpec == WorkersInit /\ [][WorkersNext]_worker_vars

OwnerReturns == owner \in {"tested", "woken"} /\ (Sleep \/ WaitForRequests)

\* The host runs its threads; tasks end.
WorkersFairSpec == WorkersSpec /\ WF_worker_vars(Notify) /\ WF_worker_vars(OwnerReturns)
                 /\ \A w \in Worker : WF_worker_vars(WorkerStep(w))

-----------------------------------------------------------------------------
\* When WaitForRequests returns and nobody asked for a stop, all work that was
\* queued has been run to its end (thread_worker.h:93).
ReturnsWhenDone ==
  owner = "returned" /\ ~ stop => requests = 0 /\ \A w \in Worker : worker[w] # "runs"

\* WaitForRequests returns, although the count of finished tasks changes without
\* the lock (thread_worker.h:58).
WaitEnds == (owner \in {"tested", "waits", "woken"}) ~> (owner = "returned")
=============================================================================
