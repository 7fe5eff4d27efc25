--------------------------- MODULE KernelProperties ---------------------------
(***************************************************************************)
(* What the kernel's threads, wait objects and scheduler must guarantee.    *)
(***************************************************************************)
EXTENDS Kernel

\* No handler is running: the state between two supervisor calls or callbacks.
Quiet == calls = << >>

-----------------------------------------------------------------------------
\* Mutex::holding_thread, Mutex::lock_count and Thread::held_mutexes tell one
\* story: a mutex is locked exactly while it has a holder, and between handlers
\* its holder is the only thread that lists it, however recursive locks, timed
\* waits, wake-ups and terminations interleave.
OwnershipConsistent ==
  /\ \A m \in Mutex : lock_count[m] > 0 <=> holding_thread[m] # None
  /\ Quiet => \A m \in Mutex, t \in Thread :
       m \in held_mutexes[t] <=> holding_thread[m] = t

\* No mutex stays locked by a thread that was stopped: ReleaseThreadMutexes
\* frees every one of them and no later wake-up gives one to the dead thread.
NoDeadHolder ==
  Quiet => \A m \in Mutex, t \in Thread :
    holding_thread[m] = t => status[t] \notin {"Dead", "Dormant"}

\* A thread is in the waiting_threads of exactly the objects in its
\* wait_objects (once, even if a handle was passed twice), its pending_mutexes
\* are the mutexes among them, and only a thread blocked in a wait has any:
\* a wake-up, a timeout or a termination leaves no dangling entry.
WaitListsConsistent ==
  Quiet => /\ \A o \in Object : NoDuplicates(waiting_threads[o])
           /\ \A t \in Thread, o \in Object :
                In(t, waiting_threads[o]) <=> In(o, wait_objects[t])
           /\ \A t \in Thread :
                /\ pending_mutexes[t] = {m \in Mutex : In(m, wait_objects[t])}
                /\ wait_objects[t] # << >> => status[t] \in WaitSynch

\* A thread is in the ready queue exactly while it is Ready, once, in the queue
\* of its core at its current priority, also after priority inheritance moved
\* it: otherwise remove(current_priority, thread) would miss it.
ReadyQueueConsistent ==
  \A c \in Core, p \in Prio :
    /\ NoDuplicates(ready_queue[<<c, p>>])
    /\ \A t \in Thread :
         In(t, ready_queue[<<c, p>>]) <=>
           status[t] = "Ready" /\ core_id[t] = c /\ current_priority[t] = p

\* No thread sleeps on objects it could acquire: between handlers, a thread in a
\* wait-any (or a service wait) has only unavailable objects, one in a wait-all
\* at least one.
NoLostWakeup ==
  Quiet => \A t \in Thread :
    /\ status[t] \in {"WaitSynchAny", "WaitHleEvent"} =>
         \A i \in 1 .. Len(wait_objects[t]) : ShouldWait(wait_objects[t][i], t)
    /\ status[t] = "WaitSynchAll" =>
         \E i \in 1 .. Len(wait_objects[t]) : ShouldWait(wait_objects[t][i], t)

\* The assertions of GetHighestPriorityReadyThread, ResumeFromWait and Acquire
\* hold at every call: waiting lists hold only waiting threads, a thread is
\* resumed after its wait objects were cleared, never while running or dead,
\* one that is ready has no wake-up callback left, and nobody acquires an object
\* that is not available (only a semaphore does not assert it).
CallAssertions ==
  Quiet \/
    /\ Head(calls).op = "WakeupAllWaitingThreads" =>
         \A i \in 1 .. Len(waiting_threads[Head(calls).obj]) :
            status[waiting_threads[Head(calls).obj][i]] \in WaitSynch
    /\ Head(calls).op = "ResumeFromWait" =>
         /\ wait_objects[Head(calls).thr] = << >>
         /\ status[Head(calls).thr] \notin {"Running", "Dead"}
         /\ status[Head(calls).thr] = "Ready" => ~ wakeup_callback[Head(calls).thr]
    /\ Head(calls).op = "Acquire" /\ Head(calls).obj \notin Semaphore =>
         ~ ShouldWait(Head(calls).obj, Head(calls).thr)

\* A scheduled wake-up belongs to the thread's latest wait: a thread has at most
\* one, none while it runs and none once it is stopped (its entry in
\* wakeup_callback_table is gone then); a timer has at most one event too.
TimeoutsBelongToTheirWait ==
  /\ \A t \in Thread :
       /\ wakeup_event[t] <= 1
       /\ wakeup_event[t] > 0 => status[t] \in Waiting \cup {"Ready"}
  /\ Quiet => \A s \in Timer : timer_event[s] <= 1

\* A core runs at most one thread, the one its ThreadManager calls current.
OneRunningThread ==
  \A t \in Thread : status[t] = "Running" => current_thread[core_id[t]] = t

\* No missed preemption: unless a reschedule is pending, the running thread of a
\* core has a priority no worse than every ready thread of that core, and an
\* idle core has no ready thread, whatever changed the priorities.
NoMissedPreemption ==
  Quiet => \A c \in Core : c \in reschedule_pending \/
    \A t \in Thread : status[t] = "Ready" /\ core_id[t] = c /\ can_schedule[t] =>
      KeepsRunning(c) /\ current_priority[current_thread[c]] <= current_priority[t]

\* The current priority of a live thread is the best of its nominal priority and
\* of the priorities of the mutexes it holds: a boost ends with the mutex that
\* caused it and never outlives a release, a timeout or a terminated waiter.
PriorityFollowsMutexes ==
  Quiet => \A t \in Thread : status[t] # "Dead" =>
    current_priority[t] =
      InheritedPriority(nominal_priority[t], held_mutexes[t], priority)

\* Only its holder, by a call of its own or by dying, lets go of a mutex: no
\* other thread's call, timeout or wake-up takes a held mutex away.
HeldUntilReleased ==
  [][\A m \in Mutex, t \in Thread :
       holding_thread[m] = t /\ holding_thread'[m] # t =>
         \/ Quiet /\ status[t] = "Running"
         \/ status[t] = "Dead"]_vars

-----------------------------------------------------------------------------
(***************************************************************************)
(* Claims of the code's comments.                                          *)
(***************************************************************************)
\* "This prevents priority inversion via priority inheritance": the holder of a
\* mutex has a priority at least as good as every thread waiting for it.
NoPriorityInversion ==
  Quiet => \A m \in Mutex : \A i \in 1 .. Len(waiting_threads[m]) :
    holding_thread[m] # None =>
      current_priority[holding_thread[m]] <= current_priority[waiting_threads[m][i]]

\* "Temporarily boosts the thread's priority until the next time it is
\* scheduled": a thread that starts to run has its nominal priority.
BoostEndsWhenScheduled ==
  [][\A t \in Thread : status[t] # "Running" /\ status'[t] = "Running" =>
       current_priority'[t] = nominal_priority'[t]]_vars

-----------------------------------------------------------------------------
(***************************************************************************)
(* Progress.  A handler that started goes on to its end; time goes on, so a *)
(* scheduled event fires; a requested reschedule happens.                   *)
(***************************************************************************)
Fairness ==
  /\ WF_vars(CallStep)
  /\ \A t \in Thread : SF_vars(ThreadWakeupCallback(t))
  /\ \A c \in Core : SF_vars(Reschedule(c))

FairSpec == Spec /\ Fairness

\* The loops of the handlers terminate: WakeupAllWaitingThreads,
\* ReleaseThreadMutexes and TerminateProcessThreads always come to an end.
HandlersTerminate == []<>Quiet

\* A wait with a timeout and a sleep end, whatever the other threads do.
TimedWaitsEnd ==
  \A t \in Thread :
    (status[t] \in Waiting /\ wakeup_event[t] > 0) ~> status[t] \in {"Ready", "Running", "Dead"}
=============================================================================
