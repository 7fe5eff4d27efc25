----------------------------- MODULE KernelCalls -----------------------------
(***************************************************************************)
(* The methods of threads and wait objects that kernel handlers call.       *)
(*                                                                         *)
(* A handler runs under the HLE lock from start to end.  `calls` holds the  *)
(* method calls it has still to make: each step here makes the first one,  *)
(* possibly replacing it by the calls of its own body, and while there are  *)
(* any nothing else in the system moves (see module Kernel).                *)
(***************************************************************************)
EXTENDS KernelState

PrepareReschedule == reschedule_pending' = Core

\* The next call is op; `body` takes its place.
Make(op, body) ==
  /\ calls # << >>
  /\ Head(calls).op = op
  /\ calls' = body \o Tail(calls)

-----------------------------------------------------------------------------
(***************************************************************************)
(* Priorities.                                                             *)
(***************************************************************************)
BoostWithoutMove(t, p) ==   \* mutant
  /\ current_priority' = [current_priority EXCEPT ![t] = p]
  /\ UNCHANGED ready_queue

BoostPriority(t, p) ==
  /\ current_priority' = [current_priority EXCEPT ![t] = p]
  /\ ready_queue' = IF status[t] = "Ready"
                    THEN Move(ready_queue, t, current_priority[t], p)
                    ELSE ready_queue

\* Thread::UpdatePriority: the best of its own priority and of those of the
\* mutexes it holds, given the new values of held_mutexes and priority.
InheritedPriority(nominal, held, prio) == Best({nominal} \cup {prio[m] : m \in held})

ThreadUpdatePriority(t, held, prio) ==
  BoostPriority(t, InheritedPriority(nominal_priority[t], held, prio))

\* Mutex::UpdatePriority, for a mutex with the given waiting threads.
WaitersPriorityOffByOne(waiters) ==   \* mutant
  Best({ThreadPrioLowest + 1} \cup {current_priority[waiters[i]] : i \in 1 .. Len(waiters)})

WaitersPriority(waiters) ==
  Best({ThreadPrioLowest} \cup {current_priority[waiters[i]] : i \in 1 .. Len(waiters)})

UpdateOnlyMutex(m, waiters) ==   \* mutant
  IF holding_thread[m] = None
  THEN UNCHANGED <<priority, current_priority, ready_queue>>
  ELSE /\ priority' = [priority EXCEPT ![m] = WaitersPriority(waiters)]
       /\ UNCHANGED <<current_priority, ready_queue>>

MutexUpdatePriority(m, waiters) ==
  IF holding_thread[m] = None \/ WaitersPriority(waiters) = priority[m]
  THEN UNCHANGED <<priority, current_priority, ready_queue>>
  ELSE /\ priority' = [priority EXCEPT ![m] = WaitersPriority(waiters)]
       /\ ThreadUpdatePriority(holding_thread[m], held_mutexes[holding_thread[m]],
                               priority')

-----------------------------------------------------------------------------
(***************************************************************************)
(* ShouldWait and Acquire of each class.                                   *)
(***************************************************************************)
ShouldWait(o, t) ==
  \/ o \in Mutex /\ lock_count[o] > 0 /\ holding_thread[o] # t
  \/ o \in Semaphore /\ available_count[o] <= 0
  \/ o \in Signal /\ ~ signaled[o]
  \/ o \in Thread /\ status[o] # "Dead"

AcquireFreeMutex(m, t) ==
  /\ lock_count[m] = 0
  /\ lock_count' = [lock_count EXCEPT ![m] = 1]
  /\ holding_thread' = [holding_thread EXCEPT ![m] = t]
  /\ held_mutexes' = [held_mutexes EXCEPT ![t] = @ \cup {m}]
  /\ priority' = [priority EXCEPT ![m] = current_priority[t]]
  /\ ThreadUpdatePriority(t, held_mutexes'[t], priority')
  /\ PrepareReschedule
  /\ UNCHANGED signalVars

AcquireHeldMutex(m) ==
  /\ lock_count[m] # 0
  /\ lock_count' = [lock_count EXCEPT ![m] = @ + 1]
  /\ UNCHANGED <<holding_thread, held_mutexes, priority, current_priority,
                 ready_queue, reschedule_pending, signalVars>>

AcquireSemaphore(s) ==
  /\ available_count' = [available_count EXCEPT ![s] = IF @ <= 0 THEN @ ELSE @ - 1]
  /\ UNCHANGED <<mutexVars, current_priority, ready_queue, reschedule_pending,
                 signaled, interval_delay>>

AcquireSignal(s) ==
  /\ signaled' = [signaled EXCEPT ![s] = @ /\ reset_type[s] # "OneShot"]
  /\ UNCHANGED <<mutexVars, current_priority, ready_queue, reschedule_pending,
                 available_count, interval_delay>>

AcquireThread ==
  UNCHANGED <<mutexVars, current_priority, ready_queue, reschedule_pending, signalVars>>

Acquire ==
  LET o == Head(calls).obj
      t == Head(calls).thr
  IN  /\ Make("Acquire", << >>)
      /\ \/ o \in Mutex /\ (AcquireFreeMutex(o, t) \/ AcquireHeldMutex(o))
         \/ o \in Semaphore /\ AcquireSemaphore(o)
         \/ o \in Signal /\ AcquireSignal(o)
         \/ o \in Thread /\ AcquireThread
      /\ UNCHANGED <<status, wakeup_callback, current_thread, can_schedule, exited,
                     nominal_priority, waitVars, eventVars>>

-----------------------------------------------------------------------------
(***************************************************************************)
(* Waiting lists.  A mutex also records the wait in the thread and passes   *)
(* the best priority of its waiting threads on to its holder.               *)
(***************************************************************************)
ChangeWaiters(o, t, waiters, pending) ==
  /\ waiting_threads' = [waiting_threads EXCEPT ![o] = waiters]
  /\ IF o \in Mutex
     THEN /\ pending_mutexes' = [pending_mutexes EXCEPT ![t] = pending]
          /\ MutexUpdatePriority(o, waiters)
     ELSE UNCHANGED <<pending_mutexes, priority, current_priority, ready_queue>>
  /\ UNCHANGED <<status, wakeup_callback, current_thread, can_schedule, exited,
                 nominal_priority, wait_objects, lock_count, holding_thread,
                 held_mutexes, signalVars, eventVars, reschedule_pending>>

AddWaitingThread ==
  LET o == Head(calls).obj
      t == Head(calls).thr
  IN  /\ Make("AddWaitingThread", << >>)
      /\ ChangeWaiters(o, t,
                       IF In(t, waiting_threads[o]) THEN waiting_threads[o]
                       ELSE Append(waiting_threads[o], t),
                       pending_mutexes[t] \cup {o})

RemoveWaitingThread ==
  LET o == Head(calls).obj
      t == Head(calls).thr
  IN  /\ Make("RemoveWaitingThread", << >>)
      /\ ChangeWaiters(o, t, Erase(t, waiting_threads[o]), pending_mutexes[t] \ {o})

CanWakeAny(o, i) == ~ ShouldWait(o, waiting_threads[o][i])   \* mutant

\* The i-th waiting thread of o can be given the object now.
CanWake(o, i) ==
  LET t == waiting_threads[o][i]
  IN  /\ ~ ShouldWait(o, t)
      /\ status[t] = "WaitSynchAll" =>
           \A j \in 1 .. Len(wait_objects[t]) : ~ ShouldWait(wait_objects[t][j], t)

\* GetHighestPriorityReadyThread returns the i-th waiting thread: the best
\* priority of those that can be woken, the first of equals.
IsHighestPriorityReady(o, i) ==
  /\ CanWake(o, i)
  /\ \A j \in 1 .. Len(waiting_threads[o]) : CanWake(o, j) =>
       LET p == current_priority[waiting_threads[o][i]]
           q == current_priority[waiting_threads[o][j]]
       IN  p < q \/ (p = q /\ i <= j)

WakeupWithoutRemoval(o, t) ==   \* mutant
  <<ThreadObjectCall("Acquire", o, t), ThreadCall("ClearWaitObjects", t),
    ThreadCall("ResumeFromWait", t)>>

WakeupRemovesOne(o, t) ==   \* mutant
  ForEach("Acquire", IF status[t] = "WaitSynchAll" THEN wait_objects[t] ELSE <<o>>, t)
    \o <<ThreadObjectCall("RemoveWaitingThread", o, t),
         ThreadCall("ClearWaitObjects", t), ThreadCall("ResumeFromWait", t)>>

\* The thread acquires what it waited for and leaves every waiting list.
WakeupCalls(o, t) ==
  ForEach("Acquire", IF status[t] = "WaitSynchAll" THEN wait_objects[t] ELSE <<o>>, t)
    \o ForEach("RemoveWaitingThread", wait_objects[t], t)
    \o <<ThreadCall("ClearWaitObjects", t), ThreadCall("ResumeFromWait", t)>>

WakeupThread ==   \* one round of the loop of WakeupAllWaitingThreads
  LET o == Head(calls).obj
  IN  /\ calls # << >>
      /\ Head(calls).op = "WakeupAllWaitingThreads"
      /\ \E i \in 1 .. Len(waiting_threads[o]) :
           /\ IsHighestPriorityReady(o, i)
           /\ calls' = WakeupCalls(o, waiting_threads[o][i]) \o calls
      /\ UNCHANGED <<status, wakeup_callback, schedVars, prioVars, waitVars,
                     mutexVars, signalVars, eventVars, reschedule_pending>>

WakeupDone ==     \* no thread left to wake; a pulse is over
  LET o == Head(calls).obj
  IN  /\ Make("WakeupAllWaitingThreads", << >>)
      /\ \A i \in 1 .. Len(waiting_threads[o]) : ~ CanWake(o, i)
      /\ signaled' = [s \in Signal |->
                        signaled[s] /\ ~ (s = o /\ reset_type[s] = "Pulse")]
      /\ UNCHANGED <<status, wakeup_callback, schedVars, prioVars, waitVars,
                     mutexVars, available_count, interval_delay, eventVars,
                     reschedule_pending>>

ClearWaitObjects ==
  /\ Make("ClearWaitObjects", << >>)
  /\ wait_objects' = [wait_objects EXCEPT ![Head(calls).thr] = << >>]
  /\ UNCHANGED <<status, wakeup_callback, schedVars, prioVars, waiting_threads,
                 pending_mutexes, mutexVars, signalVars, eventVars,
                 reschedule_pending>>

-----------------------------------------------------------------------------
BecomeReadyQuietly(t) ==   \* mutant
  /\ status' = [status EXCEPT ![t] = "Ready"]
  /\ wakeup_callback' = [wakeup_callback EXCEPT ![t] = FALSE]
  /\ ready_queue' = PushBack(ready_queue, t, current_priority[t])
  /\ UNCHANGED reschedule_pending

BecomeReady(t) ==
  /\ status' = [status EXCEPT ![t] = "Ready"]
  /\ wakeup_callback' = [wakeup_callback EXCEPT ![t] = FALSE]
  /\ ready_queue' = PushBack(ready_queue, t, current_priority[t])
  /\ PrepareReschedule

\* Thread::ResumeFromWait: ignored for a thread that is ready already (and,
\* in a release build, for one that is running or dead).
ResumeFromWait ==
  LET t == Head(calls).thr
  IN  /\ Make("ResumeFromWait", << >>)
      /\ IF status[t] \in Waiting \cup {"Dormant"}
         THEN BecomeReady(t)
         ELSE UNCHANGED <<status, wakeup_callback, ready_queue, reschedule_pending>>
      /\ UNCHANGED <<current_thread, can_schedule, exited, prioVars, waitVars, mutexVars,
                     signalVars, eventVars>>

StopKeepsMutexes(t) ==   \* mutant
  <<ObjectCall("WakeupAllWaitingThreads", t)>>
    \o ForEach("RemoveWaitingThread", wait_objects[t], t)
    \o <<ThreadCall("ClearWaitObjects", t)>>

StopKeepsWaiting(t) ==   \* mutant
  <<ObjectCall("WakeupAllWaitingThreads", t), ThreadCall("ReleaseThreadMutexes", t)>>

\* Threads waiting for t wake up; t leaves every waiting list and its mutexes.
StopCalls(t) ==
  <<ObjectCall("WakeupAllWaitingThreads", t)>>
    \o ForEach("RemoveWaitingThread", wait_objects[t], t)
    \o <<ThreadCall("ClearWaitObjects", t), ThreadCall("ReleaseThreadMutexes", t)>>

\* Thread::Stop.  The thread's TLS slot and resource limit are not modelled.
Stop ==
  LET t == Head(calls).thr
  IN  /\ Make("Stop", StopCalls(t))
      /\ wakeup_event' = [wakeup_event EXCEPT ![t] = 0]
      /\ ready_queue' = IF status[t] = "Ready"
                        THEN RemoveFrom(ready_queue, t, current_priority[t])
                        ELSE ready_queue
      /\ status' = [status EXCEPT ![t] = "Dead"]
      /\ UNCHANGED <<wakeup_callback, current_thread, can_schedule, exited,
                     prioVars, waitVars, mutexVars, signalVars, timer_event,
                     reschedule_pending>>

\* ThreadManager::TerminateProcessThreads: the threads of the process in the
\* core's thread_list, in any order, its current thread last.
TerminateProcessThreads ==
  LET c == Head(calls).core
      InList(t) == /\ core_id[t] = c
                   /\ owner_process[t] = Head(calls).process
                   /\ status[t] \notin {"Dormant", "Dead"}
                   /\ t # current_thread[c]
      cur == current_thread[c]
  IN  /\ calls # << >>
      /\ Head(calls).op = "TerminateProcessThreads"
      /\ \/ \E t \in Thread :
              /\ InList(t)
              /\ calls' = <<ThreadCall("Stop", t)>> \o calls
              /\ UNCHANGED reschedule_pending
         \/ /\ \A t \in Thread : ~ InList(t)
            /\ IF cur # None /\ owner_process[cur] = Head(calls).process
               THEN /\ calls' = <<ThreadCall("Stop", cur)>> \o Tail(calls)
                    /\ PrepareReschedule
               ELSE calls' = Tail(calls) /\ UNCHANGED reschedule_pending
      /\ UNCHANGED <<status, wakeup_callback, schedVars, prioVars, waitVars,
                     mutexVars, signalVars, eventVars>>

RememberMutexes(t) == UNCHANGED held_mutexes   \* mutant

ForgetMutexes(t) == held_mutexes' = [held_mutexes EXCEPT ![t] = {}]

\* ReleaseThreadMutexes: the mutexes of a stopped thread are freed one after
\* the other, in the order of a set of pointers, each waking its waiters.
ReleaseThreadMutexes ==
  LET t == Head(calls).thr
  IN  /\ calls # << >>
      /\ Head(calls).op = "ReleaseThreadMutexes"
      /\ \/ \E m \in held_mutexes[t] :
              /\ holding_thread[m] = t
              /\ lock_count' = [lock_count EXCEPT ![m] = 0]
              /\ holding_thread' = [holding_thread EXCEPT ![m] = None]
              /\ calls' = <<ObjectCall("WakeupAllWaitingThreads", m)>> \o calls
              /\ UNCHANGED held_mutexes
         \/ /\ \A m \in held_mutexes[t] : holding_thread[m] # t
            /\ ForgetMutexes(t)
            /\ calls' = Tail(calls)
            /\ UNCHANGED <<lock_count, holding_thread>>
      /\ UNCHANGED <<status, wakeup_callback, schedVars, prioVars, waitVars,
                     priority, signalVars, eventVars, reschedule_pending>>

\* The loop over pending_mutexes that ends SetThreadPriority.
UpdateMutexes ==
  LET ms == Head(calls).mutexes
  IN  /\ calls # << >>
      /\ Head(calls).op = "UpdateMutexes"
      /\ \/ \E m \in ms :
              /\ MutexUpdatePriority(m, waiting_threads[m])
              /\ calls' = <<[op |-> "UpdateMutexes", mutexes |-> ms \ {m}]>> \o Tail(calls)
         \/ /\ ms = {}
            /\ calls' = Tail(calls)
            /\ UNCHANGED <<priority, current_priority, ready_queue>>
      /\ UNCHANGED <<status, wakeup_callback, current_thread, can_schedule, exited,
                     nominal_priority, waitVars, lock_count, holding_thread,
                     held_mutexes, signalVars, eventVars, reschedule_pending>>

\* The end of Timer::Signal: a periodic timer is scheduled again.
RescheduleTimer ==
  LET s == Head(calls).obj
  IN  /\ Make("RescheduleTimer", << >>)
      /\ timer_event' = [timer_event EXCEPT
                           ![s] = IF interval_delay[s] # 0 THEN @ + 1 ELSE @]
      /\ UNCHANGED <<status, wakeup_callback, schedVars, prioVars, waitVars,
                     mutexVars, signalVars, wakeup_event, reschedule_pending>>

CallStep ==
  \/ Acquire \/ AddWaitingThread \/ RemoveWaitingThread
  \/ WakeupThread \/ WakeupDone \/ ClearWaitObjects \/ ResumeFromWait
  \/ Stop \/ TerminateProcessThreads
  \/ ReleaseThreadMutexes \/ UpdateMutexes \/ RescheduleTimer
=============================================================================
