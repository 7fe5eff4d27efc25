-------------------------------- MODULE Kernel --------------------------------
(***************************************************************************)
(* Supervisor calls, the scheduler and the timing callbacks of the emulated *)
(* kernel over threads and wait objects (core/hle/kernel/svc.cpp,           *)
(* thread.cpp, timer.cpp, process.cpp, hle_ipc.cpp).                        *)
(*                                                                         *)
(* Every handler starts when no other is running (calls = << >>, the HLE    *)
(* lock) and its calls run to their end before the next one starts.  Calls  *)
(* that return an error, or a zero timeout on an unavailable object, change *)
(* nothing and are left to stuttering.                                      *)
(***************************************************************************)
EXTENDS KernelCalls

CONSTANTS
  WaitTargets,    \* objects that a thread passes to WaitSynchronization1
  WaitLists,      \* handle lists that WaitSynchronizationN is given
  ReleaseCounts,  \* counts that ReleaseSemaphore is given
  CreatePrios,    \* priorities of new threads, per thread
  SetPrios,       \* priorities that SetThreadPriority is given
  Suspendable,    \* threads ControlProcess may bar from scheduling
  MaxLock         \* bound: deepest recursive lock a thread asks for

ASSUME InputAssumption ==
  /\ WaitTargets \in [Thread -> SUBSET Object]
  /\ WaitLists \subseteq Seq(Object)
  /\ ReleaseCounts \subseteq Int
  /\ CreatePrios \in [Thread -> SUBSET Prio]
  /\ SetPrios \subseteq Prio
  /\ Suspendable \subseteq Thread

Init ==
  /\ status = [t \in Thread |-> "Dormant"]
  /\ current_priority = [t \in Thread |-> ThreadPrioLowest]
  /\ nominal_priority = [t \in Thread |-> ThreadPrioLowest]
  /\ can_schedule = [t \in Thread |-> TRUE]
  /\ wait_objects = [t \in Thread |-> << >>]
  /\ held_mutexes = [t \in Thread |-> {}]
  /\ pending_mutexes = [t \in Thread |-> {}]
  /\ wakeup_callback = [t \in Thread |-> FALSE]
  /\ waiting_threads = [o \in Object |-> << >>]
  /\ lock_count = [m \in Mutex |-> 0]
  /\ holding_thread = [m \in Mutex |-> None]
  /\ priority = [m \in Mutex |-> ThreadPrioLowest]
  /\ available_count = [s \in Semaphore |-> 0]
  /\ signaled = [s \in Signal |-> FALSE]
  /\ interval_delay = [s \in Timer |-> 0]
  /\ current_thread = [c \in Core |-> None]
  /\ ready_queue = [l \in Core \X Prio |-> << >>]
  /\ exited = {}
  /\ wakeup_event = [t \in Thread |-> 0]
  /\ timer_event = [s \in Timer |-> 0]
  /\ reschedule_pending = {}
  /\ calls = << >>

-----------------------------------------------------------------------------
(***************************************************************************)
(* Creating threads.                                                       *)
(***************************************************************************)
CreateThreadWith(t, p) ==
  /\ status[t] = "Dormant"
  /\ nominal_priority' = [nominal_priority EXCEPT ![t] = p]
  /\ current_priority' = [current_priority EXCEPT ![t] = p]
  /\ PrepareReschedule
  /\ UNCHANGED <<current_thread, can_schedule, exited, wakeup_callback, waitVars,
                 mutexVars, signalVars, timer_event, calls>>

MakeReady(t, p) ==
  /\ status' = [status EXCEPT ![t] = "Ready"]
  /\ ready_queue' = PushBack(ready_queue, t, p)
  /\ UNCHANGED wakeup_event

\* The first thread of a process.  A process is loaded at boot, when every core
\* idles and reschedules, or by a service request, which ends in a reschedule.
SetupMainThread(t, p, delayed) ==
  /\ calls = << >>
  /\ owner_process[t] \notin exited
  /\ \A u \in Thread : owner_process[u] = owner_process[t] => status[u] = "Dormant"
  /\ CreateThreadWith(t, p)
  /\ IF delayed
     THEN /\ status' = [status EXCEPT ![t] = "WaitSleep"]
          /\ wakeup_event' = [wakeup_event EXCEPT ![t] = @ + 1]
          /\ UNCHANGED ready_queue
     ELSE MakeReady(t, p)

\* The thread that executes a supervisor call on core c.
Caller(c, t) ==
  /\ calls = << >>
  /\ current_thread[c] = t
  /\ t # None
  /\ status[t] = "Running"

CreateThread(c, t, u, p) ==
  /\ Caller(c, t)
  /\ owner_process[u] = owner_process[t]
  /\ CreateThreadWith(u, p)
  /\ MakeReady(u, p)

-----------------------------------------------------------------------------
(***************************************************************************)
(* Waiting.                                                                *)
(***************************************************************************)
StartWait(t, objs, st, timed) ==
  /\ status' = [status EXCEPT ![t] = st]
  /\ wait_objects' = [wait_objects EXCEPT ![t] = objs]
  /\ wakeup_callback' = [wakeup_callback EXCEPT ![t] = TRUE]
  /\ wakeup_event' = [wakeup_event EXCEPT ![t] = IF timed THEN @ + 1 ELSE @]
  /\ calls' = ForEach("AddWaitingThread", objs, t)
  /\ PrepareReschedule
  /\ UNCHANGED <<schedVars, prioVars, waiting_threads, pending_mutexes, mutexVars,
                 signalVars, timer_event>>

AcquireNow(t, objs) ==
  /\ calls' = ForEach("Acquire", objs, t)
  /\ UNCHANGED <<status, wakeup_callback, schedVars, prioVars, waitVars, mutexVars,
                 signalVars, eventVars, reschedule_pending>>

LockBound(t, objs) ==
  \A i \in 1 .. Len(objs) :
     objs[i] \in Mutex /\ holding_thread[objs[i]] = t => lock_count[objs[i]] < MaxLock

WaitSynchronization1(c, t, o, timed) ==
  /\ Caller(c, t)
  /\ LockBound(t, <<o>>)
  /\ \/ ShouldWait(o, t) /\ StartWait(t, <<o>>, "WaitSynchAny", timed)
     \/ ~ ShouldWait(o, t) /\ AcquireNow(t, <<o>>)

WaitSynchronizationAll(c, t, objs, timed) ==
  LET available == \A i \in 1 .. Len(objs) : ~ ShouldWait(objs[i], t)
  IN  /\ Caller(c, t)
      /\ LockBound(t, objs)
      /\ \/ available /\ AcquireNow(t, objs)
         \/ ~ available /\ StartWait(t, objs, "WaitSynchAll", timed)

WaitSynchronizationAny(c, t, objs, timed) ==
  /\ Caller(c, t)
  /\ LockBound(t, objs)
  /\ \/ \E i \in 1 .. Len(objs) :   \* the first available object
          /\ ~ ShouldWait(objs[i], t)
          /\ \A j \in 1 .. i - 1 : ShouldWait(objs[j], t)
          /\ AcquireNow(t, <<objs[i]>>)
     \/ /\ \A i \in 1 .. Len(objs) : ShouldWait(objs[i], t)
        /\ StartWait(t, objs, "WaitSynchAny", timed)

\* A service puts its client to sleep on a new one-shot event.
SleepClientThread(c, t, e, timed) ==
  /\ Caller(c, t)
  /\ reset_type[e] = "OneShot" /\ ~ signaled[e] /\ waiting_threads[e] = << >>
  /\ StartWait(t, <<e>>, "WaitHleEvent", timed)

\* SleepThread; a sleep of -1 nanoseconds schedules no wake-up.
SleepThread(c, t, forever) ==
  /\ Caller(c, t)
  /\ status' = [status EXCEPT ![t] = "WaitSleep"]
  /\ wakeup_event' = [wakeup_event EXCEPT ![t] = IF forever THEN @ ELSE @ + 1]
  /\ PrepareReschedule
  /\ UNCHANGED <<wakeup_callback, schedVars, prioVars, waitVars, mutexVars,
                 signalVars, timer_event, calls>>

-----------------------------------------------------------------------------
(***************************************************************************)
(* Signalling.                                                             *)
(***************************************************************************)
AnyoneMayRelease(m, t) == lock_count[m] > 0   \* mutant

MayRelease(m, t) == holding_thread[m] = t /\ lock_count[m] > 0

LastReleaseKeepsBoost(m, t) ==   \* mutant
  /\ held_mutexes' = [held_mutexes EXCEPT ![t] = @ \ {m}]
  /\ holding_thread' = [holding_thread EXCEPT ![m] = None]
  /\ calls' = <<ObjectCall("WakeupAllWaitingThreads", m)>>
  /\ PrepareReschedule
  /\ UNCHANGED <<current_priority, ready_queue>>

LastReleaseWakesNobody(m, t) ==   \* mutant
  /\ held_mutexes' = [held_mutexes EXCEPT ![t] = @ \ {m}]
  /\ ThreadUpdatePriority(t, held_mutexes'[t], priority)
  /\ holding_thread' = [holding_thread EXCEPT ![m] = None]
  /\ PrepareReschedule
  /\ UNCHANGED calls

\* The outermost lock is gone: the thread loses the mutex and its boost.
LastRelease(m, t) ==
  /\ held_mutexes' = [held_mutexes EXCEPT ![t] = @ \ {m}]
  /\ ThreadUpdatePriority(t, held_mutexes'[t], priority)
  /\ holding_thread' = [holding_thread EXCEPT ![m] = None]
  /\ calls' = <<ObjectCall("WakeupAllWaitingThreads", m)>>
  /\ PrepareReschedule

ReleaseMutex(c, t, m) ==
  /\ Caller(c, t)
  /\ MayRelease(m, t)
  /\ lock_count' = [lock_count EXCEPT ![m] = @ - 1]
  /\ IF lock_count[m] = 1
     THEN LastRelease(m, t)
     ELSE UNCHANGED <<held_mutexes, current_priority, ready_queue, holding_thread,
                      calls, reschedule_pending>>
  /\ UNCHANGED <<status, wakeup_callback, current_thread, can_schedule, exited,
                 nominal_priority, waitVars, priority, signalVars, eventVars>>

\* The value of an s32 addition, which the build does not trap.
Wrap(n) == ((n + IntHalf) % (2 * IntHalf)) - IntHalf

ReleaseSemaphore(c, t, s, n) ==
  /\ Caller(c, t)
  /\ max_count[s] >= Wrap(n + available_count[s])
  /\ available_count' = [available_count EXCEPT ![s] = Wrap(@ + n)]
  /\ calls' = <<ObjectCall("WakeupAllWaitingThreads", s)>>
  /\ UNCHANGED <<status, wakeup_callback, schedVars, prioVars, waitVars, mutexVars,
                 signaled, interval_delay, eventVars, reschedule_pending>>

SetSignaled(s, value, next) ==
  /\ signaled' = [signaled EXCEPT ![s] = value]
  /\ calls' = next
  /\ UNCHANGED <<status, wakeup_callback, schedVars, prioVars, waitVars, mutexVars,
                 available_count, wakeup_event, reschedule_pending>>

SignalWakesNobody(e) ==   \* mutant
  /\ calls = << >>
  /\ SetSignaled(e, TRUE, << >>)
  /\ UNCHANGED <<interval_delay, timer_event>>

\* Event::Signal, from SignalEvent or from a service or device.
SignalEvent(e) ==
  /\ calls = << >>
  /\ SetSignaled(e, TRUE, <<ObjectCall("WakeupAllWaitingThreads", e)>>)
  /\ UNCHANGED <<interval_delay, timer_event>>

ClearSignal(c, t, s) ==   \* ClearEvent and ClearTimer
  /\ Caller(c, t)
  /\ SetSignaled(s, FALSE, << >>)
  /\ UNCHANGED <<interval_delay, timer_event>>

TimerSignal(s) ==
  SetSignaled(s, TRUE, <<ObjectCall("WakeupAllWaitingThreads", s),
                         ObjectCall("RescheduleTimer", s)>>)

SetTimer(c, t, s, initial, interval) ==
  /\ Caller(c, t)
  /\ interval_delay' = [interval_delay EXCEPT ![s] = interval]
  /\ timer_event' = [timer_event EXCEPT ![s] = IF initial = 0 THEN 0 ELSE 1]
  /\ IF initial = 0 THEN TimerSignal(s) ELSE SetSignaled(s, signaled[s], << >>)

CancelTimer(c, t, s) ==
  /\ Caller(c, t)
  /\ timer_event' = [timer_event EXCEPT ![s] = 0]
  /\ UNCHANGED <<status, wakeup_callback, schedVars, prioVars, waitVars, mutexVars,
                 signalVars, wakeup_event, reschedule_pending, calls>>

-----------------------------------------------------------------------------
(***************************************************************************)
(* Priorities, suspension and termination.                                 *)
(***************************************************************************)
SetThreadPriority(c, t, u, p) ==
  LET best == InheritedPriority(p, held_mutexes[u], priority)
  IN  /\ Caller(c, t)
      /\ status[u] # "Dormant"
      /\ nominal_priority' = [nominal_priority EXCEPT ![u] = p]
      /\ BoostPriority(u, best)
      /\ calls' = <<[op |-> "UpdateMutexes", mutexes |-> pending_mutexes[u]]>>
      /\ PrepareReschedule
      /\ UNCHANGED <<status, wakeup_callback, current_thread, can_schedule, exited,
                     waitVars, mutexVars, signalVars, eventVars>>

\* ControlProcess, PROCESSOP_SCHEDULE_THREADS_WITHOUT_TLS_MAGIC: every thread of
\* the process but the caller and those marked in their TLS.
ControlProcess(c, t, p, allow) ==
  /\ Caller(c, t)
  /\ can_schedule' = [u \in Thread |->
       IF /\ u \in Suspendable \ {t}
          /\ owner_process[u] = p
          /\ status[u] \notin {"Dormant", "Dead"}
       THEN allow ELSE can_schedule[u]]
  /\ UNCHANGED <<status, wakeup_callback, current_thread, ready_queue, exited,
                 prioVars, waitVars, mutexVars, signalVars, eventVars,
                 reschedule_pending, calls>>

ExitThread(c, t) ==
  /\ Caller(c, t)
  /\ calls' = <<ThreadCall("Stop", t)>>
  /\ PrepareReschedule
  /\ UNCHANGED <<status, wakeup_callback, schedVars, prioVars, waitVars, mutexVars,
                 signalVars, eventVars>>

\* TerminateProcess and, for the caller's own process, ExitProcess.
TerminateProcess(c, t, p) ==
  /\ Caller(c, t)
  /\ p \notin exited
  /\ exited' = exited \cup {p}
  /\ calls' = [i \in 1 .. NumCores |->
                 [op |-> "TerminateProcessThreads", core |-> i - 1, process |-> p]]
  /\ UNCHANGED <<status, wakeup_callback, current_thread, ready_queue, can_schedule,
                 prioVars, waitVars, mutexVars, signalVars, eventVars,
                 reschedule_pending>>

-----------------------------------------------------------------------------
(***************************************************************************)
(* Timing callbacks and the scheduler.                                     *)
(***************************************************************************)
TimeoutKeepsWaitObjects(t) ==   \* mutant
  (IF status[t] \in WaitSynch THEN ForEach("RemoveWaitingThread", wait_objects[t], t)
   ELSE << >>) \o <<ThreadCall("ResumeFromWait", t)>>

TimeoutKeepsWaiting(t) ==   \* mutant
  IF status[t] \in WaitSynch
  THEN ForEach("RemoveWaitingThread", wait_objects[t], t)
         \o <<ThreadCall("ClearWaitObjects", t)>>
  ELSE << >>

TimeoutCalls(t) ==
  (IF status[t] \in WaitSynch
   THEN ForEach("RemoveWaitingThread", wait_objects[t], t)
          \o <<ThreadCall("ClearWaitObjects", t)>>
   ELSE << >>) \o <<ThreadCall("ResumeFromWait", t)>>

ThreadWakeupCallback(t) ==
  /\ calls = << >>
  /\ wakeup_event[t] > 0
  /\ wakeup_event' = [wakeup_event EXCEPT ![t] = @ - 1]
  /\ calls' = TimeoutCalls(t)
  /\ UNCHANGED <<status, wakeup_callback, schedVars, prioVars, waitVars, mutexVars,
                 signalVars, timer_event, reschedule_pending>>

TimerCallback(s) ==
  /\ calls = << >>
  /\ timer_event[s] > 0
  /\ timer_event' = [timer_event EXCEPT ![s] = @ - 1]
  /\ TimerSignal(s)
  /\ UNCHANGED interval_delay

\* The current thread of core c keeps the core unless a better one is ready.
KeepsRunning(c) ==
  current_thread[c] # None /\ status[current_thread[c]] = "Running"

\* The ready thread at position i of level p is the one PopNextReadyThread
\* takes: the first that may be scheduled, at the best level.
IsNextReady(c, p, i) ==
  /\ can_schedule[ready_queue[<<c, p>>][i]]
  /\ KeepsRunning(c) => p < current_priority[current_thread[c]]
  /\ \A j \in 1 .. i - 1 : ~ can_schedule[ready_queue[<<c, p>>][j]]
  /\ \A q \in 0 .. p - 1 : \A j \in 1 .. Len(ready_queue[<<c, q>>]) :
       ~ can_schedule[ready_queue[<<c, q>>][j]]

NoneReady(c) ==
  \A p \in Prio : \A i \in 1 .. Len(ready_queue[<<c, p>>]) : ~ IsNextReady(c, p, i)

KeepWakeup(t) == UNCHANGED wakeup_event   \* mutant

\* UnscheduleEvent: a thread that runs has no wake-up left.
CancelWakeup(t) == wakeup_event' = [wakeup_event EXCEPT ![t] = 0]

LeavesRunning(c, t) == [status EXCEPT ![t] = "Running"]   \* mutant

SwitchedStatus(c, t) ==
  [u \in Thread |-> CASE u = t -> "Running"
                     [] u # t /\ KeepsRunning(c) /\ u = current_thread[c] -> "Ready"
                     [] OTHER -> status[u]]

\* Popped at level p, then removed again by SwitchContext; a thread that was
\* running goes to the front of its queue.
SwitchContext(c, t, p) ==
  LET cur == current_thread[c]
      popped == RemoveFrom(ready_queue, t, p)
      saved == IF KeepsRunning(c) THEN PushFront(popped, cur, current_priority[cur])
               ELSE popped
  IN  /\ ready_queue' = RemoveFrom(saved, t, current_priority[t])
      /\ status' = SwitchedStatus(c, t)
      /\ CancelWakeup(t)
      /\ current_thread' = [current_thread EXCEPT ![c] = t]

Reschedule(c) ==
  /\ calls = << >>
  /\ c \in reschedule_pending
  /\ reschedule_pending' = reschedule_pending \ {c}
  /\ \/ \E p \in Prio : \E i \in 1 .. Len(ready_queue[<<c, p>>]) :
          /\ IsNextReady(c, p, i)
          /\ SwitchContext(c, ready_queue[<<c, p>>][i], p)
     \/ /\ NoneReady(c) /\ KeepsRunning(c)
        /\ CancelWakeup(current_thread[c])
        /\ UNCHANGED <<status, current_thread, ready_queue>>
     \/ /\ NoneReady(c) /\ ~ KeepsRunning(c)
        /\ current_thread' = [current_thread EXCEPT ![c] = None]
        /\ UNCHANGED <<status, ready_queue, wakeup_event>>
  /\ UNCHANGED <<wakeup_callback, can_schedule, exited, prioVars, waitVars, mutexVars,
                 signalVars, timer_event, calls>>

-----------------------------------------------------------------------------
SvcStep(c, t) ==
  \/ \E u \in Thread : \E p \in CreatePrios[u] : CreateThread(c, t, u, p)
  \/ \E o \in WaitTargets[t], timed \in BOOLEAN : WaitSynchronization1(c, t, o, timed)
  \/ \E objs \in WaitLists, timed \in BOOLEAN :
       \/ WaitSynchronizationAll(c, t, objs, timed)
       \/ WaitSynchronizationAny(c, t, objs, timed)
  \/ \E e \in Event, timed \in BOOLEAN : SleepClientThread(c, t, e, timed)
  \/ \E forever \in BOOLEAN : SleepThread(c, t, forever)
  \/ \E m \in Mutex : ReleaseMutex(c, t, m)
  \/ \E s \in Semaphore, n \in ReleaseCounts : ReleaseSemaphore(c, t, s, n)
  \/ \E s \in Signal : ClearSignal(c, t, s)
  \/ \E s \in Timer, initial, interval \in {0, 1} : SetTimer(c, t, s, initial, interval)
  \/ \E s \in Timer : CancelTimer(c, t, s)
  \/ \E u \in Thread, p \in SetPrios : SetThreadPriority(c, t, u, p)
  \/ \E p \in Process, allow \in BOOLEAN :
       Suspendable # {} /\ ControlProcess(c, t, p, allow)
  \/ ExitThread(c, t)
  \/ \E p \in Process : TerminateProcess(c, t, p)

Next ==
  \/ CallStep
  \/ \E t \in Thread : \E p \in CreatePrios[t], delayed \in BOOLEAN :
       SetupMainThread(t, p, delayed)
  \/ \E c \in Core, t \in Thread : SvcStep(c, t)
  \/ \E e \in Event : SignalEvent(e)
  \/ \E t \in Thread : ThreadWakeupCallback(t)
  \/ \E s \in Timer : TimerCallback(s)
  \/ \E c \in Core : Reschedule(c)

Spec == Init /\ [][Next]_vars
=============================================================================
