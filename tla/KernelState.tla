----------------------------- MODULE KernelState -----------------------------
(***************************************************************************)
(* The state of the emulated kernel's threads and waitable objects          *)
(* (core/hle/kernel: thread, wait_object, mutex, semaphore, event, timer).  *)
(* Names are those of the code: a field of a class is a function here, from *)
(* the objects of the class to the field's values.  Time is abstracted: an  *)
(* event scheduled with Core::Timing may fire at any later point, so only   *)
(* how many are scheduled for a thread or a timer is kept.                  *)
(***************************************************************************)
EXTENDS Integers, Sequences

CONSTANTS
  Thread, Mutex, Semaphore, Event, Timer,  \* the objects that may exist
  None,              \* a null pointer
  NumCores,          \* processor cores, one ThreadManager each
  Process,
  owner_process,     \* the process a thread belongs to
  core_id,           \* the core a thread is created on
  ThreadPrioLowest,  \* priorities are 0 .. ThreadPrioLowest, 0 the best
  reset_type,        \* of each event and timer
  max_count,         \* of each semaphore
  IntHalf            \* 2^31 for the code's s32 counters

Core   == 0 .. NumCores - 1
Signal == Event \cup Timer
Object == Thread \cup Mutex \cup Semaphore \cup Signal
Prio   == 0 .. ThreadPrioLowest

ASSUME ObjectAssumption ==
  /\ None \notin Thread
  /\ Thread \cap (Mutex \cup Semaphore \cup Signal) = {}
  /\ Mutex \cap (Semaphore \cup Signal) = {}
  /\ Semaphore \cap Signal = {}
  /\ Event \cap Timer = {}
ASSUME ParameterAssumption ==
  /\ NumCores \in Nat \ {0}
  /\ core_id \in [Thread -> Core]
  /\ owner_process \in [Thread -> Process]
  /\ ThreadPrioLowest \in Nat
  /\ reset_type \in [Signal -> {"OneShot", "Sticky", "Pulse"}]
  /\ IntHalf \in Nat \ {0}
  /\ max_count \in [Semaphore -> (- IntHalf) .. (IntHalf - 1)]

VARIABLES
  \* Thread
  status, current_priority, nominal_priority, can_schedule,
  wait_objects, held_mutexes, pending_mutexes, wakeup_callback,
  \* WaitObject
  waiting_threads,
  \* Mutex, Semaphore, Event and Timer
  lock_count, holding_thread, priority, available_count, signaled,
  interval_delay,
  \* ThreadManager
  current_thread, ready_queue,
  \* KernelSystem: the processes that have exited
  exited,
  \* Core::Timing: scheduled ThreadWakeupCallback and TimerCallback events
  wakeup_event, timer_event,
  \* cores whose Reschedule was asked for by PrepareReschedule
  reschedule_pending,
  \* calls the running kernel handler has still to make, innermost first
  calls

schedVars  == <<current_thread, ready_queue, can_schedule, exited>>
prioVars   == <<current_priority, nominal_priority>>
waitVars   == <<wait_objects, waiting_threads, pending_mutexes>>
mutexVars  == <<lock_count, holding_thread, held_mutexes, priority>>
signalVars == <<available_count, signaled, interval_delay>>
eventVars  == <<wakeup_event, timer_event>>
vars == <<status, wakeup_callback, schedVars, prioVars, waitVars, mutexVars,
          signalVars, eventVars, reschedule_pending, calls>>

-----------------------------------------------------------------------------
(***************************************************************************)
(* Vectors and the ready queue: one queue per core and priority.            *)
(***************************************************************************)
In(x, s) == \E i \in 1 .. Len(s) : s[i] = x

IndexOf(x, s) ==
  CHOOSE i \in 1 .. Len(s) : s[i] = x /\ \A j \in 1 .. i - 1 : s[j] # x

\* Erase the first x from s, closing the gap.
Erase(x, s) ==
  IF In(x, s)
  THEN [i \in 1 .. Len(s) - 1 |-> IF i < IndexOf(x, s) THEN s[i] ELSE s[i + 1]]
  ELSE s

NoDuplicates(s) == \A i, j \in 1 .. Len(s) : s[i] = s[j] => i = j

Level(t, p) == <<core_id[t], p>>

PushBack(q, t, p)  == [q EXCEPT ![Level(t, p)] = Append(@, t)]
PushFront(q, t, p) == [q EXCEPT ![Level(t, p)] = <<t>> \o @]
RemoveFrom(q, t, p) == [q EXCEPT ![Level(t, p)] = Erase(t, @)]
Move(q, t, old, new) == PushBack(RemoveFrom(q, t, old), t, new)

\* The numerically least, hence best, of a set of priorities.
Best(S) == CHOOSE p \in S : \A q \in S : p <= q

-----------------------------------------------------------------------------
WaitSynch == {"WaitSynchAny", "WaitSynchAll", "WaitHleEvent"}
Waiting   == WaitSynch \cup {"WaitSleep"}
Status    == Waiting \cup {"Running", "Ready", "Dormant", "Dead"}

\* The pending calls of a handler.
ThreadObjectCall(op, o, t) == [op |-> op, obj |-> o, thr |-> t]
ObjectCall(op, o) == [op |-> op, obj |-> o]
ThreadCall(op, t) == [op |-> op, thr |-> t]

Call ==
  [op : {"Acquire", "AddWaitingThread", "RemoveWaitingThread"},
   obj : Object, thr : Thread]
    \cup [op : {"WakeupAllWaitingThreads", "RescheduleTimer"}, obj : Object]
    \cup [op : {"ClearWaitObjects", "ResumeFromWait", "ReleaseThreadMutexes", "Stop"},
          thr : Thread]
    \cup [op : {"TerminateProcessThreads"}, core : Core, process : Process]
    \cup [op : {"UpdateMutexes"}, mutexes : SUBSET Mutex]

\* The call op(o, t) for every object o of a vector, in its order.
ForEach(op, objs, t) == [i \in 1 .. Len(objs) |-> ThreadObjectCall(op, objs[i], t)]

\* The fields of the kernel objects have their types: priorities, inherited ones
\* too, stay in range, and a handler has only calls of the modelled methods left.
TypeOK ==
  /\ status \in [Thread -> Status]
  /\ current_priority \in [Thread -> Prio]
  /\ nominal_priority \in [Thread -> Prio]
  /\ can_schedule \in [Thread -> BOOLEAN]
  /\ wait_objects \in [Thread -> Seq(Object)]
  /\ held_mutexes \in [Thread -> SUBSET Mutex]
  /\ pending_mutexes \in [Thread -> SUBSET Mutex]
  /\ wakeup_callback \in [Thread -> BOOLEAN]
  /\ waiting_threads \in [Object -> Seq(Thread)]
  /\ lock_count \in [Mutex -> Nat]
  /\ holding_thread \in [Mutex -> Thread \cup {None}]
  /\ priority \in [Mutex -> Prio]
  /\ available_count \in [Semaphore -> Int]
  /\ signaled \in [Signal -> BOOLEAN]
  /\ interval_delay \in [Timer -> Nat]
  /\ current_thread \in [Core -> Thread \cup {None}]
  /\ ready_queue \in [Core \X Prio -> Seq(Thread)]
  /\ exited \subseteq Process
  /\ wakeup_event \in [Thread -> Nat]
  /\ timer_event \in [Timer -> Nat]
  /\ reschedule_pending \subseteq Core
  /\ calls \in Seq(Call)
=============================================================================
