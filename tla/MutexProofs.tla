----------------------------- MODULE MutexProofs -----------------------------
(***************************************************************************)
(* Mutexes, then wake-ups and preemption.                                   *)
(*                                                                         *)
(* For any number of threads, mutexes, priorities and recursive locks: the  *)
(* ownership of mutexes is consistent in every reachable state, a mutex is  *)
(* taken from its holder only by the holder's own release or by its death,  *)
(* none stays with a stopped thread, and the priority of a live thread is   *)
(* the one its mutexes give it.                                             *)
(*                                                                         *)
(* OwnershipConsistent is not inductive: while a thread is being stopped,   *)
(* mutexes already freed (and perhaps given to another thread) are still in *)
(* its held_mutexes.  MutexInv allows that exactly as long as the stopped   *)
(* thread's ReleaseThreadMutexes is still to be completed.                  *)
(*                                                                         *)
(* That a stopped thread frees its mutexes is not enough for NoDeadHolder:  *)
(* a wake-up in progress could still hand it one.  DeadInv adds that no     *)
(* pending Acquire of a mutex is for a dead thread, which rests on the      *)
(* order of the pending calls (ThreadProofs): nothing follows Stop but more *)
(* terminations, and a mutex that wakes its waiters finds none that is      *)
(* being stopped.                                                          *)
(***************************************************************************)
EXTENDS ThreadProofs

Release(t) == ThreadCall("ReleaseThreadMutexes", t)

LockedIffHeld == \A m \in Mutex : lock_count[m] > 0 <=> holding_thread[m] # None
HolderListsMutex ==
  \A m \in Mutex, t \in Thread : holding_thread[m] = t => m \in held_mutexes[t]
StaleOnlyInRelease ==
  \A m \in Mutex, t \in Thread :
    m \in held_mutexes[t] /\ holding_thread[m] # t => In(Release(t), calls)
ReleaseOnlyOfDead == \A t \in Thread : In(Release(t), calls) => status[t] = "Dead"

MutexInv == LockedIffHeld /\ HolderListsMutex /\ StaleOnlyInRelease /\ ReleaseOnlyOfDead

-----------------------------------------------------------------------------
\* Different methods and different threads are different calls.
LEMMA ReleaseCall ==
  ASSUME NEW t \in Thread
  PROVE  /\ Release(t).op = "ReleaseThreadMutexes" /\ Release(t).thr = t
         /\ Release(t) \in Call
PROOF
  BY CallMakers DEF Release, ThreadCall

\* While no handler runs there is no pending release.
LEMMA QuietNoRelease ==
  ASSUME calls = << >>, NEW k
  PROVE  ~ In(k, calls)
PROOF
  BY DEF In

\* A handler that has only just started, with no release among its calls and no
\* mutex changed, keeps the invariant.
LEMMA HandlerStart ==
  ASSUME MutexInv, calls = << >>, UNCHANGED <<lock_count, holding_thread, held_mutexes>>,
         \A t \in Thread : ~ In(Release(t), calls')
  PROVE  MutexInv'
PROOF
<1>1. \A m \in Mutex, t \in Thread : ~ (m \in held_mutexes[t] /\ holding_thread[m] # t)
  BY QuietNoRelease DEF MutexInv, StaleOnlyInRelease
<1> QED
  BY <1>1
  DEF MutexInv, LockedIffHeld, HolderListsMutex, StaleOnlyInRelease, ReleaseOnlyOfDead

\* A step of a running handler that changes no mutex, completes no release and
\* revives no dead thread keeps the invariant.
LEMMA HandlerStep ==
  ASSUME TypeOK, MutexInv, CallStep, Head(calls).op # "ReleaseThreadMutexes",
         UNCHANGED <<lock_count, holding_thread, held_mutexes>>,
         \A t \in Thread : In(Release(t), calls') =>
           In(Release(t), calls) \/ status'[t] = "Dead",
         \A t \in Thread : status[t] = "Dead" => status'[t] = "Dead"
  PROVE  MutexInv'
PROOF
<1>1. \A t \in Thread : In(Release(t), calls) => In(Release(t), calls')
  BY PendingKept, ReleaseCall
<1> QED
  BY <1>1
  DEF MutexInv, LockedIffHeld, HolderListsMutex, StaleOnlyInRelease, ReleaseOnlyOfDead

\* Of the calls a step adds, only Stop's include a release.
LEMMA NewReleases ==
  ASSUME TypeOK, CallStep, NEW u \in Thread, In(Release(u), calls'), ~ In(Release(u), calls)
  PROVE  Stop /\ u = Head(calls).thr
PROOF
<1>1. calls # << >> /\ calls \in Seq(Call) /\ calls' \in Seq(Call)
  BY CallBody, CallsType DEF TypeOK
<1>2. Tail(calls) \in Seq(Call) /\ ~ In(Release(u), Tail(calls))
  BY <1>1, TailMembers
<1>3. ASSUME NEW k \in Call, k # Release(u)
      PROVE  /\ ~ In(Release(u), <<k>> \o calls)
             /\ ~ In(Release(u), <<k>> \o Tail(calls))
  <2>1. \A s \in Seq(Call) : In(Release(u), <<k>> \o s) <=> In(Release(u),
      s) \/ Release(u) = k
    BY PrependMembers
  <2> QED
    BY <1>1, <1>2, <1>3, <2>1
<1>4. << >> \o Tail(calls) = Tail(calls)
  BY <1>2
<1>5. CASE Acquire \/ AddWaitingThread \/ RemoveWaitingThread \/ WakeupDone
             \/ ClearWaitObjects \/ ResumeFromWait \/ RescheduleTimer
  <2>1. calls' = << >> \o Tail(calls)
    BY <1>5 DEF Acquire, AddWaitingThread, RemoveWaitingThread, WakeupDone,
                ClearWaitObjects, ResumeFromWait, BecomeReady, RescheduleTimer, Make
  <2> QED
    BY <1>2, <1>4, <2>1
<1>6. ASSUME NEW a \in Seq(Call), NEW b \in Seq(Call), ~ In(Release(u), a),
             ~ In(Release(u), b)
      PROVE  a \o b \in Seq(Call) /\ ~ In(Release(u), a \o b)
  BY <1>6, InConcat
<1>7. ASSUME NEW op \in {"Acquire", "AddWaitingThread", "RemoveWaitingThread"},
             NEW objs \in Seq(Object), NEW t \in Thread
      PROVE  ForEach(op, objs, t) \in Seq(Call) /\ ~ In(Release(u), ForEach(op, objs, t))
  BY ForEachType, ReleaseCall DEF ThreadObjectCall
<1>8. CASE WakeupThread
  <2> DEFINE o == Head(calls).obj
  <2>1. Head(calls) \in Call /\ o \in Object
    BY <1>1, <1>8, NextCall, CallFields DEF WakeupThread, WakeupCalls
  <2>2. PICK i \in 1 .. Len(waiting_threads[o]) :
          calls' = ForEach("Acquire",
                           IF status[waiting_threads[o][i]] = "WaitSynchAll"
                           THEN wait_objects[waiting_threads[o][i]]
                           ELSE <<o>>, waiting_threads[o][i])
                   \o ForEach("RemoveWaitingThread", wait_objects[waiting_threads[o][i]],
                              waiting_threads[o][i])
                   \o <<ThreadCall("ClearWaitObjects", waiting_threads[o][i]),
                        ThreadCall("ResumeFromWait", waiting_threads[o][i])>>
                   \o calls
    BY <1>8 DEF WakeupThread, WakeupCalls
  <2> DEFINE t == waiting_threads[o][i]
             got == IF status[t] = "WaitSynchAll" THEN wait_objects[t] ELSE <<o>>
             a == ForEach("Acquire", got, t)
             b == ForEach("RemoveWaitingThread", wait_objects[t], t)
             d == <<ThreadCall("ClearWaitObjects", t), ThreadCall("ResumeFromWait", t)>>
  <2>3. t \in Thread
    <3>1. waiting_threads[o] \in Seq(Thread)
      BY <2>1 DEF TypeOK
    <3>2. i \in 1 .. Len(waiting_threads[o])
      OBVIOUS
    <3> HIDE DEF o
    <3> QED
      BY <3>1, <3>2
  <2>4. wait_objects[t] \in Seq(Object) /\ got \in Seq(Object)
    BY <2>1, <2>3 DEF TypeOK
  <2>5. /\ a \in Seq(Call) /\ ~ In(Release(u), a)
        /\ b \in Seq(Call) /\ ~ In(Release(u), b)
    BY <1>7, <2>3, <2>4
  <2>6. d \in Seq(Call) /\ ~ In(Release(u), d)
    <3>1. ThreadCall("ClearWaitObjects", t) \in Call /\ ThreadCall("ResumeFromWait",
        t) \in Call
      BY <2>3, CallMakers
    <3>2. /\ ThreadCall("ClearWaitObjects", t) # Release(u)
          /\ ThreadCall("ResumeFromWait", t) # Release(u)
      BY ReleaseCall DEF ThreadCall
    <3> HIDE DEF t
    <3> QED
      BY <3>1, <3>2 DEF In
  <2>7. calls' = a \o b \o d \o calls
    BY <2>2
  <2> HIDE DEF a, b, d
  <2>8. a \o b \in Seq(Call) /\ ~ In(Release(u), a \o b)
    BY <1>6, <2>5
  <2>9. a \o b \o d \in Seq(Call) /\ ~ In(Release(u), a \o b \o d)
    BY <1>6, <2>6, <2>8
  <2> QED
    BY <1>1, <1>6, <2>7, <2>9
<1>9. CASE Stop
  <2> DEFINE t == Head(calls).thr
             a == <<ObjectCall("WakeupAllWaitingThreads", t)>>
             b == ForEach("RemoveWaitingThread", wait_objects[t], t)
             d == <<ThreadCall("ClearWaitObjects", t), Release(t)>>
  <2>1. t \in Thread
    BY <1>1, <1>9, NextCall, CallFields DEF Stop, StopCalls, Make
  <2>2. t \in Object /\ wait_objects[t] \in Seq(Object)
    BY <2>1 DEF Object, TypeOK
  <2> SUFFICES ASSUME u # t PROVE FALSE
    BY <1>9
  <2>3. a \in Seq(Call) /\ ~ In(Release(u), a)
    <3>1. ObjectCall("WakeupAllWaitingThreads", t) \in Call
      BY <2>2, CallMakers
    <3>2. ObjectCall("WakeupAllWaitingThreads", t) # Release(u)
      BY ReleaseCall DEF ObjectCall
    <3> HIDE DEF t
    <3> QED
      BY <3>1, <3>2 DEF In
  <2>4. b \in Seq(Call) /\ ~ In(Release(u), b)
    BY <1>7, <2>1, <2>2
  <2>5. d \in Seq(Call) /\ ~ In(Release(u), d)
    <3>1. ThreadCall("ClearWaitObjects", t) \in Call /\ Release(t) \in Call
      BY <2>1, CallMakers, ReleaseCall
    <3>2. ThreadCall("ClearWaitObjects", t) # Release(u) /\ Release(t) # Release(u)
      BY <2>1, ReleaseCall DEF ThreadCall
    <3> HIDE DEF t
    <3> QED
      BY <3>1, <3>2 DEF In
  <2>6. calls' = a \o b \o d \o Tail(calls)
    BY <1>9 DEF Stop, StopCalls, Make, Release
  <2> HIDE DEF a, b, d
  <2>7. a \o b \in Seq(Call) /\ ~ In(Release(u), a \o b)
    BY <1>6, <2>3, <2>4
  <2>8. a \o b \o d \in Seq(Call) /\ ~ In(Release(u), a \o b \o d)
    BY <1>6, <2>5, <2>7
  <2> QED
    BY <1>2, <1>6, <2>6, <2>8
<1>10. CASE TerminateProcessThreads
  <2> DEFINE c == Head(calls).core
  <2>1. c \in Core
    BY <1>1, <1>10, NextCall, CallFields DEF TerminateProcessThreads
  <2>2. current_thread[c] \in Thread \cup {None}
    BY <2>1 DEF TypeOK
  <2>3. \A t \in Thread : ThreadCall("Stop", t) \in Call /\ ThreadCall("Stop",
      t) # Release(u)
    <3>1. \A t \in Thread : ThreadCall("Stop", t) \in Call
      BY CallMakers
    <3>2. \A t \in Thread : ThreadCall("Stop", t).op = "Stop"
      BY DEF ThreadCall
    <3> QED
      BY <3>1, <3>2, ReleaseCall
  <2>4. \/ \E t \in Thread : calls' = <<ThreadCall("Stop", t)>> \o calls
        \/ calls' = <<ThreadCall("Stop", current_thread[c])>> \o Tail(calls)
           /\ current_thread[c] \in Thread
        \/ calls' = Tail(calls)
    BY <1>10, <2>2 DEF TerminateProcessThreads
  <2> QED
    BY <1>2, <1>3, <2>3, <2>4
<1>11. CASE ReleaseThreadMutexes
  <2> DEFINE t == Head(calls).thr
  <2>1. t \in Thread
    BY <1>1, <1>11, NextCall, CallFields DEF ReleaseThreadMutexes, ForgetMutexes
  <2>2. held_mutexes[t] \subseteq Mutex
    BY <2>1 DEF TypeOK
  <2>3. \A m \in Mutex : /\ ObjectCall("WakeupAllWaitingThreads", m) \in Call
                         /\ ObjectCall("WakeupAllWaitingThreads", m) # Release(u)
    <3>1. \A m \in Mutex : ObjectCall("WakeupAllWaitingThreads", m) \in Call
      BY CallMakers DEF Object
    <3>2. \A m \in Mutex :
            ObjectCall("WakeupAllWaitingThreads", m).op = "WakeupAllWaitingThreads"
      BY DEF ObjectCall
    <3> QED
      BY <3>1, <3>2, ReleaseCall
  <2>4. \/ \E m \in Mutex : calls' = <<ObjectCall("WakeupAllWaitingThreads", m)>> \o calls
        \/ calls' = Tail(calls)
    BY <1>11, <2>2 DEF ReleaseThreadMutexes, ForgetMutexes
  <2> QED
    BY <1>2, <1>3, <2>3, <2>4
<1>12. CASE UpdateMutexes
  <2> DEFINE ms == Head(calls).mutexes
  <2>1. ms \in SUBSET Mutex
    BY <1>1, <1>12, NextCall, CallFields DEF UpdateMutexes
  <2>2. \A m : /\ [op |-> "UpdateMutexes", mutexes |-> ms \ {m}] \in Call
               /\ [op |-> "UpdateMutexes", mutexes |-> ms \ {m}] # Release(u)
    BY <2>1, CallMakers, ReleaseCall
  <2>3. \/ \E m : calls' = <<[op |-> "UpdateMutexes", mutexes |-> ms \ {m}]>> \o Tail(calls)
        \/ calls' = Tail(calls)
    BY <1>12 DEF UpdateMutexes
  <2> QED
    BY <1>2, <1>3, <2>2, <2>3
<1> QED
  BY <1>5, <1>8, <1>9, <1>10, <1>11, <1>12 DEF CallStep

-----------------------------------------------------------------------------
(***************************************************************************)
(* Steps of a running handler.                                             *)
(***************************************************************************)
LEMMA AcquireMutexInv ==
  ASSUME TypeOK, MutexInv, Acquire
  PROVE  MutexInv'
PROOF
<1> DEFINE o == Head(calls).obj
           t == Head(calls).thr
<1>1. CallStep /\ calls # << >> /\ Head(calls).op = "Acquire" /\ status' = status
  BY DEF CallStep, Acquire, Make
<1>2. t \in Thread
  BY <1>1, NextCall, CallFields
<1>3. \A u \in Thread : In(Release(u), calls) <=> In(Release(u), calls')
  <2>1. ~ Stop
    BY <1>1 DEF Stop, StopCalls, Make
  <2> QED
    BY <1>1, <2>1, PendingKept, NewReleases, ReleaseCall
<1>4. CASE o \in Mutex /\ AcquireFreeMutex(o, t)
  <2>1. /\ lock_count[o] = 0
        /\ lock_count' = [lock_count EXCEPT ![o] = 1]
        /\ holding_thread' = [holding_thread EXCEPT ![o] = t]
        /\ held_mutexes' = [held_mutexes EXCEPT ![t] = @ \cup {o}]
    BY <1>4 DEF AcquireFreeMutex
  <2>2. holding_thread[o] = None /\ t # None
    BY <1>2, <1>4, <2>1, ObjectAssumption DEF MutexInv, LockedIffHeld
  <2> HIDE DEF o, t
  <2>3. LockedIffHeld'
    BY <1>2, <1>4, <2>1, <2>2 DEF MutexInv, LockedIffHeld, TypeOK
  <2>4. HolderListsMutex'
    BY <1>2, <1>4, <2>1 DEF MutexInv, HolderListsMutex, TypeOK
  <2>5. StaleOnlyInRelease'
    BY <1>2, <1>3, <1>4, <2>1, <2>2, ObjectAssumption
    DEF MutexInv, StaleOnlyInRelease, TypeOK
  <2>6. ReleaseOnlyOfDead'
    BY <1>1, <1>3 DEF MutexInv, ReleaseOnlyOfDead
  <2> QED
    BY <2>3, <2>4, <2>5, <2>6 DEF MutexInv
<1>5. CASE o \in Mutex /\ AcquireHeldMutex(o)
  <2>1. /\ lock_count[o] # 0
        /\ lock_count' = [lock_count EXCEPT ![o] = @ + 1]
        /\ UNCHANGED <<holding_thread, held_mutexes>>
    BY <1>5 DEF AcquireHeldMutex
  <2> HIDE DEF o, t
  <2>2. LockedIffHeld'
    BY <1>5, <2>1 DEF MutexInv, LockedIffHeld, TypeOK
  <2> QED
    BY <1>1, <1>3, <2>1, <2>2
    DEF MutexInv, HolderListsMutex, StaleOnlyInRelease, ReleaseOnlyOfDead
<1>6. CASE ~ (o \in Mutex /\ (AcquireFreeMutex(o, t) \/ AcquireHeldMutex(o)))
  <2>1. UNCHANGED <<lock_count, holding_thread, held_mutexes>>
    BY <1>6 DEF Acquire, AcquireSemaphore, AcquireSignal, AcquireThread, mutexVars
  <2> QED
    BY <1>1, <1>3, <2>1
    DEF MutexInv, LockedIffHeld, HolderListsMutex, StaleOnlyInRelease, ReleaseOnlyOfDead
<1> QED
  BY <1>4, <1>5, <1>6

\* Freeing the mutexes of a dead thread keeps the mutex invariant.
LEMMA ReleaseThreadMutexesInv ==
  ASSUME TypeOK, MutexInv, ReleaseThreadMutexes
  PROVE  MutexInv'
PROOF
<1> DEFINE t == Head(calls).thr
<1>1. /\ CallStep /\ calls # << >> /\ Head(calls).op = "ReleaseThreadMutexes"
      /\ status' = status
  BY DEF CallStep, ReleaseThreadMutexes, ForgetMutexes
<1>2. t \in Thread /\ held_mutexes[t] \subseteq Mutex /\ calls \in Seq(Call)
  BY <1>1, NextCall, CallFields DEF TypeOK
<1>3. Head(calls) = Release(t)
  BY <1>1, <1>2, NextCall DEF Call, Release, ThreadCall
<1>4. In(Release(t), calls)
  BY <1>1, <1>2, <1>3, TailMembers
<1>5. \A u \in Thread : In(Release(u), calls') => In(Release(u), calls)
  <2>1. ~ Stop
    BY <1>1 DEF Stop, StopCalls, Make
  <2> QED
    BY <1>1, <2>1, NewReleases
<1>6. \A u \in Thread \ {t} : In(Release(u), calls) => In(Release(u), calls')
  BY <1>1, <1>2, PendingKept, ReleaseCall
<1>7. ReleaseOnlyOfDead'
  BY <1>1, <1>5 DEF MutexInv, ReleaseOnlyOfDead
<1>8. ASSUME NEW m \in held_mutexes[t],
             holding_thread[m] = t,
             lock_count' = [lock_count EXCEPT ![m] = 0],
             holding_thread' = [holding_thread EXCEPT ![m] = None],
             calls' = <<ObjectCall("WakeupAllWaitingThreads", m)>> \o calls,
             UNCHANGED held_mutexes
      PROVE  MutexInv'
  <2>1. m \in Mutex /\ m \in Object
    BY <1>2 DEF Object
  <2>2. In(Release(t), calls')
    <3>1. ObjectCall("WakeupAllWaitingThreads", m) \in Call
      BY <2>1, CallMakers
    <3> QED
      BY <1>2, <1>4, <1>8, <3>1, PrependMembers
  <2> HIDE DEF t
  <2>3. LockedIffHeld'
    BY <1>8, <2>1 DEF MutexInv, LockedIffHeld, TypeOK
  <2>4. HolderListsMutex'
    BY <1>8, <2>1, ObjectAssumption DEF MutexInv, HolderListsMutex, TypeOK
  <2>5. StaleOnlyInRelease'
    BY <1>2, <1>6, <1>8, <2>1, <2>2 DEF MutexInv, StaleOnlyInRelease, TypeOK
  <2> QED
    BY <1>7, <2>3, <2>4, <2>5 DEF MutexInv
<1>9. CASE /\ \A m \in held_mutexes[t] : holding_thread[m] # t
           /\ held_mutexes' = [held_mutexes EXCEPT ![t] = {}]
           /\ UNCHANGED <<lock_count, holding_thread>>
  <2> HIDE DEF t
  <2>1. HolderListsMutex'
    BY <1>2, <1>9 DEF MutexInv, HolderListsMutex, TypeOK
  <2>2. StaleOnlyInRelease'
    BY <1>2, <1>6, <1>9 DEF MutexInv, StaleOnlyInRelease, TypeOK
  <2>3. LockedIffHeld'
    BY <1>9 DEF MutexInv, LockedIffHeld
  <2> QED
    BY <1>7, <2>1, <2>2, <2>3 DEF MutexInv
<1> QED
  BY <1>8, <1>9 DEF ReleaseThreadMutexes, ForgetMutexes

\* Every call of a handler keeps the mutex invariant.
LEMMA CallStepInv ==
  ASSUME TypeOK, MutexInv, CallStep
  PROVE  MutexInv'
PROOF
<1>1. CASE Acquire
  BY <1>1, AcquireMutexInv
<1>2. CASE ReleaseThreadMutexes
  BY <1>2, ReleaseThreadMutexesInv
<1>3. CASE Stop
  <2>1. Head(calls) \in Call /\ Head(calls).op = "Stop"
    BY <1>3, NextCall DEF Stop, StopCalls, Make
  <2>2. Head(calls).thr \in Thread
    BY <2>1, CallFields
  <2>3. /\ UNCHANGED <<lock_count, holding_thread, held_mutexes>>
        /\ status' = [status EXCEPT ![Head(calls).thr] = "Dead"]
    BY <1>3 DEF Stop, StopCalls, mutexVars
  <2>4. \A u \in Thread : /\ u = Head(calls).thr => status'[u] = "Dead"
                          /\ status[u] = "Dead" => status'[u] = "Dead"
    BY <2>2, <2>3 DEF TypeOK
  <2>5. \A u \in Thread :
          In(Release(u), calls') => In(Release(u), calls) \/ status'[u] = "Dead"
    BY <2>4, NewReleases
  <2>6. Head(calls).op # "ReleaseThreadMutexes"
    BY <2>1
  <2>7. \A u \in Thread : status[u] = "Dead" => status'[u] = "Dead"
    BY <2>4
  <2> QED
    BY <2>3, <2>5, <2>6, <2>7, HandlerStep
<1>4. CASE ResumeFromWait
  <2>1. /\ Head(calls).op = "ResumeFromWait"
        /\ UNCHANGED <<lock_count, holding_thread, held_mutexes>>
    BY <1>4 DEF ResumeFromWait, BecomeReady, Make, mutexVars
  <2>2. \A u \in Thread : status[u] = "Dead" => status'[u] = "Dead"
    BY <1>4 DEF ResumeFromWait, BecomeReady, TypeOK, Waiting, WaitSynch
  <2>3. ~ Stop
    BY <2>1 DEF Stop, StopCalls, Make
  <2> QED
    BY <2>1, <2>2, <2>3, NewReleases, HandlerStep
<1>5. ASSUME Head(calls).op \notin {"Stop", "ReleaseThreadMutexes"},
             UNCHANGED <<lock_count, holding_thread, held_mutexes, status>>
      PROVE  MutexInv'
  <2>1. ~ Stop
    BY <1>5 DEF Stop, StopCalls, Make
  <2> QED
    BY <1>5, <2>1, NewReleases, HandlerStep
<1>6. CASE AddWaitingThread \/ RemoveWaitingThread
  BY <1>5, <1>6 DEF AddWaitingThread, RemoveWaitingThread, ChangeWaiters, Make
<1>7. CASE WakeupThread \/ WakeupDone \/ ClearWaitObjects
  BY <1>5, <1>7 DEF WakeupThread, WakeupCalls, WakeupDone, ClearWaitObjects, Make, mutexVars
<1>8. CASE TerminateProcessThreads
  BY <1>5, <1>8 DEF TerminateProcessThreads, mutexVars
<1>9. CASE UpdateMutexes
  BY <1>5, <1>9 DEF UpdateMutexes
<1>10. CASE RescheduleTimer
  BY <1>5, <1>10 DEF RescheduleTimer, Make, mutexVars
<1> QED
  BY <1>1, <1>2, <1>3, <1>4, <1>6, <1>7, <1>8, <1>9, <1>10 DEF CallStep

-----------------------------------------------------------------------------
(***************************************************************************)
(* Steps that start a handler, or need none.                               *)
(***************************************************************************)
LEMMA ReleaseMutexInv ==
  ASSUME TypeOK, MutexInv, NEW c \in Core, NEW t \in Thread, NEW m \in Mutex,
         ReleaseMutex(c, t, m)
  PROVE  MutexInv'
PROOF
<1>1. /\ calls = << >> /\ holding_thread[m] = t /\ lock_count[m] > 0
      /\ lock_count' = [lock_count EXCEPT ![m] = @ - 1]
  BY DEF ReleaseMutex, MayRelease, LastRelease, Caller
<1>2. \A n \in Mutex, u \in Thread : n \in held_mutexes[u] => holding_thread[n] = u
  BY <1>1, QuietNoRelease DEF MutexInv, StaleOnlyInRelease
<1>3. CASE lock_count[m] = 1
  <2>1. /\ held_mutexes' = [held_mutexes EXCEPT ![t] = @ \ {m}]
        /\ holding_thread' = [holding_thread EXCEPT ![m] = None]
        /\ calls' = <<ObjectCall("WakeupAllWaitingThreads", m)>>
    BY <1>3 DEF ReleaseMutex, MayRelease, LastRelease
  <2>2. \A u \in Thread : ~ In(Release(u), calls')
    <3>1. ObjectCall("WakeupAllWaitingThreads", m).op = "WakeupAllWaitingThreads"
      BY DEF ObjectCall
    <3> QED
      BY <2>1, <3>1, ReleaseCall DEF In
  <2>3. LockedIffHeld'
    BY <1>1, <1>3, <2>1 DEF MutexInv, LockedIffHeld, TypeOK
  <2>4. HolderListsMutex'
    BY <1>1, <2>1, ObjectAssumption DEF MutexInv, HolderListsMutex, TypeOK
  <2>5. StaleOnlyInRelease'
    BY <1>1, <1>2, <2>1, ObjectAssumption DEF StaleOnlyInRelease, TypeOK
  <2> QED
    BY <2>2, <2>3, <2>4, <2>5 DEF MutexInv, ReleaseOnlyOfDead
<1>4. CASE lock_count[m] # 1
  <2>1. UNCHANGED <<held_mutexes, holding_thread, calls, status>>
    BY <1>4 DEF ReleaseMutex, MayRelease, LastRelease
  <2>2. LockedIffHeld'
    BY <1>1, <1>4, <2>1 DEF MutexInv, LockedIffHeld, TypeOK
  <2> QED
    BY <2>1, <2>2 DEF MutexInv, HolderListsMutex, StaleOnlyInRelease, ReleaseOnlyOfDead
<1> QED
  BY <1>3, <1>4

\* The calls a handler starts with: none of them is a release.
LEMMA FirstCalls ==
  ASSUME TypeOK, NEW u \in Thread
  PROVE  /\ \A op \in {"Acquire", "AddWaitingThread", "RemoveWaitingThread"},
               objs \in Seq(Object), t \in Thread : ~ In(Release(u), ForEach(op, objs, t))
         /\ \A op \in {"WakeupAllWaitingThreads", "RescheduleTimer"} :
               \A o : ObjectCall(op, o) # Release(u)
         /\ \A op \in {"ClearWaitObjects", "ResumeFromWait", "Stop"} :
               \A t : ThreadCall(op, t) # Release(u)
PROOF
<1>1. ASSUME NEW op \in {"Acquire", "AddWaitingThread", "RemoveWaitingThread"},
             NEW objs \in Seq(Object), NEW t \in Thread
      PROVE  ~ In(Release(u), ForEach(op, objs, t))
  BY ForEachType, ReleaseCall DEF ThreadObjectCall
<1>2. \A op, o : ObjectCall(op, o).op = op
  BY DEF ObjectCall
<1>3. \A op, t : ThreadCall(op, t).op = op
  BY DEF ThreadCall
<1> QED
  BY <1>1, <1>2, <1>3, ReleaseCall

\* Waits, sleeps, priorities, suspension, exits, signals, timers and time-outs
\* start a handler with no release pending and leave the mutexes alone.
LEMMA WaitStartInv ==
  ASSUME TypeOK, MutexInv, calls = << >>, NEW t \in Thread, NEW objs \in Seq(Object),
         NEW st, NEW timed, StartWait(t, objs, st, timed) \/ AcquireNow(t, objs)
  PROVE  MutexInv'
PROOF
<1>1. UNCHANGED <<lock_count, holding_thread, held_mutexes>>
  BY DEF StartWait, AcquireNow, mutexVars
<1>2. \A u \in Thread : ~ In(Release(u), calls')
  BY FirstCalls DEF StartWait, AcquireNow
<1> QED
  BY <1>1, <1>2, HandlerStart

\* Every supervisor call keeps the mutex invariant.
LEMMA SvcStepInv ==
  ASSUME TypeOK, MutexInv, NEW c \in Core, NEW t \in Thread, SvcStep(c, t)
  PROVE  MutexInv'
PROOF
<1>1. ASSUME calls = << >>, UNCHANGED <<lock_count, holding_thread, held_mutexes, calls>>
      PROVE  MutexInv'
  BY <1>1, QuietNoRelease, HandlerStart
<1>2. ASSUME NEW k, calls = << >>, UNCHANGED <<lock_count, holding_thread, held_mutexes>>,
             calls' = <<k>>, \A u \in Thread : k # Release(u)
      PROVE  MutexInv'
  <2>1. \A u \in Thread : ~ In(Release(u), calls')
    BY <1>2 DEF In
  <2> QED
    BY <1>2, <2>1, HandlerStart
<1>3. CASE \E u \in Thread : \E p \in CreatePrios[u] : CreateThread(c, t, u, p)
  BY <1>1, <1>3 DEF CreateThread, Caller, CreateThreadWith, mutexVars
<1>4. ASSUME NEW o \in WaitTargets[t], NEW timed \in BOOLEAN,
             WaitSynchronization1(c, t, o, timed)
      PROVE  MutexInv'
  <2>1. <<o>> \in Seq(Object)
    BY InputAssumption
  <2> QED
    BY <1>4, <2>1, WaitStartInv DEF WaitSynchronization1, Caller
<1>5. ASSUME NEW objs \in WaitLists, NEW timed \in BOOLEAN,
             WaitSynchronizationAll(c, t, objs, timed)
               \/ WaitSynchronizationAny(c, t, objs, timed)
      PROVE  MutexInv'
  <2>1. objs \in Seq(Object)
    BY InputAssumption
  <2>2. \A i \in 1 .. Len(objs) : <<objs[i]>> \in Seq(Object)
    BY <2>1
  <2>3. CASE WaitSynchronizationAll(c, t, objs, timed)
    BY <2>1, <2>3, WaitStartInv DEF WaitSynchronizationAll, Caller
  <2>4. CASE WaitSynchronizationAny(c, t, objs, timed)
    BY <2>1, <2>2, <2>4, WaitStartInv DEF WaitSynchronizationAny, Caller
  <2> QED
    BY <1>5, <2>3, <2>4
<1>6. ASSUME NEW e \in Event, NEW timed \in BOOLEAN, SleepClientThread(c, t, e, timed)
      PROVE  MutexInv'
  <2>1. <<e>> \in Seq(Object)
    BY DEF Object, Signal
  <2> QED
    BY <1>6, <2>1, WaitStartInv DEF SleepClientThread, Caller
<1>7. CASE \E forever \in BOOLEAN : SleepThread(c, t, forever)
  BY <1>1, <1>7 DEF SleepThread, Caller, mutexVars
<1>8. CASE \E m \in Mutex : ReleaseMutex(c, t, m)
  BY <1>8, ReleaseMutexInv
<1>9. CASE \E s \in Semaphore, n \in ReleaseCounts : ReleaseSemaphore(c, t, s, n)
  BY <1>2, <1>9, FirstCalls DEF ReleaseSemaphore, Caller, mutexVars
<1>10. CASE \E s \in Signal : ClearSignal(c, t, s)
  BY <1>1, <1>10 DEF ClearSignal, SetSignaled, Caller, mutexVars
<1>11. ASSUME NEW s \in Timer, NEW initial \in {0, 1}, NEW interval \in {0, 1},
              SetTimer(c, t, s, initial, interval)
       PROVE  MutexInv'
  <2>1. calls = << >> /\ UNCHANGED <<lock_count, holding_thread, held_mutexes>>
    BY <1>11 DEF SetTimer, TimerSignal, SetSignaled, Caller, mutexVars
  <2>2. calls' \in {<< >>, <<ObjectCall("WakeupAllWaitingThreads", s),
                            ObjectCall("RescheduleTimer", s)>>}
    BY <1>11 DEF SetTimer, TimerSignal, SetSignaled
  <2>3. \A u \in Thread : ~ In(Release(u), calls')
    BY <2>2, FirstCalls DEF In
  <2> QED
    BY <2>1, <2>3, HandlerStart
<1>12. CASE \E s \in Timer : CancelTimer(c, t, s)
  BY <1>1, <1>12 DEF CancelTimer, Caller, mutexVars
<1>13. ASSUME NEW u \in Thread, NEW p \in SetPrios, SetThreadPriority(c, t, u, p)
       PROVE  MutexInv'
  <2>1. \A v \in Thread : [op |-> "UpdateMutexes",
      mutexes |-> pending_mutexes[u]] # Release(v)
    BY ReleaseCall
  <2> QED
    BY <1>2, <1>13, <2>1 DEF SetThreadPriority, Caller, mutexVars
<1>14. CASE \E p \in Process, allow \in BOOLEAN : ControlProcess(c, t, p, allow)
  BY <1>1, <1>14 DEF ControlProcess, Caller, mutexVars
<1>15. CASE ExitThread(c, t)
  BY <1>2, <1>15, FirstCalls DEF ExitThread, Caller, mutexVars
<1>16. ASSUME NEW p \in Process, TerminateProcess(c, t, p)
       PROVE  MutexInv'
  <2>1. calls' = [i \in 1 .. NumCores |->
                    [op |-> "TerminateProcessThreads", core |-> i - 1, process |-> p]]
    BY <1>16 DEF TerminateProcess
  <2>2. Len(calls') = NumCores
    BY <2>1, ParameterAssumption
  <2>3. \A i \in 1 .. NumCores : calls'[i].op = "TerminateProcessThreads"
    BY <2>1
  <2>4. \A u \in Thread : ~ In(Release(u), calls')
    BY <2>2, <2>3, ReleaseCall DEF In
  <2> QED
    BY <1>16, <2>4, HandlerStart DEF TerminateProcess, Caller, mutexVars
<1> QED
  BY <1>3, <1>4, <1>5, <1>6, <1>7, <1>8, <1>9, <1>10, <1>11, <1>12, <1>13, <1>14, <1>15,
     <1>16 DEF SvcStep

\* Signals and timing callbacks keep the mutex invariant.
LEMMA CallbackInv ==
  ASSUME TypeOK, MutexInv,
         \/ \E e \in Event : SignalEvent(e)
         \/ \E t \in Thread : ThreadWakeupCallback(t)
         \/ \E s \in Timer : TimerCallback(s)
  PROVE  MutexInv'
PROOF
<1>1. calls = << >> /\ UNCHANGED <<lock_count, holding_thread, held_mutexes>>
  BY DEF SignalEvent, SetSignaled, ThreadWakeupCallback, TimeoutCalls, TimerCallback,
         TimerSignal, mutexVars
<1>2. ASSUME NEW u \in Thread PROVE ~ In(Release(u), calls')
  <2>1. ASSUME NEW e \in Event, SignalEvent(e) PROVE ~ In(Release(u), calls')
    BY <2>1, FirstCalls DEF SignalEvent, SetSignaled, In
  <2>2. ASSUME NEW s \in Timer, TimerCallback(s) PROVE ~ In(Release(u), calls')
    <3>1. calls' = <<ObjectCall("WakeupAllWaitingThreads", s),
        ObjectCall("RescheduleTimer", s)>>
      BY <2>2 DEF TimerCallback, TimerSignal, SetSignaled
    <3> QED
      BY <3>1, FirstCalls DEF In
  <2>3. ASSUME NEW t \in Thread, ThreadWakeupCallback(t) PROVE ~ In(Release(u), calls')
    <3> DEFINE a == ForEach("RemoveWaitingThread", wait_objects[t], t)
               b == <<ThreadCall("ClearWaitObjects", t)>>
               d == <<ThreadCall("ResumeFromWait", t)>>
    <3>1. ThreadCall("ClearWaitObjects", t) \in Call /\ ThreadCall("ResumeFromWait",
        t) \in Call
      BY CallMakers
    <3>2. a \in Seq(Call) /\ ~ In(Release(u), a)
      BY ForEachType, FirstCalls DEF TypeOK
    <3>3. b \in Seq(Call) /\ ~ In(Release(u), b) /\ d \in Seq(Call) /\ ~ In(Release(u), d)
      BY <3>1, FirstCalls DEF In
    <3>4. << >> \o d = d
      BY <3>3
    <3>5. calls' = (a \o b) \o d \/ calls' = << >> \o d
      BY <2>3 DEF ThreadWakeupCallback, TimeoutCalls
    <3> HIDE DEF a, b, d
    <3>6. a \o b \in Seq(Call) /\ ~ In(Release(u), a \o b)
      BY <3>2, <3>3, InConcat
    <3>7. ~ In(Release(u), (a \o b) \o d)
      BY <3>3, <3>6, InConcat
    <3> QED
      BY <3>3, <3>4, <3>5, <3>7
  <2> QED
    BY <2>1, <2>2, <2>3
<1> QED
  BY <1>1, <1>2, HandlerStart

\* The mutex invariant holds initially.
LEMMA MutexInvInit ==
  ASSUME Init
  PROVE  MutexInv
PROOF
  BY ObjectAssumption
  DEF Init, MutexInv, LockedIffHeld, HolderListsMutex, StaleOnlyInRelease,
      ReleaseOnlyOfDead, In

\* Every step keeps the mutex invariant.
LEMMA MutexInvNext ==
  ASSUME TypeOK, MutexInv, [Next]_vars
  PROVE  MutexInv'
PROOF
<1>1. CASE CallStep
  BY <1>1, CallStepInv
<1>2. ASSUME calls = << >>, UNCHANGED <<lock_count, holding_thread, held_mutexes, calls>>
      PROVE  MutexInv'
  BY <1>2, QuietNoRelease, HandlerStart
<1>3. CASE \E t \in Thread : \E p \in CreatePrios[t], delayed \in BOOLEAN :
             SetupMainThread(t, p, delayed)
  BY <1>2, <1>3 DEF SetupMainThread, CreateThreadWith, mutexVars
<1>4. CASE \E c \in Core, t \in Thread : SvcStep(c, t)
  BY <1>4, SvcStepInv
<1>5. CASE \/ \E e \in Event : SignalEvent(e)
           \/ \E t \in Thread : ThreadWakeupCallback(t)
           \/ \E s \in Timer : TimerCallback(s)
  BY <1>5, CallbackInv
<1>6. CASE \E c \in Core : Reschedule(c)
  BY <1>2, <1>6 DEF Reschedule, CancelWakeup, mutexVars
<1>7. CASE UNCHANGED vars
  BY <1>7 DEF vars, mutexVars, MutexInv, LockedIffHeld, HolderListsMutex,
              StaleOnlyInRelease, ReleaseOnlyOfDead
<1> QED
  BY <1>1, <1>3, <1>4, <1>5, <1>6, <1>7 DEF Next

-----------------------------------------------------------------------------
\* The mutex invariant holds in every reachable state.
LEMMA MutexInvariant == Spec => [](TypeOK /\ MutexInv)
PROOF
<1>1. Init => TypeOK /\ MutexInv
  BY InitType, MutexInvInit
<1>2. TypeOK /\ MutexInv /\ [Next]_vars => (TypeOK /\ MutexInv)'
  BY NextType, MutexInvNext
<1> QED
  BY <1>1, <1>2, PTL DEF Spec

\* A mutex is locked exactly while it has a holder, and between handlers its
\* holder is the only thread whose held_mutexes lists it.
THEOREM OwnershipHolds == Spec => []OwnershipConsistent
PROOF
<1>1. TypeOK /\ MutexInv => OwnershipConsistent
  BY QuietNoRelease
  DEF MutexInv, LockedIffHeld, HolderListsMutex, StaleOnlyInRelease,
      OwnershipConsistent, Quiet
<1> QED
  BY <1>1, MutexInvariant, PTL

\* Only the holder's own ReleaseMutex, or its death, takes a mutex from it.
LEMMA TakenByOwner ==
  ASSUME TypeOK, MutexInv, Next, NEW m \in Mutex, NEW t \in Thread,
         holding_thread[m] = t, holding_thread'[m] # t
  PROVE  (Quiet /\ status[t] = "Running") \/ status[t] = "Dead"
PROOF
<1>1. CASE CallStep
  <2>1. CASE Acquire
    <3> DEFINE o == Head(calls).obj
               u == Head(calls).thr
    <3>1. o \in Mutex /\ AcquireFreeMutex(o, u)
      BY <2>1 DEF Acquire, AcquireHeldMutex, AcquireSemaphore, AcquireSignal,
                  AcquireThread, mutexVars
    <3>2. holding_thread' = [holding_thread EXCEPT ![o] = u] /\ lock_count[o] = 0
      BY <3>1 DEF AcquireFreeMutex
    <3> HIDE DEF o, u
    <3>3. o = m
      BY <3>2 DEF TypeOK
    <3> QED
      BY <3>2, <3>3, ObjectAssumption DEF MutexInv, LockedIffHeld
  <2>2. CASE ReleaseThreadMutexes
    <3> DEFINE u == Head(calls).thr
    <3>1. Head(calls) \in Call /\ calls # << >> /\ Head(calls).op = "ReleaseThreadMutexes"
      BY <2>2, NextCall DEF ReleaseThreadMutexes, ForgetMutexes
    <3>2. u \in Thread /\ Head(calls) = Release(u)
      BY <3>1 DEF Call, Release, ThreadCall
    <3>3. In(Release(u), calls)
      BY <3>1, <3>2, TailMembers DEF TypeOK
    <3>4. PICK n : /\ holding_thread[n] = u
                   /\ holding_thread' = [holding_thread EXCEPT ![n] = None]
      BY <2>2 DEF ReleaseThreadMutexes, ForgetMutexes
    <3>5. n = m
      BY <3>4 DEF TypeOK
    <3> QED
      BY <3>2, <3>3, <3>4, <3>5 DEF MutexInv, ReleaseOnlyOfDead
  <2>3. CASE AddWaitingThread \/ RemoveWaitingThread
    BY <2>3 DEF AddWaitingThread, RemoveWaitingThread, ChangeWaiters
  <2> QED
    BY <1>1, <2>1, <2>2, <2>3
    DEF CallStep, WakeupThread, WakeupCalls, WakeupDone, ClearWaitObjects,
        ResumeFromWait, BecomeReady, Stop, StopCalls, TerminateProcessThreads,
        UpdateMutexes, RescheduleTimer, mutexVars
<1>2. ASSUME NEW c \in Core, NEW u \in Thread, SvcStep(c, u)
      PROVE  Quiet /\ status[t] = "Running"
  <2>1. PICK n \in Mutex : ReleaseMutex(c, u, n)
    BY <1>2
    DEF SvcStep, CreateThread, CreateThreadWith, WaitSynchronization1,
        WaitSynchronizationAll, WaitSynchronizationAny, SleepClientThread, StartWait,
        AcquireNow, SleepThread, ReleaseSemaphore, ClearSignal, SetTimer, TimerSignal,
        SetSignaled, CancelTimer, SetThreadPriority, ControlProcess, ExitThread,
        TerminateProcess, mutexVars
  <2>2. /\ calls = << >> /\ status[u] = "Running" /\ holding_thread[n] = u
        /\ \/ holding_thread' = [holding_thread EXCEPT ![n] = None]
           \/ holding_thread' = holding_thread
    BY <2>1 DEF ReleaseMutex, MayRelease, LastRelease, Caller
  <2>3. n = m
    BY <2>2 DEF TypeOK
  <2> QED
    BY <2>2, <2>3 DEF Quiet
<1> QED
  BY <1>1, <1>2
  DEF Next, SetupMainThread, CreateThreadWith, SignalEvent, SetSignaled,
      ThreadWakeupCallback, TimeoutCalls, TimerCallback, TimerSignal, Reschedule,
      CancelWakeup, mutexVars

\* HeldUntilReleased: no other thread's call, time-out or wake-up ever takes a
\* held mutex from its holder.
THEOREM HeldUntilReleasedHolds == Spec => HeldUntilReleased
PROOF
<1> DEFINE Step == \A m \in Mutex, t \in Thread :
                     holding_thread[m] = t /\ holding_thread'[m] # t =>
                       \/ Quiet /\ status[t] = "Running"
                       \/ status[t] = "Dead"
<1>1. TypeOK /\ MutexInv /\ [Next]_vars => [Step]_vars
  BY TakenByOwner
<1>2. HeldUntilReleased <=> [][Step]_vars
  BY DEF HeldUntilReleased
<1> HIDE DEF Step
<1> QED
  BY <1>1, <1>2, MutexInvariant, PTL DEF Spec

-----------------------------------------------------------------------------
(* Dead holders and inherited priorities *)

Gone == {"Dead", "Dormant"}

\* A dead holder's mutexes are still to be freed.
HolderAlive ==
  \A m \in Mutex, t \in Thread : holding_thread[m] = t =>
    /\ status[t] # "Dormant"
    /\ status[t] = "Dead" => In(Release(t), calls)
\* A mutex is never on its way to a thread that does not exist.
AcquiredByLive ==
  \A m \in Mutex, t \in Thread : In(AcquireOf(m, t), calls) => status[t] \notin Gone

DeadInv == HolderAlive /\ AcquiredByLive

-----------------------------------------------------------------------------
(***************************************************************************)
(* Calls of a handler.                                                     *)
(***************************************************************************)
\* A thread that WakeupAllWaitingThreads finds in a waiting list is blocked in a
\* wait, unless it is being stopped while it waits for itself.
LEMMA WokenThread ==
  ASSUME TypeOK, ShapeInv, WaitInv, calls # << >>,
         Head(calls).op = "WakeupAllWaitingThreads", NEW t \in Thread,
         In(t, waiting_threads[Head(calls).obj])
  PROVE  status[t] \in WaitSynch \/ (Head(calls).obj = t /\ status[t] = "Dead")
PROOF
<1> DEFINE o == Head(calls).obj
<1>1. Head(calls) \in Call /\ calls \in Seq(Call) /\ Tail(calls) \in Seq(Call)
  BY NextCall DEF TypeOK
<1>2. o \in Object
  BY <1>1, CallFields
<1>3. In(o, wait_objects[t])
  BY <1>2 DEF WaitInv, ListedIsWaited
<1>4. wait_objects[t] # << >>
  BY <1>3 DEF In
<1>5. status[t] \in WaitSynch \/ In(Clear(t), calls)
  BY <1>4 DEF WaitInv, WaitersWait
<1>6. \A l : In(l, calls) <=> In(l, Tail(calls)) \/ l = Head(calls)
  BY <1>1, TailMembers
<1>7. \A l : In(l, Tail(calls)) => MayFollow(Head(calls), l)
  BY <1>1, OrderedTail DEF ShapeInv
<1>8. CASE In(Clear(t), calls)
  <2>1. MayFollow(Head(calls), Clear(t))
    BY <1>6, <1>7, <1>8, CallNames
  <2>2. o \in Thread /\ o = t
    BY <1>2, <2>1, CallNames, ObjectAssumption DEF MayFollow, Object
  <2>3. ~ In(Resume(t), calls)
    <3>1. ~ MayFollow(Head(calls), Resume(t)) /\ Resume(t) # Head(calls)
      BY <2>2, CallNames DEF MayFollow
    <3> QED
      BY <1>6, <1>7, <3>1
  <2>4. ~ Followed(Clear(t), Resume(t), calls)
    <3>1. PICK i \in 1 .. Len(calls) : calls[i] = Clear(t)
      BY <1>8 DEF In
    <3>2. \A h \in i + 1 .. Len(calls) : h \in 1 .. Len(calls)
      BY <1>1, <3>1
    <3> QED
      BY <2>3, <3>1, <3>2 DEF Followed, In
  <2> QED
    BY <2>2, <2>4 DEF WaitInv, ClearedIsResumed
<1> QED
  BY <1>5, <1>8

\* A step adds an Acquire only for a thread that was blocked in a wait, or of the
\* stopped thread that waited for itself.
LEMMA NewAcquires ==
  ASSUME TypeOK, ShapeInv, WaitInv, CallStep, NEW o, NEW t \in Thread,
         In(AcquireOf(o, t), calls'), ~ In(AcquireOf(o, t), calls)
  PROVE  /\ WakeupThread /\ In(t, waiting_threads[Head(calls).obj])
         /\ \/ status[t] \in WaitSynch
            \/ o = t /\ status[t] = "Dead"
         /\ In(Resume(t), calls')
PROOF
<1> DEFINE p == Head(calls).obj
<1>1. AcquireOf(o, t).op = "Acquire" /\ AcquireOf(o, t).obj = o /\ AcquireOf(o, t).thr = t
  BY CallNames
<1>2. ASSUME NEW u \in Thread PROVE ~ In(AcquireOf(o, t), StopCalls(u))
  BY StopBody, CallNames
<1>3. \A m : AcquireOf(o, t) # Wakeup(m)
  BY CallNames
<1>4. PICK i \in 1 .. Len(waiting_threads[p]) :
           /\ WakeupThread /\ Head(calls).op = "WakeupAllWaitingThreads"
           /\ p \in Object /\ waiting_threads[p][i] \in Thread
           /\ In(AcquireOf(o, t), WakeupCalls(p, waiting_threads[p][i]))
  BY <1>1, <1>2, <1>3, CallMembers
<1>5. In(waiting_threads[p][i], waiting_threads[p])
  BY <1>4 DEF In
<1> DEFINE u == waiting_threads[p][i]
<1> HIDE DEF u
<1>6. u \in Thread /\ In(AcquireOf(o, t), WakeupCalls(p, u)) /\ In(u, waiting_threads[p])
  BY <1>4, <1>5 DEF u
<1>7. calls # << >> /\ calls \in Seq(Call)
  BY StackStep
<1>8. status[u] \in WaitSynch \/ (p = u /\ status[u] = "Dead")
  BY <1>4, <1>6, <1>7, WokenThread
<1>9. u = t /\ (status[u] # "WaitSynchAll" => o = p)
  <2>1. \/ status[u] = "WaitSynchAll" /\ \E q : AcquireOf(o, t) = AcquireOf(q, u)
        \/ status[u] # "WaitSynchAll" /\ AcquireOf(o, t) = AcquireOf(p, u)
        \/ \E q : AcquireOf(o, t) = Remove(q, u)
        \/ AcquireOf(o, t) = Clear(u) \/ AcquireOf(o, t) = Resume(u)
    BY <1>4, <1>6, WakeupBody
  <2> QED
    BY <2>1, CallNames
<1>10. In(Resume(t), calls')
  <2>1. PICK j \in 1 .. Len(waiting_threads[p]) :
             calls' = WakeupCalls(p, waiting_threads[p][j]) \o calls
    BY <1>4 DEF WakeupThread
  <2> DEFINE v == waiting_threads[p][j]
  <2>2. v \in Thread
    <3>1. waiting_threads[p] \in Seq(Thread)
      BY <1>4 DEF TypeOK
    <3> HIDE DEF p
    <3> QED
      BY <2>1, <3>1
  <2> HIDE DEF v
  <2>3. WakeupCalls(p, v) \in Seq(Call) /\ In(Resume(v), WakeupCalls(p, v))
    BY <1>4, <2>2, WakeupBody
  <2>4. \A k : In(k, calls') <=> In(k, WakeupCalls(p, v)) \/ In(k, calls)
    BY <1>7, <2>1, <2>3, InConcat DEF v
  <2>5. In(AcquireOf(o, t), WakeupCalls(p, v))
    BY <2>4
  <2>6. v = t
    <3>1. \/ \E q : AcquireOf(o, t) = AcquireOf(q, v)
          \/ \E q : AcquireOf(o, t) = Remove(q, v)
          \/ AcquireOf(o, t) = Clear(v) \/ AcquireOf(o, t) = Resume(v)
      BY <1>4, <2>2, <2>5, WakeupBody
    <3> QED
      BY <3>1, CallNames
  <2> QED
    BY <2>3, <2>4, <2>6
<1> QED
  BY <1>4, <1>6, <1>8, <1>9, <1>10 DEF WaitSynch

\* Every call of a handler keeps mutexes away from dead threads.
LEMMA CallStepDeadInv ==
  ASSUME TypeOK, ShapeInv, WaitInv, MutexInv, DeadInv, CallStep
  PROVE  DeadInv'
PROOF
<1>1. calls # << >> /\ calls \in Seq(Call) /\ Head(calls) \in Call /\ Tail(calls) \in Seq(Call)
  BY StackStep
<1>2. \A l : In(l, Tail(calls)) => MayFollow(Head(calls), l)
  BY <1>1, OrderedTail DEF ShapeInv
<1>3. \A l : In(l, calls) <=> In(l, Tail(calls)) \/ l = Head(calls)
  BY <1>1, TailMembers
<1>4. \A m \in Mutex, t \in Thread :
        In(AcquireOf(m, t), calls') => In(AcquireOf(m, t), calls) \/ status[t] \in WaitSynch
  BY NewAcquires, ObjectAssumption
<1>5. \A m \in Mutex, t \in Thread : In(AcquireOf(m, t), calls') => status[t] \notin Gone
  BY <1>4 DEF DeadInv, AcquiredByLive, Gone, WaitSynch
<1>6. ASSUME \A t \in Thread : status'[t] # status[t] => status'[t] \notin Gone
      PROVE  AcquiredByLive'
  BY <1>5, <1>6 DEF AcquiredByLive
<1>7. ASSUME NEW t \in Thread, Head(calls) # Release(t), In(Release(t), calls)
      PROVE  In(Release(t), calls')
  BY <1>7, CallMembers
<1>8. ASSUME UNCHANGED holding_thread, Head(calls).op # "ReleaseThreadMutexes",
             \A t \in Thread : status'[t] # status[t] => status'[t] \notin Gone
      PROVE  HolderAlive'
  <2>1. \A t \in Thread : Head(calls) # Release(t)
    BY <1>8, ReleaseCall
  <2> QED
    BY <1>7, <1>8, <2>1 DEF DeadInv, HolderAlive, Gone
<1>9. CASE Acquire
  <2> DEFINE o == Head(calls).obj
             t == Head(calls).thr
  <2>1. /\ UNCHANGED status /\ Head(calls).op = "Acquire"
        /\ \/ UNCHANGED holding_thread
           \/ o \in Mutex /\ holding_thread' = [holding_thread EXCEPT ![o] = t]
    BY <1>9 DEF Acquire, AcquireFreeMutex, AcquireHeldMutex, AcquireSemaphore,
                AcquireSignal, AcquireThread, mutexVars, Make
  <2>2. t \in Thread /\ Head(calls) = AcquireOf(o, t)
    BY <1>1, <2>1, CallFields, CallOfOp
  <2>3. o \in Mutex => status[t] \notin Gone
    BY <1>3, <2>2 DEF DeadInv, AcquiredByLive
  <2>4. \A u \in Thread : Head(calls) # Release(u)
    BY <2>1, ReleaseCall
  <2> HIDE DEF o, t
  <2>5. \A m \in Mutex : holding_thread'[m] = holding_thread[m]
                           \/ (o \in Mutex /\ holding_thread'[m] = t)
    BY <2>1 DEF TypeOK
  <2>6. HolderAlive'
    BY <1>7, <2>1, <2>3, <2>4, <2>5 DEF DeadInv, HolderAlive, Gone
  <2> QED
    BY <1>6, <2>1, <2>6 DEF DeadInv
<1>10. CASE Stop
  <2> DEFINE t == Head(calls).thr
  <2>1. /\ Head(calls).op = "Stop" /\ calls' = StopCalls(t) \o Tail(calls)
        /\ UNCHANGED holding_thread
        /\ status' = [status EXCEPT ![t] = "Dead"]
    BY <1>10 DEF Stop, Make, mutexVars
  <2>2. t \in Thread
    BY <1>1, <2>1, CallFields
  <2>3. StopCalls(t) \in Seq(Call) /\ In(Release(t), StopCalls(t))
    BY <2>2, StopBody DEF Release
  <2>4. \A l : In(l, calls') <=> In(l, StopCalls(t)) \/ In(l, Tail(calls))
    BY <1>1, <2>1, <2>3, InConcat
  <2>5. \A u \in Thread : Head(calls) # Release(u)
    BY <2>1, ReleaseCall
  <2>6. \A u \in Thread : status'[u] = IF u = t THEN "Dead" ELSE status[u]
    BY <2>1, <2>2 DEF TypeOK
  <2>7. HolderAlive'
    BY <1>7, <2>1, <2>3, <2>4, <2>5, <2>6 DEF DeadInv, HolderAlive
  <2>8. AcquiredByLive'
    <3>1. \A o, u : ~ In(AcquireOf(o, u), StopCalls(t))
      BY <2>2, StopBody, CallNames
    <3>2. \A o, u : ~ In(AcquireOf(o, u), Tail(calls))
      BY <1>2, <2>1, CallNames DEF MayFollow
    <3> QED
      BY <2>4, <3>1, <3>2 DEF AcquiredByLive
  <2> QED
    BY <2>7, <2>8 DEF DeadInv
<1>11. CASE ResumeFromWait
  <2> DEFINE t == Head(calls).thr
  <2>1. /\ Head(calls).op = "ResumeFromWait" /\ UNCHANGED holding_thread
        /\ status' = status \/ status' = [status EXCEPT ![t] = "Ready"]
    BY <1>11 DEF ResumeFromWait, BecomeReady, Make, mutexVars
  <2>2. t \in Thread
    BY <1>1, <2>1, CallFields
  <2>3. \A u \in Thread : status'[u] # status[u] => status'[u] \notin Gone
    BY <2>1, <2>2 DEF TypeOK, Gone
  <2> QED
    BY <1>6, <1>8, <2>1, <2>3 DEF DeadInv
<1>12. CASE ReleaseThreadMutexes
  <2> DEFINE t == Head(calls).thr
  <2>1. /\ Head(calls).op = "ReleaseThreadMutexes" /\ UNCHANGED status
        /\ \/ \E m \in held_mutexes[t] :
                /\ holding_thread' = [holding_thread EXCEPT ![m] = None]
                /\ calls' = <<Wakeup(m)>> \o calls
           \/ /\ \A m \in held_mutexes[t] : holding_thread[m] # t
              /\ UNCHANGED holding_thread
    BY <1>12 DEF ReleaseThreadMutexes, Wakeup
  <2>2. t \in Thread /\ held_mutexes[t] \subseteq Mutex
    BY <1>1, <2>1, CallFields DEF TypeOK
  <2>3. \A u \in Thread : Head(calls) = Release(u) => u = t
    BY ReleaseCall
  <2>4. ASSUME NEW m \in held_mutexes[t],
               holding_thread' = [holding_thread EXCEPT ![m] = None],
               calls' = <<Wakeup(m)>> \o calls
        PROVE  HolderAlive'
    <3>1. Wakeup(m) \in Call
      BY <2>2, NamesAreCalls DEF Object
    <3>2. \A l : In(l, calls) => In(l, calls')
      BY <1>1, <2>4, <3>1, PrependMembers
    <3>3. \A n \in Mutex : holding_thread'[n] = holding_thread[n] \/ holding_thread'[n] = None
      BY <2>4 DEF TypeOK
    <3> QED
      BY <2>1, <3>2, <3>3, ObjectAssumption DEF DeadInv, HolderAlive
  <2>5. ASSUME \A m \in held_mutexes[t] : holding_thread[m] # t, UNCHANGED holding_thread
        PROVE  HolderAlive'
    <3>1. \A m \in Mutex : holding_thread[m] # t
      BY <2>2, <2>5 DEF MutexInv, HolderListsMutex
    <3> QED
      BY <1>7, <2>1, <2>3, <2>5, <3>1 DEF DeadInv, HolderAlive
  <2> QED
    BY <1>6, <2>1, <2>4, <2>5 DEF DeadInv
<1>13. CASE ~ (Acquire \/ Stop \/ ResumeFromWait \/ ReleaseThreadMutexes)
  <2>1. UNCHANGED <<status, holding_thread>> /\ Head(calls).op # "ReleaseThreadMutexes"
    <3>1. CASE AddWaitingThread \/ RemoveWaitingThread
      BY <3>1 DEF AddWaitingThread, RemoveWaitingThread, ChangeWaiters, Make
    <3> QED
      BY <1>13, <3>1
      DEF CallStep, WakeupThread, WakeupDone, ClearWaitObjects, RescheduleTimer,
          TerminateProcessThreads, UpdateMutexes, mutexVars, Make
  <2> QED
    BY <1>6, <1>8, <2>1 DEF DeadInv
<1> QED
  BY <1>9, <1>10, <1>11, <1>12, <1>13

\* What a step outside a handler does to the statuses: no thread dies.
LEMMA StartStatus ==
  ASSUME TypeOK, SchedulerInv, Next, ~ CallStep, NEW u \in Thread, status'[u] # status[u]
  PROVE  status[u] \in {"Running", "Ready", "Dormant"} /\ status'[u] \notin Gone
PROOF
<1>1. ASSUME NEW t \in Thread, status[t] \in {"Running", "Dormant"},
             NEW st \in Waiting \cup {"Ready"}, status' = [status EXCEPT ![t] = st]
      PROVE  status[u] \in {"Running", "Ready", "Dormant"} /\ status'[u] \notin Gone
  <2>1. u = t /\ status'[u] = st
    BY <1>1 DEF TypeOK
  <2> QED
    BY <1>1, <2>1 DEF Waiting, WaitSynch, Gone
<1>2. "WaitSleep" \in Waiting /\ WaitSynch \subseteq Waiting
  BY DEF Waiting
<1>3. ASSUME NEW c \in Core, NEW t \in Thread, SvcStep(c, t)
      PROVE  status[u] \in {"Running", "Ready", "Dormant"} /\ status'[u] \notin Gone
  <2>1. status[t] = "Running" /\ "WaitSynchAny" \in WaitSynch
          /\ "WaitSynchAll" \in WaitSynch /\ "WaitHleEvent" \in WaitSynch
    BY <1>3, SvcCaller DEF WaitSynch
  <2>2. CASE \E v \in Thread : \E p \in CreatePrios[v] : CreateThread(c, t, v, p)
    BY <1>1, <2>2 DEF CreateThread, CreateThreadWith, MakeReady
  <2>3. CASE \/ \E o \in WaitTargets[t], timed \in BOOLEAN :
                  WaitSynchronization1(c, t, o, timed)
             \/ \E objs \in WaitLists, timed \in BOOLEAN :
                  \/ WaitSynchronizationAll(c, t, objs, timed)
                  \/ WaitSynchronizationAny(c, t, objs, timed)
             \/ \E e \in Event, timed \in BOOLEAN : SleepClientThread(c, t, e, timed)
    <3>1. \/ \E st \in WaitSynch : status' = [status EXCEPT ![t] = st]
          \/ UNCHANGED status
      BY <2>1, <2>3
      DEF WaitSynchronization1, WaitSynchronizationAll, WaitSynchronizationAny,
          SleepClientThread, StartWait, AcquireNow
    <3> QED
      BY <1>1, <1>2, <2>1, <3>1
  <2>4. CASE \E forever \in BOOLEAN : SleepThread(c, t, forever)
    BY <1>1, <1>2, <2>1, <2>4 DEF SleepThread
  <2> QED
    BY <1>3, <2>2, <2>3, <2>4
    DEF SvcStep, ReleaseMutex, ReleaseSemaphore, ClearSignal, SetTimer, TimerSignal,
        SetSignaled, CancelTimer, SetThreadPriority, ControlProcess, ExitThread,
        TerminateProcess
<1>4. ASSUME NEW t \in Thread, NEW p, NEW delayed \in BOOLEAN, SetupMainThread(t, p, delayed)
      PROVE  status[u] \in {"Running", "Ready", "Dormant"} /\ status'[u] \notin Gone
  <2>1. /\ status[t] = "Dormant"
        /\ \E st \in Waiting \cup {"Ready"} : status' = [status EXCEPT ![t] = st]
    BY <1>2, <1>4 DEF SetupMainThread, CreateThreadWith, MakeReady
  <2> QED
    BY <1>1, <2>1
<1>5. CASE \E c \in Core : Reschedule(c)
  <2>1. status[u] \in {"Running", "Ready"} /\ status'[u] \in {"Running", "Ready"}
    BY <1>5, SwitchedThreads
  <2> QED
    BY <2>1 DEF Gone
<1> QED
  BY <1>3, <1>4, <1>5
  DEF Next, SignalEvent, SetSignaled, ThreadWakeupCallback, TimerCallback, TimerSignal

\* A handler starts with an Acquire only for its running caller.
LEMMA StartAcquires ==
  ASSUME TypeOK, Next, ~ CallStep, NEW o, NEW t \in Thread, In(AcquireOf(o, t), calls')
  PROVE  status[t] = "Running" /\ UNCHANGED status
PROOF
<1>1. calls = << >> /\ \A k : ~ In(k, << >>)
  BY StartQuiet DEF In
<1>2. AcquireOf(o, t).op = "Acquire" /\ AcquireOf(o, t).thr = t
  BY CallNames
<1>3. \A k : In(AcquireOf(o, t), <<k>>) => k = AcquireOf(o, t)
  BY DEF In
<1>4. \A s : ~ In(AcquireOf(o, t), <<Wakeup(s), Rearm(s)>>)
  <2>1. \A s, k : In(k, <<Wakeup(s), Rearm(s)>>) => k = Wakeup(s) \/ k = Rearm(s)
    BY DEF In
  <2> QED
    BY <2>1, CallNames
<1>5. ASSUME NEW u \in Thread, status[u] = "Running", NEW objs \in Seq(Object), NEW st,
             NEW timed, StartWait(u, objs, st, timed) \/ AcquireNow(u, objs)
      PROVE  status[t] = "Running" /\ UNCHANGED status
  <2>1. AcquireNow(u, objs)
    <3>1. CASE StartWait(u, objs, st, timed)
      <4>1. \E p : AcquireOf(o, t) = Add(p, u)
        BY <3>1, ForEachCalls DEF StartWait
      <4> QED
        BY <4>1, CallNames
    <3> QED
      BY <1>5, <3>1
  <2>2. \E p : AcquireOf(o, t) = AcquireOf(p, u)
    BY <2>1, ForEachCalls DEF AcquireNow
  <2>3. u = t
    BY <2>2, CallNames
  <2> QED
    BY <1>5, <2>1, <2>3 DEF AcquireNow
<1>6. ASSUME NEW c \in Core, NEW u \in Thread, SvcStep(c, u)
      PROVE  status[t] = "Running" /\ UNCHANGED status
  <2>1. status[u] = "Running"
    BY <1>6, SvcCaller
  <2>2. ASSUME NEW p \in WaitTargets[u], NEW timed, WaitSynchronization1(c, u, p, timed)
        PROVE  status[t] = "Running" /\ UNCHANGED status
    <3>1. <<p>> \in Seq(Object)
      BY InputAssumption
    <3> QED
      BY <1>5, <2>1, <2>2, <3>1 DEF WaitSynchronization1
  <2>3. ASSUME NEW objs \in WaitLists, NEW timed,
               WaitSynchronizationAll(c, u, objs, timed)
                 \/ WaitSynchronizationAny(c, u, objs, timed)
        PROVE  status[t] = "Running" /\ UNCHANGED status
    <3>1. objs \in Seq(Object)
      BY InputAssumption
    <3>2. \A i \in 1 .. Len(objs) : <<objs[i]>> \in Seq(Object)
      BY <3>1
    <3> QED
      BY <1>5, <2>1, <2>3, <3>1, <3>2 DEF WaitSynchronizationAll, WaitSynchronizationAny
  <2>4. ASSUME NEW e \in Event, NEW timed, SleepClientThread(c, u, e, timed)
        PROVE  status[t] = "Running" /\ UNCHANGED status
    <3>1. <<e>> \in Seq(Object)
      BY DEF Object, Signal
    <3> QED
      BY <1>5, <2>1, <2>4, <3>1 DEF SleepClientThread
  <2>5. CASE \/ \E v \in Thread : \E p \in CreatePrios[v] : CreateThread(c, u, v, p)
             \/ \E forever \in BOOLEAN : SleepThread(c, u, forever)
             \/ \E s \in Signal : ClearSignal(c, u, s)
             \/ \E s \in Timer : CancelTimer(c, u, s)
             \/ \E p \in Process, allow \in BOOLEAN : ControlProcess(c, u, p, allow)
    <3>1. calls' = << >>
      BY <1>1, <2>5 DEF CreateThread, CreateThreadWith, SleepThread, ClearSignal,
                        SetSignaled, CancelTimer, ControlProcess
    <3> QED
      BY <1>1, <3>1
  <2>6. CASE \/ \E m \in Mutex : ReleaseMutex(c, u, m)
             \/ \E s \in Semaphore, n \in ReleaseCounts : ReleaseSemaphore(c, u, s, n)
             \/ \E s \in Timer, initial, interval \in {0, 1} :
                  SetTimer(c, u, s, initial, interval)
    <3>1. \/ calls' = << >> \/ \E s : calls' = <<Wakeup(s)>>
          \/ \E s : calls' = <<Wakeup(s), Rearm(s)>>
      BY <1>1, <2>6 DEF ReleaseMutex, LastRelease, ReleaseSemaphore, SetTimer, TimerSignal,
                        SetSignaled, Wakeup, Rearm
    <3> QED
      BY <1>1, <1>3, <1>4, <3>1, CallNames
  <2>7. ASSUME NEW v \in Thread, NEW p, SetThreadPriority(c, u, v, p) PROVE FALSE
    <3>1. calls' = <<[op |-> "UpdateMutexes", mutexes |-> pending_mutexes[v]]>>
      BY <2>7 DEF SetThreadPriority
    <3> QED
      BY <1>2, <1>3, <3>1
  <2>8. CASE ExitThread(c, u)
    <3>1. calls' = <<ThreadCall("Stop", u)>>
      BY <2>8 DEF ExitThread
    <3> QED
      BY <1>3, <3>1, CallNames
  <2>9. ASSUME NEW p \in Process, TerminateProcess(c, u, p) PROVE FALSE
    <3>1. calls' = [i \in 1 .. NumCores |->
                      [op |-> "TerminateProcessThreads", core |-> i - 1, process |-> p]]
      BY <2>9 DEF TerminateProcess
    <3>2. Len(calls') = NumCores
      BY <3>1, ParameterAssumption
    <3>3. \A i \in 1 .. NumCores : calls'[i].op = "TerminateProcessThreads"
      BY <3>1
    <3> QED
      BY <1>2, <3>2, <3>3 DEF In
  <2> QED
    BY <1>6, <2>2, <2>3, <2>4, <2>5, <2>6, <2>7, <2>8, <2>9 DEF SvcStep
<1>7. CASE \/ \E u \in Thread : \E p \in CreatePrios[u], delayed \in BOOLEAN :
                SetupMainThread(u, p, delayed)
           \/ \E c \in Core : Reschedule(c)
  BY <1>1, <1>7 DEF SetupMainThread, CreateThreadWith, Reschedule
<1>8. ASSUME NEW e \in Event, SignalEvent(e) PROVE FALSE
  <2>1. calls' = <<Wakeup(e)>>
    BY <1>8 DEF SignalEvent, SetSignaled, Wakeup
  <2> QED
    BY <1>3, <2>1, CallNames
<1>9. ASSUME NEW u \in Thread, ThreadWakeupCallback(u) PROVE FALSE
  <2>1. In(AcquireOf(o, t), TimeoutCalls(u))
    BY <1>9 DEF ThreadWakeupCallback
  <2>2. \/ \E p : AcquireOf(o, t) = Remove(p, u)
        \/ AcquireOf(o, t) = Clear(u) \/ AcquireOf(o, t) = Resume(u)
    BY <2>1, TimeoutBody
  <2> QED
    BY <2>2, CallNames
<1>10. ASSUME NEW s \in Timer, TimerCallback(s) PROVE FALSE
  <2>1. calls' = <<Wakeup(s), Rearm(s)>>
    BY <1>10 DEF TimerCallback, TimerSignal, SetSignaled, Wakeup, Rearm
  <2> QED
    BY <1>4, <2>1
<1> QED
  BY <1>6, <1>7, <1>8, <1>9, <1>10 DEF Next

\* A step outside a handler gives no mutex to any thread.
LEMMA StartHolders ==
  ASSUME TypeOK, Next, ~ CallStep, NEW m \in Mutex
  PROVE  holding_thread'[m] = holding_thread[m] \/ holding_thread'[m] = None
PROOF
<1>1. ASSUME NEW c \in Core, NEW t \in Thread, SvcStep(c, t)
      PROVE  holding_thread'[m] = holding_thread[m] \/ holding_thread'[m] = None
  <2>1. CASE \E n \in Mutex : ReleaseMutex(c, t, n)
    BY <2>1 DEF ReleaseMutex, LastRelease, TypeOK
  <2> QED
    BY <1>1, <2>1
    DEF SvcStep, CreateThread, CreateThreadWith, WaitSynchronization1,
        WaitSynchronizationAll, WaitSynchronizationAny, SleepClientThread, StartWait,
        AcquireNow, SleepThread, ReleaseSemaphore, ClearSignal, SetTimer, TimerSignal,
        SetSignaled, CancelTimer, SetThreadPriority, ControlProcess, ExitThread,
        TerminateProcess, mutexVars
<1> QED
  BY <1>1
  DEF Next, SetupMainThread, CreateThreadWith, SignalEvent, SetSignaled,
      ThreadWakeupCallback, TimerCallback, TimerSignal, Reschedule, mutexVars

\* Every step keeps mutexes away from dead threads.
LEMMA DeadInvNext ==
  ASSUME KernelInv, MutexInv, DeadInv, [Next]_vars
  PROVE  DeadInv'
PROOF
<1> TypeOK /\ SchedulerInv /\ ShapeInv /\ WaitInv
  BY DEF KernelInv
<1>1. CASE UNCHANGED vars
  BY <1>1 DEF vars, mutexVars, DeadInv, HolderAlive, AcquiredByLive
<1>2. CASE CallStep
  BY <1>2, CallStepDeadInv
<1>3. CASE Next /\ ~ CallStep
  <2>1. calls = << >> /\ \A k : ~ In(k, calls)
    BY <1>3, StartQuiet, QuietNoRelease
  <2>2. HolderAlive'
    <3> SUFFICES ASSUME NEW m \in Mutex, NEW t \in Thread, holding_thread'[m] = t
                 PROVE  status'[t] \notin Gone
      BY DEF HolderAlive, Gone
    <3>1. holding_thread[m] = t
      BY <1>3, StartHolders, ObjectAssumption
    <3>2. status[t] \notin Gone
      BY <2>1, <3>1 DEF DeadInv, HolderAlive, Gone
    <3> QED
      BY <1>3, <3>2, StartStatus
  <2>3. AcquiredByLive'
    BY <1>3, StartAcquires DEF AcquiredByLive, Gone
  <2> QED
    BY <2>2, <2>3 DEF DeadInv
<1> QED
  BY <1>1, <1>2, <1>3

OwnerInv == KernelInv /\ MutexInv /\ DeadInv

\* No reachable state has a mutex of a dead thread that is not being freed.
LEMMA OwnerInvariant == Spec => []OwnerInv
PROOF
<1>1. Init => DeadInv
  BY ObjectAssumption DEF Init, DeadInv, HolderAlive, AcquiredByLive, In
<1>2. KernelInv /\ MutexInv /\ DeadInv /\ [Next]_vars => DeadInv'
  BY DeadInvNext
<1> QED
  BY <1>1, <1>2, KernelInvariant, MutexInvariant, PTL DEF Spec, OwnerInv

\* Between handlers no mutex is held by a stopped thread or by one that was never
\* created: whatever wake-ups, timeouts and terminations interleave, a mutex is
\* freed with its holder and never handed to a thread on its way out.
THEOREM NoDeadHolderHolds == Spec => []NoDeadHolder
PROOF
<1>1. OwnerInv => NoDeadHolder
  BY QuietNoRelease DEF OwnerInv, DeadInv, HolderAlive, NoDeadHolder, Quiet
<1> QED
  BY <1>1, OwnerInvariant, PTL

-----------------------------------------------------------------------------
(***************************************************************************)
(* Priority inheritance.  At every point of every handler, a live thread    *)
(* has the best of its nominal priority and of the priorities of the        *)
(* mutexes it lists.  A mutex that a live thread lists is its own, so the   *)
(* priority of a mutex changes only with that of the one thread it boosts.  *)
(***************************************************************************)
Inherited(t) == InheritedPriority(nominal_priority[t], held_mutexes[t], priority)

PrioInv == \A t \in Thread : status[t] # "Dead" => current_priority[t] = Inherited(t)

\* The inherited priority depends only on the priorities of the mutexes held.
LEMMA SameInherited ==
  ASSUME NEW n, NEW held, NEW p, NEW q, \A m \in held : p[m] = q[m]
  PROVE  InheritedPriority(n, held, p) = InheritedPriority(n, held, q)
PROOF
<1>1. {p[m] : m \in held} = {q[m] : m \in held}
  OBVIOUS
<1> QED
  BY <1>1 DEF InheritedPriority

\* A thread inherits nothing without a mutex.
LEMMA NothingInherited ==
  ASSUME NEW n \in Prio, NEW p
  PROVE  InheritedPriority(n, {}, p) = n
PROOF
<1>1. {n} \cup {p[m] : m \in {}} = {n}
  OBVIOUS
<1>2. Best({n}) \in {n}
  BY BestInSet
<1> QED
  BY <1>1, <1>2 DEF InheritedPriority

\* A mutex that a live thread lists is held by that thread.
LEMMA ListedByHolder ==
  ASSUME MutexInv, NEW t \in Thread, status[t] # "Dead", NEW m \in Mutex,
         m \in held_mutexes[t]
  PROVE  holding_thread[m] = t
PROOF
  BY DEF MutexInv, StaleOnlyInRelease, ReleaseOnlyOfDead

\* A thread keeps its inherited priority through a step that changes neither its
\* own priorities and mutexes nor the priority of a mutex it holds.
LEMMA SamePriority ==
  ASSUME PrioInv, NEW t \in Thread, status'[t] # "Dead" => status[t] # "Dead",
         current_priority'[t] = current_priority[t],
         nominal_priority'[t] = nominal_priority[t], held_mutexes'[t] = held_mutexes[t],
         status[t] # "Dead" => \A m \in held_mutexes[t] : priority'[m] = priority[m]
  PROVE  status'[t] # "Dead" => current_priority'[t] = Inherited(t)'
PROOF
<1> SUFFICES ASSUME status'[t] # "Dead" PROVE current_priority'[t] = Inherited(t)'
  OBVIOUS
<1>1. current_priority[t] = InheritedPriority(nominal_priority[t], held_mutexes[t], priority)
  BY DEF PrioInv, Inherited
<1>2. InheritedPriority(nominal_priority[t], held_mutexes[t], priority')
        = InheritedPriority(nominal_priority[t], held_mutexes[t], priority)
  BY SameInherited
<1> QED
  BY <1>1, <1>2 DEF Inherited

\* The dead stay dead.
LEMMA DeadStays ==
  ASSUME TypeOK, SchedulerInv, Next, NEW t \in Thread, status[t] = "Dead"
  PROVE  status'[t] = "Dead"
PROOF
<1>1. CASE ~ CallStep
  BY <1>1, StartStatus
<1>2. CASE AddWaitingThread \/ RemoveWaitingThread
  BY <1>2 DEF AddWaitingThread, RemoveWaitingThread, ChangeWaiters
<1>3. CASE Stop \/ ResumeFromWait
  BY <1>3 DEF Stop, ResumeFromWait, BecomeReady, Waiting, WaitSynch, TypeOK
<1> QED
  BY <1>1, <1>2, <1>3
  DEF CallStep, Acquire, WakeupThread, WakeupDone, ClearWaitObjects, RescheduleTimer,
      TerminateProcessThreads, UpdateMutexes, ReleaseThreadMutexes

\* Mutex::UpdatePriority changes the priority of a mutex and, with it, that of the
\* mutex's holder: the holder's is inherited again, and no other thread lists the
\* mutex.
LEMMA MutexUpdateInherited ==
  ASSUME TypeOK, MutexInv, PrioInv, NEW m \in Mutex, NEW waiters,
         MutexUpdatePriority(m, waiters),
         UNCHANGED <<status, nominal_priority, held_mutexes, holding_thread>>
  PROVE  PrioInv'
PROOF
<1>1. CASE UNCHANGED <<priority, current_priority>>
  BY <1>1, SamePriority DEF PrioInv
<1> DEFINE h == holding_thread[m]
<1>2. CASE ~ UNCHANGED <<priority, current_priority>>
  <2>1. /\ h # None
        /\ priority' = [priority EXCEPT ![m] = WaitersPriority(waiters)]
        /\ current_priority' = [current_priority EXCEPT ![h] =
             InheritedPriority(nominal_priority[h], held_mutexes[h], priority')]
    BY <1>2 DEF MutexUpdatePriority, ThreadUpdatePriority, BoostPriority
  <2>2. h \in Thread
    BY <2>1 DEF TypeOK
  <2> HIDE DEF h
  <2>3. current_priority'[h]
          = InheritedPriority(nominal_priority'[h], held_mutexes'[h], priority')
    BY <2>1, <2>2 DEF TypeOK
  <2>4. ASSUME NEW t \in Thread, t # h
        PROVE  status'[t] # "Dead" => current_priority'[t] = Inherited(t)'
    <3>1. current_priority'[t] = current_priority[t]
      BY <2>1, <2>2, <2>4 DEF TypeOK
    <3>2. status[t] # "Dead" => m \notin held_mutexes[t]
      BY <2>4, ListedByHolder DEF h
    <3>3. status[t] # "Dead" => \A n \in held_mutexes[t] : priority'[n] = priority[n]
      BY <2>1, <3>2 DEF TypeOK
    <3> QED
      BY <3>1, <3>3, SamePriority
  <2> QED
    BY <2>3, <2>4 DEF PrioInv, Inherited
<1> QED
  BY <1>1, <1>2

\* Every call of a handler keeps the inherited priorities.
LEMMA CallStepPrioInv ==
  ASSUME TypeOK, SchedulerInv, MutexInv, PrioInv, CallStep
  PROVE  PrioInv'
PROOF
<1>1. \A t \in Thread : status'[t] # "Dead" => status[t] # "Dead"
  BY DeadStays DEF Next
<1>2. ASSUME UNCHANGED <<prioVars, held_mutexes, priority>>
      PROVE  PrioInv'
  BY <1>1, <1>2, SamePriority DEF PrioInv, prioVars
<1>3. calls # << >> /\ Head(calls) \in Call
  BY StackStep
<1>4. CASE Acquire
  <2> DEFINE o == Head(calls).obj
             t == Head(calls).thr
  <2>1. CASE o \in Mutex /\ AcquireFreeMutex(o, t)
    <3>1. /\ lock_count[o] = 0
          /\ held_mutexes' = [held_mutexes EXCEPT ![t] = @ \cup {o}]
          /\ priority' = [priority EXCEPT ![o] = current_priority[t]]
          /\ current_priority' = [current_priority EXCEPT ![t] =
               InheritedPriority(nominal_priority[t], held_mutexes'[t], priority')]
          /\ UNCHANGED <<status, nominal_priority>>
      BY <1>4, <2>1 DEF Acquire, AcquireFreeMutex, ThreadUpdatePriority, BoostPriority
    <3>2. t \in Thread
      BY <1>3, <1>4, CallFields DEF Acquire, Make
    <3>3. holding_thread[o] = None
      BY <2>1, <3>1 DEF MutexInv, LockedIffHeld
    <3> HIDE DEF o, t
    <3>4. current_priority'[t]
            = InheritedPriority(nominal_priority'[t], held_mutexes'[t], priority')
      BY <3>1, <3>2 DEF TypeOK
    <3>5. ASSUME NEW u \in Thread, u # t
          PROVE  status'[u] # "Dead" => current_priority'[u] = Inherited(u)'
      <4>1. current_priority'[u] = current_priority[u] /\ held_mutexes'[u] = held_mutexes[u]
        BY <3>1, <3>2, <3>5 DEF TypeOK
      <4>2. status[u] # "Dead" => o \notin held_mutexes[u]
        BY <2>1, <3>3, ListedByHolder, ObjectAssumption
      <4>3. status[u] # "Dead" => \A n \in held_mutexes[u] : priority'[n] = priority[n]
        BY <3>1, <4>2 DEF TypeOK
      <4> QED
        BY <3>1, <4>1, <4>3, SamePriority
    <3> QED
      BY <3>4, <3>5 DEF PrioInv, Inherited
  <2>2. CASE ~ (o \in Mutex /\ AcquireFreeMutex(o, t))
    <3>1. UNCHANGED <<prioVars, held_mutexes, priority>>
      BY <1>4, <2>2 DEF Acquire, AcquireHeldMutex, AcquireSemaphore, AcquireSignal,
                        AcquireThread, mutexVars, prioVars
    <3> QED
      BY <1>2, <3>1
  <2> QED
    BY <2>1, <2>2
<1>5. CASE AddWaitingThread \/ RemoveWaitingThread
  <2> DEFINE o == Head(calls).obj
  <2>1. PICK waiters :
             /\ IF o \in Mutex THEN MutexUpdatePriority(o, waiters)
                ELSE UNCHANGED <<priority, current_priority>>
             /\ UNCHANGED <<status, nominal_priority, held_mutexes, holding_thread>>
    BY <1>5 DEF AddWaitingThread, RemoveWaitingThread, ChangeWaiters
  <2>2. CASE o \in Mutex
    BY <2>1, <2>2, MutexUpdateInherited
  <2>3. CASE o \notin Mutex
    BY <1>2, <2>1, <2>3 DEF prioVars
  <2> QED
    BY <2>2, <2>3
<1>6. CASE UpdateMutexes
  <2> DEFINE ms == Head(calls).mutexes
  <2>1. ms \in SUBSET Mutex
    BY <1>3, <1>6, CallFields DEF UpdateMutexes
  <2>2. /\ \/ \E m \in ms : MutexUpdatePriority(m, waiting_threads[m])
           \/ UNCHANGED <<priority, current_priority>>
        /\ UNCHANGED <<status, nominal_priority, held_mutexes, holding_thread>>
    BY <1>6 DEF UpdateMutexes
  <2> HIDE DEF ms
  <2> QED
    BY <1>2, <2>1, <2>2, MutexUpdateInherited DEF prioVars
<1>7. CASE ReleaseThreadMutexes
  <2> DEFINE t == Head(calls).thr
  <2>1. /\ Head(calls).op = "ReleaseThreadMutexes"
        /\ UNCHANGED <<status, current_priority, nominal_priority, priority>>
        /\ held_mutexes' = held_mutexes \/ held_mutexes' = [held_mutexes EXCEPT ![t] = {}]
    BY <1>7 DEF ReleaseThreadMutexes, ForgetMutexes, prioVars
  <2>2. t \in Thread /\ Head(calls) = Release(t)
    BY <1>3, <2>1, CallFields DEF Call, Release, ThreadCall
  <2>3. In(Release(t), calls)
    BY <1>3, <2>2, TailMembers DEF TypeOK
  <2>4. status[t] = "Dead"
    BY <2>2, <2>3 DEF MutexInv, ReleaseOnlyOfDead
  <2> HIDE DEF t
  <2>5. \A u \in Thread : u # t => held_mutexes'[u] = held_mutexes[u]
    BY <2>1, <2>2 DEF TypeOK
  <2> QED
    BY <2>1, <2>4, <2>5, SamePriority DEF PrioInv
<1>8. CASE ~ (Acquire \/ AddWaitingThread \/ RemoveWaitingThread \/ UpdateMutexes
                \/ ReleaseThreadMutexes)
  <2>1. UNCHANGED <<prioVars, held_mutexes, priority>>
    BY <1>8 DEF CallStep, WakeupThread, WakeupDone, ClearWaitObjects, ResumeFromWait,
                Stop, TerminateProcessThreads, RescheduleTimer, mutexVars
  <2> QED
    BY <1>2, <2>1
<1> QED
  BY <1>4, <1>5, <1>6, <1>7, <1>8

\* A step outside a handler changes priorities only where a thread is created,
\* releases a mutex or is given a priority, and then inherits them again.
LEMMA StartPrioInv ==
  ASSUME OwnerInv, PrioInv, Next, ~ CallStep
  PROVE  PrioInv'
PROOF
<1> TypeOK /\ SchedulerInv /\ MutexInv /\ DeadInv
  BY DEF OwnerInv, KernelInv
<1>1. \A t \in Thread : status'[t] # "Dead" => status[t] # "Dead"
  BY DeadStays
<1>2. ASSUME UNCHANGED <<prioVars, held_mutexes, priority>>
      PROVE  PrioInv'
  BY <1>1, <1>2, SamePriority DEF PrioInv, prioVars
<1>3. calls = << >> /\ \A k : ~ In(k, calls)
  BY StartQuiet, QuietNoRelease
<1>4. ASSUME NEW t \in Thread, NEW n, NEW held, UNCHANGED priority,
             nominal_priority' = [nominal_priority EXCEPT ![t] = n],
             held_mutexes' = [held_mutexes EXCEPT ![t] = held],
             current_priority' = [current_priority EXCEPT ![t] =
                                    InheritedPriority(n, held, priority)]
      PROVE  PrioInv'
  <2>1. current_priority'[t]
          = InheritedPriority(nominal_priority'[t], held_mutexes'[t], priority')
    BY <1>4 DEF TypeOK
  <2>2. ASSUME NEW u \in Thread, u # t
        PROVE  status'[u] # "Dead" => current_priority'[u] = Inherited(u)'
    <3>1. /\ current_priority'[u] = current_priority[u] /\ held_mutexes'[u] = held_mutexes[u]
          /\ nominal_priority'[u] = nominal_priority[u]
      BY <1>4, <2>2 DEF TypeOK
    <3> QED
      BY <1>1, <1>4, <3>1, SamePriority
  <2> QED
    BY <2>1, <2>2 DEF PrioInv, Inherited
<1>5. \A t \in Thread : held_mutexes = [held_mutexes EXCEPT ![t] = held_mutexes[t]]
  BY DEF TypeOK
<1>6. ASSUME NEW t \in Thread, NEW p \in Prio, CreateThreadWith(t, p)
      PROVE  PrioInv'
  <2>1. /\ status[t] = "Dormant" /\ UNCHANGED <<held_mutexes, priority>>
        /\ nominal_priority' = [nominal_priority EXCEPT ![t] = p]
        /\ current_priority' = [current_priority EXCEPT ![t] = p]
    BY <1>6 DEF CreateThreadWith, mutexVars
  <2>2. held_mutexes[t] = {}
    <3>1. ASSUME NEW m \in held_mutexes[t] PROVE FALSE
      <4>1. m \in Mutex /\ holding_thread[m] = t
        BY <2>1, ListedByHolder DEF TypeOK
      <4> QED
        BY <2>1, <4>1 DEF DeadInv, HolderAlive
    <3> QED
      BY <3>1
  <2>3. InheritedPriority(p, {}, priority) = p
    BY NothingInherited
  <2> QED
    BY <1>4, <1>5, <2>1, <2>2, <2>3
<1>7. ASSUME NEW c \in Core, NEW t \in Thread, NEW m \in Mutex, ReleaseMutex(c, t, m)
      PROVE  PrioInv'
  <2>1. nominal_priority = [nominal_priority EXCEPT ![t] = nominal_priority[t]]
    BY DEF TypeOK
  <2>2. CASE lock_count[m] = 1
    <3>1. /\ UNCHANGED <<nominal_priority, priority>>
          /\ held_mutexes' = [held_mutexes EXCEPT ![t] = held_mutexes[t] \ {m}]
          /\ current_priority' = [current_priority EXCEPT ![t] =
               InheritedPriority(nominal_priority[t], held_mutexes'[t], priority)]
      BY <1>7, <2>2 DEF ReleaseMutex, LastRelease, ThreadUpdatePriority, BoostPriority
    <3>2. held_mutexes'[t] = held_mutexes[t] \ {m}
      BY <3>1 DEF TypeOK
    <3> QED
      BY <1>4, <2>1, <3>1, <3>2
  <2>3. CASE lock_count[m] # 1
    <3>1. UNCHANGED <<prioVars, held_mutexes, priority>>
      BY <1>7, <2>3 DEF ReleaseMutex, prioVars
    <3> QED
      BY <1>2, <3>1
  <2> QED
    BY <2>2, <2>3
<1>8. ASSUME NEW c \in Core, NEW t \in Thread, NEW u \in Thread, NEW p,
             SetThreadPriority(c, t, u, p)
      PROVE  PrioInv'
  <2>1. /\ UNCHANGED <<held_mutexes, priority>>
        /\ nominal_priority' = [nominal_priority EXCEPT ![u] = p]
        /\ current_priority' = [current_priority EXCEPT ![u] =
             InheritedPriority(p, held_mutexes[u], priority)]
    BY <1>8 DEF SetThreadPriority, BoostPriority, mutexVars
  <2> QED
    BY <1>4, <1>5, <2>1
<1>9. ASSUME NEW c \in Core, NEW t \in Thread, SvcStep(c, t)
      PROVE  PrioInv'
  <2>1. CASE \E u \in Thread : \E p \in CreatePrios[u] : CreateThread(c, t, u, p)
    <3>1. \A u \in Thread : CreatePrios[u] \subseteq Prio
      BY InputAssumption
    <3> QED
      BY <1>6, <2>1, <3>1 DEF CreateThread
  <2>2. CASE \E m \in Mutex : ReleaseMutex(c, t, m)
    BY <1>7, <2>2
  <2>3. CASE \E u \in Thread, p \in SetPrios : SetThreadPriority(c, t, u, p)
    BY <1>8, <2>3
  <2>4. CASE ~ (\/ \E u \in Thread : \E p \in CreatePrios[u] : CreateThread(c, t, u, p)
                \/ \E m \in Mutex : ReleaseMutex(c, t, m)
                \/ \E u \in Thread, p \in SetPrios : SetThreadPriority(c, t, u, p))
    <3>1. UNCHANGED <<prioVars, mutexVars>>
      BY <1>9, <2>4
      DEF SvcStep, WaitSynchronization1, WaitSynchronizationAll, WaitSynchronizationAny,
          SleepClientThread, StartWait, AcquireNow, SleepThread, ReleaseSemaphore,
          ClearSignal, SetTimer, TimerSignal, SetSignaled, CancelTimer, ControlProcess,
          ExitThread, TerminateProcess
    <3> QED
      BY <1>2, <3>1 DEF mutexVars
  <2> QED
    BY <2>1, <2>2, <2>3, <2>4
<1>10. CASE \E t \in Thread : \E p \in CreatePrios[t], delayed \in BOOLEAN :
              SetupMainThread(t, p, delayed)
  <2>1. \A t \in Thread : CreatePrios[t] \subseteq Prio
    BY InputAssumption
  <2> QED
    BY <1>6, <1>10, <2>1 DEF SetupMainThread
<1>11. CASE \/ \E e \in Event : SignalEvent(e)
            \/ \E t \in Thread : ThreadWakeupCallback(t)
            \/ \E s \in Timer : TimerCallback(s)
            \/ \E c \in Core : Reschedule(c)
  BY <1>2, <1>11 DEF SignalEvent, SetSignaled, ThreadWakeupCallback, TimerCallback,
                     TimerSignal, Reschedule, mutexVars
<1> QED
  BY <1>9, <1>10, <1>11 DEF Next

\* In every reachable state a live thread has its inherited priority.
LEMMA PrioInvariant == Spec => [](OwnerInv /\ PrioInv)
PROOF
<1>1. Init => PrioInv
  <2>1. ThreadPrioLowest \in Prio
    BY ParameterAssumption DEF Prio
  <2> QED
    BY <2>1, NothingInherited DEF Init, PrioInv, Inherited
<1>2. OwnerInv /\ PrioInv /\ [Next]_vars => PrioInv'
  <2> SUFFICES ASSUME OwnerInv, PrioInv, [Next]_vars PROVE PrioInv'
    OBVIOUS
  <2>1. CASE UNCHANGED vars
    BY <2>1 DEF vars, prioVars, mutexVars, PrioInv, Inherited
  <2>2. CASE CallStep
    BY <2>2, CallStepPrioInv DEF OwnerInv, KernelInv
  <2> QED
    BY <2>1, <2>2, StartPrioInv
<1> QED
  BY <1>1, <1>2, OwnerInvariant, PTL DEF Spec

\* Between handlers the current priority of a live thread is the best of its
\* nominal priority and of the priorities of the mutexes it holds: a boost ends
\* with the mutex that caused it, whatever releases, timeouts, priority changes and
\* terminations came between.
THEOREM PriorityFollowsHolds == Spec => []PriorityFollowsMutexes
PROOF
<1>1. PrioInv => PriorityFollowsMutexes
  BY DEF PrioInv, Inherited, PriorityFollowsMutexes
<1> QED
  BY <1>1, PrioInvariant, PTL

-----------------------------------------------------------------------------
(***************************************************************************)
(* No wake-up is lost: between handlers nobody sleeps on an object that     *)
(* could be acquired, for any threads, objects and wait lists.              *)
(*                                                                         *)
(* While a handler runs an object may be available with threads asleep on   *)
(* it.  The invariant says that then the object's WakeupAllWaitingThreads   *)
(* is still to come, or the thread is on its way to being resumed.  When    *)
(* that loop ends, every thread that waits for the object is in its waiting *)
(* list (module ThreadProofs) and was found not to be ready.                *)
(*                                                                         *)
(* From the same order of calls: the assertions inside the handlers hold    *)
(* when no thread waits for itself and no list names a one-shot event       *)
(* twice; and with one process a thread that is better than the running one *)
(* is never left ready without a reschedule.                                *)
(***************************************************************************)

Blocked(o, t) == ShouldWait(o, t) \/ In(Wakeup(o), calls)

\* What keeps thread t asleep.
Asleep(t) ==
  /\ status[t] \in {"WaitSynchAny", "WaitHleEvent"} =>
       \A o \in Object : In(o, wait_objects[t]) => Blocked(o, t)
  /\ status[t] = "WaitSynchAll" => \E o \in Object : In(o, wait_objects[t]) /\ Blocked(o, t)

WakeInv == \A t \in Thread : In(Resume(t), calls) \/ Asleep(t)

-----------------------------------------------------------------------------
\* ShouldWait stays true of an object whose state a step leaves alone, and of one
\* that only becomes less available.
LEMMA StillWaits ==
  ASSUME NEW o \in Object, NEW t \in Thread, ShouldWait(o, t),
         o \in Mutex => /\ lock_count[o] > 0 => lock_count'[o] > 0
                        /\ holding_thread'[o] = holding_thread[o],
         o \in Semaphore => (available_count[o] <= 0 => available_count'[o] <= 0),
         o \in Signal => (signaled'[o] => signaled[o]),
         o \in Thread => (status'[o] = "Dead" => status[o] = "Dead")
  PROVE  ShouldWait(o, t)'
PROOF
  BY DEF ShouldWait

\* A thread stays asleep through a step that does not touch its wait, keeps its
\* resumption pending and leaves its objects blocked.
LEMMA StaysAsleep ==
  ASSUME WakeInv, NEW t \in Thread,
         In(Resume(t), calls) => In(Resume(t), calls') \/ status'[t] \notin WaitSynch,
         status'[t] \in WaitSynch => status'[t] = status[t] /\ wait_objects'[t] = wait_objects[t],
         \A o \in Object : In(o, wait_objects[t]) /\ Blocked(o, t) => Blocked(o, t)'
  PROVE  In(Resume(t), calls') \/ Asleep(t)'
PROOF
<1>1. CASE status'[t] \notin WaitSynch
  BY <1>1 DEF Asleep, WaitSynch
<1>2. CASE status'[t] \in WaitSynch /\ ~ In(Resume(t), calls)
  <2>1. Asleep(t)
    BY <1>2 DEF WakeInv
  <2> QED
    BY <1>2, <2>1 DEF Asleep
<1> QED
  BY <1>1, <1>2

\* No call of a handler makes an object available without waking its waiters.
LEMMA CallStaysBlocked ==
  ASSUME TypeOK, CallStep, NEW o \in Object, NEW t \in Thread, ShouldWait(o, t)
  PROVE  ShouldWait(o, t)' \/ In(Wakeup(o), calls')
PROOF
<1>1. calls # << >> /\ calls \in Seq(Call) /\ Head(calls) \in Call /\ Tail(calls) \in Seq(Call)
  BY StackStep
<1> DEFINE p == Head(calls).obj
           u == Head(calls).thr
<1>2. ASSUME UNCHANGED <<status, lock_count, holding_thread, available_count>>,
             \A s \in Signal : signaled'[s] => signaled[s]
      PROVE  ShouldWait(o, t)'
  BY <1>2, StillWaits
<1>3. CASE Acquire
  <2>1. CASE p \in Mutex /\ AcquireFreeMutex(p, u)
    <3>1. /\ lock_count[p] = 0 /\ UNCHANGED <<status, signalVars>>
          /\ lock_count' = [lock_count EXCEPT ![p] = 1]
          /\ holding_thread' = [holding_thread EXCEPT ![p] = u]
      BY <1>3, <2>1 DEF Acquire, AcquireFreeMutex
    <3> HIDE DEF p, u
    <3>2. o # p
      BY <2>1, <3>1, ObjectAssumption DEF ShouldWait
    <3>3. o \in Mutex => lock_count'[o] = lock_count[o] /\ holding_thread'[o] = holding_thread[o]
      BY <3>1, <3>2 DEF TypeOK
    <3> QED
      BY <3>1, <3>3, StillWaits DEF signalVars
  <2>2. CASE p \in Mutex /\ AcquireHeldMutex(p)
    <3>1. /\ lock_count[p] # 0 /\ UNCHANGED <<status, signalVars, holding_thread>>
          /\ lock_count' = [lock_count EXCEPT ![p] = @ + 1]
      BY <1>3, <2>2 DEF Acquire, AcquireHeldMutex
    <3> HIDE DEF p, u
    <3>2. o \in Mutex => (lock_count[o] > 0 => lock_count'[o] > 0)
      BY <2>2, <3>1 DEF TypeOK
    <3> QED
      BY <3>1, <3>2, StillWaits DEF signalVars
  <2>3. CASE p \in Semaphore /\ AcquireSemaphore(p)
    <3>1. /\ UNCHANGED <<status, lock_count, holding_thread, signaled>>
          /\ available_count' = [available_count EXCEPT ![p] = IF @ <= 0 THEN @ ELSE @ - 1]
      BY <1>3, <2>3 DEF Acquire, AcquireSemaphore, mutexVars
    <3> HIDE DEF p, u
    <3>2. o \in Semaphore => (available_count[o] <= 0 => available_count'[o] <= 0)
      BY <2>3, <3>1 DEF TypeOK
    <3> QED
      BY <3>1, <3>2, StillWaits
  <2>4. CASE p \in Signal /\ AcquireSignal(p)
    <3>1. /\ UNCHANGED <<status, lock_count, holding_thread, available_count>>
          /\ signaled' = [signaled EXCEPT ![p] = @ /\ reset_type[p] # "OneShot"]
      BY <1>3, <2>4 DEF Acquire, AcquireSignal, mutexVars
    <3> HIDE DEF p, u
    <3>2. \A s \in Signal : signaled'[s] => signaled[s]
      BY <2>4, <3>1 DEF TypeOK
    <3> QED
      BY <1>2, <3>1, <3>2
  <2>5. CASE p \in Thread /\ AcquireThread
    BY <1>2, <1>3, <2>5 DEF Acquire, AcquireThread, mutexVars, signalVars
  <2> QED
    BY <1>3, <2>1, <2>2, <2>3, <2>4, <2>5 DEF Acquire
<1>4. CASE Stop
  <2>1. /\ Head(calls).op = "Stop" /\ calls' = StopCalls(u) \o Tail(calls)
        /\ status' = [status EXCEPT ![u] = "Dead"]
        /\ UNCHANGED <<lock_count, holding_thread, available_count, signaled>>
    BY <1>4 DEF Stop, Make, mutexVars, signalVars
  <2>2. u \in Thread
    BY <1>1, <2>1, CallFields
  <2>3. StopCalls(u) \in Seq(Call) /\ In(Wakeup(u), StopCalls(u))
    BY <2>2, StopBody
  <2>4. In(Wakeup(u), calls')
    BY <1>1, <2>1, <2>3, InConcat
  <2> HIDE DEF u
  <2>5. CASE o # u
    <3>1. o \in Thread => status'[o] = status[o]
      BY <2>1, <2>2, <2>5 DEF TypeOK
    <3> QED
      BY <2>1, <3>1, StillWaits
  <2> QED
    BY <2>4, <2>5
<1>5. CASE ReleaseThreadMutexes
  <2>1. CASE UNCHANGED <<lock_count, holding_thread>>
    BY <1>2, <1>5, <2>1 DEF ReleaseThreadMutexes, signalVars
  <2>2. ASSUME NEW m \in held_mutexes[u],
               lock_count' = [lock_count EXCEPT ![m] = 0],
               holding_thread' = [holding_thread EXCEPT ![m] = None],
               calls' = <<Wakeup(m)>> \o calls
        PROVE  ShouldWait(o, t)' \/ In(Wakeup(o), calls')
    <3>1. Head(calls).op = "ReleaseThreadMutexes" /\ UNCHANGED <<status, signalVars>>
      BY <1>5 DEF ReleaseThreadMutexes
    <3>2. u \in Thread
      BY <1>1, <3>1, CallFields
    <3> HIDE DEF u
    <3>3. m \in Mutex
      BY <3>2, <2>2 DEF TypeOK
    <3>4. Wakeup(m) \in Call
      BY <3>3, NamesAreCalls DEF Object
    <3>5. In(Wakeup(m), calls')
      BY <1>1, <2>2, <3>4, PrependMembers
    <3>6. o \in Mutex /\ o # m =>
            lock_count'[o] = lock_count[o] /\ holding_thread'[o] = holding_thread[o]
      BY <2>2, <3>3 DEF TypeOK
    <3>7. o # m => ShouldWait(o, t)'
      BY <3>1, <3>6, StillWaits DEF signalVars
    <3> QED
      BY <3>5, <3>7
  <2> QED
    BY <1>5, <2>1, <2>2 DEF ReleaseThreadMutexes, Wakeup
<1>6. CASE ResumeFromWait
  <2>1. /\ Head(calls).op = "ResumeFromWait"
        /\ status' = status \/ status' = [status EXCEPT ![u] = "Ready"]
        /\ UNCHANGED <<lock_count, holding_thread, available_count, signaled>>
    BY <1>6 DEF ResumeFromWait, BecomeReady, Make, mutexVars, signalVars
  <2>2. u \in Thread
    BY <1>1, <2>1, CallFields
  <2> HIDE DEF u
  <2>3. o \in Thread => (status'[o] = "Dead" => status[o] = "Dead")
    BY <2>1, <2>2 DEF TypeOK
  <2> QED
    BY <2>1, <2>3, StillWaits
<1>7. CASE WakeupDone
  <2>1. \A s \in Signal : signaled'[s] => signaled[s]
    BY <1>7 DEF WakeupDone
  <2> QED
    BY <1>2, <1>7, <2>1 DEF WakeupDone, mutexVars
<1>8. CASE AddWaitingThread \/ RemoveWaitingThread
  BY <1>2, <1>8 DEF AddWaitingThread, RemoveWaitingThread, ChangeWaiters, signalVars
<1>9. CASE WakeupThread \/ ClearWaitObjects \/ TerminateProcessThreads \/ UpdateMutexes
             \/ RescheduleTimer
  BY <1>2, <1>9 DEF WakeupThread, ClearWaitObjects, TerminateProcessThreads, UpdateMutexes,
                    RescheduleTimer, mutexVars, signalVars
<1> QED
  BY <1>3, <1>4, <1>5, <1>6, <1>7, <1>8, <1>9 DEF CallStep

\* When WakeupAllWaitingThreads has been through its list, every thread that waits
\* for the object is blocked by an object that cannot be acquired.
LEMMA WakeupDoneWakeInv ==
  ASSUME TypeOK, ShapeInv, WaitInv, WakeInv, WakeupDone
  PROVE  WakeInv'
PROOF
<1> DEFINE o == Head(calls).obj
<1>1. /\ calls # << >> /\ calls \in Seq(Call) /\ Head(calls) \in Call
      /\ Tail(calls) \in Seq(Call) /\ CallStep
  BY StackStep DEF CallStep
<1>2. /\ Head(calls).op = "WakeupAllWaitingThreads" /\ calls' = Tail(calls)
      /\ \A i \in 1 .. Len(waiting_threads[o]) : ~ CanWake(o, i)
      /\ UNCHANGED <<status, wait_objects>>
  BY <1>1 DEF WakeupDone, Make, waitVars
<1>3. o \in Object /\ Head(calls) = Wakeup(o)
  BY <1>1, <1>2, CallFields, CallOfOp
<1>4. \A l : In(l, calls) <=> In(l, calls') \/ l = Head(calls)
  BY <1>1, <1>2, TailMembers
<1>5. \A l : In(l, calls') => MayFollow(Head(calls), l)
  BY <1>1, <1>2, OrderedTail DEF ShapeInv
<1> HIDE DEF o
<1> SUFFICES ASSUME NEW t \in Thread PROVE In(Resume(t), calls') \/ Asleep(t)'
  BY DEF WakeInv
<1>6. In(Resume(t), calls) => In(Resume(t), calls')
  BY <1>3, <1>4, CallNames
<1>7. CASE ~ In(Resume(t), calls) /\ status[t] \in WaitSynch
  <2>1. Asleep(t)
    BY <1>7 DEF WakeInv
  <2>2. \A p \in Object : ShouldWait(p, t) => Blocked(p, t)'
    BY <1>1, CallStaysBlocked DEF Blocked
  <2>3. \A p \in Object : Blocked(p, t) => Blocked(p, t)' \/ p = o
    <3>1. \A p : Wakeup(p) = Wakeup(o) => p = o
      BY CallNames
    <3> QED
      BY <1>3, <1>4, <2>2, <3>1 DEF Blocked
  <2>4. ASSUME In(o, wait_objects[t])
        PROVE  \E i \in 1 .. Len(waiting_threads[o]) : waiting_threads[o][i] = t
    <3>1. In(t, waiting_threads[o]) \/ In(Add(o, t), calls) \/ In(Clear(t), calls)
      BY <1>3, <2>4 DEF WaitInv, WaitedIsListed
    <3>2. ~ In(Add(o, t), calls)
      BY <1>3, <1>4, <1>5, CallNames DEF MayFollow
    <3>3. ~ In(Clear(t), calls)
      <4>1. SUFFICES ASSUME In(Clear(t), calls) PROVE FALSE
        OBVIOUS
      <4>2. Followed(Clear(t), Resume(t), calls)
        BY <1>7 DEF WaitInv, ClearedIsResumed, WaitSynch
      <4>3. PICK i \in 1 .. Len(calls) : calls[i] = Clear(t)
        BY <4>1 DEF In
      <4>4. \A h \in i + 1 .. Len(calls) : h \in 1 .. Len(calls)
        BY <1>1, <4>3
      <4> QED
        BY <1>7, <4>2, <4>3, <4>4 DEF Followed, In
    <3> QED
      BY <3>1, <3>2, <3>3 DEF In
  <2>5. ASSUME In(o, wait_objects[t])
        PROVE  \/ ShouldWait(o, t)
               \/ /\ status[t] = "WaitSynchAll"
                  /\ \E p \in Object : In(p, wait_objects[t]) /\ ShouldWait(p, t)
    <3>1. PICK i \in 1 .. Len(waiting_threads[o]) : waiting_threads[o][i] = t
      BY <2>4, <2>5
    <3>2. \/ ShouldWait(o, t)
          \/ /\ status[t] = "WaitSynchAll"
             /\ \E j \in 1 .. Len(wait_objects[t]) : ShouldWait(wait_objects[t][j], t)
      BY <1>2, <3>1 DEF CanWake
    <3>3. wait_objects[t] \in Seq(Object)
      BY DEF TypeOK
    <3>4. \A j \in 1 .. Len(wait_objects[t]) :
            wait_objects[t][j] \in Object /\ In(wait_objects[t][j], wait_objects[t])
      BY <3>3 DEF In
    <3> QED
      BY <3>2, <3>4
  <2>6. CASE status[t] # "WaitSynchAll"
    <3>1. \A p \in Object : In(p, wait_objects[t]) => Blocked(p, t)
      BY <1>7, <2>1, <2>6 DEF Asleep, WaitSynch
    <3>2. \A p \in Object : In(p, wait_objects[t]) => Blocked(p, t)'
      BY <2>2, <2>3, <2>5, <2>6, <3>1
    <3> QED
      BY <1>2, <2>6, <3>2 DEF Asleep
  <2>7. CASE status[t] = "WaitSynchAll"
    <3>1. \E p \in Object : In(p, wait_objects[t]) /\ Blocked(p, t)'
      BY <1>3, <2>1, <2>2, <2>3, <2>5, <2>7 DEF Asleep
    <3> QED
      BY <1>2, <2>7, <3>1 DEF Asleep
  <2> QED
    BY <2>6, <2>7
<1> QED
  BY <1>2, <1>6, <1>7 DEF Asleep, WaitSynch

\* Every call of a handler keeps the sleeping threads blocked.
LEMMA CallStepWakeInv ==
  ASSUME TypeOK, ShapeInv, WaitInv, WakeInv, CallStep
  PROVE  WakeInv'
PROOF
<1>1. calls # << >> /\ calls \in Seq(Call) /\ Head(calls) \in Call /\ Tail(calls) \in Seq(Call)
  BY StackStep
<1>2. CASE WakeupDone
  BY <1>2, WakeupDoneWakeInv
<1>3. CASE ~ WakeupDone
  <2>1. \A o : In(Wakeup(o), calls) => In(Wakeup(o), calls')
    <3>1. CASE WakeupThread
      <4>1. \A k : In(k, calls) => In(k, calls')
        <5> DEFINE p == Head(calls).obj
        <5>1. Head(calls).op = "WakeupAllWaitingThreads"
          BY <3>1 DEF WakeupThread
        <5>2. p \in Object
          BY <1>1, <5>1, CallFields
        <5>3. PICK i \in 1 .. Len(waiting_threads[p]) :
                   calls' = WakeupCalls(p, waiting_threads[p][i]) \o calls
          BY <3>1 DEF WakeupThread
        <5>4. waiting_threads[p] \in Seq(Thread)
          BY <5>2 DEF TypeOK
        <5> HIDE DEF p
        <5>5. waiting_threads[p][i] \in Thread
          BY <5>3, <5>4
        <5> DEFINE w == WakeupCalls(p, waiting_threads[p][i])
        <5>6. w \in Seq(Call)
          BY <5>2, <5>5, WakeupBody
        <5> HIDE DEF w
        <5>7. calls' = w \o calls
          BY <5>3 DEF w
        <5> QED
          BY <1>1, <5>6, <5>7, InConcat
      <4> QED
        BY <4>1
    <3>2. CASE ~ WakeupThread
      <4>1. Head(calls).op # "WakeupAllWaitingThreads"
        BY <1>3, <3>2
        DEF CallStep, Acquire, AddWaitingThread, RemoveWaitingThread, ClearWaitObjects,
            ResumeFromWait, Stop, TerminateProcessThreads, ReleaseThreadMutexes,
            UpdateMutexes, RescheduleTimer, Make
      <4> QED
        BY <4>1, CallMembers, CallNames
    <3> QED
      BY <3>1, <3>2
  <2>2. \A o \in Object, t \in Thread : Blocked(o, t) => Blocked(o, t)'
    BY <2>1, CallStaysBlocked DEF Blocked
  <2>3. ASSUME NEW t \in Thread, UNCHANGED wait_objects,
               status'[t] = status[t] \/ status'[t] \notin WaitSynch,
               Head(calls) # Resume(t) \/ status'[t] \notin WaitSynch
        PROVE  In(Resume(t), calls') \/ Asleep(t)'
    <3>1. In(Resume(t), calls) => In(Resume(t), calls') \/ status'[t] \notin WaitSynch
      BY <2>3, CallMembers
    <3> QED
      BY <2>2, <2>3, <3>1, StaysAsleep
  <2>4. CASE ClearWaitObjects
    <3>1. /\ Head(calls).op = "ClearWaitObjects" /\ calls' = Tail(calls)
          /\ wait_objects' = [wait_objects EXCEPT ![Head(calls).thr] = << >>]
          /\ UNCHANGED status
      BY <1>1, <2>4 DEF ClearWaitObjects, Make
    <3>2. PICK u \in Thread : u = Head(calls).thr /\ Head(calls) = Clear(u)
      BY <1>1, <3>1, CallFields, CallOfOp
    <3>3. \A t \in Thread : In(Resume(t), calls) => In(Resume(t), calls')
      BY <3>2, CallMembers, CallNames
    <3>4. ASSUME NEW t \in Thread, t # u PROVE In(Resume(t), calls') \/ Asleep(t)'
      <4>1. wait_objects'[t] = wait_objects[t] /\ status'[t] = status[t]
        BY <3>1, <3>2, <3>4 DEF TypeOK
      <4> QED
        BY <2>2, <3>3, <4>1, StaysAsleep
    <3>5. In(Resume(u), calls') \/ status[u] = "Dead"
      <4>1. SUFFICES ASSUME status[u] # "Dead" PROVE In(Resume(u), calls')
        OBVIOUS
      <4>2. Followed(Clear(u), Resume(u), calls)
        BY <3>2, <4>1 DEF WaitInv, ClearedIsResumed
      <4>3. 1 \in 1 .. Len(calls) /\ calls[1] = Clear(u)
        BY <1>1, <3>2
      <4>4. PICK h \in 2 .. Len(calls) : calls[h] = Resume(u)
        BY <4>2, <4>3 DEF Followed
      <4>5. In(Resume(u), calls)
        BY <1>1, <4>4 DEF In
      <4> QED
        BY <3>2, <3>3, <4>5
    <3>6. status[u] = "Dead" => Asleep(u)'
      BY <3>1 DEF Asleep
    <3> QED
      BY <3>4, <3>5, <3>6 DEF WakeInv
  <2>5. CASE ResumeFromWait
    <3>1. /\ Head(calls).op = "ResumeFromWait" /\ UNCHANGED wait_objects
          /\ IF status[Head(calls).thr] \in Waiting \cup {"Dormant"}
             THEN status' = [status EXCEPT ![Head(calls).thr] = "Ready"]
             ELSE UNCHANGED status
      BY <2>5 DEF ResumeFromWait, BecomeReady, Make, waitVars
    <3>2. Head(calls).thr \in Thread
      BY <1>1, <3>1, CallFields
    <3>3. ASSUME NEW t \in Thread
          PROVE  /\ status'[t] = status[t] \/ status'[t] \notin WaitSynch
                 /\ Head(calls) # Resume(t) \/ status'[t] \notin WaitSynch
      BY <3>1, <3>2, CallNames DEF TypeOK, Waiting, WaitSynch
    <3> QED
      BY <2>3, <3>1, <3>3 DEF WakeInv
  <2>6. CASE Stop
    <3>1. /\ Head(calls).op = "Stop" /\ UNCHANGED wait_objects
          /\ status' = [status EXCEPT ![Head(calls).thr] = "Dead"]
      BY <2>6 DEF Stop, Make, waitVars
    <3>2. Head(calls).thr \in Thread
      BY <1>1, <3>1, CallFields
    <3>3. ASSUME NEW t \in Thread
          PROVE  /\ status'[t] = status[t] \/ status'[t] \notin WaitSynch
                 /\ Head(calls) # Resume(t)
      BY <3>1, <3>2, CallNames DEF TypeOK, WaitSynch
    <3> QED
      BY <2>3, <3>1, <3>3 DEF WakeInv
  <2>7. CASE ~ (ClearWaitObjects \/ ResumeFromWait \/ Stop)
    <3>1. UNCHANGED <<status, wait_objects>> /\ Head(calls).op # "ResumeFromWait"
      <4>1. CASE AddWaitingThread \/ RemoveWaitingThread
        BY <4>1 DEF AddWaitingThread, RemoveWaitingThread, ChangeWaiters, Make
      <4> QED
        BY <1>3, <2>7, <4>1
        DEF CallStep, Acquire, WakeupThread, TerminateProcessThreads, ReleaseThreadMutexes,
            UpdateMutexes, RescheduleTimer, Make, waitVars
    <3>2. \A t : Head(calls) # Resume(t)
      BY <3>1, CallNames
    <3> QED
      BY <2>3, <3>1, <3>2 DEF WakeInv
  <2> QED
    BY <2>4, <2>5, <2>6, <2>7
<1> QED
  BY <1>2, <1>3

\* A handler that makes an object available starts with waking its waiters.
LEMMA StartStaysBlocked ==
  ASSUME TypeOK, SchedulerInv, Next, ~ CallStep, NEW o \in Object, NEW t \in Thread,
         ShouldWait(o, t)
  PROVE  ShouldWait(o, t)' \/ In(Wakeup(o), calls')
PROOF
<1>1. o \in Thread => (status'[o] = "Dead" => status[o] = "Dead")
  BY StartStatus DEF Gone
<1>2. ASSUME UNCHANGED <<lock_count, holding_thread, available_count>>,
             \A s \in Signal : signaled'[s] => signaled[s]
      PROVE  ShouldWait(o, t)'
  BY <1>1, <1>2, StillWaits
<1>3. \A p, k : In(Wakeup(p), <<Wakeup(p)>>) /\ In(Wakeup(p), <<Wakeup(p), k>>)
  <2>1. \A p, k : /\ Len(<<Wakeup(p)>>) = 1 /\ <<Wakeup(p)>>[1] = Wakeup(p)
                  /\ Len(<<Wakeup(p), k>>) = 2 /\ <<Wakeup(p), k>>[1] = Wakeup(p)
    OBVIOUS
  <2> QED
    BY <2>1 DEF In
<1>4. ASSUME NEW s \in Signal, NEW v \in BOOLEAN, signaled' = [signaled EXCEPT ![s] = v],
             UNCHANGED <<lock_count, holding_thread, available_count>>,
             v => signaled[s] \/ In(Wakeup(s), calls')
      PROVE  ShouldWait(o, t)' \/ In(Wakeup(o), calls')
  <2>1. o \in Signal /\ ~ (o = s /\ v) => (signaled'[o] => signaled[o])
    BY <1>4 DEF TypeOK
  <2>2. CASE o = s /\ v
    <3>1. ~ signaled[s]
      BY <1>4, <2>2, ObjectAssumption DEF ShouldWait
    <3> QED
      BY <1>4, <2>2, <3>1
  <2> QED
    BY <1>1, <1>4, <2>1, <2>2, StillWaits
<1>5. ASSUME NEW s \in Timer, TimerSignal(s)
      PROVE  ShouldWait(o, t)' \/ In(Wakeup(o), calls')
  <2>1. /\ signaled' = [signaled EXCEPT ![s] = TRUE]
        /\ calls' = <<Wakeup(s), Rearm(s)>>
        /\ UNCHANGED <<lock_count, holding_thread, available_count>>
    BY <1>5 DEF TimerSignal, SetSignaled, Wakeup, Rearm, mutexVars
  <2> QED
    BY <1>3, <1>4, <2>1 DEF Signal
<1>6. ASSUME NEW c \in Core, NEW u \in Thread, NEW m \in Mutex, ReleaseMutex(c, u, m)
      PROVE  ShouldWait(o, t)' \/ In(Wakeup(o), calls')
  <2>1. /\ lock_count[m] > 0 /\ lock_count' = [lock_count EXCEPT ![m] = @ - 1]
        /\ UNCHANGED <<available_count, signaled>>
    BY <1>6 DEF ReleaseMutex, MayRelease, signalVars
  <2>2. CASE lock_count[m] = 1
    <3>1. /\ holding_thread' = [holding_thread EXCEPT ![m] = None]
          /\ calls' = <<Wakeup(m)>>
      BY <1>6, <2>2 DEF ReleaseMutex, LastRelease, Wakeup
    <3>2. o \in Mutex /\ o # m =>
            lock_count'[o] = lock_count[o] /\ holding_thread'[o] = holding_thread[o]
      BY <2>1, <3>1 DEF TypeOK
    <3>3. o # m => ShouldWait(o, t)'
      BY <1>1, <2>1, <3>2, StillWaits
    <3> QED
      BY <1>3, <3>1, <3>3
  <2>3. CASE lock_count[m] # 1
    <3>1. UNCHANGED holding_thread
      BY <1>6, <2>3 DEF ReleaseMutex
    <3>2. o \in Mutex => (lock_count[o] > 0 => lock_count'[o] > 0)
      BY <2>1, <2>3 DEF TypeOK
    <3> QED
      BY <1>1, <2>1, <3>1, <3>2, StillWaits
  <2> QED
    BY <2>2, <2>3
<1>7. ASSUME NEW c \in Core, NEW u \in Thread, NEW s \in Semaphore, NEW n,
             ReleaseSemaphore(c, u, s, n)
      PROVE  ShouldWait(o, t)' \/ In(Wakeup(o), calls')
  <2>1. /\ calls' = <<Wakeup(s)>> /\ UNCHANGED <<lock_count, holding_thread, signaled>>
        /\ available_count' = [available_count EXCEPT ![s] = Wrap(@ + n)]
    BY <1>7 DEF ReleaseSemaphore, Wakeup, mutexVars
  <2>2. o \in Semaphore /\ o # s => available_count'[o] = available_count[o]
    BY <2>1 DEF TypeOK
  <2>3. o # s => ShouldWait(o, t)'
    BY <1>1, <2>1, <2>2, StillWaits
  <2> QED
    BY <1>3, <2>1, <2>3
<1>8. ASSUME NEW c \in Core, NEW u \in Thread, NEW s \in Signal, ClearSignal(c, u, s)
      PROVE  ShouldWait(o, t)' \/ In(Wakeup(o), calls')
  <2>1. /\ signaled' = [signaled EXCEPT ![s] = FALSE]
        /\ UNCHANGED <<lock_count, holding_thread, available_count>>
    BY <1>8 DEF ClearSignal, SetSignaled, mutexVars
  <2> QED
    BY <1>4, <2>1
<1>9. ASSUME NEW c \in Core, NEW u \in Thread, NEW s \in Timer, NEW initial, NEW interval,
             SetTimer(c, u, s, initial, interval)
      PROVE  ShouldWait(o, t)' \/ In(Wakeup(o), calls')
  <2>1. CASE initial = 0
    BY <1>5, <1>9, <2>1 DEF SetTimer
  <2>2. CASE initial # 0
    <3>1. /\ signaled' = [signaled EXCEPT ![s] = signaled[s]]
          /\ UNCHANGED <<lock_count, holding_thread, available_count>>
      BY <1>9, <2>2 DEF SetTimer, SetSignaled, mutexVars
    <3>2. s \in Signal /\ signaled[s] \in BOOLEAN
      BY DEF TypeOK, Signal
    <3> QED
      BY <1>4, <3>1, <3>2
  <2> QED
    BY <2>1, <2>2
<1>10. ASSUME NEW c \in Core, NEW u \in Thread, SvcStep(c, u)
       PROVE  ShouldWait(o, t)' \/ In(Wakeup(o), calls')
  <2>1. CASE \/ \E m \in Mutex : ReleaseMutex(c, u, m)
             \/ \E s \in Semaphore, n \in ReleaseCounts : ReleaseSemaphore(c, u, s, n)
             \/ \E s \in Signal : ClearSignal(c, u, s)
             \/ \E s \in Timer, initial, interval \in {0, 1} :
                  SetTimer(c, u, s, initial, interval)
    BY <1>6, <1>7, <1>8, <1>9, <2>1
  <2>2. CASE ~ (\/ \E m \in Mutex : ReleaseMutex(c, u, m)
                \/ \E s \in Semaphore, n \in ReleaseCounts : ReleaseSemaphore(c, u, s, n)
                \/ \E s \in Signal : ClearSignal(c, u, s)
                \/ \E s \in Timer, initial, interval \in {0, 1} :
                     SetTimer(c, u, s, initial, interval))
    <3>1. UNCHANGED <<mutexVars, signalVars>>
             \/ UNCHANGED <<lock_count, holding_thread, signalVars>>
      BY <1>10, <2>2
      DEF SvcStep, CreateThread, CreateThreadWith, WaitSynchronization1,
          WaitSynchronizationAll, WaitSynchronizationAny, SleepClientThread, StartWait,
          AcquireNow, SleepThread, CancelTimer, SetThreadPriority, ControlProcess,
          ExitThread, TerminateProcess
    <3> QED
      BY <1>2, <3>1 DEF mutexVars, signalVars
  <2> QED
    BY <2>1, <2>2
<1>11. ASSUME NEW e \in Event, SignalEvent(e)
       PROVE  ShouldWait(o, t)' \/ In(Wakeup(o), calls')
  <2>1. /\ signaled' = [signaled EXCEPT ![e] = TRUE] /\ calls' = <<Wakeup(e)>>
        /\ UNCHANGED <<lock_count, holding_thread, available_count>>
    BY <1>11 DEF SignalEvent, SetSignaled, Wakeup, mutexVars
  <2> QED
    BY <1>3, <1>4, <2>1 DEF Signal
<1>12. CASE \E s \in Timer : TimerCallback(s)
  BY <1>5, <1>12 DEF TimerCallback
<1>13. CASE \/ \E u \in Thread : \E p \in CreatePrios[u], delayed \in BOOLEAN :
                 SetupMainThread(u, p, delayed)
            \/ \E u \in Thread : ThreadWakeupCallback(u)
            \/ \E c \in Core : Reschedule(c)
  BY <1>2, <1>13 DEF SetupMainThread, CreateThreadWith, ThreadWakeupCallback, Reschedule,
                     mutexVars, signalVars
<1> QED
  BY <1>10, <1>11, <1>12, <1>13 DEF Next

\* A thread blocks only on objects it was not given: on none of them for a wait-any
\* or a service wait, not on all of them for a wait-all.
LEMMA StartBlocks ==
  ASSUME TypeOK, SchedulerInv, Next, ~ CallStep, NEW t \in Thread, status'[t] \in WaitSynch
  PROVE  \/ status'[t] = status[t] /\ wait_objects'[t] = wait_objects[t]
         \/ /\ status'[t] # "WaitSynchAll"
            /\ \A o : In(o, wait_objects'[t]) => ShouldWait(o, t)
         \/ /\ status'[t] = "WaitSynchAll"
            /\ \E o \in Object : In(o, wait_objects'[t]) /\ ShouldWait(o, t)
PROOF
<1> DEFINE Goal == \/ status'[t] = status[t] /\ wait_objects'[t] = wait_objects[t]
                   \/ /\ status'[t] # "WaitSynchAll"
                      /\ \A o : In(o, wait_objects'[t]) => ShouldWait(o, t)
                   \/ /\ status'[t] = "WaitSynchAll"
                      /\ \E o \in Object : In(o, wait_objects'[t]) /\ ShouldWait(o, t)
<1> HIDE DEF Goal
<1>1. ASSUME NEW u \in Thread, NEW objs \in Seq(Object), NEW st, NEW timed,
             StartWait(u, objs, st, timed),
             \/ st # "WaitSynchAll" /\ \A i \in 1 .. Len(objs) : ShouldWait(objs[i], u)
             \/ st = "WaitSynchAll" /\ \E i \in 1 .. Len(objs) : ShouldWait(objs[i], u)
      PROVE  Goal
  <2>1. /\ status' = [status EXCEPT ![u] = st]
        /\ wait_objects' = [wait_objects EXCEPT ![u] = objs]
    BY <1>1 DEF StartWait
  <2>2. CASE t # u
    BY <2>1, <2>2 DEF TypeOK, Goal
  <2>3. CASE t = u
    <3>1. status'[t] = st /\ wait_objects'[t] = objs
      BY <2>1, <2>3 DEF TypeOK
    <3>2. \A i \in 1 .. Len(objs) : objs[i] \in Object /\ In(objs[i], objs)
      BY DEF In
    <3>3. ASSUME \A i \in 1 .. Len(objs) : ShouldWait(objs[i], u)
          PROVE  \A o : In(o, objs) => ShouldWait(o, t)
      BY <2>3, <3>3 DEF In
    <3> QED
      BY <1>1, <2>3, <3>1, <3>2, <3>3 DEF Goal
  <2> QED
    BY <2>2, <2>3
<1>2. ASSUME UNCHANGED <<status, wait_objects>> PROVE Goal
  BY <1>2 DEF Goal
<1>3. ASSUME NEW c \in Core, NEW u \in Thread, SvcStep(c, u) PROVE Goal
  <2>1. ASSUME NEW p \in WaitTargets[u], NEW timed, WaitSynchronization1(c, u, p, timed)
        PROVE  Goal
    <3>1. <<p>> \in Seq(Object) /\ Len(<<p>>) = 1 /\ <<p>>[1] = p
      BY InputAssumption
    <3>2. CASE StartWait(u, <<p>>, "WaitSynchAny", timed)
      <4>1. \A i \in 1 .. Len(<<p>>) : ShouldWait(<<p>>[i], u) \/ AcquireNow(u, <<p>>)
        BY <2>1, <3>1 DEF WaitSynchronization1
      <4>2. CASE AcquireNow(u, <<p>>)
        BY <1>2, <4>2 DEF AcquireNow, waitVars
      <4> QED
        BY <1>1, <3>1, <3>2, <4>1, <4>2
    <3> QED
      BY <1>2, <2>1, <3>2 DEF WaitSynchronization1, AcquireNow, waitVars
  <2>2. ASSUME NEW objs \in WaitLists, NEW timed,
               WaitSynchronizationAll(c, u, objs, timed)
                 \/ WaitSynchronizationAny(c, u, objs, timed)
        PROVE  Goal
    <3>1. objs \in Seq(Object)
      BY InputAssumption
    <3>2. CASE WaitSynchronizationAll(c, u, objs, timed)
      BY <1>1, <1>2, <3>1, <3>2 DEF WaitSynchronizationAll, AcquireNow, waitVars
    <3>3. CASE WaitSynchronizationAny(c, u, objs, timed)
      BY <1>1, <1>2, <3>1, <3>3 DEF WaitSynchronizationAny, AcquireNow, waitVars
    <3> QED
      BY <2>2, <3>2, <3>3
  <2>3. ASSUME NEW e \in Event, NEW timed, SleepClientThread(c, u, e, timed)
        PROVE  Goal
    <3>1. <<e>> \in Seq(Object) /\ Len(<<e>>) = 1 /\ <<e>>[1] = e /\ e \in Signal
      BY DEF Object, Signal
    <3>2. ShouldWait(e, u) /\ StartWait(u, <<e>>, "WaitHleEvent", timed)
      BY <2>3, <3>1 DEF SleepClientThread, ShouldWait
    <3> QED
      BY <1>1, <3>1, <3>2
  <2>4. CASE \/ \E v \in Thread : \E p \in CreatePrios[v] : CreateThread(c, u, v, p)
             \/ \E forever \in BOOLEAN : SleepThread(c, u, forever)
    <3>1. /\ UNCHANGED wait_objects
          /\ \/ \E v \in Thread : status' = [status EXCEPT ![v] = "Ready"]
             \/ status' = [status EXCEPT ![u] = "WaitSleep"]
      BY <2>4 DEF CreateThread, CreateThreadWith, MakeReady, SleepThread, waitVars
    <3>2. status'[t] = status[t]
      BY <3>1 DEF TypeOK, WaitSynch
    <3> QED
      BY <3>1, <3>2 DEF Goal
  <2>5. CASE \/ \E m \in Mutex : ReleaseMutex(c, u, m)
             \/ \E s \in Semaphore, n \in ReleaseCounts : ReleaseSemaphore(c, u, s, n)
             \/ \E s \in Signal : ClearSignal(c, u, s)
             \/ \E s \in Timer, initial, interval \in {0, 1} :
                  SetTimer(c, u, s, initial, interval)
             \/ \E s \in Timer : CancelTimer(c, u, s)
             \/ \E v \in Thread, p \in SetPrios : SetThreadPriority(c, u, v, p)
             \/ \E p \in Process, allow \in BOOLEAN : ControlProcess(c, u, p, allow)
             \/ ExitThread(c, u)
             \/ \E p \in Process : TerminateProcess(c, u, p)
    BY <1>2, <2>5
    DEF ReleaseMutex, ReleaseSemaphore, ClearSignal, SetTimer, TimerSignal, SetSignaled,
        CancelTimer, SetThreadPriority, ControlProcess, ExitThread, TerminateProcess, waitVars
  <2> QED
    BY <1>3, <2>1, <2>2, <2>3, <2>4, <2>5 DEF SvcStep
<1>4. ASSUME NEW u \in Thread, NEW p, NEW delayed, SetupMainThread(u, p, delayed)
      PROVE  Goal
  <2>1. /\ UNCHANGED wait_objects
        /\ \/ status' = [status EXCEPT ![u] = "Ready"]
           \/ status' = [status EXCEPT ![u] = "WaitSleep"]
    BY <1>4 DEF SetupMainThread, CreateThreadWith, MakeReady, waitVars
  <2>2. status'[t] = status[t]
    BY <2>1 DEF TypeOK, WaitSynch
  <2> QED
    BY <2>1, <2>2 DEF Goal
<1>5. ASSUME NEW c \in Core, Reschedule(c) PROVE Goal
  <2>1. status'[t] = status[t]
    BY <1>5, SwitchedThreads DEF WaitSynch
  <2> QED
    BY <1>5, <2>1 DEF Goal, Reschedule, waitVars
<1>6. Goal
  BY <1>2, <1>3, <1>4, <1>5
  DEF Next, SignalEvent, SetSignaled, ThreadWakeupCallback, TimerCallback, TimerSignal, waitVars
<1> QED
  BY <1>6 DEF Goal

\* A handler starts with every sleeping thread blocked.
LEMMA StartWakeInv ==
  ASSUME TypeOK, SchedulerInv, WakeInv, Next, ~ CallStep
  PROVE  WakeInv'
PROOF
<1>1. \A k : ~ In(k, calls)
  BY StartQuiet, QuietNoRelease
<1> SUFFICES ASSUME NEW t \in Thread PROVE In(Resume(t), calls') \/ Asleep(t)'
  BY DEF WakeInv
<1>2. Asleep(t)
  BY <1>1 DEF WakeInv
<1>3. \A o \in Object : ShouldWait(o, t) => Blocked(o, t)'
  BY StartStaysBlocked DEF Blocked
<1>4. CASE status'[t] \notin WaitSynch
  BY <1>4 DEF Asleep, WaitSynch
<1>5. CASE status'[t] \in WaitSynch
  <2>1. CASE status'[t] = status[t] /\ wait_objects'[t] = wait_objects[t]
    <3>1. \A o \in Object : Blocked(o, t) => Blocked(o, t)'
      BY <1>1, <1>3 DEF Blocked
    <3> QED
      BY <1>1, <2>1, <3>1, StaysAsleep
  <2>2. CASE /\ status'[t] # "WaitSynchAll"
             /\ \A o : In(o, wait_objects'[t]) => ShouldWait(o, t)
    BY <1>3, <2>2 DEF Asleep
  <2>3. CASE /\ status'[t] = "WaitSynchAll"
             /\ \E o \in Object : In(o, wait_objects'[t]) /\ ShouldWait(o, t)
    BY <1>3, <2>3 DEF Asleep
  <2> QED
    BY <1>5, <2>1, <2>2, <2>3, StartBlocks
<1> QED
  BY <1>4, <1>5

\* In every reachable state a sleeping thread is blocked or about to be woken.
LEMMA WakeInvariant == Spec => []WakeInv
PROOF
<1>1. Init => WakeInv
  BY DEF Init, WakeInv, Asleep
<1>2. KernelInv /\ WakeInv /\ [Next]_vars => WakeInv'
  <2> SUFFICES ASSUME KernelInv, WakeInv, [Next]_vars PROVE WakeInv'
    OBVIOUS
  <2> TypeOK /\ SchedulerInv /\ ShapeInv /\ WaitInv
    BY DEF KernelInv
  <2>1. CASE UNCHANGED vars
    BY <2>1 DEF vars, waitVars, mutexVars, signalVars, WakeInv, Asleep, Blocked, ShouldWait
  <2>2. CASE CallStep
    BY <2>2, CallStepWakeInv
  <2> QED
    BY <2>1, <2>2, StartWakeInv
<1> QED
  BY <1>1, <1>2, KernelInvariant, PTL DEF Spec

\* Between handlers no thread sleeps on objects it could acquire: a thread in a
\* wait-any or a service wait has only unavailable objects, one in a wait-all at
\* least one, whatever signals, releases, timeouts and terminations came between.
THEOREM NoLostWakeupHolds == Spec => []NoLostWakeup
PROOF
<1>1. TypeOK /\ WakeInv => NoLostWakeup
  <2> SUFFICES ASSUME TypeOK, WakeInv, Quiet, NEW t \in Thread
               PROVE  /\ status[t] \in {"WaitSynchAny", "WaitHleEvent"} =>
                           \A i \in 1 .. Len(wait_objects[t]) :
                             ShouldWait(wait_objects[t][i], t)
                      /\ status[t] = "WaitSynchAll" =>
                           \E i \in 1 .. Len(wait_objects[t]) :
                             ShouldWait(wait_objects[t][i], t)
    BY DEF NoLostWakeup
  <2>1. \A k : ~ In(k, calls)
    BY QuietNoRelease DEF Quiet
  <2>2. Asleep(t) /\ \A o : Blocked(o, t) => ShouldWait(o, t)
    BY <2>1 DEF WakeInv, Blocked
  <2>3. wait_objects[t] \in Seq(Object)
    BY DEF TypeOK
  <2>4. \A i \in 1 .. Len(wait_objects[t]) :
          wait_objects[t][i] \in Object /\ In(wait_objects[t][i], wait_objects[t])
    BY <2>3 DEF In
  <2>5. \A o : In(o, wait_objects[t]) => \E i \in 1 .. Len(wait_objects[t]) : wait_objects[t][i] = o
    BY DEF In
  <2> QED
    BY <2>2, <2>4, <2>5 DEF Asleep
<1> QED
  BY <1>1, WakeInvariant, TypeCorrect, PTL

-----------------------------------------------------------------------------
(***************************************************************************)
(* The kernel's own assertions.  They hold for programs that do not wait    *)
(* for themselves and do not name a one-shot object twice in one wait:      *)
(* without these conditions the code's assertions do fail.                  *)
(***************************************************************************)
\* No thread waits for itself: neither alone nor, as every thread may pass every
\* list, in a list.
NoSelfWait ==
  /\ \A t \in Thread : t \notin WaitTargets[t]
  /\ \A objs \in WaitLists, t \in Thread : ~ In(t, objs)

OneShot == {s \in Signal : reset_type[s] = "OneShot"}

\* Signals that lose their signal when they are acquired occur once.
OneShotsOnce(objs) ==
  \A i, j \in 1 .. Len(objs) : objs[i] = objs[j] /\ objs[i] \in OneShot => i = j

NoRepeatedOneShot == \A objs \in WaitLists : OneShotsOnce(objs)

\* The same of the pending calls of Acquire.
AcquiredOnce(s) ==
  \A i, j \in 1 .. Len(s) :
    s[i] = s[j] /\ s[i].op = "Acquire" /\ s[i].obj \in OneShot => i = j

WaitsFit == \A t \in Thread : ~ In(t, wait_objects[t]) /\ OneShotsOnce(wait_objects[t])
CallbacksOfWaiters == \A t \in Thread : wakeup_callback[t] => status[t] \in WaitSynch \cup {"Dead"}
ResumedWaits == \A t \in Thread : In(Resume(t), calls) => status[t] \in Waiting \cup {"Ready"}
AcquiredIsAvailable ==
  \A o \in Object \ Semaphore, t \in Thread : In(AcquireOf(o, t), calls) => ~ ShouldWait(o, t)

AssertInv == WaitsFit /\ CallbacksOfWaiters /\ ResumedWaits /\ AcquiredIsAvailable
               /\ AcquiredOnce(calls)

\* The steps outside a handler, by what they do to waits: one starts to wait, one
\* acquires what it waited for at once, the rest touch neither.
LEMMA StartKinds ==
  ASSUME TypeOK, Next, ~ CallStep
  PROVE  \/ \E u \in Thread, objs \in Seq(Object), st \in WaitSynch, timed \in BOOLEAN :
              /\ StartWait(u, objs, st, timed)
              /\ objs \in WaitLists \/ \E p \in WaitTargets[u] \cup Event : objs = <<p>>
         \/ \E u \in Thread, objs \in Seq(Object) :
              /\ AcquireNow(u, objs)
              /\ objs \in WaitLists \/ \E p : objs = <<p>>
              /\ \A i \in 1 .. Len(objs) : ~ ShouldWait(objs[i], u)
         \/ /\ UNCHANGED <<wait_objects, wakeup_callback>>
            /\ \/ \E u \in Thread : ThreadWakeupCallback(u)
               \/ \A k : In(k, calls') =>
                    k.op \in {"WakeupAllWaitingThreads", "RescheduleTimer", "UpdateMutexes",
                              "Stop", "TerminateProcessThreads"}
PROOF
<1> DEFINE Waits == \E u \in Thread, objs \in Seq(Object), st \in WaitSynch, timed \in BOOLEAN :
                      /\ StartWait(u, objs, st, timed)
                      /\ objs \in WaitLists \/ \E p \in WaitTargets[u] \cup Event : objs = <<p>>
           Acquires == \E u \in Thread, objs \in Seq(Object) :
                         /\ AcquireNow(u, objs)
                         /\ objs \in WaitLists \/ \E p : objs = <<p>>
                         /\ \A i \in 1 .. Len(objs) : ~ ShouldWait(objs[i], u)
           Others == {"WakeupAllWaitingThreads", "RescheduleTimer", "UpdateMutexes",
                      "Stop", "TerminateProcessThreads"}
           Neither == /\ UNCHANGED <<wait_objects, wakeup_callback>>
                      /\ \/ \E u \in Thread : ThreadWakeupCallback(u)
                         \/ \A k : In(k, calls') => k.op \in Others
<1> SUFFICES Waits \/ Acquires \/ Neither
  OBVIOUS
<1>1. calls = << >> /\ \A k : ~ In(k, << >>)
  BY StartQuiet DEF In
<1>2. /\ "WaitSynchAny" \in WaitSynch /\ "WaitSynchAll" \in WaitSynch
      /\ "WaitHleEvent" \in WaitSynch
  BY DEF WaitSynch
<1>3. ASSUME UNCHANGED <<wait_objects, wakeup_callback>>, calls' = << >> PROVE Neither
  BY <1>1, <1>3
<1>4. ASSUME UNCHANGED <<wait_objects, wakeup_callback>>, NEW l, l.op \in Others, calls' = <<l>>
      PROVE  Neither
  <2>1. \A k : In(k, <<l>>) => k = l
    BY DEF In
  <2> QED
    BY <1>4, <2>1
<1>5. ASSUME NEW s \in Timer, TimerSignal(s) PROVE Neither
  <2>1. UNCHANGED <<wait_objects, wakeup_callback>> /\ calls' = <<Wakeup(s), Rearm(s)>>
    BY <1>5 DEF TimerSignal, SetSignaled, Wakeup, Rearm, waitVars
  <2>2. \A k : In(k, <<Wakeup(s), Rearm(s)>>) => k = Wakeup(s) \/ k = Rearm(s)
    BY DEF In
  <2> QED
    BY <2>1, <2>2, CallNames
<1>6. ASSUME NEW c \in Core, NEW u \in Thread, SvcStep(c, u)
      PROVE  Waits \/ Acquires \/ Neither
  <2>1. ASSUME NEW p \in WaitTargets[u], NEW timed \in BOOLEAN,
               WaitSynchronization1(c, u, p, timed)
        PROVE  Waits \/ Acquires
    <3>1. <<p>> \in Seq(Object) /\ Len(<<p>>) = 1 /\ <<p>>[1] = p
      BY InputAssumption
    <3>2. CASE StartWait(u, <<p>>, "WaitSynchAny", timed)
      BY <1>2, <3>1, <3>2
    <3>3. CASE ~ ShouldWait(p, u) /\ AcquireNow(u, <<p>>)
      <4>1. \A i \in 1 .. Len(<<p>>) : ~ ShouldWait(<<p>>[i], u)
        BY <3>1, <3>3
      <4> QED
        BY <3>1, <3>3, <4>1
    <3> QED
      BY <2>1, <3>2, <3>3 DEF WaitSynchronization1
  <2>2. ASSUME NEW objs \in WaitLists, NEW timed \in BOOLEAN,
               WaitSynchronizationAll(c, u, objs, timed)
        PROVE  Waits \/ Acquires
    <3>1. objs \in Seq(Object)
      BY InputAssumption
    <3> QED
      BY <1>2, <2>2, <3>1 DEF WaitSynchronizationAll
  <2>3. ASSUME NEW objs \in WaitLists, NEW timed \in BOOLEAN,
               WaitSynchronizationAny(c, u, objs, timed)
        PROVE  Waits \/ Acquires
    <3>1. objs \in Seq(Object)
      BY InputAssumption
    <3>2. CASE StartWait(u, objs, "WaitSynchAny", timed)
      BY <1>2, <3>1, <3>2
    <3>3. ASSUME NEW i \in 1 .. Len(objs), ~ ShouldWait(objs[i], u), AcquireNow(u, <<objs[i]>>)
          PROVE  Acquires
      <4> DEFINE p == objs[i]
      <4>1. p \in Object
        BY <3>1
      <4> HIDE DEF p
      <4>2. <<p>> \in Seq(Object) /\ Len(<<p>>) = 1 /\ <<p>>[1] = p
        BY <4>1
      <4>3. ~ ShouldWait(p, u) /\ AcquireNow(u, <<p>>)
        BY <3>3 DEF p
      <4>4. \A j \in 1 .. Len(<<p>>) : ~ ShouldWait(<<p>>[j], u)
        BY <4>2, <4>3
      <4> QED
        BY <4>2, <4>3, <4>4
    <3> QED
      BY <2>3, <3>2, <3>3 DEF WaitSynchronizationAny
  <2>4. ASSUME NEW e \in Event, NEW timed \in BOOLEAN, SleepClientThread(c, u, e, timed)
        PROVE  Waits
    <3>1. <<e>> \in Seq(Object)
      BY DEF Object, Signal
    <3>2. StartWait(u, <<e>>, "WaitHleEvent", timed)
      BY <2>4 DEF SleepClientThread
    <3> QED
      BY <1>2, <3>1, <3>2
  <2>5. CASE \/ \E v \in Thread : \E p \in CreatePrios[v] : CreateThread(c, u, v, p)
             \/ \E forever \in BOOLEAN : SleepThread(c, u, forever)
             \/ \E s \in Signal : ClearSignal(c, u, s)
             \/ \E s \in Timer : CancelTimer(c, u, s)
             \/ \E p \in Process, allow \in BOOLEAN : ControlProcess(c, u, p, allow)
    BY <1>1, <1>3, <2>5 DEF CreateThread, CreateThreadWith, SleepThread, ClearSignal,
                            SetSignaled, CancelTimer, ControlProcess, waitVars
  <2>6. CASE \/ \E m \in Mutex : ReleaseMutex(c, u, m)
             \/ \E s \in Semaphore, n \in ReleaseCounts : ReleaseSemaphore(c, u, s, n)
    <3>1. /\ UNCHANGED <<wait_objects, wakeup_callback>>
          /\ calls' = << >> \/ \E s : calls' = <<Wakeup(s)>>
      BY <1>1, <2>6 DEF ReleaseMutex, LastRelease, ReleaseSemaphore, Wakeup, waitVars
    <3> QED
      BY <1>3, <1>4, <3>1, CallNames
  <2>7. ASSUME NEW s \in Timer, NEW initial, NEW interval, SetTimer(c, u, s, initial, interval)
        PROVE  Neither
    <3>1. CASE initial = 0
      BY <1>5, <2>7, <3>1 DEF SetTimer
    <3>2. CASE initial # 0
      BY <1>3, <2>7, <3>2 DEF SetTimer, SetSignaled, waitVars
    <3> QED
      BY <3>1, <3>2
  <2>8. ASSUME NEW v \in Thread, NEW p, SetThreadPriority(c, u, v, p) PROVE Neither
    <3>1. /\ UNCHANGED <<wait_objects, wakeup_callback>>
          /\ calls' = <<[op |-> "UpdateMutexes", mutexes |-> pending_mutexes[v]]>>
      BY <2>8 DEF SetThreadPriority, waitVars
    <3> QED
      BY <1>4, <3>1
  <2>9. CASE ExitThread(c, u)
    BY <1>4, <2>9, CallNames DEF ExitThread, waitVars
  <2>10. ASSUME NEW p \in Process, TerminateProcess(c, u, p) PROVE Neither
    <3>1. /\ UNCHANGED <<wait_objects, wakeup_callback>>
          /\ calls' = [i \in 1 .. NumCores |->
                        [op |-> "TerminateProcessThreads", core |-> i - 1, process |-> p]]
      BY <2>10 DEF TerminateProcess, waitVars
    <3>2. Len(calls') = NumCores
      BY <3>1, ParameterAssumption
    <3>3. \A i \in 1 .. NumCores : calls'[i].op = "TerminateProcessThreads"
      BY <3>1
    <3> QED
      BY <3>1, <3>2, <3>3 DEF In
  <2> HIDE DEF Waits, Acquires, Neither
  <2> QED
    BY <1>6, <2>1, <2>2, <2>3, <2>4, <2>5, <2>6, <2>7, <2>8, <2>9, <2>10 DEF SvcStep
<1>7. CASE \/ \E u \in Thread : \E p \in CreatePrios[u], delayed \in BOOLEAN :
                SetupMainThread(u, p, delayed)
           \/ \E c \in Core : Reschedule(c)
  BY <1>1, <1>3, <1>7 DEF SetupMainThread, CreateThreadWith, Reschedule, waitVars
<1>8. CASE \E e \in Event : SignalEvent(e)
  <2>1. PICK e \in Event : SignalEvent(e)
    BY <1>8
  <2>2. UNCHANGED <<wait_objects, wakeup_callback>> /\ calls' = <<Wakeup(e)>>
    BY <2>1 DEF SignalEvent, SetSignaled, Wakeup, waitVars
  <2> QED
    BY <1>4, <2>2, CallNames
<1>9. CASE \E u \in Thread : ThreadWakeupCallback(u)
  BY <1>9 DEF ThreadWakeupCallback, waitVars
<1>10. CASE \E s \in Timer : TimerCallback(s)
  BY <1>5, <1>10 DEF TimerCallback
<1> HIDE DEF Waits, Acquires, Neither
<1> QED
  BY <1>6, <1>7, <1>8, <1>9, <1>10 DEF Next

\* Calls that acquire nothing may follow.
LEMMA OnceConcat ==
  ASSUME NEW a \in Seq(Call), NEW b \in Seq(Call), AcquiredOnce(a),
         \A k : In(k, b) => k.op # "Acquire"
  PROVE  AcquiredOnce(a \o b)
PROOF
<1> DEFINE s == a \o b
<1>1. /\ Len(s) = Len(a) + Len(b) /\ Len(a) \in Nat /\ Len(b) \in Nat
      /\ \A i \in 1 .. Len(a) : s[i] = a[i]
      /\ \A i \in Len(a) + 1 .. Len(a) + Len(b) :
           i - Len(a) \in 1 .. Len(b) /\ s[i] = b[i - Len(a)]
  BY ConcatAt
<1> HIDE DEF s
<1>2. ASSUME NEW i \in 1 .. Len(s), s[i].op = "Acquire" PROVE i \in 1 .. Len(a)
  <2>1. i \in 1 .. Len(a) \/ i \in Len(a) + 1 .. Len(a) + Len(b)
    BY <1>1, <1>2
  <2>2. CASE i \in Len(a) + 1 .. Len(a) + Len(b)
    <3>1. In(s[i], b)
      BY <1>1, <2>2 DEF In
    <3> QED
      BY <1>2, <3>1
  <2> QED
    BY <2>1, <2>2
<1>3. AcquiredOnce(s)
  BY <1>1, <1>2 DEF AcquiredOnce
<1> QED
  BY <1>3 DEF s

\* The acquisitions of a wait name a one-shot object once if the wait does.
LEMMA OnceForEach ==
  ASSUME NEW objs \in Seq(Object), NEW t \in Thread, OneShotsOnce(objs)
  PROVE  AcquiredOnce(ForEach("Acquire", objs, t))
PROOF
<1> DEFINE s == ForEach("Acquire", objs, t)
<1>1. Len(objs) \in Nat
  OBVIOUS
<1>2. Len(s) = Len(objs) /\ \A i \in 1 .. Len(objs) : s[i] = AcquireOf(objs[i], t)
  BY <1>1 DEF ForEach, AcquireOf
<1> HIDE DEF s
<1>3. \A i \in 1 .. Len(objs) : s[i].obj = objs[i]
  BY <1>2, CallNames
<1>4. AcquiredOnce(s)
  BY <1>2, <1>3 DEF AcquiredOnce, OneShotsOnce
<1> QED
  BY <1>4 DEF s

\* A wait of one object names it once.
LEMMA OnceSingle ==
  ASSUME NEW p PROVE OneShotsOnce(<<p>>)
PROOF
<1>1. Len(<<p>>) = 1
  OBVIOUS
<1> QED
  BY <1>1 DEF OneShotsOnce

\* An object that may be acquired stays so for a thread, unless a step takes it.
LEMMA StillAvailable ==
  ASSUME NEW o \in Object, NEW t \in Thread, ~ ShouldWait(o, t),
         o \in Mutex => \/ holding_thread'[o] = t
                        \/ /\ lock_count'[o] = lock_count[o]
                           /\ holding_thread'[o] = holding_thread[o],
         o \in Semaphore => available_count'[o] = available_count[o],
         o \in Signal => signaled'[o] = signaled[o],
         o \in Thread => status'[o] = status[o]
  PROVE  ~ ShouldWait(o, t)'
PROOF
  BY DEF ShouldWait

\* While an Acquire is pending, so are only acquisitions by the same thread.
LEMMA AcquiresFirst ==
  ASSUME TypeOK, ShapeInv, CallStep, NEW o, NEW t, In(AcquireOf(o, t), calls)
  PROVE  Head(calls).op = "Acquire" /\ Head(calls).thr = t
PROOF
<1>1. calls # << >> /\ calls \in Seq(Call) /\ Head(calls) \in Call /\ Tail(calls) \in Seq(Call)
  BY StackStep
<1>2. \A l : In(l, calls) <=> In(l, Tail(calls)) \/ l = Head(calls)
  BY <1>1, TailMembers
<1>3. \A l : In(l, Tail(calls)) => MayFollow(Head(calls), l)
  BY <1>1, OrderedTail DEF ShapeInv
<1> QED
  BY <1>2, <1>3, CallNames DEF MayFollow

\* Acquiring an object leaves the others available to the same thread, and itself
\* too unless it is a one-shot object, which is not acquired twice.
LEMMA AcquireAssertInv ==
  ASSUME TypeOK, ShapeInv, AssertInv, Acquire
  PROVE  AcquiredIsAvailable' /\ AcquiredOnce(calls')
PROOF
<1> CallStep
  BY DEF CallStep
<1>1. /\ calls # << >> /\ calls \in Seq(Call) /\ Head(calls) \in Call /\ Tail(calls) \in Seq(Call)
      /\ Head(calls).op = "Acquire" /\ calls' = Tail(calls) /\ UNCHANGED status
  BY StackStep DEF Acquire, Make
<1>2. PICK p \in Object, t \in Thread :
           p = Head(calls).obj /\ t = Head(calls).thr /\ Head(calls) = AcquireOf(p, t)
  BY <1>1, CallFields, CallOfOp
<1>3. \A l : In(l, calls) <=> In(l, Tail(calls)) \/ l = Head(calls)
  BY <1>1, TailMembers
<1>4. /\ Len(calls) \in Nat /\ Len(calls) >= 1 /\ Len(Tail(calls)) = Len(calls) - 1
      /\ calls[1] = Head(calls)
      /\ \A i \in 1 .. Len(calls) - 1 : Tail(calls)[i] = calls[i + 1]
  BY <1>1, TailAt
<1>5. AcquiredOnce(calls')
  <2>1. AcquiredOnce(calls)
    BY DEF AssertInv
  <2>2. \A i \in 1 .. Len(Tail(calls)) : i + 1 \in 1 .. Len(calls) /\ Tail(calls)[i] = calls[i + 1]
    BY <1>4
  <2>3. \A i, j \in 1 .. Len(Tail(calls)) : i + 1 = j + 1 => i = j
    BY <1>4
  <2> QED
    BY <1>1, <2>1, <2>2, <2>3 DEF AcquiredOnce
<1>6. ASSUME In(AcquireOf(p, t), Tail(calls)) PROVE p \notin OneShot
  <2>1. PICK i \in 1 .. Len(Tail(calls)) : Tail(calls)[i] = AcquireOf(p, t)
    BY <1>6 DEF In
  <2>2. /\ i + 1 \in 1 .. Len(calls) /\ 1 \in 1 .. Len(calls) /\ i + 1 # 1
        /\ calls[i + 1] = AcquireOf(p, t) /\ calls[1] = AcquireOf(p, t)
    BY <1>2, <1>4, <2>1
  <2>3. AcquireOf(p, t).op = "Acquire" /\ AcquireOf(p, t).obj = p
    BY CallNames
  <2> QED
    BY <2>2, <2>3 DEF AssertInv, AcquiredOnce
<1>7. ASSUME NEW o \in Object \ Semaphore, NEW u \in Thread, In(AcquireOf(o, u), calls')
      PROVE  ~ ShouldWait(o, u)'
  <2>1. In(AcquireOf(o, u), calls) /\ u = t
    BY <1>1, <1>2, <1>3, <1>7, AcquiresFirst
  <2>2. ~ ShouldWait(o, t)
    BY <1>7, <2>1 DEF AssertInv, AcquiredIsAvailable
  <2>3. CASE p \in Mutex /\ AcquireFreeMutex(p, t)
    <3>1. /\ lock_count' = [lock_count EXCEPT ![p] = 1] /\ UNCHANGED signalVars
          /\ holding_thread' = [holding_thread EXCEPT ![p] = t]
      BY <2>3 DEF AcquireFreeMutex
    <3>2. o \in Mutex => \/ holding_thread'[o] = t
                         \/ /\ lock_count'[o] = lock_count[o]
                            /\ holding_thread'[o] = holding_thread[o]
      BY <2>3, <3>1 DEF TypeOK
    <3>3. ~ ShouldWait(o, t)'
      BY <1>1, <2>2, <3>1, <3>2, StillAvailable DEF signalVars
    <3> QED
      BY <2>1, <3>3
  <2>4. CASE p \in Mutex /\ AcquireHeldMutex(p)
    <3>1. /\ lock_count' = [lock_count EXCEPT ![p] = @ + 1] /\ UNCHANGED signalVars
          /\ UNCHANGED holding_thread /\ lock_count[p] # 0
      BY <2>4 DEF AcquireHeldMutex
    <3>2. o = p => holding_thread[o] = t
      BY <2>2, <2>4, <3>1 DEF TypeOK, ShouldWait
    <3>3. o \in Mutex => \/ holding_thread'[o] = t
                         \/ /\ lock_count'[o] = lock_count[o]
                            /\ holding_thread'[o] = holding_thread[o]
      BY <2>4, <3>1, <3>2 DEF TypeOK
    <3>4. ~ ShouldWait(o, t)'
      BY <1>1, <2>2, <3>1, <3>3, StillAvailable DEF signalVars
    <3> QED
      BY <2>1, <3>4
  <2>5. CASE p \in Signal /\ AcquireSignal(p)
    <3>1. /\ signaled' = [signaled EXCEPT ![p] = @ /\ reset_type[p] # "OneShot"]
          /\ UNCHANGED mutexVars
      BY <2>5 DEF AcquireSignal
    <3>2. o = p => p \notin OneShot
      BY <1>1, <1>6, <1>7, <2>1
    <3>3. o \in Signal => signaled'[o] = signaled[o]
      BY <2>5, <3>1, <3>2 DEF TypeOK, OneShot
    <3>4. ~ ShouldWait(o, t)'
      BY <1>1, <1>7, <2>2, <3>1, <3>3, StillAvailable DEF mutexVars
    <3> QED
      BY <2>1, <3>4
  <2>6. CASE (p \in Semaphore /\ AcquireSemaphore(p)) \/ (p \in Thread /\ AcquireThread)
    <3>1. UNCHANGED <<mutexVars, signaled>>
      BY <2>6 DEF AcquireSemaphore, AcquireThread, signalVars
    <3>2. ~ ShouldWait(o, t)'
      BY <1>1, <1>7, <2>2, <3>1, StillAvailable DEF mutexVars
    <3> QED
      BY <2>1, <3>2
  <2> QED
    BY <1>2, <2>3, <2>4, <2>5, <2>6 DEF Acquire
<1> QED
  BY <1>5, <1>7 DEF AcquiredIsAvailable

\* A thread that is woken finds what it acquires available.
LEMMA WakeupAssertInv ==
  ASSUME TypeOK, ShapeInv, WaitInv, AssertInv, WakeupThread
  PROVE  AcquiredIsAvailable' /\ AcquiredOnce(calls')
PROOF
<1> CallStep
  BY DEF CallStep
<1>1. calls # << >> /\ calls \in Seq(Call) /\ Head(calls) \in Call /\ Tail(calls) \in Seq(Call)
  BY StackStep
<1>2. Head(calls).op = "WakeupAllWaitingThreads"
  BY DEF WakeupThread
<1>3. PICK p \in Object : p = Head(calls).obj
  BY <1>1, <1>2, CallFields
<1>4. PICK i \in 1 .. Len(waiting_threads[p]) :
           /\ CanWake(p, i)
           /\ calls' = WakeupCalls(p, waiting_threads[p][i]) \o calls
  BY <1>3 DEF WakeupThread, IsHighestPriorityReady
<1>5. waiting_threads[p] \in Seq(Thread)
  BY DEF TypeOK
<1>6. PICK t \in Thread : t = waiting_threads[p][i]
  BY <1>5
<1>7. /\ calls' = WakeupCalls(p, t) \o calls /\ ~ ShouldWait(p, t)
      /\ status[t] = "WaitSynchAll" =>
           \A j \in 1 .. Len(wait_objects[t]) : ~ ShouldWait(wait_objects[t][j], t)
  BY <1>4, <1>6 DEF CanWake
<1>8. UNCHANGED <<status, lock_count, holding_thread, available_count, signaled>>
  BY DEF WakeupThread, mutexVars, signalVars
<1>9. \A k : In(k, calls) => k.op # "Acquire"
  <2>1. \A l : In(l, calls) <=> In(l, Tail(calls)) \/ l = Head(calls)
    BY <1>1, TailMembers
  <2>2. \A l : In(l, Tail(calls)) => MayFollow(Head(calls), l)
    BY <1>1, OrderedTail DEF ShapeInv
  <2> QED
    BY <1>2, <2>1, <2>2 DEF MayFollow
<1>10. WakeupCalls(p, t) \in Seq(Call)
  BY WakeupBody
<1>11. ASSUME NEW o \in Object \ Semaphore, NEW u \in Thread, In(AcquireOf(o, u), calls')
       PROVE  ~ ShouldWait(o, u)'
  <2>1. In(AcquireOf(o, u), WakeupCalls(p, t))
    <3>1. ~ In(AcquireOf(o, u), calls)
      BY <1>9, CallNames
    <3> QED
      BY <1>1, <1>7, <1>10, <1>11, <3>1, InConcat
  <2>2. \/ /\ status[t] = "WaitSynchAll"
           /\ \E q : In(q, wait_objects[t]) /\ AcquireOf(o, u) = AcquireOf(q, t)
        \/ status[t] # "WaitSynchAll" /\ AcquireOf(o, u) = AcquireOf(p, t)
        \/ \E q : In(q, wait_objects[t]) /\ AcquireOf(o, u) = Remove(q, t)
        \/ AcquireOf(o, u) = Clear(t) \/ AcquireOf(o, u) = Resume(t)
    BY <2>1, WakeupBody
  <2>3. u = t /\ (o = p \/ (status[t] = "WaitSynchAll" /\ In(o, wait_objects[t])))
    BY <2>2, CallNames
  <2>4. ~ ShouldWait(o, t)
    BY <1>7, <2>3 DEF In
  <2> QED
    BY <1>8, <2>3, <2>4 DEF ShouldWait
<1>12. AcquiredOnce(calls')
  <2> DEFINE got == IF status[t] = "WaitSynchAll" THEN wait_objects[t] ELSE <<p>>
             a == ForEach("Acquire", got, t)
             r == ForEach("RemoveWaitingThread", wait_objects[t], t)
             c == <<Clear(t), Resume(t)>>
  <2>1. WakeupCalls(p, t) = (a \o r) \o c
    BY DEF WakeupCalls, Clear, Resume
  <2>2. wait_objects[t] \in Seq(Object) /\ got \in Seq(Object)
    BY DEF TypeOK
  <2>3. OneShotsOnce(got)
    BY OnceSingle DEF AssertInv, WaitsFit
  <2> HIDE DEF got
  <2>4. a \in Seq(Call) /\ AcquiredOnce(a)
    BY <2>2, <2>3, OnceForEach, ForEachCalls
  <2>5. r \in Seq(Call) /\ \A k : In(k, r) => k.op # "Acquire"
    <3>1. \A k : In(k, r) => \E q : k = Remove(q, t)
      BY <2>2, ForEachCalls
    <3> QED
      BY <2>2, <3>1, ForEachCalls, CallNames
  <2>6. c \in Seq(Call) /\ \A k : In(k, c) => k.op # "Acquire"
    <3>1. Clear(t) \in Call /\ Resume(t) \in Call
      BY NamesAreCalls
    <3>2. \A k : In(k, c) => k = Clear(t) \/ k = Resume(t)
      BY DEF In
    <3> QED
      BY <3>1, <3>2, CallNames
  <2> HIDE DEF a, r, c
  <2>7. a \o r \in Seq(Call) /\ AcquiredOnce(a \o r)
    BY <2>4, <2>5, OnceConcat, ConcatAt
  <2>8. AcquiredOnce((a \o r) \o c)
    BY <2>6, <2>7, OnceConcat
  <2>9. AcquiredOnce(WakeupCalls(p, t))
    BY <2>1, <2>8
  <2> QED
    BY <1>1, <1>7, <1>9, <1>10, <2>9, OnceConcat
<1> QED
  BY <1>11, <1>12 DEF AcquiredIsAvailable

\* Every call of a handler keeps the conditions of the assertions.
LEMMA CallStepAssertInv ==
  ASSUME TypeOK, ShapeInv, WaitInv, AssertInv, CallStep
  PROVE  AssertInv'
PROOF
<1>1. calls # << >> /\ calls \in Seq(Call) /\ Head(calls) \in Call /\ Tail(calls) \in Seq(Call)
  BY StackStep
<1>2. AcquiredIsAvailable' /\ AcquiredOnce(calls')
  <2>1. CASE ~ Acquire /\ ~ WakeupThread
    <3>1. Head(calls).op # "Acquire"
      BY <2>1 DEF CallStep, AddWaitingThread, RemoveWaitingThread, WakeupDone,
                  ClearWaitObjects, ResumeFromWait, Stop, TerminateProcessThreads,
                  ReleaseThreadMutexes, UpdateMutexes, RescheduleTimer, Make
    <3>2. \A o, t : ~ In(AcquireOf(o, t), calls)
      BY <3>1, AcquiresFirst
    <3>3. \A o : \A t \in Thread : ~ In(AcquireOf(o, t), calls')
      BY <2>1, <3>2, NewAcquires
    <3>4. \A i \in 1 .. Len(calls') : calls'[i].op # "Acquire"
      <4>1. calls' \in Seq(Call)
        BY CallStepType DEF TypeOK
      <4>2. \A i \in 1 .. Len(calls') : calls'[i] \in Call /\ In(calls'[i], calls')
        BY <4>1 DEF In
      <4> QED
        BY <3>3, <4>2, CallFields, CallOfOp
    <3> QED
      BY <3>3, <3>4 DEF AcquiredIsAvailable, AcquiredOnce
  <2> QED
    BY <2>1, AcquireAssertInv, WakeupAssertInv
<1>3. WaitsFit'
  <2>1. CASE ClearWaitObjects
    <3>1. wait_objects' = [wait_objects EXCEPT ![Head(calls).thr] = << >>]
      BY <2>1 DEF ClearWaitObjects
    <3>2. \A t \in Thread : wait_objects'[t] = wait_objects[t] \/ wait_objects'[t] = << >>
      BY <3>1 DEF TypeOK
    <3>3. \A t : ~ In(t, << >>) /\ OneShotsOnce(<< >>)
      BY DEF In, OneShotsOnce
    <3> QED
      BY <3>2, <3>3 DEF AssertInv, WaitsFit
  <2>2. CASE ~ ClearWaitObjects
    <3>1. UNCHANGED wait_objects
      <4>1. CASE AddWaitingThread \/ RemoveWaitingThread
        BY <4>1 DEF AddWaitingThread, RemoveWaitingThread, ChangeWaiters
      <4> QED
        BY <2>2, <4>1
        DEF CallStep, Acquire, WakeupThread, WakeupDone, ResumeFromWait, Stop,
            TerminateProcessThreads, ReleaseThreadMutexes, UpdateMutexes, RescheduleTimer,
            waitVars
    <3> QED
      BY <3>1 DEF AssertInv, WaitsFit
  <2> QED
    BY <2>1, <2>2
<1>4. CallbacksOfWaiters' /\ ResumedWaits'
  <2>1. ASSUME NEW t \in Thread, In(Resume(t), calls'), ~ In(Resume(t), calls)
        PROVE  status[t] \in WaitSynch /\ WakeupThread
    <3>1. Resume(t).op = "ResumeFromWait"
      BY CallNames
    <3>2. \A u \in Thread : ~ In(Resume(t), StopCalls(u))
      BY StopBody, CallNames
    <3>3. PICK p \in Object : p = Head(calls).obj /\ Head(calls).op = "WakeupAllWaitingThreads"
                              /\ WakeupThread
      BY <2>1, <3>1, <3>2, CallMembers, CallNames
    <3>4. PICK i \in 1 .. Len(waiting_threads[p]) :
               waiting_threads[p][i] \in Thread
                 /\ In(Resume(t), WakeupCalls(p, waiting_threads[p][i]))
      BY <2>1, <3>1, <3>2, <3>3, CallMembers, CallNames
    <3>5. PICK u \in Thread : u = waiting_threads[p][i]
      BY <3>4
    <3>6. u = t
      <4>1. In(Resume(t), WakeupCalls(p, u))
        BY <3>4, <3>5
      <4>2. \/ \E q : Resume(t) = AcquireOf(q, u) \/ Resume(t) = Remove(q, u)
            \/ Resume(t) = Clear(u) \/ Resume(t) = Resume(u)
        BY <4>1, WakeupBody
      <4> QED
        BY <4>2, CallNames
    <3>7. In(t, waiting_threads[p])
      BY <3>5, <3>6 DEF In
    <3>8. status[t] \in WaitSynch \/ p = t
      BY <1>1, <3>3, <3>7, WokenThread
    <3>9. p # t
      BY <3>7 DEF WaitInv, ListedIsWaited, AssertInv, WaitsFit
    <3> QED
      BY <3>3, <3>8, <3>9
  <2>2. CASE Stop
    <3>1. PICK u \in Thread :
               /\ Head(calls) = ThreadCall("Stop", u) /\ UNCHANGED wakeup_callback
               /\ status' = [status EXCEPT ![u] = "Dead"]
      BY <1>1, <2>2, CallFields DEF Stop, Make, Call, ThreadCall
    <3>2. \A t \in Thread : status'[t] = IF t = u THEN "Dead" ELSE status[t]
      BY <3>1 DEF TypeOK
    <3>3. \A t \in Thread : ~ In(Resume(t), calls)
      <4>1. \A l : In(l, calls) <=> In(l, Tail(calls)) \/ l = Head(calls)
        BY <1>1, TailMembers
      <4>2. \A l : In(l, Tail(calls)) => MayFollow(Head(calls), l)
        BY <1>1, OrderedTail DEF ShapeInv
      <4> QED
        BY <3>1, <4>1, <4>2, CallNames DEF MayFollow
    <3>4. ~ WakeupThread
      BY <3>1, CallNames DEF WakeupThread
    <3>5. \A t \in Thread : ~ In(Resume(t), calls')
      BY <2>1, <3>3, <3>4
    <3>6. CallbacksOfWaiters'
      BY <3>1, <3>2 DEF AssertInv, CallbacksOfWaiters
    <3> QED
      BY <3>5, <3>6 DEF ResumedWaits
  <2>3. CASE ResumeFromWait
    <3>1. PICK u \in Thread :
               /\ Head(calls).op = "ResumeFromWait" /\ u = Head(calls).thr
               /\ \/ /\ status' = [status EXCEPT ![u] = "Ready"]
                     /\ wakeup_callback' = [wakeup_callback EXCEPT ![u] = FALSE]
                  \/ UNCHANGED <<status, wakeup_callback>>
      BY <1>1, <2>3, CallFields DEF ResumeFromWait, BecomeReady, Make
    <3>2. ~ WakeupThread
      BY <3>1 DEF WakeupThread
    <3>3. \A t \in Thread : In(Resume(t), calls') => In(Resume(t), calls)
      BY <2>1, <3>2
    <3>4. \A t \in Thread : \/ status'[t] = status[t] /\ wakeup_callback'[t] = wakeup_callback[t]
                            \/ status'[t] = "Ready" /\ wakeup_callback'[t] = FALSE
      BY <3>1 DEF TypeOK
    <3> QED
      BY <3>3, <3>4 DEF AssertInv, CallbacksOfWaiters, ResumedWaits
  <2>4. CASE ~ (Stop \/ ResumeFromWait)
    <3>1. UNCHANGED <<status, wakeup_callback>>
      <4>1. CASE AddWaitingThread \/ RemoveWaitingThread
        BY <4>1 DEF AddWaitingThread, RemoveWaitingThread, ChangeWaiters
      <4> QED
        BY <2>4, <4>1
        DEF CallStep, Acquire, WakeupThread, WakeupDone, ClearWaitObjects,
            TerminateProcessThreads, ReleaseThreadMutexes, UpdateMutexes, RescheduleTimer
    <3>2. \A t \in Thread : In(Resume(t), calls') => status[t] \in Waiting \cup {"Ready"}
      BY <2>1 DEF AssertInv, ResumedWaits, Waiting
    <3> QED
      BY <3>1, <3>2 DEF AssertInv, CallbacksOfWaiters, ResumedWaits
  <2> QED
    BY <2>2, <2>3, <2>4
<1> QED
  BY <1>2, <1>3, <1>4 DEF AssertInv

\* A handler starts with the conditions of the assertions.
LEMMA StartAssertInv ==
  ASSUME NoSelfWait, NoRepeatedOneShot, TypeOK, SchedulerInv, TimeInv, AssertInv, Next, ~ CallStep
  PROVE  AssertInv'
PROOF
<1>1. calls = << >> /\ \A k : ~ In(k, calls)
  BY StartQuiet, QuietNoRelease
<1>2. ASSUME NEW t \in Thread, wakeup_callback'[t] = wakeup_callback[t], wakeup_callback'[t]
      PROVE  status'[t] \in WaitSynch \cup {"Dead"}
  <2>1. status[t] \in WaitSynch \cup {"Dead"}
    BY <1>2 DEF AssertInv, CallbacksOfWaiters
  <2>2. status'[t] = status[t]
    BY <2>1, StartStatus DEF WaitSynch
  <2> QED
    BY <2>1, <2>2
<1>3. ASSUME \A k : In(k, calls') => k.op \notin {"Acquire", "ResumeFromWait"}
      PROVE  AcquiredIsAvailable' /\ AcquiredOnce(calls') /\ ResumedWaits'
  <2>1. \A i \in 1 .. Len(calls') : In(calls'[i], calls')
    BY DEF In
  <2> QED
    BY <1>3, <2>1, CallNames DEF AcquiredIsAvailable, AcquiredOnce, ResumedWaits
<1>4. ASSUME NEW u \in Thread, NEW objs \in Seq(Object), NEW st \in WaitSynch, NEW timed,
             StartWait(u, objs, st, timed),
             objs \in WaitLists \/ \E p \in WaitTargets[u] \cup Event : objs = <<p>>
      PROVE  AssertInv'
  <2>1. /\ status' = [status EXCEPT ![u] = st]
        /\ wait_objects' = [wait_objects EXCEPT ![u] = objs]
        /\ wakeup_callback' = [wakeup_callback EXCEPT ![u] = TRUE]
        /\ calls' = ForEach("AddWaitingThread", objs, u)
    BY <1>4 DEF StartWait
  <2>2. \A k : In(k, calls') => k.op = "AddWaitingThread"
    <3>1. \A k : In(k, calls') => \E o : k = Add(o, u)
      BY <2>1, ForEachCalls
    <3> QED
      BY <3>1, CallNames
  <2>3. ~ In(u, objs) /\ OneShotsOnce(objs)
    <3>1. CASE objs \in WaitLists
      BY <3>1 DEF NoSelfWait, NoRepeatedOneShot
    <3>2. ASSUME NEW p \in WaitTargets[u] \cup Event, objs = <<p>>
          PROVE  ~ In(u, objs) /\ OneShotsOnce(objs)
      <4>1. p # u
        BY ObjectAssumption DEF NoSelfWait, Signal
      <4> QED
        BY <3>2, <4>1, OnceSingle DEF In
    <3> QED
      BY <1>4, <3>1, <3>2
  <2>4. WaitsFit'
    <3>1. \A t \in Thread : wait_objects'[t] = IF t = u THEN objs ELSE wait_objects[t]
      BY <2>1 DEF TypeOK
    <3> QED
      BY <2>3, <3>1 DEF AssertInv, WaitsFit
  <2>5. CallbacksOfWaiters'
    <3>1. \A t \in Thread : t # u => wakeup_callback'[t] = wakeup_callback[t]
      BY <2>1 DEF TypeOK
    <3>2. status'[u] = st
      BY <2>1 DEF TypeOK
    <3> QED
      BY <1>2, <3>1, <3>2 DEF CallbacksOfWaiters
  <2> QED
    BY <1>3, <2>2, <2>4, <2>5 DEF AssertInv
<1>5. ASSUME NEW u \in Thread, NEW objs \in Seq(Object), AcquireNow(u, objs),
             objs \in WaitLists \/ \E p : objs = <<p>>,
             \A i \in 1 .. Len(objs) : ~ ShouldWait(objs[i], u)
      PROVE  AssertInv'
  <2>1. /\ calls' = ForEach("Acquire", objs, u)
        /\ UNCHANGED <<status, wait_objects, wakeup_callback, lock_count, holding_thread,
                       available_count, signaled>>
    BY <1>5 DEF AcquireNow, waitVars, mutexVars, signalVars
  <2>2. \A k : In(k, calls') => \E o : In(o, objs) /\ k = AcquireOf(o, u)
    BY <2>1, ForEachCalls
  <2>3. AcquiredIsAvailable'
    <3> SUFFICES ASSUME NEW o \in Object, NEW t \in Thread, In(AcquireOf(o, t), calls')
                 PROVE  ~ ShouldWait(o, t)'
      BY DEF AcquiredIsAvailable
    <3>1. t = u /\ In(o, objs)
      BY <2>2, CallNames
    <3>2. ~ ShouldWait(o, t)
      BY <1>5, <3>1 DEF In
    <3> QED
      BY <2>1, <3>2 DEF ShouldWait
  <2>4. AcquiredOnce(calls')
    <3>1. OneShotsOnce(objs)
      BY <1>5, OnceSingle DEF NoRepeatedOneShot
    <3> QED
      BY <2>1, <3>1, OnceForEach
  <2>5. ResumedWaits'
    BY <2>2, CallNames DEF ResumedWaits
  <2>6. WaitsFit' /\ CallbacksOfWaiters'
    BY <1>2, <2>1 DEF AssertInv, WaitsFit, CallbacksOfWaiters
  <2> QED
    BY <2>3, <2>4, <2>5, <2>6 DEF AssertInv
<1>6. ASSUME UNCHANGED <<wait_objects, wakeup_callback>> PROVE WaitsFit' /\ CallbacksOfWaiters'
  BY <1>2, <1>6 DEF AssertInv, WaitsFit, CallbacksOfWaiters
<1>7. ASSUME NEW u \in Thread, ThreadWakeupCallback(u) PROVE AssertInv'
  <2>1. /\ wakeup_event[u] > 0 /\ calls' = TimeoutCalls(u)
        /\ UNCHANGED <<status, wait_objects, wakeup_callback>>
    BY <1>7 DEF ThreadWakeupCallback, waitVars
  <2>2. \A k : In(k, calls') => (\E p : k = Remove(p, u)) \/ k = Clear(u) \/ k = Resume(u)
    BY <2>1, TimeoutBody
  <2>3. status[u] \in Waiting \cup {"Ready"}
    BY <2>1 DEF TimeInv, OneWakeup
  <2>4. ResumedWaits'
    BY <2>1, <2>2, <2>3, CallNames DEF ResumedWaits
  <2>5. AcquiredIsAvailable' /\ AcquiredOnce(calls')
    <3>1. \A i \in 1 .. Len(calls') : In(calls'[i], calls')
      BY DEF In
    <3> QED
      BY <2>2, <3>1, CallNames DEF AcquiredIsAvailable, AcquiredOnce
  <2> QED
    BY <1>6, <2>1, <2>4, <2>5 DEF AssertInv
<1>8. ASSUME UNCHANGED <<wait_objects, wakeup_callback>>,
             \A k : In(k, calls') =>
               k.op \in {"WakeupAllWaitingThreads", "RescheduleTimer", "UpdateMutexes",
                         "Stop", "TerminateProcessThreads"}
      PROVE  AssertInv'
  BY <1>3, <1>6, <1>8 DEF AssertInv
<1> QED
  BY <1>4, <1>5, <1>7, <1>8, StartKinds

\* The assertions of the kernel hold at every call, for every program that does not
\* wait for itself or for one one-shot object twice: waiting lists hold only
\* blocked threads, a thread is resumed with its wait objects cleared, never while
\* running or dead, and nobody acquires an object that is not available.
THEOREM CallAssertionsHold ==
  ASSUME NoSelfWait, NoRepeatedOneShot
  PROVE  Spec => []CallAssertions
PROOF
<1>1. Init => AssertInv
  <2>1. \A x : ~ In(x, << >>)
    BY DEF In
  <2> QED
    BY <2>1 DEF Init, AssertInv, WaitsFit, OneShotsOnce, CallbacksOfWaiters, ResumedWaits,
                AcquiredIsAvailable, AcquiredOnce
<1>2. KernelInv /\ TimeInv /\ AssertInv /\ [Next]_vars => AssertInv'
  <2> SUFFICES ASSUME KernelInv, TimeInv, AssertInv, [Next]_vars PROVE AssertInv'
    OBVIOUS
  <2> TypeOK /\ SchedulerInv /\ ShapeInv /\ WaitInv
    BY DEF KernelInv
  <2>1. CASE UNCHANGED vars
    BY <2>1 DEF vars, waitVars, mutexVars, signalVars, AssertInv, WaitsFit, OneShotsOnce,
                CallbacksOfWaiters, ResumedWaits, AcquiredIsAvailable, AcquiredOnce,
                ShouldWait
  <2>2. CASE CallStep
    BY <2>2, CallStepAssertInv
  <2> QED
    BY <2>1, <2>2, StartAssertInv
<1>3. KernelInv /\ AssertInv => CallAssertions
  <2> SUFFICES ASSUME KernelInv, AssertInv, calls # << >> PROVE CallAssertions
    BY DEF CallAssertions, Quiet
  <2> TypeOK /\ ShapeInv /\ WaitInv
    BY DEF KernelInv
  <2> DEFINE o == Head(calls).obj
             t == Head(calls).thr
  <2>1. calls \in Seq(Call) /\ Head(calls) \in Call /\ In(Head(calls), calls)
    BY NextCall, TailMembers DEF TypeOK
  <2>2. ASSUME Head(calls).op = "WakeupAllWaitingThreads",
               NEW i \in 1 .. Len(waiting_threads[o])
        PROVE  status[waiting_threads[o][i]] \in WaitSynch
    <3>1. o \in Object
      BY <2>1, <2>2, CallFields
    <3>2. waiting_threads[o] \in Seq(Thread)
      BY <3>1 DEF TypeOK
    <3>3. PICK u \in Thread : u = waiting_threads[o][i]
      <4> HIDE DEF o
      <4> QED
        BY <3>2
    <3>4. In(u, waiting_threads[o])
      BY <3>3 DEF In
    <3>5. o # u
      BY <3>1, <3>4 DEF WaitInv, ListedIsWaited, AssertInv, WaitsFit
    <3>6. status[u] \in WaitSynch
      BY <2>2, <3>4, <3>5, WokenThread
    <3> QED
      BY <3>3, <3>6
  <2>3. ASSUME Head(calls).op = "ResumeFromWait"
        PROVE  /\ wait_objects[t] = << >> /\ status[t] \notin {"Running", "Dead"}
               /\ status[t] = "Ready" => ~ wakeup_callback[t]
    <3>1. t \in Thread /\ Head(calls) = Resume(t)
      BY <2>1, <2>3, CallFields, CallOfOp
    <3>2. wait_objects[t] = << >>
      <4>1. 1 \in 1 .. Len(calls) /\ calls[1] = Resume(t)
        BY <2>1, <3>1, TailAt
      <4>2. ~ Preceded(Resume(t), Clear(t), calls)
        BY <4>1 DEF Preceded
      <4> QED
        BY <3>1, <4>2 DEF WaitInv, WaitersWait
    <3>3. status[t] \in Waiting \cup {"Ready"}
      BY <2>1, <3>1 DEF AssertInv, ResumedWaits
    <3>4. wakeup_callback[t] => status[t] \in WaitSynch \cup {"Dead"}
      BY <3>1 DEF AssertInv, CallbacksOfWaiters
    <3> QED
      BY <3>2, <3>3, <3>4 DEF Waiting, WaitSynch
  <2>4. ASSUME Head(calls).op = "Acquire", o \notin Semaphore
        PROVE  ~ ShouldWait(o, t)
    <3>1. o \in Object /\ t \in Thread /\ Head(calls) = AcquireOf(o, t)
      BY <2>1, <2>4, CallFields, CallOfOp
    <3> QED
      BY <2>1, <2>4, <3>1 DEF AssertInv, AcquiredIsAvailable
  <2> QED
    BY <2>2, <2>3, <2>4 DEF CallAssertions
<1>4. Spec => []KernelInv /\ []TimeInv
  BY KernelInvariant, TimeInvariant, PTL
<1> QED
  BY <1>1, <1>2, <1>3, <1>4, PTL DEF Spec

-----------------------------------------------------------------------------
(***************************************************************************)
(* Preemption.  A core that should run another thread has a reschedule      *)
(* pending, when no thread is barred from scheduling and there is one       *)
(* process: a termination that spares the running thread may take its boost *)
(* away, and a thread may be allowed to run again, without a reschedule.    *)
(*                                                                         *)
(* A handler changes priorities and statuses before it asks for the         *)
(* reschedule.  The invariant names what is still to ask for it: the        *)
(* ResumeFromWait of a blocked thread, or the termination of a core's       *)
(* current thread.                                                         *)
(***************************************************************************)
SingleProcess == \A p, q \in Process : p = q

Terminating(c, p) == [op |-> "TerminateProcessThreads", core |-> c, process |-> p]

\* Core c runs a thread no worse than its ready ones, or will reschedule.
Settled(c) ==
  c \in reschedule_pending \/
    \A t \in Thread : status[t] = "Ready" /\ core_id[t] = c =>
      KeepsRunning(c) /\ current_priority[current_thread[c]] <= current_priority[t]

\* Every core reschedules when the running handler has ended.
Sure ==
  \/ reschedule_pending = Core
  \/ \E c \in Core, p \in Process : current_thread[c] # None /\ In(Terminating(c, p), calls)

Promised(t) == In(Resume(t), calls) /\ status[t] \in Waiting

SettledOrPromised == (\A c \in Core : Settled(c)) \/ Sure \/ \E t \in Thread : Promised(t)
\* Calls that may change a priority or stop a thread without a reschedule of their own.
Disturbing == {"AddWaitingThread", "UpdateMutexes", "Stop", "TerminateProcessThreads"}
DisturbingIsSure ==
  \A k : In(k, calls) /\ k.op \in Disturbing => Sure
ClearedIsPromised == \A t \in Thread : In(Clear(t), calls) => Sure \/ Promised(t)
NoneBarred == \A t \in Thread : can_schedule[t]

PreemptInv == SettledOrPromised /\ DisturbingIsSure /\ ClearedIsPromised /\ NoneBarred

\* What a call of a handler does to the scheduler's state.
LEMMA CallSchedule ==
  ASSUME TypeOK, CallStep
  PROVE  /\ UNCHANGED <<current_thread, can_schedule>>
         /\ UNCHANGED reschedule_pending \/ reschedule_pending' = Core
         /\ \/ UNCHANGED <<status, current_priority>>
            \/ reschedule_pending' = Core
            \/ Head(calls).op \in {"AddWaitingThread", "RemoveWaitingThread", "UpdateMutexes",
                                   "Stop"}
PROOF
<1>1. CASE Acquire
  BY <1>1 DEF Acquire, AcquireFreeMutex, AcquireHeldMutex, AcquireSemaphore, AcquireSignal,
              AcquireThread, PrepareReschedule
<1>2. CASE AddWaitingThread \/ RemoveWaitingThread
  BY <1>2 DEF AddWaitingThread, RemoveWaitingThread, ChangeWaiters, Make
<1>3. CASE ResumeFromWait
  BY <1>3 DEF ResumeFromWait, BecomeReady, PrepareReschedule, prioVars
<1>4. CASE TerminateProcessThreads
  BY <1>4 DEF TerminateProcessThreads, PrepareReschedule, prioVars, schedVars
<1>5. CASE WakeupThread \/ WakeupDone \/ ClearWaitObjects \/ Stop \/ ReleaseThreadMutexes
             \/ UpdateMutexes \/ RescheduleTimer
  BY <1>5 DEF WakeupThread, WakeupDone, ClearWaitObjects, Stop, ReleaseThreadMutexes,
              UpdateMutexes, RescheduleTimer, Make, prioVars, schedVars
<1> QED
  BY <1>1, <1>2, <1>3, <1>4, <1>5 DEF CallStep

\* A reschedule that is sure stays so: the termination of a core's current thread
\* ends with asking for it.
LEMMA SureKept ==
  ASSUME SingleProcess, TypeOK, CallStep, Sure
  PROVE  Sure'
PROOF
<1>1. CASE reschedule_pending = Core
  BY <1>1, CallSchedule DEF Sure
<1>2. ASSUME NEW c \in Core, NEW p \in Process, current_thread[c] # None,
             In(Terminating(c, p), calls)
      PROVE  Sure'
  <2>1. CASE In(Terminating(c, p), calls')
    BY <1>2, <2>1, CallSchedule DEF Sure
  <2>2. CASE ~ In(Terminating(c, p), calls')
    <3>1. Head(calls) = Terminating(c, p)
      BY <1>2, <2>2, CallMembers
    <3>2. Head(calls).op = "TerminateProcessThreads" /\ Head(calls).core = c
            /\ Head(calls).process = p
      BY <3>1 DEF Terminating
    <3>3. TerminateProcessThreads
      BY <3>2 DEF CallStep, Acquire, AddWaitingThread, RemoveWaitingThread, WakeupThread,
                  WakeupDone, ClearWaitObjects, ResumeFromWait, Stop, ReleaseThreadMutexes,
                  UpdateMutexes, RescheduleTimer, Make
    <3>4. current_thread[c] \in Thread
      BY <1>2 DEF TypeOK
    <3>5. owner_process[current_thread[c]] = p
      BY <3>4, ParameterAssumption DEF SingleProcess
    <3>6. (\E t \in Thread : calls' = <<ThreadCall("Stop", t)>> \o calls)
            \/ reschedule_pending' = Core
      BY <1>2, <3>2, <3>3, <3>5 DEF TerminateProcessThreads, PrepareReschedule
    <3>7. ASSUME NEW t \in Thread, calls' = <<ThreadCall("Stop", t)>> \o calls PROVE FALSE
      <4>1. calls \in Seq(Call) /\ ThreadCall("Stop", t) \in Call
        BY NamesAreCalls DEF TypeOK
      <4> QED
        BY <1>2, <2>2, <3>7, <4>1, PrependMembers
    <3> QED
      BY <3>6, <3>7 DEF Sure
  <2> QED
    BY <2>1, <2>2
<1> QED
  BY <1>1, <1>2 DEF Sure

\* A promised reschedule is kept: when the thread is resumed it is asked for.
LEMMA PromiseKept ==
  ASSUME SingleProcess, TypeOK, DisturbingIsSure, CallStep, NEW t \in Thread, Promised(t)
  PROVE  Sure' \/ Promised(t)'
PROOF
<1>1. calls # << >> /\ calls \in Seq(Call) /\ Head(calls) \in Call
  BY StackStep
<1>2. CASE Stop
  <2>1. In(Head(calls), calls) /\ Head(calls).op = "Stop"
    BY <1>1, <1>2, TailMembers DEF Stop, Make
  <2>2. Sure
    BY <2>1 DEF DisturbingIsSure, Disturbing
  <2> QED
    BY <2>2, SureKept
<1>3. CASE ResumeFromWait
  <2>1. /\ Head(calls).op = "ResumeFromWait"
        /\ IF status[Head(calls).thr] \in Waiting \cup {"Dormant"}
           THEN reschedule_pending' = Core
           ELSE UNCHANGED status
    BY <1>3 DEF ResumeFromWait, BecomeReady, PrepareReschedule, Make
  <2>2. CASE reschedule_pending' = Core
    BY <2>2 DEF Sure
  <2>3. CASE UNCHANGED status /\ status[Head(calls).thr] \notin Waiting
    <3>1. Head(calls) # Resume(t)
      BY <2>3, CallNames DEF Promised
    <3>2. In(Resume(t), calls')
      BY <3>1, CallMembers DEF Promised
    <3> QED
      BY <2>3, <3>2 DEF Promised
  <2> QED
    BY <2>1, <2>2, <2>3
<1>4. CASE ~ Stop /\ ~ ResumeFromWait
  <2>1. UNCHANGED status /\ Head(calls).op # "ResumeFromWait"
    <3>1. CASE AddWaitingThread \/ RemoveWaitingThread
      BY <3>1 DEF AddWaitingThread, RemoveWaitingThread, ChangeWaiters, Make
    <3> QED
      BY <1>4, <3>1
      DEF CallStep, Acquire, WakeupThread, WakeupDone, ClearWaitObjects,
          TerminateProcessThreads, ReleaseThreadMutexes, UpdateMutexes, RescheduleTimer, Make
  <2>2. In(Resume(t), calls')
    BY <2>1, CallMembers, CallNames DEF Promised
  <2> QED
    BY <2>1, <2>2 DEF Promised
<1> QED
  BY <1>2, <1>3, <1>4

\* Every call of a handler keeps the promise of a reschedule.
LEMMA CallStepPreemptInv ==
  ASSUME SingleProcess, TypeOK, ShapeInv, WaitInv, PreemptInv, CallStep
  PROVE  PreemptInv'
PROOF
<1> SettledOrPromised /\ DisturbingIsSure /\ ClearedIsPromised /\ NoneBarred
  BY DEF PreemptInv
<1>1. /\ calls # << >> /\ calls \in Seq(Call) /\ Head(calls) \in Call
      /\ In(Head(calls), calls)
  BY StackStep, TailMembers
<1>2. Sure => Sure'
  BY SureKept
<1>3. \A t \in Thread : Promised(t) => Sure' \/ Promised(t)'
  BY PromiseKept
<1>4. SettledOrPromised'
  <2>1. CASE Sure \/ \E t \in Thread : Promised(t)
    BY <1>2, <1>3, <2>1 DEF SettledOrPromised
  <2>2. CASE (\A c \in Core : Settled(c)) /\ ~ Sure /\ \A t \in Thread : ~ Promised(t)
    <3>1. Head(calls).op \notin {"AddWaitingThread", "UpdateMutexes", "Stop"}
      BY <1>1, <2>2 DEF DisturbingIsSure, Disturbing
    <3>2. Head(calls).op # "RemoveWaitingThread"
      <4>1. SUFFICES ASSUME Head(calls).op = "RemoveWaitingThread" PROVE FALSE
        OBVIOUS
      <4>2. PICK o \in Object, t \in Thread : Head(calls) = Remove(o, t)
        BY <1>1, <4>1, CallFields, CallOfOp
      <4>3. Followed(Remove(o, t), Clear(t), calls)
        BY DEF WaitInv, RemovedIsCleared
      <4>4. 1 \in 1 .. Len(calls) /\ calls[1] = Remove(o, t)
        BY <1>1, <4>2, TailAt
      <4>5. PICK h \in 1 + 1 .. Len(calls) : calls[h] = Clear(t)
        BY <4>3, <4>4 DEF Followed
      <4>6. In(Clear(t), calls)
        <5>1. h \in 1 .. Len(calls)
          BY <1>1, <4>5
        <5> QED
          BY <4>5, <5>1 DEF In
      <4> QED
        BY <2>2, <4>6 DEF ClearedIsPromised
    <3>3. CASE reschedule_pending' = Core
      BY <3>3 DEF SettledOrPromised, Sure
    <3>4. CASE UNCHANGED <<status, current_priority>>
      <4>1. \A c \in Core : KeepsRunning(c) => KeepsRunning(c)'
        BY <3>4, CallSchedule DEF KeepsRunning
      <4>2. \A c \in Core : Settled(c)'
        BY <2>2, <3>4, <4>1, CallSchedule DEF Settled
      <4> QED
        BY <4>2 DEF SettledOrPromised
    <3> QED
      BY <3>1, <3>2, <3>3, <3>4, CallSchedule
  <2> QED
    BY <2>1, <2>2 DEF SettledOrPromised
<1>5. DisturbingIsSure'
  <2> SUFFICES ASSUME NEW k, In(k, calls'), k.op \in Disturbing
               PROVE  Sure'
    BY DEF DisturbingIsSure
  <2>1. CASE In(k, calls)
    BY <1>2, <2>1 DEF DisturbingIsSure
  <2>2. CASE ~ In(k, calls)
    <3>1. \A u \in Thread : ~ In(k, StopCalls(u))
      BY StopBody, CallNames DEF Disturbing
    <3>2. \A o \in Object, u \in Thread : ~ In(k, WakeupCalls(o, u))
      BY WakeupBody, CallNames DEF Disturbing
    <3>3. \A m : k # Wakeup(m)
      BY CallNames DEF Disturbing
    <3>4. Head(calls).op \in {"TerminateProcessThreads", "UpdateMutexes"}
      BY <2>2, <3>1, <3>2, <3>3, CallMembers
    <3> QED
      BY <1>1, <1>2, <3>4 DEF DisturbingIsSure, Disturbing
  <2> QED
    BY <2>1, <2>2
<1>6. ClearedIsPromised'
  <2> SUFFICES ASSUME NEW t \in Thread, In(Clear(t), calls')
               PROVE  Sure' \/ Promised(t)'
    BY DEF ClearedIsPromised
  <2>1. CASE In(Clear(t), calls)
    BY <1>2, <1>3, <2>1 DEF ClearedIsPromised
  <2>2. CASE ~ In(Clear(t), calls)
    <3>1. Clear(t).op = "ClearWaitObjects" /\ \A m : Clear(t) # Wakeup(m)
      BY CallNames
    <3>2. \/ WakeupThread
          \/ Head(calls).op = "Stop"
      BY <2>2, <3>1, CallMembers
    <3>3. CASE Head(calls).op = "Stop"
      BY <1>1, <1>2, <3>3 DEF DisturbingIsSure, Disturbing
    <3>4. CASE WakeupThread
      <4>1. Head(calls).op = "WakeupAllWaitingThreads"
        BY <3>4 DEF WakeupThread
      <4>2. PICK o \in Object : o = Head(calls).obj
        BY <1>1, <4>1, CallFields
      <4>3. PICK i \in 1 .. Len(waiting_threads[o]) :
                 calls' = WakeupCalls(o, waiting_threads[o][i]) \o calls
        BY <3>4, <4>2 DEF WakeupThread
      <4>4. waiting_threads[o] \in Seq(Thread)
        BY DEF TypeOK
      <4>5. PICK u \in Thread : u = waiting_threads[o][i]
        BY <4>4
      <4>6. calls' = WakeupCalls(o, u) \o calls /\ WakeupCalls(o, u) \in Seq(Call)
        BY <4>3, <4>5, WakeupBody
      <4>7. \A k : In(k, calls') <=> In(k, WakeupCalls(o, u)) \/ In(k, calls)
        BY <1>1, <4>6, InConcat
      <4>8. In(Clear(t), WakeupCalls(o, u))
        BY <2>2, <4>7
      <4>9. t = u
        BY <4>8, WakeupBody, CallNames
      <4>10. In(Resume(t), calls')
        BY <4>7, <4>9, WakeupBody
      <4>11. In(t, waiting_threads[o])
        BY <4>5, <4>9 DEF In
      <4>12. In(o, wait_objects[t])
        BY <4>11 DEF WaitInv, ListedIsWaited
      <4>13. wait_objects[t] # << >>
        BY <4>12 DEF In
      <4>14. status[t] \in WaitSynch
        BY <2>2, <4>13 DEF WaitInv, WaitersWait
      <4>15. UNCHANGED status
        BY <3>4 DEF WakeupThread
      <4> QED
        BY <4>10, <4>14, <4>15 DEF Promised, Waiting
    <3> QED
      BY <3>2, <3>3, <3>4
  <2> QED
    BY <2>1, <2>2
<1>7. NoneBarred'
  BY CallSchedule DEF NoneBarred
<1> QED
  BY <1>4, <1>5, <1>6, <1>7 DEF PreemptInv

\* The steps outside a handler, by what they do to the scheduler's state.
LEMMA StartSchedule ==
  ASSUME Suspendable = {}, TypeOK, Next, ~ CallStep
  PROVE  /\ UNCHANGED can_schedule
         /\ \/ reschedule_pending' = Core
            \/ /\ UNCHANGED <<status, current_priority, current_thread, reschedule_pending>>
               /\ \A k : In(k, calls') =>
                    k.op \in {"WakeupAllWaitingThreads", "RescheduleTimer", "Acquire"}
            \/ \E u \in Thread : ThreadWakeupCallback(u)
            \/ \E c \in Core, t \in Thread, p \in Process : TerminateProcess(c, t, p)
            \/ \E c \in Core : Reschedule(c)
PROOF
<1> DEFINE Idle == /\ UNCHANGED <<status, current_priority, current_thread, reschedule_pending>>
                   /\ \A k : In(k, calls') =>
                        k.op \in {"WakeupAllWaitingThreads", "RescheduleTimer", "Acquire"}
           Goal == /\ UNCHANGED can_schedule
                   /\ \/ reschedule_pending' = Core
                      \/ Idle
                      \/ \E u \in Thread : ThreadWakeupCallback(u)
                      \/ \E c \in Core, t \in Thread, p \in Process : TerminateProcess(c, t, p)
                      \/ \E c \in Core : Reschedule(c)
<1> SUFFICES Goal
  OBVIOUS
<1>1. calls = << >> /\ \A k : ~ In(k, << >>)
  BY StartQuiet DEF In
<1>2. ASSUME NEW u \in Thread, NEW objs, NEW st, NEW timed, StartWait(u, objs, st, timed)
      PROVE  Goal
  BY <1>2 DEF StartWait, PrepareReschedule, schedVars
<1>3. ASSUME NEW u \in Thread, NEW objs \in Seq(Object), AcquireNow(u, objs)
      PROVE  Goal
  <2>1. \A k : In(k, calls') => k.op = "Acquire"
    BY <1>3, ForEachCalls, CallNames DEF AcquireNow
  <2> QED
    BY <1>3, <2>1 DEF AcquireNow, schedVars, prioVars
<1>4. ASSUME NEW s, NEW value, NEW next, SetSignaled(s, value, next),
             \A k : In(k, next) => k.op \in {"WakeupAllWaitingThreads", "RescheduleTimer"}
      PROVE  Goal
  BY <1>4 DEF SetSignaled, schedVars, prioVars
<1>5. ASSUME NEW s
      PROVE  /\ \A k : In(k, <<Wakeup(s)>>) => k.op = "WakeupAllWaitingThreads"
             /\ \A k : In(k, <<Wakeup(s), Rearm(s)>>) =>
                  k.op \in {"WakeupAllWaitingThreads", "RescheduleTimer"}
  BY CallNames DEF In
<1>6. ASSUME NEW s, TimerSignal(s) PROVE Goal
  <2>1. SetSignaled(s, TRUE, <<Wakeup(s), Rearm(s)>>)
    BY <1>6 DEF TimerSignal, Wakeup, Rearm
  <2> QED
    BY <1>4, <1>5, <2>1
<1>7. ASSUME NEW e \in Event, SignalEvent(e) PROVE Goal
  <2>1. SetSignaled(e, TRUE, <<Wakeup(e)>>)
    BY <1>7 DEF SignalEvent, Wakeup
  <2> QED
    BY <1>4, <1>5, <2>1
<1>8. ASSUME NEW s \in Timer, TimerCallback(s) PROVE Goal
  <2>1. TimerSignal(s)
    BY <1>8 DEF TimerCallback
  <2> QED
    BY <1>6, <2>1
<1>9. ASSUME NEW t \in Thread, NEW p, NEW delayed, SetupMainThread(t, p, delayed) PROVE Goal
  BY <1>9 DEF SetupMainThread, CreateThreadWith, PrepareReschedule
<1>10. ASSUME NEW u \in Thread, ThreadWakeupCallback(u) PROVE Goal
  BY <1>10 DEF ThreadWakeupCallback, schedVars
<1>11. ASSUME NEW c \in Core, Reschedule(c) PROVE Goal
  BY <1>11 DEF Reschedule
<1>12. ASSUME NEW c \in Core, NEW t \in Thread, SvcStep(c, t) PROVE Goal
  <2>1. ASSUME NEW u, NEW p, CreateThread(c, t, u, p) PROVE Goal
    BY <2>1 DEF CreateThread, CreateThreadWith, PrepareReschedule
  <2>2. ASSUME NEW o \in WaitTargets[t], NEW timed, WaitSynchronization1(c, t, o, timed)
        PROVE  Goal
    <3>1. o \in Object /\ <<o>> \in Seq(Object)
      BY InputAssumption
    <3> QED
      BY <1>2, <1>3, <2>2, <3>1 DEF WaitSynchronization1
  <2>3. ASSUME NEW objs \in WaitLists, NEW timed, \/ WaitSynchronizationAll(c, t, objs, timed)
                                                  \/ WaitSynchronizationAny(c, t, objs, timed)
        PROVE  Goal
    <3>1. objs \in Seq(Object)
      BY InputAssumption
    <3>2. \A i \in 1 .. Len(objs) : <<objs[i]>> \in Seq(Object)
      BY <3>1
    <3> QED
      BY <1>2, <1>3, <2>3, <3>1, <3>2 DEF WaitSynchronizationAll, WaitSynchronizationAny
  <2>4. ASSUME NEW e \in Event, NEW timed, SleepClientThread(c, t, e, timed) PROVE Goal
    BY <1>2, <2>4 DEF SleepClientThread
  <2>5. ASSUME NEW forever, SleepThread(c, t, forever) PROVE Goal
    BY <2>5 DEF SleepThread, PrepareReschedule, schedVars
  <2>6. ASSUME NEW m \in Mutex, ReleaseMutex(c, t, m) PROVE Goal
    BY <1>1, <2>6 DEF ReleaseMutex, LastRelease, PrepareReschedule
  <2>7. ASSUME NEW s \in Semaphore, NEW n, ReleaseSemaphore(c, t, s, n) PROVE Goal
    <3>1. calls' = <<Wakeup(s)>>
          /\ UNCHANGED <<status, current_priority, current_thread, reschedule_pending,
                         can_schedule>>
      BY <2>7 DEF ReleaseSemaphore, Wakeup, schedVars, prioVars
    <3> QED
      BY <1>5, <3>1
  <2>8. ASSUME NEW s, ClearSignal(c, t, s) PROVE Goal
    BY <1>1, <1>4, <2>8 DEF ClearSignal
  <2>9. ASSUME NEW s, NEW initial, NEW interval, SetTimer(c, t, s, initial, interval) PROVE Goal
    BY <1>1, <1>4, <1>6, <2>9 DEF SetTimer
  <2>10. ASSUME NEW s, CancelTimer(c, t, s) PROVE Goal
    BY <1>1, <2>10 DEF CancelTimer, schedVars, prioVars
  <2>11. ASSUME NEW u, NEW p, SetThreadPriority(c, t, u, p) PROVE Goal
    BY <2>11 DEF SetThreadPriority, PrepareReschedule
  <2>12. ASSUME NEW p, NEW allow, ControlProcess(c, t, p, allow) PROVE Goal
    <3>1. can_schedule' = [u \in Thread |-> can_schedule[u]]
      BY <2>12 DEF ControlProcess
    <3>2. UNCHANGED can_schedule
      BY <3>1 DEF TypeOK
    <3> QED
      BY <1>1, <2>12, <3>2 DEF ControlProcess, prioVars
  <2>13. ASSUME ExitThread(c, t) PROVE Goal
    BY <2>13 DEF ExitThread, PrepareReschedule, schedVars
  <2>14. ASSUME NEW p \in Process, TerminateProcess(c, t, p) PROVE Goal
    BY <2>14 DEF TerminateProcess
  <2> HIDE DEF Goal
  <2> QED
    BY <1>12, <2>1, <2>2, <2>3, <2>4, <2>5, <2>6, <2>7, <2>8, <2>9, <2>10, <2>11, <2>12, <2>13,
       <2>14 DEF SvcStep
<1> HIDE DEF Goal
<1> QED
  BY <1>7, <1>8, <1>9, <1>10, <1>11, <1>12 DEF Next

\* When PopNextReadyThread finds nothing, the core runs a thread no worse than the
\* ready ones: the first thread of the best level in use could be taken.
LEMMA NoneReadySettled ==
  ASSUME TypeOK, SchedulerInv, NoneBarred, NEW c \in Core, NoneReady(c),
         NEW t \in Thread, status[t] = "Ready", core_id[t] = c
  PROVE  KeepsRunning(c) /\ current_priority[current_thread[c]] <= current_priority[t]
PROOF
<1> DEFINE used == {p \in Prio : ready_queue[<<c, p>>] # << >>}
           best == Best(used)
<1>1. ASSUME NEW p \in Prio PROVE ready_queue[<<c, p>>] \in Seq(Thread)
  BY DEF TypeOK
<1>2. current_priority[t] \in Prio
  BY DEF TypeOK
<1>3. In(t, ready_queue[<<c, current_priority[t]>>])
  BY <1>2 DEF SchedulerInv, QueueHolds, ReadyThreads
<1>4. current_priority[t] \in used
  BY <1>2, <1>3 DEF In
<1>5. best \in used /\ \A q \in used : best <= q
  BY <1>4, BestInSet
<1>6. best \in Prio /\ best <= current_priority[t] /\ ready_queue[<<c, best>>] # << >>
  BY <1>4, <1>5
<1>7. \A q \in Prio : q < best => ready_queue[<<c, q>>] = << >>
  <2> SUFFICES ASSUME NEW q \in Prio, q < best, ready_queue[<<c, q>>] # << >> PROVE FALSE
    OBVIOUS
  <2>1. q \in used /\ q \in Int /\ best \in Int
    BY <1>6 DEF Prio
  <2>2. best <= q
    BY <1>5, <2>1
  <2> HIDE DEF used, best
  <2> QED
    BY <2>1, <2>2
<1> HIDE DEF used, best
<1>8. 1 \in 1 .. Len(ready_queue[<<c, best>>]) /\ ready_queue[<<c, best>>][1] \in Thread
  BY <1>1, <1>6
<1>9. ~ IsNextReady(c, best, 1)
  BY <1>6, <1>8 DEF NoneReady
<1>10. can_schedule[ready_queue[<<c, best>>][1]]
  BY <1>8 DEF NoneBarred
<1>11. \A q \in 0 .. best - 1 : \A j \in 1 .. Len(ready_queue[<<c, q>>]) :
         ~ can_schedule[ready_queue[<<c, q>>][j]]
  <2> SUFFICES ASSUME NEW q \in 0 .. best - 1, NEW j \in 1 .. Len(ready_queue[<<c, q>>])
               PROVE  FALSE
    OBVIOUS
  <2>1. q \in Prio /\ q < best
    BY <1>6, ParameterAssumption DEF Prio
  <2>2. Len(ready_queue[<<c, q>>]) = 0
    BY <1>7, <2>1
  <2> QED
    BY <2>2
<1>12. KeepsRunning(c) /\ ~ (best < current_priority[current_thread[c]])
  BY <1>9, <1>10, <1>11 DEF IsNextReady
<1>13. current_priority[current_thread[c]] \in Prio
  BY <1>12 DEF KeepsRunning, TypeOK
<1> QED
  BY <1>2, <1>6, <1>12, <1>13, ParameterAssumption DEF Prio

\* A switch takes a thread no worse than those that stay ready.
LEMMA SwitchSettled ==
  ASSUME TypeOK, SchedulerInv, NoneBarred, NEW c \in Core, NEW p \in Prio,
         NEW i \in 1 .. Len(ready_queue[<<c, p>>]), IsNextReady(c, p, i),
         SwitchContext(c, ready_queue[<<c, p>>][i], p), UNCHANGED current_priority,
         NEW t \in Thread, status'[t] = "Ready", core_id[t] = c
  PROVE  KeepsRunning(c)' /\ current_priority'[current_thread'[c]] <= current_priority'[t]
PROOF
<1>1. ready_queue[<<c, p>>] \in Seq(Thread)
  BY DEF TypeOK
<1>2. PICK v \in Thread : v = ready_queue[<<c, p>>][i]
  BY <1>1
<1>3. /\ status' = SwitchedStatus(c, v)
      /\ current_thread' = [current_thread EXCEPT ![c] = v]
  BY <1>2 DEF SwitchContext
<1>4. In(v, ready_queue[<<c, p>>])
  BY <1>2 DEF In
<1>5. current_priority[v] = p
  BY <1>4 DEF SchedulerInv, QueueHolds
<1>6. current_thread'[c] = v
  BY <1>3 DEF TypeOK
<1>7. \A u \in Thread : status'[u] = CASE u = v -> "Running"
                     [] u # v /\ KeepsRunning(c) /\ u = current_thread[c] -> "Ready"
                     [] OTHER -> status[u]
  BY <1>3 DEF SwitchedStatus
<1>8. status'[v] = "Running"
  BY <1>7
<1>9. KeepsRunning(c)'
  BY <1>2, <1>6, <1>8, ObjectAssumption DEF KeepsRunning
<1>10. p <= current_priority[t]
  <2>1. t # v
    BY <1>8
  <2>2. current_priority[t] \in Prio
    BY DEF TypeOK
  <2>3. CASE KeepsRunning(c) /\ t = current_thread[c]
    <3>1. p < current_priority[t]
      BY <2>3 DEF IsNextReady
    <3> QED
      BY <2>2, <3>1, ParameterAssumption DEF Prio
  <2>4. CASE ~ (KeepsRunning(c) /\ t = current_thread[c])
    <3>1. status[t] = "Ready"
      BY <1>7, <2>1, <2>4
    <3>2. In(t, ready_queue[<<c, current_priority[t]>>])
      BY <2>2, <3>1 DEF SchedulerInv, QueueHolds, ReadyThreads
    <3>3. PICK j \in 1 .. Len(ready_queue[<<c, current_priority[t]>>]) :
               ready_queue[<<c, current_priority[t]>>][j] = t
      BY <3>2 DEF In
    <3>4. can_schedule[t]
      BY DEF NoneBarred
    <3>5. current_priority[t] \notin 0 .. p - 1
      BY <3>3, <3>4 DEF IsNextReady
    <3> QED
      BY <2>2, <3>5, ParameterAssumption DEF Prio
  <2> QED
    BY <2>3, <2>4
<1> QED
  BY <1>5, <1>6, <1>9, <1>10

\* Reschedule settles its core and leaves the other cores alone.
LEMMA RescheduleSettled ==
  ASSUME TypeOK, SchedulerInv, NoneBarred, NEW c \in Core, Reschedule(c),
         \A d \in Core : Settled(d)
  PROVE  \A d \in Core : Settled(d)'
PROOF
<1>1. UNCHANGED current_priority /\ reschedule_pending' = reschedule_pending \ {c}
  BY DEF Reschedule, prioVars
<1>2. ASSUME NEW t \in Thread, status'[t] = "Ready", core_id[t] = c
      PROVE  KeepsRunning(c)' /\ current_priority'[current_thread'[c]] <= current_priority'[t]
  <2>1. ASSUME NEW p \in Prio, NEW i \in 1 .. Len(ready_queue[<<c, p>>]), IsNextReady(c, p, i),
               SwitchContext(c, ready_queue[<<c, p>>][i], p)
        PROVE  KeepsRunning(c)' /\ current_priority'[current_thread'[c]] <= current_priority'[t]
    BY <1>1, <1>2, <2>1, SwitchSettled
  <2>2. CASE NoneReady(c) /\ KeepsRunning(c) /\ UNCHANGED <<status, current_thread>>
    BY <1>1, <1>2, <2>2, NoneReadySettled DEF KeepsRunning
  <2>3. CASE NoneReady(c) /\ ~ KeepsRunning(c) /\ UNCHANGED status
    BY <1>2, <2>3, NoneReadySettled
  <2> QED
    BY <2>1, <2>2, <2>3 DEF Reschedule
<1>3. ASSUME NEW d \in Core, d # c
      PROVE  /\ current_thread'[d] = current_thread[d]
             /\ \A t \in Thread : core_id[t] = d => status'[t] = status[t]
  <2>1. ASSUME NEW p \in Prio, NEW i \in 1 .. Len(ready_queue[<<c, p>>]),
               SwitchContext(c, ready_queue[<<c, p>>][i], p)
        PROVE  /\ current_thread'[d] = current_thread[d]
               /\ \A t \in Thread : core_id[t] = d => status'[t] = status[t]
    <3>1. ready_queue[<<c, p>>] \in Seq(Thread)
      BY DEF TypeOK
    <3>2. PICK v \in Thread : v = ready_queue[<<c, p>>][i]
      BY <3>1
    <3>3. In(v, ready_queue[<<c, p>>])
      BY <3>2 DEF In
    <3>4. core_id[v] = c
      BY <3>3 DEF SchedulerInv, QueueHolds
    <3>5. /\ status' = SwitchedStatus(c, v)
          /\ current_thread' = [current_thread EXCEPT ![c] = v]
      BY <2>1, <3>2 DEF SwitchContext
    <3>6. KeepsRunning(c) => core_id[current_thread[c]] = c
      BY DEF KeepsRunning, SchedulerInv, CurrentOnItsCore
    <3>7. current_thread'[d] = current_thread[d]
      BY <1>3, <3>5 DEF TypeOK
    <3>8. \A t \in Thread : core_id[t] = d => status'[t] = status[t]
      BY <1>3, <3>4, <3>5, <3>6 DEF SwitchedStatus
    <3> QED
      BY <3>7, <3>8
  <2>2. CASE UNCHANGED status /\ (UNCHANGED current_thread
                                  \/ current_thread' = [current_thread EXCEPT ![c] = None])
    BY <1>3, <2>2 DEF TypeOK
  <2> QED
    BY <2>1, <2>2 DEF Reschedule
<1>4. ASSUME NEW d \in Core, d # c PROVE Settled(d)'
  <2>1. d \in reschedule_pending => d \in reschedule_pending'
    BY <1>1, <1>4
  <2>2. KeepsRunning(d) => KeepsRunning(d)'
    <3> SUFFICES ASSUME KeepsRunning(d) PROVE KeepsRunning(d)'
      OBVIOUS
    <3>1. current_thread[d] \in Thread /\ core_id[current_thread[d]] = d
      BY DEF KeepsRunning, TypeOK, SchedulerInv, CurrentOnItsCore
    <3> QED
      BY <1>3, <1>4, <3>1 DEF KeepsRunning
  <2> QED
    BY <1>1, <1>3, <1>4, <2>1, <2>2 DEF Settled
<1>5. Settled(c)'
  BY <1>2 DEF Settled
<1> QED
  BY <1>4, <1>5

\* A step outside a handler keeps the promise of a reschedule.
LEMMA StartPreemptInv ==
  ASSUME Suspendable = {}, TypeOK, SchedulerInv, PreemptInv, Next, ~ CallStep
  PROVE  PreemptInv'
PROOF
<1>1. calls = << >> /\ \A k : ~ In(k, calls)
  BY StartQuiet DEF In
<1>2. \A c \in Core : Settled(c)
  BY <1>1 DEF PreemptInv, SettledOrPromised, Sure, Promised, Settled
<1>3. NoneBarred'
  BY StartSchedule DEF PreemptInv, NoneBarred
<1>4. CASE reschedule_pending' = Core
  BY <1>3, <1>4 DEF PreemptInv, SettledOrPromised, DisturbingIsSure, ClearedIsPromised, Sure
<1>5. ASSUME UNCHANGED <<status, current_priority, current_thread, reschedule_pending>>
      PROVE  SettledOrPromised'
  <2>1. \A c \in Core : KeepsRunning(c) => KeepsRunning(c)'
    BY <1>5 DEF KeepsRunning
  <2>2. \A c \in Core : Settled(c)'
    BY <1>2, <1>5, <2>1 DEF Settled
  <2> QED
    BY <2>2 DEF SettledOrPromised
<1>6. CASE /\ UNCHANGED <<status, current_priority, current_thread, reschedule_pending>>
           /\ \A k : In(k, calls') =>
                k.op \in {"WakeupAllWaitingThreads", "RescheduleTimer", "Acquire"}
  <2>1. DisturbingIsSure'
    BY <1>6 DEF DisturbingIsSure, Disturbing
  <2>2. ClearedIsPromised'
    BY <1>6, CallNames DEF ClearedIsPromised
  <2> QED
    BY <1>3, <1>5, <1>6, <2>1, <2>2 DEF PreemptInv
<1>7. ASSUME NEW u \in Thread, ThreadWakeupCallback(u) PROVE PreemptInv'
  <2>1. /\ UNCHANGED <<status, current_priority, current_thread, reschedule_pending>>
        /\ calls' = TimeoutCalls(u)
    BY <1>7 DEF ThreadWakeupCallback, schedVars, prioVars
  <2>2. \A k : In(k, calls') <=>
          \/ /\ status[u] \in WaitSynch
             /\ (\E p : In(p, wait_objects[u]) /\ k = Remove(p, u)) \/ k = Clear(u)
          \/ k = Resume(u)
    BY <2>1, TimeoutBody
  <2>3. DisturbingIsSure'
    BY <2>2, CallNames DEF DisturbingIsSure, Disturbing
  <2>4. ClearedIsPromised'
    <3> SUFFICES ASSUME NEW t \in Thread, In(Clear(t), calls') PROVE Promised(t)'
      BY DEF ClearedIsPromised
    <3>1. t = u /\ status[u] \in WaitSynch
      BY <2>2, CallNames
    <3>2. In(Resume(u), calls')
      BY <2>2
    <3> QED
      BY <2>1, <3>1, <3>2 DEF Promised, Waiting
  <2> QED
    BY <1>3, <1>5, <2>1, <2>3, <2>4 DEF PreemptInv
<1>8. ASSUME NEW c \in Core, NEW t \in Thread, NEW p \in Process, TerminateProcess(c, t, p)
      PROVE  PreemptInv'
  <2>1. /\ current_thread'[c] = t /\ t # None
        /\ calls' = [i \in 1 .. NumCores |->
                       [op |-> "TerminateProcessThreads", core |-> i - 1, process |-> p]]
    BY <1>8 DEF TerminateProcess, Caller
  <2>2. c + 1 \in 1 .. NumCores /\ (c + 1) - 1 = c
    BY ParameterAssumption DEF Core
  <2>3. Len(calls') = NumCores
    BY <2>1, ParameterAssumption
  <2>4. calls'[c + 1] = Terminating(c, p)
    BY <2>1, <2>2 DEF Terminating
  <2>5. In(Terminating(c, p), calls')
    BY <2>2, <2>3, <2>4 DEF In
  <2>6. Sure'
    BY <2>1, <2>5 DEF Sure
  <2> QED
    BY <1>3, <2>6 DEF PreemptInv, SettledOrPromised, DisturbingIsSure, ClearedIsPromised
<1>9. ASSUME NEW c \in Core, Reschedule(c) PROVE PreemptInv'
  <2>1. \A d \in Core : Settled(d)'
    BY <1>2, <1>9, RescheduleSettled DEF PreemptInv
  <2>2. \A k : ~ In(k, calls')
    BY <1>1, <1>9 DEF Reschedule
  <2> QED
    BY <1>3, <2>1, <2>2
    DEF PreemptInv, SettledOrPromised, DisturbingIsSure, ClearedIsPromised
<1> QED
  BY <1>4, <1>6, <1>7, <1>8, <1>9, StartSchedule

\* In every reachable state a core that should reschedule will: when one process
\* runs and no thread was barred from scheduling.
LEMMA PreemptInvariant ==
  ASSUME SingleProcess, Suspendable = {}
  PROVE  Spec => []PreemptInv
PROOF
<1>1. Init => PreemptInv
  <2> SUFFICES ASSUME Init PROVE PreemptInv
    OBVIOUS
  <2>1. \A k : ~ In(k, calls)
    BY DEF Init, In
  <2>2. \A t \in Thread : status[t] # "Ready" /\ can_schedule[t]
    BY DEF Init
  <2> QED
    BY <2>1, <2>2
    DEF PreemptInv, SettledOrPromised, DisturbingIsSure, ClearedIsPromised, NoneBarred, Settled
<1>2. KernelInv /\ PreemptInv /\ [Next]_vars => PreemptInv'
  <2> SUFFICES ASSUME KernelInv, PreemptInv, [Next]_vars PROVE PreemptInv'
    OBVIOUS
  <2>1. TypeOK /\ SchedulerInv /\ ShapeInv /\ WaitInv
    BY DEF KernelInv
  <2>2. CASE CallStep
    BY <2>1, <2>2, CallStepPreemptInv
  <2>3. CASE Next /\ ~ CallStep
    BY <2>1, <2>3, StartPreemptInv
  <2>4. CASE UNCHANGED vars
    BY <2>4
    DEF vars, schedVars, prioVars, PreemptInv, SettledOrPromised, DisturbingIsSure,
        ClearedIsPromised, NoneBarred, Settled, Sure, Promised, KeepsRunning
  <2> QED
    BY <2>2, <2>3, <2>4
<1> QED
  BY <1>1, <1>2, KernelInvariant, PTL DEF Spec

\* No missed preemption (NoMissedPreemption): when there is one process and
\* ControlProcess bars no thread, every priority change, wake-up, timeout, release and
\* termination that makes a better thread ready ends with PrepareReschedule, and
\* Reschedule takes the best one.  With a second process a terminated waiter can take
\* the running holder's boost away without a reschedule (Thread::Stop asks for none).
THEOREM NoMissedPreemptionHolds ==
  ASSUME SingleProcess, Suspendable = {}
  PROVE  Spec => []NoMissedPreemption
PROOF
<1>1. PreemptInv => NoMissedPreemption
  <2> SUFFICES ASSUME PreemptInv, calls = << >> PROVE \A c \in Core : Settled(c)
    BY DEF NoMissedPreemption, Quiet, Settled
  <2>1. \A k : ~ In(k, calls)
    BY DEF In
  <2> QED
    BY <2>1 DEF PreemptInv, SettledOrPromised, Sure, Promised, Settled
<1> QED
  BY <1>1, PreemptInvariant, PTL
=============================================================================
