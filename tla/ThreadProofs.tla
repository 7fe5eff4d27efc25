----------------------------- MODULE ThreadProofs -----------------------------
(***************************************************************************)
(* Threads: the scheduler, then waiting.                                    *)
(*                                                                         *)
(* First the operators of KernelState (vectors, the ready queue, the best   *)
(* priority of a set, the shape of pending calls); from them the type       *)
(* correctness of the kernel and the scheduler's invariant, for any number  *)
(* of threads, objects, priorities, cores and processes: the ready queue    *)
(* holds exactly the ready threads, each once and at its current priority,  *)
(* and a core runs at most one thread.  The last two are proved together:   *)
(* that a preempted thread may be put in the queue needs it not to be       *)
(* there, hence to be running, and that it is put in its own core's queue   *)
(* needs the current thread of a core to belong to that core.               *)
(*                                                                         *)
(* Then waiting lists, wait objects and pending mutexes agree between       *)
(* handlers.  While a handler runs they do not: a thread being woken, timed *)
(* out or stopped leaves its waiting lists one by one.  The invariant       *)
(* relates each disagreement to the calls that are still to repair it, and  *)
(* to their order: a thread leaves every list before its wait objects are   *)
(* cleared, and has them cleared before it is resumed.  The last part is    *)
(* about timeouts: a thread has at most one scheduled wake-up, and only     *)
(* while it waits or was woken and has not run yet.                         *)
(***************************************************************************)
EXTENDS KernelProperties, WellFoundedInduction, TLAPS

\* Every non-empty set of priorities has a best one, and Best returns it.
LEMMA BestInSet ==
  ASSUME NEW S, S \subseteq Prio, S # {}
  PROVE  Best(S) \in S /\ \A q \in S : Best(S) <= q
PROOF
<1>1. S \subseteq Nat
  BY ParameterAssumption DEF Prio
<1>2. PICK p \in S : \A q \in S : ~ (<<q, p>> \in OpToRel(<, Nat))
  BY <1>1, WFMin, NatLessThanWellFounded
<1>3. \A q \in S : p <= q
  <2>1. TAKE q \in S
  <2>2. p \in Nat /\ q \in Nat
    BY <1>1
  <2>3. ~ (q < p)
    BY <1>2, <2>2 DEF OpToRel
  <2> QED
    BY <2>2, <2>3
<1> QED
  BY <1>3 DEF Best

\* Erasing the first x of a vector without duplicates removes x and nothing
\* else, and introduces no duplicate.
LEMMA EraseType ==
  ASSUME NEW T, NEW s \in Seq(T), NEW x
  PROVE  /\ Erase(x, s) \in Seq(T)
         /\ In(x, s) => Len(Erase(x, s)) = Len(s) - 1
PROOF
<1>1. CASE ~ In(x, s)
  BY <1>1 DEF Erase
<1>2. CASE In(x, s)
  <2>1. Len(s) \in Nat /\ Len(s) >= 1
    BY <1>2 DEF In
  <2>2. \A i \in 1 .. Len(s) - 1 : s[i] \in T /\ s[i + 1] \in T
    BY <2>1
  <2>3. Erase(x, s) \in [1 .. Len(s) - 1 -> T]
    BY <1>2, <2>2 DEF Erase
  <2> QED
    BY <2>1, <2>3
<1> QED
  BY <1>1, <1>2

\* Erasing x from a sequence without duplicates removes x and nothing else.
LEMMA EraseMembers ==
  ASSUME NEW T, NEW s \in Seq(T), NEW x, NoDuplicates(s)
  PROVE  /\ NoDuplicates(Erase(x, s))
         /\ \A y : In(y, Erase(x, s)) <=> In(y, s) /\ y # x
PROOF
<1>1. CASE ~ In(x, s)
  BY <1>1 DEF Erase, In
<1>2. CASE In(x, s)
  <2> DEFINE k == IndexOf(x, s)
             e == Erase(x, s)
             n == Len(s)
  <2>1. n \in Nat /\ n >= 1
    BY <1>2 DEF In
  <2>2. k \in 1 .. n /\ s[k] = x
    <3>1. PICK i \in 1 .. n : s[i] = x
      BY <1>2 DEF In
    <3>2. \A j \in 1 .. i - 1 : s[j] # x
      BY <3>1, <2>1 DEF NoDuplicates
    <3> QED
      BY <3>1, <3>2 DEF IndexOf
  <2>3. e = [i \in 1 .. n - 1 |-> IF i < k THEN s[i] ELSE s[i + 1]]
    BY <1>2 DEF Erase
  <2>4. Len(e) = n - 1
    BY <1>2, EraseType
  <2> HIDE DEF k, e, n
  <2>5. \A i \in 1 .. n - 1 : e[i] = IF i < k THEN s[i] ELSE s[i + 1]
    BY <2>3
  <2>6. \A i, j \in 1 .. n : s[i] = s[j] => i = j
    BY DEF NoDuplicates, n
  <2>7. \A i, j \in 1 .. n - 1 : e[i] = e[j] => i = j
    <3> SUFFICES ASSUME NEW i \in 1 .. n - 1, NEW j \in 1 .. n - 1, e[i] = e[j]
                 PROVE  i = j
      OBVIOUS
    <3>1. (IF i < k THEN i ELSE i + 1) = (IF j < k THEN j ELSE j + 1)
      BY <2>1, <2>2, <2>5, <2>6
    <3> QED
      BY <3>1, <2>1, <2>2
  <2>8. ASSUME NEW y PROVE In(y, e) <=> In(y, s) /\ y # x
    <3>1. ASSUME In(y, e) PROVE In(y, s) /\ y # x
      <4>1. PICK i \in 1 .. n - 1 : e[i] = y
        BY <3>1, <2>4 DEF In
      <4>2. PICK j \in 1 .. n : s[j] = y /\ j # k
        BY <4>1, <2>5, <2>1, <2>2
      <4> QED
        BY <4>2, <2>2, <2>6 DEF In, n
    <3>2. ASSUME In(y, s), y # x PROVE In(y, e)
      <4>1. PICK j \in 1 .. n : s[j] = y
        BY <3>2 DEF In, n
      <4>2. j # k
        BY <4>1, <3>2, <2>2
      <4>3. CASE j < k
        <5>1. j \in 1 .. n - 1 /\ e[j] = y
          BY <4>1, <4>3, <2>1, <2>2, <2>5
        <5> QED
          BY <5>1, <2>4 DEF In
      <4>4. CASE j > k
        <5>1. j - 1 \in 1 .. n - 1 /\ e[j - 1] = y
          BY <4>1, <4>4, <2>1, <2>2, <2>5
        <5> QED
          BY <5>1, <2>4 DEF In
      <4> QED
        BY <4>1, <4>2, <4>3, <4>4, <2>1, <2>2
    <3> QED
      BY <3>1, <3>2
  <2>9. NoDuplicates(e)
    BY <2>4, <2>7 DEF NoDuplicates
  <2> QED
    BY <2>8, <2>9 DEF e
<1> QED
  BY <1>1, <1>2

\* Members of a concatenation, of a vector with one more element at its end,
\* and of the rest of a vector.
LEMMA InConcat ==
  ASSUME NEW T, NEW a \in Seq(T), NEW b \in Seq(T), NEW y
  PROVE  In(y, a \o b) <=> In(y, a) \/ In(y, b)
PROOF
<1>1. /\ Len(a \o b) = Len(a) + Len(b)
      /\ Len(a) \in Nat /\ Len(b) \in Nat
      /\ \A i \in 1 .. Len(a) + Len(b) :
           (a \o b)[i] = IF i <= Len(a) THEN a[i] ELSE b[i - Len(a)]
  OBVIOUS
<1>2. ASSUME In(y, a \o b) PROVE In(y, a) \/ In(y, b)
  <2>1. PICK i \in 1 .. Len(a) + Len(b) : (a \o b)[i] = y
    BY <1>1, <1>2 DEF In
  <2>2. i <= Len(a) => i \in 1 .. Len(a) /\ a[i] = y
    BY <2>1, <1>1
  <2>3. ~ (i <= Len(a)) => i - Len(a) \in 1 .. Len(b) /\ b[i - Len(a)] = y
    BY <2>1, <1>1
  <2> QED
    BY <2>2, <2>3 DEF In
<1>3. ASSUME In(y, a) PROVE In(y, a \o b)
  <2>1. PICK i \in 1 .. Len(a) : a[i] = y
    BY <1>3 DEF In
  <2>2. i \in 1 .. Len(a) + Len(b) /\ (a \o b)[i] = y
    BY <2>1, <1>1
  <2> QED
    BY <2>2, <1>1 DEF In
<1>4. ASSUME In(y, b) PROVE In(y, a \o b)
  <2>1. PICK i \in 1 .. Len(b) : b[i] = y
    BY <1>4 DEF In
  <2>2. i + Len(a) \in 1 .. Len(a) + Len(b) /\ (a \o b)[i + Len(a)] = y
    BY <2>1, <1>1
  <2> QED
    BY <2>2, <1>1 DEF In
<1> QED
  BY <1>2, <1>3, <1>4

\* Appending adds one member, at the end.
LEMMA AppendMembers ==
  ASSUME NEW T, NEW s \in Seq(T), NEW x \in T
  PROVE  /\ Append(s, x) \in Seq(T)
         /\ \A y : In(y, Append(s, x)) <=> In(y, s) \/ y = x
         /\ NoDuplicates(s) /\ ~ In(x, s) => NoDuplicates(Append(s, x))
PROOF
<1> DEFINE a == Append(s, x)
           n == Len(s)
<1>1. /\ a \in Seq(T) /\ n \in Nat /\ Len(a) = n + 1
      /\ \A i \in 1 .. n : a[i] = s[i]
      /\ a[n + 1] = x
  OBVIOUS
<1>2. \A i \in 1 .. n + 1 : i \in 1 .. n \/ i = n + 1
  BY <1>1
<1>3. ASSUME NEW y PROVE In(y, a) <=> In(y, s) \/ y = x
  <2>1. ASSUME In(y, a) PROVE In(y, s) \/ y = x
    BY <2>1, <1>1, <1>2 DEF In
  <2>2. ASSUME In(y, s) PROVE In(y, a)
    <3>1. PICK i \in 1 .. n : s[i] = y
      BY <2>2 DEF In
    <3>2. i \in 1 .. Len(a) /\ a[i] = y
      BY <3>1, <1>1
    <3> QED
      BY <3>2 DEF In
  <2>3. In(x, a)
    <3>1. n + 1 \in 1 .. Len(a)
      BY <1>1
    <3> QED
      BY <3>1, <1>1 DEF In
  <2> QED
    BY <2>1, <2>2, <2>3
<1>4. ASSUME NoDuplicates(s), ~ In(x, s) PROVE NoDuplicates(a)
  <2> SUFFICES ASSUME NEW i \in 1 .. n + 1, NEW j \in 1 .. n + 1, a[i] = a[j]
               PROVE  i = j
    BY <1>1 DEF NoDuplicates
  <2>1. \A k \in 1 .. n : s[k] # x
    BY <1>4 DEF In
  <2> QED
    BY <1>1, <1>2, <1>4, <2>1 DEF NoDuplicates
<1> QED
  BY <1>1, <1>3, <1>4

\* Pushing to the front adds one member.
LEMMA PrependMembers ==
  ASSUME NEW T, NEW s \in Seq(T), NEW x \in T
  PROVE  /\ <<x>> \o s \in Seq(T)
         /\ \A y : In(y, <<x>> \o s) <=> In(y, s) \/ y = x
         /\ NoDuplicates(s) /\ ~ In(x, s) => NoDuplicates(<<x>> \o s)
PROOF
<1> DEFINE a == <<x>> \o s
           n == Len(s)
<1>1. /\ a \in Seq(T) /\ n \in Nat /\ Len(a) = n + 1
      /\ \A i \in 2 .. n + 1 : a[i] = s[i - 1]
      /\ a[1] = x
  OBVIOUS
<1>2. ASSUME NEW y PROVE In(y, a) <=> In(y, s) \/ y = x
  <2>1. In(y, <<x>>) <=> y = x
    BY DEF In
  <2>2. <<x>> \in Seq(T)
    OBVIOUS
  <2>3. In(y, <<x>> \o s) <=> In(y, <<x>>) \/ In(y, s)
    BY <2>2, InConcat
  <2> QED
    BY <2>1, <2>3
<1>3. ASSUME NoDuplicates(s), ~ In(x, s) PROVE NoDuplicates(a)
  <2> SUFFICES ASSUME NEW i \in 1 .. n + 1, NEW j \in 1 .. n + 1, a[i] = a[j]
               PROVE  i = j
    BY <1>1 DEF NoDuplicates
  <2>1. \A k \in 1 .. n : s[k] # x
    BY <1>3 DEF In
  <2>2. \A k \in 1 .. n + 1 : k = 1 \/ (k \in 2 .. n + 1 /\ k - 1 \in 1 .. n)
    BY <1>1
  <2>3. CASE i = 1 \/ j = 1
    BY <1>1, <2>1, <2>2, <2>3
  <2>4. CASE i # 1 /\ j # 1
    <3>1. s[i - 1] = s[j - 1] /\ i - 1 \in 1 .. n /\ j - 1 \in 1 .. n
      BY <1>1, <2>2, <2>4
    <3>2. i - 1 = j - 1
      BY <3>1, <1>3 DEF NoDuplicates
    <3> QED
      BY <3>2
  <2> QED
    BY <2>3, <2>4
<1> QED
  BY <1>1, <1>2, <1>3

\* The members of a sequence are its head and the members of its tail.
LEMMA TailMembers ==
  ASSUME NEW T, NEW s \in Seq(T), s # << >>
  PROVE  /\ Head(s) \in T /\ Tail(s) \in Seq(T)
         /\ \A y : In(y, s) <=> In(y, Tail(s)) \/ y = Head(s)
PROOF
<1>1. Head(s) \in T /\ Tail(s) \in Seq(T)
  OBVIOUS
<1>2. <<Head(s)>> \o Tail(s) = s
  OBVIOUS
<1>3. \A y : In(y, <<Head(s)>> \o Tail(s)) <=> In(y, Tail(s)) \/ y = Head(s)
  BY <1>1, PrependMembers
<1> QED
  BY <1>1, <1>2, <1>3

-----------------------------------------------------------------------------
\* The fields of a pending call, by the method it calls.
LEMMA CallFields ==
  ASSUME NEW k \in Call
  PROVE  /\ k.op \in {"Acquire", "AddWaitingThread", "RemoveWaitingThread"} =>
              k.obj \in Object /\ k.thr \in Thread
         /\ k.op \in {"WakeupAllWaitingThreads", "RescheduleTimer"} => k.obj \in Object
         /\ k.op \in {"ClearWaitObjects", "ResumeFromWait", "ReleaseThreadMutexes", "Stop"}
              => k.thr \in Thread
         /\ k.op = "TerminateProcessThreads" => k.core \in Core /\ k.process \in Process
         /\ k.op = "UpdateMutexes" => k.mutexes \in SUBSET Mutex
PROOF
  BY DEF Call

\* The constructors of calls build calls.
LEMMA CallMakers ==
  /\ \A op \in {"Acquire", "AddWaitingThread", "RemoveWaitingThread"},
        o \in Object, t \in Thread : ThreadObjectCall(op, o, t) \in Call
  /\ \A op \in {"WakeupAllWaitingThreads", "RescheduleTimer"}, o \in Object :
       ObjectCall(op, o) \in Call
  /\ \A op \in {"ClearWaitObjects", "ResumeFromWait", "ReleaseThreadMutexes", "Stop"},
        t \in Thread : ThreadCall(op, t) \in Call
  /\ \A c \in Core, p \in Process :
       [op |-> "TerminateProcessThreads", core |-> c, process |-> p] \in Call
  /\ \A ms \in SUBSET Mutex : [op |-> "UpdateMutexes", mutexes |-> ms] \in Call
PROOF
  BY DEF Call, ThreadObjectCall, ObjectCall, ThreadCall

\* A call for every object of a vector is a sequence of calls.
LEMMA ForEachType ==
  ASSUME NEW op \in {"Acquire", "AddWaitingThread", "RemoveWaitingThread"},
         NEW objs \in Seq(Object), NEW t \in Thread
  PROVE  /\ ForEach(op, objs, t) \in Seq(Call)
         /\ \A k : In(k, ForEach(op, objs, t)) <=>
              \E i \in 1 .. Len(objs) : k = ThreadObjectCall(op, objs[i], t)
PROOF
<1>1. \A i \in 1 .. Len(objs) : ThreadObjectCall(op, objs[i], t) \in Call
  BY CallMakers
<1>2. ForEach(op, objs, t) \in Seq(Call)
  BY <1>1 DEF ForEach
<1>3. /\ Len(ForEach(op, objs, t)) = Len(objs)
      /\ \A i \in 1 .. Len(objs) : ForEach(op, objs, t)[i] = ThreadObjectCall(op, objs[i], t)
  BY DEF ForEach
<1> QED
  BY <1>2, <1>3 DEF In

-----------------------------------------------------------------------------
\* The ready queue stays a family of vectors of threads.
LEMMA QueueType ==
  ASSUME NEW q \in [Core \X Prio -> Seq(Thread)], NEW t \in Thread, NEW p \in Prio
  PROVE  /\ Level(t, p) \in Core \X Prio
         /\ PushBack(q, t, p) \in [Core \X Prio -> Seq(Thread)]
         /\ PushFront(q, t, p) \in [Core \X Prio -> Seq(Thread)]
         /\ RemoveFrom(q, t, p) \in [Core \X Prio -> Seq(Thread)]
PROOF
<1>1. Level(t, p) \in Core \X Prio
  BY ParameterAssumption DEF Level
<1>2. q[Level(t, p)] \in Seq(Thread)
  BY <1>1
<1>3. /\ Append(q[Level(t, p)], t) \in Seq(Thread)
      /\ <<t>> \o q[Level(t, p)] \in Seq(Thread)
      /\ Erase(t, q[Level(t, p)]) \in Seq(Thread)
  BY <1>2, AppendMembers, PrependMembers, EraseType
<1> QED
  BY <1>1, <1>3 DEF PushBack, PushFront, RemoveFrom

-----------------------------------------------------------------------------
(* Type correctness *)

\* An inherited priority is a priority: Thread::UpdatePriority stays in range.
LEMMA PriorityType ==
  /\ \A n \in Prio, held \in SUBSET Mutex, prio \in [Mutex -> Prio] :
       InheritedPriority(n, held, prio) \in Prio
  /\ \A w \in Seq(Thread) :
       current_priority \in [Thread -> Prio] => WaitersPriority(w) \in Prio
PROOF
<1>1. ASSUME NEW n \in Prio, NEW held \in SUBSET Mutex, NEW prio \in [Mutex -> Prio]
      PROVE  InheritedPriority(n, held, prio) \in Prio
  <2>1. {n} \cup {prio[m] : m \in held} \subseteq Prio
    OBVIOUS
  <2> QED
    BY <2>1, BestInSet DEF InheritedPriority
<1>2. ASSUME NEW w \in Seq(Thread), current_priority \in [Thread -> Prio]
      PROVE  WaitersPriority(w) \in Prio
  <2>1. ThreadPrioLowest \in Prio
    BY ParameterAssumption DEF Prio
  <2>2. \A i \in 1 .. Len(w) : current_priority[w[i]] \in Prio
    BY <1>2
  <2>3. {ThreadPrioLowest} \cup {current_priority[w[i]] : i \in 1 .. Len(w)} \subseteq Prio
    BY <2>1, <2>2
  <2> QED
    BY <2>3, BestInSet DEF WaitersPriority
<1> QED
  BY <1>1, <1>2

\* Thread::BoostPriority keeps priorities and the ready queue well typed.
LEMMA BoostType ==
  ASSUME TypeOK, NEW t \in Thread, NEW p \in Prio, BoostPriority(t, p)
  PROVE  /\ current_priority' \in [Thread -> Prio]
         /\ ready_queue' \in [Core \X Prio -> Seq(Thread)]
PROOF
<1>1. current_priority[t] \in Prio
  BY DEF TypeOK
<1>2. RemoveFrom(ready_queue, t, current_priority[t]) \in [Core \X Prio -> Seq(Thread)]
  BY <1>1, QueueType DEF TypeOK
<1>3. Move(ready_queue, t, current_priority[t], p) \in [Core \X Prio -> Seq(Thread)]
  BY <1>2, QueueType DEF Move
<1> QED
  BY <1>3 DEF BoostPriority, TypeOK

\* Mutex::UpdatePriority keeps priorities and the ready queue well typed.
LEMMA MutexUpdateType ==
  ASSUME TypeOK, NEW m \in Mutex, NEW w \in Seq(Thread), MutexUpdatePriority(m, w)
  PROVE  /\ priority' \in [Mutex -> Prio]
         /\ current_priority' \in [Thread -> Prio]
         /\ ready_queue' \in [Core \X Prio -> Seq(Thread)]
PROOF
<1>1. CASE holding_thread[m] = None \/ WaitersPriority(w) = priority[m]
  BY <1>1 DEF MutexUpdatePriority, TypeOK
<1>2. CASE ~ (holding_thread[m] = None \/ WaitersPriority(w) = priority[m])
  <2> DEFINE h == holding_thread[m]
  <2>1. h \in Thread
    BY <1>2 DEF TypeOK
  <2>2. WaitersPriority(w) \in Prio
    BY PriorityType DEF TypeOK
  <2>3. priority' = [priority EXCEPT ![m] = WaitersPriority(w)]
    BY <1>2 DEF MutexUpdatePriority
  <2>4. priority' \in [Mutex -> Prio]
    BY <2>2, <2>3 DEF TypeOK
  <2>5. nominal_priority[h] \in Prio /\ held_mutexes[h] \in SUBSET Mutex
    BY <2>1 DEF TypeOK
  <2>6. InheritedPriority(nominal_priority[h], held_mutexes[h], priority') \in Prio
    BY <2>4, <2>5, PriorityType
  <2>7. BoostPriority(h, InheritedPriority(nominal_priority[h], held_mutexes[h], priority'))
    BY <1>2 DEF MutexUpdatePriority, ThreadUpdatePriority
  <2> QED
    BY <2>1, <2>4, <2>6, <2>7, BoostType
<1> QED
  BY <1>1, <1>2

\* A pending call, its fields and the calls that follow it.
LEMMA NextCall ==
  ASSUME TypeOK, calls # << >>
  PROVE  Head(calls) \in Call /\ Tail(calls) \in Seq(Call)
PROOF
  BY TailMembers DEF TypeOK

-----------------------------------------------------------------------------
(***************************************************************************)
(* Handlers as stacks of calls: a step replaces or extends the first call,  *)
(* and every other pending call stays pending.                              *)
(***************************************************************************)
LEMMA CallBody ==
  ASSUME TypeOK, CallStep
  PROVE  /\ calls # << >>
         /\ \E body \in Seq(Call) : calls' = body \o Tail(calls) \/ calls' = body \o calls
PROOF
<1>1. calls # << >>
  BY DEF CallStep, Acquire, AddWaitingThread, RemoveWaitingThread, WakeupThread,
         WakeupCalls, WakeupDone, ClearWaitObjects, ResumeFromWait, BecomeReady, Stop,
         StopCalls, TerminateProcessThreads, ReleaseThreadMutexes, ForgetMutexes,
         UpdateMutexes, RescheduleTimer, Make
<1>2. Head(calls) \in Call /\ Tail(calls) \in Seq(Call) /\ calls \in Seq(Call)
  BY <1>1, NextCall DEF TypeOK
<1>3. << >> \in Seq(Call) /\ Tail(calls) = << >> \o Tail(calls)
  BY <1>2
<1>4. CASE Acquire \/ AddWaitingThread \/ RemoveWaitingThread \/ WakeupDone
             \/ ClearWaitObjects \/ ResumeFromWait \/ RescheduleTimer
  <2>1. calls' = << >> \o Tail(calls)
    BY <1>4 DEF Acquire, AddWaitingThread, RemoveWaitingThread, WakeupDone,
                ClearWaitObjects, ResumeFromWait, BecomeReady, RescheduleTimer, Make
  <2> QED
    BY <1>1, <1>3, <2>1
<1>5. CASE WakeupThread
  <2> DEFINE o == Head(calls).obj
  <2>1. o \in Object
    BY <1>2, <1>5, CallFields DEF WakeupThread, WakeupCalls
  <2>2. PICK i \in 1 .. Len(waiting_threads[o]) :
          calls' = ForEach("Acquire",
                           IF status[waiting_threads[o][i]] = "WaitSynchAll"
                           THEN wait_objects[waiting_threads[o][i]]
                           ELSE <<o>>, waiting_threads[o][i])
                   \o ForEach("RemoveWaitingThread", wait_objects[waiting_threads[o][i]],
                              waiting_threads[o][i])
                   \o <<ThreadCall("ClearWaitObjects", waiting_threads[o][i]),
                        ThreadCall("ResumeFromWait", waiting_threads[o][i])>>
                   \o calls
    BY <1>5 DEF WakeupThread, WakeupCalls
  <2> DEFINE t == waiting_threads[o][i]
             got == IF status[t] = "WaitSynchAll" THEN wait_objects[t] ELSE <<o>>
             body == ForEach("Acquire", got, t)
                       \o ForEach("RemoveWaitingThread", wait_objects[t], t)
                       \o <<ThreadCall("ClearWaitObjects", t), ThreadCall("ResumeFromWait",
                       t)>>
  <2>3. t \in Thread
    <3>1. waiting_threads[o] \in Seq(Thread)
      BY <2>1 DEF TypeOK
    <3>2. i \in 1 .. Len(waiting_threads[o])
      OBVIOUS
    <3> HIDE DEF o
    <3> QED
      BY <3>1, <3>2
  <2>4. wait_objects[t] \in Seq(Object) /\ got \in Seq(Object)
    BY <2>1, <2>3 DEF TypeOK
  <2>5. /\ ForEach("Acquire", got, t) \in Seq(Call)
        /\ ForEach("RemoveWaitingThread", wait_objects[t], t) \in Seq(Call)
        /\ ThreadCall("ClearWaitObjects", t) \in Call
        /\ ThreadCall("ResumeFromWait", t) \in Call
    BY <2>3, <2>4, ForEachType, CallMakers
  <2>6. body \in Seq(Call)
    <3> HIDE DEF t, got
    <3> QED
      BY <2>5
  <2>7. calls' = body \o calls
    BY <2>2
  <2> HIDE DEF body
  <2> QED
    BY <1>1, <2>6, <2>7
<1>6. CASE Stop
  <2> DEFINE t == Head(calls).thr
             body == <<ObjectCall("WakeupAllWaitingThreads", t)>>
                       \o ForEach("RemoveWaitingThread", wait_objects[t], t)
                       \o <<ThreadCall("ClearWaitObjects", t),
                            ThreadCall("ReleaseThreadMutexes", t)>>
  <2>1. t \in Thread
    BY <1>2, <1>6, CallFields DEF Stop, StopCalls, Make
  <2>2. t \in Object /\ wait_objects[t] \in Seq(Object)
    BY <2>1 DEF Object, TypeOK
  <2>3. /\ ObjectCall("WakeupAllWaitingThreads", t) \in Call
        /\ ForEach("RemoveWaitingThread", wait_objects[t], t) \in Seq(Call)
        /\ ThreadCall("ClearWaitObjects", t) \in Call
        /\ ThreadCall("ReleaseThreadMutexes", t) \in Call
    BY <2>1, <2>2, ForEachType, CallMakers
  <2>4. body \in Seq(Call)
    <3> HIDE DEF t
    <3> QED
      BY <2>3
  <2>5. calls' = body \o Tail(calls)
    BY <1>6 DEF Stop, StopCalls, Make
  <2> HIDE DEF body
  <2> QED
    BY <1>1, <2>4, <2>5
<1>7. ASSUME NEW k \in Call,
             \/ calls' = <<k>> \o Tail(calls)
             \/ calls' = <<k>> \o calls
             \/ calls' = Tail(calls)
      PROVE  \E body \in Seq(Call) : calls' = body \o Tail(calls) \/ calls' = body \o calls
  <2>1. <<k>> \in Seq(Call)
    OBVIOUS
  <2> QED
    BY <1>3, <1>7, <2>1
<1>8. CASE TerminateProcessThreads
  <2> DEFINE c == Head(calls).core
  <2>1. c \in Core
    BY <1>2, <1>8, CallFields DEF TerminateProcessThreads
  <2>2. current_thread[c] \in Thread \cup {None}
    BY <2>1 DEF TypeOK
  <2>3. \A t \in Thread : ThreadCall("Stop", t) \in Call
    BY CallMakers
  <2>4. \/ \E t \in Thread : calls' = <<ThreadCall("Stop", t)>> \o calls
        \/ calls' = <<ThreadCall("Stop", current_thread[c])>> \o Tail(calls)
           /\ current_thread[c] \in Thread
        \/ calls' = Tail(calls)
    BY <1>8, <2>2 DEF TerminateProcessThreads
  <2> QED
    BY <1>1, <1>2, <1>7, <2>3, <2>4
<1>9. CASE ReleaseThreadMutexes
  <2> DEFINE t == Head(calls).thr
  <2>1. t \in Thread
    BY <1>2, <1>9, CallFields DEF ReleaseThreadMutexes, ForgetMutexes
  <2>2. held_mutexes[t] \subseteq Mutex
    BY <2>1 DEF TypeOK
  <2>3. \A m \in Mutex : ObjectCall("WakeupAllWaitingThreads", m) \in Call
    BY CallMakers DEF Object
  <2>4. \/ \E m \in Mutex : calls' = <<ObjectCall("WakeupAllWaitingThreads", m)>> \o calls
        \/ calls' = Tail(calls)
    BY <1>9, <2>2 DEF ReleaseThreadMutexes, ForgetMutexes
  <2> QED
    BY <1>1, <1>2, <1>7, <2>3, <2>4
<1>10. CASE UpdateMutexes
  <2> DEFINE ms == Head(calls).mutexes
  <2>1. ms \in SUBSET Mutex
    BY <1>2, <1>10, CallFields DEF UpdateMutexes
  <2>2. \A m : [op |-> "UpdateMutexes", mutexes |-> ms \ {m}] \in Call
    BY <2>1, CallMakers
  <2>3. \/ \E m : calls' = <<[op |-> "UpdateMutexes", mutexes |-> ms \ {m}]>> \o Tail(calls)
        \/ calls' = Tail(calls)
    BY <1>10 DEF UpdateMutexes
  <2> QED
    BY <1>1, <1>2, <1>7, <2>2, <2>3
<1> QED
  BY <1>4, <1>5, <1>6, <1>8, <1>9, <1>10 DEF CallStep

\* A step of a handler makes the first call only: every other one stays pending.
LEMMA PendingKept ==
  ASSUME TypeOK, CallStep, NEW k, In(k, calls), k # Head(calls)
  PROVE  In(k, calls')
PROOF
<1>1. PICK body \in Seq(Call) : calls' = body \o Tail(calls) \/ calls' = body \o calls
  BY CallBody
<1>2. calls \in Seq(Call) /\ calls # << >>
  BY CallBody DEF TypeOK
<1>3. Tail(calls) \in Seq(Call) /\ In(k, Tail(calls))
  BY <1>2, TailMembers
<1>4. In(k, body \o Tail(calls)) /\ In(k, body \o calls)
  BY <1>2, <1>3, InConcat
<1> QED
  BY <1>1, <1>4

\* Every step of a handler leaves well-typed calls.
LEMMA CallsType ==
  ASSUME TypeOK, CallStep
  PROVE  calls' \in Seq(Call)
PROOF
<1>1. calls \in Seq(Call) /\ Tail(calls) \in Seq(Call)
  BY CallBody, NextCall DEF TypeOK
<1>2. PICK body \in Seq(Call) : calls' = body \o Tail(calls) \/ calls' = body \o calls
  BY CallBody
<1>3. body \o Tail(calls) \in Seq(Call) /\ body \o calls \in Seq(Call)
  BY <1>1
<1> QED
  BY <1>2, <1>3

-----------------------------------------------------------------------------
(***************************************************************************)
(* Each method call keeps the types.                                       *)
(***************************************************************************)
LEMMA AcquireType ==
  ASSUME TypeOK, Acquire
  PROVE  TypeOK'
PROOF
<1> DEFINE o == Head(calls).obj
           t == Head(calls).thr
<1>1. calls # << >> /\ Head(calls).op = "Acquire"
  BY DEF Acquire, Make
<1>2. o \in Object /\ t \in Thread
  BY <1>1, NextCall, CallFields
<1>3. calls' \in Seq(Call)
  BY CallsType DEF CallStep
<1>4. CASE o \in Mutex /\ AcquireFreeMutex(o, t)
  <2>1. /\ priority' \in [Mutex -> Prio]
        /\ held_mutexes' \in [Thread -> SUBSET Mutex]
    BY <1>2, <1>4 DEF AcquireFreeMutex, TypeOK
  <2>2. InheritedPriority(nominal_priority[t], held_mutexes'[t], priority') \in Prio
    BY <1>2, <2>1, PriorityType DEF TypeOK
  <2>3. BoostPriority(t, InheritedPriority(nominal_priority[t], held_mutexes'[t],
      priority'))
    BY <1>4 DEF AcquireFreeMutex, ThreadUpdatePriority
  <2>4. /\ current_priority' \in [Thread -> Prio]
        /\ ready_queue' \in [Core \X Prio -> Seq(Thread)]
    BY <1>2, <2>2, <2>3, BoostType
  <2> QED
    BY <1>2, <1>3, <1>4, <2>1, <2>4
    DEF Acquire, AcquireFreeMutex, PrepareReschedule, TypeOK, waitVars, eventVars,
        signalVars
<1>5. CASE o \in Mutex /\ AcquireHeldMutex(o)
  BY <1>2, <1>3, <1>5, SMTT(30)
  DEF Acquire, AcquireHeldMutex, TypeOK, waitVars, eventVars, signalVars
<1>6. CASE o \in Semaphore /\ AcquireSemaphore(o)
  BY <1>2, <1>3, <1>6
  DEF Acquire, AcquireSemaphore, TypeOK, waitVars, eventVars, mutexVars
<1>7. CASE o \in Signal /\ AcquireSignal(o)
  BY <1>2, <1>3, <1>7
  DEF Acquire, AcquireSignal, TypeOK, waitVars, eventVars, mutexVars
<1>8. CASE o \in Thread /\ AcquireThread
  BY <1>2, <1>3, <1>8
  DEF Acquire, AcquireThread, TypeOK, waitVars, eventVars, mutexVars, signalVars
<1> QED
  BY <1>4, <1>5, <1>6, <1>7, <1>8 DEF Acquire

\* Adding or removing a waiting thread keeps TypeOK.
LEMMA ChangeWaitersType ==
  ASSUME TypeOK, NEW o \in Object, NEW t \in Thread, NEW w \in Seq(Thread),
         NEW pending, o \in Mutex => pending \in SUBSET Mutex,
         ChangeWaiters(o, t, w, pending), calls' \in Seq(Call)
  PROVE  TypeOK'
PROOF
<1>1. CASE o \in Mutex
  <2>1. MutexUpdatePriority(o, w)
    BY <1>1 DEF ChangeWaiters
  <2>2. /\ priority' \in [Mutex -> Prio]
        /\ current_priority' \in [Thread -> Prio]
        /\ ready_queue' \in [Core \X Prio -> Seq(Thread)]
    BY <1>1, <2>1, MutexUpdateType
  <2>3. waiting_threads' = [waiting_threads EXCEPT ![o] = w]
    BY DEF ChangeWaiters
  <2>4. waiting_threads' \in [Object -> Seq(Thread)]
    BY <2>3 DEF TypeOK
  <2> QED
    BY <1>1, <2>2, <2>4 DEF ChangeWaiters, TypeOK, signalVars, eventVars
<1>2. CASE o \notin Mutex
  BY <1>2 DEF ChangeWaiters, TypeOK, signalVars, eventVars
<1> QED
  BY <1>1, <1>2

\* AddWaitingThread and RemoveWaitingThread keep TypeOK.
LEMMA WaitingThreadType ==
  ASSUME TypeOK, AddWaitingThread \/ RemoveWaitingThread
  PROVE  TypeOK'
PROOF
<1> DEFINE o == Head(calls).obj
           t == Head(calls).thr
<1>1. /\ calls # << >>
      /\ Head(calls).op \in {"AddWaitingThread", "RemoveWaitingThread"}
  BY DEF AddWaitingThread, RemoveWaitingThread, Make
<1>2. o \in Object /\ t \in Thread
  BY <1>1, NextCall, CallFields
<1>3. calls' \in Seq(Call)
  BY CallsType DEF CallStep
<1>4. waiting_threads[o] \in Seq(Thread) /\ pending_mutexes[t] \in SUBSET Mutex
  BY <1>2 DEF TypeOK
<1>5. Append(waiting_threads[o], t) \in Seq(Thread) /\ Erase(t,
    waiting_threads[o]) \in Seq(Thread)
  BY <1>2, <1>4, AppendMembers, EraseType
<1>6. CASE AddWaitingThread
  <2> DEFINE w == IF In(t, waiting_threads[o]) THEN waiting_threads[o]
                  ELSE Append(waiting_threads[o], t)
  <2>1. w \in Seq(Thread) /\ (o \in Mutex => pending_mutexes[t] \cup {o} \in SUBSET Mutex)
    BY <1>4, <1>5
  <2>2. ChangeWaiters(o, t, w, pending_mutexes[t] \cup {o})
    BY <1>6 DEF AddWaitingThread
  <2> QED
    BY <1>2, <1>3, <2>1, <2>2, ChangeWaitersType
<1>7. CASE RemoveWaitingThread
  <2>1. pending_mutexes[t] \ {o} \in SUBSET Mutex
    BY <1>4
  <2>2. ChangeWaiters(o, t, Erase(t, waiting_threads[o]), pending_mutexes[t] \ {o})
    BY <1>7 DEF RemoveWaitingThread
  <2> QED
    BY <1>2, <1>3, <1>5, <2>1, <2>2, ChangeWaitersType
<1> QED
  BY <1>6, <1>7

\* WakeupThread keeps TypeOK.
LEMMA WakeupThreadType ==
  ASSUME TypeOK, WakeupThread
  PROVE  TypeOK'
PROOF
<1>1. calls' \in Seq(Call)
  BY CallsType DEF CallStep
<1> QED
  BY <1>1 DEF WakeupThread, WakeupCalls, TypeOK, schedVars, prioVars, waitVars,
              mutexVars, signalVars, eventVars

\* WakeupDone keeps TypeOK.
LEMMA WakeupDoneType ==
  ASSUME TypeOK, WakeupDone
  PROVE  TypeOK'
PROOF
<1>1. calls' \in Seq(Call)
  BY CallsType DEF CallStep
<1> QED
  BY <1>1 DEF WakeupDone, TypeOK, schedVars, prioVars, waitVars, mutexVars, eventVars

\* ClearWaitObjects keeps TypeOK.
LEMMA ClearWaitObjectsType ==
  ASSUME TypeOK, ClearWaitObjects
  PROVE  TypeOK'
PROOF
<1>1. calls' \in Seq(Call)
  BY CallsType DEF CallStep
<1>2. << >> \in Seq(Object)
  OBVIOUS
<1>3. wait_objects' \in [Thread -> Seq(Object)]
  BY <1>2 DEF ClearWaitObjects, TypeOK
<1> QED
  BY <1>1, <1>3 DEF ClearWaitObjects, TypeOK, schedVars, prioVars, mutexVars,
                    signalVars, eventVars

\* ResumeFromWait keeps TypeOK.
LEMMA ResumeFromWaitType ==
  ASSUME TypeOK, ResumeFromWait
  PROVE  TypeOK'
PROOF
<1> DEFINE t == Head(calls).thr
<1>1. calls # << >> /\ Head(calls).op = "ResumeFromWait"
  BY DEF ResumeFromWait, BecomeReady, Make
<1>2. t \in Thread
  BY <1>1, NextCall, CallFields
<1>3. calls' \in Seq(Call)
  BY CallsType DEF CallStep
<1>4. current_priority[t] \in Prio
  BY <1>2 DEF TypeOK
<1>5. PushBack(ready_queue, t, current_priority[t]) \in [Core \X Prio -> Seq(Thread)]
  BY <1>2, <1>4, QueueType DEF TypeOK
<1> QED
  BY <1>2, <1>3, <1>5
  DEF ResumeFromWait, BecomeReady, PrepareReschedule, TypeOK, Status, Waiting,
      WaitSynch, prioVars, waitVars, mutexVars, signalVars, eventVars

\* Stop keeps TypeOK.
LEMMA StopType ==
  ASSUME TypeOK, Stop
  PROVE  TypeOK'
PROOF
<1> DEFINE t == Head(calls).thr
<1>1. calls # << >> /\ Head(calls).op = "Stop"
  BY DEF Stop, StopCalls, Make
<1>2. t \in Thread
  BY <1>1, NextCall, CallFields
<1>3. current_priority[t] \in Prio
  BY <1>2 DEF TypeOK
<1>4. RemoveFrom(ready_queue, t, current_priority[t]) \in [Core \X Prio -> Seq(Thread)]
  BY <1>2, <1>3, QueueType DEF TypeOK
<1>5. calls' \in Seq(Call)
  BY CallsType DEF CallStep
<1> QED
  BY <1>2, <1>4, <1>5
  DEF Stop, StopCalls, TypeOK, Status, prioVars, waitVars, mutexVars, signalVars

\* TerminateProcessThreads keeps TypeOK.
LEMMA TerminateProcessThreadsType ==
  ASSUME TypeOK, TerminateProcessThreads
  PROVE  TypeOK'
PROOF
<1>1. calls' \in Seq(Call)
  BY CallsType DEF CallStep
<1> QED
  BY <1>1
  DEF TerminateProcessThreads, PrepareReschedule, TypeOK, schedVars, prioVars, waitVars,
      mutexVars, signalVars, eventVars

\* ReleaseThreadMutexes keeps TypeOK.
LEMMA ReleaseThreadMutexesType ==
  ASSUME TypeOK, ReleaseThreadMutexes
  PROVE  TypeOK'
PROOF
<1> DEFINE t == Head(calls).thr
<1>1. calls' \in Seq(Call)
  BY CallsType DEF CallStep
<1>2. /\ lock_count' \in [Mutex -> Nat]
      /\ holding_thread' \in [Mutex -> Thread \cup {None}]
      /\ held_mutexes' \in [Thread -> SUBSET Mutex]
  <2>1. CASE \E m \in held_mutexes[t] :
               /\ lock_count' = [lock_count EXCEPT ![m] = 0]
               /\ holding_thread' = [holding_thread EXCEPT ![m] = None]
               /\ UNCHANGED held_mutexes
    <3>1. PICK m : /\ lock_count' = [lock_count EXCEPT ![m] = 0]
                   /\ holding_thread' = [holding_thread EXCEPT ![m] = None]
      BY <2>1
    <3>2. /\ lock_count \in [Mutex -> Nat]
          /\ holding_thread \in [Mutex -> Thread \cup {None}]
          /\ held_mutexes' \in [Thread -> SUBSET Mutex]
      BY <2>1 DEF TypeOK
    <3> QED
      BY <3>1, <3>2
  <2>2. CASE /\ held_mutexes' = [held_mutexes EXCEPT ![t] = {}]
             /\ UNCHANGED <<lock_count, holding_thread>>
    BY <2>2 DEF TypeOK
  <2> QED
    BY <2>1, <2>2 DEF ReleaseThreadMutexes, ForgetMutexes
<1> QED
  BY <1>1, <1>2
  DEF ReleaseThreadMutexes, ForgetMutexes, TypeOK, schedVars, prioVars, waitVars,
      signalVars, eventVars

\* UpdateMutexes keeps TypeOK.
LEMMA UpdateMutexesType ==
  ASSUME TypeOK, UpdateMutexes
  PROVE  TypeOK'
PROOF
<1> DEFINE ms == Head(calls).mutexes
<1>1. calls # << >> /\ Head(calls).op = "UpdateMutexes"
  BY DEF UpdateMutexes
<1>2. ms \in SUBSET Mutex
  BY <1>1, NextCall, CallFields
<1>3. calls' \in Seq(Call)
  BY CallsType DEF CallStep
<1>4. ASSUME NEW m \in ms, MutexUpdatePriority(m, waiting_threads[m])
      PROVE  TypeOK'
  <2>1. m \in Mutex /\ waiting_threads[m] \in Seq(Thread)
    BY <1>2 DEF Object, TypeOK
  <2>2. /\ priority' \in [Mutex -> Prio]
        /\ current_priority' \in [Thread -> Prio]
        /\ ready_queue' \in [Core \X Prio -> Seq(Thread)]
    BY <1>4, <2>1, MutexUpdateType
  <2> QED
    BY <1>3, <2>2 DEF UpdateMutexes, TypeOK, waitVars, signalVars, eventVars
<1>5. CASE UNCHANGED <<priority, current_priority, ready_queue>>
  BY <1>3, <1>5 DEF UpdateMutexes, TypeOK, waitVars, signalVars, eventVars
<1> QED
  BY <1>4, <1>5 DEF UpdateMutexes

\* RescheduleTimer keeps TypeOK.
LEMMA RescheduleTimerType ==
  ASSUME TypeOK, RescheduleTimer
  PROVE  TypeOK'
PROOF
<1> DEFINE s == Head(calls).obj
<1>1. calls' \in Seq(Call)
  BY CallsType DEF CallStep
<1>2. timer_event' = [timer_event EXCEPT ![s] = IF interval_delay[s] # 0 THEN @ + 1 ELSE @]
  BY DEF RescheduleTimer
<1>3. timer_event \in [Timer -> Nat]
  BY DEF TypeOK
<1>4. timer_event' \in [Timer -> Nat]
  <2> HIDE DEF s
  <2>1. timer_event' \in [Timer -> Nat] \/ s \in Timer
    BY <1>2, <1>3
  <2>2. s \in Timer => timer_event[s] \in Nat /\ timer_event[s] + 1 \in Nat
    BY <1>3
  <2> QED
    BY <1>2, <1>3, <2>1, <2>2
<1> QED
  BY <1>1, <1>4
  DEF RescheduleTimer, TypeOK, schedVars, prioVars, waitVars, mutexVars, signalVars

\* Every call of a handler keeps TypeOK.
LEMMA CallStepType ==
  ASSUME TypeOK, CallStep
  PROVE  TypeOK'
PROOF
  BY AcquireType, WaitingThreadType, WakeupThreadType, WakeupDoneType,
     ClearWaitObjectsType, ResumeFromWaitType, StopType, TerminateProcessThreadsType,
     ReleaseThreadMutexesType, UpdateMutexesType, RescheduleTimerType DEF CallStep

-----------------------------------------------------------------------------
(***************************************************************************)
(* Each supervisor call, callback and reschedule keeps the types.          *)
(***************************************************************************)
LEMMA CreateThreadType ==
  ASSUME TypeOK, NEW t \in Thread, NEW p \in CreatePrios[t], CreateThreadWith(t, p),
         \/ MakeReady(t, p)
         \/ /\ status' = [status EXCEPT ![t] = "WaitSleep"]
            /\ wakeup_event' = [wakeup_event EXCEPT ![t] = @ + 1]
            /\ UNCHANGED ready_queue
  PROVE  TypeOK'
PROOF
<1>1. p \in Prio
  BY InputAssumption
<1>2. PushBack(ready_queue, t, p) \in [Core \X Prio -> Seq(Thread)]
  BY <1>1, QueueType DEF TypeOK
<1>3. /\ status' \in [Thread -> Status]
      /\ wakeup_event' \in [Thread -> Nat]
      /\ ready_queue' \in [Core \X Prio -> Seq(Thread)]
  <2>1. /\ status \in [Thread -> Status] /\ wakeup_event \in [Thread -> Nat]
        /\ ready_queue \in [Core \X Prio -> Seq(Thread)]
        /\ "Ready" \in Status /\ "WaitSleep" \in Status
    BY DEF TypeOK, Status, Waiting
  <2>2. CASE MakeReady(t, p)
    BY <1>2, <2>1, <2>2 DEF MakeReady
  <2>3. CASE /\ status' = [status EXCEPT ![t] = "WaitSleep"]
             /\ wakeup_event' = [wakeup_event EXCEPT ![t] = @ + 1]
             /\ UNCHANGED ready_queue
    BY <2>1, <2>3
  <2> QED
    BY <2>2, <2>3
<1> QED
  BY <1>1, <1>3
  DEF CreateThreadWith, PrepareReschedule, TypeOK, waitVars, mutexVars, signalVars

\* A call that blocks keeps TypeOK.
LEMMA StartWaitType ==
  ASSUME TypeOK, NEW t \in Thread, NEW objs \in Seq(Object), NEW st \in WaitSynch,
         NEW timed \in BOOLEAN, StartWait(t, objs, st, timed)
  PROVE  TypeOK'
PROOF
<1>1. ForEach("AddWaitingThread", objs, t) \in Seq(Call)
  BY ForEachType
<1>2. st \in Status
  BY DEF Status, Waiting
<1> QED
  BY <1>1, <1>2
  DEF StartWait, PrepareReschedule, TypeOK, schedVars, prioVars, mutexVars, signalVars

\* A call that acquires at once keeps TypeOK.
LEMMA AcquireNowType ==
  ASSUME TypeOK, NEW t \in Thread, NEW objs \in Seq(Object), AcquireNow(t, objs)
  PROVE  TypeOK'
PROOF
<1>1. ForEach("Acquire", objs, t) \in Seq(Call)
  BY ForEachType
<1> QED
  BY <1>1
  DEF AcquireNow, TypeOK, schedVars, prioVars, waitVars, mutexVars, signalVars, eventVars

\* The calls that wait for objects keep TypeOK.
LEMMA WaitType ==
  ASSUME TypeOK, NEW c \in Core, NEW t \in Thread, NEW timed \in BOOLEAN,
         \/ \E o \in WaitTargets[t] : WaitSynchronization1(c, t, o, timed)
         \/ \E objs \in WaitLists : \/ WaitSynchronizationAll(c, t, objs, timed)
                                    \/ WaitSynchronizationAny(c, t, objs, timed)
         \/ \E e \in Event : SleepClientThread(c, t, e, timed)
  PROVE  TypeOK'
PROOF
<1>1. ASSUME NEW o \in WaitTargets[t], WaitSynchronization1(c, t, o, timed)
      PROVE  TypeOK'
  <2>1. <<o>> \in Seq(Object)
    BY InputAssumption
  <2>2. "WaitSynchAny" \in WaitSynch
    BY DEF WaitSynch
  <2> QED
    BY <1>1, <2>1, <2>2, StartWaitType, AcquireNowType DEF WaitSynchronization1
<1>2. ASSUME NEW objs \in WaitLists, WaitSynchronizationAll(c, t, objs, timed)
      PROVE  TypeOK'
  <2>1. objs \in Seq(Object) /\ "WaitSynchAll" \in WaitSynch
    BY InputAssumption DEF WaitSynch
  <2> QED
    BY <1>2, <2>1, StartWaitType, AcquireNowType DEF WaitSynchronizationAll
<1>3. ASSUME NEW objs \in WaitLists, WaitSynchronizationAny(c, t, objs, timed)
      PROVE  TypeOK'
  <2>1. objs \in Seq(Object) /\ "WaitSynchAny" \in WaitSynch
    BY InputAssumption DEF WaitSynch
  <2>2. \A i \in 1 .. Len(objs) : <<objs[i]>> \in Seq(Object)
    BY <2>1
  <2> QED
    BY <1>3, <2>1, <2>2, StartWaitType, AcquireNowType DEF WaitSynchronizationAny
<1>4. ASSUME NEW e \in Event, SleepClientThread(c, t, e, timed)
      PROVE  TypeOK'
  <2>1. <<e>> \in Seq(Object) /\ "WaitHleEvent" \in WaitSynch
    BY DEF Object, Signal, WaitSynch
  <2> QED
    BY <1>4, <2>1, StartWaitType DEF SleepClientThread
<1> QED
  BY <1>1, <1>2, <1>3, <1>4

\* SleepThread keeps TypeOK.
LEMMA SleepThreadType ==
  ASSUME TypeOK, NEW c \in Core, NEW t \in Thread, NEW forever \in BOOLEAN,
         SleepThread(c, t, forever)
  PROVE  TypeOK'
PROOF
  BY DEF SleepThread, PrepareReschedule, TypeOK, Status, Waiting, schedVars, prioVars,
         waitVars, mutexVars, signalVars

\* ReleaseMutex keeps TypeOK.
LEMMA ReleaseMutexType ==
  ASSUME TypeOK, NEW c \in Core, NEW t \in Thread, NEW m \in Mutex, ReleaseMutex(c, t, m)
  PROVE  TypeOK'
PROOF
<1>1. lock_count' \in [Mutex -> Nat]
  BY DEF ReleaseMutex, MayRelease, LastRelease, TypeOK
<1>2. CASE lock_count[m] = 1
  <2>1. held_mutexes' = [held_mutexes EXCEPT ![t] = @ \ {m}]
    BY <1>2 DEF ReleaseMutex, MayRelease, LastRelease
  <2>2. held_mutexes' \in [Thread -> SUBSET Mutex] /\ held_mutexes'[t] \in SUBSET Mutex
    BY <2>1 DEF TypeOK
  <2>3. InheritedPriority(nominal_priority[t], held_mutexes'[t], priority) \in Prio
    BY <2>2, PriorityType DEF TypeOK
  <2>4. BoostPriority(t, InheritedPriority(nominal_priority[t], held_mutexes'[t], priority))
    BY <1>2 DEF ReleaseMutex, MayRelease, LastRelease, ThreadUpdatePriority
  <2>5. /\ current_priority' \in [Thread -> Prio]
        /\ ready_queue' \in [Core \X Prio -> Seq(Thread)]
    BY <2>3, <2>4, BoostType
  <2>6. ObjectCall("WakeupAllWaitingThreads", m) \in Call
    BY CallMakers DEF Object
  <2>7. holding_thread' \in [Mutex -> Thread \cup {None}]
    <3>1. holding_thread' = [holding_thread EXCEPT ![m] = None]
      BY <1>2 DEF ReleaseMutex, MayRelease, LastRelease
    <3> QED
      BY <3>1 DEF TypeOK
  <2>8. calls' \in Seq(Call)
    <3>1. calls' = <<ObjectCall("WakeupAllWaitingThreads", m)>>
      BY <1>2 DEF ReleaseMutex, MayRelease, LastRelease
    <3> QED
      BY <2>6, <3>1
  <2> QED
    BY <1>1, <1>2, <2>2, <2>5, <2>7, <2>8
    DEF ReleaseMutex, MayRelease, LastRelease, PrepareReschedule, TypeOK, waitVars,
        signalVars, eventVars
<1>3. CASE lock_count[m] # 1
  BY <1>1, <1>3 DEF ReleaseMutex, MayRelease, LastRelease, TypeOK, waitVars, signalVars,
                    eventVars
<1> QED
  BY <1>2, <1>3

\* ReleaseSemaphore keeps TypeOK.
LEMMA ReleaseSemaphoreType ==
  ASSUME TypeOK, NEW c \in Core, NEW t \in Thread, NEW s \in Semaphore,
         NEW n \in ReleaseCounts, ReleaseSemaphore(c, t, s, n)
  PROVE  TypeOK'
PROOF
<1>1. available_count[s] + n \in Int
  BY InputAssumption DEF TypeOK
<1>2. Wrap(available_count[s] + n) \in Int
  BY <1>1, ParameterAssumption DEF Wrap
<1>3. ObjectCall("WakeupAllWaitingThreads", s) \in Call
  BY CallMakers DEF Object
<1> QED
  BY <1>2, <1>3
  DEF ReleaseSemaphore, TypeOK, schedVars, prioVars, waitVars, mutexVars, eventVars

\* Setting a signal keeps TypeOK.
LEMMA SetSignaledType ==
  ASSUME TypeOK, NEW s \in Signal, NEW value \in BOOLEAN, NEW next \in Seq(Call),
         SetSignaled(s, value, next),
         interval_delay' \in [Timer -> Nat], timer_event' \in [Timer -> Nat]
  PROVE  TypeOK'
PROOF
  BY DEF SetSignaled, TypeOK, schedVars, prioVars, waitVars, mutexVars

\* The calls of a signalling handler are well typed.
LEMMA SignalCalls ==
  ASSUME NEW s \in Signal
  PROVE  /\ <<ObjectCall("WakeupAllWaitingThreads", s)>> \in Seq(Call)
         /\ <<ObjectCall("WakeupAllWaitingThreads", s), ObjectCall("RescheduleTimer", s)>>
              \in Seq(Call)
         /\ << >> \in Seq(Call)
PROOF
<1>1. s \in Object
  BY DEF Object
<1>2. /\ ObjectCall("WakeupAllWaitingThreads", s) \in Call
      /\ ObjectCall("RescheduleTimer", s) \in Call
  BY <1>1, CallMakers
<1> QED
  BY <1>2

\* Events and timers, signalled, cleared, set or cancelled, keep TypeOK.
LEMMA SignalType ==
  ASSUME TypeOK,
         \/ \E e \in Event : SignalEvent(e)
         \/ \E c \in Core, t \in Thread, s \in Signal : ClearSignal(c, t, s)
         \/ \E c \in Core, t \in Thread, s \in Timer, initial, interval \in {0, 1} :
              SetTimer(c, t, s, initial, interval)
         \/ \E c \in Core, t \in Thread, s \in Timer : CancelTimer(c, t, s)
         \/ \E s \in Timer : TimerCallback(s)
  PROVE  TypeOK'
PROOF
<1>1. /\ interval_delay \in [Timer -> Nat] /\ timer_event \in [Timer -> Nat]
      /\ signaled \in [Signal -> BOOLEAN]
  BY DEF TypeOK
<1>2. ASSUME NEW e \in Event, SignalEvent(e) PROVE TypeOK'
  BY <1>1, <1>2, SetSignaledType, SignalCalls DEF SignalEvent, Signal
<1>3. ASSUME NEW c \in Core, NEW t \in Thread, NEW s \in Signal, ClearSignal(c, t, s)
      PROVE  TypeOK'
  BY <1>1, <1>3, SetSignaledType, SignalCalls DEF ClearSignal
<1>4. ASSUME NEW c \in Core, NEW t \in Thread, NEW s \in Timer,
             NEW initial \in {0, 1}, NEW interval \in {0, 1},
             SetTimer(c, t, s, initial, interval)
      PROVE  TypeOK'
  <2>1. s \in Signal /\ signaled[s] \in BOOLEAN
    BY <1>1 DEF Signal
  <2>2. interval_delay' \in [Timer -> Nat] /\ timer_event' \in [Timer -> Nat]
    BY <1>1, <1>4 DEF SetTimer
  <2> QED
    BY <1>4, <2>1, <2>2, SetSignaledType, SignalCalls DEF SetTimer, TimerSignal
<1>5. ASSUME NEW c \in Core, NEW t \in Thread, NEW s \in Timer, CancelTimer(c, t, s)
      PROVE  TypeOK'
  BY <1>5 DEF CancelTimer, TypeOK, schedVars, prioVars, waitVars, mutexVars, signalVars
<1>6. ASSUME NEW s \in Timer, TimerCallback(s) PROVE TypeOK'
  <2>1. timer_event' \in [Timer -> Nat] /\ interval_delay' \in [Timer -> Nat]
    BY <1>1, <1>6 DEF TimerCallback
  <2> QED
    BY <1>6, <2>1, SetSignaledType, SignalCalls DEF TimerCallback, TimerSignal, Signal
<1> QED
  BY <1>2, <1>3, <1>4, <1>5, <1>6

\* SetThreadPriority keeps TypeOK.
LEMMA SetThreadPriorityType ==
  ASSUME TypeOK, NEW c \in Core, NEW t \in Thread, NEW u \in Thread, NEW p \in SetPrios,
         SetThreadPriority(c, t, u, p)
  PROVE  TypeOK'
PROOF
<1>1. p \in Prio /\ held_mutexes[u] \in SUBSET Mutex /\ pending_mutexes[u] \in SUBSET Mutex
  BY InputAssumption DEF TypeOK
<1>2. InheritedPriority(p, held_mutexes[u], priority) \in Prio
  BY <1>1, PriorityType DEF TypeOK
<1>3. /\ current_priority' \in [Thread -> Prio]
      /\ ready_queue' \in [Core \X Prio -> Seq(Thread)]
  BY <1>2, BoostType DEF SetThreadPriority
<1>4. [op |-> "UpdateMutexes", mutexes |-> pending_mutexes[u]] \in Call
  BY <1>1, CallMakers
<1>5. calls' \in Seq(Call) /\ nominal_priority' \in [Thread -> Prio]
  BY <1>1, <1>4 DEF SetThreadPriority, TypeOK
<1> QED
  BY <1>3, <1>5
  DEF SetThreadPriority, PrepareReschedule, TypeOK, waitVars, mutexVars, signalVars,
      eventVars

\* ControlProcess keeps TypeOK.
LEMMA ControlProcessType ==
  ASSUME TypeOK, NEW c \in Core, NEW t \in Thread, NEW p \in Process, NEW allow \in BOOLEAN,
         ControlProcess(c, t, p, allow)
  PROVE  TypeOK'
PROOF
<1>1. can_schedule' \in [Thread -> BOOLEAN]
  BY DEF ControlProcess, TypeOK
<1> QED
  BY <1>1
  DEF ControlProcess, TypeOK, prioVars, waitVars, mutexVars, signalVars, eventVars

\* ExitThread and TerminateProcess keep TypeOK.
LEMMA ExitType ==
  ASSUME TypeOK, NEW c \in Core, NEW t \in Thread,
         ExitThread(c, t) \/ \E p \in Process : TerminateProcess(c, t, p)
  PROVE  TypeOK'
PROOF
<1>1. CASE ExitThread(c, t)
  <2>1. ThreadCall("Stop", t) \in Call
    BY CallMakers
  <2> QED
    BY <1>1, <2>1
    DEF ExitThread, PrepareReschedule, TypeOK, schedVars, prioVars, waitVars, mutexVars,
        signalVars, eventVars
<1>2. ASSUME NEW p \in Process, TerminateProcess(c, t, p) PROVE TypeOK'
  <2>1. \A i \in 1 .. NumCores : i - 1 \in Core
    BY ParameterAssumption DEF Core
  <2>2. \A i \in 1 .. NumCores :
          [op |-> "TerminateProcessThreads", core |-> i - 1, process |-> p] \in Call
    BY <2>1, CallMakers
  <2>3. [i \in 1 .. NumCores |->
           [op |-> "TerminateProcessThreads", core |-> i - 1, process |-> p]] \in Seq(Call)
    BY <2>2, ParameterAssumption
  <2>4. calls' \in Seq(Call)
    BY <1>2, <2>3 DEF TerminateProcess
  <2> QED
    BY <1>2, <2>4
    DEF TerminateProcess, TypeOK, prioVars, waitVars, mutexVars, signalVars, eventVars
<1> QED
  BY <1>1, <1>2

\* ThreadWakeupCallback keeps TypeOK.
LEMMA ThreadWakeupCallbackType ==
  ASSUME TypeOK, NEW t \in Thread, ThreadWakeupCallback(t)
  PROVE  TypeOK'
PROOF
<1>1. ForEach("RemoveWaitingThread", wait_objects[t], t) \in Seq(Call)
  BY ForEachType DEF TypeOK
<1>2. ThreadCall("ClearWaitObjects", t) \in Call /\ ThreadCall("ResumeFromWait", t) \in Call
  BY CallMakers
<1>3. calls' \in Seq(Call)
  BY <1>1, <1>2 DEF ThreadWakeupCallback, TimeoutCalls
<1>4. wakeup_event' \in [Thread -> Nat]
  BY DEF ThreadWakeupCallback, TimeoutCalls, TypeOK
<1> QED
  BY <1>3, <1>4
  DEF ThreadWakeupCallback, TimeoutCalls, TypeOK, schedVars, prioVars, waitVars,
      mutexVars, signalVars

\* SwitchContext keeps TypeOK.
LEMMA SwitchContextType ==
  ASSUME TypeOK, NEW c \in Core, NEW t \in Thread, NEW p \in Prio, SwitchContext(c, t, p)
  PROVE  /\ ready_queue' \in [Core \X Prio -> Seq(Thread)]
         /\ status' \in [Thread -> Status]
         /\ wakeup_event' \in [Thread -> Nat]
         /\ current_thread' \in [Core -> Thread \cup {None}]
PROOF
<1> DEFINE cur == current_thread[c]
           popped == RemoveFrom(ready_queue, t, p)
           saved == IF KeepsRunning(c) THEN PushFront(popped, cur, current_priority[cur])
                    ELSE popped
<1>1. popped \in [Core \X Prio -> Seq(Thread)]
  BY QueueType DEF TypeOK
<1>2. KeepsRunning(c) => cur \in Thread /\ current_priority[cur] \in Prio
  BY DEF KeepsRunning, TypeOK
<1>3. saved \in [Core \X Prio -> Seq(Thread)]
  <2> HIDE DEF popped, cur
  <2> QED
    BY <1>1, <1>2, QueueType
<1>4. ready_queue' = RemoveFrom(saved, t, current_priority[t])
  BY DEF SwitchContext, SwitchedStatus, CancelWakeup
<1>5. ready_queue' \in [Core \X Prio -> Seq(Thread)]
  <2> HIDE DEF saved
  <2>1. current_priority[t] \in Prio
    BY DEF TypeOK
  <2> QED
    BY <1>3, <1>4, <2>1, QueueType
<1>6. status' \in [Thread -> Status]
  BY DEF SwitchContext, SwitchedStatus, CancelWakeup, TypeOK, Status
<1> QED
  BY <1>5, <1>6 DEF SwitchContext, SwitchedStatus, CancelWakeup, TypeOK

\* Reschedule keeps TypeOK.
LEMMA RescheduleType ==
  ASSUME TypeOK, NEW c \in Core, Reschedule(c)
  PROVE  TypeOK'
PROOF
<1> DEFINE Typed == /\ ready_queue' \in [Core \X Prio -> Seq(Thread)]
                    /\ status' \in [Thread -> Status]
                    /\ wakeup_event' \in [Thread -> Nat]
                    /\ current_thread' \in [Core -> Thread \cup {None}]
<1>1. Typed
  <2>1. ASSUME NEW p \in Prio, NEW i \in 1 .. Len(ready_queue[<<c, p>>]),
               SwitchContext(c, ready_queue[<<c, p>>][i], p)
        PROVE  Typed
    <3>1. ready_queue[<<c, p>>] \in Seq(Thread)
      BY <2>1 DEF TypeOK
    <3>2. ready_queue[<<c, p>>][i] \in Thread
      BY <3>1
    <3> QED
      BY <2>1, <3>2, SwitchContextType
  <2>2. CASE /\ NoneReady(c) /\ KeepsRunning(c)
             /\ wakeup_event' = [wakeup_event EXCEPT ![current_thread[c]] = 0]
             /\ UNCHANGED <<status, current_thread, ready_queue>>
    BY <2>2 DEF TypeOK
  <2>3. CASE /\ NoneReady(c) /\ ~ KeepsRunning(c)
             /\ current_thread' = [current_thread EXCEPT ![c] = None]
             /\ UNCHANGED <<status, ready_queue, wakeup_event>>
    BY <2>3 DEF TypeOK
  <2> QED
    BY <2>1, <2>2, <2>3 DEF Reschedule, CancelWakeup
<1>2. reschedule_pending' \subseteq Core
  BY DEF Reschedule, CancelWakeup, TypeOK
<1> QED
  BY <1>1, <1>2
  DEF Reschedule, CancelWakeup, TypeOK, prioVars, waitVars, mutexVars, signalVars

-----------------------------------------------------------------------------
\* The initial state is well typed.
LEMMA InitType == Init => TypeOK
PROOF
<1>1. ThreadPrioLowest \in Prio
  BY ParameterAssumption DEF Prio
<1> QED
  BY <1>1 DEF Init, TypeOK, Status

\* Every step keeps TypeOK.
LEMMA NextType ==
  ASSUME TypeOK, [Next]_vars
  PROVE  TypeOK'
PROOF
<1>1. CASE CallStep
  BY <1>1, CallStepType
<1>2. ASSUME NEW t \in Thread, NEW p \in CreatePrios[t], NEW delayed \in BOOLEAN,
             SetupMainThread(t, p, delayed)
      PROVE  TypeOK'
  BY <1>2, CreateThreadType DEF SetupMainThread
<1>3. ASSUME NEW c \in Core, NEW t \in Thread, SvcStep(c, t) PROVE TypeOK'
  <2>1. ASSUME NEW u \in Thread, NEW p \in CreatePrios[u], CreateThread(c, t, u, p)
        PROVE  TypeOK'
    BY <2>1, CreateThreadType DEF CreateThread
  <2> QED
    BY <1>3, <2>1, WaitType, SleepThreadType, ReleaseMutexType, ReleaseSemaphoreType,
       SignalType, SetThreadPriorityType, ControlProcessType, ExitType DEF SvcStep
<1>4. CASE \E e \in Event : SignalEvent(e)
  BY <1>4, SignalType
<1>5. CASE \E t \in Thread : ThreadWakeupCallback(t)
  BY <1>5, ThreadWakeupCallbackType
<1>6. CASE \E s \in Timer : TimerCallback(s)
  BY <1>6, SignalType
<1>7. CASE \E c \in Core : Reschedule(c)
  BY <1>7, RescheduleType
<1>8. CASE UNCHANGED vars
  BY <1>8 DEF vars, schedVars, prioVars, waitVars, mutexVars, signalVars, eventVars, TypeOK
<1> QED
  BY <1>1, <1>2, <1>3, <1>4, <1>5, <1>6, <1>7, <1>8 DEF Next

\* The kernel's state has its types in every reachable state: in particular the
\* pending calls of every handler are well formed, priorities stay within the
\* ready queue's levels and lock counts never become negative.
THEOREM TypeCorrect == Spec => []TypeOK
PROOF
<1>1. Init => TypeOK
  BY InitType
<1>2. TypeOK /\ [Next]_vars => TypeOK'
  BY NextType
<1> QED
  BY <1>1, <1>2, PTL DEF Spec

-----------------------------------------------------------------------------
(***************************************************************************)
(* The ready queue and the running threads.                                *)
(***************************************************************************)
\* Queue q holds exactly the threads of set R, at the priorities prio.
QueueHolds(q, R, prio) ==
  \A c \in Core, p \in Prio :
    /\ NoDuplicates(q[<<c, p>>])
    /\ \A t \in Thread :
         In(t, q[<<c, p>>]) <=> t \in R /\ core_id[t] = c /\ prio[t] = p

ReadyThreads == {t \in Thread : status[t] = "Ready"}

CurrentOnItsCore ==
  \A c \in Core : current_thread[c] # None => core_id[current_thread[c]] = c

SchedulerInv ==
  /\ QueueHolds(ready_queue, ReadyThreads, current_priority)
  /\ OneRunningThread
  /\ CurrentOnItsCore

-----------------------------------------------------------------------------
(***************************************************************************)
(* The queue's operations.                                                 *)
(***************************************************************************)
QueueSet == [Core \X Prio -> Seq(Thread)]

\* Pushing a thread to its queue, at either end, makes it ready there.
LEMMA PushHolds ==
  ASSUME NEW q \in QueueSet, NEW R \in SUBSET Thread, NEW prio \in [Thread -> Prio],
         QueueHolds(q, R, prio), NEW t \in Thread \ R, NEW p \in Prio
  PROVE  /\ QueueHolds(PushBack(q, t, p), R \cup {t}, [prio EXCEPT ![t] = p])
         /\ QueueHolds(PushFront(q, t, p), R \cup {t}, [prio EXCEPT ![t] = p])
PROOF
<1>1. core_id[t] \in Core
  BY ParameterAssumption
<1>2. ASSUME NEW r \in QueueSet,
             \A c \in Core, l \in Prio : <<c, l>> # Level(t, p) => r[<<c, l>>] = q[<<c, l>>],
             NoDuplicates(r[Level(t, p)]),
             \A u \in Thread : In(u, r[Level(t, p)]) <=> In(u, q[Level(t, p)]) \/ u = t
      PROVE  QueueHolds(r, R \cup {t}, [prio EXCEPT ![t] = p])
  <2> SUFFICES ASSUME NEW c \in Core, NEW l \in Prio
               PROVE  /\ NoDuplicates(r[<<c, l>>])
                      /\ \A u \in Thread :
                           In(u, r[<<c, l>>]) <=>
                             u \in R \cup {t} /\ core_id[u] = c /\ [prio EXCEPT ![t] = p][u] = l
    BY DEF QueueHolds
  <2>1. \A u \in Thread : [prio EXCEPT ![t] = p][u] = IF u = t THEN p ELSE prio[u]
    OBVIOUS
  <2>2. CASE <<c, l>> = Level(t, p)
    <3>1. c = core_id[t] /\ l = p
      BY <2>2 DEF Level
    <3> QED
      BY <1>2, <2>1, <2>2, <3>1 DEF QueueHolds
  <2>3. CASE <<c, l>> # Level(t, p)
    <3>1. ~ (core_id[t] = c /\ p = l)
      BY <2>3 DEF Level
    <3> QED
      BY <1>2, <2>1, <2>3, <3>1 DEF QueueHolds
  <2> QED
    BY <2>2, <2>3
<1>3. Level(t, p) \in Core \X Prio
  BY <1>1 DEF Level
<1>4. q[Level(t, p)] \in Seq(Thread)
  BY <1>3 DEF QueueSet
<1>5. NoDuplicates(q[Level(t, p)]) /\ ~ In(t, q[Level(t, p)])
  BY <1>1 DEF QueueHolds, Level
<1>6. QueueHolds(PushBack(q, t, p), R \cup {t}, [prio EXCEPT ![t] = p])
  <2> DEFINE r == PushBack(q, t, p)
  <2>1. r \in QueueSet
    BY QueueType DEF QueueSet
  <2>2. r[Level(t, p)] = Append(q[Level(t, p)], t)
    BY <1>3 DEF PushBack, QueueSet
  <2>3. \A c \in Core, l \in Prio : <<c, l>> # Level(t, p) => r[<<c, l>>] = q[<<c, l>>]
    BY DEF PushBack, QueueSet
  <2>4. /\ NoDuplicates(Append(q[Level(t, p)], t))
        /\ \A u : In(u, Append(q[Level(t, p)], t)) <=> In(u, q[Level(t, p)]) \/ u = t
    BY <1>4, <1>5, AppendMembers
  <2> HIDE DEF r
  <2>5. QueueHolds(r, R \cup {t}, [prio EXCEPT ![t] = p])
    BY <1>2, <2>1, <2>2, <2>3, <2>4
  <2> QED
    BY <2>5 DEF r
<1>7. QueueHolds(PushFront(q, t, p), R \cup {t}, [prio EXCEPT ![t] = p])
  <2> DEFINE r == PushFront(q, t, p)
  <2>1. r \in QueueSet
    BY QueueType DEF QueueSet
  <2>2. r[Level(t, p)] = <<t>> \o q[Level(t, p)]
    BY <1>3 DEF PushFront, QueueSet
  <2>3. \A c \in Core, l \in Prio : <<c, l>> # Level(t, p) => r[<<c, l>>] = q[<<c, l>>]
    BY DEF PushFront, QueueSet
  <2>4. /\ NoDuplicates(<<t>> \o q[Level(t, p)])
        /\ \A u : In(u, <<t>> \o q[Level(t, p)]) <=> In(u, q[Level(t, p)]) \/ u = t
    BY <1>4, <1>5, PrependMembers
  <2> HIDE DEF r
  <2>5. QueueHolds(r, R \cup {t}, [prio EXCEPT ![t] = p])
    BY <1>2, <2>1, <2>2, <2>3, <2>4
  <2> QED
    BY <2>5 DEF r
<1> QED
  BY <1>6, <1>7

\* Removing a thread at its priority takes it out of the ready threads.
LEMMA RemoveHolds ==
  ASSUME NEW q \in QueueSet, NEW R \in SUBSET Thread, NEW prio \in [Thread -> Prio],
         QueueHolds(q, R, prio), NEW t \in Thread
  PROVE  QueueHolds(RemoveFrom(q, t, prio[t]), R \ {t}, prio)
PROOF
<1> DEFINE p == prio[t]
           r == RemoveFrom(q, t, p)
<1>1. p \in Prio /\ core_id[t] \in Core
  BY ParameterAssumption
<1>2. Level(t, p) \in Core \X Prio
  BY <1>1 DEF Level
<1>3. q[Level(t, p)] \in Seq(Thread) /\ NoDuplicates(q[Level(t, p)])
  BY <1>1, <1>2 DEF QueueSet, QueueHolds, Level
<1>4. r[Level(t, p)] = Erase(t, q[Level(t, p)])
  BY <1>2 DEF RemoveFrom, QueueSet
<1>5. \A c \in Core, l \in Prio : <<c, l>> # Level(t, p) => r[<<c, l>>] = q[<<c, l>>]
  BY DEF RemoveFrom, QueueSet
<1>6. /\ NoDuplicates(Erase(t, q[Level(t, p)]))
      /\ \A u : In(u, Erase(t, q[Level(t, p)])) <=> In(u, q[Level(t, p)]) /\ u # t
  BY <1>3, EraseMembers
<1> HIDE DEF r
<1> SUFFICES ASSUME NEW c \in Core, NEW l \in Prio
             PROVE  /\ NoDuplicates(r[<<c, l>>])
                    /\ \A u \in Thread :
                         In(u, r[<<c, l>>]) <=> u \in R \ {t} /\ core_id[u] = c /\ prio[u] = l
  BY DEF QueueHolds, r
<1>7. CASE <<c, l>> = Level(t, p)
  <2>1. \A u \in Thread : In(u, q[<<c, l>>]) <=> u \in R /\ core_id[u] = c /\ prio[u] = l
    BY DEF QueueHolds
  <2> QED
    BY <1>4, <1>6, <1>7, <2>1
<1>8. CASE <<c, l>> # Level(t, p)
  <2>1. ~ (core_id[t] = c /\ prio[t] = l)
    BY <1>8 DEF Level
  <2> QED
    BY <1>5, <1>8, <2>1 DEF QueueHolds
<1> QED
  BY <1>7, <1>8

\* Only the priorities of the threads in the queue matter.
LEMMA SameHolds ==
  ASSUME NEW q, NEW R, NEW prio, NEW other, QueueHolds(q, R, prio),
         \A t \in R : prio[t] = other[t]
  PROVE  QueueHolds(q, R, other)
PROOF
<1> SUFFICES ASSUME NEW c \in Core, NEW p \in Prio
             PROVE  /\ NoDuplicates(q[<<c, p>>])
                    /\ \A t \in Thread :
                         In(t, q[<<c, p>>]) <=> t \in R /\ core_id[t] = c /\ other[t] = p
  BY DEF QueueHolds
<1>1. /\ NoDuplicates(q[<<c, p>>])
      /\ \A t \in Thread : In(t, q[<<c, p>>]) <=> t \in R /\ core_id[t] = c /\ prio[t] = p
  BY DEF QueueHolds
<1> QED
  BY <1>1

-----------------------------------------------------------------------------
(***************************************************************************)
(* Priority changes.                                                       *)
(***************************************************************************)
LEMMA BoostHolds ==
  ASSUME TypeOK, SchedulerInv, NEW t \in Thread, NEW p \in Prio, BoostPriority(t, p),
         UNCHANGED <<status, current_thread>>
  PROVE  SchedulerInv'
PROOF
<1>1. /\ ready_queue \in QueueSet /\ ReadyThreads \in SUBSET Thread
      /\ current_priority \in [Thread -> Prio]
  BY DEF TypeOK, QueueSet, ReadyThreads
<1>2. QueueHolds(ready_queue, ReadyThreads, current_priority)
  BY DEF SchedulerInv
<1>3. ReadyThreads' = ReadyThreads /\ current_priority' = [current_priority EXCEPT ![t] = p]
  BY DEF ReadyThreads, BoostPriority
<1>4. QueueHolds(ready_queue', ReadyThreads, [current_priority EXCEPT ![t] = p])
  <2>1. CASE status[t] = "Ready"
    <3> DEFINE q == RemoveFrom(ready_queue, t, current_priority[t])
               R == ReadyThreads \ {t}
    <3>1. ready_queue' = PushBack(q, t, p)
      BY <2>1 DEF BoostPriority, Move
    <3>2. q \in QueueSet
      BY <1>1, QueueType DEF QueueSet
    <3>3. QueueHolds(q, R, current_priority)
      BY <1>1, <1>2, RemoveHolds
    <3>4. R \in SUBSET Thread /\ t \in Thread \ R /\ R \cup {t} = ReadyThreads
      BY <2>1 DEF ReadyThreads
    <3> HIDE DEF q, R
    <3>5. QueueHolds(PushBack(q, t, p), R \cup {t}, [current_priority EXCEPT ![t] = p])
      BY <1>1, <3>2, <3>3, <3>4, PushHolds
    <3> QED
      BY <3>1, <3>4, <3>5
  <2>2. CASE status[t] # "Ready"
    <3>1. ready_queue' = ready_queue
      BY <2>2 DEF BoostPriority
    <3>2. \A u \in ReadyThreads : current_priority[u] = [current_priority EXCEPT ![t] = p][u]
      BY <1>1, <2>2 DEF ReadyThreads
    <3> QED
      BY <1>2, <3>1, <3>2, SameHolds
  <2> QED
    BY <2>1, <2>2
<1>5. QueueHolds(ready_queue', ReadyThreads', current_priority')
  BY <1>3, <1>4
<1>6. OneRunningThread' /\ CurrentOnItsCore'
  BY DEF SchedulerInv, OneRunningThread, CurrentOnItsCore
<1> QED
  BY <1>5, <1>6 DEF SchedulerInv, QueueHolds

\* Nothing the scheduler looks at changes.
LEMMA SameSchedule ==
  ASSUME SchedulerInv, UNCHANGED <<status, current_priority, ready_queue, current_thread>>
  PROVE  SchedulerInv'
PROOF
  BY DEF SchedulerInv, QueueHolds, ReadyThreads, OneRunningThread, CurrentOnItsCore

\* A thread that is not ready enters another status than Ready or Running.
LEMMA StatusChange ==
  ASSUME TypeOK, SchedulerInv, NEW t \in Thread, NEW st, st \notin {"Ready", "Running"},
         status[t] # "Ready", status' = [status EXCEPT ![t] = st],
         UNCHANGED <<current_priority, ready_queue, current_thread>>
  PROVE  SchedulerInv'
PROOF
<1>1. ReadyThreads' = ReadyThreads
  BY DEF ReadyThreads, TypeOK
<1>2. OneRunningThread'
  BY DEF SchedulerInv, OneRunningThread, TypeOK
<1> QED
  BY <1>1, <1>2 DEF SchedulerInv, QueueHolds, CurrentOnItsCore

\* A thread that is not ready becomes ready at priority p, its current one.
LEMMA BecomesReady ==
  ASSUME TypeOK, SchedulerInv, NEW t \in Thread, NEW p \in Prio, status[t] # "Ready",
         status' = [status EXCEPT ![t] = "Ready"],
         current_priority' = [current_priority EXCEPT ![t] = p],
         ready_queue' = PushBack(ready_queue, t, p), UNCHANGED current_thread
  PROVE  SchedulerInv'
PROOF
<1>1. /\ ready_queue \in QueueSet /\ ReadyThreads \in SUBSET Thread
      /\ current_priority \in [Thread -> Prio] /\ t \in Thread \ ReadyThreads
  BY DEF TypeOK, QueueSet, ReadyThreads
<1>2. ReadyThreads' = ReadyThreads \cup {t}
  BY DEF ReadyThreads, TypeOK
<1>3. QueueHolds(ready_queue', ReadyThreads', current_priority')
  BY <1>1, <1>2, PushHolds DEF SchedulerInv
<1>4. OneRunningThread' /\ CurrentOnItsCore'
  BY DEF SchedulerInv, OneRunningThread, CurrentOnItsCore, TypeOK
<1> QED
  BY <1>3, <1>4 DEF SchedulerInv, QueueHolds

\* Mutex::UpdatePriority keeps the ready queue in step with priorities.
LEMMA MutexUpdateHolds ==
  ASSUME TypeOK, SchedulerInv, NEW m \in Mutex, NEW w \in Seq(Thread),
         MutexUpdatePriority(m, w), UNCHANGED <<status, current_thread>>
  PROVE  SchedulerInv'
PROOF
<1>1. CASE holding_thread[m] = None \/ WaitersPriority(w) = priority[m]
  BY <1>1, SameSchedule DEF MutexUpdatePriority
<1>2. CASE ~ (holding_thread[m] = None \/ WaitersPriority(w) = priority[m])
  <2> DEFINE h == holding_thread[m]
             p == InheritedPriority(nominal_priority[h], held_mutexes[h], priority')
  <2>1. h \in Thread
    BY <1>2 DEF TypeOK
  <2>2. priority' \in [Mutex -> Prio]
    BY MutexUpdateType
  <2>3. nominal_priority[h] \in Prio /\ held_mutexes[h] \in SUBSET Mutex
    BY <2>1 DEF TypeOK
  <2>4. p \in Prio
    BY <2>2, <2>3, PriorityType
  <2>5. BoostPriority(h, p)
    BY <1>2 DEF MutexUpdatePriority, ThreadUpdatePriority
  <2> QED
    BY <2>1, <2>4, <2>5, BoostHolds
<1> QED
  BY <1>1, <1>2

-----------------------------------------------------------------------------
(***************************************************************************)
(* Steps of a running handler.                                             *)
(***************************************************************************)
LEMMA CallStepHolds ==
  ASSUME TypeOK, SchedulerInv, CallStep
  PROVE  SchedulerInv'
PROOF
<1>1. calls # << >> /\ Head(calls) \in Call
  BY CallBody, NextCall
<1>2. CASE Acquire
  <2> DEFINE o == Head(calls).obj
             t == Head(calls).thr
  <2>1. t \in Thread /\ UNCHANGED <<status, current_thread>>
    BY <1>1, <1>2, CallFields DEF Acquire, Make
  <2>2. CASE o \in Mutex /\ AcquireFreeMutex(o, t)
    <3> DEFINE p == InheritedPriority(nominal_priority[t], held_mutexes'[t], priority')
    <3>1. TypeOK'
      BY <1>2, AcquireType
    <3>2. p \in Prio
      BY <2>1, <3>1, PriorityType DEF TypeOK
    <3>3. BoostPriority(t, p)
      BY <2>2 DEF AcquireFreeMutex, ThreadUpdatePriority
    <3> QED
      BY <2>1, <3>2, <3>3, BoostHolds
  <2>3. CASE ~ (o \in Mutex /\ AcquireFreeMutex(o, t))
    <3>1. UNCHANGED <<current_priority, ready_queue>>
      BY <1>2, <2>3 DEF Acquire, AcquireHeldMutex, AcquireSemaphore, AcquireSignal,
                        AcquireThread
    <3> QED
      BY <2>1, <3>1, SameSchedule
  <2> QED
    BY <2>2, <2>3
<1>3. CASE AddWaitingThread \/ RemoveWaitingThread
  <2> DEFINE o == Head(calls).obj
             t == Head(calls).thr
             w == waiting_threads'[o]
  <2>1. o \in Object /\ t \in Thread /\ UNCHANGED <<status, current_thread>>
    BY <1>1, <1>3, CallFields
    DEF AddWaitingThread, RemoveWaitingThread, ChangeWaiters, Make
  <2>2. PICK v, pending : ChangeWaiters(o, t, v, pending)
    BY <1>3 DEF AddWaitingThread, RemoveWaitingThread
  <2>3. TypeOK'
    BY <1>3, WaitingThreadType
  <2>4. waiting_threads' = [waiting_threads EXCEPT ![o] = v] /\ v = w /\ w \in Seq(Thread)
    BY <2>1, <2>2, <2>3 DEF ChangeWaiters, TypeOK
  <2>5. CASE o \in Mutex
    <3>1. MutexUpdatePriority(o, v)
      BY <2>2, <2>5 DEF ChangeWaiters
    <3> QED
      BY <2>1, <2>4, <2>5, <3>1, MutexUpdateHolds
  <2>6. CASE o \notin Mutex
    BY <2>1, <2>2, <2>6, SameSchedule DEF ChangeWaiters
  <2> QED
    BY <2>5, <2>6
<1>4. CASE ResumeFromWait
  <2> DEFINE t == Head(calls).thr
  <2>1. t \in Thread
    BY <1>1, <1>4, CallFields DEF ResumeFromWait, BecomeReady, Make
  <2>2. UNCHANGED <<current_priority, current_thread>> /\ current_priority[t] \in Prio
    BY <1>4, <2>1 DEF ResumeFromWait, BecomeReady, prioVars, TypeOK
  <2>3. CASE status[t] \in Waiting \cup {"Dormant"}
    <3>1. /\ status' = [status EXCEPT ![t] = "Ready"]
          /\ ready_queue' = PushBack(ready_queue, t, current_priority[t])
      BY <1>4, <2>3 DEF ResumeFromWait, BecomeReady
    <3>2. status[t] # "Ready"
      BY <2>3 DEF Waiting, WaitSynch
    <3>3. current_priority' = [current_priority EXCEPT ![t] = current_priority[t]]
      BY <2>2 DEF TypeOK
    <3> QED
      BY <2>1, <2>2, <3>1, <3>2, <3>3, BecomesReady
  <2>4. CASE status[t] \notin Waiting \cup {"Dormant"}
    BY <1>4, <2>2, <2>4, SameSchedule DEF ResumeFromWait, BecomeReady
  <2> QED
    BY <2>3, <2>4
<1>5. CASE Stop
  <2> DEFINE t == Head(calls).thr
  <2>1. t \in Thread
    BY <1>1, <1>5, CallFields DEF Stop, StopCalls, Make
  <2>2. /\ UNCHANGED <<current_priority, current_thread>>
        /\ status' = [status EXCEPT ![t] = "Dead"]
        /\ ready_queue' = IF status[t] = "Ready"
                          THEN RemoveFrom(ready_queue, t, current_priority[t])
                          ELSE ready_queue
    BY <1>5 DEF Stop, StopCalls, prioVars
  <2>3. CASE status[t] = "Ready"
    <3>1. ReadyThreads' = ReadyThreads \ {t}
      BY <2>1, <2>2 DEF ReadyThreads, TypeOK
    <3>2. /\ ready_queue \in QueueSet /\ ReadyThreads \in SUBSET Thread
          /\ current_priority \in [Thread -> Prio]
      BY DEF TypeOK, QueueSet, ReadyThreads
    <3>3. QueueHolds(ready_queue', ReadyThreads', current_priority')
      BY <2>1, <2>2, <2>3, <3>1, <3>2, RemoveHolds DEF SchedulerInv
    <3>4. OneRunningThread' /\ CurrentOnItsCore'
      BY <2>1, <2>2 DEF SchedulerInv, OneRunningThread, CurrentOnItsCore, TypeOK
    <3> QED
      BY <3>3, <3>4 DEF SchedulerInv, QueueHolds
  <2>4. CASE status[t] # "Ready"
    BY <2>1, <2>2, <2>4, StatusChange
  <2> QED
    BY <2>3, <2>4
<1>6. CASE UpdateMutexes
  <2>1. UNCHANGED <<status, current_thread>> /\ Head(calls).mutexes \in SUBSET Mutex
    BY <1>1, <1>6, CallFields DEF UpdateMutexes
  <2>2. ASSUME NEW m \in Head(calls).mutexes, MutexUpdatePriority(m, waiting_threads[m])
        PROVE  SchedulerInv'
    <3>1. m \in Mutex /\ waiting_threads[m] \in Seq(Thread)
      BY <2>1 DEF Object, TypeOK
    <3> QED
      BY <2>1, <2>2, <3>1, MutexUpdateHolds
  <2>3. CASE UNCHANGED <<priority, current_priority, ready_queue>>
    BY <2>1, <2>3, SameSchedule
  <2> QED
    BY <1>6, <2>2, <2>3 DEF UpdateMutexes
<1>7. CASE WakeupThread \/ WakeupDone \/ ClearWaitObjects
  BY <1>7, SameSchedule DEF WakeupThread, WakeupCalls, WakeupDone, ClearWaitObjects,
                            schedVars, prioVars
<1>8. CASE TerminateProcessThreads \/ ReleaseThreadMutexes \/ RescheduleTimer
  BY <1>8, SameSchedule
  DEF TerminateProcessThreads, ReleaseThreadMutexes, ForgetMutexes, RescheduleTimer,
      schedVars, prioVars
<1> QED
  BY <1>2, <1>3, <1>4, <1>5, <1>6, <1>7, <1>8 DEF CallStep

-----------------------------------------------------------------------------
(***************************************************************************)
(* Supervisor calls and the reschedule.                                    *)
(***************************************************************************)
LEMMA CreateHolds ==
  ASSUME TypeOK, SchedulerInv, NEW t \in Thread, NEW p \in CreatePrios[t],
         CreateThreadWith(t, p),
         \/ MakeReady(t, p)
         \/ status' = [status EXCEPT ![t] = "WaitSleep"] /\ UNCHANGED ready_queue
  PROVE  SchedulerInv'
PROOF
<1>1. /\ p \in Prio /\ status[t] = "Dormant" /\ UNCHANGED current_thread
      /\ current_priority' = [current_priority EXCEPT ![t] = p]
  BY InputAssumption DEF CreateThreadWith
<1>2. CASE MakeReady(t, p)
  BY <1>1, <1>2, BecomesReady DEF MakeReady
<1>3. CASE status' = [status EXCEPT ![t] = "WaitSleep"] /\ UNCHANGED ready_queue
  <2>1. ReadyThreads' = ReadyThreads
    BY <1>1, <1>3 DEF ReadyThreads, TypeOK
  <2>2. \A u \in ReadyThreads : current_priority[u] = current_priority'[u]
    BY <1>1 DEF ReadyThreads, TypeOK
  <2>3. QueueHolds(ready_queue, ReadyThreads, current_priority')
    BY <2>2, SameHolds DEF SchedulerInv
  <2>4. QueueHolds(ready_queue', ReadyThreads', current_priority')
    BY <1>3, <2>1, <2>3
  <2>5. OneRunningThread' /\ CurrentOnItsCore'
    BY <1>1, <1>3 DEF SchedulerInv, OneRunningThread, CurrentOnItsCore, TypeOK
  <2> QED
    BY <2>4, <2>5 DEF SchedulerInv, QueueHolds
<1> QED
  BY <1>2, <1>3

\* Every supervisor call keeps the scheduler invariant.
LEMMA SvcStepHolds ==
  ASSUME TypeOK, SchedulerInv, NEW c \in Core, NEW t \in Thread, SvcStep(c, t)
  PROVE  SchedulerInv'
PROOF
<1>1. ASSUME NEW objs, NEW st \in WaitSynch, NEW timed, Caller(c, t),
             StartWait(t, objs, st, timed)
      PROVE  SchedulerInv'
  <2>1. st \notin {"Ready", "Running"} /\ status[t] # "Ready"
    BY <1>1 DEF WaitSynch, Caller
  <2>2. /\ status' = [status EXCEPT ![t] = st]
        /\ UNCHANGED <<current_priority, ready_queue, current_thread>>
    BY <1>1 DEF StartWait, schedVars, prioVars
  <2> QED
    BY <2>1, <2>2, StatusChange
<1>2. ASSUME NEW objs, AcquireNow(t, objs) PROVE SchedulerInv'
  BY <1>2, SameSchedule DEF AcquireNow, schedVars, prioVars
<1>3. CASE \E u \in Thread : \E p \in CreatePrios[u] : CreateThread(c, t, u, p)
  BY <1>3, CreateHolds DEF CreateThread
<1>4. "WaitSynchAny" \in WaitSynch /\ "WaitSynchAll" \in WaitSynch /\ "WaitHleEvent" \in WaitSynch
  BY DEF WaitSynch
<1>5. CASE \E o \in WaitTargets[t], timed \in BOOLEAN : WaitSynchronization1(c, t, o, timed)
  BY <1>1, <1>2, <1>4, <1>5 DEF WaitSynchronization1
<1>6. CASE \E objs \in WaitLists, timed \in BOOLEAN :
             \/ WaitSynchronizationAll(c, t, objs, timed)
             \/ WaitSynchronizationAny(c, t, objs, timed)
  BY <1>1, <1>2, <1>4, <1>6 DEF WaitSynchronizationAll, WaitSynchronizationAny
<1>7. CASE \E e \in Event, timed \in BOOLEAN : SleepClientThread(c, t, e, timed)
  BY <1>1, <1>4, <1>7 DEF SleepClientThread
<1>8. CASE \E forever \in BOOLEAN : SleepThread(c, t, forever)
  <2>1. /\ status[t] # "Ready" /\ status' = [status EXCEPT ![t] = "WaitSleep"]
        /\ UNCHANGED <<current_priority, ready_queue, current_thread>>
    BY <1>8 DEF SleepThread, Caller, schedVars, prioVars
  <2> QED
    BY <2>1, StatusChange
<1>9. ASSUME NEW m \in Mutex, ReleaseMutex(c, t, m) PROVE SchedulerInv'
  <2>1. UNCHANGED <<status, current_thread>>
    BY <1>9 DEF ReleaseMutex, MayRelease, LastRelease
  <2>2. CASE lock_count[m] = 1
    <3> DEFINE p == InheritedPriority(nominal_priority[t], held_mutexes'[t], priority)
    <3>1. TypeOK'
      BY <1>9, ReleaseMutexType
    <3>2. p \in Prio
      BY <3>1, PriorityType DEF TypeOK
    <3>3. BoostPriority(t, p)
      BY <1>9, <2>2 DEF ReleaseMutex, MayRelease, LastRelease, ThreadUpdatePriority
    <3> QED
      BY <2>1, <3>2, <3>3, BoostHolds
  <2>3. CASE lock_count[m] # 1
    BY <1>9, <2>1, <2>3, SameSchedule DEF ReleaseMutex, MayRelease, LastRelease
  <2> QED
    BY <2>2, <2>3
<1>10. ASSUME NEW u \in Thread, NEW p \in SetPrios, SetThreadPriority(c, t, u, p)
       PROVE  SchedulerInv'
  <2>1. InheritedPriority(p, held_mutexes[u], priority) \in Prio
    BY InputAssumption, PriorityType DEF TypeOK
  <2> QED
    BY <1>10, <2>1, BoostHolds DEF SetThreadPriority
<1>11. CASE \/ \E s \in Semaphore, n \in ReleaseCounts : ReleaseSemaphore(c, t, s, n)
            \/ \E s \in Signal : ClearSignal(c, t, s)
            \/ \E s \in Timer, initial, interval \in {0, 1} :
                 SetTimer(c, t, s, initial, interval)
            \/ \E s \in Timer : CancelTimer(c, t, s)
  BY <1>11, SameSchedule
  DEF ReleaseSemaphore, ClearSignal, SetTimer, TimerSignal, SetSignaled, CancelTimer,
      schedVars, prioVars
<1>12. CASE \/ \E p \in Process, allow \in BOOLEAN : ControlProcess(c, t, p, allow)
            \/ ExitThread(c, t)
            \/ \E p \in Process : TerminateProcess(c, t, p)
  BY <1>12, SameSchedule
  DEF ControlProcess, ExitThread, TerminateProcess, schedVars, prioVars
<1> QED
  BY <1>3, <1>5, <1>6, <1>7, <1>8, <1>9, <1>10, <1>11, <1>12 DEF SvcStep

\* A context switch keeps the scheduler invariant.
LEMMA SwitchContextHolds ==
  ASSUME TypeOK, SchedulerInv, NEW c \in Core, NEW p \in Prio,
         NEW i \in 1 .. Len(ready_queue[<<c, p>>]),
         SwitchContext(c, ready_queue[<<c, p>>][i], p), UNCHANGED current_priority
  PROVE  SchedulerInv'
PROOF
<1> DEFINE t == ready_queue[<<c, p>>][i]
           cur == current_thread[c]
           popped == RemoveFrom(ready_queue, t, p)
           R == ReadyThreads \ {t}
           saved == IF KeepsRunning(c) THEN PushFront(popped, cur, current_priority[cur])
                    ELSE popped
           S == IF KeepsRunning(c) THEN R \cup {cur} ELSE R
<1>1. ready_queue[<<c, p>>] \in Seq(Thread)
  BY DEF TypeOK
<1>2. t \in Thread /\ In(t, ready_queue[<<c, p>>])
  BY <1>1 DEF In
<1>3. status[t] = "Ready" /\ core_id[t] = c /\ current_priority[t] = p
  BY <1>2 DEF SchedulerInv, QueueHolds, ReadyThreads
<1>4. /\ ready_queue \in QueueSet /\ ReadyThreads \in SUBSET Thread
      /\ current_priority \in [Thread -> Prio] /\ R \in SUBSET Thread
  BY DEF TypeOK, QueueSet, ReadyThreads
<1>5. QueueHolds(popped, R, current_priority) /\ popped \in QueueSet
  <2>1. QueueHolds(RemoveFrom(ready_queue, t, current_priority[t]), R, current_priority)
    <3> HIDE DEF t
    <3> QED
      BY <1>2, <1>4, RemoveHolds DEF SchedulerInv
  <2>2. RemoveFrom(ready_queue, t, p) \in QueueSet
    <3> HIDE DEF t
    <3> QED
      BY <1>2, <1>4, QueueType DEF QueueSet
  <2> QED
    BY <1>3, <2>1, <2>2
<1>6. KeepsRunning(c) => /\ cur \in Thread /\ status[cur] = "Running" /\ cur # t
                         /\ core_id[cur] = c /\ current_priority[cur] \in Prio
  <2>1. cur \in Thread \cup {None}
    BY DEF TypeOK
  <2>2. KeepsRunning(c) => cur # None /\ status[cur] = "Running"
    BY DEF KeepsRunning
  <2> HIDE DEF cur, t
  <2> QED
    BY <1>3, <1>4, <2>1, <2>2 DEF SchedulerInv, CurrentOnItsCore, cur
<1> HIDE DEF t, cur, popped, R
<1>7. QueueHolds(saved, S, current_priority) /\ saved \in QueueSet /\ S \in SUBSET Thread
  <2>1. CASE KeepsRunning(c)
    <3>1. cur \in Thread \ R
      BY <1>6, <2>1 DEF R, ReadyThreads
    <3>2. QueueHolds(PushFront(popped, cur, current_priority[cur]), R \cup {cur},
                     [current_priority EXCEPT ![cur] = current_priority[cur]])
      BY <1>4, <1>5, <1>6, <2>1, <3>1, PushHolds
    <3>3. [current_priority EXCEPT ![cur] = current_priority[cur]] = current_priority
      BY <1>4
    <3>4. PushFront(popped, cur, current_priority[cur]) \in QueueSet
      BY <1>5, <1>6, <2>1, QueueType DEF QueueSet
    <3> QED
      BY <1>4, <1>6, <2>1, <3>2, <3>3, <3>4
  <2>2. CASE ~ KeepsRunning(c)
    BY <1>4, <1>5, <2>2
  <2> QED
    BY <2>1, <2>2
<1>8. /\ ready_queue' = RemoveFrom(saved, t, current_priority[t])
      /\ status' = [u \in Thread |-> CASE u = t -> "Running"
                                       [] u # t /\ KeepsRunning(c) /\ u = cur -> "Ready"
                                       [] OTHER -> status[u]]
      /\ current_thread' = [current_thread EXCEPT ![c] = t]
  BY DEF SwitchContext, SwitchedStatus, CancelWakeup, t, cur, popped
<1>9. QueueHolds(ready_queue', S \ {t}, current_priority)
  <2> HIDE DEF saved, S
  <2> QED
    BY <1>2, <1>4, <1>7, <1>8, RemoveHolds
<1>10. \A u \in Thread : /\ u = t => status'[u] = "Running"
                         /\ KeepsRunning(c) /\ u = cur => status'[u] = "Ready"
                         /\ u # t /\ ~ (KeepsRunning(c) /\ u = cur) => status'[u] = status[u]
  BY <1>6, <1>8
<1>11. ReadyThreads' = S \ {t}
  BY <1>2, <1>6, <1>10 DEF ReadyThreads, R
<1>12. OneRunningThread'
  <2> SUFFICES ASSUME NEW u \in Thread, status'[u] = "Running"
               PROVE  current_thread'[core_id[u]] = u
    BY DEF OneRunningThread
  <2>1. core_id[u] \in Core /\ current_thread \in [Core -> Thread \cup {None}]
    BY ParameterAssumption DEF TypeOK
  <2>2. CASE u = t
    BY <1>3, <1>8, <2>1, <2>2 DEF t
  <2>3. CASE u # t
    <3>1. status[u] = "Running" /\ ~ (KeepsRunning(c) /\ u = cur)
      BY <1>10, <2>3
    <3>2. current_thread[core_id[u]] = u
      BY <3>1 DEF SchedulerInv, OneRunningThread
    <3>3. core_id[u] # c
      BY <3>1, <3>2, ObjectAssumption DEF KeepsRunning, cur
    <3> QED
      BY <1>8, <2>1, <3>2, <3>3
  <2> QED
    BY <2>2, <2>3
<1>13. CurrentOnItsCore'
  <2>1. \A d \in Core : current_thread'[d] = IF d = c THEN t ELSE current_thread[d]
    BY <1>8 DEF TypeOK
  <2>2. core_id[t] = c
    BY <1>3 DEF t
  <2> QED
    BY <2>1, <2>2 DEF SchedulerInv, CurrentOnItsCore
<1> QED
  BY <1>9, <1>11, <1>12, <1>13 DEF SchedulerInv, QueueHolds

\* Reschedule keeps the scheduler invariant.
LEMMA RescheduleHolds ==
  ASSUME TypeOK, SchedulerInv, NEW c \in Core, Reschedule(c)
  PROVE  SchedulerInv'
PROOF
<1>1. UNCHANGED current_priority
  BY DEF Reschedule, CancelWakeup, prioVars
<1>2. CASE \E p \in Prio : \E i \in 1 .. Len(ready_queue[<<c, p>>]) :
             SwitchContext(c, ready_queue[<<c, p>>][i], p)
  BY <1>1, <1>2, SwitchContextHolds
<1>3. CASE UNCHANGED <<status, current_thread, ready_queue>>
  BY <1>1, <1>3, SameSchedule
<1>4. CASE /\ ~ KeepsRunning(c)
           /\ current_thread' = [current_thread EXCEPT ![c] = None]
           /\ UNCHANGED <<status, ready_queue>>
  <2>1. OneRunningThread'
    <3> SUFFICES ASSUME NEW u \in Thread, status[u] = "Running"
                 PROVE  current_thread'[core_id[u]] = u
      BY <1>4 DEF OneRunningThread
    <3>1. core_id[u] \in Core /\ current_thread[core_id[u]] = u
      BY ParameterAssumption DEF SchedulerInv, OneRunningThread
    <3>2. core_id[u] # c
      BY <1>4, <3>1, ObjectAssumption DEF KeepsRunning
    <3> QED
      BY <1>4, <3>1, <3>2 DEF TypeOK
  <2>2. CurrentOnItsCore'
    BY <1>4 DEF SchedulerInv, CurrentOnItsCore, TypeOK
  <2> QED
    BY <1>1, <1>4, <2>1, <2>2 DEF SchedulerInv, QueueHolds, ReadyThreads
<1> QED
  BY <1>2, <1>3, <1>4 DEF Reschedule, CancelWakeup

-----------------------------------------------------------------------------
\* The scheduler invariant holds initially.
LEMMA SchedulerInvInit ==
  ASSUME Init
  PROVE  SchedulerInv
PROOF
<1>1. QueueHolds(ready_queue, ReadyThreads, current_priority)
  BY DEF Init, QueueHolds, ReadyThreads, NoDuplicates, In
<1> QED
  BY <1>1 DEF Init, SchedulerInv, OneRunningThread, CurrentOnItsCore

\* Every step keeps the scheduler invariant.
LEMMA SchedulerInvNext ==
  ASSUME TypeOK, SchedulerInv, [Next]_vars
  PROVE  SchedulerInv'
PROOF
<1>1. CASE CallStep
  BY <1>1, CallStepHolds
<1>2. CASE \E t \in Thread : \E p \in CreatePrios[t], delayed \in BOOLEAN :
             SetupMainThread(t, p, delayed)
  BY <1>2, CreateHolds DEF SetupMainThread
<1>3. CASE \E c \in Core, t \in Thread : SvcStep(c, t)
  BY <1>3, SvcStepHolds
<1>4. CASE \/ \E e \in Event : SignalEvent(e)
           \/ \E t \in Thread : ThreadWakeupCallback(t)
           \/ \E s \in Timer : TimerCallback(s)
  BY <1>4, SameSchedule
  DEF SignalEvent, ThreadWakeupCallback, TimeoutCalls, TimerCallback, TimerSignal,
      SetSignaled, schedVars, prioVars
<1>5. CASE \E c \in Core : Reschedule(c)
  BY <1>5, RescheduleHolds
<1>6. CASE UNCHANGED vars
  BY <1>6, SameSchedule DEF vars, schedVars, prioVars
<1> QED
  BY <1>1, <1>2, <1>3, <1>4, <1>5, <1>6 DEF Next

\* The scheduler invariant holds in every reachable state.
LEMMA SchedulerInvariant == Spec => [](TypeOK /\ SchedulerInv)
PROOF
<1>1. Init => TypeOK /\ SchedulerInv
  BY InitType, SchedulerInvInit
<1>2. TypeOK /\ SchedulerInv /\ [Next]_vars => (TypeOK /\ SchedulerInv)'
  BY NextType, SchedulerInvNext
<1> QED
  BY <1>1, <1>2, PTL DEF Spec

\* A thread is in the ready queue exactly while it is Ready, once, at its core
\* and current priority, through every wake-up, boost, stop and context switch.
THEOREM ReadyQueueHolds == Spec => []ReadyQueueConsistent
PROOF
<1>1. SchedulerInv => ReadyQueueConsistent
  <2> SUFFICES ASSUME SchedulerInv, NEW c \in Core, NEW p \in Prio
               PROVE  /\ NoDuplicates(ready_queue[<<c, p>>])
                      /\ \A t \in Thread :
                           In(t, ready_queue[<<c, p>>]) <=>
                             status[t] = "Ready" /\ core_id[t] = c /\ current_priority[t] = p
    BY DEF ReadyQueueConsistent
  <2>1. /\ NoDuplicates(ready_queue[<<c, p>>])
        /\ \A t \in Thread :
             In(t, ready_queue[<<c, p>>]) <=>
               t \in ReadyThreads /\ core_id[t] = c /\ current_priority[t] = p
    BY DEF SchedulerInv, QueueHolds
  <2> QED
    BY <2>1 DEF ReadyThreads
<1> QED
  BY <1>1, SchedulerInvariant, PTL

\* A running thread is the current thread of its core: no core runs two.
THEOREM OneRunningHolds == Spec => []OneRunningThread
PROOF
<1>1. SchedulerInv => OneRunningThread
  BY DEF SchedulerInv
<1> QED
  BY <1>1, SchedulerInvariant, PTL

-----------------------------------------------------------------------------
(* Waiting *)

\* Calls that a handler has still to make.
AcquireOf(o, t) == ThreadObjectCall("Acquire", o, t)
Add(o, t)       == ThreadObjectCall("AddWaitingThread", o, t)
Remove(o, t)    == ThreadObjectCall("RemoveWaitingThread", o, t)
Clear(t)        == ThreadCall("ClearWaitObjects", t)
Resume(t)       == ThreadCall("ResumeFromWait", t)
Wakeup(o)       == ObjectCall("WakeupAllWaitingThreads", o)
Rearm(s)        == ObjectCall("RescheduleTimer", s)

\* Every pending call k comes after a pending call j; every j before a k.
Preceded(k, j, s) == \A i \in 1 .. Len(s) : s[i] = k => \E h \in 1 .. i - 1 : s[h] = j
Followed(j, k, s) == \A i \in 1 .. Len(s) : s[i] = j => \E h \in i + 1 .. Len(s) : s[h] = k

\* A handler that is to make call k may have call l still to make after it.
MayFollow(k, l) ==
  /\ k.op = "AddWaitingThread" <=> l.op = "AddWaitingThread"
  /\ l.op = "Acquire" => k.op = "Acquire" /\ k.thr = l.thr
  /\ k.op = "WakeupAllWaitingThreads" =>
       /\ k.obj \in Mutex => l.op \in {"ReleaseThreadMutexes", "TerminateProcessThreads"}
       /\ k.obj \in Thread =>
            \/ l.op = "TerminateProcessThreads"
            \/ /\ l.op \in {"RemoveWaitingThread", "ClearWaitObjects", "ReleaseThreadMutexes"}
               /\ l.thr = k.obj
       /\ k.obj \in Semaphore \cup Signal => l.op = "RescheduleTimer"
  /\ k.op \in {"Stop", "ReleaseThreadMutexes", "TerminateProcessThreads"} =>
       l.op = "TerminateProcessThreads"
  /\ k.op \notin {"UpdateMutexes", "RescheduleTimer"}

Ordered(s) == \A i, j \in 1 .. Len(s) : i < j => MayFollow(s[i], s[j])

\* The stack of the running handler.
ShapeInv == Ordered(calls)

ListsWithoutDuplicates == \A o \in Object : NoDuplicates(waiting_threads[o])
PendingAreWaited ==
  \A t \in Thread : pending_mutexes[t] = {m \in Mutex : In(t, waiting_threads[m])}
WaitersWait ==
  \A t \in Thread : wait_objects[t] # << >> =>
    /\ status[t] \in WaitSynch \/ In(Clear(t), calls)
    /\ Preceded(Resume(t), Clear(t), calls)
ListedIsWaited ==
  \A t \in Thread, o \in Object : In(t, waiting_threads[o]) =>
    /\ In(o, wait_objects[t])
    /\ Preceded(Clear(t), Remove(o, t), calls)
WaitedIsListed ==
  \A t \in Thread, o \in Object : In(o, wait_objects[t]) =>
    In(t, waiting_threads[o]) \/ In(Add(o, t), calls) \/ In(Clear(t), calls)
AddedIsWaited ==
  \A t \in Thread, o \in Object : In(Add(o, t), calls) => In(o, wait_objects[t])
RemovedIsCleared ==
  \A t \in Thread, o \in Object : Followed(Remove(o, t), Clear(t), calls)
ClearedIsResumed ==
  \A t \in Thread : status[t] # "Dead" => Followed(Clear(t), Resume(t), calls)

WaitInv ==
  /\ ListsWithoutDuplicates /\ PendingAreWaited /\ WaitersWait /\ ListedIsWaited
  /\ WaitedIsListed /\ AddedIsWaited /\ RemovedIsCleared /\ ClearedIsResumed

-----------------------------------------------------------------------------
(***************************************************************************)
(* Calls and their order.                                                  *)
(***************************************************************************)
\* The calls by name: their fields, and that each name is a call.
LEMMA CallNames ==
  /\ \A o, t : /\ AcquireOf(o, t).op = "Acquire" /\ AcquireOf(o, t).obj = o
               /\ AcquireOf(o, t).thr = t
               /\ Add(o, t).op = "AddWaitingThread" /\ Add(o, t).obj = o /\ Add(o, t).thr = t
               /\ Remove(o, t).op = "RemoveWaitingThread" /\ Remove(o, t).obj = o
               /\ Remove(o, t).thr = t
  /\ \A t : /\ Clear(t).op = "ClearWaitObjects" /\ Clear(t).thr = t
            /\ Resume(t).op = "ResumeFromWait" /\ Resume(t).thr = t
            /\ ThreadCall("ReleaseThreadMutexes", t).op = "ReleaseThreadMutexes"
            /\ ThreadCall("ReleaseThreadMutexes", t).thr = t
            /\ ThreadCall("Stop", t).op = "Stop" /\ ThreadCall("Stop", t).thr = t
  /\ \A o : /\ Wakeup(o).op = "WakeupAllWaitingThreads" /\ Wakeup(o).obj = o
            /\ Rearm(o).op = "RescheduleTimer" /\ Rearm(o).obj = o
PROOF
  BY DEF AcquireOf, Add, Remove, Clear, Resume, Wakeup, Rearm, ThreadObjectCall,
         ThreadCall, ObjectCall

\* A call is known by its operation and the thread and object it is about.
LEMMA CallOfOp ==
  ASSUME NEW k \in Call
  PROVE  /\ k.op = "Acquire" => k = AcquireOf(k.obj, k.thr)
         /\ k.op = "AddWaitingThread" => k = Add(k.obj, k.thr)
         /\ k.op = "RemoveWaitingThread" => k = Remove(k.obj, k.thr)
         /\ k.op = "ClearWaitObjects" => k = Clear(k.thr)
         /\ k.op = "ResumeFromWait" => k = Resume(k.thr)
         /\ k.op = "WakeupAllWaitingThreads" => k = Wakeup(k.obj)
         /\ k.op = "RescheduleTimer" => k = Rearm(k.obj)
PROOF
  BY DEF Call, AcquireOf, Add, Remove, Clear, Resume, Wakeup, Rearm, ThreadObjectCall,
         ThreadCall, ObjectCall

\* Positions of a concatenation and of a tail.
LEMMA ConcatAt ==
  ASSUME NEW a \in Seq(Call), NEW b \in Seq(Call)
  PROVE  /\ a \o b \in Seq(Call) /\ Len(a) \in Nat /\ Len(b) \in Nat
         /\ Len(a \o b) = Len(a) + Len(b)
         /\ \A i \in 1 .. Len(a) : (a \o b)[i] = a[i]
         /\ \A i \in Len(a) + 1 .. Len(a) + Len(b) :
              i - Len(a) \in 1 .. Len(b) /\ (a \o b)[i] = b[i - Len(a)]
         /\ \A i \in 1 .. Len(b) : (a \o b)[i + Len(a)] = b[i]
PROOF
  OBVIOUS

\* The tail of a stack is the stack shifted by one.
LEMMA TailAt ==
  ASSUME NEW s \in Seq(Call), s # << >>
  PROVE  /\ Tail(s) \in Seq(Call) /\ Len(s) \in Nat /\ Len(s) >= 1
         /\ Len(Tail(s)) = Len(s) - 1
         /\ s[1] = Head(s)
         /\ \A i \in 1 .. Len(s) - 1 : Tail(s)[i] = s[i + 1]
PROOF
  OBVIOUS

\* Order in a concatenation and in a tail.
LEMMA OrderedConcat ==
  ASSUME NEW a \in Seq(Call), NEW b \in Seq(Call), Ordered(a), Ordered(b),
         \A k, l : In(k, a) /\ In(l, b) => MayFollow(k, l)
  PROVE  Ordered(a \o b)
PROOF
<1> DEFINE s == a \o b
           n == Len(a)
           m == Len(b)
<1>1. /\ Len(s) = n + m /\ n \in Nat /\ m \in Nat
      /\ \A i \in 1 .. n : s[i] = a[i]
      /\ \A i \in n + 1 .. n + m : i - n \in 1 .. m /\ s[i] = b[i - n]
  BY ConcatAt
<1>2. SUFFICES ASSUME NEW i \in 1 .. n + m, NEW j \in 1 .. n + m, i < j
               PROVE  MayFollow(s[i], s[j])
  BY <1>1 DEF Ordered
<1>3. CASE j <= n
  <2>1. i \in 1 .. n /\ j \in 1 .. n
    BY <1>1, <1>2, <1>3
  <2> QED
    BY <1>1, <1>2, <2>1 DEF Ordered
<1>4. CASE i > n
  <2>1. /\ i \in n + 1 .. n + m /\ j \in n + 1 .. n + m
        /\ i - n < j - n
    BY <1>1, <1>2, <1>4
  <2> HIDE DEF s
  <2>2. i - n \in 1 .. m /\ j - n \in 1 .. m /\ s[i] = b[i - n] /\ s[j] = b[j - n]
    BY <1>1, <2>1
  <2> QED
    BY <2>1, <2>2 DEF Ordered
<1>5. CASE i <= n /\ j > n
  <2>1. i \in 1 .. n /\ j \in n + 1 .. n + m
    BY <1>1, <1>2, <1>5
  <2> HIDE DEF s
  <2>2. s[i] = a[i] /\ s[j] = b[j - n] /\ j - n \in 1 .. m
    BY <1>1, <2>1
  <2>3. In(a[i], a) /\ In(b[j - n], b)
    BY <2>1, <2>2 DEF In
  <2> QED
    BY <2>2, <2>3
<1> QED
  BY <1>1, <1>3, <1>4, <1>5

\* When the first call of an ordered stack is made, the rest is ordered and each
\* of its calls may follow the first.
LEMMA OrderedTail ==
  ASSUME NEW s \in Seq(Call), s # << >>, Ordered(s)
  PROVE  /\ Ordered(Tail(s))
         /\ \A l : In(l, Tail(s)) => MayFollow(Head(s), l)
PROOF
<1> DEFINE n == Len(s) - 1
<1>1. /\ n \in Nat /\ Len(Tail(s)) = n /\ s[1] = Head(s) /\ Len(s) = n + 1
      /\ \A i \in 1 .. n : Tail(s)[i] = s[i + 1] /\ i + 1 \in 1 .. Len(s)
  BY TailAt
<1>2. 1 \in 1 .. Len(s) /\ \A i \in 1 .. n : 1 < i + 1
  BY <1>1
<1> HIDE DEF n
<1>3. Ordered(Tail(s))
  <2> SUFFICES ASSUME NEW i \in 1 .. n, NEW j \in 1 .. n, i < j
               PROVE  MayFollow(Tail(s)[i], Tail(s)[j])
    BY <1>1 DEF Ordered
  <2>1. i + 1 < j + 1
    BY <1>1
  <2> QED
    BY <1>1, <2>1 DEF Ordered
<1>4. \A l : In(l, Tail(s)) => MayFollow(Head(s), l)
  BY <1>1, <1>2 DEF Ordered, In
<1> QED
  BY <1>3, <1>4

\* A call that is absent, or that a part of the stack precedes or follows.
LEMMA PrecededConcat ==
  ASSUME NEW a \in Seq(Call), NEW b \in Seq(Call), NEW k, NEW j
  PROVE  /\ ~ In(k, a) => Preceded(k, j, a)
         /\ Preceded(k, j, a) /\ Preceded(k, j, b) => Preceded(k, j, a \o b)
         /\ Preceded(k, j, a) /\ In(j, a) => Preceded(k, j, a \o b)
PROOF
<1> DEFINE s == a \o b
           n == Len(a)
           m == Len(b)
<1>1. /\ Len(s) = n + m /\ n \in Nat /\ m \in Nat
      /\ \A i \in 1 .. n : s[i] = a[i]
      /\ \A i \in n + 1 .. n + m : i - n \in 1 .. m /\ s[i] = b[i - n]
      /\ \A i \in 1 .. m : s[i + n] = b[i]
  BY ConcatAt
<1>2. ~ In(k, a) => Preceded(k, j, a)
  BY DEF Preceded, In
<1>3. ASSUME Preceded(k, j, a), Preceded(k, j, b) \/ In(j, a)
      PROVE  Preceded(k, j, s)
  <2> HIDE DEF s
  <2> SUFFICES ASSUME NEW i \in 1 .. n + m, s[i] = k
               PROVE  \E h \in 1 .. i - 1 : s[h] = j
    BY <1>1 DEF Preceded
  <2>1. CASE i <= n
    <3>1. i \in 1 .. n /\ a[i] = k
      BY <1>1, <2>1
    <3>2. PICK h \in 1 .. i - 1 : a[h] = j
      BY <1>3, <3>1 DEF Preceded
    <3>3. h \in 1 .. n
      BY <3>1, <3>2, <1>1
    <3> QED
      BY <1>1, <3>2, <3>3
  <2>2. CASE i > n /\ In(j, a)
    <3>1. PICK h \in 1 .. n : a[h] = j
      BY <2>2 DEF In
    <3>2. h \in 1 .. i - 1
      BY <2>2, <3>1, <1>1
    <3> QED
      BY <1>1, <3>1, <3>2
  <2>3. CASE i > n /\ Preceded(k, j, b)
    <3>1. i \in n + 1 .. n + m
      BY <1>1, <2>3
    <3>2. i - n \in 1 .. m /\ b[i - n] = k
      BY <1>1, <3>1
    <3>3. PICK h \in 1 .. i - n - 1 : b[h] = j
      BY <2>3, <3>2 DEF Preceded
    <3>4. h \in 1 .. m /\ h + n \in 1 .. i - 1
      BY <1>1, <3>1, <3>3
    <3> QED
      BY <1>1, <3>3, <3>4
  <2> QED
    BY <1>1, <1>3, <2>1, <2>2, <2>3
<1> QED
  BY <1>2, <1>3

\* A call stays followed by another when calls are put in front of or behind it.
LEMMA FollowedConcat ==
  ASSUME NEW a \in Seq(Call), NEW b \in Seq(Call), NEW k, NEW j
  PROVE  /\ ~ In(j, a) => Followed(j, k, a)
         /\ Followed(j, k, a) /\ Followed(j, k, b) => Followed(j, k, a \o b)
         /\ Followed(j, k, b) /\ In(k, b) => Followed(j, k, a \o b)
PROOF
<1> DEFINE s == a \o b
           n == Len(a)
           m == Len(b)
<1>1. /\ Len(s) = n + m /\ n \in Nat /\ m \in Nat
      /\ \A i \in 1 .. n : s[i] = a[i]
      /\ \A i \in n + 1 .. n + m : i - n \in 1 .. m /\ s[i] = b[i - n]
      /\ \A i \in 1 .. m : s[i + n] = b[i]
  BY ConcatAt
<1>2. ~ In(j, a) => Followed(j, k, a)
  BY DEF Followed, In
<1>3. ASSUME Followed(j, k, b), Followed(j, k, a) \/ In(k, b)
      PROVE  Followed(j, k, s)
  <2> HIDE DEF s
  <2> SUFFICES ASSUME NEW i \in 1 .. n + m, s[i] = j
               PROVE  \E h \in i + 1 .. n + m : s[h] = k
    BY <1>1 DEF Followed
  <2>1. CASE i > n
    <3>1. i \in n + 1 .. n + m
      BY <1>1, <2>1
    <3>2. i - n \in 1 .. m /\ b[i - n] = j
      BY <1>1, <3>1
    <3>3. PICK h \in i - n + 1 .. m : b[h] = k
      BY <1>3, <3>2 DEF Followed
    <3>4. h \in 1 .. m /\ h + n \in i + 1 .. n + m
      BY <1>1, <3>1, <3>3
    <3> QED
      BY <1>1, <3>3, <3>4
  <2>2. CASE i <= n /\ In(k, b)
    <3>1. PICK h \in 1 .. m : b[h] = k
      BY <2>2 DEF In
    <3>2. h + n \in i + 1 .. n + m
      BY <2>2, <3>1, <1>1
    <3> QED
      BY <1>1, <3>1, <3>2
  <2>3. CASE i <= n /\ Followed(j, k, a)
    <3>1. i \in 1 .. n /\ a[i] = j
      BY <1>1, <2>3
    <3>2. PICK h \in i + 1 .. n : a[h] = k
      BY <2>3, <3>1 DEF Followed
    <3>3. h \in 1 .. n /\ h \in i + 1 .. n + m
      BY <1>1, <3>1, <3>2
    <3> QED
      BY <1>1, <3>2, <3>3
  <2> QED
    BY <1>1, <1>3, <2>1, <2>2, <2>3
<1> QED
  BY <1>2, <1>3

\* Making the first call.
LEMMA OrderOfTail ==
  ASSUME NEW s \in Seq(Call), s # << >>, NEW k, NEW j
  PROVE  /\ Preceded(k, j, s) => Head(s) # k
         /\ Preceded(k, j, s) /\ Head(s) # j => Preceded(k, j, Tail(s))
         /\ Followed(j, k, s) => Followed(j, k, Tail(s))
         /\ Followed(j, k, s) /\ Head(s) = j => In(k, Tail(s))
PROOF
<1> DEFINE n == Len(s) - 1
           r == Tail(s)
<1>1. /\ n \in Nat /\ Len(r) = n /\ s[1] = Head(s) /\ Len(s) = n + 1
      /\ \A i \in 1 .. n : r[i] = s[i + 1] /\ i + 1 \in 1 .. n + 1
      /\ 1 \in 1 .. n + 1
  BY TailAt
<1> HIDE DEF n, r
<1>2. \A i \in 2 .. n + 1 : i - 1 \in 1 .. n /\ r[i - 1] = s[i]
  BY <1>1
<1>3. ASSUME Preceded(k, j, s) PROVE Head(s) # k
  <2>1. ~ \E h \in 1 .. 1 - 1 : TRUE
    OBVIOUS
  <2> QED
    BY <1>1, <1>3, <2>1 DEF Preceded
<1>4. ASSUME Preceded(k, j, s), Head(s) # j PROVE Preceded(k, j, r)
  <2> SUFFICES ASSUME NEW i \in 1 .. n, r[i] = k
               PROVE  \E h \in 1 .. i - 1 : r[h] = j
    BY <1>1 DEF Preceded
  <2>1. i + 1 \in 1 .. n + 1 /\ s[i + 1] = k
    BY <1>1
  <2>2. PICK h \in 1 .. (i + 1) - 1 : s[h] = j
    BY <1>1, <1>4, <2>1 DEF Preceded
  <2>3. h # 1
    BY <1>1, <1>4, <2>2
  <2>4. h \in 2 .. n + 1 /\ h - 1 \in 1 .. i - 1
    BY <1>1, <2>1, <2>2, <2>3
  <2> QED
    BY <1>2, <2>2, <2>4
<1>5. ASSUME Followed(j, k, s) PROVE Followed(j, k, r)
  <2> SUFFICES ASSUME NEW i \in 1 .. n, r[i] = j
               PROVE  \E h \in i + 1 .. n : r[h] = k
    BY <1>1 DEF Followed
  <2>1. i + 1 \in 1 .. n + 1 /\ s[i + 1] = j
    BY <1>1
  <2>2. PICK h \in (i + 1) + 1 .. n + 1 : s[h] = k
    BY <1>1, <1>5, <2>1 DEF Followed
  <2>3. h \in 2 .. n + 1 /\ h - 1 \in i + 1 .. n
    BY <1>1, <2>1, <2>2
  <2> QED
    BY <1>2, <2>2, <2>3
<1>6. ASSUME Followed(j, k, s), Head(s) = j PROVE In(k, r)
  <2>1. PICK h \in 1 + 1 .. n + 1 : s[h] = k
    BY <1>1, <1>6 DEF Followed
  <2>2. h \in 2 .. n + 1
    BY <2>1
  <2> QED
    BY <1>1, <1>2, <2>1, <2>2 DEF In
<1> QED
  BY <1>3, <1>4, <1>5, <1>6 DEF r

-----------------------------------------------------------------------------
(***************************************************************************)
(* The calls that wake, time out and stop a thread, and their order.        *)
(***************************************************************************)
\* One call after another, and the same call for every object of a vector.
LEMMA OrderedOne ==
  ASSUME NEW k \in Call
  PROVE  /\ <<k>> \in Seq(Call) /\ Ordered(<<k>>) /\ Ordered(<< >>)
         /\ \A l : In(l, <<k>>) <=> l = k
         /\ \A l : ~ In(l, << >>)
PROOF
  BY DEF Ordered, In

\* The stack of two calls, as Stop and the callbacks push them.
LEMMA OrderedTwo ==
  ASSUME NEW k \in Call, NEW l \in Call, MayFollow(k, l)
  PROVE  /\ <<k, l>> \in Seq(Call) /\ Ordered(<<k, l>>)
         /\ \A x : In(x, <<k, l>>) <=> x = k \/ x = l
         /\ k # l => Preceded(l, k, <<k, l>>) /\ Followed(k, l, <<k, l>>)
PROOF
<1> DEFINE s == <<k, l>>
<1>1. s \in Seq(Call) /\ Len(s) = 2 /\ s[1] = k /\ s[2] = l
  OBVIOUS
<1>2. \A i \in 1 .. 2 : i = 1 \/ i = 2
  OBVIOUS
<1> HIDE DEF s
<1>3. Ordered(s)
  <2>1. \A i, j \in 1 .. 2 : i < j => i = 1 /\ j = 2
    OBVIOUS
  <2> QED
    BY <1>1, <2>1 DEF Ordered
<1>4. \A x : In(x, s) <=> x = k \/ x = l
  <2>1. 1 \in 1 .. 2 /\ 2 \in 1 .. 2
    OBVIOUS
  <2> QED
    BY <1>1, <1>2, <2>1 DEF In
<1>5. ASSUME k # l PROVE Preceded(l, k, s) /\ Followed(k, l, s)
  <2>1. 1 \in 1 .. 2 - 1 /\ 2 \in 1 + 1 .. 2
    OBVIOUS
  <2>2. Preceded(l, k, s)
    BY <1>1, <1>2, <1>5, <2>1 DEF Preceded
  <2>3. Followed(k, l, s)
    BY <1>1, <1>2, <1>5, <2>1 DEF Followed
  <2> QED
    BY <2>2, <2>3
<1> QED
  BY <1>1, <1>3, <1>4, <1>5 DEF s

\* The calls of a loop over a list of objects are ordered.
LEMMA OrderedForEach ==
  ASSUME NEW op \in {"Acquire", "AddWaitingThread", "RemoveWaitingThread"},
         NEW objs \in Seq(Object), NEW t \in Thread
  PROVE  Ordered(ForEach(op, objs, t))
PROOF
<1>1. /\ Len(ForEach(op, objs, t)) = Len(objs)
      /\ \A i \in 1 .. Len(objs) : ForEach(op, objs, t)[i] = ThreadObjectCall(op, objs[i], t)
  BY DEF ForEach
<1>2. \A o, p : MayFollow(ThreadObjectCall(op, o, t), ThreadObjectCall(op, p, t))
  BY DEF MayFollow, ThreadObjectCall
<1> QED
  BY <1>1, <1>2 DEF Ordered

\* The calls that take a thread off its waiting lists and clear its wait objects,
\* after any calls that do neither.
LEMMA ForEachCalls ==
  ASSUME NEW objs \in Seq(Object), NEW t \in Thread
  PROVE  /\ ForEach("Acquire", objs, t) \in Seq(Call)
         /\ ForEach("RemoveWaitingThread", objs, t) \in Seq(Call)
         /\ ForEach("AddWaitingThread", objs, t) \in Seq(Call)
         /\ \A k : In(k, ForEach("Acquire", objs, t)) <=>
              \E o : In(o, objs) /\ k = AcquireOf(o, t)
         /\ \A k : In(k, ForEach("RemoveWaitingThread", objs, t)) <=>
              \E o : In(o, objs) /\ k = Remove(o, t)
         /\ \A k : In(k, ForEach("AddWaitingThread", objs, t)) <=>
              \E o : In(o, objs) /\ k = Add(o, t)
PROOF
<1>1. \A k : (\E i \in 1 .. Len(objs) : k = AcquireOf(objs[i], t)) <=>
              \E o : In(o, objs) /\ k = AcquireOf(o, t)
  BY DEF In
<1>2. \A k : (\E i \in 1 .. Len(objs) : k = Remove(objs[i], t)) <=>
              \E o : In(o, objs) /\ k = Remove(o, t)
  BY DEF In
<1>3. \A k : (\E i \in 1 .. Len(objs) : k = Add(objs[i], t)) <=>
              \E o : In(o, objs) /\ k = Add(o, t)
  BY DEF In
<1>4. /\ ForEach("Acquire", objs, t) \in Seq(Call)
      /\ \A k : In(k, ForEach("Acquire", objs, t)) <=>
           \E i \in 1 .. Len(objs) : k = AcquireOf(objs[i], t)
  BY ForEachType DEF AcquireOf
<1>5. /\ ForEach("RemoveWaitingThread", objs, t) \in Seq(Call)
      /\ \A k : In(k, ForEach("RemoveWaitingThread", objs, t)) <=>
           \E i \in 1 .. Len(objs) : k = Remove(objs[i], t)
  BY ForEachType DEF Remove
<1>6. /\ ForEach("AddWaitingThread", objs, t) \in Seq(Call)
      /\ \A k : In(k, ForEach("AddWaitingThread", objs, t)) <=>
           \E i \in 1 .. Len(objs) : k = Add(objs[i], t)
  BY ForEachType DEF Add
<1> QED
  BY <1>1, <1>2, <1>3, <1>4, <1>5, <1>6

\* The abbreviations of this module are calls of the model.
LEMMA NamesAreCalls ==
  /\ \A o \in Object, t \in Thread :
       AcquireOf(o, t) \in Call /\ Add(o, t) \in Call /\ Remove(o, t) \in Call
  /\ \A t \in Thread :
       /\ Clear(t) \in Call /\ Resume(t) \in Call
       /\ ThreadCall("ReleaseThreadMutexes", t) \in Call /\ ThreadCall("Stop", t) \in Call
  /\ \A o \in Object : Wakeup(o) \in Call /\ Rearm(o) \in Call
PROOF
  BY CallMakers DEF AcquireOf, Add, Remove, Clear, Resume, Wakeup, Rearm

\* WakeupCalls: acquire, leave every list, clear, resume.
LEMMA WakeupBody ==
  ASSUME TypeOK, NEW o \in Object, NEW t \in Thread
  PROVE  /\ WakeupCalls(o, t) \in Seq(Call)
         /\ Ordered(WakeupCalls(o, t))
         /\ \A k : In(k, WakeupCalls(o, t)) <=>
              \/ /\ status[t] = "WaitSynchAll"
                 /\ \E p : In(p, wait_objects[t]) /\ k = AcquireOf(p, t)
              \/ status[t] # "WaitSynchAll" /\ k = AcquireOf(o, t)
              \/ \E p : In(p, wait_objects[t]) /\ k = Remove(p, t)
              \/ k = Clear(t) \/ k = Resume(t)
         /\ \A p : In(p, wait_objects[t]) =>
              Preceded(Clear(t), Remove(p, t), WakeupCalls(o, t))
         /\ \A p : Followed(Remove(p, t), Clear(t), WakeupCalls(o, t))
         /\ Preceded(Resume(t), Clear(t), WakeupCalls(o, t))
         /\ Followed(Clear(t), Resume(t), WakeupCalls(o, t))
PROOF
<1> DEFINE got == IF status[t] = "WaitSynchAll" THEN wait_objects[t] ELSE <<o>>
           a == ForEach("Acquire", got, t)
           r == ForEach("RemoveWaitingThread", wait_objects[t], t)
           c == <<Clear(t), Resume(t)>>
<1>1. WakeupCalls(o, t) = (a \o r) \o c
  BY DEF WakeupCalls, Clear, Resume
<1>2. wait_objects[t] \in Seq(Object) /\ got \in Seq(Object)
  BY DEF TypeOK
<1>3. \A p : In(p, got) <=> IF status[t] = "WaitSynchAll" THEN In(p, wait_objects[t]) ELSE p = o
  BY DEF In
<1> HIDE DEF got
<1>4. /\ a \in Seq(Call) /\ Ordered(a)
      /\ \A k : In(k, a) <=> \E p : In(p, got) /\ k = AcquireOf(p, t)
  BY <1>2, ForEachCalls, OrderedForEach
<1>5. /\ r \in Seq(Call) /\ Ordered(r)
      /\ \A k : In(k, r) <=> \E p : In(p, wait_objects[t]) /\ k = Remove(p, t)
  BY <1>2, ForEachCalls, OrderedForEach
<1>6. /\ c \in Seq(Call) /\ Ordered(c)
      /\ \A k : In(k, c) <=> k = Clear(t) \/ k = Resume(t)
      /\ Preceded(Resume(t), Clear(t), c) /\ Followed(Clear(t), Resume(t), c)
  <2>1. Clear(t) \in Call /\ Resume(t) \in Call /\ Clear(t) # Resume(t)
    BY NamesAreCalls, CallNames
  <2>2. MayFollow(Clear(t), Resume(t))
    BY CallNames DEF MayFollow
  <2> QED
    BY <2>1, <2>2, OrderedTwo
<1> HIDE DEF a, r, c
<1>7. /\ a \o r \in Seq(Call) /\ Ordered(a \o r)
      /\ \A k : In(k, a \o r) <=> In(k, a) \/ In(k, r)
  <2>1. \A k, l : In(k, a) /\ In(l, r) => MayFollow(k, l)
    BY <1>4, <1>5, CallNames DEF MayFollow
  <2> QED
    BY <1>4, <1>5, <2>1, OrderedConcat, InConcat, ConcatAt
<1>8. /\ (a \o r) \o c \in Seq(Call) /\ Ordered((a \o r) \o c)
      /\ \A k : In(k, (a \o r) \o c) <=> In(k, a) \/ In(k, r) \/ In(k, c)
  <2>1. \A k, l : In(k, a \o r) /\ In(l, c) => MayFollow(k, l)
    BY <1>4, <1>5, <1>6, <1>7, CallNames DEF MayFollow
  <2> QED
    BY <1>6, <1>7, <2>1, OrderedConcat, InConcat, ConcatAt
<1>9. ~ In(Clear(t), a \o r) /\ ~ In(Resume(t), a \o r)
  BY <1>4, <1>5, <1>7, CallNames
<1>10. \A p : ~ In(Remove(p, t), c)
  BY <1>6, CallNames
<1>11. \A p : In(p, wait_objects[t]) => In(Remove(p, t), a \o r)
  BY <1>5, <1>7
<1>12. \A p : In(p, wait_objects[t]) => Preceded(Clear(t), Remove(p, t), (a \o r) \o c)
  BY <1>6, <1>7, <1>9, <1>11, PrecededConcat
<1>13. \A p : Followed(Remove(p, t), Clear(t), (a \o r) \o c)
  BY <1>6, <1>7, <1>10, FollowedConcat
<1>14. Preceded(Resume(t), Clear(t), (a \o r) \o c)
  BY <1>6, <1>7, <1>9, PrecededConcat
<1>15. Followed(Clear(t), Resume(t), (a \o r) \o c)
  BY <1>6, <1>7, FollowedConcat
<1> QED
  BY <1>1, <1>3, <1>4, <1>5, <1>6, <1>8, <1>12, <1>13, <1>14, <1>15

\* StopCalls: wake those who wait for the thread, leave every list, clear, release.
LEMMA StopBody ==
  ASSUME TypeOK, NEW t \in Thread
  PROVE  /\ StopCalls(t) \in Seq(Call)
         /\ Ordered(StopCalls(t))
         /\ \A k : In(k, StopCalls(t)) <=>
              \/ k = Wakeup(t)
              \/ \E p : In(p, wait_objects[t]) /\ k = Remove(p, t)
              \/ k = Clear(t) \/ k = ThreadCall("ReleaseThreadMutexes", t)
         /\ \A p : In(p, wait_objects[t]) => Preceded(Clear(t), Remove(p, t), StopCalls(t))
         /\ \A p : Followed(Remove(p, t), Clear(t), StopCalls(t))
PROOF
<1> DEFINE w == <<Wakeup(t)>>
           r == ForEach("RemoveWaitingThread", wait_objects[t], t)
           release == ThreadCall("ReleaseThreadMutexes", t)
           c == <<Clear(t), release>>
<1>1. StopCalls(t) = (w \o r) \o c
  BY DEF StopCalls, Clear, Wakeup
<1>2. wait_objects[t] \in Seq(Object) /\ t \in Object
  BY DEF TypeOK, Object
<1>3. Clear(t) \in Call /\ release \in Call /\ Wakeup(t) \in Call
  BY <1>2, NamesAreCalls
<1>4. release.op = "ReleaseThreadMutexes" /\ release.thr = t
  BY CallNames
<1> HIDE DEF release
<1>5. w \in Seq(Call) /\ Ordered(w) /\ \A k : In(k, w) <=> k = Wakeup(t)
  BY <1>3, OrderedOne
<1>6. /\ r \in Seq(Call) /\ Ordered(r)
      /\ \A k : In(k, r) <=> \E p : In(p, wait_objects[t]) /\ k = Remove(p, t)
  BY <1>2, ForEachCalls, OrderedForEach
<1>7. /\ c \in Seq(Call) /\ Ordered(c)
      /\ \A k : In(k, c) <=> k = Clear(t) \/ k = release
  <2>1. MayFollow(Clear(t), release)
    BY <1>4, CallNames DEF MayFollow
  <2> QED
    BY <1>3, <2>1, OrderedTwo
<1> HIDE DEF w, r, c
<1>8. /\ w \o r \in Seq(Call) /\ Ordered(w \o r)
      /\ \A k : In(k, w \o r) <=> In(k, w) \/ In(k, r)
  <2>1. \A p : MayFollow(Wakeup(t), Remove(p, t))
    BY CallNames, ObjectAssumption DEF MayFollow
  <2>2. \A k, l : In(k, w) /\ In(l, r) => MayFollow(k, l)
    BY <1>5, <1>6, <2>1
  <2> QED
    BY <1>5, <1>6, <2>2, OrderedConcat, InConcat, ConcatAt
<1>9. /\ (w \o r) \o c \in Seq(Call) /\ Ordered((w \o r) \o c)
      /\ \A k : In(k, (w \o r) \o c) <=> In(k, w) \/ In(k, r) \/ In(k, c)
  <2>1. MayFollow(Wakeup(t), Clear(t)) /\ MayFollow(Wakeup(t), release)
    BY <1>4, CallNames, ObjectAssumption DEF MayFollow
  <2>2. \A p : MayFollow(Remove(p, t), Clear(t)) /\ MayFollow(Remove(p, t), release)
    BY <1>4, CallNames DEF MayFollow
  <2>3. \A k, l : In(k, w \o r) /\ In(l, c) => MayFollow(k, l)
    BY <1>5, <1>6, <1>7, <1>8, <2>1, <2>2
  <2> QED
    BY <1>7, <1>8, <2>3, OrderedConcat, InConcat, ConcatAt
<1>10. ~ In(Clear(t), w \o r)
  BY <1>5, <1>6, <1>8, CallNames
<1>11. \A p : ~ In(Remove(p, t), c)
  BY <1>4, <1>7, CallNames
<1>12. \A p : In(p, wait_objects[t]) => In(Remove(p, t), w \o r)
  BY <1>6, <1>8
<1>13. \A p : In(p, wait_objects[t]) => Preceded(Clear(t), Remove(p, t), (w \o r) \o c)
  BY <1>7, <1>8, <1>10, <1>12, PrecededConcat
<1>14. \A p : Followed(Remove(p, t), Clear(t), (w \o r) \o c)
  BY <1>7, <1>8, <1>11, FollowedConcat
<1> QED
  BY <1>1, <1>5, <1>6, <1>7, <1>9, <1>13, <1>14 DEF release

\* TimeoutCalls: a thread in a wait leaves every list and is cleared; it resumes.
LEMMA TimeoutBody ==
  ASSUME TypeOK, NEW t \in Thread
  PROVE  /\ TimeoutCalls(t) \in Seq(Call)
         /\ Ordered(TimeoutCalls(t))
         /\ \A k : In(k, TimeoutCalls(t)) <=>
              \/ /\ status[t] \in WaitSynch
                 /\ (\E p : In(p, wait_objects[t]) /\ k = Remove(p, t)) \/ k = Clear(t)
              \/ k = Resume(t)
         /\ \A p : In(p, wait_objects[t]) => Preceded(Clear(t), Remove(p, t), TimeoutCalls(t))
         /\ \A p : Followed(Remove(p, t), Clear(t), TimeoutCalls(t))
         /\ status[t] \in WaitSynch => Preceded(Resume(t), Clear(t), TimeoutCalls(t))
         /\ Followed(Clear(t), Resume(t), TimeoutCalls(t))
PROOF
<1> DEFINE r == ForEach("RemoveWaitingThread", wait_objects[t], t)
           c == <<Clear(t)>>
           d == <<Resume(t)>>
<1>1. wait_objects[t] \in Seq(Object)
  BY DEF TypeOK
<1>2. Clear(t) \in Call /\ Resume(t) \in Call /\ Clear(t) # Resume(t)
  BY NamesAreCalls, CallNames
<1>3. c \in Seq(Call) /\ Ordered(c) /\ \A k : In(k, c) <=> k = Clear(t)
  BY <1>2, OrderedOne
<1>4. d \in Seq(Call) /\ Ordered(d) /\ \A k : In(k, d) <=> k = Resume(t)
  BY <1>2, OrderedOne
<1>5. /\ r \in Seq(Call) /\ Ordered(r)
      /\ \A k : In(k, r) <=> \E p : In(p, wait_objects[t]) /\ k = Remove(p, t)
  BY <1>1, ForEachCalls, OrderedForEach
<1>6. \A p : ~ In(Remove(p, t), d) /\ ~ In(Remove(p, t), c)
  BY <1>3, <1>4, CallNames
<1>7. CASE status[t] \in WaitSynch
  <2>1. TimeoutCalls(t) = (r \o c) \o d
    BY <1>7 DEF TimeoutCalls, Clear, Resume
  <2> HIDE DEF r, c, d
  <2>2. /\ r \o c \in Seq(Call) /\ Ordered(r \o c)
        /\ \A k : In(k, r \o c) <=> In(k, r) \/ In(k, c)
    <3>1. \A k, l : In(k, r) /\ In(l, c) => MayFollow(k, l)
      BY <1>3, <1>5, CallNames DEF MayFollow
    <3> QED
      BY <1>3, <1>5, <3>1, OrderedConcat, InConcat, ConcatAt
  <2>3. /\ (r \o c) \o d \in Seq(Call) /\ Ordered((r \o c) \o d)
        /\ \A k : In(k, (r \o c) \o d) <=> In(k, r) \/ In(k, c) \/ In(k, d)
    <3>1. \A k, l : In(k, r \o c) /\ In(l, d) => MayFollow(k, l)
      BY <1>3, <1>4, <1>5, <2>2, CallNames DEF MayFollow
    <3> QED
      BY <1>4, <2>2, <3>1, OrderedConcat, InConcat, ConcatAt
  <2>4. \A p : In(p, wait_objects[t]) => Preceded(Clear(t), Remove(p, t), (r \o c) \o d)
    <3>1. ~ In(Clear(t), r)
      BY <1>5, CallNames
    <3> TAKE p
    <3> HAVE In(p, wait_objects[t])
    <3>2. Preceded(Clear(t), Remove(p, t), r \o c)
      BY <1>3, <1>5, <3>1, PrecededConcat
    <3>3. In(Remove(p, t), r \o c)
      BY <1>5, <2>2
    <3> QED
      BY <1>4, <2>2, <3>2, <3>3, PrecededConcat
  <2>5. \A p : Followed(Remove(p, t), Clear(t), (r \o c) \o d)
    <3> TAKE p
    <3>1. Followed(Remove(p, t), Clear(t), r \o c)
      BY <1>3, <1>5, <1>6, FollowedConcat
    <3>2. Followed(Remove(p, t), Clear(t), d)
      BY <1>4, <1>6, FollowedConcat
    <3> QED
      BY <1>4, <2>2, <3>1, <3>2, FollowedConcat
  <2>6. Preceded(Resume(t), Clear(t), (r \o c) \o d)
    <3>1. ~ In(Resume(t), r \o c) /\ In(Clear(t), r \o c)
      BY <1>2, <1>3, <1>5, <2>2, CallNames
    <3> QED
      BY <1>4, <2>2, <3>1, PrecededConcat
  <2>7. Followed(Clear(t), Resume(t), (r \o c) \o d)
    <3>1. ~ In(Clear(t), d) /\ In(Resume(t), d)
      BY <1>2, <1>4
    <3> QED
      BY <1>4, <2>2, <3>1, FollowedConcat
  <2> QED
    BY <1>3, <1>4, <1>5, <1>7, <2>1, <2>3, <2>4, <2>5, <2>6, <2>7
<1>8. CASE status[t] \notin WaitSynch
  <2>1. TimeoutCalls(t) = d
    BY <1>4, <1>8 DEF TimeoutCalls, Resume
  <2>2. ~ In(Clear(t), d)
    BY <1>2, <1>4
  <2> HIDE DEF d
  <2> QED
    BY <1>4, <1>6, <1>8, <2>1, <2>2, PrecededConcat, FollowedConcat
<1> QED
  BY <1>7, <1>8

-----------------------------------------------------------------------------
(***************************************************************************)
(* The stack of a handler has its order in every reachable state.           *)
(***************************************************************************)
\* What a step does to the stack: it makes the first call, and only the loops and
\* Stop put calls of their own on it.
LEMMA StackStep ==
  ASSUME TypeOK, CallStep
  PROVE  /\ calls # << >> /\ calls \in Seq(Call)
         /\ Head(calls) \in Call /\ Tail(calls) \in Seq(Call)
         /\ \/ calls' = Tail(calls)
            \/ /\ WakeupThread /\ Head(calls).op = "WakeupAllWaitingThreads"
               /\ Head(calls).obj \in Object
               /\ \E i \in 1 .. Len(waiting_threads[Head(calls).obj]) :
                    /\ CanWake(Head(calls).obj, i)
                    /\ waiting_threads[Head(calls).obj][i] \in Thread
                    /\ calls' = WakeupCalls(Head(calls).obj,
                                            waiting_threads[Head(calls).obj][i]) \o calls
            \/ /\ Stop /\ Head(calls).op = "Stop" /\ Head(calls).thr \in Thread
               /\ calls' = StopCalls(Head(calls).thr) \o Tail(calls)
            \/ /\ Head(calls).op = "TerminateProcessThreads"
               /\ \E t \in Thread : \/ calls' = <<ThreadCall("Stop", t)>> \o calls
                                    \/ calls' = <<ThreadCall("Stop", t)>> \o Tail(calls)
            \/ /\ Head(calls).op = "ReleaseThreadMutexes"
               /\ \E m \in Mutex : calls' = <<Wakeup(m)>> \o calls
            \/ /\ Head(calls).op = "UpdateMutexes"
               /\ \E ms \in SUBSET Mutex :
                    calls' = <<[op |-> "UpdateMutexes", mutexes |-> ms]>> \o Tail(calls)
PROOF
<1>1. calls # << >> /\ calls \in Seq(Call)
  BY CallBody DEF TypeOK
<1>2. Head(calls) \in Call /\ Tail(calls) \in Seq(Call)
  BY <1>1, NextCall
<1>3. CASE Acquire \/ AddWaitingThread \/ RemoveWaitingThread \/ WakeupDone
             \/ ClearWaitObjects \/ ResumeFromWait \/ RescheduleTimer
  <2>1. calls' = << >> \o Tail(calls)
    BY <1>3 DEF Acquire, AddWaitingThread, RemoveWaitingThread, WakeupDone,
                ClearWaitObjects, ResumeFromWait, RescheduleTimer, Make
  <2> QED
    BY <1>1, <1>2, <2>1
<1>4. CASE WakeupThread
  <2> DEFINE o == Head(calls).obj
  <2>1. Head(calls).op = "WakeupAllWaitingThreads"
    BY <1>4 DEF WakeupThread
  <2>2. o \in Object
    BY <1>2, <2>1, CallFields
  <2>3. waiting_threads[o] \in Seq(Thread)
    BY <2>2 DEF TypeOK
  <2>4. \A i \in 1 .. Len(waiting_threads[o]) : waiting_threads[o][i] \in Thread
    <3> HIDE DEF o
    <3> QED
      BY <2>3
  <2> QED
    BY <1>1, <1>2, <1>4, <2>1, <2>2, <2>4 DEF WakeupThread, IsHighestPriorityReady
<1>5. CASE Stop
  <2>1. Head(calls).op = "Stop" /\ calls' = StopCalls(Head(calls).thr) \o Tail(calls)
    BY <1>5 DEF Stop, Make
  <2> QED
    BY <1>1, <1>2, <1>5, <2>1, CallFields
<1>6. CASE TerminateProcessThreads
  <2> DEFINE c == Head(calls).core
  <2>1. Head(calls).op = "TerminateProcessThreads"
    BY <1>6 DEF TerminateProcessThreads
  <2>2. current_thread[c] \in Thread \cup {None}
    BY <1>2, <2>1, CallFields DEF TypeOK
  <2> QED
    BY <1>1, <1>2, <1>6, <2>1, <2>2 DEF TerminateProcessThreads
<1>7. CASE ReleaseThreadMutexes
  <2>1. Head(calls).op = "ReleaseThreadMutexes"
    BY <1>7 DEF ReleaseThreadMutexes
  <2>2. held_mutexes[Head(calls).thr] \subseteq Mutex
    BY <1>2, <2>1, CallFields DEF TypeOK
  <2> QED
    BY <1>1, <1>2, <1>7, <2>1, <2>2 DEF ReleaseThreadMutexes, Wakeup
<1>8. CASE UpdateMutexes
  <2>1. Head(calls).op = "UpdateMutexes"
    BY <1>8 DEF UpdateMutexes
  <2>2. Head(calls).mutexes \in SUBSET Mutex
    BY <1>2, <2>1, CallFields
  <2>3. \A m : Head(calls).mutexes \ {m} \in SUBSET Mutex
    BY <2>2
  <2> QED
    BY <1>1, <1>2, <1>8, <2>1, <2>3 DEF UpdateMutexes
<1> QED
  BY <1>3, <1>4, <1>5, <1>6, <1>7, <1>8 DEF CallStep

\* A step of a running handler keeps the order of its calls.
LEMMA CallStepShape ==
  ASSUME TypeOK, ShapeInv, CallStep
  PROVE  ShapeInv'
PROOF
<1> DEFINE h == Head(calls)
           r == Tail(calls)
<1>1. calls # << >> /\ calls \in Seq(Call) /\ h \in Call /\ r \in Seq(Call)
  BY StackStep
<1>2. Ordered(calls) /\ Ordered(r) /\ \A l : In(l, r) => MayFollow(h, l)
  BY <1>1, OrderedTail DEF ShapeInv
<1>3. \A l : In(l, calls) <=> In(l, r) \/ l = h
  BY <1>1, TailMembers
<1>4. ASSUME NEW k \in Call, \A l : In(l, r) => MayFollow(k, l)
      PROVE  Ordered(<<k>> \o r)
  BY <1>1, <1>2, <1>4, OrderedOne, OrderedConcat
<1>5. ASSUME NEW k \in Call, \A l : In(l, r) => MayFollow(k, l), MayFollow(k, h)
      PROVE  Ordered(<<k>> \o calls)
  <2>1. <<k>> \in Seq(Call) /\ Ordered(<<k>>) /\ \A x : In(x, <<k>>) <=> x = k
    BY OrderedOne
  <2>2. \A x, l : In(x, <<k>>) /\ In(l, calls) => MayFollow(x, l)
    BY <1>3, <1>5, <2>1
  <2> QED
    BY <1>1, <1>2, <2>1, <2>2, OrderedConcat
<1>6. CASE calls' = r
  BY <1>2, <1>6 DEF ShapeInv
<1>7. ASSUME h.op = "WakeupAllWaitingThreads", h.obj \in Object, NEW t \in Thread,
             calls' = WakeupCalls(h.obj, t) \o calls
      PROVE  ShapeInv'
  <2> DEFINE b == WakeupCalls(h.obj, t)
  <2>1. /\ b \in Seq(Call) /\ Ordered(b)
        /\ \A k : In(k, b) => k.op \in {"Acquire", "RemoveWaitingThread",
                                        "ClearWaitObjects", "ResumeFromWait"}
    BY <1>7, WakeupBody, CallNames
  <2>2. \A l : In(l, calls) => l.op \notin {"AddWaitingThread", "Acquire"}
    BY <1>2, <1>3, <1>7 DEF MayFollow
  <2>3. \A k, l : In(k, b) /\ In(l, calls) => MayFollow(k, l)
    BY <2>1, <2>2 DEF MayFollow
  <2> HIDE DEF b
  <2>4. Ordered(b \o calls)
    BY <1>1, <1>2, <2>1, <2>3, OrderedConcat
  <2> QED
    BY <1>7, <2>4 DEF ShapeInv, b
<1>8. ASSUME h.op = "Stop", h.thr \in Thread, calls' = StopCalls(h.thr) \o r
      PROVE  ShapeInv'
  <2> DEFINE t == h.thr
             b == StopCalls(t)
  <2>1. /\ b \in Seq(Call) /\ Ordered(b)
        /\ \A k : In(k, b) => \/ k.op \in {"RemoveWaitingThread", "ClearWaitObjects",
                                           "ReleaseThreadMutexes"}
                              \/ k.op = "WakeupAllWaitingThreads" /\ k.obj = t
    BY <1>8, StopBody, CallNames
  <2>2. \A l : In(l, r) => l.op = "TerminateProcessThreads"
    BY <1>2, <1>8 DEF MayFollow
  <2>3. \A k, l : In(k, b) /\ In(l, r) => MayFollow(k, l)
    BY <1>8, <2>1, <2>2, ObjectAssumption DEF MayFollow
  <2> HIDE DEF b
  <2>4. Ordered(b \o r)
    BY <1>1, <1>2, <2>1, <2>3, OrderedConcat
  <2> QED
    BY <1>8, <2>4 DEF ShapeInv, b
<1>9. ASSUME h.op = "TerminateProcessThreads", NEW t \in Thread,
             \/ calls' = <<ThreadCall("Stop", t)>> \o calls
             \/ calls' = <<ThreadCall("Stop", t)>> \o r
      PROVE  ShapeInv'
  <2>1. \A l : In(l, r) => l.op = "TerminateProcessThreads"
    BY <1>2, <1>9 DEF MayFollow
  <2>2. ThreadCall("Stop", t).op = "Stop" /\ ThreadCall("Stop", t) \in Call
    BY CallNames, NamesAreCalls
  <2>3. \A l : l.op = "TerminateProcessThreads" => MayFollow(ThreadCall("Stop", t), l)
    BY <2>2 DEF MayFollow
  <2> QED
    BY <1>4, <1>5, <1>9, <2>1, <2>2, <2>3 DEF ShapeInv
<1>10. ASSUME h.op = "ReleaseThreadMutexes", NEW m \in Mutex,
              calls' = <<Wakeup(m)>> \o calls
       PROVE  ShapeInv'
  <2>1. \A l : In(l, r) => l.op = "TerminateProcessThreads"
    BY <1>2, <1>10 DEF MayFollow
  <2>2. /\ Wakeup(m).op = "WakeupAllWaitingThreads" /\ Wakeup(m).obj = m
        /\ Wakeup(m) \in Call
    BY CallNames, NamesAreCalls DEF Object
  <2>3. \A l : l.op \in {"TerminateProcessThreads", "ReleaseThreadMutexes"} =>
          MayFollow(Wakeup(m), l)
    BY <2>2, ObjectAssumption DEF MayFollow
  <2> QED
    BY <1>5, <1>10, <2>1, <2>2, <2>3 DEF ShapeInv
<1>11. ASSUME h.op = "UpdateMutexes", NEW ms \in SUBSET Mutex,
              calls' = <<[op |-> "UpdateMutexes", mutexes |-> ms]>> \o r
       PROVE  ShapeInv'
  <2>1. \A l : ~ In(l, r)
    BY <1>2, <1>11 DEF MayFollow
  <2>2. [op |-> "UpdateMutexes", mutexes |-> ms] \in Call
    BY CallMakers
  <2> QED
    BY <1>4, <1>11, <2>1, <2>2 DEF ShapeInv
<1> QED
  BY <1>6, <1>7, <1>8, <1>9, <1>10, <1>11, StackStep

\* The calls a handler starts with are in order.
LEMMA StartShape ==
  ASSUME TypeOK, Next, calls = << >>
  PROVE  ShapeInv'
PROOF
<1>1. Ordered(<< >>)
  BY DEF Ordered
<1>2. ASSUME NEW k \in Call, calls' = <<k>> PROVE ShapeInv'
  BY <1>2, OrderedOne DEF ShapeInv
<1>3. CASE calls' = << >>
  BY <1>1, <1>3 DEF ShapeInv
<1>4. ASSUME NEW op \in {"Acquire", "AddWaitingThread"}, NEW objs \in Seq(Object),
             NEW t \in Thread, calls' = ForEach(op, objs, t)
      PROVE  ShapeInv'
  BY <1>4, OrderedForEach DEF ShapeInv
<1>5. ASSUME NEW s \in Timer, calls' = <<Wakeup(s), Rearm(s)>> PROVE ShapeInv'
  <2>1. Wakeup(s) \in Call /\ Rearm(s) \in Call
    BY NamesAreCalls DEF Object, Signal
  <2>2. MayFollow(Wakeup(s), Rearm(s))
    BY CallNames, ObjectAssumption DEF MayFollow, Signal
  <2> QED
    BY <1>5, <2>1, <2>2, OrderedTwo DEF ShapeInv
<1>6. ASSUME NEW c \in Core, NEW t \in Thread, SvcStep(c, t) PROVE ShapeInv'
  <2>1. ASSUME NEW objs \in Seq(Object), NEW st, NEW timed,
               StartWait(t, objs, st, timed) \/ AcquireNow(t, objs)
        PROVE  ShapeInv'
    BY <1>4, <2>1 DEF StartWait, AcquireNow
  <2>2. CASE \E u \in Thread : \E p \in CreatePrios[u] : CreateThread(c, t, u, p)
    BY <1>3, <2>2 DEF CreateThread, CreateThreadWith
  <2>3. ASSUME NEW o \in WaitTargets[t], NEW timed \in BOOLEAN,
               WaitSynchronization1(c, t, o, timed)
        PROVE  ShapeInv'
    <3>1. <<o>> \in Seq(Object)
      BY InputAssumption
    <3> QED
      BY <2>1, <2>3, <3>1 DEF WaitSynchronization1
  <2>4. ASSUME NEW objs \in WaitLists, NEW timed \in BOOLEAN,
               WaitSynchronizationAll(c, t, objs, timed)
                 \/ WaitSynchronizationAny(c, t, objs, timed)
        PROVE  ShapeInv'
    <3>1. objs \in Seq(Object)
      BY InputAssumption
    <3>2. \A i \in 1 .. Len(objs) : <<objs[i]>> \in Seq(Object)
      BY <3>1
    <3> QED
      BY <2>1, <2>4, <3>1, <3>2 DEF WaitSynchronizationAll, WaitSynchronizationAny
  <2>5. ASSUME NEW e \in Event, NEW timed \in BOOLEAN, SleepClientThread(c, t, e, timed)
        PROVE  ShapeInv'
    <3>1. <<e>> \in Seq(Object)
      BY DEF Object, Signal
    <3> QED
      BY <2>1, <2>5, <3>1 DEF SleepClientThread
  <2>6. CASE \/ \E forever \in BOOLEAN : SleepThread(c, t, forever)
             \/ \E s \in Signal : ClearSignal(c, t, s)
             \/ \E s \in Timer : CancelTimer(c, t, s)
             \/ \E p \in Process, allow \in BOOLEAN : ControlProcess(c, t, p, allow)
    BY <1>3, <2>6 DEF SleepThread, ClearSignal, SetSignaled, CancelTimer, ControlProcess
  <2>7. ASSUME NEW m \in Mutex, ReleaseMutex(c, t, m) PROVE ShapeInv'
    <3>1. Wakeup(m) \in Call
      BY NamesAreCalls DEF Object
    <3> QED
      BY <1>2, <1>3, <2>7, <3>1 DEF ReleaseMutex, LastRelease, Wakeup
  <2>8. ASSUME NEW s \in Semaphore, NEW n \in ReleaseCounts, ReleaseSemaphore(c, t, s, n)
        PROVE  ShapeInv'
    <3>1. Wakeup(s) \in Call
      BY NamesAreCalls DEF Object
    <3> QED
      BY <1>2, <2>8, <3>1 DEF ReleaseSemaphore, Wakeup
  <2>9. ASSUME NEW s \in Timer, NEW initial \in {0, 1}, NEW interval \in {0, 1},
               SetTimer(c, t, s, initial, interval)
        PROVE  ShapeInv'
    BY <1>3, <1>5, <2>9 DEF SetTimer, TimerSignal, SetSignaled, Wakeup, Rearm
  <2>10. ASSUME NEW u \in Thread, NEW p \in SetPrios, SetThreadPriority(c, t, u, p)
         PROVE  ShapeInv'
    <3>1. [op |-> "UpdateMutexes", mutexes |-> pending_mutexes[u]] \in Call
      BY CallMakers DEF TypeOK
    <3> QED
      BY <1>2, <2>10, <3>1 DEF SetThreadPriority
  <2>11. CASE ExitThread(c, t)
    BY <1>2, <2>11, NamesAreCalls DEF ExitThread
  <2>12. ASSUME NEW p \in Process, TerminateProcess(c, t, p) PROVE ShapeInv'
    <3>1. calls' = [i \in 1 .. NumCores |->
                      [op |-> "TerminateProcessThreads", core |-> i - 1, process |-> p]]
      BY <2>12 DEF TerminateProcess
    <3>2. Len(calls') = NumCores
      BY <3>1, ParameterAssumption
    <3>3. \A i \in 1 .. NumCores : calls'[i].op = "TerminateProcessThreads"
      BY <3>1
    <3> QED
      BY <3>2, <3>3 DEF ShapeInv, Ordered, MayFollow
  <2> QED
    BY <1>6, <2>2, <2>3, <2>4, <2>5, <2>6, <2>7, <2>8, <2>9, <2>10, <2>11, <2>12
    DEF SvcStep
<1>7. ASSUME NEW t \in Thread, ThreadWakeupCallback(t) PROVE ShapeInv'
  BY <1>7, TimeoutBody DEF ThreadWakeupCallback, ShapeInv
<1>8. ASSUME NEW s \in Timer, TimerCallback(s) PROVE ShapeInv'
  BY <1>5, <1>8 DEF TimerCallback, TimerSignal, SetSignaled, Wakeup, Rearm
<1>9. ASSUME NEW e \in Event, SignalEvent(e) PROVE ShapeInv'
  <2>1. Wakeup(e) \in Call
    BY NamesAreCalls DEF Object, Signal
  <2> QED
    BY <1>2, <1>9, <2>1 DEF SignalEvent, SetSignaled, Wakeup
<1>10. CASE \/ \E t \in Thread : \E p \in CreatePrios[t], delayed \in BOOLEAN :
                 SetupMainThread(t, p, delayed)
            \/ \E c \in Core : Reschedule(c)
  BY <1>3, <1>10 DEF SetupMainThread, CreateThreadWith, Reschedule
<1>11. ~ CallStep
  BY CallBody
<1> QED
  BY <1>6, <1>7, <1>8, <1>9, <1>10, <1>11 DEF Next

\* Every step that is not a call of the running handler starts one.
LEMMA StartQuiet ==
  ASSUME Next, ~ CallStep
  PROVE  calls = << >>
PROOF
<1>1. ASSUME NEW c, NEW t, SvcStep(c, t) PROVE Caller(c, t)
  BY <1>1
  DEF SvcStep, CreateThread, WaitSynchronization1, WaitSynchronizationAll,
      WaitSynchronizationAny, SleepClientThread, SleepThread, ReleaseMutex,
      ReleaseSemaphore, ClearSignal, SetTimer, CancelTimer, SetThreadPriority,
      ControlProcess, ExitThread, TerminateProcess
<1>2. ASSUME NEW c, NEW t, Caller(c, t) PROVE calls = << >>
  BY <1>2 DEF Caller
<1> QED
  BY <1>1, <1>2
  DEF Next, SetupMainThread, SignalEvent, ThreadWakeupCallback, TimerCallback, Reschedule

\* Every step keeps the order of the pending calls.
LEMMA ShapeNext ==
  ASSUME TypeOK, ShapeInv, [Next]_vars
  PROVE  ShapeInv'
PROOF
<1>1. CASE UNCHANGED vars
  BY <1>1 DEF vars, ShapeInv
<1>2. CASE CallStep
  BY <1>2, CallStepShape
<1>3. CASE Next /\ ~ CallStep
  <2>1. calls = << >>
    BY <1>3, StartQuiet
  <2> QED
    BY <1>3, <2>1, StartShape
<1> QED
  BY <1>1, <1>2, <1>3

-----------------------------------------------------------------------------
(***************************************************************************)
(* Every call of a handler keeps the waiting invariant.                     *)
(***************************************************************************)
WaitOps == {"AddWaitingThread", "RemoveWaitingThread", "ClearWaitObjects", "ResumeFromWait"}

\* Making the first call leaves the order of the others.
LEMMA PoppedOrder ==
  ASSUME TypeOK, calls # << >>, calls' = Tail(calls)
  PROVE  /\ \A k : In(k, calls) <=> In(k, calls') \/ k = Head(calls)
         /\ \A k, j : Preceded(k, j, calls) => Head(calls) # k
         /\ \A k, j : Preceded(k, j, calls) /\ Head(calls) # j => Preceded(k, j, calls')
         /\ \A k, j : Followed(j, k, calls) => Followed(j, k, calls')
         /\ \A k, j : Followed(j, k, calls) /\ Head(calls) = j => In(k, calls')
PROOF
<1>1. calls \in Seq(Call)
  BY DEF TypeOK
<1>2. \A k : In(k, calls) <=> In(k, Tail(calls)) \/ k = Head(calls)
  BY <1>1, TailMembers
<1> QED
  BY <1>1, <1>2, OrderOfTail

\* A step that changes no wait, and neither makes nor adds a call that does, keeps
\* the invariant.
LEMMA OtherCallInv ==
  ASSUME TypeOK, WaitInv, calls # << >>, Head(calls).op \notin WaitOps,
         UNCHANGED <<status, wait_objects, waiting_threads, pending_mutexes>>,
         NEW body \in Seq(Call), \A k : In(k, body) => k.op \notin WaitOps,
         calls' = body \o Tail(calls) \/ calls' = body \o calls
  PROVE  WaitInv'
PROOF
<1> DEFINE r == Tail(calls)
<1>1. calls \in Seq(Call) /\ r \in Seq(Call)
  BY NextCall DEF TypeOK
<1>2. \A k : In(k, calls) <=> In(k, r) \/ k = Head(calls)
  BY <1>1, TailMembers
<1>3. ASSUME NEW k, k.op \in WaitOps
      PROVE  /\ In(k, calls') <=> In(k, calls)
             /\ \A j : j.op \in WaitOps /\ Preceded(k, j, calls) => Preceded(k, j, calls')
             /\ \A j : Followed(k, j, calls) => Followed(k, j, calls')
  <2>1. ~ In(k, body) /\ k # Head(calls)
    BY <1>3
  <2>2. In(k, calls') <=> In(k, calls)
    <3>1. /\ In(k, body \o r) <=> In(k, body) \/ In(k, r)
          /\ In(k, body \o calls) <=> In(k, body) \/ In(k, calls)
      BY <1>1, InConcat
    <3> QED
      BY <1>2, <2>1, <3>1
  <2>3. ASSUME NEW j, j.op \in WaitOps, Preceded(k, j, calls)
        PROVE  Preceded(k, j, calls')
    <3>1. Preceded(k, j, r) /\ Preceded(k, j, body)
      BY <1>1, <2>1, <2>3, OrderOfTail, PrecededConcat
    <3> QED
      BY <1>1, <2>3, <3>1, PrecededConcat
  <2>4. ASSUME NEW j, Followed(k, j, calls)
        PROVE  Followed(k, j, calls')
    <3>1. Followed(k, j, r) /\ Followed(k, j, body)
      BY <1>1, <2>1, <2>4, OrderOfTail, FollowedConcat
    <3> QED
      BY <1>1, <2>4, <3>1, FollowedConcat
  <2> QED
    BY <2>2, <2>3, <2>4
<1>4. /\ \A o, t : Add(o, t).op \in WaitOps /\ Remove(o, t).op \in WaitOps
      /\ \A t : Clear(t).op \in WaitOps /\ Resume(t).op \in WaitOps
  BY CallNames DEF WaitOps
<1>5. ListsWithoutDuplicates' /\ PendingAreWaited'
  BY DEF WaitInv, ListsWithoutDuplicates, PendingAreWaited
<1>6. WaitersWait' /\ ClearedIsResumed'
  BY <1>3, <1>4 DEF WaitInv, WaitersWait, ClearedIsResumed
<1>7. ListedIsWaited' /\ RemovedIsCleared'
  BY <1>3, <1>4 DEF WaitInv, ListedIsWaited, RemovedIsCleared
<1>8. WaitedIsListed' /\ AddedIsWaited'
  BY <1>3, <1>4 DEF WaitInv, WaitedIsListed, AddedIsWaited
<1> QED
  BY <1>5, <1>6, <1>7, <1>8 DEF WaitInv

\* What AddWaitingThread and RemoveWaitingThread do to the lists.
LEMMA ListChange ==
  ASSUME TypeOK, AddWaitingThread \/ RemoveWaitingThread
  PROVE  \E o \in Object, t \in Thread :
           /\ calls # << >> /\ calls' = Tail(calls)
           /\ Head(calls) = IF AddWaitingThread THEN Add(o, t) ELSE Remove(o, t)
           /\ AddWaitingThread =>
                /\ waiting_threads' = [waiting_threads EXCEPT ![o] =
                     IF In(t, waiting_threads[o]) THEN waiting_threads[o]
                     ELSE Append(waiting_threads[o], t)]
                /\ o \in Mutex => pending_mutexes' =
                     [pending_mutexes EXCEPT ![t] = pending_mutexes[t] \cup {o}]
           /\ ~ AddWaitingThread =>
                /\ waiting_threads' = [waiting_threads EXCEPT ![o] =
                     Erase(t, waiting_threads[o])]
                /\ o \in Mutex => pending_mutexes' =
                     [pending_mutexes EXCEPT ![t] = pending_mutexes[t] \ {o}]
           /\ o \notin Mutex => UNCHANGED pending_mutexes
           /\ UNCHANGED <<status, wait_objects>>
PROOF
<1> DEFINE o == Head(calls).obj
           t == Head(calls).thr
<1>1. /\ calls # << >> /\ calls' = << >> \o Tail(calls)
      /\ Head(calls).op = IF AddWaitingThread THEN "AddWaitingThread"
                          ELSE "RemoveWaitingThread"
  BY DEF AddWaitingThread, RemoveWaitingThread, Make
<1>2. Head(calls) \in Call /\ Tail(calls) \in Seq(Call)
  BY <1>1, NextCall
<1>3. calls' = Tail(calls)
  BY <1>1, <1>2
<1>4. /\ o \in Object /\ t \in Thread
      /\ Head(calls) = IF AddWaitingThread THEN Add(o, t) ELSE Remove(o, t)
  BY <1>1, <1>2, CallFields, CallOfOp
<1>5. ASSUME AddWaitingThread
      PROVE  ChangeWaiters(o, t, IF In(t, waiting_threads[o]) THEN waiting_threads[o]
                                 ELSE Append(waiting_threads[o], t),
                           pending_mutexes[t] \cup {o})
  BY <1>5 DEF AddWaitingThread
<1>6. ASSUME ~ AddWaitingThread
      PROVE  ChangeWaiters(o, t, Erase(t, waiting_threads[o]), pending_mutexes[t] \ {o})
  BY <1>6 DEF RemoveWaitingThread
<1>7. CASE AddWaitingThread
  BY <1>1, <1>3, <1>4, <1>5, <1>7 DEF ChangeWaiters
<1>8. CASE ~ AddWaitingThread
  BY <1>1, <1>3, <1>4, <1>6, <1>8 DEF ChangeWaiters
<1> QED
  BY <1>7, <1>8

\* A thread that was put to sleep enters one more waiting list.
LEMMA AddWaitingThreadInv ==
  ASSUME TypeOK, ShapeInv, WaitInv, AddWaitingThread
  PROVE  WaitInv'
PROOF
<1>1. PICK o \in Object, t \in Thread :
           /\ calls # << >> /\ calls' = Tail(calls) /\ Head(calls) = Add(o, t)
           /\ waiting_threads' = [waiting_threads EXCEPT ![o] =
                IF In(t, waiting_threads[o]) THEN waiting_threads[o]
                ELSE Append(waiting_threads[o], t)]
           /\ o \in Mutex => pending_mutexes' =
                [pending_mutexes EXCEPT ![t] = pending_mutexes[t] \cup {o}]
           /\ o \notin Mutex => UNCHANGED pending_mutexes
           /\ UNCHANGED <<status, wait_objects>>
  BY ListChange
<1>2. /\ \A k : In(k, calls) <=> In(k, calls') \/ k = Head(calls)
      /\ \A k, j : Preceded(k, j, calls) /\ Head(calls) # j => Preceded(k, j, calls')
      /\ \A k, j : Followed(j, k, calls) => Followed(j, k, calls')
  BY <1>1, PoppedOrder
<1>3. waiting_threads[o] \in Seq(Thread)
  BY DEF TypeOK
<1>4. /\ NoDuplicates(waiting_threads'[o])
      /\ \A u : In(u, waiting_threads'[o]) <=> In(u, waiting_threads[o]) \/ u = t
  <2>1. waiting_threads'[o] = IF In(t, waiting_threads[o]) THEN waiting_threads[o]
                              ELSE Append(waiting_threads[o], t)
    BY <1>1 DEF TypeOK
  <2>2. NoDuplicates(waiting_threads[o])
    BY DEF WaitInv, ListsWithoutDuplicates
  <2> QED
    BY <1>3, <2>1, <2>2, AppendMembers
<1>5. \A p \in Object : p # o => waiting_threads'[p] = waiting_threads[p]
  BY <1>1 DEF TypeOK
<1>6. \A u \in Thread, p \in Object : In(u, waiting_threads'[p]) <=>
                      In(u, waiting_threads[p]) \/ (p = o /\ u = t)
  BY <1>4, <1>5
<1>7. \A l : In(l, calls) => l.op = "AddWaitingThread"
  <2>1. \A l : In(l, Tail(calls)) => MayFollow(Head(calls), l)
    BY <1>1, OrderedTail DEF ShapeInv, TypeOK
  <2> QED
    BY <1>1, <1>2, <2>1, CallNames DEF MayFollow
<1>8. /\ \A u : ~ In(Clear(u), calls) /\ Clear(u) # Head(calls)
      /\ \A u, p : Remove(p, u) # Head(calls)
  BY <1>1, <1>7, CallNames
<1>9. In(o, wait_objects[t]) /\ Preceded(Clear(t), Remove(o, t), calls')
  <2>1. In(Add(o, t), calls)
    BY <1>1, <1>2
  <2>2. In(o, wait_objects[t])
    BY <2>1 DEF WaitInv, AddedIsWaited
  <2>3. calls' \in Seq(Call) /\ ~ In(Clear(t), calls')
    BY <1>1, <1>2, <1>8, NextCall
  <2> QED
    BY <2>2, <2>3, PrecededConcat
<1>10. ListsWithoutDuplicates'
  BY <1>4, <1>5 DEF WaitInv, ListsWithoutDuplicates
<1>11. PendingAreWaited'
  <2> SUFFICES ASSUME NEW u \in Thread
               PROVE  pending_mutexes'[u] = {m \in Mutex : In(u, waiting_threads'[m])}
    BY DEF PendingAreWaited
  <2>1. pending_mutexes[u] = {m \in Mutex : In(u, waiting_threads[m])}
    BY DEF WaitInv, PendingAreWaited
  <2>2. Mutex \subseteq Object
    BY DEF Object
  <2>3. pending_mutexes'[u] = IF o \in Mutex /\ u = t THEN pending_mutexes[u] \cup {o}
                              ELSE pending_mutexes[u]
    BY <1>1 DEF TypeOK
  <2> QED
    BY <1>6, <2>1, <2>2, <2>3
<1>12. WaitersWait' /\ ClearedIsResumed'
  BY <1>1, <1>2, <1>8 DEF WaitInv, WaitersWait, ClearedIsResumed
<1>13. ListedIsWaited'
  BY <1>1, <1>2, <1>6, <1>8, <1>9 DEF WaitInv, ListedIsWaited
<1>14. WaitedIsListed'
  <2> SUFFICES ASSUME NEW u \in Thread, NEW p \in Object, In(p, wait_objects[u])
               PROVE  In(u, waiting_threads'[p]) \/ In(Add(p, u), calls')
    BY <1>1 DEF WaitedIsListed
  <2>1. In(u, waiting_threads[p]) \/ In(Add(p, u), calls)
    BY <1>8 DEF WaitInv, WaitedIsListed
  <2>2. Add(p, u) = Head(calls) => p = o /\ u = t
    BY <1>1, CallNames
  <2> QED
    BY <1>2, <1>6, <2>1, <2>2
<1>15. AddedIsWaited' /\ RemovedIsCleared'
  BY <1>1, <1>2 DEF WaitInv, AddedIsWaited, RemovedIsCleared
<1> QED
  BY <1>10, <1>11, <1>12, <1>13, <1>14, <1>15 DEF WaitInv

\* A thread that is woken or stopped leaves one more waiting list.
LEMMA RemoveWaitingThreadInv ==
  ASSUME TypeOK, WaitInv, RemoveWaitingThread
  PROVE  WaitInv'
PROOF
<1>1. PICK o \in Object, t \in Thread :
           /\ calls # << >> /\ calls' = Tail(calls) /\ Head(calls) = Remove(o, t)
           /\ waiting_threads' = [waiting_threads EXCEPT ![o] = Erase(t, waiting_threads[o])]
           /\ o \in Mutex => pending_mutexes' =
                [pending_mutexes EXCEPT ![t] = pending_mutexes[t] \ {o}]
           /\ o \notin Mutex => UNCHANGED pending_mutexes
           /\ UNCHANGED <<status, wait_objects>>
  <2>1. ~ AddWaitingThread
    BY DEF AddWaitingThread, RemoveWaitingThread, Make
  <2> QED
    BY <2>1, ListChange
<1>2. /\ \A k : In(k, calls) <=> In(k, calls') \/ k = Head(calls)
      /\ \A k, j : Preceded(k, j, calls) /\ Head(calls) # j => Preceded(k, j, calls')
      /\ \A k, j : Followed(j, k, calls) => Followed(j, k, calls')
      /\ \A k, j : Followed(j, k, calls) /\ Head(calls) = j => In(k, calls')
  BY <1>1, PoppedOrder
<1>3. waiting_threads[o] \in Seq(Thread)
  BY DEF TypeOK
<1>4. /\ NoDuplicates(waiting_threads'[o])
      /\ \A u : In(u, waiting_threads'[o]) <=> In(u, waiting_threads[o]) /\ u # t
  <2>1. waiting_threads'[o] = Erase(t, waiting_threads[o])
    BY <1>1 DEF TypeOK
  <2>2. NoDuplicates(waiting_threads[o])
    BY DEF WaitInv, ListsWithoutDuplicates
  <2> QED
    BY <1>3, <2>1, <2>2, EraseMembers
<1>5. \A p \in Object : p # o => waiting_threads'[p] = waiting_threads[p]
  BY <1>1 DEF TypeOK
<1>6. \A u \in Thread, p \in Object : In(u, waiting_threads'[p]) <=>
                      In(u, waiting_threads[p]) /\ ~ (p = o /\ u = t)
  BY <1>4, <1>5
<1>7. /\ \A u : Clear(u) # Head(calls)
      /\ \A u, p : Add(p, u) # Head(calls)
      /\ \A u, p : Remove(p, u) = Head(calls) => p = o /\ u = t
  BY <1>1, CallNames
<1>8. In(Clear(t), calls')
  BY <1>1, <1>2 DEF WaitInv, RemovedIsCleared
<1>9. ListsWithoutDuplicates'
  BY <1>4, <1>5 DEF WaitInv, ListsWithoutDuplicates
<1>10. PendingAreWaited'
  <2> SUFFICES ASSUME NEW u \in Thread
               PROVE  pending_mutexes'[u] = {m \in Mutex : In(u, waiting_threads'[m])}
    BY DEF PendingAreWaited
  <2>1. pending_mutexes[u] = {m \in Mutex : In(u, waiting_threads[m])}
    BY DEF WaitInv, PendingAreWaited
  <2>2. Mutex \subseteq Object
    BY DEF Object
  <2>3. pending_mutexes'[u] = IF o \in Mutex /\ u = t THEN pending_mutexes[u] \ {o}
                              ELSE pending_mutexes[u]
    BY <1>1 DEF TypeOK
  <2> QED
    BY <1>6, <2>1, <2>2, <2>3
<1>11. WaitersWait' /\ ClearedIsResumed'
  BY <1>1, <1>2, <1>7 DEF WaitInv, WaitersWait, ClearedIsResumed
<1>12. ListedIsWaited'
  BY <1>1, <1>2, <1>6, <1>7 DEF WaitInv, ListedIsWaited
<1>13. WaitedIsListed'
  BY <1>1, <1>2, <1>6, <1>7, <1>8 DEF WaitInv, WaitedIsListed
<1>14. AddedIsWaited' /\ RemovedIsCleared'
  BY <1>1, <1>2 DEF WaitInv, AddedIsWaited, RemovedIsCleared
<1> QED
  BY <1>9, <1>10, <1>11, <1>12, <1>13, <1>14 DEF WaitInv

\* A thread whose wait objects are cleared has left every waiting list.
LEMMA ClearWaitObjectsInv ==
  ASSUME TypeOK, ShapeInv, WaitInv, ClearWaitObjects
  PROVE  WaitInv'
PROOF
<1> DEFINE t == Head(calls).thr
<1>1. /\ calls # << >> /\ Head(calls).op = "ClearWaitObjects"
      /\ calls' = << >> \o Tail(calls)
      /\ wait_objects' = [wait_objects EXCEPT ![t] = << >>]
      /\ UNCHANGED <<status, waiting_threads, pending_mutexes>>
  BY DEF ClearWaitObjects, Make
<1>2. Head(calls) \in Call /\ Tail(calls) \in Seq(Call)
  BY <1>1, NextCall
<1>3. calls' = Tail(calls) /\ t \in Thread /\ Head(calls) = Clear(t)
  BY <1>1, <1>2, CallFields, CallOfOp
<1> HIDE DEF t
<1>4. /\ \A k : In(k, calls) <=> In(k, calls') \/ k = Head(calls)
      /\ \A k, j : Preceded(k, j, calls) => Head(calls) # k
      /\ \A k, j : Preceded(k, j, calls) /\ Head(calls) # j => Preceded(k, j, calls')
      /\ \A k, j : Followed(j, k, calls) => Followed(j, k, calls')
  BY <1>1, <1>3, PoppedOrder
<1>5. \A o \in Object : ~ In(t, waiting_threads[o])
  BY <1>3, <1>4 DEF WaitInv, ListedIsWaited
<1>6. /\ \A u : Clear(u) = Head(calls) => u = t
      /\ \A u, p : Add(p, u) # Head(calls) /\ Remove(p, u) # Head(calls)
  BY <1>3, CallNames
<1>7. \A u, p : ~ In(Add(p, u), calls')
  <2>1. \A l : In(l, Tail(calls)) => MayFollow(Head(calls), l)
    BY <1>1, OrderedTail DEF ShapeInv, TypeOK
  <2> QED
    BY <1>1, <1>3, <2>1, CallNames DEF MayFollow
<1>8. \A u \in Thread : wait_objects'[u] = IF u = t THEN << >> ELSE wait_objects[u]
  BY <1>1 DEF TypeOK
<1>9. ListsWithoutDuplicates' /\ PendingAreWaited'
  BY <1>1 DEF WaitInv, ListsWithoutDuplicates, PendingAreWaited
<1>10. WaitersWait'
  BY <1>1, <1>4, <1>6, <1>8 DEF WaitInv, WaitersWait
<1>11. ListedIsWaited'
  BY <1>1, <1>4, <1>5, <1>6, <1>8 DEF WaitInv, ListedIsWaited
<1>12. WaitedIsListed'
  <2>1. \A p : ~ In(p, << >>)
    BY DEF In
  <2> QED
    BY <1>1, <1>4, <1>6, <1>8, <2>1 DEF WaitInv, WaitedIsListed
<1>13. AddedIsWaited' /\ RemovedIsCleared' /\ ClearedIsResumed'
  BY <1>1, <1>4, <1>7 DEF WaitInv, AddedIsWaited, RemovedIsCleared, ClearedIsResumed
<1> QED
  BY <1>9, <1>10, <1>11, <1>12, <1>13 DEF WaitInv

\* A thread that is resumed has no wait objects left.
LEMMA ResumeFromWaitInv ==
  ASSUME TypeOK, WaitInv, ResumeFromWait
  PROVE  WaitInv'
PROOF
<1> DEFINE t == Head(calls).thr
<1>1. /\ calls # << >> /\ Head(calls).op = "ResumeFromWait"
      /\ calls' = << >> \o Tail(calls)
      /\ status' = status \/ status' = [status EXCEPT ![t] = "Ready"]
      /\ status[t] = "Dead" => status' = status
      /\ UNCHANGED <<wait_objects, waiting_threads, pending_mutexes>>
  BY DEF ResumeFromWait, Make, BecomeReady, waitVars, Waiting, WaitSynch
<1>2. Head(calls) \in Call /\ Tail(calls) \in Seq(Call)
  BY <1>1, NextCall
<1>3. calls' = Tail(calls) /\ t \in Thread /\ Head(calls) = Resume(t)
  BY <1>1, <1>2, CallFields, CallOfOp
<1> HIDE DEF t
<1>4. /\ \A k : In(k, calls) <=> In(k, calls') \/ k = Head(calls)
      /\ \A k, j : Preceded(k, j, calls) => Head(calls) # k
      /\ \A k, j : Preceded(k, j, calls) /\ Head(calls) # j => Preceded(k, j, calls')
      /\ \A k, j : Followed(j, k, calls) => Followed(j, k, calls')
  BY <1>1, <1>3, PoppedOrder
<1>5. wait_objects[t] = << >>
  BY <1>3, <1>4 DEF WaitInv, WaitersWait
<1>6. /\ \A u : Clear(u) # Head(calls)
      /\ \A u, p : Add(p, u) # Head(calls) /\ Remove(p, u) # Head(calls)
  BY <1>3, CallNames
<1>7. /\ \A u \in Thread : u # t => status'[u] = status[u]
      /\ \A u \in Thread : status'[u] # "Dead" => status[u] # "Dead"
  BY <1>1, <1>3 DEF TypeOK
<1>8. ListsWithoutDuplicates' /\ PendingAreWaited'
  BY <1>1 DEF WaitInv, ListsWithoutDuplicates, PendingAreWaited
<1>9. WaitersWait'
  BY <1>1, <1>4, <1>5, <1>6, <1>7 DEF WaitInv, WaitersWait
<1>10. ListedIsWaited' /\ WaitedIsListed'
  BY <1>1, <1>4, <1>6 DEF WaitInv, ListedIsWaited, WaitedIsListed
<1>11. AddedIsWaited' /\ RemovedIsCleared' /\ ClearedIsResumed'
  BY <1>1, <1>4, <1>7 DEF WaitInv, AddedIsWaited, RemovedIsCleared, ClearedIsResumed
<1> QED
  BY <1>8, <1>9, <1>10, <1>11 DEF WaitInv

\* Calls that take one thread off its lists, clear and perhaps resume it, put
\* before what is left of the stack.
LEMMA ThreadLeavesInv ==
  ASSUME TypeOK, WaitInv, UNCHANGED <<wait_objects, waiting_threads, pending_mutexes>>,
         NEW t \in Thread, NEW body \in Seq(Call), NEW rest \in Seq(Call),
         calls' = body \o rest,
         \A k : k.op \in WaitOps => (In(k, rest) <=> In(k, calls)),
         \A k, j : k.op \in WaitOps /\ j.op \in WaitOps =>
           /\ Preceded(k, j, calls) => Preceded(k, j, rest)
           /\ Followed(k, j, calls) => Followed(k, j, rest),
         \A k : In(k, body) /\ k.op \in WaitOps => k.op # "AddWaitingThread" /\ k.thr = t,
         \A p : In(p, wait_objects[t]) => Preceded(Clear(t), Remove(p, t), body),
         \A p : Followed(Remove(p, t), Clear(t), body),
         status'[t] # "Dead" => Followed(Clear(t), Resume(t), body),
         wait_objects[t] # << >> =>
           In(Clear(t), body) /\ Preceded(Resume(t), Clear(t), body),
         \A u \in Thread : status'[u] # "Dead" => status[u] # "Dead",
         \A u \in Thread : u # t => status'[u] = status[u]
  PROVE  WaitInv'
PROOF
<1>1. \A k : In(k, calls') <=> In(k, body) \/ In(k, rest)
  BY InConcat
<1>2. /\ \A o, u : /\ Add(o, u).op \in WaitOps /\ Remove(o, u).op \in WaitOps
                   /\ Add(o, u).op = "AddWaitingThread" /\ Remove(o, u).thr = u
      /\ \A u : /\ Clear(u).op \in WaitOps /\ Resume(u).op \in WaitOps
                /\ Clear(u).thr = u /\ Resume(u).thr = u
  BY CallNames DEF WaitOps
<1>3. /\ \A o, u : In(Add(o, u), calls') <=> In(Add(o, u), calls)
      /\ \A u : In(Clear(u), calls) => In(Clear(u), calls')
  BY <1>1, <1>2
<1>4. ASSUME NEW u \in Thread, u # t
      PROVE  /\ ~ In(Clear(u), body) /\ ~ In(Resume(u), body)
             /\ \A o : ~ In(Remove(o, u), body)
  BY <1>2, <1>4
<1>5. ASSUME NEW k, NEW j, k.op \in WaitOps, j.op \in WaitOps
      PROVE  /\ Preceded(k, j, body) /\ Preceded(k, j, calls) => Preceded(k, j, calls')
             /\ Followed(k, j, body) /\ Followed(k, j, calls) => Followed(k, j, calls')
  BY <1>5, PrecededConcat, FollowedConcat
<1>6. \A k, j : /\ ~ In(k, body) => Preceded(k, j, body)
                /\ ~ In(k, body) => Followed(k, j, body)
  BY PrecededConcat, FollowedConcat
<1>7. ListsWithoutDuplicates' /\ PendingAreWaited'
  BY DEF WaitInv, ListsWithoutDuplicates, PendingAreWaited
<1>8. WaitersWait'
  <2> SUFFICES ASSUME NEW u \in Thread, wait_objects[u] # << >>
               PROVE  /\ status'[u] \in WaitSynch \/ In(Clear(u), calls')
                      /\ Preceded(Resume(u), Clear(u), calls')
    BY DEF WaitersWait
  <2>1. /\ status[u] \in WaitSynch \/ In(Clear(u), calls)
        /\ Preceded(Resume(u), Clear(u), calls)
    BY DEF WaitInv, WaitersWait
  <2>2. Preceded(Resume(u), Clear(u), body)
    BY <1>4, <1>6
  <2>3. Preceded(Resume(u), Clear(u), calls')
    BY <1>2, <1>5, <2>1, <2>2
  <2> QED
    BY <1>1, <1>3, <2>1, <2>3
<1>9. ListedIsWaited'
  <2> SUFFICES ASSUME NEW u \in Thread, NEW o \in Object, In(u, waiting_threads[o])
               PROVE  /\ In(o, wait_objects[u])
                      /\ Preceded(Clear(u), Remove(o, u), calls')
    BY DEF ListedIsWaited
  <2>1. In(o, wait_objects[u]) /\ Preceded(Clear(u), Remove(o, u), calls)
    BY DEF WaitInv, ListedIsWaited
  <2>2. Preceded(Clear(u), Remove(o, u), body)
    BY <1>4, <1>6, <2>1
  <2> QED
    BY <1>2, <1>5, <2>1, <2>2
<1>10. WaitedIsListed' /\ AddedIsWaited'
  BY <1>3 DEF WaitInv, WaitedIsListed, AddedIsWaited
<1>11. RemovedIsCleared'
  <2> SUFFICES ASSUME NEW u \in Thread, NEW o \in Object
               PROVE  Followed(Remove(o, u), Clear(u), calls')
    BY DEF RemovedIsCleared
  <2>1. Followed(Remove(o, u), Clear(u), calls)
    BY DEF WaitInv, RemovedIsCleared
  <2>2. Followed(Remove(o, u), Clear(u), body)
    BY <1>4, <1>6
  <2> QED
    BY <1>2, <1>5, <2>1, <2>2
<1>12. ClearedIsResumed'
  <2> SUFFICES ASSUME NEW u \in Thread, status'[u] # "Dead"
               PROVE  Followed(Clear(u), Resume(u), calls')
    BY DEF ClearedIsResumed
  <2>1. Followed(Clear(u), Resume(u), calls)
    BY DEF WaitInv, ClearedIsResumed
  <2>2. Followed(Clear(u), Resume(u), body)
    BY <1>4, <1>6
  <2> QED
    BY <1>2, <1>5, <2>1, <2>2
<1> QED
  BY <1>7, <1>8, <1>9, <1>10, <1>11, <1>12 DEF WaitInv

\* WakeupAllWaitingThreads chooses a thread: it leaves its lists, then has its
\* wait objects cleared, then is resumed.
LEMMA WakeupThreadInv ==
  ASSUME TypeOK, WaitInv, WakeupThread
  PROVE  WaitInv'
PROOF
<1> DEFINE o == Head(calls).obj
<1>1. PICK i \in 1 .. Len(waiting_threads[o]) :
           /\ waiting_threads[o][i] \in Thread
           /\ calls' = WakeupCalls(o, waiting_threads[o][i]) \o calls
           /\ o \in Object /\ calls \in Seq(Call)
  <2>1. Head(calls).op = "WakeupAllWaitingThreads" /\ CallStep /\ calls # << >>
    BY DEF WakeupThread, CallStep
  <2>2. Head(calls) \in Call /\ calls \in Seq(Call)
    BY <2>1, NextCall DEF TypeOK
  <2>3. o \in Object
    BY <2>1, <2>2, CallFields
  <2>4. waiting_threads[o] \in Seq(Thread)
    BY <2>3 DEF TypeOK
  <2>5. PICK i \in 1 .. Len(waiting_threads[o]) :
             calls' = WakeupCalls(o, waiting_threads[o][i]) \o calls
    BY DEF WakeupThread
  <2>6. waiting_threads[o][i] \in Thread
    <3> HIDE DEF o
    <3> QED
      BY <2>4, <2>5
  <2> QED
    BY <2>2, <2>3, <2>5, <2>6
<1> DEFINE t == waiting_threads[o][i]
           b == WakeupCalls(o, t)
<1>2. UNCHANGED <<status, wait_objects, waiting_threads, pending_mutexes>>
  BY DEF WakeupThread, waitVars
<1>3. o \in Object /\ t \in Thread /\ calls' = b \o calls /\ calls \in Seq(Call)
  BY <1>1
<1> HIDE DEF o, t
<1>4. /\ b \in Seq(Call)
      /\ \A p : In(p, wait_objects[t]) => Preceded(Clear(t), Remove(p, t), b)
      /\ \A p : Followed(Remove(p, t), Clear(t), b)
      /\ Followed(Clear(t), Resume(t), b)
      /\ In(Clear(t), b) /\ Preceded(Resume(t), Clear(t), b)
  BY <1>3, WakeupBody
<1>5. \A k : In(k, b) => \/ \E p : k = AcquireOf(p, t) \/ k = Remove(p, t)
                         \/ k = Clear(t) \/ k = Resume(t)
  BY <1>3, WakeupBody
<1>6. \A k : In(k, b) /\ k.op \in WaitOps => k.op # "AddWaitingThread" /\ k.thr = t
  BY <1>5, CallNames DEF WaitOps
<1> HIDE DEF b
<1> QED
  BY <1>2, <1>3, <1>4, <1>6, ThreadLeavesInv

\* Stop pushes the calls that take the stopped thread out of every list.
LEMMA StopInv ==
  ASSUME TypeOK, WaitInv, Stop
  PROVE  WaitInv'
PROOF
<1> DEFINE t == Head(calls).thr
           b == StopCalls(t)
           r == Tail(calls)
<1>1. /\ calls # << >> /\ Head(calls).op = "Stop" /\ calls' = b \o r
      /\ status' = [status EXCEPT ![t] = "Dead"]
      /\ UNCHANGED <<wait_objects, waiting_threads, pending_mutexes>>
  BY DEF Stop, Make, waitVars
<1>2. Head(calls) \in Call /\ r \in Seq(Call) /\ calls \in Seq(Call)
  BY <1>1, NextCall DEF TypeOK
<1>3. t \in Thread
  BY <1>1, <1>2, CallFields
<1>4. \A k : k.op \in WaitOps => k # Head(calls)
  BY <1>1 DEF WaitOps
<1>5. \A k : In(k, calls) <=> In(k, r) \/ k = Head(calls)
  BY <1>1, <1>2, TailMembers
<1>6. \A k, j : k.op \in WaitOps /\ j.op \in WaitOps =>
           /\ Preceded(k, j, calls) => Preceded(k, j, r)
           /\ Followed(k, j, calls) => Followed(k, j, r)
  BY <1>1, <1>2, <1>4, OrderOfTail
<1> HIDE DEF t, r
<1>7. /\ b \in Seq(Call)
      /\ \A k : In(k, b) /\ k.op \in WaitOps =>
           /\ k.op # "AddWaitingThread" /\ k.thr = t
           /\ k.op # "ResumeFromWait"
      /\ \A p : In(p, wait_objects[t]) => Preceded(Clear(t), Remove(p, t), b)
      /\ \A p : Followed(Remove(p, t), Clear(t), b)
      /\ In(Clear(t), b)
  BY <1>3, StopBody, CallNames DEF WaitOps
<1>8. ~ In(Resume(t), b)
  BY <1>7, CallNames DEF WaitOps
<1>9. Preceded(Resume(t), Clear(t), b)
  BY <1>7, <1>8, PrecededConcat
<1>10. /\ \A u \in Thread : status'[u] # "Dead" => status[u] # "Dead"
       /\ \A u \in Thread : u # t => status'[u] = status[u]
       /\ status'[t] = "Dead"
  BY <1>1, <1>3 DEF TypeOK
<1> HIDE DEF b
<1> QED
  BY <1>1, <1>2, <1>3, <1>4, <1>5, <1>6, <1>7, <1>9, <1>10, ThreadLeavesInv

\* Every call of a handler keeps the waiting invariant.
LEMMA CallStepWaitInv ==
  ASSUME TypeOK, ShapeInv, WaitInv, CallStep
  PROVE  WaitInv'
PROOF
<1>1. CASE AddWaitingThread
  BY <1>1, AddWaitingThreadInv
<1>2. CASE RemoveWaitingThread
  BY <1>2, RemoveWaitingThreadInv
<1>3. CASE ClearWaitObjects
  BY <1>3, ClearWaitObjectsInv
<1>4. CASE ResumeFromWait
  BY <1>4, ResumeFromWaitInv
<1>5. CASE WakeupThread
  BY <1>5, WakeupThreadInv
<1>6. CASE Stop
  BY <1>6, StopInv
<1>7. CASE Acquire \/ WakeupDone \/ TerminateProcessThreads \/ ReleaseThreadMutexes
             \/ UpdateMutexes \/ RescheduleTimer
  <2>1. /\ UNCHANGED <<status, wait_objects, waiting_threads, pending_mutexes>>
        /\ Head(calls).op \in {"Acquire", "WakeupAllWaitingThreads", "TerminateProcessThreads",
                               "ReleaseThreadMutexes", "UpdateMutexes", "RescheduleTimer"}
    BY <1>7 DEF Acquire, WakeupDone, TerminateProcessThreads, ReleaseThreadMutexes,
                UpdateMutexes, RescheduleTimer, Make, waitVars
  <2>2. Head(calls).op \notin WaitOps
    BY <2>1 DEF WaitOps
  <2>3. calls # << >> /\ calls \in Seq(Call) /\ Tail(calls) \in Seq(Call)
    BY StackStep
  <2>4. << >> \in Seq(Call) /\ (\A k : ~ In(k, << >>)) /\ << >> \o Tail(calls) = Tail(calls)
    BY <2>3 DEF In
  <2>5. CASE calls' = Tail(calls)
    BY <2>1, <2>2, <2>3, <2>4, <2>5, OtherCallInv
  <2>6. ASSUME NEW k \in Call, k.op \notin WaitOps,
               calls' = <<k>> \o calls \/ calls' = <<k>> \o Tail(calls)
        PROVE  WaitInv'
    <3>1. <<k>> \in Seq(Call) /\ \A l : In(l, <<k>>) => l.op \notin WaitOps
      BY <2>6, OrderedOne
    <3> QED
      BY <2>1, <2>2, <2>3, <2>6, <3>1, OtherCallInv
  <2>7. /\ \A t \in Thread : /\ ThreadCall("Stop", t) \in Call
                             /\ ThreadCall("Stop", t).op \notin WaitOps
        /\ \A m \in Mutex : Wakeup(m) \in Call /\ Wakeup(m).op \notin WaitOps
        /\ \A ms \in SUBSET Mutex :
             /\ [op |-> "UpdateMutexes", mutexes |-> ms] \in Call
             /\ [op |-> "UpdateMutexes", mutexes |-> ms].op \notin WaitOps
    BY CallMakers, NamesAreCalls, CallNames DEF WaitOps, Object
  <2>8. ~ WakeupThread \/ WaitInv'
    BY <1>5
  <2>9. ~ Stop \/ WaitInv'
    BY <1>6
  <2> QED
    BY <2>5, <2>6, <2>7, <2>8, <2>9, StackStep
<1> QED
  BY <1>1, <1>2, <1>3, <1>4, <1>5, <1>6, <1>7 DEF CallStep

-----------------------------------------------------------------------------
(***************************************************************************)
(* Starting a handler keeps the waiting invariant.                          *)
(***************************************************************************)
\* A context switch changes only a running and a ready thread.
LEMMA SwitchedThreads ==
  ASSUME TypeOK, SchedulerInv, NEW c \in Core, Reschedule(c), NEW u \in Thread,
         status'[u] # status[u]
  PROVE  status[u] \in {"Running", "Ready"} /\ status'[u] \in {"Running", "Ready"}
PROOF
<1>1. PICK p \in Prio : \E i \in 1 .. Len(ready_queue[<<c, p>>]) :
           SwitchContext(c, ready_queue[<<c, p>>][i], p)
  BY DEF Reschedule
<1> DEFINE q == ready_queue[<<c, p>>]
<1>2. PICK i \in 1 .. Len(q) : SwitchContext(c, q[i], p)
  BY <1>1
<1>3. q \in Seq(Thread)
  BY DEF TypeOK
<1>4. q[i] \in Thread /\ In(q[i], q)
  <2> HIDE DEF q
  <2> QED
    BY <1>2, <1>3 DEF In
<1>5. status[q[i]] = "Ready"
  BY <1>4 DEF SchedulerInv, QueueHolds, ReadyThreads
<1>6. status' = [v \in Thread |-> CASE v = q[i] -> "Running"
                     [] v # q[i] /\ KeepsRunning(c) /\ v = current_thread[c] -> "Ready"
                     [] OTHER -> status[v]]
  BY <1>2 DEF SwitchContext, SwitchedStatus
<1> HIDE DEF q
<1>7. CASE u = q[i]
  BY <1>5, <1>6, <1>7
<1>8. CASE u # q[i] /\ KeepsRunning(c) /\ u = current_thread[c]
  <2>1. status'[u] = "Ready"
    BY <1>6, <1>8
  <2> QED
    BY <1>8, <2>1 DEF KeepsRunning
<1>9. CASE u # q[i] /\ ~ (KeepsRunning(c) /\ u = current_thread[c])
  <2>1. status'[u] = status[u]
    BY <1>6, <1>9
  <2> QED
    BY <2>1
<1> QED
  BY <1>7, <1>8, <1>9
\* Between handlers every waiting list matches the wait objects.
LEMMA QuietWaits ==
  ASSUME WaitInv, calls = << >>
  PROVE  /\ \A t \in Thread : status[t] \notin WaitSynch => wait_objects[t] = << >>
         /\ \A t \in Thread, o \in Object :
              In(t, waiting_threads[o]) <=> In(o, wait_objects[t])
         /\ \A k : ~ In(k, calls)
PROOF
<1>1. \A k : ~ In(k, calls)
  BY DEF In
<1> QED
  BY <1>1 DEF WaitInv, WaitersWait, ListedIsWaited, WaitedIsListed

\* A handler with no call that changes a wait.
LEMMA OtherStartInv ==
  ASSUME TypeOK, WaitInv, calls = << >>,
         UNCHANGED <<wait_objects, waiting_threads, pending_mutexes>>,
         calls' \in Seq(Call), \A k : In(k, calls') => k.op \notin WaitOps,
         \A t \in Thread : status[t] \notin WaitSynch \/ status'[t] = status[t]
  PROVE  WaitInv'
PROOF
<1>1. /\ \A o, t : ~ In(Add(o, t), calls') /\ ~ In(Remove(o, t), calls')
      /\ \A t : ~ In(Clear(t), calls') /\ ~ In(Resume(t), calls')
  BY CallNames DEF WaitOps
<1>2. \A k, j : /\ ~ In(k, calls') => Preceded(k, j, calls')
                /\ ~ In(k, calls') => Followed(k, j, calls')
  BY PrecededConcat, FollowedConcat
<1>3. ListsWithoutDuplicates' /\ PendingAreWaited'
  BY DEF WaitInv, ListsWithoutDuplicates, PendingAreWaited
<1>4. WaitersWait' /\ ClearedIsResumed'
  BY <1>1, <1>2, QuietWaits DEF WaitersWait, ClearedIsResumed
<1>5. ListedIsWaited' /\ RemovedIsCleared'
  BY <1>1, <1>2, QuietWaits DEF ListedIsWaited, RemovedIsCleared
<1>6. WaitedIsListed' /\ AddedIsWaited'
  BY <1>1, QuietWaits DEF WaitedIsListed, AddedIsWaited
<1> QED
  BY <1>3, <1>4, <1>5, <1>6 DEF WaitInv

\* A thread that starts to wait.
LEMMA StartWaitInv ==
  ASSUME TypeOK, WaitInv, calls = << >>, NEW t \in Thread, NEW objs \in Seq(Object),
         NEW st \in WaitSynch, NEW timed, status[t] = "Running", StartWait(t, objs, st, timed)
  PROVE  WaitInv'
PROOF
<1>1. /\ status' = [status EXCEPT ![t] = st]
      /\ wait_objects' = [wait_objects EXCEPT ![t] = objs]
      /\ calls' = ForEach("AddWaitingThread", objs, t)
      /\ UNCHANGED <<waiting_threads, pending_mutexes>>
  BY DEF StartWait
<1>2. /\ calls' \in Seq(Call)
      /\ \A k : In(k, calls') <=> \E o : In(o, objs) /\ k = Add(o, t)
  BY <1>1, ForEachCalls
<1>3. /\ \A o, u : In(Add(o, u), calls') <=> u = t /\ In(o, objs)
      /\ \A o, u : ~ In(Remove(o, u), calls')
      /\ \A u : ~ In(Clear(u), calls') /\ ~ In(Resume(u), calls')
  <2>1. \A o, p, u : Add(o, u) = Add(p, t) => o = p /\ u = t
    BY CallNames
  <2> QED
    BY <1>2, <2>1, CallNames
<1>4. \A k, j : /\ ~ In(k, calls') => Preceded(k, j, calls')
                /\ ~ In(k, calls') => Followed(k, j, calls')
  BY <1>2, PrecededConcat, FollowedConcat
<1>5. \A u \in Thread : /\ wait_objects'[u] = IF u = t THEN objs ELSE wait_objects[u]
                        /\ status'[u] = IF u = t THEN st ELSE status[u]
  BY <1>1 DEF TypeOK
<1>6. wait_objects[t] = << >> /\ \A o \in Object : ~ In(t, waiting_threads[o])
  <2>1. status[t] \notin WaitSynch
    BY DEF WaitSynch
  <2>2. \A o : ~ In(o, << >>)
    BY DEF In
  <2> QED
    BY <2>1, <2>2, QuietWaits
<1>7. ListsWithoutDuplicates' /\ PendingAreWaited'
  BY <1>1 DEF WaitInv, ListsWithoutDuplicates, PendingAreWaited
<1>8. WaitersWait' /\ ClearedIsResumed'
  BY <1>3, <1>4, <1>5, QuietWaits DEF WaitersWait, ClearedIsResumed
<1>9. ListedIsWaited' /\ RemovedIsCleared'
  BY <1>1, <1>3, <1>4, <1>5, <1>6, QuietWaits DEF ListedIsWaited, RemovedIsCleared
<1>10. WaitedIsListed' /\ AddedIsWaited'
  BY <1>1, <1>3, <1>5, QuietWaits DEF WaitedIsListed, AddedIsWaited
<1> QED
  BY <1>7, <1>8, <1>9, <1>10 DEF WaitInv

\* A timed-out thread leaves every list of its wait.
LEMMA TimeoutInv ==
  ASSUME TypeOK, WaitInv, NEW t \in Thread, ThreadWakeupCallback(t)
  PROVE  WaitInv'
PROOF
<1> DEFINE b == TimeoutCalls(t)
<1>1. /\ calls = << >> /\ calls' = b
      /\ UNCHANGED <<status, wait_objects, waiting_threads, pending_mutexes>>
  BY DEF ThreadWakeupCallback, waitVars
<1>2. /\ b \in Seq(Call)
      /\ \A p : In(p, wait_objects[t]) => Preceded(Clear(t), Remove(p, t), b)
      /\ \A p : Followed(Remove(p, t), Clear(t), b)
      /\ Followed(Clear(t), Resume(t), b)
      /\ status[t] \in WaitSynch => In(Clear(t), b) /\ Preceded(Resume(t), Clear(t), b)
  BY TimeoutBody
<1>3. \A k : In(k, b) => (\E p : k = Remove(p, t)) \/ k = Clear(t) \/ k = Resume(t)
  BY TimeoutBody
<1>4. \A k : In(k, b) /\ k.op \in WaitOps => k.op # "AddWaitingThread" /\ k.thr = t
  BY <1>3, CallNames DEF WaitOps
<1>5. wait_objects[t] # << >> => In(Clear(t), b) /\ Preceded(Resume(t), Clear(t), b)
  BY <1>1, <1>2, QuietWaits
<1> HIDE DEF b
<1>6. << >> \in Seq(Call) /\ calls' = b \o << >>
  BY <1>1, <1>2
<1>7. \A k, j : Preceded(k, j, calls) => Preceded(k, j, << >>)
  BY <1>1
<1>8. \A k, j : Followed(k, j, calls) => Followed(k, j, << >>)
  BY <1>1
<1> QED
  BY <1>1, <1>2, <1>4, <1>5, <1>6, <1>7, <1>8, ThreadLeavesInv

\* Every start of a handler, and every step outside one, keeps the invariant.
LEMMA StartWaitsInv ==
  ASSUME TypeOK, SchedulerInv, WaitInv, Next, ~ CallStep
  PROVE  WaitInv'
PROOF
<1>1. calls = << >>
  BY StartQuiet
<1>2. calls' \in Seq(Call)
  BY NextType DEF TypeOK
<1>3. \A t \in Thread : status[t] \in {"Running", "Ready", "Dormant", "Dead"} =>
        status[t] \notin WaitSynch
  BY DEF WaitSynch
<1>4. ASSUME UNCHANGED <<wait_objects, waiting_threads, pending_mutexes>>,
             \A k : In(k, calls') => k.op \notin WaitOps,
             \A t \in Thread : status[t] \notin WaitSynch \/ status'[t] = status[t]
      PROVE  WaitInv'
  BY <1>1, <1>2, <1>4, OtherStartInv
<1>5. ASSUME UNCHANGED <<wait_objects, waiting_threads, pending_mutexes, calls>>,
             \A t \in Thread : status[t] \notin WaitSynch \/ status'[t] = status[t]
      PROVE  WaitInv'
  <2>1. \A k : ~ In(k, calls')
    BY <1>1, <1>5 DEF In
  <2> QED
    BY <1>4, <1>5, <2>1
<1>6. ASSUME UNCHANGED <<status, wait_objects, waiting_threads, pending_mutexes>>,
             NEW k, calls' = <<k>>, k.op \notin WaitOps
      PROVE  WaitInv'
  <2>1. \A l : In(l, calls') => l.op \notin WaitOps
    BY <1>6 DEF In
  <2> QED
    BY <1>4, <1>6, <2>1
<1>7. ASSUME UNCHANGED <<status, wait_objects, waiting_threads, pending_mutexes>>,
             NEW s, calls' = <<Wakeup(s), Rearm(s)>>
      PROVE  WaitInv'
  <2>1. \A l : In(l, calls') => l = Wakeup(s) \/ l = Rearm(s)
    BY <1>7 DEF In
  <2>2. \A l : In(l, calls') => l.op \notin WaitOps
    BY <2>1, CallNames DEF WaitOps
  <2> QED
    BY <1>4, <1>7, <2>2
<1>8. ASSUME NEW t \in Thread, NEW objs \in Seq(Object), NEW st \in WaitSynch, NEW timed,
             status[t] = "Running", StartWait(t, objs, st, timed) \/ AcquireNow(t, objs)
      PROVE  WaitInv'
  <2>1. CASE StartWait(t, objs, st, timed)
    BY <1>1, <1>8, <2>1, StartWaitInv
  <2>2. CASE AcquireNow(t, objs)
    <3>1. \A k : In(k, calls') => \E o : k = AcquireOf(o, t)
      BY <2>2, ForEachCalls DEF AcquireNow
    <3>2. \A k : In(k, calls') => k.op \notin WaitOps
      BY <3>1, CallNames DEF WaitOps
    <3> QED
      BY <1>4, <2>2, <3>2 DEF AcquireNow, waitVars
  <2> QED
    BY <1>8, <2>1, <2>2
<1>9. ASSUME NEW c \in Core, NEW t \in Thread, SvcStep(c, t) PROVE WaitInv'
  <2>1. status[t] = "Running" /\ "WaitSynchAny" \in WaitSynch
          /\ "WaitSynchAll" \in WaitSynch /\ "WaitHleEvent" \in WaitSynch
    <3>1. Caller(c, t)
      BY <1>9
      DEF SvcStep, CreateThread, WaitSynchronization1, WaitSynchronizationAll,
          WaitSynchronizationAny, SleepClientThread, SleepThread, ReleaseMutex,
          ReleaseSemaphore, ClearSignal, SetTimer, CancelTimer, SetThreadPriority,
          ControlProcess, ExitThread, TerminateProcess
    <3> QED
      BY <3>1 DEF Caller, WaitSynch
  <2>2. ASSUME NEW u \in Thread, NEW p \in CreatePrios[u], CreateThread(c, t, u, p)
        PROVE  WaitInv'
    <3>1. /\ status[u] = "Dormant" /\ status' = [status EXCEPT ![u] = "Ready"]
          /\ UNCHANGED <<wait_objects, waiting_threads, pending_mutexes, calls>>
      BY <2>2 DEF CreateThread, CreateThreadWith, MakeReady, waitVars
    <3> QED
      BY <1>3, <1>5, <3>1 DEF TypeOK
  <2>3. ASSUME NEW o \in WaitTargets[t], NEW timed \in BOOLEAN,
               WaitSynchronization1(c, t, o, timed)
        PROVE  WaitInv'
    <3>1. <<o>> \in Seq(Object)
      BY InputAssumption
    <3> QED
      BY <1>8, <2>1, <2>3, <3>1 DEF WaitSynchronization1
  <2>4. ASSUME NEW objs \in WaitLists, NEW timed \in BOOLEAN,
               WaitSynchronizationAll(c, t, objs, timed)
                 \/ WaitSynchronizationAny(c, t, objs, timed)
        PROVE  WaitInv'
    <3>1. objs \in Seq(Object)
      BY InputAssumption
    <3>2. \A i \in 1 .. Len(objs) : <<objs[i]>> \in Seq(Object)
      BY <3>1
    <3> QED
      BY <1>8, <2>1, <2>4, <3>1, <3>2 DEF WaitSynchronizationAll, WaitSynchronizationAny
  <2>5. ASSUME NEW e \in Event, NEW timed \in BOOLEAN, SleepClientThread(c, t, e, timed)
        PROVE  WaitInv'
    <3>1. <<e>> \in Seq(Object)
      BY DEF Object, Signal
    <3> QED
      BY <1>8, <2>1, <2>5, <3>1 DEF SleepClientThread
  <2>6. ASSUME NEW forever \in BOOLEAN, SleepThread(c, t, forever) PROVE WaitInv'
    <3>1. /\ status' = [status EXCEPT ![t] = "WaitSleep"]
          /\ UNCHANGED <<wait_objects, waiting_threads, pending_mutexes, calls>>
      BY <2>6 DEF SleepThread, waitVars
    <3> QED
      BY <1>3, <1>5, <2>1, <3>1 DEF TypeOK
  <2>7. CASE \/ \E s \in Signal : ClearSignal(c, t, s)
             \/ \E s \in Timer : CancelTimer(c, t, s)
             \/ \E p \in Process, allow \in BOOLEAN : ControlProcess(c, t, p, allow)
    <3>1. UNCHANGED <<status, wait_objects, waiting_threads, pending_mutexes>>
            /\ calls' = << >>
      BY <1>1, <2>7 DEF ClearSignal, SetSignaled, CancelTimer, ControlProcess, waitVars
    <3> QED
      BY <1>1, <1>5, <3>1
  <2>8. ASSUME NEW m \in Mutex, ReleaseMutex(c, t, m) PROVE WaitInv'
    <3>1. UNCHANGED <<status, wait_objects, waiting_threads, pending_mutexes>>
            /\ (UNCHANGED calls \/ calls' = <<Wakeup(m)>>)
      BY <2>8 DEF ReleaseMutex, LastRelease, Wakeup, waitVars
    <3>2. Wakeup(m).op \notin WaitOps
      BY CallNames DEF WaitOps
    <3> QED
      BY <1>5, <1>6, <3>1, <3>2
  <2>9. ASSUME NEW s \in Semaphore, NEW n \in ReleaseCounts, ReleaseSemaphore(c, t, s, n)
        PROVE  WaitInv'
    <3>1. UNCHANGED <<status, wait_objects, waiting_threads, pending_mutexes>>
            /\ calls' = <<Wakeup(s)>>
      BY <2>9 DEF ReleaseSemaphore, Wakeup, waitVars
    <3>2. Wakeup(s).op \notin WaitOps
      BY CallNames DEF WaitOps
    <3> QED
      BY <1>6, <3>1, <3>2
  <2>10. ASSUME NEW s \in Timer, NEW initial \in {0, 1}, NEW interval \in {0, 1},
                SetTimer(c, t, s, initial, interval)
         PROVE  WaitInv'
    <3>1. UNCHANGED <<status, wait_objects, waiting_threads, pending_mutexes>>
            /\ (calls' = << >> \/ calls' = <<Wakeup(s), Rearm(s)>>)
      BY <2>10 DEF SetTimer, TimerSignal, SetSignaled, Wakeup, Rearm, waitVars
    <3> QED
      BY <1>1, <1>5, <1>7, <3>1
  <2>11. ASSUME NEW u \in Thread, NEW p \in SetPrios, SetThreadPriority(c, t, u, p)
         PROVE  WaitInv'
    <3>1. UNCHANGED <<status, wait_objects, waiting_threads, pending_mutexes>>
            /\ calls' = <<[op |-> "UpdateMutexes", mutexes |-> pending_mutexes[u]]>>
      BY <2>11 DEF SetThreadPriority, waitVars
    <3>2. [op |-> "UpdateMutexes", mutexes |-> pending_mutexes[u]].op \notin WaitOps
      BY DEF WaitOps
    <3> QED
      BY <1>6, <3>1, <3>2
  <2>12. CASE ExitThread(c, t)
    <3>1. UNCHANGED <<status, wait_objects, waiting_threads, pending_mutexes>>
            /\ calls' = <<ThreadCall("Stop", t)>>
      BY <2>12 DEF ExitThread, waitVars
    <3>2. ThreadCall("Stop", t).op \notin WaitOps
      BY CallNames DEF WaitOps
    <3> QED
      BY <1>6, <3>1, <3>2
  <2>13. ASSUME NEW p \in Process, TerminateProcess(c, t, p) PROVE WaitInv'
    <3>1. calls' = [i \in 1 .. NumCores |->
                      [op |-> "TerminateProcessThreads", core |-> i - 1, process |-> p]]
      BY <2>13 DEF TerminateProcess
    <3>2. Len(calls') = NumCores
      BY <3>1, ParameterAssumption
    <3>3. \A i \in 1 .. NumCores : calls'[i].op = "TerminateProcessThreads"
      BY <3>1
    <3>4. \A k : In(k, calls') => k.op \notin WaitOps
      BY <3>2, <3>3 DEF In, WaitOps
    <3> QED
      BY <1>4, <2>13, <3>4 DEF TerminateProcess, waitVars
  <2> QED
    BY <1>9, <2>2, <2>3, <2>4, <2>5, <2>6, <2>7, <2>8, <2>9, <2>10, <2>11, <2>12, <2>13
    DEF SvcStep
<1>10. ASSUME NEW t \in Thread, NEW p \in CreatePrios[t], NEW delayed \in BOOLEAN,
              SetupMainThread(t, p, delayed)
       PROVE  WaitInv'
  <2>1. /\ status[t] = "Dormant"
        /\ \E st : status' = [status EXCEPT ![t] = st]
        /\ UNCHANGED <<wait_objects, waiting_threads, pending_mutexes, calls>>
    BY <1>10 DEF SetupMainThread, CreateThreadWith, MakeReady, waitVars
  <2> QED
    BY <1>3, <1>5, <2>1 DEF TypeOK
<1>11. ASSUME NEW e \in Event, SignalEvent(e) PROVE WaitInv'
  <2>1. UNCHANGED <<status, wait_objects, waiting_threads, pending_mutexes>>
          /\ calls' = <<Wakeup(e)>>
    BY <1>11 DEF SignalEvent, SetSignaled, Wakeup, waitVars
  <2>2. Wakeup(e).op \notin WaitOps
    BY CallNames DEF WaitOps
  <2> QED
    BY <1>6, <2>1, <2>2
<1>12. ASSUME NEW s \in Timer, TimerCallback(s) PROVE WaitInv'
  <2>1. UNCHANGED <<status, wait_objects, waiting_threads, pending_mutexes>>
          /\ calls' = <<Wakeup(s), Rearm(s)>>
    BY <1>12 DEF TimerCallback, TimerSignal, SetSignaled, Wakeup, Rearm, waitVars
  <2> QED
    BY <1>7, <2>1
<1>13. ASSUME NEW c \in Core, Reschedule(c) PROVE WaitInv'
  <2>1. UNCHANGED <<wait_objects, waiting_threads, pending_mutexes, calls>>
    BY <1>13 DEF Reschedule, waitVars
  <2>2. ASSUME NEW u \in Thread, status'[u] # status[u]
        PROVE  status[u] \in {"Running", "Ready"}
    BY <1>13, <2>2, SwitchedThreads
  <2> QED
    BY <1>3, <1>5, <2>1, <2>2
<1> QED
  BY <1>9, <1>10, <1>11, <1>12, <1>13, TimeoutInv DEF Next

\* No thread waits and no handler runs initially.
LEMMA WaitInvInit ==
  ASSUME Init
  PROVE  ShapeInv /\ WaitInv
PROOF
<1>1. calls = << >> /\ (\A k : ~ In(k, calls)) /\ \A k : ~ In(k, << >>)
  BY DEF Init, In
<1>2. \A k, j : Preceded(k, j, calls) /\ Followed(k, j, calls)
  BY <1>1 DEF Preceded, Followed
<1>3. ShapeInv
  BY <1>1 DEF ShapeInv, Ordered
<1>4. /\ \A t \in Thread : wait_objects[t] = << >> /\ pending_mutexes[t] = {}
      /\ \A o \in Object : waiting_threads[o] = << >>
  BY DEF Init
<1>5. Mutex \subseteq Object
  BY DEF Object
<1>6. PendingAreWaited
  BY <1>1, <1>4, <1>5 DEF PendingAreWaited
<1>7. ListsWithoutDuplicates
  BY <1>4 DEF ListsWithoutDuplicates, NoDuplicates
<1> QED
  BY <1>1, <1>2, <1>3, <1>4, <1>6, <1>7
  DEF WaitInv, WaitersWait, ListedIsWaited, WaitedIsListed, AddedIsWaited,
      RemovedIsCleared, ClearedIsResumed

\* Every step keeps the waiting invariant.
LEMMA WaitInvNext ==
  ASSUME TypeOK, SchedulerInv, ShapeInv, WaitInv, [Next]_vars
  PROVE  WaitInv'
PROOF
<1>1. CASE UNCHANGED vars
  BY <1>1
  DEF vars, waitVars, WaitInv, ListsWithoutDuplicates, PendingAreWaited, WaitersWait,
      ListedIsWaited, WaitedIsListed, AddedIsWaited, RemovedIsCleared, ClearedIsResumed
<1>2. CASE CallStep
  BY <1>2, CallStepWaitInv
<1>3. CASE Next /\ ~ CallStep
  BY <1>3, StartWaitsInv
<1> QED
  BY <1>1, <1>2, <1>3

KernelInv == TypeOK /\ SchedulerInv /\ ShapeInv /\ WaitInv

\* Types, scheduler, call order and waiting hold together in every reachable state.
LEMMA KernelInvariant == Spec => []KernelInv
PROOF
<1>1. Init => KernelInv
  BY InitType, SchedulerInvInit, WaitInvInit DEF KernelInv
<1>2. KernelInv /\ [Next]_vars => KernelInv'
  BY NextType, SchedulerInvNext, ShapeNext, WaitInvNext DEF KernelInv
<1> QED
  BY <1>1, <1>2, PTL DEF Spec

\* Between handlers a thread is in the waiting list of exactly the objects it waits
\* on, once each, its pending mutexes are the mutexes among them, and only a blocked
\* thread has any: no wake-up, timeout or termination leaves a dangling entry.
THEOREM WaitListsHold == Spec => []WaitListsConsistent
PROOF
<1>1. KernelInv => WaitListsConsistent
  <2> SUFFICES ASSUME KernelInv, calls = << >> PROVE WaitListsConsistent
    BY DEF WaitListsConsistent, Quiet
  <2>1. /\ \A t \in Thread : status[t] \notin WaitSynch => wait_objects[t] = << >>
        /\ \A t \in Thread, o \in Object :
             In(t, waiting_threads[o]) <=> In(o, wait_objects[t])
    BY QuietWaits DEF KernelInv
  <2>2. Mutex \subseteq Object
    BY DEF Object
  <2>3. \A t \in Thread : pending_mutexes[t] = {m \in Mutex : In(m, wait_objects[t])}
    BY <2>1, <2>2 DEF KernelInv, WaitInv, PendingAreWaited
  <2>4. \A o \in Object : NoDuplicates(waiting_threads[o])
    BY DEF KernelInv, WaitInv, ListsWithoutDuplicates
  <2> QED
    BY <2>1, <2>3, <2>4 DEF WaitListsConsistent
<1> QED
  BY <1>1, KernelInvariant, PTL

-----------------------------------------------------------------------------
(***************************************************************************)
(* Scheduled wake-ups and timer events.                                     *)
(***************************************************************************)
\* The calls a step makes and adds.
LEMMA CallMembers ==
  ASSUME TypeOK, CallStep, NEW k
  PROVE  /\ In(k, calls) => In(k, calls') \/ k = Head(calls)
         /\ In(k, calls') /\ ~ In(k, calls) =>
              \/ /\ WakeupThread /\ Head(calls).op = "WakeupAllWaitingThreads"
                 /\ Head(calls).obj \in Object
                 /\ \E i \in 1 .. Len(waiting_threads[Head(calls).obj]) :
                      /\ CanWake(Head(calls).obj, i)
                      /\ waiting_threads[Head(calls).obj][i] \in Thread
                      /\ In(k, WakeupCalls(Head(calls).obj,
                                           waiting_threads[Head(calls).obj][i]))
              \/ /\ Stop /\ Head(calls).op = "Stop" /\ Head(calls).thr \in Thread
                 /\ In(k, StopCalls(Head(calls).thr))
              \/ k.op = "Stop" /\ Head(calls).op = "TerminateProcessThreads"
              \/ /\ Head(calls).op = "ReleaseThreadMutexes"
                 /\ \E m \in Mutex : k = Wakeup(m)
              \/ k.op = "UpdateMutexes" /\ Head(calls).op = "UpdateMutexes"
PROOF
<1> DEFINE h == Head(calls)
           r == Tail(calls)
<1>1. calls # << >> /\ calls \in Seq(Call) /\ h \in Call /\ r \in Seq(Call)
  BY StackStep
<1>2. In(k, calls) <=> In(k, r) \/ k = h
  BY <1>1, TailMembers
<1>3. ASSUME NEW b \in Seq(Call)
      PROVE  /\ In(k, b \o calls) <=> In(k, b) \/ In(k, calls)
             /\ In(k, b \o r) <=> In(k, b) \/ In(k, r)
  BY <1>1, InConcat
<1>4. ASSUME NEW l \in Call
      PROVE  /\ In(k, <<l>> \o calls) <=> k = l \/ In(k, calls)
             /\ In(k, <<l>> \o r) <=> k = l \/ In(k, r)
  BY <1>1, PrependMembers
<1>5. CASE calls' = r
  BY <1>2, <1>5
<1>6. ASSUME WakeupThread, h.op = "WakeupAllWaitingThreads", h.obj \in Object,
             NEW i \in 1 .. Len(waiting_threads[h.obj]), CanWake(h.obj, i),
             waiting_threads[h.obj][i] \in Thread,
             calls' = WakeupCalls(h.obj, waiting_threads[h.obj][i]) \o calls
      PROVE  /\ In(k, calls) => In(k, calls')
             /\ In(k, calls') /\ ~ In(k, calls) =>
                  In(k, WakeupCalls(h.obj, waiting_threads[h.obj][i]))
  <2>1. WakeupCalls(h.obj, waiting_threads[h.obj][i]) \in Seq(Call)
    BY <1>6, WakeupBody
  <2> QED
    BY <1>3, <1>6, <2>1
<1>7. ASSUME h.op = "Stop", h.thr \in Thread, calls' = StopCalls(h.thr) \o r
      PROVE  /\ In(k, calls) => In(k, calls') \/ k = h
             /\ In(k, calls') /\ ~ In(k, calls) => In(k, StopCalls(h.thr))
  <2>1. StopCalls(h.thr) \in Seq(Call)
    BY <1>7, StopBody
  <2> QED
    BY <1>2, <1>3, <1>7, <2>1
<1>8. ASSUME NEW l \in Call, calls' = <<l>> \o calls \/ calls' = <<l>> \o r
      PROVE  /\ In(k, calls) => In(k, calls') \/ k = h
             /\ In(k, calls') /\ ~ In(k, calls) => k = l
  BY <1>2, <1>4, <1>8
<1>9. /\ \A t \in Thread : /\ ThreadCall("Stop", t) \in Call
                           /\ ThreadCall("Stop", t).op = "Stop"
      /\ \A m \in Mutex : Wakeup(m) \in Call
      /\ \A ms \in SUBSET Mutex : [op |-> "UpdateMutexes", mutexes |-> ms] \in Call
  BY CallMakers, NamesAreCalls, CallNames DEF Object
<1>10. ASSUME h.op = "TerminateProcessThreads", NEW t \in Thread,
              \/ calls' = <<ThreadCall("Stop", t)>> \o calls
              \/ calls' = <<ThreadCall("Stop", t)>> \o r
       PROVE  /\ In(k, calls) => In(k, calls') \/ k = h
              /\ In(k, calls') /\ ~ In(k, calls) => k.op = "Stop"
  BY <1>8, <1>9, <1>10
<1>11. ASSUME NEW m \in Mutex, calls' = <<Wakeup(m)>> \o calls
       PROVE  /\ In(k, calls) => In(k, calls') \/ k = h
              /\ In(k, calls') /\ ~ In(k, calls) => k = Wakeup(m)
  BY <1>8, <1>9, <1>11
<1>12. ASSUME NEW ms \in SUBSET Mutex,
              calls' = <<[op |-> "UpdateMutexes", mutexes |-> ms]>> \o r
       PROVE  /\ In(k, calls) => In(k, calls') \/ k = h
              /\ In(k, calls') /\ ~ In(k, calls) => k.op = "UpdateMutexes"
  BY <1>8, <1>9, <1>12
<1> QED
  BY <1>5, <1>6, <1>7, <1>10, <1>11, <1>12, StackStep

\* At most one wake-up per thread, none for a thread that runs or is stopped, and
\* no event for a timer that is to be scheduled again.
OneWakeup ==
  \A t \in Thread :
    /\ wakeup_event[t] <= 1
    /\ wakeup_event[t] > 0 => status[t] \in Waiting \cup {"Ready"}
OneTimerEvent ==
  \A s \in Timer : /\ timer_event[s] <= 1
                   /\ In(Rearm(s), calls) => timer_event[s] = 0
TimeInv == OneWakeup /\ OneTimerEvent

\* The calls of a handler keep the events in order: only the end of Timer::Signal
\* schedules one, and Stop cancels the thread's.
LEMMA CallStepTimeInv ==
  ASSUME TypeOK, ShapeInv, TimeInv, CallStep
  PROVE  TimeInv'
PROOF
<1>1. ASSUME NEW s, In(Rearm(s), calls') PROVE In(Rearm(s), calls)
  <2>1. Rearm(s).op = "RescheduleTimer" /\ \A m : Rearm(s) # Wakeup(m)
    BY CallNames
  <2>2. ASSUME NEW o \in Object, NEW t \in Thread PROVE ~ In(Rearm(s), WakeupCalls(o, t))
    BY WakeupBody, CallNames
  <2>3. ASSUME NEW t \in Thread PROVE ~ In(Rearm(s), StopCalls(t))
    BY StopBody, CallNames
  <2> QED
    BY <1>1, <2>1, <2>2, <2>3, CallMembers
<1>2. CASE RescheduleTimer
  <2> DEFINE s == Head(calls).obj
  <2>1. /\ calls # << >> /\ Head(calls).op = "RescheduleTimer"
        /\ calls' = << >> \o Tail(calls) /\ UNCHANGED <<status, wakeup_event>>
        /\ timer_event' = [timer_event EXCEPT
                             ![s] = IF interval_delay[s] # 0 THEN @ + 1 ELSE @]
    BY <1>2 DEF RescheduleTimer, Make
  <2>2. Head(calls) \in Call /\ calls \in Seq(Call) /\ Tail(calls) \in Seq(Call)
    BY <2>1, NextCall DEF TypeOK
  <2>3. Head(calls) = Rearm(s) /\ calls' = Tail(calls)
    BY <2>1, <2>2, CallOfOp
  <2>4. In(Rearm(s), calls)
    BY <2>1, <2>2, <2>3, TailMembers
  <2>5. \A l : ~ In(l, calls')
    BY <2>1, <2>2, <2>3, OrderedTail DEF ShapeInv, MayFollow
  <2> HIDE DEF s
  <2>6. \A u \in Timer : timer_event'[u] <= 1
    <3> SUFFICES ASSUME NEW u \in Timer PROVE timer_event'[u] <= 1
      OBVIOUS
    <3>1. timer_event[u] \in Nat /\ timer_event[u] <= 1
      BY DEF TypeOK, TimeInv, OneTimerEvent
    <3>2. CASE u = s
      <4>1. timer_event[u] = 0
        BY <2>4, <3>2 DEF TimeInv, OneTimerEvent
      <4>2. timer_event'[u] = IF interval_delay[s] # 0 THEN timer_event[u] + 1
                              ELSE timer_event[u]
        BY <2>1, <3>2 DEF TypeOK
      <4> QED
        BY <4>1, <4>2
    <3>3. CASE u # s
      BY <2>1, <3>1, <3>3 DEF TypeOK
    <3> QED
      BY <3>2, <3>3
  <2> QED
    BY <2>1, <2>5, <2>6 DEF TimeInv, OneWakeup, OneTimerEvent
<1>3. CASE Stop
  <2> DEFINE t == Head(calls).thr
  <2>1. /\ calls # << >> /\ Head(calls).op = "Stop" /\ UNCHANGED timer_event
        /\ wakeup_event' = [wakeup_event EXCEPT ![t] = 0]
        /\ status' = [status EXCEPT ![t] = "Dead"]
    BY <1>3 DEF Stop, Make
  <2>2. t \in Thread
    BY <2>1, NextCall, CallFields
  <2>3. OneWakeup'
    BY <2>1, <2>2 DEF TimeInv, OneWakeup, TypeOK
  <2> QED
    BY <1>1, <2>1, <2>3 DEF TimeInv, OneTimerEvent
<1>4. CASE ResumeFromWait
  <2> DEFINE t == Head(calls).thr
  <2>1. /\ calls # << >> /\ Head(calls).op = "ResumeFromWait"
        /\ UNCHANGED <<wakeup_event, timer_event>>
        /\ status' = status \/ status' = [status EXCEPT ![t] = "Ready"]
    BY <1>4 DEF ResumeFromWait, BecomeReady, Make, eventVars
  <2>2. t \in Thread
    BY <2>1, NextCall, CallFields
  <2>3. \A u \in Thread : status'[u] = status[u] \/ status'[u] = "Ready"
    BY <2>1, <2>2 DEF TypeOK
  <2>4. OneWakeup'
    BY <2>1, <2>3 DEF TimeInv, OneWakeup
  <2> QED
    BY <1>1, <2>1, <2>4 DEF TimeInv, OneTimerEvent
<1>5. CASE ~ (RescheduleTimer \/ Stop \/ ResumeFromWait)
  <2>1. UNCHANGED <<status, wakeup_event, timer_event>>
    <3>1. CASE AddWaitingThread \/ RemoveWaitingThread
      BY <3>1 DEF AddWaitingThread, RemoveWaitingThread, ChangeWaiters, eventVars
    <3> QED
      BY <1>5, <3>1
      DEF CallStep, Acquire, WakeupThread, WakeupDone, ClearWaitObjects,
          TerminateProcessThreads, ReleaseThreadMutexes, UpdateMutexes, eventVars
  <2> QED
    BY <1>1, <2>1 DEF TimeInv, OneWakeup, OneTimerEvent
<1> QED
  BY <1>2, <1>3, <1>4, <1>5
\* A supervisor call is made by a running thread while no handler runs.
LEMMA SvcCaller ==
  ASSUME NEW c, NEW t, SvcStep(c, t)
  PROVE  calls = << >> /\ status[t] = "Running" /\ current_thread[c] = t /\ t # None
PROOF
<1>1. Caller(c, t)
  BY DEF SvcStep, CreateThread, WaitSynchronization1, WaitSynchronizationAll,
         WaitSynchronizationAny, SleepClientThread, SleepThread, ReleaseMutex,
         ReleaseSemaphore, ClearSignal, SetTimer, CancelTimer, SetThreadPriority,
         ControlProcess, ExitThread, TerminateProcess
<1> QED
  BY <1>1 DEF Caller

\* Only a thread that runs or is created gets a wake-up, and only when it blocks.
LEMMA StartWakeup ==
  ASSUME TypeOK, SchedulerInv, TimeInv, Next, ~ CallStep
  PROVE  OneWakeup'
PROOF
<1>1. calls = << >> /\ "WaitSleep" \in Waiting /\ WaitSynch \subseteq Waiting
  BY StartQuiet DEF Waiting, WaitSynch
<1>2. \A t \in Thread :
        /\ wakeup_event[t] \in Nat /\ wakeup_event[t] <= 1
        /\ status[t] \in {"Running", "Dormant", "Dead"} => wakeup_event[t] = 0
  <2> SUFFICES ASSUME NEW t \in Thread
               PROVE  /\ wakeup_event[t] \in Nat /\ wakeup_event[t] <= 1
                      /\ status[t] \in {"Running", "Dormant", "Dead"} => wakeup_event[t] = 0
    OBVIOUS
  <2>1. wakeup_event[t] \in Nat
    BY DEF TypeOK
  <2>2. /\ wakeup_event[t] <= 1
        /\ wakeup_event[t] > 0 => status[t] \in Waiting \cup {"Ready"}
    BY DEF TimeInv, OneWakeup
  <2>3. status[t] \in {"Running", "Dormant", "Dead"} => status[t] \notin Waiting \cup {"Ready"}
    BY DEF Waiting, WaitSynch
  <2> QED
    BY <2>1, <2>2, <2>3
<1>3. ASSUME UNCHANGED <<status, wakeup_event>> PROVE OneWakeup'
  BY <1>3 DEF TimeInv, OneWakeup
<1>4. ASSUME NEW t \in Thread, status[t] \in {"Running", "Dormant"},
             NEW st \in Waiting \cup {"Ready"}, status' = [status EXCEPT ![t] = st],
             \/ UNCHANGED wakeup_event
             \/ wakeup_event' = [wakeup_event EXCEPT ![t] = @ + 1]
      PROVE  OneWakeup'
  <2> SUFFICES ASSUME NEW u \in Thread
               PROVE  /\ wakeup_event'[u] <= 1
                      /\ wakeup_event'[u] > 0 => status'[u] \in Waiting \cup {"Ready"}
    BY DEF OneWakeup
  <2>1. CASE u = t
    <3>1. wakeup_event[t] = 0
      BY <1>2, <1>4
    <3>2. status'[u] = st /\ wakeup_event'[u] \in {0, 1}
      BY <1>4, <2>1, <3>1 DEF TypeOK
    <3> QED
      BY <1>4, <3>2
  <2>2. CASE u # t
    BY <1>4, <2>2 DEF TypeOK, TimeInv, OneWakeup
  <2> QED
    BY <2>1, <2>2
<1>5. ASSUME NEW t \in Thread, NEW objs, NEW st \in WaitSynch, NEW timed,
             status[t] = "Running", StartWait(t, objs, st, timed)
      PROVE  OneWakeup'
  <2>1. /\ status' = [status EXCEPT ![t] = st]
        /\ wakeup_event' = [wakeup_event EXCEPT ![t] = IF timed THEN @ + 1 ELSE @]
    BY <1>5 DEF StartWait
  <2>2. ~ timed => wakeup_event' = wakeup_event
    BY <2>1 DEF TypeOK
  <2> QED
    BY <1>1, <1>4, <1>5, <2>1, <2>2
<1>6. ASSUME NEW c \in Core, NEW t \in Thread, SvcStep(c, t) PROVE OneWakeup'
  <2>1. status[t] = "Running" /\ "WaitSynchAny" \in WaitSynch
          /\ "WaitSynchAll" \in WaitSynch /\ "WaitHleEvent" \in WaitSynch
    BY <1>6, SvcCaller DEF WaitSynch
  <2>2. ASSUME NEW u \in Thread, NEW p, CreateThread(c, t, u, p) PROVE OneWakeup'
    BY <1>4, <2>2 DEF CreateThread, CreateThreadWith, MakeReady
  <2>3. CASE \/ \E o \in WaitTargets[t], timed \in BOOLEAN :
                  WaitSynchronization1(c, t, o, timed)
             \/ \E objs \in WaitLists, timed \in BOOLEAN :
                  \/ WaitSynchronizationAll(c, t, objs, timed)
                  \/ WaitSynchronizationAny(c, t, objs, timed)
             \/ \E e \in Event, timed \in BOOLEAN : SleepClientThread(c, t, e, timed)
    <3>1. \/ \E objs, timed : \E st \in WaitSynch : StartWait(t, objs, st, timed)
          \/ UNCHANGED <<status, wakeup_event>>
      BY <2>1, <2>3
      DEF WaitSynchronization1, WaitSynchronizationAll, WaitSynchronizationAny,
          SleepClientThread, AcquireNow, eventVars
    <3> QED
      BY <1>3, <1>5, <2>1, <3>1
  <2>4. ASSUME NEW forever \in BOOLEAN, SleepThread(c, t, forever) PROVE OneWakeup'
    <3>1. /\ status' = [status EXCEPT ![t] = "WaitSleep"]
          /\ wakeup_event' = [wakeup_event EXCEPT ![t] = IF forever THEN @ ELSE @ + 1]
      BY <2>4 DEF SleepThread
    <3>2. forever => wakeup_event' = wakeup_event
      BY <3>1 DEF TypeOK
    <3> QED
      BY <1>1, <1>4, <2>1, <3>1, <3>2
  <2>5. CASE \/ \E m \in Mutex : ReleaseMutex(c, t, m)
             \/ \E s \in Semaphore, n \in ReleaseCounts : ReleaseSemaphore(c, t, s, n)
             \/ \E s \in Signal : ClearSignal(c, t, s)
             \/ \E s \in Timer, initial, interval \in {0, 1} :
                  SetTimer(c, t, s, initial, interval)
             \/ \E s \in Timer : CancelTimer(c, t, s)
    BY <1>3, <2>5 DEF ReleaseMutex, ReleaseSemaphore, ClearSignal, SetTimer, TimerSignal,
                      SetSignaled, CancelTimer, eventVars
  <2>6. CASE \/ \E u \in Thread, p \in SetPrios : SetThreadPriority(c, t, u, p)
             \/ \E p \in Process, allow \in BOOLEAN : ControlProcess(c, t, p, allow)
             \/ ExitThread(c, t)
             \/ \E p \in Process : TerminateProcess(c, t, p)
    BY <1>3, <2>6 DEF SetThreadPriority, ControlProcess, ExitThread, TerminateProcess,
                      eventVars
  <2> QED
    BY <1>6, <2>2, <2>3, <2>4, <2>5, <2>6 DEF SvcStep
<1>7. ASSUME NEW t \in Thread, NEW p, NEW delayed \in BOOLEAN, SetupMainThread(t, p, delayed)
      PROVE  OneWakeup'
  <2>1. /\ status[t] = "Dormant"
        /\ \E st \in Waiting \cup {"Ready"} : status' = [status EXCEPT ![t] = st]
        /\ \/ UNCHANGED wakeup_event
           \/ wakeup_event' = [wakeup_event EXCEPT ![t] = @ + 1]
    BY <1>1, <1>7 DEF SetupMainThread, CreateThreadWith, MakeReady
  <2> QED
    BY <1>4, <2>1
<1>8. CASE (\E e \in Event : SignalEvent(e)) \/ \E s \in Timer : TimerCallback(s)
  BY <1>3, <1>8 DEF SignalEvent, TimerCallback, TimerSignal, SetSignaled
<1>9. ASSUME NEW t \in Thread, ThreadWakeupCallback(t) PROVE OneWakeup'
  <2>1. /\ UNCHANGED status /\ wakeup_event[t] > 0
        /\ wakeup_event' = [wakeup_event EXCEPT ![t] = @ - 1]
    BY <1>9 DEF ThreadWakeupCallback
  <2>2. \A u \in Thread : wakeup_event'[u] = IF u = t THEN 0 ELSE wakeup_event[u]
    BY <1>2, <2>1 DEF TypeOK
  <2> QED
    BY <2>1, <2>2 DEF TimeInv, OneWakeup
<1>10. ASSUME NEW c \in Core, Reschedule(c) PROVE OneWakeup'
  <2> SUFFICES ASSUME NEW u \in Thread
               PROVE  /\ wakeup_event'[u] <= 1
                      /\ wakeup_event'[u] > 0 => status'[u] \in Waiting \cup {"Ready"}
    BY DEF OneWakeup
  <2>1. wakeup_event'[u] = wakeup_event[u] \/ wakeup_event'[u] = 0
    BY <1>10 DEF Reschedule, SwitchContext, CancelWakeup, TypeOK
  <2>2. status'[u] # "Running" \/ wakeup_event'[u] = 0 \/ status'[u] = status[u]
    <3>1. CASE UNCHANGED status
      BY <3>1
    <3>2. ASSUME NEW p, NEW i, SwitchContext(c, ready_queue[<<c, p>>][i], p)
          PROVE  status'[u] # "Running" \/ wakeup_event'[u] = 0 \/ status'[u] = status[u]
      <4> DEFINE t == ready_queue[<<c, p>>][i]
      <4>1. /\ wakeup_event' = [wakeup_event EXCEPT ![t] = 0]
            /\ status' = [v \in Thread |-> CASE v = t -> "Running"
                     [] v # t /\ KeepsRunning(c) /\ v = current_thread[c] -> "Ready"
                     [] OTHER -> status[v]]
        BY <3>2 DEF SwitchContext, CancelWakeup, SwitchedStatus
      <4> HIDE DEF t
      <4>2. CASE u = t
        BY <4>1, <4>2 DEF TypeOK
      <4>3. CASE u # t
        BY <4>1, <4>3
      <4> QED
        BY <4>2, <4>3
    <3> QED
      BY <1>10, <3>1, <3>2 DEF Reschedule
  <2>3. status'[u] # status[u] => status'[u] \in {"Running", "Ready"}
    BY <1>10, SwitchedThreads
  <2> QED
    BY <1>2, <2>1, <2>2, <2>3 DEF TimeInv, OneWakeup
<1> QED
  BY <1>6, <1>7, <1>8, <1>9, <1>10 DEF Next

\* A timer that is set or fires has at most one event, none while it signals.
LEMMA StartTimerEvent ==
  ASSUME TypeOK, TimeInv, Next, ~ CallStep
  PROVE  OneTimerEvent'
PROOF
<1>1. calls = << >> /\ \A k : ~ In(k, << >>)
  BY StartQuiet DEF In
<1>2. \A s \in Timer : timer_event[s] \in Nat /\ timer_event[s] <= 1
  BY DEF TypeOK, TimeInv, OneTimerEvent
<1>3. ASSUME UNCHANGED timer_event, \A s : ~ In(Rearm(s), calls')
      PROVE  OneTimerEvent'
  BY <1>2, <1>3 DEF OneTimerEvent
<1>4. ASSUME UNCHANGED timer_event, NEW k, calls' = <<k>>, k.op # "RescheduleTimer"
      PROVE  OneTimerEvent'
  <2>1. \A l : In(l, calls') => l = k
    BY <1>4 DEF In
  <2>2. \A s : ~ In(Rearm(s), calls')
    BY <1>4, <2>1, CallNames
  <2> QED
    BY <1>3, <1>4, <2>2
<1>5. ASSUME UNCHANGED timer_event, calls' = << >> PROVE OneTimerEvent'
  BY <1>1, <1>3, <1>5
<1>6. ASSUME NEW s \in Timer, NEW n \in {0, 1},
             timer_event' = [timer_event EXCEPT ![s] = n],
             \/ calls' = << >>
             \/ n = 0 /\ calls' = <<Wakeup(s), Rearm(s)>>
      PROVE  OneTimerEvent'
  <2>1. \A u \in Timer : timer_event'[u] = IF u = s THEN n ELSE timer_event[u]
    BY <1>6 DEF TypeOK
  <2>2. \A u : In(Rearm(u), calls') => u = s /\ n = 0
    <3>1. CASE calls' = << >>
      BY <1>1, <3>1
    <3>2. CASE n = 0 /\ calls' = <<Wakeup(s), Rearm(s)>>
      <4>1. \A k : In(k, calls') => k = Wakeup(s) \/ k = Rearm(s)
        BY <3>2 DEF In
      <4> QED
        BY <3>2, <4>1, CallNames
    <3> QED
      BY <1>6, <3>1, <3>2
  <2> QED
    BY <1>2, <2>1, <2>2 DEF OneTimerEvent
<1>7. ASSUME NEW t \in Thread, NEW objs \in Seq(Object), NEW st, NEW timed,
             StartWait(t, objs, st, timed) \/ AcquireNow(t, objs)
      PROVE  OneTimerEvent'
  <2>1. UNCHANGED timer_event
    BY <1>7 DEF StartWait, AcquireNow, eventVars
  <2>2. \A k : In(k, calls') => \E o : k = Add(o, t) \/ k = AcquireOf(o, t)
    BY <1>7, ForEachCalls DEF StartWait, AcquireNow
  <2> QED
    BY <1>3, <2>1, <2>2, CallNames
<1>8. ASSUME NEW c \in Core, NEW t \in Thread, SvcStep(c, t) PROVE OneTimerEvent'
  <2>1. CASE \/ \E u \in Thread : \E p \in CreatePrios[u] : CreateThread(c, t, u, p)
             \/ \E forever \in BOOLEAN : SleepThread(c, t, forever)
             \/ \E s \in Signal : ClearSignal(c, t, s)
             \/ \E p \in Process, allow \in BOOLEAN : ControlProcess(c, t, p, allow)
    BY <1>1, <1>5, <2>1 DEF CreateThread, CreateThreadWith, SleepThread, ClearSignal,
                            SetSignaled, ControlProcess, eventVars
  <2>2. ASSUME NEW o \in WaitTargets[t], NEW timed, WaitSynchronization1(c, t, o, timed)
        PROVE  OneTimerEvent'
    <3>1. <<o>> \in Seq(Object)
      BY InputAssumption
    <3> QED
      BY <1>7, <2>2, <3>1 DEF WaitSynchronization1
  <2>3. ASSUME NEW objs \in WaitLists, NEW timed,
               WaitSynchronizationAll(c, t, objs, timed)
                 \/ WaitSynchronizationAny(c, t, objs, timed)
        PROVE  OneTimerEvent'
    <3>1. objs \in Seq(Object)
      BY InputAssumption
    <3>2. \A i \in 1 .. Len(objs) : <<objs[i]>> \in Seq(Object)
      BY <3>1
    <3> QED
      BY <1>7, <2>3, <3>1, <3>2 DEF WaitSynchronizationAll, WaitSynchronizationAny
  <2>4. ASSUME NEW e \in Event, NEW timed, SleepClientThread(c, t, e, timed)
        PROVE  OneTimerEvent'
    <3>1. <<e>> \in Seq(Object)
      BY DEF Object, Signal
    <3> QED
      BY <1>7, <2>4, <3>1 DEF SleepClientThread
  <2>5. CASE \/ \E m \in Mutex : ReleaseMutex(c, t, m)
             \/ \E s \in Semaphore, n \in ReleaseCounts : ReleaseSemaphore(c, t, s, n)
    <3>1. /\ UNCHANGED timer_event
          /\ calls' = << >> \/ \E o : calls' = <<Wakeup(o)>>
      BY <1>1, <2>5 DEF ReleaseMutex, LastRelease, ReleaseSemaphore, Wakeup, eventVars
    <3> QED
      BY <1>4, <1>5, <3>1, CallNames
  <2>6. ASSUME NEW s \in Timer, NEW initial \in {0, 1}, NEW interval \in {0, 1},
               SetTimer(c, t, s, initial, interval)
        PROVE  OneTimerEvent'
    BY <1>6, <2>6 DEF SetTimer, TimerSignal, SetSignaled, Wakeup, Rearm
  <2>7. ASSUME NEW s \in Timer, CancelTimer(c, t, s) PROVE OneTimerEvent'
    BY <1>1, <1>6, <2>7 DEF CancelTimer
  <2>8. ASSUME NEW u \in Thread, NEW p, SetThreadPriority(c, t, u, p) PROVE OneTimerEvent'
    <3>1. /\ UNCHANGED timer_event
          /\ calls' = <<[op |-> "UpdateMutexes", mutexes |-> pending_mutexes[u]]>>
      BY <2>8 DEF SetThreadPriority, eventVars
    <3> QED
      BY <1>4, <3>1
  <2>9. CASE ExitThread(c, t)
    <3>1. UNCHANGED timer_event /\ calls' = <<ThreadCall("Stop", t)>>
      BY <2>9 DEF ExitThread, eventVars
    <3> QED
      BY <1>4, <3>1, CallNames
  <2>10. ASSUME NEW p \in Process, TerminateProcess(c, t, p) PROVE OneTimerEvent'
    <3>1. /\ UNCHANGED timer_event
          /\ calls' = [i \in 1 .. NumCores |->
                         [op |-> "TerminateProcessThreads", core |-> i - 1, process |-> p]]
      BY <2>10 DEF TerminateProcess, eventVars
    <3>2. Len(calls') = NumCores
      BY <3>1, ParameterAssumption
    <3>3. \A i \in 1 .. NumCores : calls'[i].op = "TerminateProcessThreads"
      BY <3>1
    <3>4. \A s : ~ In(Rearm(s), calls')
      BY <3>2, <3>3, CallNames DEF In
    <3> QED
      BY <1>3, <3>1, <3>4
  <2> QED
    BY <1>8, <2>1, <2>2, <2>3, <2>4, <2>5, <2>6, <2>7, <2>8, <2>9, <2>10 DEF SvcStep
<1>9. CASE \/ \E t \in Thread : \E p \in CreatePrios[t], delayed \in BOOLEAN :
                SetupMainThread(t, p, delayed)
           \/ \E c \in Core : Reschedule(c)
  BY <1>1, <1>5, <1>9 DEF SetupMainThread, CreateThreadWith, Reschedule
<1>10. ASSUME NEW e \in Event, SignalEvent(e) PROVE OneTimerEvent'
  <2>1. UNCHANGED timer_event /\ calls' = <<Wakeup(e)>>
    BY <1>10 DEF SignalEvent, SetSignaled, Wakeup
  <2> QED
    BY <1>4, <2>1, CallNames
<1>11. ASSUME NEW t \in Thread, ThreadWakeupCallback(t) PROVE OneTimerEvent'
  <2>1. UNCHANGED timer_event /\ calls' = TimeoutCalls(t)
    BY <1>11 DEF ThreadWakeupCallback
  <2>2. \A s : ~ In(Rearm(s), calls')
    BY <2>1, TimeoutBody, CallNames
  <2> QED
    BY <1>3, <2>1, <2>2
<1>12. ASSUME NEW s \in Timer, TimerCallback(s) PROVE OneTimerEvent'
  <2>1. /\ timer_event[s] > 0 /\ timer_event' = [timer_event EXCEPT ![s] = @ - 1]
        /\ calls' = <<Wakeup(s), Rearm(s)>>
    BY <1>12 DEF TimerCallback, TimerSignal, SetSignaled, Wakeup, Rearm
  <2>2. timer_event[s] - 1 = 0
    BY <1>2, <2>1
  <2>3. timer_event' = [timer_event EXCEPT ![s] = 0]
    BY <2>1, <2>2
  <2> QED
    BY <1>6, <2>1, <2>3
<1> QED
  BY <1>8, <1>9, <1>10, <1>11, <1>12 DEF Next

\* A scheduled wake-up or timer event belongs to the latest wait or setting.
LEMMA TimeInvNext ==
  ASSUME TypeOK, SchedulerInv, ShapeInv, TimeInv, [Next]_vars
  PROVE  TimeInv'
PROOF
<1>1. CASE UNCHANGED vars
  BY <1>1 DEF vars, eventVars, TimeInv, OneWakeup, OneTimerEvent
<1>2. CASE CallStep
  BY <1>2, CallStepTimeInv
<1>3. CASE Next /\ ~ CallStep
  BY <1>3, StartWakeup, StartTimerEvent DEF TimeInv
<1> QED
  BY <1>1, <1>2, <1>3

\* In every reachable state wake-ups and timer events are in order.
LEMMA TimeInvariant == Spec => []TimeInv
PROOF
<1>1. Init => TimeInv
  BY DEF Init, TimeInv, OneWakeup, OneTimerEvent
<1>2. KernelInv /\ TimeInv /\ [Next]_vars => TimeInv'
  BY TimeInvNext DEF KernelInv
<1> QED
  BY <1>1, <1>2, KernelInvariant, PTL DEF Spec

\* A thread has at most one wake-up, none while it runs or once it is stopped, and
\* between handlers a timer has at most one event, however timeouts, cancellations
\* and early wake-ups race.
THEOREM TimeoutsHold == Spec => []TimeoutsBelongToTheirWait
PROOF
<1>1. TimeInv => TimeoutsBelongToTheirWait
  BY DEF TimeInv, OneWakeup, OneTimerEvent, TimeoutsBelongToTheirWait
<1> QED
  BY <1>1, TimeInvariant, PTL
=============================================================================
