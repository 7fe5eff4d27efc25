----------------------------- MODULE CoreTiming -----------------------------
(***************************************************************************)
(* The event scheduler of core/core_timing.cpp: a queue sorted by time     *)
(* that the CPU thread owns, and a second one, behind a lock and a flag,   *)
(* that other host threads append to.  The lists are sequences of nodes,   *)
(* recycled through two pools.                                             *)
(*                                                                         *)
(* The CPU thread runs Advance or Idle as separate steps (`pc`); a host    *)
(* thread's ScheduleEvent_Threadsafe is three steps, as it reads the clock *)
(* and sets the flag that the CPU thread uses without the lock.            *)
(***************************************************************************)
EXTENDS Integers, Sequences, FiniteSets, SequencesExt

CONSTANTS Node,        \* event structures that can be allocated
          Host,        \* host threads other than the CPU thread
          Type,        \* event types (with their user data)
          Delays,      \* cyclesIntoFuture of new events
          MaxIdle,     \* argument of Idle
          MaxTime,     \* bound: the clock stops there
          MaxBorrowed, \* bound: allocatedTsEvents, which Shutdown does not reset
          MaxCalls,    \* bound: calls a callback makes
          MayRestore,  \* whether save states are written and read
          MayRestart,  \* whether the emulator is shut down and started again
          None

VARIABLES first,        \* the CPU thread's queue
          tsFirst,      \* the other threads' queue
          eventPool, eventTsPool, allocatedTsEvents,
          hasTsEvents,
          globalTimer,
          pc,           \* of the CPU thread
          current,      \* event whose callback runs
          calls,        \* that the callback may still make
          lock,         \* holder of externalEventSection
          hand, hostpc, \* of each host thread: its new node, its step
          file          \* the save state: time, queues

queues == <<first, tsFirst, eventPool, eventTsPool, allocatedTsEvents>>
cpu    == <<pc, current, calls>>
hosts  == <<hand, hostpc>>
vars   == <<queues, hasTsEvents, globalTimer, cpu, lock, hosts, file>>

\* An event and the node that holds it; ts: a host thread scheduled it.
TimedEvent == [node : Node, time : 0 .. MaxTime, type : Type, ts : BOOLEAN]

Nodes(q) == [i \in DOMAIN q |-> q[i].node]
Placed == Nodes(first) \o Nodes(tsFirst) \o eventPool \o eventTsPool
            \o Nodes(SetToSeq(({current} \cup Range(hand)) \ {None}))
Fresh  == Node \ Range(Placed)

Init ==
  /\ first = <<>> /\ tsFirst = <<>> /\ eventPool = <<>> /\ eventTsPool = <<>>
  /\ allocatedTsEvents = 0
  /\ hasTsEvents = FALSE
  /\ globalTimer = 0
  /\ pc = "run" /\ current = None /\ calls = 0
  /\ lock = None
  /\ hand = [h \in Host |-> None] /\ hostpc = [h \in Host |-> "out"]
  /\ file = <<>>

-----------------------------------------------------------------------------
AppendEvent(q, e) == Append(q, e)   \* mutant

\* AddEventToQueue: before the first event that is later, after its equals.
AddEventToQueue(q, e) ==
  LET later == SelectInSubSeq(q, 1, Len(q), LAMBDA x : e.time < x.time)
  IN  IF later = 0 THEN Append(q, e) ELSE InsertAt(q, later, e)

\* The calls of the CPU thread, made by emulated code or by a callback.
MayCall ==
  \/ pc = "run" /\ UNCHANGED calls
  \/ pc = "callback" /\ calls > 0 /\ calls' = calls - 1

ScheduleEvent(delay, type) ==
  /\ MayCall
  /\ globalTimer + delay <= MaxTime
  /\ eventPool = <<>> => Fresh # {}
  /\ LET n == IF eventPool = <<>> THEN CHOOSE m \in Fresh : TRUE ELSE Head(eventPool)
     IN  /\ first' = AddEventToQueue(first, [node |-> n, time |-> globalTimer + delay,
                                              type |-> type, ts |-> FALSE])
         /\ eventPool' = IF eventPool = <<>> THEN <<>> ELSE Tail(eventPool)
  /\ UNCHANGED <<tsFirst, eventTsPool, allocatedTsEvents, hasTsEvents, globalTimer,
                 pc, current, lock, hosts, file>>

OfType(q, type) == SelectSeq(q, LAMBDA e : e.type = type)
Others(q, type) == SelectSeq(q, LAMBDA e : e.type # type)

\* UnscheduleEvent and RemoveEvent: the freed nodes go to the pool one by one.
RemoveEvent(type) ==
  /\ MayCall
  /\ first' = Others(first, type)
  /\ eventPool' = Nodes(Reverse(OfType(first, type))) \o eventPool
  /\ UNCHANGED <<tsFirst, eventTsPool, allocatedTsEvents, hasTsEvents, globalTimer,
                 pc, current, lock, hosts, file>>

AllocatedToNobody(type) == 0   \* mutant

Allocated(type) == allocatedTsEvents - Len(OfType(tsFirst, type))

\* UnscheduleThreadsafeEvent and RemoveThreadsafeEvent, under the lock; they
\* return at once from an empty queue.
RemoveThreadsafeEvent(type) ==
  /\ MayCall /\ lock = None /\ tsFirst # <<>>
  /\ tsFirst' = Others(tsFirst, type)
  /\ eventTsPool' = Nodes(Reverse(OfType(tsFirst, type))) \o eventTsPool
  /\ allocatedTsEvents' = Allocated(type)
  /\ UNCHANGED <<first, eventPool, hasTsEvents, globalTimer, pc, current, lock,
                 hosts, file>>

\* ClearPendingEvents, for exit or state load.
ClearPendingEvents ==
  /\ pc = "run"
  /\ first' = <<>>
  /\ eventPool' = Nodes(Reverse(first)) \o eventPool
  /\ UNCHANGED <<tsFirst, eventTsPool, allocatedTsEvents, hasTsEvents, globalTimer,
                 cpu, lock, hosts, file>>

-----------------------------------------------------------------------------
(* ScheduleEvent_Threadsafe *)

TsLock(h, delay, type) ==
  /\ hostpc[h] = "out" /\ lock = None /\ allocatedTsEvents < MaxBorrowed
  /\ globalTimer + delay <= MaxTime
  /\ eventTsPool = <<>> => Fresh # {}
  /\ LET n == IF eventTsPool = <<>> THEN CHOOSE m \in Fresh : TRUE ELSE Head(eventTsPool)
     IN  /\ hand' = [hand EXCEPT ![h] = [node |-> n, time |-> globalTimer + delay,
                                          type |-> type, ts |-> TRUE]]
         /\ eventTsPool' = IF eventTsPool = <<>> THEN <<>> ELSE Tail(eventTsPool)
  /\ allocatedTsEvents' = allocatedTsEvents + 1
  /\ lock' = h
  /\ hostpc' = [hostpc EXCEPT ![h] = "append"]
  /\ UNCHANGED <<first, tsFirst, eventPool, hasTsEvents, globalTimer, cpu, file>>

TsAppend(h) ==
  /\ hostpc[h] = "append"
  /\ tsFirst' = Append(tsFirst, hand[h])
  /\ hand' = [hand EXCEPT ![h] = None]
  /\ hostpc' = [hostpc EXCEPT ![h] = "flag"]
  /\ UNCHANGED <<first, eventPool, eventTsPool, allocatedTsEvents, hasTsEvents, globalTimer,
                 cpu, lock, file>>

TsUnlock(h) ==   \* mutant
  /\ hostpc[h] = "flag"
  /\ lock' = None
  /\ hostpc' = [hostpc EXCEPT ![h] = "out"]
  /\ UNCHANGED <<queues, hasTsEvents, globalTimer, cpu, hand, file>>

TsFlag(h) ==
  /\ hostpc[h] = "flag"
  /\ hasTsEvents' = TRUE
  /\ lock' = None
  /\ hostpc' = [hostpc EXCEPT ![h] = "out"]
  /\ UNCHANGED <<queues, globalTimer, cpu, hand, file>>

-----------------------------------------------------------------------------
(* Advance and Idle *)

Tick ==
  /\ pc = "run"
  /\ globalTimer' = IF globalTimer < MaxTime THEN globalTimer + 1 ELSE globalTimer
  /\ pc' = "check"
  /\ UNCHANGED <<queues, hasTsEvents, current, calls, lock, hosts, file>>

IdlePastEvents == MaxIdle   \* mutant

\* Idle never passes the first event of the CPU thread's queue.
IdleCycles ==
  IF first = <<>> THEN MaxIdle
  ELSE LET next == Head(first).time - globalTimer
       IN  IF next <= 0 THEN 0 ELSE IF next < MaxIdle THEN next ELSE MaxIdle

Idle ==
  /\ pc = "run"
  /\ globalTimer' = IF globalTimer + IdleCycles <= MaxTime THEN globalTimer + IdleCycles
                    ELSE MaxTime
  /\ pc' = "check"
  /\ UNCHANGED <<queues, hasTsEvents, current, calls, lock, hosts, file>>

\* The flag is tested, and cleared before the lock is taken.
Check ==
  /\ pc = "check"
  /\ pc' = IF hasTsEvents THEN "move" ELSE "process"
  /\ hasTsEvents' = FALSE
  /\ UNCHANGED <<queues, globalTimer, current, calls, lock, hosts, file>>

RecycleAll == Len(eventPool)   \* mutant

Recycled == IF allocatedTsEvents < Len(eventPool) THEN allocatedTsEvents ELSE Len(eventPool)

\* MoveEvents under the lock.
MoveEvents ==
  /\ pc = "move" /\ lock = None
  /\ first' = FoldLeft(AddEventToQueue, first, tsFirst)
  /\ tsFirst' = <<>>
  /\ eventPool' = SubSeq(eventPool, Recycled + 1, Len(eventPool))
  /\ eventTsPool' = Reverse(SubSeq(eventPool, 1, Recycled)) \o eventTsPool
  /\ allocatedTsEvents' = allocatedTsEvents - Recycled
  /\ pc' = "process"
  /\ UNCHANGED <<hasTsEvents, globalTimer, current, calls, lock, hosts, file>>

\* ProcessFifoWaitEvents takes the event out before its callback runs ...
Callback ==
  /\ pc = "process" /\ first # <<>> /\ Head(first).time <= globalTimer
  /\ current' = Head(first)
  /\ first' = Tail(first)
  /\ calls' = MaxCalls
  /\ pc' = "callback"
  /\ UNCHANGED <<tsFirst, eventPool, eventTsPool, allocatedTsEvents, hasTsEvents,
                 globalTimer, lock, hosts, file>>

\* ... and frees it afterwards.
CallbackReturns ==
  /\ pc = "callback"
  /\ eventPool' = <<current.node>> \o eventPool
  /\ current' = None /\ calls' = 0
  /\ pc' = "process"
  /\ UNCHANGED <<first, tsFirst, eventTsPool, allocatedTsEvents, hasTsEvents, globalTimer,
                 lock, hosts, file>>

ProcessedClearsFlag ==   \* mutant
  /\ pc = "process"
  /\ first # <<>> => Head(first).time > globalTimer
  /\ pc' = "run"
  /\ hasTsEvents' = FALSE
  /\ UNCHANGED <<queues, globalTimer, current, calls, lock, hosts, file>>

Processed ==
  /\ pc = "process"
  /\ first # <<>> => Head(first).time > globalTimer
  /\ pc' = "run"
  /\ UNCHANGED <<queues, hasTsEvents, globalTimer, current, calls, lock, hosts, file>>

-----------------------------------------------------------------------------
(* Save states and restarts *)

\* DoState when it writes: the queues and the clock, not the flag.
SaveState ==
  /\ MayRestore /\ pc = "run" /\ lock = None
  /\ file' = <<[time |-> globalTimer, first |-> first, tsFirst |-> tsFirst]>>
  /\ UNCHANGED <<queues, hasTsEvents, globalTimer, cpu, lock, hosts>>

\* The file is read by a program that has just started.
LoadState ==
  /\ MayRestore /\ file # <<>> /\ pc = "run" /\ lock = None
  /\ first' = file[1].first /\ tsFirst' = file[1].tsFirst
  /\ eventPool' = <<>> /\ eventTsPool' = <<>>
  /\ allocatedTsEvents' = Len(file[1].tsFirst)
  /\ hasTsEvents' = FALSE
  /\ globalTimer' = file[1].time
  /\ UNCHANGED <<cpu, lock, hosts, file>>

\* Shutdown empties both queues; the host threads go on.
Shutdown ==
  /\ MayRestart /\ pc = "run" /\ lock = None
  /\ first' = <<>> /\ tsFirst' = <<>> /\ eventPool' = <<>> /\ eventTsPool' = <<>>
  /\ allocatedTsEvents' = allocatedTsEvents - Recycled
  /\ hasTsEvents' = FALSE
  /\ pc' = "down"
  /\ UNCHANGED <<globalTimer, current, calls, lock, hosts, file>>

\* CoreTiming::Init
Restart ==
  /\ pc = "down"
  /\ globalTimer' = 0
  /\ hasTsEvents' = FALSE
  /\ pc' = "run"
  /\ UNCHANGED <<queues, current, calls, lock, hosts, file>>

-----------------------------------------------------------------------------
CpuStep == Tick \/ Idle \/ Check \/ MoveEvents \/ Callback \/ CallbackReturns \/ Processed
HostStep(h) == TsAppend(h) \/ TsFlag(h)

Next ==
  \/ CpuStep
  \/ \E t \in Type : \/ \E d \in Delays : ScheduleEvent(d, t)
                     \/ RemoveEvent(t) \/ RemoveThreadsafeEvent(t)
  \/ ClearPendingEvents
  \/ \E h \in Host : \/ \E d \in Delays, t \in Type : TsLock(h, d, t)
                     \/ HostStep(h)
  \/ SaveState \/ LoadState \/ Shutdown \/ Restart

Spec == Init /\ [][Next]_vars

\* The emulation loop and a host thread inside the lock keep running.
FairSpec == Spec /\ WF_vars(Tick) /\ WF_vars(Check) /\ SF_vars(MoveEvents)
                 /\ WF_vars(Callback) /\ WF_vars(CallbackReturns) /\ WF_vars(Processed)
                 /\ \A h \in Host : WF_vars(HostStep(h))

-----------------------------------------------------------------------------
\* Well-typed states; the count of borrowed nodes never goes below zero.
TypeOK ==
  /\ {first, tsFirst} \subseteq Seq(TimedEvent) /\ {eventPool, eventTsPool} \subseteq Seq(Node)
  /\ allocatedTsEvents \in Nat
  /\ hasTsEvents \in BOOLEAN
  /\ globalTimer \in 0 .. MaxTime
  /\ pc \in {"run", "check", "move", "process", "callback", "down"}
  /\ current \in TimedEvent \cup {None} /\ calls \in 0 .. MaxCalls
  /\ lock \in Host \cup {None}
  /\ hand \in [Host -> TimedEvent \cup {None}] /\ hostpc \in [Host -> {"out", "append", "flag"}]

\* A node is in one place: a queue, a pool, the hand of a host thread or a
\* running callback.  Nodes travel from the host threads' pool through both
\* queues to the CPU thread's pool and back (core_timing.cpp:499); one that
\* is freed twice would join two lists.  The count that limits the way back
\* covers the nodes host threads hold.
NodesInOnePlace ==
  /\ IsInjective(Placed)
  /\ Len(tsFirst) + Cardinality({h \in Host : hand[h] # None}) <= allocatedTsEvents

\* Events run in the order of their times, also those a host thread scheduled
\* with a clock it read a while ago: the queue is sorted (core_timing.cpp:231),
\* and an event waits in it only if it is not due or the CPU thread has not
\* come to it yet.
EventsInOrder ==
  /\ \A i, j \in DOMAIN first : i < j => first[i].time <= first[j].time
  /\ pc = "callback" => current.time <= globalTimer

\* An event of the CPU thread is at most one cycle late, even when Idle skips
\* cycles (core_timing.cpp:538): Idle stops at the next event.
NeverSkipped ==
  \A e \in Range(first) \cup ({current} \ {None}) : ~ e.ts => e.time >= globalTimer - 1

\* core_timing.cpp:56 calls the flag an "Optimization to skip MoveEvents when
\* possible": with an event in the second queue the flag is set, is about to
\* be set by the thread that appended it, or was seen by the CPU thread, which
\* is on its way to the queue (core_timing.cpp:487).
FlagCoversQueue ==
  tsFirst # <<>> => \/ hasTsEvents \/ pc = "move"
                    \/ \E h \in Host : hostpc[h] = "flag"

\* An event handed over by a host thread reaches the CPU thread's queue.
HostEventsArrive ==
  \A n \in Node : n \in Range(Nodes(tsFirst)) ~> n \notin Range(Nodes(tsFirst))
=============================================================================
