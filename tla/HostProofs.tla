------------------------------ MODULE HostProofs ------------------------------
(***************************************************************************)
(* Work that is shared with other threads of the host, for any number of   *)
(* threads, tasks, events and bytes.                                       *)
(*                                                                         *)
(* Worker threads: the counts of queued and finished tasks are kept without *)
(* one lock around both.  That the owner returns only when everything has  *)
(* run needs that every task queued is in the queue, in the hands of one    *)
(* worker, or counted as done.                                              *)
(*                                                                         *)
(* Core timing: the flag that lets the CPU thread skip the other threads'   *)
(* queue is set and cleared outside the lock.  The module CoreTiming is the *)
(* instance T.                                                              *)
(*                                                                         *)
(* RomFS reading: that a read returns the bytes of the file, whatever lines *)
(* were reused before, needs that no page and no line is listed twice, that *)
(* the line of a listed page holds its bytes unless it is being filled or   *)
(* the host failed to fill it, and that only the emulation thread is in the *)
(* cache.                                                                   *)
(***************************************************************************)
EXTENDS ThreadWorker, RomFsReader, FiniteSetTheorems, TLAPS

CONSTANTS Node, Host, Type, Delays, MaxIdle, MaxTime, MaxBorrowed, MaxCalls,   \* CoreTiming
          MayRestore, MayRestart, None
VARIABLES first, tsFirst, eventPool, eventTsPool, allocatedTsEvents, hasTsEvents,
          globalTimer, pc, current, calls, lock, hand, hostpc, file

T == INSTANCE CoreTiming

-----------------------------------------------------------------------------
(***************************************************************************)
(* Worker threads.                                                         *)
(***************************************************************************)
Busy == {w \in Worker : worker[w] = "runs"}

WorkerTypes ==
  /\ worker \in [Worker -> {"loop", "waits", "woken", "runs", "leaves", "announces", "gone"}]
  /\ requests \in Nat /\ work_scheduled \in Nat /\ work_done \in Nat /\ workers_stopped \in Nat

\* A task is queued, being run or done.
TasksAccounted == work_scheduled = requests + work_done + Cardinality(Busy)

\* Workers stop only when asked to.
StopsOnRequest ==
  ~ stop => workers_stopped = 0 /\ \A w \in Worker : worker[w] \notin {"leaves", "announces", "gone"}

ReturnedIsDone == owner = "returned" /\ ~ stop => work_done >= work_scheduled

WorkerInv == WorkerTypes /\ TasksAccounted /\ StopsOnRequest /\ ReturnedIsDone

\* One worker starts or stops being busy, or neither.
LEMMA BusyChanges ==
  ASSUME IsFiniteSet(Worker), WorkerTypes, NEW w \in Worker, NEW x,
         worker' = [worker EXCEPT ![w] = x]
  PROVE  /\ Cardinality(Busy) \in Nat
         /\ worker[w] # "runs" /\ x # "runs" => Cardinality(Busy') = Cardinality(Busy)
         /\ worker[w] # "runs" /\ x = "runs" => Cardinality(Busy') = Cardinality(Busy) + 1
         /\ worker[w] = "runs" /\ x # "runs" => Cardinality(Busy') = Cardinality(Busy) - 1
PROOF
<1>1. IsFiniteSet(Busy) /\ Cardinality(Busy) \in Nat
  BY FS_Subset, FS_CardinalityType DEF Busy
<1>2. worker'[w] = x /\ \A v \in Worker : v # w => worker'[v] = worker[v]
  BY DEF WorkerTypes
<1>3. ASSUME worker[w] # "runs", x # "runs" PROVE Busy' = Busy
  BY <1>2, <1>3 DEF Busy
<1>4. ASSUME worker[w] # "runs", x = "runs" PROVE Cardinality(Busy') = Cardinality(Busy) + 1
  <2>1. Busy' = Busy \cup {w} /\ w \notin Busy
    BY <1>2, <1>4 DEF Busy
  <2> QED
    BY <1>1, <2>1, FS_AddElement
<1>5. ASSUME worker[w] = "runs", x # "runs" PROVE Cardinality(Busy') = Cardinality(Busy) - 1
  <2>1. Busy' = Busy \ {w} /\ w \in Busy
    BY <1>2, <1>5 DEF Busy
  <2> QED
    BY <1>1, <2>1, FS_RemoveElement
<1> QED
  BY <1>1, <1>3, <1>4, <1>5

\* Steps that start and finish no task: the counts stay, and the owner returns
\* only when they say so.
LEMMA CountsKept ==
  ASSUME WorkerInv, WorkerTypes', StopsOnRequest', Cardinality(Busy') = Cardinality(Busy),
         UNCHANGED <<requests, work_scheduled, work_done>>, stop => stop',
         owner' = "returned" /\ ~ stop' => owner = "returned" \/ work_done >= work_scheduled
  PROVE  WorkerInv'
PROOF
  BY DEF WorkerInv, TasksAccounted, ReturnedIsDone

\* Every step of a worker or of the owner keeps the account of tasks.
LEMMA WorkerInvNext ==
  ASSUME IsFiniteSet(Worker), Worker # {}, WorkerInv, [WorkersNext]_worker_vars
  PROVE  WorkerInv'
PROOF
<1> USE DEF WorkerInv
<1>1. ASSUME NEW w \in Worker, NEW x \in {"loop", "waits", "woken", "leaves", "announces", "gone"},
             worker' = [worker EXCEPT ![w] = x], worker[w] # "runs",
             UNCHANGED <<requests, work_scheduled, work_done, stop>>,
             owner' = owner \/ owner' = "woken",
             x \in {"leaves", "announces", "gone"} => stop,
             workers_stopped' = workers_stopped \/ (stop /\ workers_stopped' = workers_stopped + 1)
      PROVE  WorkerInv'
  <2>1. Cardinality(Busy') = Cardinality(Busy)
    BY <1>1, BusyChanges
  <2>2. WorkerTypes'
    BY <1>1 DEF WorkerTypes
  <2>3. StopsOnRequest'
    BY <1>1 DEF StopsOnRequest, WorkerTypes
  <2>4. owner' = "returned" => owner = "returned"
    BY <1>1
  <2> QED
    BY <1>1, <2>1, <2>2, <2>3, <2>4, CountsKept
<1>2. ASSUME NEW w \in Worker, worker' = [worker EXCEPT ![w] = "runs"], worker[w] # "runs",
             requests > 0, requests' = requests - 1,
             UNCHANGED <<work_scheduled, work_done, workers_stopped, stop>>,
             owner' = owner \/ owner' = "woken", ~ stop
      PROVE  WorkerInv'
  <2>1. Cardinality(Busy') = Cardinality(Busy) + 1 /\ Cardinality(Busy) \in Nat
    BY <1>2, BusyChanges
  <2>2. WorkerTypes'
    BY <1>2 DEF WorkerTypes
  <2>3. StopsOnRequest'
    BY <1>2 DEF StopsOnRequest, WorkerTypes
  <2>4. TasksAccounted'
    BY <1>2, <2>1 DEF TasksAccounted, WorkerTypes
  <2>5. ReturnedIsDone'
    BY <1>2 DEF ReturnedIsDone
  <2> QED
    BY <2>2, <2>3, <2>4, <2>5
<1>3. ASSUME NEW w \in Worker, Finish(w) PROVE WorkerInv'
  <2>1. /\ worker[w] = "runs" /\ worker' = [worker EXCEPT ![w] = "loop"]
        /\ work_done' = work_done + 1
        /\ UNCHANGED <<requests, owner, work_scheduled, workers_stopped, stop>>
    BY <1>3 DEF Finish
  <2>2. Cardinality(Busy') = Cardinality(Busy) - 1 /\ Cardinality(Busy) \in Nat
    <3>1. PICK x : x = "loop"
      OBVIOUS
    <3>2. worker' = [worker EXCEPT ![w] = x] /\ x # "runs"
      BY <2>1, <3>1
    <3> QED
      BY <2>1, <3>2, BusyChanges
  <2>3. WorkerTypes'
    BY <2>1 DEF WorkerTypes
  <2>4. StopsOnRequest'
    BY <2>1 DEF StopsOnRequest, WorkerTypes
  <2>5. TasksAccounted'
    BY <2>1, <2>2 DEF TasksAccounted, WorkerTypes
  <2>6. ReturnedIsDone'
    BY <2>1 DEF ReturnedIsDone, WorkerTypes
  <2> QED
    BY <2>3, <2>4, <2>5, <2>6
<1>4. ASSUME NEW w \in Worker, Loop(w) PROVE WorkerInv'
  <2>1. owner' = owner \/ owner' = "woken"
    BY <1>4 DEF Loop, Announced
  <2> QED
    BY <1>1, <1>2, <1>4, <2>1 DEF Loop
<1>5. ASSUME NEW w \in Worker, Awake(w) PROVE WorkerInv'
  <2>1. CASE ~ stop /\ requests > 0
    BY <1>2, <1>5, <2>1 DEF Awake
  <2>2. CASE stop
    <3>1. worker' = [worker EXCEPT ![w] = "leaves"] /\ UNCHANGED requests
      BY <1>5, <2>2 DEF Awake
    <3> QED
      BY <1>1, <1>5, <2>2, <3>1 DEF Awake
  <2>3. CASE ~ stop /\ ~ (requests > 0)
    <3>1. worker' = [worker EXCEPT ![w] = "waits"] /\ UNCHANGED requests
      BY <1>5, <2>3 DEF Awake
    <3> QED
      BY <1>1, <1>5, <2>3, <3>1 DEF Awake
  <2> QED
    BY <2>1, <2>2, <2>3
<1>6. ASSUME NEW w \in Worker, StopRequested(w) PROVE WorkerInv'
  BY <1>1, <1>6 DEF StopRequested
<1>7. ASSUME NEW w \in Worker, worker[w] \in {"leaves", "announces"} PROVE stop
  BY <1>7 DEF StopsOnRequest
<1>8. ASSUME NEW w \in Worker, Leave(w) PROVE WorkerInv'
  BY <1>1, <1>7, <1>8 DEF Leave
<1>9. ASSUME NEW w \in Worker, Gone(w) PROVE WorkerInv'
  <2>1. owner' = owner \/ owner' = "woken"
    BY <1>9 DEF Gone, Announced
  <2> QED
    BY <1>1, <1>7, <1>9, <2>1 DEF Gone
<1>10. ASSUME QueueWork PROVE WorkerInv'
  <2>1. Busy' = Busy /\ Cardinality(Busy) \in Nat
    BY <1>10, FS_Subset, FS_CardinalityType DEF QueueWork, Busy
  <2>2. WorkerTypes' /\ StopsOnRequest'
    BY <1>10 DEF QueueWork, WorkerTypes, StopsOnRequest
  <2>3. TasksAccounted' /\ ReturnedIsDone'
    BY <1>10, <2>1 DEF QueueWork, TasksAccounted, WorkerTypes, ReturnedIsDone
  <2> QED
    BY <2>2, <2>3
<1>11. ASSUME Notify PROVE WorkerInv'
  <2>1. CASE \E w \in Worker : worker[w] = "waits" /\ worker' = [worker EXCEPT ![w] = "woken"]
    <3>1. PICK w \in Worker : worker[w] = "waits" /\ worker' = [worker EXCEPT ![w] = "woken"]
      BY <2>1
    <3>2. Cardinality(Busy') = Cardinality(Busy)
      <4>1. PICK x : x = "woken"
        OBVIOUS
      <4>2. worker' = [worker EXCEPT ![w] = x] /\ x # "runs" /\ worker[w] # "runs"
        BY <3>1, <4>1
      <4> QED
        BY <4>2, BusyChanges
    <3>3. WorkerTypes'
      BY <1>11, <3>1 DEF Notify, WorkerTypes
    <3>4. StopsOnRequest'
      BY <1>11, <3>1 DEF Notify, WorkerTypes, StopsOnRequest
    <3> QED
      BY <1>11, <3>2, <3>3, <3>4, CountsKept DEF Notify
  <2>2. CASE UNCHANGED worker
    <3>1. Busy' = Busy
      BY <2>2 DEF Busy
    <3>2. WorkerTypes' /\ StopsOnRequest'
      BY <1>11, <2>2 DEF Notify, WorkerTypes, StopsOnRequest
    <3> QED
      BY <1>11, <3>1, <3>2, CountsKept DEF Notify
  <2> QED
    BY <1>11, <2>1, <2>2 DEF Notify
<1>12. ASSUME UNCHANGED <<requests, worker, work_scheduled, work_done, workers_stopped, stop>>,
              owner' = "returned" => owner = "returned" \/ Done
       PROVE  WorkerInv'
  <2>1. Busy' = Busy
    BY <1>12 DEF Busy
  <2>2. WorkerTypes' /\ StopsOnRequest'
    BY <1>12 DEF WorkerTypes, StopsOnRequest
  <2>3. Cardinality(Worker) \in Nat \ {0}
    BY FS_CardinalityType, FS_EmptySet
  <2>4. Done /\ ~ stop => work_done >= work_scheduled
    BY <2>3 DEF Done, StopsOnRequest
  <2> QED
    BY <1>12, <2>1, <2>2, <2>4, CountsKept
<1>13. ASSUME WaitForRequests \/ Sleep \/ Continue \/ UNCHANGED worker_vars PROVE WorkerInv'
  BY <1>12, <1>13 DEF WaitForRequests, Sleep, Continue, worker_vars
<1>14. ASSUME RequestStop PROVE WorkerInv'
  <2>1. Busy' = Busy
    BY <1>14 DEF RequestStop, Busy
  <2>2. WorkerTypes' /\ StopsOnRequest'
    BY <1>14 DEF RequestStop, WorkerTypes, StopsOnRequest
  <2> QED
    BY <1>14, <2>1, <2>2, CountsKept DEF RequestStop
<1> QED
  BY <1>3, <1>4, <1>5, <1>6, <1>8, <1>9, <1>10, <1>11, <1>13, <1>14 DEF WorkersNext, WorkerStep

\* WaitForRequests returns only when all queued work has been run to its end
\* (ReturnsWhenDone), although tasks are counted without the lock: for any number of
\* workers, one at least, and of tasks.
THEOREM ReturnsWhenDoneHolds ==
  ASSUME IsFiniteSet(Worker), Worker # {}
  PROVE  WorkersSpec => []ReturnsWhenDone
PROOF
<1>1. WorkersInit => WorkerInv
  <2> SUFFICES ASSUME WorkersInit PROVE WorkerInv
    OBVIOUS
  <2>1. Busy = {}
    BY DEF WorkersInit, Busy
  <2>2. Cardinality(Busy) = 0
    BY <2>1, FS_EmptySet
  <2> QED
    BY <2>2 DEF WorkersInit, WorkerInv, WorkerTypes, TasksAccounted, StopsOnRequest, ReturnedIsDone
<1>2. WorkerInv /\ [WorkersNext]_worker_vars => WorkerInv'
  BY WorkerInvNext
<1>3. WorkerInv => ReturnsWhenDone
  <2> SUFFICES ASSUME WorkerInv, owner = "returned", ~ stop
               PROVE  requests = 0 /\ \A w \in Worker : worker[w] # "runs"
    BY DEF ReturnsWhenDone
  <2>1. IsFiniteSet(Busy) /\ Cardinality(Busy) \in Nat
    BY FS_Subset, FS_CardinalityType DEF Busy
  <2>2. requests = 0 /\ Cardinality(Busy) = 0
    BY <2>1 DEF WorkerInv, WorkerTypes, TasksAccounted, ReturnedIsDone
  <2>3. Busy = {}
    BY <2>1, <2>2, FS_EmptySet
  <2> QED
    BY <2>2, <2>3 DEF Busy
<1> QED
  BY <1>1, <1>2, <1>3, PTL DEF WorkersSpec

-----------------------------------------------------------------------------
(***************************************************************************)
(* The flag of core timing.                                                *)
(***************************************************************************)
FlagInv ==
  /\ hostpc \in [Host -> {"out", "append", "flag"}]
  /\ ~ MayRestart => pc # "down"
  /\ T!FlagCoversQueue

\* Every step of the CPU thread and of a host thread keeps the flag on the queue.
LEMMA FlagInvNext ==
  ASSUME ~ MayRestore, ~ MayRestart, FlagInv, [T!Next]_(T!vars)
  PROVE  FlagInv'
PROOF
<1>1. ASSUME UNCHANGED <<tsFirst, hasTsEvents, hostpc>>, pc # "move", pc' # "down" PROVE FlagInv'
  BY <1>1 DEF FlagInv, T!FlagCoversQueue
<1>2. ASSUME T!Tick \/ T!Idle \/ T!Callback \/ T!CallbackReturns \/ T!Processed PROVE FlagInv'
  BY <1>1, <1>2 DEF T!Tick, T!Idle, T!Callback, T!CallbackReturns, T!Processed, T!queues, T!hosts
<1>3. ASSUME T!Check PROVE FlagInv'
  BY <1>3 DEF T!Check, T!queues, T!hosts, FlagInv, T!FlagCoversQueue
<1>4. ASSUME T!MoveEvents PROVE FlagInv'
  BY <1>4 DEF T!MoveEvents, T!hosts, FlagInv, T!FlagCoversQueue
<1>5. ASSUME NEW t \in Type, T!RemoveEvent(t) \/ \E d \in Delays : T!ScheduleEvent(d, t)
      PROVE  FlagInv'
  <2>1. UNCHANGED <<tsFirst, hasTsEvents, hostpc, pc>> /\ T!MayCall
    BY <1>5 DEF T!RemoveEvent, T!ScheduleEvent, T!hosts
  <2>2. pc \in {"run", "callback"}
    BY <2>1 DEF T!MayCall
  <2> QED
    BY <1>1, <2>1, <2>2
<1>6. ASSUME NEW t \in Type, T!RemoveThreadsafeEvent(t) PROVE FlagInv'
  <2>1. tsFirst # <<>> /\ UNCHANGED <<hasTsEvents, hostpc, pc>>
    BY <1>6 DEF T!RemoveThreadsafeEvent, T!hosts
  <2> QED
    BY <2>1 DEF FlagInv, T!FlagCoversQueue
<1>7. ASSUME T!ClearPendingEvents PROVE FlagInv'
  BY <1>1, <1>7 DEF T!ClearPendingEvents, T!cpu, T!hosts
<1>8. ASSUME NEW h \in Host, NEW d \in Delays, NEW t \in Type, T!TsLock(h, d, t) PROVE FlagInv'
  <2>1. /\ hostpc[h] = "out" /\ hostpc' = [hostpc EXCEPT ![h] = "append"]
        /\ UNCHANGED <<tsFirst, hasTsEvents, pc>>
    BY <1>8 DEF T!TsLock, T!cpu
  <2> QED
    BY <2>1 DEF FlagInv, T!FlagCoversQueue
<1>9. ASSUME NEW h \in Host, T!TsAppend(h) PROVE FlagInv'
  <2>1. hostpc' = [hostpc EXCEPT ![h] = "flag"] /\ UNCHANGED pc
    BY <1>9 DEF T!TsAppend, T!cpu
  <2> QED
    BY <2>1 DEF FlagInv, T!FlagCoversQueue
<1>10. ASSUME NEW h \in Host, T!TsFlag(h) PROVE FlagInv'
  BY <1>10 DEF T!TsFlag, T!cpu, FlagInv, T!FlagCoversQueue
<1>11. ~ T!LoadState /\ ~ T!Shutdown /\ ~ T!SaveState /\ ~ T!Restart
  BY DEF T!LoadState, T!Shutdown, T!SaveState, T!Restart, FlagInv
<1>12. ASSUME UNCHANGED T!vars PROVE FlagInv'
  BY <1>12 DEF T!vars, T!queues, T!cpu, T!hosts, FlagInv, T!FlagCoversQueue
<1> QED
  BY <1>2, <1>3, <1>4, <1>5, <1>6, <1>7, <1>8, <1>9, <1>10, <1>11, <1>12
  DEF T!Next, T!CpuStep, T!HostStep

\* While the emulation runs, an event in the host threads' queue is announced
\* (FlagCoversQueue): the flag is set, about to be set, or was seen by the CPU
\* thread, which is on its way to the queue; for any number of host threads.  Loading
\* a state or restarting breaks it, as the README's table says.
THEOREM FlagCoversQueueHolds ==
  ASSUME ~ MayRestore, ~ MayRestart
  PROVE  T!Spec => []T!FlagCoversQueue
PROOF
<1>1. T!Init => FlagInv
  BY DEF T!Init, FlagInv, T!FlagCoversQueue
<1>2. FlagInv /\ [T!Next]_(T!vars) => FlagInv'
  BY FlagInvNext
<1>3. FlagInv => T!FlagCoversQueue
  BY DEF FlagInv
<1> QED
  BY <1>1, <1>2, <1>3, PTL DEF T!Spec

-----------------------------------------------------------------------------
(***************************************************************************)
(* RomFS reading.                                                          *)
(***************************************************************************)
\* What the parameters stand for; programs read inside the file.
RomFsParameters ==
  /\ Emu \notin Async /\ InBounds
  /\ LineSize \in Nat \ {0} /\ LineCount \in Nat \ {0} /\ MaxOffset \in Nat /\ MaxLength \in Nat
  /\ DataSize \in Nat /\ FileSize \in Nat /\ SizeMod \in Nat
  /\ DataSize <= FileSize /\ DataSize < SizeMod

\* n bytes from a place on are in one line.
InLine(from, n) == n \in Nat \ {0} /\ from + n <= OffsetToPage(from) + LineSize

\* The segments cut the bytes from one place to another, each in one line.
Cuts(segments, from, to) ==
  \/ segments = <<>> /\ from = to
  \/ \E n \in Nat : InLine(from, n) /\ segments = <<<<from, n>>>> /\ from + n = to
  \/ \E n \in Nat, m \in Nat :
       /\ InLine(from, n) /\ InLine(from + n, m) /\ from + n + m = to
       /\ segments = <<<<from, n>>, <<from + n, m>>>>

\* A thread has read k of its bytes, and has the others before it.
Reads(r) ==
  /\ r = [pc |-> r.pc, offset |-> r.offset, length |-> r.length, segments |-> r.segments,
          index |-> r.index, read_size |-> r.read_size, got |-> r.got, tainted |-> r.tainted]
  /\ r.offset \in Nat /\ r.length \in Nat /\ r.offset + r.length <= DataSize
  /\ r.pc \in {"idle", "done", "request", "fill", "copy"} /\ r.tainted \in BOOLEAN
  /\ r.pc \in {"idle", "done"} <=> r.segments = <<>>
  /\ \E k \in Nat : /\ Cuts(r.segments, r.offset + k, r.offset + r.length)
                    /\ ~ r.tainted => r.got = [i \in 1 .. k |-> r.offset + i - 1]

ReadersInv ==
  /\ DOMAIN reader = HostThread /\ reader = [t \in HostThread |-> reader[t]]
  /\ \A t \in HostThread : Reads(reader[t]) /\ (t # Emu => reader[t].pc \in {"idle", "done"})

\* No page and no line is listed twice, and lines are taken in order.
ListInv ==
  /\ m_list \in Seq(Nat \X (0 .. LineCount - 1)) /\ Len(m_list) <= LineCount
  /\ \A i \in 1 .. Len(m_list), j \in 1 .. Len(m_list) :
       i # j => m_list[i][1] # m_list[j][1] /\ m_list[i][2] # m_list[j][2]
  /\ Len(m_list) < LineCount => \A i \in 1 .. Len(m_list) : m_list[i][2] < Len(m_list)

\* A line holds the bytes of a page, as far as the file goes.
HoldsPage(line, page) == \A j \in 0 .. LineSize - 1 : page + j < FileSize => line[j] = page + j

LinesInv ==
  /\ m_array \in [0 .. LineCount - 1 -> [0 .. LineSize - 1 -> Int]]
  /\ \A i \in 1 .. Len(m_list) :
       m_list[i][1] \notin torn /\ ~ (i = 1 /\ reader[Emu].pc = "fill") =>
         HoldsPage(m_array[m_list[i][2]], m_list[i][1])

\* What the emulation thread knows about the line it fills or copies from.
EmuInv ==
  /\ reader[Emu].pc \in {"fill", "copy"} =>
       Len(m_list) > 0 /\ m_list[1] = <<PageOf(Emu), reader[Emu].index>>
  /\ reader[Emu].pc = "fill" => PageOf(Emu) \notin torn
  /\ reader[Emu].pc = "copy" /\ PageOf(Emu) \notin torn =>
       reader[Emu].read_size \in {LineSize, FileSize - PageOf(Emu)} /\ reader[Emu].read_size <= LineSize

RomFsInv == ReadersInv /\ ListInv /\ LinesInv /\ EmuInv

\* The quotient of a division with a remainder.
LEMMA Quotient ==
  ASSUME NEW n \in Nat \ {0}, NEW a \in Int, NEW r \in 0 .. n - 1, NEW x, x = n * a + r
  PROVE  x \div n = a
PROOF
<1> DEFINE q == x \div n
           s == x % n
<1>1. x \in Int
  OBVIOUS
<1>2. q \in Int /\ s \in 0 .. n - 1 /\ x = n * q + s
  BY <1>1
<1> HIDE DEF q, s
<1>3. PICK d \in Int : d = q - a
  BY <1>2
<1>4. n * d = n * q - n * a
  BY <1>2, <1>3
<1>5. n * d = r - s
  BY <1>2, <1>4
<1>6. d >= 1 => n * d >= n
  BY <1>3
<1>7. d <= -1 => n * d <= - n
  BY <1>3
<1>8. d = 0
  BY <1>2, <1>3, <1>5, <1>6, <1>7
<1> QED
  BY <1>2, <1>3, <1>8 DEF q

\* The page of a place, and the next page.
LEMMA Pages ==
  ASSUME RomFsParameters, NEW o \in Nat, NEW p, p = OffsetToPage(o)
  PROVE  /\ p \in Nat /\ p <= o /\ o < p + LineSize
         /\ OffsetToPage(o + LineSize) = p + LineSize
         /\ OffsetToPage(p + LineSize) = p + LineSize
PROOF
<1>1. PICK n \in Nat \ {0} : n = LineSize
  BY DEF RomFsParameters
<1>2. PICK q, r : q = o \div n /\ r = o % n
  OBVIOUS
<1>3. q \in Int /\ r \in 0 .. n - 1 /\ o = n * q + r
  BY <1>2
<1>4. p = n * q
  BY <1>1, <1>2, <1>3 DEF OffsetToPage
<1>5. q >= 0
  <2>1. q <= -1 => n * q <= - n
    BY <1>3
  <2> QED
    BY <1>3, <2>1
<1>6. n * q \in Nat
  BY <1>3, <1>5
<1>7. n * (q + 1) = n * q + n
  BY <1>3
<1>8. (o + n) \div n = q + 1
  <2>1. o + n = n * (q + 1) + r /\ q + 1 \in Int
    BY <1>3, <1>6, <1>7
  <2>2. PICK x : x = o + n
    OBVIOUS
  <2>3. x \div n = q + 1
    BY <1>3, <2>1, <2>2, Quotient
  <2> QED
    BY <2>2, <2>3
<1>9. (n * q + n) \div n = q + 1
  <2>1. n * q + n = n * (q + 1) + 0 /\ q + 1 \in Int /\ 0 \in 0 .. n - 1
    BY <1>3, <1>6, <1>7
  <2>2. PICK x : x = n * q + n
    OBVIOUS
  <2>3. x \div n = q + 1
    BY <2>1, <2>2, Quotient
  <2> QED
    BY <2>2, <2>3
<1>10. (q + 1) * n = n * q + n
  BY <1>3
<1>11. OffsetToPage(o + LineSize) = p + LineSize
  BY <1>1, <1>4, <1>8, <1>10 DEF OffsetToPage
<1>12. OffsetToPage(p + LineSize) = p + LineSize
  BY <1>1, <1>4, <1>9, <1>10 DEF OffsetToPage
<1>13. p \in Nat /\ p <= o /\ o < p + LineSize
  BY <1>1, <1>3, <1>4, <1>6
<1> QED
  BY <1>11, <1>12, <1>13

\* The lesser and the greater of two numbers.
LEMMA OfTwo ==
  ASSUME NEW a \in Int, NEW b \in Int
  PROVE  Min({a, b}) = (IF a <= b THEN a ELSE b) /\ Max({a, b}) = (IF a <= b THEN b ELSE a)
PROOF
<1>1. CASE a <= b
  <2>1. \A x \in {a, b} : (\A y \in {a, b} : x <= y) <=> x = a
    BY <1>1
  <2>2. \A x \in {a, b} : (\A y \in {a, b} : x >= y) <=> x = b
    BY <1>1
  <2> QED
    BY <1>1, <2>1, <2>2 DEF Min, Max
<1>2. CASE ~ (a <= b)
  <2>1. \A x \in {a, b} : (\A y \in {a, b} : x <= y) <=> x = b
    BY <1>2
  <2>2. \A x \in {a, b} : (\A y \in {a, b} : x >= y) <=> x = a
    BY <1>2
  <2> QED
    BY <1>2, <2>1, <2>2 DEF Min, Max
<1> QED
  BY <1>1, <1>2

\* A number that is not negative is the greater of itself and zero.
LEMMA NotNegative ==
  ASSUME NEW c \in Nat
  PROVE  Max({0, c}) = c
PROOF
<1>1. \A x \in {0, c} : (\A y \in {0, c} : x >= y) <=> x = c
  OBVIOUS
<1> QED
  BY <1>1 DEF Max

\* The bytes of a part of the file.
LEMMA BytesInside ==
  ASSUME RomFsParameters, NEW from \in Nat, NEW n \in Nat, from + n <= FileSize
  PROVE  Bytes(from, n) = [i \in 1 .. n |-> from + i - 1]
PROOF
<1>1. FileSize - from \in Int /\ n <= FileSize - from /\ FileSize \in Nat
  BY DEF RomFsParameters
<1>2. Min({n, FileSize - from}) = n
  BY <1>1, OfTwo
<1>3. Max({0, n}) = n
  BY NotNegative
<1> QED
  BY <1>2, <1>3 DEF Bytes

\* BreakupRead cuts a read that fits a line into pieces of lines.
LEMMA ReadIsCut ==
  ASSUME RomFsParameters, NEW o \in Nat, NEW l \in Nat
  PROVE  /\ l <= LineSize => Cuts(BreakupRead(o, l), o, o + l) /\ ~ TooBig(BreakupRead(o, l))
         /\ l > 0 => BreakupRead(o, l) # <<>>
         /\ l > LineSize => TooBig(BreakupRead(o, l))
PROOF
<1>1. PICK p : p = OffsetToPage(o)
  OBVIOUS
<1>2. /\ p \in Nat /\ p <= o /\ o < p + LineSize /\ LineSize \in Nat \ {0}
      /\ OffsetToPage(o + LineSize) = p + LineSize /\ OffsetToPage(p + LineSize) = p + LineSize
  BY <1>1, Pages DEF RomFsParameters
<1>3. PICK n \in Nat \ {0} : n = p + LineSize - o
  BY <1>2
<1>4. CASE l = 0
  <2>1. BreakupRead(o, l) = <<>>
    BY <1>4 DEF BreakupRead
  <2>2. Len(<<>>) # 1
    OBVIOUS
  <2> QED
    BY <1>2, <1>4, <2>1, <2>2 DEF Cuts, TooBig
<1>5. CASE l > LineSize
  <2>1. BreakupRead(o, l) = <<<<o, l>>>>
    BY <1>2, <1>5 DEF BreakupRead
  <2> QED
    BY <1>2, <1>5, <2>1 DEF TooBig
<1>6. CASE l > 0 /\ l <= LineSize /\ l <= n
  <2>1. BreakupRead(o, l) = <<<<o, l>>>>
    BY <1>2, <1>3, <1>6 DEF BreakupRead
  <2>2. InLine(o, l)
    BY <1>1, <1>2, <1>3, <1>6 DEF InLine
  <2>3. Cuts(<<<<o, l>>>>, o, o + l)
    BY <2>2 DEF Cuts
  <2>4. ~ TooBig(<<<<o, l>>>>)
    BY <1>2, <1>6 DEF TooBig
  <2> QED
    BY <1>2, <1>6, <2>1, <2>3, <2>4
<1>7. CASE l > 0 /\ l <= LineSize /\ l > n
  <2>1. PICK m \in Nat \ {0} : m = l - n
    BY <1>7
  <2>2. BreakupRead(o, l) = <<<<o, n>>, <<o + n, m>>>>
    BY <1>2, <1>3, <1>7, <2>1 DEF BreakupRead
  <2>3. InLine(o, n)
    BY <1>1, <1>2, <1>3 DEF InLine
  <2>4. o + n = p + LineSize /\ m <= LineSize
    BY <1>2, <1>3, <1>7, <2>1
  <2>5. InLine(o + n, m)
    BY <1>2, <2>1, <2>4 DEF InLine
  <2>6. o + n + m = o + l
    BY <2>1
  <2>7. Cuts(<<<<o, n>>, <<o + n, m>>>>, o, o + l)
    BY <2>3, <2>5, <2>6 DEF Cuts
  <2>8. ~ TooBig(<<<<o, n>>, <<o + n, m>>>>)
    BY DEF TooBig
  <2> QED
    BY <1>2, <1>7, <2>2, <2>7, <2>8
<1> QED
  BY <1>2, <1>3, <1>4, <1>5, <1>6, <1>7

\* The fields of a reader.
LEMMA ReaderFields ==
  ASSUME NEW pc0, NEW o, NEW l, NEW sg, NEW ix, NEW rs, NEW g, NEW ta, NEW r,
         r = [pc |-> pc0, offset |-> o, length |-> l, segments |-> sg, index |-> ix,
              read_size |-> rs, got |-> g, tainted |-> ta]
  PROVE  /\ r.pc = pc0 /\ r.offset = o /\ r.length = l /\ r.segments = sg /\ r.index = ix
         /\ r.read_size = rs /\ r.got = g /\ r.tainted = ta
PROOF
  OBVIOUS

\* A read that goes on in the cache: where it is, its line and what was read.
GoneOn(r, x, ix, rs) == [r EXCEPT !.pc = x, !.index = ix, !.read_size = rs]

\* It still reads the same bytes.
LEMMA ReadGoesOn ==
  ASSUME NEW r, Reads(r), r.pc \in {"request", "fill", "copy"}, NEW r2, NEW ix, NEW rs,
         NEW x \in {"request", "fill", "copy"}, r2 = GoneOn(r, x, ix, rs)
  PROVE  Reads(r2) /\ r2.pc = x /\ r2.index = ix /\ r2.read_size = rs /\ r2.segments = r.segments
PROOF
<1>1. PICK pc0, o, l, sg, ix0, rs0, g, ta :
        r = [pc |-> pc0, offset |-> o, length |-> l, segments |-> sg, index |-> ix0,
             read_size |-> rs0, got |-> g, tainted |-> ta]
  BY DEF Reads
<1>2. r2 = [pc |-> x, offset |-> o, length |-> l, segments |-> sg, index |-> ix,
            read_size |-> rs, got |-> g, tainted |-> ta]
  BY <1>1 DEF GoneOn
<1>3. /\ r2.pc = x /\ r2.index = ix /\ r2.read_size = rs /\ r2.segments = sg /\ r2.offset = o
      /\ r2.length = l /\ r2.got = g /\ r2.tainted = ta
  <2>1. PICK rr : rr = [pc |-> x, offset |-> o, length |-> l, segments |-> sg, index |-> ix,
                        read_size |-> rs, got |-> g, tainted |-> ta]
    OBVIOUS
  <2>2. /\ rr.pc = x /\ rr.index = ix /\ rr.read_size = rs /\ rr.segments = sg /\ rr.offset = o
        /\ rr.length = l /\ rr.got = g /\ rr.tainted = ta
    BY <2>1, ReaderFields
  <2>3. r2 = rr
    BY <1>2, <2>1
  <2> QED
    BY <2>2, <2>3
<1>4. r.segments = sg /\ r.offset = o /\ r.length = l /\ r.got = g /\ r.tainted = ta
  BY <1>1, ReaderFields
<1>5. r2 = [pc |-> r2.pc, offset |-> r2.offset, length |-> r2.length, segments |-> r2.segments,
            index |-> r2.index, read_size |-> r2.read_size, got |-> r2.got, tainted |-> r2.tainted]
  BY <1>2, <1>3
<1>6. r2.pc \in {"idle", "done"} <=> r2.segments = <<>>
  <2>1. r.pc \notin {"idle", "done"} /\ x \notin {"idle", "done"}
    OBVIOUS
  <2>2. r.segments # <<>>
    BY <2>1 DEF Reads
  <2> QED
    BY <1>3, <1>4, <2>1, <2>2
<1>7. \E k \in Nat : /\ Cuts(r2.segments, r2.offset + k, r2.offset + r2.length)
                     /\ ~ r2.tainted => r2.got = [i \in 1 .. k |-> r2.offset + i - 1]
  <2>1. \E k \in Nat : /\ Cuts(r.segments, r.offset + k, r.offset + r.length)
                       /\ ~ r.tainted => r.got = [i \in 1 .. k |-> r.offset + i - 1]
    BY DEF Reads
  <2>2. r2.segments = r.segments /\ r2.offset = r.offset /\ r2.length = r.length /\ r2.got = r.got
        /\ r2.tainted = r.tainted
    BY <1>3, <1>4
  <2> QED
    BY <2>1, <2>2
<1>8. /\ r2.offset \in Nat /\ r2.length \in Nat /\ r2.offset + r2.length <= DataSize
      /\ r2.tainted \in BOOLEAN
  BY <1>3, <1>4 DEF Reads
<1>9. r2.pc \in {"idle", "done", "request", "fill", "copy"}
  BY <1>3
<1>10. Reads(r2)
  BY <1>5, <1>6, <1>7, <1>8, <1>9, Zenon DEF Reads
<1> QED
  BY <1>3, <1>4, <1>10

\* One thread goes on.
LEMMA ReaderReplaced ==
  ASSUME ReadersInv, NEW t \in HostThread, NEW r2, Reads(r2), t # Emu => r2.pc \in {"idle", "done"},
         reader' = [reader EXCEPT ![t] = r2]
  PROVE  ReadersInv' /\ reader'[t] = r2 /\ \A u \in HostThread : u # t => reader'[u] = reader[u]
PROOF
<1>1. DOMAIN reader' = HostThread /\ reader' = [u \in HostThread |-> reader'[u]]
  BY DEF ReadersInv
<1>2. reader'[t] = r2 /\ \A u \in HostThread : u # t => reader'[u] = reader[u]
  BY DEF ReadersInv
<1>3. ASSUME NEW u \in HostThread
      PROVE  Reads(reader'[u]) /\ (u # Emu => reader'[u].pc \in {"idle", "done"})
  BY <1>2 DEF ReadersInv
<1> QED
  BY <1>1, <1>2, <1>3 DEF ReadersInv, Reads

\* The segment that is read next.
LEMMA FirstSegment ==
  ASSUME RomFsParameters, NEW r, Reads(r), r.segments # <<>>
  PROVE  \E k \in Nat, n \in Nat, p \in Nat :
           /\ r.segments[1] = <<r.offset + k, n>> /\ InLine(r.offset + k, n)
           /\ p = OffsetToPage(r.offset + k) /\ p <= r.offset + k
           /\ r.offset + k + n <= DataSize
           /\ Cuts(Tail(r.segments), r.offset + (k + n), r.offset + r.length)
           /\ Len(r.segments) = 1 <=> Tail(r.segments) = <<>>
           /\ ~ r.tainted => r.got = [i \in 1 .. k |-> r.offset + i - 1]
PROOF
<1>1. PICK sg, o, l : sg = r.segments /\ o = r.offset /\ l = r.length
  OBVIOUS
<1>2. o \in Nat /\ l \in Nat /\ o + l <= DataSize /\ sg # <<>> /\ DataSize \in Nat
  BY <1>1 DEF Reads, RomFsParameters
<1>3. PICK k \in Nat : /\ Cuts(sg, o + k, o + l)
                       /\ ~ r.tainted => r.got = [i \in 1 .. k |-> r.offset + i - 1]
  BY <1>1 DEF Reads
<1>4. PICK f \in Nat : f = o + k
  BY <1>2
<1>5. PICK p : p = OffsetToPage(f)
  OBVIOUS
<1>6. p \in Nat /\ p <= f
  BY <1>4, <1>5, Pages
<1>7. ASSUME NEW n \in Nat, InLine(f, n), sg = <<<<f, n>>>>, f + n = o + l
      PROVE  /\ sg[1] = <<f, n>> /\ f + n <= DataSize /\ Cuts(Tail(sg), o + (k + n), o + l)
             /\ Len(sg) = 1 <=> Tail(sg) = <<>>
  <2>1. sg[1] = <<f, n>> /\ Tail(sg) = <<>> /\ Len(sg) = 1
    BY <1>7
  <2>2. o + (k + n) = o + l
    BY <1>2, <1>4, <1>7
  <2> QED
    BY <1>2, <1>7, <2>1, <2>2 DEF Cuts
<1>8. ASSUME NEW n \in Nat, NEW m \in Nat, InLine(f, n), InLine(f + n, m), f + n + m = o + l,
             sg = <<<<f, n>>, <<f + n, m>>>>
      PROVE  /\ sg[1] = <<f, n>> /\ f + n <= DataSize /\ Cuts(Tail(sg), o + (k + n), o + l)
             /\ Len(sg) = 1 <=> Tail(sg) = <<>>
  <2>1. sg[1] = <<f, n>> /\ Len(sg) = 2
    BY <1>8
  <2>2. Tail(sg) = <<<<f + n, m>>>>
    BY <1>8
  <2>3. f + n = o + (k + n)
    BY <1>2, <1>4
  <2>4. Cuts(Tail(sg), f + n, o + l)
    BY <1>8, <2>2 DEF Cuts
  <2>5. Tail(sg) # <<>>
    BY <2>2
  <2>6. f + n <= DataSize
    BY <1>2, <1>8
  <2> QED
    BY <2>1, <2>3, <2>4, <2>5, <2>6
<1>9. \E n \in Nat : /\ InLine(f, n) /\ sg[1] = <<f, n>> /\ f + n <= DataSize
                     /\ Cuts(Tail(sg), o + (k + n), o + l)
                     /\ Len(sg) = 1 <=> Tail(sg) = <<>>
  <2>1. Cuts(sg, f, o + l)
    BY <1>3, <1>4
  <2> QED
    BY <1>2, <1>7, <1>8, <2>1 DEF Cuts
<1> QED
  BY <1>1, <1>3, <1>4, <1>5, <1>6, <1>9

\* Two lists one behind the other.
LEMMA Joined ==
  ASSUME NEW S, NEW c \in Seq(S), NEW b \in Seq(S)
  PROVE  /\ c \o b \in Seq(S) /\ Len(c \o b) = Len(c) + Len(b)
         /\ \A k \in 1 .. Len(c) : (c \o b)[k] = c[k]
         /\ \A k \in Len(c) + 1 .. Len(c) + Len(b) : (c \o b)[k] = b[k - Len(c)]
PROOF
  OBVIOUS

\* An entry of a list comes to its front.
ToFront(l, i) == <<l[i]>> \o SubSeq(l, 1, i - 1) \o SubSeq(l, i + 1, Len(l))

\* Where the entries were before.
LEMMA MovedToFront ==
  ASSUME NEW S, NEW l \in Seq(S), NEW i \in 1 .. Len(l), NEW m, m = ToFront(l, i)
  PROVE  /\ m \in Seq(S) /\ Len(m) = Len(l) /\ m[1] = l[i]
         /\ \A k \in 1 .. Len(l) : /\ k # 1 /\ k <= i => m[k] = l[k - 1]
                                   /\ k > i => m[k] = l[k]
PROOF
<1>1. PICK n : n = Len(l)
  OBVIOUS
<1>2. n \in Nat /\ i \in 1 .. n /\ l[i] \in S
  BY <1>1
<1>3. PICK a, b, e : a = SubSeq(l, 1, i - 1) /\ b = SubSeq(l, i + 1, n) /\ e = l[i]
  OBVIOUS
<1>4. /\ a \in Seq(S) /\ Len(a) = i - 1 /\ \A k \in 1 .. i - 1 : a[k] = l[k]
  BY <1>1, <1>2, <1>3
<1>5. /\ b \in Seq(S) /\ Len(b) = n - i /\ \A k \in 1 .. n - i : b[k] = l[i + k]
  BY <1>1, <1>2, <1>3
<1>6. a \in Seq(S) /\ b \in Seq(S) /\ e \in S
  BY <1>2, <1>3, <1>4, <1>5
<1>d. PICK c : c = <<e>> \o a
  OBVIOUS
<1>e. c \in Seq(S) /\ Len(c) = 1 + Len(a) /\ c[1] = e /\ \A k \in 2 .. 1 + Len(a) : c[k] = a[k - 1]
  BY <1>6, <1>d
<1>f. c \in Seq(S) /\ b \in Seq(S)
  BY <1>6, <1>e
<1>g. m = c \o b
  BY <1>1, <1>3, <1>d DEF ToFront
<1>h. /\ m \in Seq(S) /\ Len(m) = Len(c) + Len(b)
      /\ \A k \in 1 .. Len(c) : m[k] = c[k]
      /\ \A k \in Len(c) + 1 .. Len(c) + Len(b) : m[k] = b[k - Len(c)]
  BY <1>f, <1>g, Joined
<1>i. Len(c) = i
  BY <1>2, <1>4, <1>e
<1>a. m \in Seq(S) /\ m[1] = l[i]
  <2>1. m[1] = c[1]
    BY <1>2, <1>h, <1>i
  <2> QED
    BY <1>3, <1>e, <1>h, <2>1
<1>8. Len(m) = n
  BY <1>2, <1>5, <1>h, <1>i
<1>9. ASSUME NEW k \in 1 .. n, k # 1, k <= i PROVE m[k] = l[k - 1]
  <2>1. k \in 2 .. 1 + Len(a) /\ k - 1 \in 1 .. i - 1
    BY <1>2, <1>4, <1>9
  <2>2. m[k] = c[k] /\ c[k] = a[k - 1]
    BY <1>9, <1>e, <1>h, <1>i, <2>1
  <2>3. a[k - 1] = l[k - 1]
    BY <1>4, <2>1
  <2> QED
    BY <2>2, <2>3
<1>10. ASSUME NEW k \in 1 .. n, k > i PROVE m[k] = l[k]
  <2>1. PICK j : j = k - i
    OBVIOUS
  <2>2. j \in 1 .. n - i /\ i + j = k
    BY <1>2, <1>10, <2>1
  <2>3. k \in Len(c) + 1 .. Len(c) + Len(b) /\ k - Len(c) = j
    BY <1>2, <1>5, <1>i, <1>10, <2>1
  <2>4. m[k] = b[j]
    BY <1>h, <2>3
  <2>5. b[j] = l[i + j]
    BY <1>5, <2>2
  <2> QED
    BY <2>2, <2>4, <2>5
<1> QED
  BY <1>1, <1>a, <1>8, <1>9, <1>10

\* An entry is put in front of a list.
LEMMA PutInFront ==
  ASSUME NEW S, NEW l \in Seq(S), NEW e \in S, NEW m, m = <<e>> \o l
  PROVE  /\ m \in Seq(S) /\ Len(m) = Len(l) + 1 /\ m[1] = e
         /\ \A k \in 2 .. Len(l) + 1 : m[k] = l[k - 1]
PROOF
  OBVIOUS

\* A thread that is in the cache is the emulation thread, which has a segment and
\* its page.
LEMMA InCacheIsEmu ==
  ASSUME RomFsParameters, RomFsInv, NEW t \in HostThread, InCache(t)
  PROVE  /\ t = Emu /\ Reads(reader[Emu]) /\ reader[Emu].segments # <<>>
         /\ PageOf(Emu) \in Nat /\ PageOf(Emu) < FileSize
PROOF
<1>1. t = Emu /\ Reads(reader[t])
  BY DEF InCache, RomFsInv, ReadersInv
<1>2. PICK r : r = reader[Emu]
  OBVIOUS
<1>3. Reads(r) /\ r.pc \notin {"idle", "done"}
  BY <1>1, <1>2 DEF InCache
<1>4. r.segments # <<>>
  BY <1>3 DEF Reads
<1>5. PICK k \in Nat, n \in Nat, p \in Nat :
        /\ r.segments[1] = <<r.offset + k, n>> /\ InLine(r.offset + k, n)
        /\ p = OffsetToPage(r.offset + k) /\ p <= r.offset + k
        /\ r.offset + k + n <= DataSize
  BY <1>3, <1>4, FirstSegment
<1>6. PageOf(Emu) = p
  BY <1>2, <1>5 DEF PageOf
<1>7. n \in Nat \ {0} /\ r.offset \in Nat
  BY <1>3, <1>5 DEF InLine, Reads
<1>8. p < FileSize
  BY <1>5, <1>7 DEF RomFsParameters
<1> QED
  BY <1>1, <1>2, <1>3, <1>4, <1>6, <1>8

\* A page that is listed comes to the front.
LEMMA HitKeeps ==
  ASSUME RomFsParameters, RomFsInv, NEW t \in HostThread, RequestHit(t)
  PROVE  RomFsInv'
PROOF
<1>1. t = Emu /\ Reads(reader[Emu]) /\ reader[Emu].pc = "request"
  BY InCacheIsEmu DEF RequestHit, InCache
<1>2. PICK i \in Listed(PageOf(Emu)) :
        /\ m_list' = ToFront(m_list, i)
        /\ reader' = [reader EXCEPT ![Emu].pc = "copy", ![Emu].index = m_list[i][2],
                                    ![Emu].read_size = LineSize]
  BY <1>1 DEF RequestHit, ToFront
<1>3. UNCHANGED <<m_array, torn>>
  BY DEF RequestHit
<1>4. PICK l, P, S : l = m_list /\ P = PageOf(Emu) /\ S = Nat \X (0 .. LineCount - 1)
  OBVIOUS
<1>5. l \in Seq(S)
  BY <1>4 DEF RomFsInv, ListInv
<1>6. i \in 1 .. Len(l) /\ l[i][1] = P
  BY <1>4, <1>5 DEF Listed
<1>8. PICK m : m = ToFront(l, i) /\ m = m_list'
  BY <1>2, <1>4
<1>7. /\ m \in Seq(S) /\ Len(m) = Len(l) /\ m[1] = l[i]
      /\ \A k \in 1 .. Len(l) : /\ k # 1 /\ k <= i => m[k] = l[k - 1]
                                /\ k > i => m[k] = l[k]
  <2>1. i \in 1 .. Len(l)
    BY <1>6
  <2>2. m = ToFront(l, i)
    BY <1>8
  <2> QED
    BY <1>5, <2>1, <2>2, MovedToFront
<1>a. PICK x, ix, rs : x = "copy" /\ ix = l[i][2] /\ rs = LineSize /\ x \in {"request", "fill", "copy"}
  OBVIOUS
<1>9. PICK r, r2 : r = reader[Emu]
                   /\ r2 = GoneOn(r, x, ix, rs)
  OBVIOUS
<1>b. Reads(r) /\ r.pc \in {"request", "fill", "copy"}
  BY <1>1, <1>9
<1>10. Reads(r2) /\ r2.pc = "copy" /\ r2.index = l[i][2] /\ r2.read_size = LineSize
       /\ r2.segments = r.segments
  <2>1. Reads(r)
    BY <1>b
  <2>2. r.pc \in {"request", "fill", "copy"}
    BY <1>b
  <2>3. r2 = GoneOn(r, x, ix, rs)
    BY <1>9
  <2>4. Reads(r2) /\ r2.pc = x /\ r2.index = ix /\ r2.read_size = rs /\ r2.segments = r.segments
    BY <1>a, <2>1, <2>2, <2>3, ReadGoesOn
  <2> QED
    BY <1>a, <2>4
<1>11. reader' = [reader EXCEPT ![Emu] = r2]
  BY <1>1, <1>2, <1>4, <1>9, <1>a DEF RomFsInv, ReadersInv, GoneOn
<1>12. ReadersInv' /\ reader'[Emu] = r2
  BY <1>1, <1>10, <1>11, ReaderReplaced DEF RomFsInv
<1>13. PageOf(Emu)' = P
  BY <1>4, <1>9, <1>10, <1>12 DEF PageOf
<1> DEFINE Was(k) == IF k = 1 THEN i ELSE IF k <= i THEN k - 1 ELSE k
<1>14. ASSUME NEW k \in 1 .. Len(m)
       PROVE  Was(k) \in 1 .. Len(l) /\ m[k] = l[Was(k)]
  <2>1. k \in 1 .. Len(l) /\ Len(l) \in Nat
    BY <1>5, <1>7
  <2>2. CASE k = 1
    BY <1>6, <1>7, <2>1, <2>2
  <2>3. CASE k # 1 /\ k <= i
    BY <1>6, <1>7, <2>1, <2>3
  <2>4. CASE k > i
    BY <1>6, <1>7, <2>1, <2>4
  <2>5. k = 1 \/ (k # 1 /\ k <= i) \/ k > i
    BY <1>6, <2>1
  <2> QED
    BY <2>2, <2>3, <2>4, <2>5
<1>15. ASSUME NEW j \in 1 .. Len(m), NEW k \in 1 .. Len(m), j # k PROVE Was(j) # Was(k)
  BY <1>5, <1>6, <1>7, <1>15
<1> HIDE DEF Was
<1>16. ListInv'
  <2>1. ASSUME NEW j \in 1 .. Len(m), NEW k \in 1 .. Len(m), j # k
        PROVE  m[j][1] # m[k][1] /\ m[j][2] # m[k][2]
    <3>1. \A a \in 1 .. Len(l), b \in 1 .. Len(l) : a # b => l[a][1] # l[b][1] /\ l[a][2] # l[b][2]
      BY <1>4 DEF RomFsInv, ListInv
    <3>2. Was(j) \in 1 .. Len(l) /\ Was(k) \in 1 .. Len(l) /\ Was(j) # Was(k)
          /\ m[j] = l[Was(j)] /\ m[k] = l[Was(k)]
      BY <1>14, <1>15, <2>1
    <3> QED
      BY <3>1, <3>2
  <2>2. Len(m) <= LineCount
    BY <1>4, <1>7 DEF RomFsInv, ListInv
  <2>3. ASSUME Len(m) < LineCount, NEW k \in 1 .. Len(m) PROVE m[k][2] < Len(m)
    <3>1. l[Was(k)][2] < Len(l)
      BY <1>4, <1>7, <1>14, <2>3 DEF RomFsInv, ListInv
    <3> QED
      BY <1>7, <1>14, <3>1
  <2>4. m \in Seq(Nat \X (0 .. LineCount - 1))
    BY <1>4, <1>7
  <2> QED
    BY <1>8, <2>1, <2>2, <2>3, <2>4 DEF ListInv
<1>17. LinesInv'
  <2>1. ASSUME NEW k \in 1 .. Len(m), m[k][1] \notin torn
        PROVE  HoldsPage(m_array[m[k][2]], m[k][1])
    <3>1. reader[Emu].pc # "fill"
      BY <1>1
    <3> QED
      BY <1>4, <1>14, <2>1, <3>1 DEF RomFsInv, LinesInv
  <2> QED
    BY <1>3, <1>8, <2>1 DEF RomFsInv, LinesInv, HoldsPage
<1>18. EmuInv'
  <2>1. m[1] = l[i] /\ Len(m) > 0
    <3>1. 1 \in 1 .. Len(l) /\ Len(l) > 0
      BY <1>5, <1>6
    <3> QED
      BY <1>7, <3>1
  <2>2. l[i] = <<l[i][1], l[i][2]>>
    <3>1. l[i] \in Nat \X (0 .. LineCount - 1)
      BY <1>4, <1>5, <1>6
    <3> QED
      BY <3>1
  <2>3. m[1] = <<P, r2.index>>
    BY <1>6, <1>10, <2>1, <2>2
  <2>4. LineSize <= LineSize
    BY DEF RomFsParameters
  <2> QED
    BY <1>8, <1>10, <1>12, <1>13, <2>1, <2>3, <2>4 DEF EmuInv
<1> QED
  BY <1>12, <1>16, <1>17, <1>18 DEF RomFsInv

\* The emulation thread goes on in the cache, on the same page.
LEMMA EmuGoesOn ==
  ASSUME ReadersInv, InCache(Emu), NEW x \in {"request", "fill", "copy"}, NEW ix, NEW rs, NEW r2,
         r2 = GoneOn(reader[Emu], x, ix, rs), reader' = [reader EXCEPT ![Emu] = r2]
  PROVE  /\ ReadersInv' /\ reader'[Emu].pc = x /\ reader'[Emu].index = ix
         /\ reader'[Emu].read_size = rs /\ PageOf(Emu)' = PageOf(Emu)
PROOF
<1>1. Emu \in HostThread
  BY DEF HostThread
<1>2. PICK r : r = reader[Emu]
  OBVIOUS
<1>3. Reads(r)
  BY <1>1, <1>2 DEF ReadersInv
<1>4. r.pc \in {"request", "fill", "copy"}
  BY <1>2 DEF InCache
<1>5. r2 = GoneOn(r, x, ix, rs)
  BY <1>2
<1>6. Reads(r2) /\ r2.pc = x /\ r2.index = ix /\ r2.read_size = rs /\ r2.segments = r.segments
  BY <1>3, <1>4, <1>5, ReadGoesOn
<1>7. ReadersInv' /\ reader'[Emu] = r2
  BY <1>1, <1>6, ReaderReplaced
<1> QED
  BY <1>2, <1>6, <1>7 DEF PageOf

\* A thread whose number of bytes read stays what it was.
LEMMA SameSize ==
  ASSUME NEW r, Reads(r), NEW x, NEW ix
  PROVE  [r EXCEPT !.pc = x, !.index = ix] = GoneOn(r, x, ix, r.read_size)
PROOF
<1>1. PICK pc0, o, l, sg, ix0, rs0, g, ta :
        r = [pc |-> pc0, offset |-> o, length |-> l, segments |-> sg, index |-> ix0,
             read_size |-> rs0, got |-> g, tainted |-> ta]
  BY DEF Reads
<1> QED
  BY <1>1 DEF GoneOn

\* A thread whose line stays what it was.
LEMMA SameIndex ==
  ASSUME NEW r, Reads(r), NEW x, NEW rs
  PROVE  [r EXCEPT !.pc = x, !.read_size = rs] = GoneOn(r, x, r.index, rs)
PROOF
<1>1. PICK pc0, o, l, sg, ix0, rs0, g, ta :
        r = [pc |-> pc0, offset |-> o, length |-> l, segments |-> sg, index |-> ix0,
             read_size |-> rs0, got |-> g, tainted |-> ta]
  BY DEF Reads
<1> QED
  BY <1>1 DEF GoneOn

\* The line that a page which is not listed takes, and the entries that stay.
FreeIndex(l) == IF Len(l) >= LineCount THEN l[Len(l)][2] ELSE Len(l)
Kept(l) == IF Len(l) >= LineCount THEN SubSeq(l, 1, Len(l) - 1) ELSE l

\* The line is none of those of the entries that stay.
LEMMA FreeLine ==
  ASSUME RomFsParameters, ListInv, NEW index, index = FreeIndex(m_list), NEW kept, kept = Kept(m_list)
  PROVE  /\ kept \in Seq(Nat \X (0 .. LineCount - 1)) /\ index \in 0 .. LineCount - 1
         /\ Len(kept) < LineCount /\ Len(kept) <= Len(m_list)
         /\ \A k \in 1 .. Len(kept) : kept[k] = m_list[k] /\ kept[k][2] # index
         /\ Len(kept) + 1 < LineCount => index = Len(kept) /\ Len(kept) = Len(m_list)
PROOF
<1>1. PICK l, S, n, c : l = m_list /\ S = Nat \X (0 .. LineCount - 1) /\ n = Len(l) /\ c = LineCount
  OBVIOUS
<1>2. l \in Seq(S) /\ n \in Nat /\ n <= c /\ c \in Nat \ {0}
  BY <1>1 DEF ListInv, RomFsParameters
<1>3. \A i \in 1 .. n : l[i] \in S /\ l[i][2] \in 0 .. c - 1
  BY <1>1, <1>2
<1>4. CASE n >= c
  <2>1. n = c /\ n \in 1 .. n
    BY <1>1, <1>2, <1>4
  <2>2. index = l[n][2] /\ kept = SubSeq(l, 1, n - 1)
    BY <1>1, <1>4 DEF FreeIndex, Kept
  <2>3. kept \in Seq(S) /\ Len(kept) = n - 1 /\ \A k \in 1 .. n - 1 : kept[k] = l[k]
    <3>1. n - 1 \in 0 .. n /\ Len(l) = n
      BY <1>1, <1>2, <2>1
    <3> QED
      BY <1>2, <2>2, <3>1
  <2>4. ASSUME NEW k \in 1 .. Len(kept) PROVE kept[k] = l[k] /\ kept[k][2] # index
    <3>1. k \in 1 .. n /\ k # n /\ k \in 1 .. n - 1
      BY <2>1, <2>3
    <3>2. l[k][2] # l[n][2]
      BY <1>1, <2>1, <3>1 DEF ListInv
    <3> QED
      BY <2>2, <2>3, <3>1, <3>2
  <2>5. index \in 0 .. c - 1
    BY <1>3, <2>1, <2>2
  <2>6. Len(kept) < c /\ Len(kept) <= n /\ ~ (Len(kept) + 1 < c)
    BY <1>2, <2>1, <2>3
  <2> QED
    BY <1>1, <2>3, <2>4, <2>5, <2>6
<1>5. CASE ~ (n >= c)
  <2>1. n < c /\ index = n /\ kept = l
    BY <1>1, <1>2, <1>5 DEF FreeIndex, Kept
  <2>2. ASSUME NEW k \in 1 .. n PROVE l[k][2] # n
    <3>1. l[k][2] < n
      BY <1>1, <2>1 DEF ListInv
    <3> QED
      BY <1>2, <1>3, <3>1
  <2>3. n \in 0 .. c - 1
    BY <1>2, <2>1
  <2> QED
    BY <1>1, <1>2, <2>1, <2>2, <2>3
<1> QED
  BY <1>4, <1>5

\* A page that is not listed takes the next line, or that of the page used least
\* recently.
LEMMA MissKeeps ==
  ASSUME RomFsParameters, RomFsInv, NEW t \in HostThread, RequestMiss(t)
  PROVE  RomFsInv'
PROOF
<1>1. t = Emu /\ Reads(reader[Emu]) /\ reader[Emu].pc = "request" /\ PageOf(Emu) \in Nat /\ InCache(Emu)
  BY InCacheIsEmu DEF RequestMiss, InCache
<1>2. PICK l, P, S : l = m_list /\ P = PageOf(Emu) /\ S = Nat \X (0 .. LineCount - 1)
  OBVIOUS
<1>3. PICK index : index = FreeIndex(m_list)
  OBVIOUS
<1>4. PICK kept : kept = Kept(m_list)
  OBVIOUS
<1>5. /\ kept \in Seq(S) /\ index \in 0 .. LineCount - 1
      /\ Len(kept) < LineCount /\ Len(kept) <= Len(l)
      /\ \A k \in 1 .. Len(kept) : kept[k] = l[k] /\ kept[k][2] # index
      /\ Len(kept) + 1 < LineCount => index = Len(kept) /\ Len(kept) = Len(l)
  <2>1. ListInv
    BY DEF RomFsInv
  <2> QED
    BY <1>2, <1>3, <1>4, <2>1, FreeLine
<1>6. PICK e, m : e = <<P, index>> /\ m = m_list'
  OBVIOUS
<1>7. /\ Listed(P) = {} /\ m = <<e>> \o kept /\ UNCHANGED m_array
      /\ reader' = [reader EXCEPT ![Emu].pc = "fill", ![Emu].index = index]
      /\ torn' = torn \cap {kept[i][1] : i \in DOMAIN kept}
  BY <1>1, <1>2, <1>3, <1>4, <1>6 DEF RequestMiss, FreeIndex, Kept
<1>8. e \in S /\ e[1] = P /\ e[2] = index
  BY <1>1, <1>2, <1>5, <1>6
<1>9. /\ m \in Seq(S) /\ Len(m) = Len(kept) + 1 /\ m[1] = e
      /\ \A k \in 2 .. Len(kept) + 1 : m[k] = kept[k - 1]
  <2>1. kept \in Seq(S)
    BY <1>5
  <2>2. m = <<e>> \o kept
    BY <1>7
  <2>3. e \in S
    BY <1>8
  <2> QED
    BY <2>1, <2>2, <2>3, PutInFront
<1>10. PICK n : n = Len(kept)
  OBVIOUS
<1>11. n \in Nat /\ LineCount \in Nat /\ Len(l) \in Nat /\ n <= Len(l) /\ n < LineCount /\ Len(m) = n + 1
  BY <1>2, <1>5, <1>9, <1>10 DEF RomFsInv, ListInv, RomFsParameters
<1>12. ASSUME NEW k \in 1 .. n PROVE k \in 1 .. Len(l) /\ kept[k] = l[k] /\ kept[k][1] # P /\ kept[k][2] # index
  <2>1. k \in 1 .. Len(l)
    BY <1>11
  <2>2. kept[k] = l[k] /\ kept[k][2] # index
    BY <1>5, <1>10
  <2>3. l[k][1] # P
    <3>1. k \in DOMAIN m_list
      BY <1>2, <2>1 DEF RomFsInv, ListInv
    <3> QED
      BY <1>2, <1>7, <3>1 DEF Listed
  <2> QED
    BY <2>1, <2>2, <2>3
<1>13. ASSUME NEW k \in 2 .. n + 1 PROVE k - 1 \in 1 .. n /\ m[k] = kept[k - 1]
  BY <1>9, <1>10, <1>11
<1>14. ASSUME NEW k \in 1 .. Len(m), k # 1 PROVE k \in 2 .. n + 1
  BY <1>11, <1>14
<1>15. ListInv'
  <2>1. ASSUME NEW j \in 1 .. Len(m), NEW k \in 1 .. Len(m), j # k
        PROVE  m[j][1] # m[k][1] /\ m[j][2] # m[k][2]
    <3>1. CASE j = 1
      <4>1. k \in 2 .. n + 1
        BY <1>14, <2>1, <3>1
      <4> QED
        BY <1>8, <1>9, <1>12, <1>13, <3>1, <4>1
    <3>2. CASE k = 1
      <4>1. j \in 2 .. n + 1
        BY <1>14, <2>1, <3>2
      <4> QED
        BY <1>8, <1>9, <1>12, <1>13, <3>2, <4>1
    <3>3. CASE j # 1 /\ k # 1
      <4>1. j \in 2 .. n + 1 /\ k \in 2 .. n + 1
        BY <1>14, <3>3
      <4>2. m[j] = l[j - 1] /\ m[k] = l[k - 1] /\ j - 1 \in 1 .. Len(l) /\ k - 1 \in 1 .. Len(l)
        BY <1>12, <1>13, <4>1
      <4>3. j - 1 # k - 1
        BY <2>1, <4>1
      <4> QED
        BY <1>2, <4>2, <4>3 DEF RomFsInv, ListInv
    <3> QED
      BY <3>1, <3>2, <3>3
  <2>2. Len(m) <= LineCount
    BY <1>11
  <2>3. ASSUME Len(m) < LineCount, NEW k \in 1 .. Len(m) PROVE m[k][2] < Len(m)
    <3>1. index = n /\ n = Len(l) /\ Len(l) < LineCount
      BY <1>5, <1>10, <1>11, <2>3
    <3>2. CASE k = 1
      BY <1>8, <1>9, <1>11, <3>1, <3>2
    <3>3. CASE k # 1
      <4>1. m[k] = l[k - 1] /\ k - 1 \in 1 .. Len(l)
        BY <1>12, <1>13, <1>14, <3>3
      <4>2. l[k - 1][2] < Len(l)
        BY <1>2, <3>1, <4>1 DEF RomFsInv, ListInv
      <4>3. l[k - 1][2] \in 0 .. LineCount - 1
        BY <1>2, <4>1 DEF RomFsInv, ListInv
      <4>4. PICK v : v = l[k - 1][2]
        OBVIOUS
      <4>5. v < n + 1
        BY <1>11, <3>1, <4>2, <4>3, <4>4
      <4> QED
        BY <1>11, <4>1, <4>4, <4>5
    <3> QED
      BY <3>2, <3>3
  <2>4. m \in Seq(Nat \X (0 .. LineCount - 1))
    BY <1>2, <1>9
  <2> QED
    BY <1>6, <2>1, <2>2, <2>3, <2>4 DEF ListInv
<1>r. PICK r, x : r = reader[Emu] /\ x = "fill" /\ x \in {"request", "fill", "copy"}
  OBVIOUS
<1>16. PICK rs, r2 : rs = r.read_size /\ r2 = GoneOn(reader[Emu], x, index, rs)
  OBVIOUS
<1>17. reader' = [reader EXCEPT ![Emu] = r2]
  <2>1. r2 = [r EXCEPT !.pc = x, !.index = index]
    BY <1>1, <1>16, <1>r, SameSize
  <2>2. r2 = [reader[Emu] EXCEPT !.pc = "fill", !.index = index]
    BY <1>r, <2>1
  <2> QED
    BY <1>7, <2>2 DEF RomFsInv, ReadersInv
<1>18. ReadersInv' /\ reader'[Emu].pc = x /\ reader'[Emu].index = index /\ PageOf(Emu)' = PageOf(Emu)
  <2>1. ReadersInv /\ InCache(Emu)
    BY <1>1 DEF RomFsInv
  <2>2. r2 = GoneOn(reader[Emu], x, index, rs)
    BY <1>16
  <2> QED
    BY <1>17, <1>r, <2>1, <2>2, EmuGoesOn
<1>19. \A k \in 1 .. n : kept[k][1] \in {kept[i][1] : i \in DOMAIN kept}
  <2>1. DOMAIN kept = 1 .. n
    BY <1>5, <1>10
  <2> QED
    BY <2>1
<1>20. LinesInv'
  <2>1. ASSUME NEW k \in 1 .. Len(m), m[k][1] \notin torn', k # 1
        PROVE  HoldsPage(m_array[m[k][2]], m[k][1])
    <3>1. m[k] = l[k - 1] /\ k - 1 \in 1 .. Len(l) /\ m[k] = kept[k - 1] /\ k - 1 \in 1 .. n
      BY <1>12, <1>13, <1>14, <2>1
    <3>2. m[k][1] \notin torn
      BY <1>7, <1>19, <2>1, <3>1
    <3>3. l[k - 1][1] \notin torn /\ reader[Emu].pc # "fill"
      BY <1>1, <3>1, <3>2
    <3>4. HoldsPage(m_array[l[k - 1][2]], l[k - 1][1])
      BY <1>2, <3>1, <3>3 DEF RomFsInv, LinesInv
    <3> QED
      BY <3>1, <3>4
  <2>2. \A k \in 1 .. Len(m) : m[k][1] \notin torn' /\ ~ (k = 1 /\ reader'[Emu].pc = "fill") =>
          HoldsPage(m_array[m[k][2]], m[k][1])
    BY <1>r, <1>18, <2>1
  <2>3. m_array \in [0 .. LineCount - 1 -> [0 .. LineSize - 1 -> Int]] /\ m_array' = m_array
    BY <1>7 DEF RomFsInv, LinesInv
  <2> QED
    BY <1>6, <2>2, <2>3 DEF LinesInv, HoldsPage
<1>21. EmuInv'
  <2>1. P \notin torn'
    <3>1. DOMAIN kept = 1 .. n
      BY <1>5, <1>10
    <3> QED
      BY <1>7, <1>12, <3>1
  <2>2. Len(m) > 0 /\ m[1] = <<P, index>>
    BY <1>6, <1>9, <1>11
  <2> QED
    BY <1>2, <1>6, <1>r, <1>18, <2>1, <2>2 DEF EmuInv
<1> QED
  BY <1>15, <1>18, <1>20, <1>21 DEF RomFsInv

\* What the file has of a page.
LEMMA PageBytes ==
  ASSUME RomFsParameters, NEW P \in Nat, P < FileSize, NEW b, b = Len(Bytes(P, LineSize))
  PROVE  /\ b \in Nat /\ b <= LineSize /\ b \in {LineSize, FileSize - P}
         /\ \A j \in 0 .. b - 1 : Bytes(P, LineSize)[j + 1] = P + j
         /\ \A j \in 0 .. LineSize - 1 : P + j < FileSize => j < b
PROOF
<1>1. LineSize \in Nat \ {0} /\ FileSize \in Nat /\ FileSize - P \in Int /\ FileSize - P > 0
  BY DEF RomFsParameters
<1>2. PICK c : c = IF LineSize <= FileSize - P THEN LineSize ELSE FileSize - P
  OBVIOUS
<1>3. c \in Nat /\ c > 0 /\ c <= LineSize /\ c <= FileSize - P /\ c \in {LineSize, FileSize - P}
  BY <1>1, <1>2
<1>4. Min({LineSize, FileSize - P}) = c
  BY <1>1, <1>2, OfTwo
<1>a. c \in Nat
  BY <1>3
<1>5. Max({0, c}) = c
  BY <1>a, NotNegative
<1>6. Bytes(P, LineSize) = [i \in 1 .. c |-> P + i - 1]
  BY <1>4, <1>5 DEF Bytes
<1>7. b = c
  BY <1>3, <1>6
<1>8. ASSUME NEW j \in 0 .. c - 1 PROVE Bytes(P, LineSize)[j + 1] = P + j
  <2>1. j + 1 \in 1 .. c /\ P + (j + 1) - 1 = P + j
    BY <1>3
  <2> QED
    BY <1>6, <2>1
<1>9. \A j \in 0 .. LineSize - 1 : P + j < FileSize => j < c
  BY <1>1, <1>2
<1> QED
  BY <1>3, <1>7, <1>8, <1>9

\* The line of the page is read from the file.
LEMMA FillKeeps ==
  ASSUME RomFsParameters, RomFsInv, NEW t \in HostThread, Fill(t)
  PROVE  RomFsInv'
PROOF
<1>1. /\ t = Emu /\ Reads(reader[Emu]) /\ reader[Emu].pc = "fill" /\ InCache(Emu)
      /\ PageOf(Emu) \in Nat /\ PageOf(Emu) < FileSize
  BY InCacheIsEmu DEF Fill, InCache
<1>2. PICK P, b, ix, r : P = PageOf(Emu) /\ b = Len(Bytes(P, LineSize)) /\ ix = reader[Emu].index
                          /\ r = reader[Emu]
  OBVIOUS
<1>3. /\ b \in Nat /\ b <= LineSize /\ b \in {LineSize, FileSize - P}
      /\ \A j \in 0 .. b - 1 : Bytes(P, LineSize)[j + 1] = P + j
      /\ \A j \in 0 .. LineSize - 1 : P + j < FileSize => j < b
  BY <1>1, <1>2, PageBytes
<1>4. PICK line : line = [j \in 0 .. LineSize - 1 |->
                            IF j < b THEN Bytes(P, LineSize)[j + 1] ELSE m_array[ix][j]]
  OBVIOUS
<1>5. /\ m_array' = [m_array EXCEPT ![ix] = line] /\ UNCHANGED <<m_list, torn>>
      /\ reader' = [reader EXCEPT ![Emu].pc = "copy", ![Emu].read_size = b]
  BY <1>1, <1>2, <1>4 DEF Fill
<1>6. m_list[1] = <<P, ix>> /\ Len(m_list) > 0 /\ P \notin torn
  BY <1>1, <1>2 DEF RomFsInv, EmuInv
<1>7. 1 \in 1 .. Len(m_list) /\ ix \in 0 .. LineCount - 1
  <2>1. 1 \in 1 .. Len(m_list)
    BY <1>6 DEF RomFsInv, ListInv
  <2>2. m_list[1] \in Nat \X (0 .. LineCount - 1)
    BY <2>1 DEF RomFsInv, ListInv
  <2> QED
    BY <1>6, <2>1, <2>2
<1>8. m_array \in [0 .. LineCount - 1 -> [0 .. LineSize - 1 -> Int]]
  BY DEF RomFsInv, LinesInv
<1>9. line \in [0 .. LineSize - 1 -> Int] /\ \A j \in 0 .. LineSize - 1 : j < b => line[j] = P + j
  <2>1. ASSUME NEW j \in 0 .. LineSize - 1, j < b
        PROVE  Bytes(P, LineSize)[j + 1] = P + j /\ P + j \in Int
    <3>1. j \in 0 .. b - 1
      BY <1>3, <2>1
    <3> QED
      BY <1>1, <1>2, <1>3, <3>1
  <2>2. m_array[ix] \in [0 .. LineSize - 1 -> Int]
    BY <1>7, <1>8
  <2>3. ASSUME NEW j \in 0 .. LineSize - 1
        PROVE  (IF j < b THEN Bytes(P, LineSize)[j + 1] ELSE m_array[ix][j]) \in Int
    BY <2>1, <2>2
  <2> QED
    BY <1>4, <2>1, <2>3
<1>10. HoldsPage(line, P)
  BY <1>3, <1>9 DEF HoldsPage
<1>11. PICK x, r2 : x = "copy" /\ x \in {"request", "fill", "copy"} /\ r2 = GoneOn(reader[Emu], x, ix, b)
  OBVIOUS
<1>12. reader' = [reader EXCEPT ![Emu] = r2]
  <2>0. Reads(r) /\ r2 = GoneOn(r, x, r.index, b)
    BY <1>1, <1>2, <1>11
  <2>1. r2 = [r EXCEPT !.pc = x, !.read_size = b]
    BY <2>0, SameIndex
  <2>2. r2 = [reader[Emu] EXCEPT !.pc = "copy", !.read_size = b]
    BY <1>2, <1>11, <2>1
  <2> QED
    BY <1>5, <2>2 DEF RomFsInv, ReadersInv
<1>13. /\ ReadersInv' /\ reader'[Emu].pc = x /\ reader'[Emu].index = ix /\ reader'[Emu].read_size = b
       /\ PageOf(Emu)' = PageOf(Emu)
  <2>1. ReadersInv /\ InCache(Emu)
    BY <1>1 DEF RomFsInv
  <2>2. r2 = GoneOn(reader[Emu], x, ix, b)
    BY <1>11
  <2> QED
    BY <1>11, <1>12, <2>1, <2>2, EmuGoesOn
<1>14. ListInv'
  BY <1>5 DEF RomFsInv, ListInv
<1>15. LinesInv'
  <2>1. m_array' \in [0 .. LineCount - 1 -> [0 .. LineSize - 1 -> Int]]
    BY <1>5, <1>8, <1>9
  <2>2. ASSUME NEW i \in 1 .. Len(m_list), m_list[i][1] \notin torn
        PROVE  HoldsPage(m_array'[m_list[i][2]], m_list[i][1])
    <3>1. CASE i = 1
      <4>1. m_list[i][1] = P /\ m_list[i][2] = ix /\ m_array'[ix] = line
        BY <1>5, <1>6, <1>7, <1>8, <3>1
      <4> QED
        BY <1>10, <4>1
    <3>2. CASE i # 1
      <4>1. m_list[i][2] # ix
        BY <1>6, <1>7, <3>2 DEF RomFsInv, ListInv
      <4>2. m_list[i][2] \in 0 .. LineCount - 1
        BY DEF RomFsInv, ListInv
      <4>3. m_array'[m_list[i][2]] = m_array[m_list[i][2]]
        BY <1>5, <1>8, <4>1, <4>2
      <4>4. HoldsPage(m_array[m_list[i][2]], m_list[i][1])
        BY <2>2, <3>2 DEF RomFsInv, LinesInv
      <4> QED
        BY <4>3, <4>4
    <3> QED
      BY <3>1, <3>2
  <2> QED
    BY <1>5, <2>1, <2>2 DEF LinesInv, HoldsPage
<1>16. EmuInv'
  BY <1>2, <1>3, <1>5, <1>6, <1>11, <1>13 DEF EmuInv
<1> QED
  BY <1>13, <1>14, <1>15, <1>16 DEF RomFsInv

\* The host does not read the line, which keeps its bytes.
LEMMA FillFailsKeeps ==
  ASSUME RomFsParameters, RomFsInv, NEW t \in HostThread, FillFails(t)
  PROVE  RomFsInv'
PROOF
<1>1. /\ t = Emu /\ Reads(reader[Emu]) /\ reader[Emu].pc = "fill" /\ InCache(Emu)
  BY InCacheIsEmu DEF FillFails, InCache
<1>2. PICK P, b, ix, r : P = PageOf(Emu) /\ b = 0 /\ ix = reader[Emu].index /\ r = reader[Emu]
  OBVIOUS
<1>3. /\ UNCHANGED <<m_list, m_array>> /\ torn' = torn \cup {P}
      /\ reader' = [reader EXCEPT ![Emu].pc = "copy", ![Emu].read_size = b]
  BY <1>1, <1>2 DEF FillFails
<1>4. m_list[1] = <<P, ix>> /\ Len(m_list) > 0
  BY <1>1, <1>2 DEF RomFsInv, EmuInv
<1>11. PICK x, r2 : x = "copy" /\ x \in {"request", "fill", "copy"} /\ r2 = GoneOn(reader[Emu], x, ix, b)
  OBVIOUS
<1>12. reader' = [reader EXCEPT ![Emu] = r2]
  <2>0. Reads(r) /\ r2 = GoneOn(r, x, r.index, b)
    BY <1>1, <1>2, <1>11
  <2>1. r2 = [r EXCEPT !.pc = x, !.read_size = b]
    BY <2>0, SameIndex
  <2>2. r2 = [reader[Emu] EXCEPT !.pc = "copy", !.read_size = b]
    BY <1>2, <1>11, <2>1
  <2> QED
    BY <1>3, <2>2 DEF RomFsInv, ReadersInv
<1>13. /\ ReadersInv' /\ reader'[Emu].pc = x /\ reader'[Emu].index = ix /\ PageOf(Emu)' = PageOf(Emu)
  <2>1. ReadersInv /\ InCache(Emu)
    BY <1>1 DEF RomFsInv
  <2>2. r2 = GoneOn(reader[Emu], x, ix, b)
    BY <1>11
  <2> QED
    BY <1>11, <1>12, <2>1, <2>2, EmuGoesOn
<1>14. ListInv'
  BY <1>3 DEF RomFsInv, ListInv
<1>15. LinesInv'
  <2>1. ASSUME NEW i \in 1 .. Len(m_list), m_list[i][1] \notin torn'
        PROVE  HoldsPage(m_array[m_list[i][2]], m_list[i][1])
    <3>1. m_list[i][1] \notin torn /\ i # 1
      BY <1>3, <1>4, <2>1
    <3> QED
      BY <3>1 DEF RomFsInv, LinesInv
  <2> QED
    BY <1>3, <2>1 DEF RomFsInv, LinesInv, HoldsPage
<1>16. EmuInv'
  BY <1>2, <1>3, <1>4, <1>11, <1>13 DEF EmuInv
<1> QED
  BY <1>13, <1>14, <1>15, <1>16 DEF RomFsInv

\* A step that leaves the cache alone and takes no line.
LEMMA CacheUntouched ==
  ASSUME RomFsInv, ReadersInv', UNCHANGED <<m_list, m_array, torn>>,
         \/ reader'[Emu] = reader[Emu]
         \/ reader[Emu].pc # "fill" /\ reader'[Emu].pc \notin {"fill", "copy"}
  PROVE  RomFsInv'
PROOF
<1>1. ListInv'
  BY DEF RomFsInv, ListInv
<1>2. LinesInv'
  <2>1. ASSUME NEW i \in 1 .. Len(m_list), m_list[i][1] \notin torn,
               ~ (i = 1 /\ reader'[Emu].pc = "fill")
        PROVE  HoldsPage(m_array[m_list[i][2]], m_list[i][1])
    BY <2>1 DEF RomFsInv, LinesInv
  <2> QED
    BY <2>1 DEF RomFsInv, LinesInv, HoldsPage
<1>3. EmuInv'
  BY DEF RomFsInv, EmuInv, PageOf
<1> QED
  BY <1>1, <1>2, <1>3 DEF RomFsInv

\* What a thread is doing.
AReader(pc0, o, l, sg, ix, rs, g, ta) ==
  [pc |-> pc0, offset |-> o, length |-> l, segments |-> sg, index |-> ix, read_size |-> rs,
   got |-> g, tainted |-> ta]

\* It has read k of its bytes.
HasRead(pc0, o, l, sg, g, ta) ==
  /\ pc0 \in {"idle", "done", "request", "fill", "copy"} /\ ta \in BOOLEAN
  /\ o \in Nat /\ l \in Nat /\ o + l <= DataSize
  /\ pc0 \in {"idle", "done"} <=> sg = <<>>
  /\ \E k \in Nat : Cuts(sg, o + k, o + l) /\ (~ ta => g = [i \in 1 .. k |-> o + i - 1])

\* Such a thread reads.
LEMMA IsRead ==
  ASSUME NEW pc0, NEW o, NEW l, NEW sg, NEW ix, NEW rs, NEW g, NEW ta, HasRead(pc0, o, l, sg, g, ta)
  PROVE  Reads(AReader(pc0, o, l, sg, ix, rs, g, ta)) /\ AReader(pc0, o, l, sg, ix, rs, g, ta).pc = pc0
PROOF
<1>0. PICK r : r = AReader(pc0, o, l, sg, ix, rs, g, ta)
  OBVIOUS
<1>1. /\ r.pc = pc0 /\ r.offset = o /\ r.length = l /\ r.segments = sg /\ r.index = ix
      /\ r.read_size = rs /\ r.got = g /\ r.tainted = ta
  BY <1>0, ReaderFields DEF AReader
<1>2. r = [pc |-> r.pc, offset |-> r.offset, length |-> r.length, segments |-> r.segments,
           index |-> r.index, read_size |-> r.read_size, got |-> r.got, tainted |-> r.tainted]
  BY <1>0, <1>1, Zenon DEF AReader
<1>3. \E n \in Nat : /\ Cuts(r.segments, r.offset + n, r.offset + r.length)
                     /\ ~ r.tainted => r.got = [i \in 1 .. n |-> r.offset + i - 1]
  BY <1>1, Zenon DEF HasRead
<1>4. /\ r.offset \in Nat /\ r.length \in Nat /\ r.offset + r.length <= DataSize
      /\ r.pc \in {"idle", "done", "request", "fill", "copy"} /\ r.tainted \in BOOLEAN
      /\ r.pc \in {"idle", "done"} <=> r.segments = <<>>
  BY <1>1, Zenon DEF HasRead
<1>5. Reads(r)
  BY <1>2, <1>3, <1>4, Zenon DEF Reads
<1> QED
  BY <1>0, <1>1, <1>5, Zenon

\* The bytes of one place after another, joined.
LEMMA BytesJoined ==
  ASSUME NEW o \in Nat, NEW k \in Nat, NEW n \in Nat, NEW a, NEW b,
         a = [i \in 1 .. k |-> o + i - 1], b = [i \in 1 .. n |-> o + k + i - 1]
  PROVE  a \o b = [i \in 1 .. k + n |-> o + i - 1]
PROOF
<1>1. a \in Seq(Int) /\ Len(a) = k /\ b \in Seq(Int) /\ Len(b) = n
  OBVIOUS
<1>2. PICK c : c = a \o b
  OBVIOUS
<1>3. /\ c \in Seq(Int) /\ Len(c) = Len(a) + Len(b)
      /\ \A i \in 1 .. Len(a) : c[i] = a[i]
      /\ \A i \in Len(a) + 1 .. Len(a) + Len(b) : c[i] = b[i - Len(a)]
  BY <1>1, <1>2, Joined
<1>4. Len(c) = k + n /\ DOMAIN c = 1 .. k + n
  BY <1>1, <1>3
<1>5. ASSUME NEW i \in 1 .. k + n PROVE c[i] = o + i - 1
  <2>1. CASE i <= k
    <3>1. i \in 1 .. k
      BY <2>1
    <3> QED
      BY <1>1, <1>3, <3>1
  <2>2. CASE i > k
    <3>1. i \in k + 1 .. k + n /\ i - k \in 1 .. n /\ o + k + (i - k) - 1 = o + i - 1
      BY <2>2
    <3>2. c[i] = b[i - k]
      BY <1>1, <1>3, <3>1
    <3> QED
      BY <3>1, <3>2
  <2> QED
    BY <2>1, <2>2
<1>6. c = [i \in 1 .. k + n |-> o + i - 1]
  <2>1. c = [i \in 1 .. k + n |-> c[i]]
    BY <1>3, <1>4
  <2> QED
    BY <1>5, <2>1
<1> QED
  BY <1>2, <1>6

\* How much of a segment a line that was read has.
Count(read_size, into, n) == IF read_size > into THEN Min({into + n, read_size}) - into ELSE 0

\* It has all of it.
LEMMA CountIsAll ==
  ASSUME NEW rs \in Int, NEW into \in Nat, NEW n \in Nat \ {0}, into + n <= rs
  PROVE  Count(rs, into, n) = n
PROOF
<1>1. rs > into
  OBVIOUS
<1>2. PICK s \in Int : s = into + n /\ s <= rs
  OBVIOUS
<1>3. Min({s, rs}) = s
  BY <1>2, OfTwo
<1> QED
  BY <1>1, <1>2, <1>3 DEF Count

\* A reader that has copied a segment.
Copying(r, g, sg, ta, x) == [r EXCEPT !.got = g, !.segments = sg, !.tainted = ta, !.pc = x]

\* What it is doing.
LEMMA CopyingIs ==
  ASSUME NEW pc0, NEW o, NEW l, NEW sg, NEW ix, NEW rs, NEW g, NEW ta,
         NEW x, NEW sg2, NEW g2, NEW tb
  PROVE  Copying(AReader(pc0, o, l, sg, ix, rs, g, ta), g2, sg2, tb, x) =
         AReader(x, o, l, sg2, ix, rs, g2, tb)
PROOF
<1>0. PICK r : r = [pc |-> pc0, offset |-> o, length |-> l, segments |-> sg, index |-> ix,
                    read_size |-> rs, got |-> g, tainted |-> ta]
  OBVIOUS
<1>1. PICK r1 : r1 = [r EXCEPT !.got = g2, !.segments = sg2]
  OBVIOUS
<1>2. r1 = [pc |-> pc0, offset |-> o, length |-> l, segments |-> sg2, index |-> ix,
            read_size |-> rs, got |-> g2, tainted |-> ta]
  BY <1>0, <1>1
<1>3. PICK r2 : r2 = [r1 EXCEPT !.tainted = tb, !.pc = x]
  OBVIOUS
<1>4. r2 = [pc |-> x, offset |-> o, length |-> l, segments |-> sg2, index |-> ix,
            read_size |-> rs, got |-> g2, tainted |-> tb]
  BY <1>2, <1>3
<1>5. [r EXCEPT !.got = g2, !.segments = sg2, !.tainted = tb, !.pc = x] = r2
  BY <1>0, <1>1, <1>3
<1> QED
  BY <1>0, <1>4, <1>5, Zenon DEF AReader, Copying

\* The bytes of the segment are copied from the line.
LEMMA CopyKeeps ==
  ASSUME RomFsParameters, RomFsInv, NEW t \in HostThread, Copy(t)
  PROVE  RomFsInv'
PROOF
<1>1. t = Emu /\ Reads(reader[Emu]) /\ reader[Emu].pc = "copy" /\ reader[Emu].segments # <<>>
  BY InCacheIsEmu DEF Copy, InCache
<1>2. PICK r : r = reader[Emu]
  OBVIOUS
<1>3. Reads(r) /\ r.segments # <<>> /\ r.pc = "copy"
  BY <1>1, <1>2
<1>4. PICK k \in Nat, n \in Nat, p \in Nat :
        /\ r.segments[1] = <<r.offset + k, n>> /\ InLine(r.offset + k, n)
        /\ p = OffsetToPage(r.offset + k) /\ p <= r.offset + k
        /\ r.offset + k + n <= DataSize
        /\ Cuts(Tail(r.segments), r.offset + (k + n), r.offset + r.length)
        /\ Len(r.segments) = 1 <=> Tail(r.segments) = <<>>
        /\ ~ r.tainted => r.got = [i \in 1 .. k |-> r.offset + i - 1]
  BY <1>3, FirstSegment
<1>5. PICK pc0, o, l, sg, ix, rs, g, ta : r = AReader(pc0, o, l, sg, ix, rs, g, ta)
  BY <1>3 DEF Reads, AReader
<1>6. /\ r.offset = o /\ r.length = l /\ r.segments = sg /\ r.index = ix
      /\ r.read_size = rs /\ r.got = g /\ r.tainted = ta
  BY <1>5, ReaderFields DEF AReader
<1>7. o \in Nat /\ l \in Nat /\ o + l <= DataSize /\ ta \in BOOLEAN
  BY <1>3, <1>6 DEF Reads
<1>8. PICK s \in Nat : s = o + k
  BY <1>7
<1>9. /\ sg[1] = <<s, n>> /\ InLine(s, n) /\ p = OffsetToPage(s) /\ p <= s /\ s + n <= DataSize
      /\ Cuts(Tail(sg), o + (k + n), o + l)
      /\ Len(sg) = 1 <=> Tail(sg) = <<>>
      /\ ~ ta => g = [i \in 1 .. k |-> o + i - 1]
  BY <1>4, <1>6, <1>8
<1>10. PageOf(Emu) = p
  BY <1>2, <1>6, <1>9 DEF PageOf
<1>11. PICK into \in Nat : into = s - p
  BY <1>9
<1>12. PICK c, b : c = Count(rs, into, n) /\ b = Copied(Emu)
  OBVIOUS
<1>b. b = [i \in 1 .. c |-> m_array[ix][into + i - 1]]
  <2>1. PICK f, q, h : f = reader[Emu].segments[1][1] - PageOf(Emu) /\ q = reader[Emu].segments[1][2]
                        /\ h = reader[Emu].read_size
    OBVIOUS
  <2>2. f = into /\ q = n /\ h = rs /\ reader[Emu].index = ix
    BY <1>2, <1>6, <1>9, <1>10, <1>11, <2>1
  <2>3. Copied(Emu) = [i \in 1 .. Count(h, f, q) |-> m_array[reader[Emu].index][f + i - 1]]
    BY <2>1 DEF Copied, Count
  <2> QED
    BY <1>12, <2>2, <2>3, Zenon
<1>c. PICK tb, x, sg2, g2 :
         /\ tb = (ta \/ p \in torn) /\ x = (IF Len(sg) = 1 THEN "done" ELSE "request")
         /\ sg2 = Tail(sg) /\ g2 = g \o b
  OBVIOUS
<1>13. reader' = [reader EXCEPT ![Emu] = Copying(r, g2, sg2, tb, x)]
  <2>1. reader' = [reader EXCEPT ![Emu] =
          [reader[Emu] EXCEPT
             !.got = reader[Emu].got \o Copied(Emu), !.segments = Tail(reader[Emu].segments),
             !.tainted = reader[Emu].tainted \/ PageOf(Emu) \in torn,
             !.pc = IF Len(reader[Emu].segments) = 1 THEN "done" ELSE "request"]]
    <3>1. Copy(Emu)
      BY <1>1
    <3> QED
      BY <3>1, Zenon DEF Copy
  <2>2. g2 = reader[Emu].got \o Copied(Emu) /\ sg2 = Tail(reader[Emu].segments)
    BY <1>2, <1>6, <1>12, <1>c, Zenon
  <2>3. tb = (reader[Emu].tainted \/ PageOf(Emu) \in torn)
    BY <1>2, <1>6, <1>10, <1>c, Zenon
  <2>4. x = (IF Len(reader[Emu].segments) = 1 THEN "done" ELSE "request")
    BY <1>2, <1>6, <1>c, Zenon
  <2> QED
    BY <1>2, <2>1, <2>2, <2>3, <2>4, Zenon DEF Copying
<1>14. PICK r2 : r2 = AReader(x, o, l, sg2, ix, rs, g2, tb)
  OBVIOUS
<1>15. reader' = [reader EXCEPT ![Emu] = r2]
  <2>1. r2 = Copying(r, g2, sg2, tb, x)
    BY <1>5, <1>14, CopyingIs
  <2> QED
    BY <1>13, <2>1, Zenon
<1>16. ASSUME p \notin torn PROVE b = [i \in 1 .. n |-> o + k + i - 1]
  <2>1. /\ m_list[1] = <<p, ix>> /\ Len(m_list) > 0
        /\ rs \in {LineSize, FileSize - p} /\ rs <= LineSize
    BY <1>2, <1>3, <1>6, <1>10, <1>16 DEF RomFsInv, EmuInv
  <2>2. /\ n \in Nat \ {0} /\ s + n <= p + LineSize /\ LineSize \in Nat /\ FileSize \in Nat
        /\ DataSize \in Nat /\ DataSize <= FileSize
    BY <1>9 DEF InLine, RomFsParameters
  <2>3. rs \in Int /\ into + n <= rs
    BY <1>9, <1>11, <2>1, <2>2, SMTT(30)
  <2>4. c = n
    BY <1>12, <2>2, <2>3, CountIsAll
  <2>5. 1 \in 1 .. Len(m_list)
    BY <2>1 DEF RomFsInv, ListInv
  <2>6. HoldsPage(m_array[ix], p)
    <3>1. m_list[1][1] = p /\ m_list[1][2] = ix /\ reader[Emu].pc # "fill"
      BY <1>1, <2>1
    <3> QED
      BY <1>16, <2>5, <3>1 DEF RomFsInv, LinesInv
  <2>7. ASSUME NEW i \in 1 .. n PROVE m_array[ix][into + i - 1] = o + k + i - 1
    <3>1. PICK j : j = into + i - 1
      OBVIOUS
    <3>4. s + n <= FileSize /\ s = p + into /\ i <= n /\ i >= 1
      BY <1>9, <1>11, <2>2
    <3>5. j \in Int /\ j >= 0 /\ j <= LineSize - 1 /\ p + j < FileSize
      BY <2>2, <3>1, <3>4
    <3>6. p + j = o + k + i - 1
      BY <1>7, <1>8, <3>1, <3>4
    <3>2. j \in 0 .. LineSize - 1 /\ p + j = o + k + i - 1 /\ p + j < FileSize
      BY <2>2, <3>5, <3>6
    <3>3. m_array[ix][j] = p + j
      BY <2>6, <3>2 DEF HoldsPage
    <3> QED
      BY <3>1, <3>2, <3>3
  <2> QED
    BY <1>b, <2>4, <2>7
<1>17. ~ tb => g2 = [i \in 1 .. k + n |-> o + i - 1]
  <2>1. SUFFICES ASSUME ~ tb PROVE g2 = [i \in 1 .. k + n |-> o + i - 1]
    OBVIOUS
  <2>2. ~ ta /\ p \notin torn
    BY <1>c, <2>1, Zenon
  <2>3. g = [i \in 1 .. k |-> o + i - 1] /\ b = [i \in 1 .. n |-> o + k + i - 1]
    BY <1>9, <1>16, <2>2
  <2>4. g \o b = [i \in 1 .. k + n |-> o + i - 1]
    BY <1>7, <2>3, BytesJoined
  <2> QED
    BY <1>c, <2>4
<1>18. /\ x \in {"done", "request"}
       /\ x \in {"idle", "done"} <=> sg2 = <<>>
  <2>1. x = (IF Len(sg) = 1 THEN "done" ELSE "request") /\ (sg2 = <<>> <=> Len(sg) = 1)
    BY <1>9, <1>c, Zenon
  <2> QED
    BY <2>1
<1>19. tb \in BOOLEAN
  BY <1>c, Zenon
<1>20. Reads(r2) /\ r2.pc = x
  <2>1. x \in {"idle", "done", "request", "fill", "copy"}
    BY <1>18
  <2>2. PICK kk \in Nat : kk = k + n
    OBVIOUS
  <2>3. Cuts(sg2, o + kk, o + l)
    BY <1>9, <1>c, <2>2
  <2>4. ~ tb => g2 = [i \in 1 .. kk |-> o + i - 1]
    BY <1>17, <2>2
  <2>5. x \in {"idle", "done"} <=> sg2 = <<>>
    BY <1>18
  <2>6. HasRead(x, o, l, sg2, g2, tb)
    BY <1>7, <1>19, <2>1, <2>3, <2>4, <2>5, Zenon DEF HasRead
  <2>7. Reads(AReader(x, o, l, sg2, ix, rs, g2, tb)) /\ AReader(x, o, l, sg2, ix, rs, g2, tb).pc = x
    BY <2>6, IsRead
  <2> QED
    BY <1>14, <2>7, Zenon
<1>21. ReadersInv' /\ reader'[Emu] = r2
  BY <1>1, <1>15, <1>20, ReaderReplaced DEF RomFsInv
<1>22. reader[Emu].pc # "fill" /\ reader'[Emu].pc \notin {"fill", "copy"}
  BY <1>1, <1>18, <1>20, <1>21
<1> QED
  BY <1>21, <1>22, CacheUntouched DEF Copy

\* How many bytes a read inside the file is for.
LEMMA WholeRead ==
  ASSUME RomFsParameters, NEW o \in Nat, NEW l \in Nat, o + l <= DataSize
  PROVE  Min({l, (DataSize - o) % SizeMod}) = l
PROOF
<1>1. PICK d \in Nat : d = DataSize - o
  BY DEF RomFsParameters
<1>2. d < SizeMod /\ SizeMod \in Nat /\ l <= d
  BY <1>1 DEF RomFsParameters
<1>3. d % SizeMod = d
  BY <1>2
<1>4. Min({l, d}) = l
  BY <1>2, OfTwo
<1> QED
  BY <1>1, <1>3, <1>4

\* A thread that begins to read.
Begun(r, o, l) == [r EXCEPT !.offset = o, !.length = l]

\* What it is doing.
LEMMA BegunIs ==
  ASSUME NEW pc0, NEW o, NEW l, NEW sg, NEW ix, NEW rs, NEW g, NEW ta, NEW o1, NEW l1
  PROVE  Begun(AReader(pc0, o1, l1, sg, ix, rs, g, ta), o, l) = AReader(pc0, o, l, sg, ix, rs, g, ta)
PROOF
<1>1. PICK r : r = [pc |-> pc0, offset |-> o1, length |-> l1, segments |-> sg, index |-> ix,
                    read_size |-> rs, got |-> g, tainted |-> ta]
  OBVIOUS
<1>2. PICK r2 : r2 = [r EXCEPT !.offset = o, !.length = l]
  OBVIOUS
<1>3. r2 = [pc |-> pc0, offset |-> o, length |-> l, segments |-> sg, index |-> ix,
            read_size |-> rs, got |-> g, tainted |-> ta]
  BY <1>1, <1>2
<1> QED
  BY <1>1, <1>2, <1>3, Zenon DEF AReader, Begun

\* A thread that does nothing, with an offset and a length.
LEMMA IdleFields ==
  ASSUME NEW o, NEW l
  PROVE  /\ Idle = AReader("idle", 0, 0, <<>>, 0, 0, <<>>, FALSE)
         /\ [Idle EXCEPT !.offset = o, !.length = l] = AReader("idle", o, l, <<>>, 0, 0, <<>>, FALSE)
PROOF
<1>1. Idle = AReader("idle", 0, 0, <<>>, 0, 0, <<>>, FALSE)
  BY Zenon DEF Idle, AReader
<1>2. [Idle EXCEPT !.offset = o, !.length = l] = AReader("idle", o, l, <<>>, 0, 0, <<>>, FALSE)
  <2>1. Begun(Idle, o, l) = AReader("idle", o, l, <<>>, 0, 0, <<>>, FALSE)
    <3>1. PICK x, z, e, f : x = "idle" /\ z = 0 /\ e = <<>> /\ f = FALSE
      OBVIOUS
    <3>2. Begun(AReader(x, z, z, e, z, z, e, f), o, l) = AReader(x, o, l, e, z, z, e, f)
      BY BegunIs
    <3> QED
      BY <1>1, <3>1, <3>2, Zenon
  <2> QED
    BY <2>1 DEF Begun
<1> QED
  BY <1>1, <1>2

\* A read that begins.
LEMMA ReadKeeps ==
  ASSUME RomFsParameters, RomFsInv, NEW t \in HostThread, NEW offset \in 0 .. MaxOffset,
         NEW length \in 0 .. MaxLength, Read(t, offset, length)
  PROVE  RomFsInv'
PROOF
<1>1. offset \in Nat /\ length \in Nat /\ offset + length <= DataSize
  BY DEF Read, RomFsParameters
<1>2. Min({length, (DataSize - offset) % SizeMod}) = length
  BY <1>1, WholeRead
<1>3. PICK sg, begun : sg = BreakupRead(offset, length)
                       /\ begun = AReader("idle", offset, length, <<>>, 0, 0, <<>>, FALSE)
  OBVIOUS
<1>4. [Idle EXCEPT !.offset = offset, !.length = length] = begun
  BY <1>3, IdleFields
<1>5. PICK r2 : r2 = (IF length = 0 THEN [begun EXCEPT !.pc = "done"]
                      ELSE IF TooBig(sg) THEN [begun EXCEPT !.pc = "done", !.got = Bytes(offset, length)]
                      ELSE [begun EXCEPT !.pc = "request", !.segments = sg])
  OBVIOUS
<1>6. reader' = [reader EXCEPT ![t] = r2] /\ UNCHANGED <<m_list, m_array, torn>>
  BY <1>2, <1>3, <1>4, <1>5, Zenon DEF Read
<1>7. reader[t] = Idle /\ (~ TooBig(sg) <=> t = Emu)
  BY <1>3, Zenon DEF Read, CacheReady
<1>8. /\ length <= LineSize => Cuts(sg, offset, offset + length) /\ ~ TooBig(sg)
      /\ length > 0 => sg # <<>>
      /\ length > LineSize => TooBig(sg)
  BY <1>1, <1>3, ReadIsCut
<1>9. /\ Reads(r2) /\ r2.pc \in {"done", "request"}
      /\ t # Emu => r2.pc = "done"
  <2>1. CASE length = 0
    <3>1. r2 = AReader("done", offset, length, <<>>, 0, 0, <<>>, FALSE)
      BY <1>3, <1>5, <2>1 DEF AReader
    <3>2. Cuts(<<>>, offset + 0, offset + length)
      BY <1>1, <2>1 DEF Cuts
    <3>3. <<>> = [i \in 1 .. 0 |-> offset + i - 1]
      OBVIOUS
    <3>4. \E k \in Nat : Cuts(<<>>, offset + k, offset + length)
                         /\ (~ FALSE => <<>> = [i \in 1 .. k |-> offset + i - 1])
      BY <3>2, <3>3
    <3>5. HasRead("done", offset, length, <<>>, <<>>, FALSE)
      BY <1>1, <3>4 DEF HasRead
    <3>6. Reads(AReader("done", offset, length, <<>>, 0, 0, <<>>, FALSE))
      BY <3>5, IsRead
    <3>7. Reads(r2) /\ r2.pc = "done"
      BY <3>1, <3>6 DEF AReader
    <3> QED
      BY <3>7
  <2>2. CASE length # 0 /\ TooBig(sg)
    <3>1. PICK g : g = Bytes(offset, length)
      OBVIOUS
    <3>2. r2 = AReader("done", offset, length, <<>>, 0, 0, g, FALSE)
      BY <1>3, <1>5, <2>2, <3>1 DEF AReader
    <3>3. g = [i \in 1 .. length |-> offset + i - 1]
      <4>1. offset + length <= FileSize
        BY <1>1 DEF RomFsParameters
      <4> QED
        BY <1>1, <3>1, <4>1, BytesInside
    <3>4. Cuts(<<>>, offset + length, offset + length)
      BY DEF Cuts
    <3>5. \E k \in Nat : Cuts(<<>>, offset + k, offset + length)
                         /\ (~ FALSE => g = [i \in 1 .. k |-> offset + i - 1])
      BY <1>1, <3>3, <3>4, Zenon
    <3>6. HasRead("done", offset, length, <<>>, g, FALSE)
      BY <1>1, <3>5 DEF HasRead
    <3>7. Reads(AReader("done", offset, length, <<>>, 0, 0, g, FALSE))
      BY <3>6, IsRead
    <3>8. Reads(r2) /\ r2.pc = "done"
      BY <3>2, <3>7 DEF AReader
    <3> QED
      BY <3>8
  <2>3. CASE length # 0 /\ ~ TooBig(sg)
    <3>1. r2 = AReader("request", offset, length, sg, 0, 0, <<>>, FALSE)
      BY <1>3, <1>5, <2>3 DEF AReader
    <3>2. Cuts(sg, offset, offset + length) /\ sg # <<>>
      BY <1>1, <1>8, <2>3 DEF RomFsParameters
    <3>3. <<>> = [i \in 1 .. 0 |-> offset + i - 1] /\ offset + 0 = offset
      BY <1>1
    <3>4. \E k \in Nat : Cuts(sg, offset + k, offset + length)
                         /\ (~ FALSE => <<>> = [i \in 1 .. k |-> offset + i - 1])
      BY <3>2, <3>3
    <3>5. HasRead("request", offset, length, sg, <<>>, FALSE)
      BY <1>1, <3>2, <3>4 DEF HasRead
    <3>6. Reads(AReader("request", offset, length, sg, 0, 0, <<>>, FALSE))
      BY <3>5, IsRead
    <3>7. Reads(r2) /\ r2.pc = "request"
      BY <3>1, <3>6 DEF AReader
    <3>8. t = Emu
      BY <1>7, <2>3
    <3> QED
      BY <3>7, <3>8
  <2> QED
    BY <2>1, <2>2, <2>3
<1>10. ReadersInv' /\ reader'[t] = r2 /\ \A u \in HostThread : u # t => reader'[u] = reader[u]
  <2>1. ReadersInv /\ reader' = [reader EXCEPT ![t] = r2]
    BY <1>6 DEF RomFsInv
  <2>2. Reads(r2) /\ (t # Emu => r2.pc \in {"idle", "done"})
    BY <1>9
  <2> QED
    BY <2>1, <2>2, ReaderReplaced
<1>11. \/ reader'[Emu] = reader[Emu]
       \/ reader[Emu].pc # "fill" /\ reader'[Emu].pc \notin {"fill", "copy"}
  <2>1. Idle.pc = "idle" /\ Emu \in HostThread
    BY DEF Idle, HostThread
  <2>2. CASE t = Emu
    BY <1>7, <1>9, <1>10, <2>1, <2>2
  <2>3. CASE t # Emu
    BY <1>10, <2>1, <2>3
  <2> QED
    BY <2>2, <2>3
<1> QED
  BY <1>6, <1>10, <1>11, CacheUntouched

\* A thread that does nothing.
LEMMA IdleReads ==
  ASSUME RomFsParameters
  PROVE  Reads(Idle) /\ Idle.pc = "idle"
PROOF
<1>1. Cuts(<<>>, 0 + 0, 0 + 0) /\ <<>> = [i \in 1 .. 0 |-> 0 + i - 1]
  BY DEF Cuts
<1>2. \E k \in Nat : Cuts(<<>>, 0 + k, 0 + 0) /\ (~ FALSE => <<>> = [i \in 1 .. k |-> 0 + i - 1])
  BY <1>1
<1>3. 0 + 0 <= DataSize
  BY DEF RomFsParameters
<1>4. HasRead("idle", 0, 0, <<>>, <<>>, FALSE)
  BY <1>2, <1>3 DEF HasRead
<1>5. Reads(AReader("idle", 0, 0, <<>>, 0, 0, <<>>, FALSE))
  BY <1>4, IsRead
<1> QED
  BY <1>5, IdleFields DEF Idle

\* The answer is sent.
LEMMA RepliedKeeps ==
  ASSUME RomFsParameters, RomFsInv, NEW t \in HostThread, Replied(t)
  PROVE  RomFsInv'
PROOF
<1>1. PICK r2 : r2 = Idle
  OBVIOUS
<1>2. Reads(r2) /\ r2.pc = "idle"
  BY <1>1, IdleReads
<1>3. ReadersInv /\ reader' = [reader EXCEPT ![t] = r2] /\ UNCHANGED <<m_list, m_array, torn>>
  BY <1>1 DEF RomFsInv, Replied
<1>4. ReadersInv' /\ reader'[t] = r2 /\ \A u \in HostThread : u # t => reader'[u] = reader[u]
  BY <1>2, <1>3, ReaderReplaced
<1>5. \/ reader'[Emu] = reader[Emu]
      \/ reader[Emu].pc # "fill" /\ reader'[Emu].pc \notin {"fill", "copy"}
  <2>1. reader[t].pc = "done" /\ Emu \in HostThread
    BY DEF Replied, HostThread
  <2> QED
    BY <1>2, <1>4, <2>1
<1> QED
  BY <1>3, <1>4, <1>5, CacheUntouched

\* Before the first read.
LEMMA RomFsStarts ==
  ASSUME RomFsParameters, RomFsInit
  PROVE  RomFsInv
PROOF
<1>1. \A t \in HostThread : reader[t] = Idle
  BY DEF RomFsInit
<1>2. ReadersInv
  BY <1>1, IdleReads DEF RomFsInit, ReadersInv
<1>3. m_list = <<>> /\ Len(m_list) = 0 /\ m_list \in Seq(Nat \X (0 .. LineCount - 1))
  BY DEF RomFsInit
<1>4. ListInv
  <2>1. 1 .. Len(m_list) = {} /\ Len(m_list) <= LineCount
    BY <1>3 DEF RomFsParameters
  <2> QED
    BY <1>3, <2>1 DEF ListInv
<1>5. LinesInv
  <2>1. 1 .. Len(m_list) = {}
    BY <1>3
  <2>2. m_array \in [0 .. LineCount - 1 -> [0 .. LineSize - 1 -> Int]]
    BY DEF RomFsInit
  <2> QED
    BY <2>1, <2>2 DEF LinesInv
<1>6. EmuInv
  <2>1. reader[Emu].pc = "idle"
    BY <1>1, IdleReads DEF HostThread
  <2> QED
    BY <2>1 DEF EmuInv
<1> QED
  BY <1>2, <1>4, <1>5, <1>6 DEF RomFsInv

\* Every step of the readers keeps the invariant.
LEMMA RomFsKeeps ==
  ASSUME RomFsParameters, RomFsInv, [RomFsNext]_romfs_vars
  PROVE  RomFsInv'
PROOF
<1>1. CASE RomFsNext
  <2>1. PICK t \in HostThread :
          \/ \E offset \in 0 .. MaxOffset, length \in 0 .. MaxLength : Read(t, offset, length)
          \/ RequestHit(t) \/ RequestMiss(t) \/ Fill(t) \/ FillFails(t) \/ Copy(t) \/ Replied(t)
    BY <1>1 DEF RomFsNext
  <2> QED
    BY <2>1, ReadKeeps, HitKeeps, MissKeeps, FillKeeps, FillFailsKeeps, CopyKeeps, RepliedKeeps
<1>2. CASE UNCHANGED romfs_vars
  <2>1. reader' = reader /\ UNCHANGED <<m_list, m_array, torn>>
    BY <1>2 DEF romfs_vars
  <2>2. ReadersInv'
    BY <2>1, SMTT(30) DEF RomFsInv, ReadersInv, Reads
  <2> QED
    BY <2>1, <2>2, CacheUntouched
<1> QED
  BY <1>1, <1>2

\* A read that is over has all its bytes, and one thread is in the cache.
LEMMA RomFsIsFaithful ==
  ASSUME RomFsParameters, RomFsInv
  PROVE  ReadsFaithful
PROOF
<1>1. ASSUME NEW t \in HostThread, reader[t].pc = "done", ~ reader[t].tainted
      PROVE  reader[t].got = Bytes(reader[t].offset, reader[t].length)
  <2>1. PICK r, o, l : r = reader[t] /\ o = r.offset /\ l = r.length
    OBVIOUS
  <2>2. Reads(r) /\ r.pc = "done" /\ ~ r.tainted
    BY <1>1, <2>1 DEF RomFsInv, ReadersInv
  <2>3. r.segments = <<>> /\ o \in Nat /\ l \in Nat /\ o + l <= DataSize
    BY <2>1, <2>2 DEF Reads
  <2>4. PICK k \in Nat : Cuts(r.segments, o + k, o + l) /\ r.got = [i \in 1 .. k |-> o + i - 1]
    BY <2>1, <2>2 DEF Reads
  <2>5. o + k = o + l
    <3>1. \A a, b : <<>> # <<a>> /\ <<>> # <<a, b>>
      OBVIOUS
    <3> QED
      BY <2>3, <2>4, <3>1 DEF Cuts
  <2>6. k = l
    BY <2>3, <2>5
  <2>7. Bytes(o, l) = [i \in 1 .. l |-> o + i - 1]
    <3>1. o + l <= FileSize
      BY <2>3 DEF RomFsParameters
    <3> QED
      BY <2>3, <3>1, BytesInside
  <2> QED
    BY <2>1, <2>4, <2>6, <2>7
<1>2. BytesFaithful
  BY <1>1 DEF BytesFaithful
<1>3. OneInCache
  BY DEF RomFsInv, ReadersInv, OneInCache, InCache
<1> QED
  BY <1>2, <1>3 DEF ReadsFaithful

\* A read of the RomFS returns the bytes of the file, whatever lines of the cache it
\* is cut into and whatever pages these held before, and only one thread is in the
\* cache, which has no lock (romfs_reader.cpp:22, 93, file.cpp:122).
THEOREM ReadsFaithfulHolds ==
  ASSUME RomFsParameters
  PROVE  RomFsSpec => []ReadsFaithful
PROOF
<1>1. RomFsInit => RomFsInv
  BY RomFsStarts
<1>2. RomFsInv /\ [RomFsNext]_romfs_vars => RomFsInv'
  BY RomFsKeeps
<1>3. RomFsInv => ReadsFaithful
  BY RomFsIsFaithful
<1> QED
  BY <1>1, <1>2, <1>3, PTL DEF RomFsSpec
=============================================================================
