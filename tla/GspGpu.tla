------------------------------- MODULE GspGpu -------------------------------
(***************************************************************************)
(* The service gsp::Gpu: sessions and their thread ids, the GPU right, the *)
(* command buffers and interrupt relay queues in the shared memory of the  *)
(* service, and the frame buffers of the two screens.  A handler runs      *)
(* without interruption, GPU commands included; the clients' accesses to   *)
(* the shared memory come in between.                                      *)
(***************************************************************************)
EXTENDS Services, Integers, Sequences, FiniteSets, SequencesExt, FiniteSetsExt

CONSTANTS Session,
          MaxGSPThreads,
          Slots,       \* 0x34 slots of a relay queue
          Wrap,        \* 2^8: number_interrupts is a u8
          Commands,    \* 0xF commands of a buffer
          Command,     \* commands in use: [irq |-> interrupt or None, stop |-> BOOLEAN]
          Frame,       \* frame buffers in use
          Drawn,       \* screens that clients draw on
          Lag,         \* interrupts that a client lets pile up
          Patient      \* clients ask for the right only when it is free

VARIABLES session,           \* None or the SessionData
          used_thread_ids,
          active_thread_id,
          relay,             \* interrupt relay queues
          buffer,            \* command buffers
          update,            \* FrameBufferUpdate of each thread and screen
          shown,             \* what the screens show
          asserted,          \* an assertion has failed
          pending,           \* interrupts signalled and not taken by the client
          todo               \* commands written and not yet run

vars == <<session, used_thread_ids, active_thread_id, relay, buffer, update, shown, asserted,
          pending, todo>>

Thread == 0 .. MaxGSPThreads - 1
Screen == {0, 1}
Saved  == [s \in Screen |-> <<"saved", s>>]
Connected == {s \in Session : session[s] # None}

Init ==
  /\ session = [s \in Session |-> None]
  /\ used_thread_ids = {}
  /\ active_thread_id = None
  /\ relay = [t \in Thread |-> [index |-> 0, number |-> 0, slot |-> [i \in 0 .. Slots - 1 |-> None]]]
  /\ buffer = [t \in Thread |-> [index |-> 0, number |-> 0, stopped |-> FALSE,
                                 commands |-> [i \in 0 .. Commands - 1 |-> None]]]
  /\ update = [t \in Thread |-> [c \in Screen |-> [index |-> 0, is_dirty |-> FALSE,
                                                   info |-> [i \in {0, 1} |-> None]]]]
  /\ shown = [c \in Screen |-> None]
  /\ asserted = FALSE
  /\ pending = [t \in Thread |-> <<>>]
  /\ todo = [t \in Thread |-> <<>>]

Shared == <<relay, buffer, update, shown, pending, todo>>

-----------------------------------------------------------------------------
(* Sessions and the right *)

\* GetUnusedThreadId.  The port lets in no more sessions than there are ids.
Connect(s) ==
  /\ session[s] = None /\ Cardinality(Connected) < MaxGSPThreads
  /\ LET free == Thread \ used_thread_ids IN
     IF free # {}
     THEN /\ session' = [session EXCEPT ![s] = [thread_id |-> Min(free), registered |-> FALSE]]
          /\ used_thread_ids' = used_thread_ids \cup {Min(free)}
          /\ UNCHANGED asserted
     ELSE /\ asserted' = TRUE
          /\ UNCHANGED <<session, used_thread_ids>>
  /\ UNCHANGED <<active_thread_id, Shared>>

DisconnectWithRight(s) ==   \* mutant
  /\ session[s] # None
  /\ session' = [session EXCEPT ![s] = None]
  /\ used_thread_ids' = used_thread_ids \ {session[s].thread_id}
  /\ UNCHANGED <<active_thread_id, asserted, Shared>>

DisconnectKeepsId(s) ==   \* mutant
  /\ session[s] # None
  /\ session' = [session EXCEPT ![s] = None]
  /\ active_thread_id' = IF active_thread_id = session[s].thread_id THEN None ELSE active_thread_id
  /\ UNCHANGED <<used_thread_ids, asserted, Shared>>

\* ClientDisconnected and ~SessionData.  The shared memory stays as it is.
Disconnect(s) ==
  /\ session[s] # None
  /\ session' = [session EXCEPT ![s] = None]
  /\ used_thread_ids' = used_thread_ids \ {session[s].thread_id}
  /\ active_thread_id' = IF active_thread_id = session[s].thread_id THEN None ELSE active_thread_id
  /\ UNCHANGED <<asserted, Shared>>

\* RegisterInterruptRelayQueue and UnregisterInterruptRelayQueue.
Register(s, on) ==
  /\ session[s] # None
  /\ session' = [session EXCEPT ![s].registered = on]
  /\ UNCHANGED <<used_thread_ids, active_thread_id, asserted, Shared>>

\* AcquireGpuRight.  AcquireRight cannot wait: it asserts that the right is free.
AcquireGpuRight(s, blocking) ==
  /\ session[s] # None /\ active_thread_id # session[s].thread_id
  /\ Patient => active_thread_id = None
  /\ IF active_thread_id = None
     THEN active_thread_id' = session[s].thread_id /\ UNCHANGED asserted
     ELSE asserted' = (asserted \/ blocking) /\ UNCHANGED active_thread_id
  /\ UNCHANGED <<session, used_thread_ids, Shared>>

ReleaseRight(s) ==
  /\ session[s] # None /\ active_thread_id = session[s].thread_id
  /\ active_thread_id' = None
  /\ UNCHANGED <<session, used_thread_ids, asserted, Shared>>

-----------------------------------------------------------------------------
(* Interrupts *)

\* FindRegisteredThreadData
Registered(t) == \E s \in Connected : session[s].registered /\ session[s].thread_id = t

SignalAtIndex(q, irqs) ==   \* mutant
  LET here(i) == {k \in 1 .. Len(irqs) : (q.number + k - 1) % Slots = i} IN
  [q EXCEPT !.number = (@ + Len(irqs)) % Wrap,
            !.slot = [i \in 0 .. Slots - 1 |-> IF here(i) = {} THEN @[i] ELSE irqs[Max(here(i))]]]

\* SignalInterruptForThread, the queue, for interrupts that come one after the
\* other: each goes into the slot after the last one in use.
Signal(q, irqs) ==
  LET here(i) == {k \in 1 .. Len(irqs) : ((q.index + q.number + k - 1) % Wrap) % Slots = i} IN
  [q EXCEPT !.number = (@ + Len(irqs)) % Wrap,
            !.slot = [i \in 0 .. Slots - 1 |-> IF here(i) = {} THEN @[i] ELSE irqs[Max(here(i))]]]

\* SignalInterrupt for the active thread, once for each command that was run.
Raise(t, irqs) ==
  IF t # None /\ Registered(t) /\ irqs # <<>>
  THEN /\ Len(pending[t]) + Len(irqs) <= Lag
       /\ relay' = [relay EXCEPT ![t] = Signal(@, irqs)]
       /\ pending' = [pending EXCEPT ![t] = @ \o irqs]
  ELSE UNCHANGED <<relay, pending>>

FlipOther(c, display) ==   \* mutant
  LET dirty == {t \in Thread : Registered(t) /\ update[t][c].is_dirty} IN
  IF dirty = {} THEN display ELSE update[Max(dirty)][c].info[1 - update[Max(dirty)][c].index]

\* SignalInterruptForThread, the screens: each registered thread in turn shows
\* the frame it has handed over, so that the last one stays.
Flip(c, display) ==
  LET dirty == {t \in Thread : Registered(t) /\ update[t][c].is_dirty} IN
  IF dirty = {} THEN display ELSE update[Max(dirty)][c].info[update[Max(dirty)][c].index]

\* VBlankCallback: PDC0 and PDC1 for every registered thread.
VBlank ==
  LET listening == {t \in Thread : Registered(t)} IN
  /\ \A t \in listening : Len(pending[t]) + 2 <= Lag
  /\ relay' = [t \in Thread |-> IF t \in listening THEN Signal(relay[t], <<"PDC0", "PDC1">>)
                                ELSE relay[t]]
  /\ pending' = [t \in Thread |-> IF t \in listening THEN pending[t] \o <<"PDC0", "PDC1">>
                                  ELSE pending[t]]
  /\ shown' = [c \in Screen |-> Flip(c, shown[c])]
  /\ update' = [t \in Thread |-> [c \in Screen |->
                  IF t \in listening THEN [update[t][c] EXCEPT !.is_dirty = FALSE] ELSE update[t][c]]]
  /\ UNCHANGED <<session, used_thread_ids, active_thread_id, buffer, asserted, todo>>

\* A client takes the oldest interrupt off its queue.
TakeInterrupt(t) ==
  /\ relay[t].number > 0 /\ pending[t] # <<>> /\ Registered(t)
  /\ relay' = [relay EXCEPT ![t].number = @ - 1, ![t].index = (@ + 1) % Slots]
  /\ pending' = [pending EXCEPT ![t] = Tail(@)]
  /\ UNCHANGED <<session, used_thread_ids, active_thread_id, buffer, update, shown, asserted, todo>>

-----------------------------------------------------------------------------
(* Commands *)

\* A client writes a command behind the last one.
WriteCommand(s, c) ==
  LET t == session[s].thread_id
      b == buffer[t]
  IN
  /\ session[s] # None /\ b.number < Commands
  /\ buffer' = [buffer EXCEPT ![t].commands[(b.index + b.number) % Commands] = c,
                              ![t].number = @ + 1]
  /\ todo' = [todo EXCEPT ![t] = Append(@, c)]
  /\ UNCHANGED <<session, used_thread_ids, active_thread_id, relay, update, shown, asserted, pending>>

\* A client that found its buffer stopped sets it going again.
ClearStatus(t) ==
  /\ buffer[t].stopped
  /\ buffer' = [buffer EXCEPT ![t].stopped = FALSE]
  /\ UNCHANGED <<session, used_thread_ids, active_thread_id, relay, update, shown, asserted, pending,
                 todo>>

\* The commands in a buffer, the next one first.
Written(b) == [i \in 1 .. b.number |-> b.commands[(b.index + i - 1) % Commands]]

RunsAll(b) == b.number   \* mutant

\* How many of them run: up to the first that says stop.
Runs(b) ==
  LET stops == {i \in 1 .. b.number : Written(b)[i].stop} IN
  IF b.stopped THEN 0 ELSE IF stops = {} THEN b.number ELSE Min(stops)

AdvanceTooFar(b, n) ==   \* mutant
  [b EXCEPT !.index = (@ + n) % (Commands + 1), !.number = @ - n, !.stopped = @ \/ (n > 0 /\ Written(b)[n].stop)]

\* The header after n commands.
Advance(b, n) ==
  [b EXCEPT !.index = (@ + n) % Commands, !.number = @ - n,
            !.stopped = @ \/ (n > 0 /\ Written(b)[n].stop)]

\* GPU::Execute: the interrupts of a list of commands; a cache flush has none.
Interrupts(cs) ==
  LET raising == {k \in 1 .. Len(cs) : cs[k].irq # None} IN
  [i \in 1 .. Cardinality(raising) |->
     cs[CHOOSE k \in raising : Cardinality(raising \cap (1 .. k)) = i].irq]

\* TriggerCmdReqQueue runs the commands of the thread that has the right,
\* whichever session asked.
TriggerCmdReqQueue(s) ==
  /\ session[s] # None
  /\ LET t == active_thread_id IN
     IF t = None
     THEN UNCHANGED <<relay, buffer, pending, todo>>
     ELSE LET n == Runs(buffer[t]) IN
          /\ buffer' = [buffer EXCEPT ![t] = Advance(@, n)]
          /\ Raise(t, Interrupts(SubSeq(Written(buffer[t]), 1, n)))
          /\ todo' = [todo EXCEPT ![t] = SubSeq(@, n + 1, Len(@))]
  /\ UNCHANGED <<session, used_thread_ids, active_thread_id, update, shown, asserted>>

-----------------------------------------------------------------------------
(* Screens *)

\* A client hands over a frame in the half of the structure it did not use last.
HandOver(t, c, f) ==
  /\ Registered(t) /\ ~ update[t][c].is_dirty
  /\ LET i == 1 - update[t][c].index IN
     update' = [update EXCEPT ![t][c] = [@ EXCEPT !.index = i, !.is_dirty = TRUE, !.info[i] = f]]
  /\ UNCHANGED <<session, used_thread_ids, active_thread_id, relay, buffer, shown, asserted, pending,
                 todo>>

\* SaveVramSysArea copies what the holder shows and shows the copy.
SaveVramSysArea(s) ==
  /\ session[s] # None /\ active_thread_id # None
  /\ shown' = Saved
  /\ UNCHANGED <<session, used_thread_ids, active_thread_id, relay, buffer, update, asserted, pending,
                 todo>>

\* RestoreVramSysArea goes back to the frames of the holder; the bottom screen's
\* frame is looked up with the index of the top screen.
Restored(t) ==
  [c \in Screen |-> update[t][c].info[update[t][0].index]]

RestoreVramSysArea(s) ==
  /\ session[s] # None /\ active_thread_id # None
  /\ shown' = Restored(active_thread_id)
  /\ UNCHANGED <<session, used_thread_ids, active_thread_id, relay, buffer, update, asserted, pending,
                 todo>>

Next ==
  \/ \E s \in Session :
       \/ Connect(s) \/ Disconnect(s) \/ ReleaseRight(s)
       \/ \E b \in BOOLEAN : Register(s, b) \/ AcquireGpuRight(s, b)
       \/ \E c \in Command : WriteCommand(s, c)
       \/ TriggerCmdReqQueue(s)
       \/ Frame # {} /\ (SaveVramSysArea(s) \/ RestoreVramSysArea(s))
  \/ \E t \in Thread : \/ TakeInterrupt(t) \/ ClearStatus(t)
                       \/ \E c \in Drawn, f \in Frame : HandOver(t, c, f)
  \/ VBlank

Spec == Init /\ [][Next]_vars

-----------------------------------------------------------------------------
\* The session that has the right is connected, and no two sessions have the
\* same thread id: a client that dies while it draws does not keep the others
\* from the GPU (gsp_gpu.cpp:85).
RightHeldByOne ==
  /\ active_thread_id # None =>
       \E s \in Connected : session[s].thread_id = active_thread_id
  /\ \A s, u \in Connected : s # u => session[s].thread_id # session[u].thread_id

\* What a client finds in its relay queue is what was signalled and it has not
\* taken, oldest first (gsp_interrupt.h:27: "Number of interrupts remaining to
\* be processed by the userland code").
RelayFaithful ==
  \A t \in Thread :
    /\ relay[t].number = Len(pending[t])
    /\ \A i \in 1 .. Len(pending[t]) : relay[t].slot[(relay[t].index + i - 1) % Slots] = pending[t][i]

\* The command buffer holds the commands that were written and not run, in the
\* order they were written, however the ring has turned.
CommandsFaithful == \A t \in Thread : Written(buffer[t]) = todo[t]

\* No command runs while the buffer is stopped, and none runs behind the one
\* that stops it (gsp_command.h:110: "the GSP module stops processing the
\* commands in the command buffer").
StopsAtStop ==
  \A t \in Thread : Len(todo'[t]) < Len(todo[t]) =>
    /\ ~ buffer[t].stopped
    /\ \A i \in 1 .. Len(todo[t]) - Len(todo'[t]) - 1 : ~ todo[t][i].stop

\* The assertions of the service: an id is always free for a session that the
\* port lets in (gsp_gpu.cpp:62), and a client never has to sleep for the right
\* (gsp_gpu.cpp:709: "Sleeping for GPU right is not yet supported.").
Assertions == ~ asserted

\* The right and the ids are sound and no assertion about them fails
\* (gsp_gpu.cpp:62, 85 and 709).
RightSound == RightHeldByOne /\ Assertions

\* A frame that was handed over is not dropped: when its flag is cleared it is on
\* the screen, or the frame of a later thread that was handed over as well.
FramesShown ==
  \A t \in Thread, c \in Screen : update[t][c].is_dirty /\ ~ update'[t][c].is_dirty =>
    \E u \in t .. MaxGSPThreads - 1 :
      update[u][c].is_dirty /\ shown'[c] = update[u][c].info[update[u][c].index]

\* The command buffer holds what was written and not run (gsp_gpu.cpp:411), and
\* the relay queue the interrupts that the client has not taken (gsp_gpu.cpp:350).
SharedMemoryFaithful == CommandsFaithful /\ RelayFaithful

\* Nothing runs behind a command that stops the buffer (gsp_command.h:110), and a
\* frame that was handed over is shown (gsp_gpu.cpp:365).
GpuSteps == [][StopsAtStop /\ FramesShown]_vars

\* A step that changes a screen shows a frame that its client has just handed
\* over or had on show before (gsp_gpu.h:50: "Index used for
\* GSP::SetBufferSwap"), or the saved copy.
ScreensShowCurrent ==
  \A c \in Screen : shown'[c] # shown[c] =>
    \/ shown'[c] = Saved[c]
    \/ \E t \in Thread : shown'[c] = update[t][c].info[update[t][c].index]
=============================================================================
