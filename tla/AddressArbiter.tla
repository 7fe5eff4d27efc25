--------------------------- MODULE AddressArbiter ---------------------------
(***************************************************************************)
(* The address arbiter of the emulated kernel (address_arbiter.cpp) with   *)
(* the parts of Thread it relies on: the wake-up event, the wake-up        *)
(* callback, ResumeFromWait and Stop.  One arbiter; a thread is "Ready"    *)
(* until it is switched in, which cancels its event.  Words of memory are  *)
(* two's complement of a small width.                                      *)
(***************************************************************************)
EXTENDS Integers, Sequences, FiniteSets, SequencesExt

CONSTANTS Thread, Address,
          Priority,   \* of each thread; lower is better
          Low, High,  \* range of a word: INT32_MIN and INT32_MAX
          MayStop,    \* threads that may be stopped
          MayClose    \* whether the arbiter's last handle may be closed

VARIABLES memory,           \* the word at each address
          status,
          wait_address,
          waiting_threads,  \* of the arbiter
          wakeup_event,     \* the thread has a timeout scheduled
          wakeup_callback,  \* the thread holds the arbiter's timeout callback
          alive,            \* the arbiter exists
          stale_waiter,     \* an assertion of the arbiter failed
          stale_callback    \* the callback ran after the arbiter's destruction

vars == <<memory, status, wait_address, waiting_threads, wakeup_event,
          wakeup_callback, alive, stale_waiter, stale_callback>>

Word == Low .. High

NoWrap(v) == v   \* mutant

Wrap(v) == Low + ((v - Low) % (High - Low + 1))

Init ==
  /\ memory \in [Address -> {0, Low}]
  /\ status = [t \in Thread |-> "Running"]
  /\ wait_address \in [Thread -> {CHOOSE a \in Address : TRUE}]
  /\ waiting_threads = <<>>
  /\ wakeup_event = [t \in Thread |-> FALSE]
  /\ wakeup_callback = [t \in Thread |-> FALSE]
  /\ alive = TRUE
  /\ stale_waiter = FALSE /\ stale_callback = FALSE

-----------------------------------------------------------------------------
Matches(address) == SelectSeq(waiting_threads, LAMBDA t : wait_address[t] = address)

\* The effect of std::stable_partition: the matches move to the end, in order.
Partition(address) ==
  SelectSeq(waiting_threads, LAMBDA t : wait_address[t] # address) \o Matches(address)

ArrivalRank(m, i) == i - 1   \* mutant

\* How many of the matches m std::min_element prefers to the i-th: those of
\* better priority and, of the same priority, the ones before it.
Rank(m, i) ==
  Cardinality({j \in DOMAIN m : \/ Priority[m[j]] < Priority[m[i]]
                                \/ Priority[m[j]] = Priority[m[i]] /\ j < i})

\* The threads that `value` rounds of ResumeHighestPriorityThread take, or all.
Chosen(address, value) ==
  LET m == Matches(address)
  IN  {m[i] : i \in {j \in DOMAIN m : value < 0 \/ Rank(m, j) < value}}

ResumeNobody(threads) == UNCHANGED <<status, wakeup_callback>>   \* mutant

\* Thread::ResumeFromWait, which leaves a dead thread alone.
ResumeFromWait(threads) ==
  LET woken == {t \in threads : status[t] = "WaitArb"}
  IN  /\ status' = [t \in Thread |-> IF t \in woken THEN "Ready" ELSE status[t]]
      /\ wakeup_callback' = [t \in Thread |-> t \notin woken /\ wakeup_callback[t]]

Remaining(address, woken) == SelectSeq(Partition(address), LAMBDA t : t \notin woken)

Signal(t, address, value) ==
  /\ status[t] = "Running" /\ alive
  /\ LET woken == Chosen(address, value)
     IN  /\ ResumeFromWait(woken)
         /\ waiting_threads' = IF value = 0 THEN waiting_threads ELSE Remaining(address, woken)
  /\ stale_waiter' = (stale_waiter \/ (value # 0 /\ \E w \in Range(waiting_threads) :
                                                     status[w] # "WaitArb"))
  /\ UNCHANGED <<memory, wait_address, wakeup_event, alive, stale_callback>>

\* The four waits: with or without a decrement, with or without a timeout;
\* a timeout of -1 nanoseconds schedules no event.
Wait(t, address, value, decrement, timeout, forever) ==
  /\ status[t] = "Running" /\ alive
  /\ memory[address] < value
  /\ memory' = IF decrement THEN [memory EXCEPT ![address] = Wrap(@ - 1)] ELSE memory
  /\ wakeup_callback' = [wakeup_callback EXCEPT ![t] = @ \/ timeout]
  /\ wakeup_event' = [wakeup_event EXCEPT ![t] = timeout /\ ~ forever]
  /\ wait_address' = [wait_address EXCEPT ![t] = address]
  /\ status' = [status EXCEPT ![t] = "WaitArb"]
  /\ waiting_threads' = Append(waiting_threads, t)
  /\ UNCHANGED <<alive, stale_waiter, stale_callback>>

-----------------------------------------------------------------------------
KeepInList(t) == waiting_threads   \* mutant

TakenOut(t) == SelectSeq(waiting_threads, LAMBDA w : w # t)

\* ThreadWakeupCallback: the timeout runs the callback of a thread that still
\* waits.  The callback holds a plain reference to the arbiter.
Timeout(t) ==
  /\ wakeup_event[t]
  /\ wakeup_event' = [wakeup_event EXCEPT ![t] = FALSE]
  /\ LET runs == status[t] = "WaitArb" /\ wakeup_callback[t]
     IN  /\ waiting_threads' = IF runs /\ alive THEN TakenOut(t) ELSE waiting_threads
         /\ stale_callback' = (stale_callback \/ (runs /\ ~ alive))
  /\ ResumeFromWait({t})
  /\ UNCHANGED <<memory, wait_address, alive, stale_waiter>>

\* SwitchContext cancels the event of the thread it switches in.
Run(t) ==
  /\ status[t] = "Ready"
  /\ status' = [status EXCEPT ![t] = "Running"]
  /\ wakeup_event' = [wakeup_event EXCEPT ![t] = FALSE]
  /\ UNCHANGED <<memory, wait_address, waiting_threads, wakeup_callback, alive,
                 stale_waiter, stale_callback>>

\* Thread::Stop cancels the event; the arbiter's list is not a wait object.
Stop(t) ==
  /\ status[t] # "Dead"
  /\ status' = [status EXCEPT ![t] = "Dead"]
  /\ wakeup_event' = [wakeup_event EXCEPT ![t] = FALSE]
  /\ UNCHANGED <<memory, wait_address, waiting_threads, wakeup_callback, alive,
                 stale_waiter, stale_callback>>

\* The destructor drops the list and leaves its threads waiting.
CloseArbiter ==
  /\ alive
  /\ alive' = FALSE
  /\ waiting_threads' = <<>>
  /\ UNCHANGED <<memory, status, wait_address, wakeup_event, wakeup_callback,
                 stale_waiter, stale_callback>>

\* The guest's own stores to the words it arbitrates.
GuestWrite(address, value) ==
  /\ memory' = [memory EXCEPT ![address] = value]
  /\ UNCHANGED <<status, wait_address, waiting_threads, wakeup_event, wakeup_callback,
                 alive, stale_waiter, stale_callback>>

Next ==
  \/ \E t \in Thread, a \in Address :
       \/ \E v \in {-1, 0, 1, 2} : Signal(t, a, v)
       \/ \E d, timeout, forever \in BOOLEAN : Wait(t, a, 1, d, timeout, forever)
  \/ \E t \in Thread : Timeout(t) \/ Run(t)
  \/ \E t \in MayStop : Stop(t)
  \/ MayClose /\ CloseArbiter
  \/ \E a \in Address : \E v \in {0, 1} : GuestWrite(a, v)

Spec == Init /\ [][Next]_vars
FairSpec == Spec /\ \A t \in Thread : WF_vars(Timeout(t)) /\ WF_vars(Run(t))

-----------------------------------------------------------------------------
\* Well-typed states.
TypeOK ==
  /\ memory \in [Address -> Word]
  /\ status \in [Thread -> {"Running", "Ready", "WaitArb", "Dead"}]
  /\ wait_address \in [Thread -> Address]
  /\ waiting_threads \in Seq(Thread)
  /\ wakeup_event \in [Thread -> BOOLEAN] /\ wakeup_callback \in [Thread -> BOOLEAN]
  /\ {alive, stale_waiter, stale_callback} \subseteq BOOLEAN

\* The list holds every waiting thread once and no other, whatever mixture of
\* signals, timeouts of threads already signalled and new waits came before
\* (address_arbiter.cpp:22, 42, 69 and 111): a thread left behind would be
\* resumed out of a later, unrelated wait, one dropped would wait for ever.
ListHoldsTheWaiters ==
  /\ IsInjective(waiting_threads)
  /\ Range(waiting_threads) = {t \in Thread : status[t] = "WaitArb"}

\* A signal prefers better priorities and, between equals, the longest wait:
\* if the step of another thread's signal wakes w and leaves r waiting for the
\* same address, then w is of better priority or was before r in the list
\* (address_arbiter.cpp:55).  The list keeps the order of arrival through the
\* partitions of signals to other addresses.
BestWaiterFirst ==
  \A a \in Address : LET before == Matches(a)  after == Matches(a)' IN
       /\ \A i, j \in DOMAIN before :
            /\ before[i] \notin Range(after) /\ before[j] \in Range(after)
            /\ ~ wakeup_event[before[i]]
            => \/ Priority[before[i]] < Priority[before[j]]
               \/ Priority[before[i]] = Priority[before[j]] /\ i < j
       /\ SelectSeq(after, LAMBDA t : t \in Range(before))
            = SelectSeq(before, LAMBDA t : t \in Range(after))

\* A wait with a timeout ends, signal or not (address_arbiter.cpp:148).
TimedArbitrationEnds ==
  \A t \in Thread : (status[t] = "WaitArb" /\ wakeup_event[t]) ~> status[t] # "WaitArb"

\* address_arbiter.cpp:32 and 50 assert that every thread in the list waits.
ListAssertion == ~ stale_waiter

\* address_arbiter.cpp:110: "Remove the newly-awakened thread from the
\* Arbiter's waiting list." supposes that the arbiter is still there.
CallbackFindsArbiter == ~ stale_callback
=============================================================================
