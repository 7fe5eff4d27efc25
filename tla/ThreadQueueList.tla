--------------------------- MODULE ThreadQueueList ---------------------------
(***************************************************************************)
(* common/thread_queue_list.h: the ready queue.  Every priority that was   *)
(* ever used has an array with room at both ends; these are linked from    *)
(* the best to the worst.  An array is grown, and its contents moved to    *)
(* the middle, when an end is reached.  Allocation succeeds.               *)
(***************************************************************************)
EXTENDS Integers, Sequences, FiniteSets, FiniteSetsExt

CONSTANTS Id,                \* threads; each is queued at most once
          NUM_QUEUES,
          INITIAL_CAPACITY,
          None

VARIABLES first,    \* the best queue that was ever used, Invalid if there is none
          queues,   \* [priority -> [next, first, end, capacity, data]]
          popped    \* what the last pop returned

vars == <<first, queues, popped>>

Priority == 0 .. NUM_QUEUES - 1
Invalid  == NUM_QUEUES   \* the pointer -1, above all queues
NULL     == -1

\* The cells outside first .. end - 1 have no value of interest (None).
Empty == [next |-> NULL, first |-> 0, end |-> 0, capacity |-> 0, data |-> <<>>]

Size(q) == q.end - q.first
Holds(q, x) == \E i \in q.first .. q.end - 1 : q.data[i] = x
Queued(x) == \E p \in Priority : Holds(queues[p], x)

Init == first = Invalid /\ queues = [p \in Priority |-> Empty] /\ popped = None

-----------------------------------------------------------------------------
\* memmove of the n items at `from` to `to`, in an array of c cells.
Moved(data, c, from, to, n) ==
  [i \in 0 .. c - 1 |-> IF i \in to .. to + n - 1 THEN data[i - to + from] ELSE None]

RebalanceUngrown(q) ==   \* mutant
  LET to == (q.capacity - Size(q)) \div 2
  IN  [q EXCEPT !.first = to, !.end = to + Size(q),
                !.data = Moved(q.data, q.capacity, q.first, to, Size(q))]

\* rebalance
Rebalance(q) ==
  LET c  == IF Size(q) >= q.capacity - 2 THEN 2 * q.capacity ELSE q.capacity
      to == (c - Size(q)) \div 2
  IN  [q EXCEPT !.capacity = c, !.first = to, !.end = to + Size(q),
                !.data = Moved(q.data, c, q.first, to, Size(q))]

\* prepare and link: behind the nearest better queue in use, or in front.
Prepare(p) ==
  LET better == {b \in 0 .. p - 1 : queues[b].next # NULL}
      b      == Max(better)
      new(n) == [next |-> n, first |-> INITIAL_CAPACITY \div 2, end |-> INITIAL_CAPACITY \div 2,
                 capacity |-> INITIAL_CAPACITY, data |-> [i \in 0 .. INITIAL_CAPACITY - 1 |-> None]]
  IN
  /\ queues[p].next = NULL
  /\ IF better = {}
     THEN first' = p /\ queues' = [queues EXCEPT ![p] = new(first)]
     ELSE queues' = [queues EXCEPT ![p] = new(queues[b].next), ![b].next = p] /\ UNCHANGED first
  /\ UNCHANGED popped

\* push_front and push_back, at a priority that was prepared.
PushFront(p, x) ==
  LET q == [queues[p] EXCEPT !.first = @ - 1, !.data[queues[p].first - 1] = x] IN
  /\ queues[p].next # NULL /\ ~ Queued(x)
  /\ queues' = [queues EXCEPT ![p] = IF q.first = 0 THEN Rebalance(q) ELSE q]
  /\ UNCHANGED <<first, popped>>

PushBack(p, x) ==
  LET q == [queues[p] EXCEPT !.end = @ + 1, !.data[queues[p].end] = x] IN
  /\ queues[p].next # NULL /\ ~ Queued(x)
  /\ queues' = [queues EXCEPT ![p] = IF q.end = q.capacity THEN Rebalance(q) ELSE q]
  /\ UNCHANGED <<first, popped>>

\* remove; a thread that is not there is not missed.
Remove(p, x) ==
  LET q == queues[p]
      i == CHOOSE i \in q.first .. q.end - 1 : q.data[i] = x
  IN
  /\ Holds(q, x)
  /\ queues' = [queues EXCEPT ![p].end = @ - 1,
                 ![p].data = [j \in DOMAIN q.data |-> IF j \notin i .. q.end - 1 THEN q.data[j]
                                                       ELSE IF j = q.end - 1 THEN None
                                                       ELSE q.data[j + 1]]]
  /\ UNCHANGED <<first, popped>>

Rotate(p) ==
  LET q == queues[p]
      r == [q EXCEPT !.first = @ + 1, !.end = @ + 1, !.data[q.end] = q.data[q.first],
                     !.data[q.first] = None]
  IN
  /\ Size(q) > 1
  /\ queues' = [queues EXCEPT ![p] = IF r.end = r.capacity THEN Rebalance(r) ELSE r]
  /\ UNCHANGED <<first, popped>>

\* The queues that a walk along the links from `first` meets, up to `stop`.
Walk(stop) ==
  LET reach[n \in 0 .. NUM_QUEUES] ==
        IF n = 0 THEN <<first>>
        ELSE LET w == reach[n - 1] c == w[Len(w)]
             IN  IF c >= stop THEN w ELSE Append(w, queues[c].next)
  IN  SelectSeq(reach[NUM_QUEUES], LAMBDA c : c < stop)

\* pop_first and pop_first_better, which stops at its priority.
PopUpTo(stop) ==
  LET w    == Walk(stop)
      full == {i \in DOMAIN w : Size(queues[w[i]]) > 0}
  IN
  /\ UNCHANGED first
  /\ IF full = {}
     THEN popped' = None /\ UNCHANGED queues
     ELSE LET p == w[Min(full)] IN
          /\ popped' = queues[p].data[queues[p].first]
          /\ queues' = [queues EXCEPT ![p].first = @ + 1, ![p].data[queues[p].first] = None]

PopFirst          == PopUpTo(Invalid)
PopFirstBetter(p) == PopUpTo(p)

Clear ==
  /\ first' = Invalid /\ queues' = [p \in Priority |-> Empty]
  /\ UNCHANGED popped

Next ==
  \/ \E p \in Priority : \/ Prepare(p) \/ Rotate(p) \/ PopFirstBetter(p)
                         \/ \E x \in Id : PushFront(p, x) \/ PushBack(p, x) \/ Remove(p, x)
  \/ PopFirst \/ Clear

Spec == Init /\ [][Next]_vars

-----------------------------------------------------------------------------
Contents(q) == [i \in 1 .. Size(q) |-> q.data[q.first + i - 1]]

\* The arrays and links behave as a sequence per priority, and no operation
\* leaves an array without room at one end: the next push writes there before
\* it looks (thread_queue_list.h:91, thread_queue_list.h:98).
Lists == INSTANCE PriorityQueues WITH queue <- [p \in Priority |-> Contents(queues[p])]

RoomAtBothEnds ==
  \A p \in Priority : queues[p].next # NULL =>
    0 < queues[p].first /\ queues[p].first <= queues[p].end /\ queues[p].end < queues[p].capacity

ImplementsQueues == Lists!Spec
=============================================================================
