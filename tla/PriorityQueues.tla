---------------------------- MODULE PriorityQueues ----------------------------
(***************************************************************************)
(* What the scheduler expects of its ready queue: a sequence of threads    *)
(* per priority, 0 the best.                                               *)
(***************************************************************************)
EXTENDS Integers, Sequences

CONSTANTS Id, Priority, None

VARIABLES queue,   \* [priority -> sequence of ids]
          popped   \* result of the last pop

Queued == UNION {{queue[p][i] : i \in DOMAIN queue[p]} : p \in Priority}

Init == queue = [p \in Priority |-> <<>>] /\ popped = None

Push(p, x) ==
  /\ x \notin Queued
  /\ \/ queue' = [queue EXCEPT ![p] = Append(@, x)]
     \/ queue' = [queue EXCEPT ![p] = <<x>> \o @]
  /\ UNCHANGED popped

\* The head of the best queue among those in `from`.
Pop(from) ==
  LET full == {p \in from : queue[p] # <<>>} IN
  \/ /\ full = {} /\ popped' = None /\ UNCHANGED queue
  \/ \E p \in full :
       /\ \A q \in full : p <= q
       /\ popped' = Head(queue[p])
       /\ queue' = [queue EXCEPT ![p] = Tail(@)]

Remove(p, x) == /\ queue' = [queue EXCEPT ![p] = SelectSeq(@, LAMBDA y : y # x)]
                /\ UNCHANGED popped

Rotate(p) == /\ queue[p] # <<>> /\ queue' = [queue EXCEPT ![p] = Append(Tail(@), Head(@))]
             /\ UNCHANGED popped

Clear == queue' = [p \in Priority |-> <<>>] /\ UNCHANGED popped

Next ==
  \/ \E p \in Priority, x \in Id : Push(p, x) \/ Remove(p, x)
  \/ \E p \in Priority : Rotate(p) \/ Pop({q \in Priority : q < p})
  \/ Pop(Priority) \/ Clear

Spec == Init /\ [][Next]_<<queue, popped>>
=============================================================================
