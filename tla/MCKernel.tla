------------------------------- MODULE MCKernel -------------------------------
EXTENDS KernelProperties, TLC

CONSTANTS t1, t2, t3, m1, m2, e1, e2, s1, tm1

OneCore == [t \in Thread |-> 0]
TwoCores == [t \in Thread |-> IF t = t3 THEN 1 ELSE 0]
OneProcess == [t \in Thread |-> 1]
TwoProcesses == [t \in Thread |-> IF t = t1 THEN 1 ELSE 2]

\* One priority per thread, or a choice that includes equals.
Ranked == [t \in Thread |-> CASE t = t1 -> {2} [] t = t2 -> {1} [] OTHER -> {0}]
Equal == [t \in Thread |-> {1}]

Resets == [s \in Signal |-> CASE s = e1 -> "OneShot" [] s = e2 -> "Pulse"
                              [] OTHER -> "Sticky"]
Maxima == [s \in Semaphore |-> 2]
Counts == {1, 2}

OnMutexes == [t \in Thread |-> Mutex]
OnOthers == [t \in Thread |-> Object \ {t}]
OnSelf == [t \in Thread |-> {t}]
OnMutexesAndEvents == [t \in Thread |-> Mutex \cup Event]
OnSignals == [t \in Thread |-> Signal \cup Semaphore]
MutexPairs == {<<m1, m2>>, <<m2, m1>>}
Mixed == {<<m1, e1>>}
Signals == {<<e1, s1>>, <<e2, tm1>>, <<s1, s1>>}
SameEvent == {<<e1, e1>>}
NoLists == {}
=============================================================================
