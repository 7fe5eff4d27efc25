---------------------------- MODULE ServiceProofs ----------------------------
(***************************************************************************)
(* gsp::Gpu for any number of sessions, thread ids, commands and frames:    *)
(* the GPU right and the thread ids, the command buffers, what runs of      *)
(* them, the interrupt relay queues, and the frames that are shown.         *)
(*                                                                         *)
(* RightHeldByOne is not inductive: that an id is free when a session comes *)
(* needs that the ids in use are exactly those of the connected sessions.   *)
(* CommandsFaithful needs that the ring's index stays in the ring, and      *)
(* RelayFaithful that in addition the queue holds no more than its slots,   *)
(* so that the u8 arithmetic of the next slot does not wrap.  Lag is what   *)
(* the clients guarantee: they take the interrupts before the slots run out.*)
(*                                                                         *)
(* nwm::UDS for any number of stations, one of which hosts: the host's      *)
(* count, bit mask and node map agree, and a full network refuses.  The     *)
(* first needs where a host's node map can come from (RoomInv); the second  *)
(* needs that one station joins at a time, so that at most one packet about *)
(* joining is under way and, once the host has let its sender in, a place   *)
(* is still free for it (JoinInv).                                          *)
(***************************************************************************)
EXTENDS GspGpu, Uds, FiniteSetTheorems, WellFoundedInduction, TLAPS

\* What the parameters stand for.
Parameters ==
  /\ IsFiniteSet(Session) /\ MaxGSPThreads \in Nat /\ Commands \in Nat \ {0}
  /\ Command \subseteq [irq : {c.irq : c \in Command}, stop : BOOLEAN]
  /\ None \notin Int /\ None \notin [thread_id : Int, registered : BOOLEAN]
  /\ None \notin Command /\ Drawn \subseteq Screen
  /\ Slots \in Nat \ {0} /\ Lag \in Nat /\ Wrap \in Nat
  /\ Lag <= Slots /\ Slots + Lag <= Wrap

SessionData == [thread_id : Thread, registered : BOOLEAN]

Ids == {session[s].thread_id : s \in Connected}

RightInv ==
  /\ session \in [Session -> SessionData \cup {None}]
  /\ used_thread_ids = Ids
  /\ active_thread_id \in Ids \cup {None}
  /\ \A s \in Connected, u \in Connected : s # u => session[s].thread_id # session[u].thread_id

-----------------------------------------------------------------------------
\* The least of a set of ids.
LEMMA MinId ==
  ASSUME NEW S, S \subseteq Nat, S # {}
  PROVE  Min(S) \in S /\ \A q \in S : Min(S) <= q
PROOF
<1>1. PICK p \in S : \A q \in S : ~ (<<q, p>> \in OpToRel(<, Nat))
  BY WFMin, NatLessThanWellFounded
<1>2. \A q \in S : p <= q
  <2>1. TAKE q \in S
  <2>2. p \in Nat /\ q \in Nat
    OBVIOUS
  <2>3. ~ (q < p)
    BY <1>1, <2>2 DEF OpToRel
  <2> QED
    BY <2>2, <2>3
<1> QED
  BY <1>2 DEF Min

\* Thread ids are numbers, and session data is not the null pointer.
LEMMA IdsAreThreads ==
  ASSUME Parameters, RightInv
  PROVE  /\ Ids \subseteq Thread /\ Thread \subseteq Nat /\ None \notin Thread
         /\ None \notin SessionData
         /\ \A s \in Connected : s \in Session /\ session[s] \in SessionData
PROOF
<1>1. Thread \subseteq Nat
  BY DEF Thread, Parameters
<1>2. None \notin SessionData
  BY <1>1 DEF SessionData, Parameters
<1>3. \A s \in Connected : s \in Session /\ session[s] \in SessionData
  BY DEF Connected, RightInv
<1>4. Ids \subseteq Thread
  BY <1>3 DEF Ids, SessionData
<1> QED
  BY <1>1, <1>2, <1>3, <1>4 DEF Parameters

\* GetUnusedThreadId finds an id for every session that the port lets in.
LEMMA IdIsFree ==
  ASSUME Parameters, RightInv, Cardinality(Connected) < MaxGSPThreads
  PROVE  Thread \ used_thread_ids # {}
PROOF
<1> SUFFICES ASSUME Thread \subseteq Ids PROVE FALSE
  BY DEF RightInv
<1>1. IsFiniteSet(Connected) /\ Cardinality(Connected) \in Nat
  BY FS_Subset, FS_CardinalityType DEF Connected, Parameters
<1>2. IsFiniteSet(Ids) /\ Cardinality(Ids) <= Cardinality(Connected)
  <2> DEFINE f == [s \in Connected |-> session[s].thread_id]
  <2>1. f \in Surjection(Connected, Ids)
    <3>1. f \in [Connected -> Ids]
      BY DEF Ids
    <3>2. \A i \in Ids : \E s \in Connected : f[s] = i
      BY DEF Ids
    <3> QED
      BY <3>1, <3>2 DEF Surjection
  <2> QED
    BY <1>1, <2>1, FS_Surjection
<1>3. IsFiniteSet(Thread) /\ Cardinality(Thread) = MaxGSPThreads
  <2>1. 0 \in Int /\ MaxGSPThreads - 1 \in Int
    BY DEF Parameters
  <2>2. IsFiniteSet(0 .. MaxGSPThreads - 1)
        /\ Cardinality(0 .. MaxGSPThreads - 1)
             = IF 0 > MaxGSPThreads - 1 THEN 0 ELSE (MaxGSPThreads - 1) - 0 + 1
    BY <2>1, FS_Interval
  <2> QED
    BY <2>2 DEF Thread, Parameters
<1>4. Cardinality(Thread) <= Cardinality(Ids)
  BY <1>2, FS_Subset
<1>5. Cardinality(Ids) \in Nat
  BY <1>2, FS_CardinalityType
<1> QED
  BY <1>1, <1>2, <1>3, <1>4, <1>5 DEF Parameters

\* Steps that leave the sessions, the ids and the right alone.
LEMMA RightKept ==
  ASSUME RightInv, UNCHANGED <<session, used_thread_ids, active_thread_id>>
  PROVE  RightInv'
PROOF
  BY DEF RightInv, Ids, Connected

\* Every step keeps the right with a connected session, and no assertion fails.
LEMMA RightInvNext ==
  ASSUME Parameters, RightInv, [Next]_vars
  PROVE  /\ RightInv'
         /\ Patient /\ ~ asserted => ~ asserted'
PROOF
<1>1. ASSUME NEW s \in Session, Connect(s)
      PROVE  RightInv' /\ UNCHANGED asserted
  <2> DEFINE free == Thread \ used_thread_ids
  <2>1. free # {} /\ Min(free) \in free
    <3>1. free # {}
      BY <1>1, IdIsFree DEF Connect
    <3>2. free \subseteq Nat
      BY IdsAreThreads
    <3> QED
      BY <3>1, <3>2, MinId
  <2>2. PICK id : id = Min(free)
    OBVIOUS
  <2>3. /\ session' = [session EXCEPT ![s] = [thread_id |-> id, registered |-> FALSE]]
        /\ used_thread_ids' = used_thread_ids \cup {id}
        /\ UNCHANGED <<active_thread_id, asserted>> /\ session[s] = None
    BY <1>1, <2>1, <2>2 DEF Connect
  <2>4. id \in Thread /\ id \notin Ids
    BY <2>1, <2>2 DEF RightInv
  <2> HIDE DEF free
  <2>5. [thread_id |-> id, registered |-> FALSE] \in SessionData
    BY <2>4 DEF SessionData
  <2>6. [thread_id |-> id, registered |-> FALSE] # None
    BY <2>5, IdsAreThreads
  <2>7. /\ session' \in [Session -> SessionData \cup {None}]
        /\ \A u \in Session : u # s => session'[u] = session[u]
        /\ session'[s] = [thread_id |-> id, registered |-> FALSE]
    BY <2>3, <2>5 DEF RightInv
  <2>8. Connected' = Connected \cup {s} /\ s \notin Connected
    BY <2>3, <2>6, <2>7 DEF Connected
  <2>9. Ids' = Ids \cup {id}
    <3>1. \A u \in Connected : session'[u].thread_id = session[u].thread_id
      BY <2>7, <2>8 DEF Connected
    <3>2. session'[s].thread_id = id
      BY <2>7
    <3> QED
      BY <2>8, <3>1, <3>2 DEF Ids
  <2>10. \A u \in Connected : session'[u].thread_id = session[u].thread_id
                              /\ session[u].thread_id # id
    BY <2>4, <2>7, <2>8 DEF Connected, Ids
  <2>11. session'[s].thread_id = id
    BY <2>7
  <2>12. \A a \in Connected', b \in Connected' : a # b => session'[a].thread_id # session'[b].thread_id
    BY <2>8, <2>10, <2>11 DEF RightInv
  <2> QED
    BY <2>3, <2>7, <2>9, <2>12 DEF RightInv
<1>2. ASSUME NEW s \in Session, Disconnect(s) PROVE RightInv' /\ UNCHANGED asserted
  <2>1. /\ session[s] # None /\ session' = [session EXCEPT ![s] = None]
        /\ used_thread_ids' = used_thread_ids \ {session[s].thread_id}
        /\ active_thread_id' = IF active_thread_id = session[s].thread_id THEN None
                               ELSE active_thread_id
        /\ UNCHANGED asserted
    BY <1>2 DEF Disconnect
  <2>2. /\ session' \in [Session -> SessionData \cup {None}] /\ session'[s] = None
        /\ \A u \in Session : u # s => session'[u] = session[u]
    BY <2>1 DEF RightInv
  <2>3. Connected' = Connected \ {s} /\ s \in Connected
    BY <2>1, <2>2 DEF Connected
  <2>4. \A u \in Connected' : session'[u].thread_id = session[u].thread_id
                              /\ session[u].thread_id # session[s].thread_id
    BY <2>2, <2>3 DEF RightInv, Connected
  <2>5. Ids' = Ids \ {session[s].thread_id}
    BY <2>3, <2>4 DEF Ids
  <2>6. \A a \in Connected', b \in Connected' : a # b => session'[a].thread_id # session'[b].thread_id
    BY <2>3, <2>4 DEF RightInv
  <2>7. active_thread_id' \in Ids' \cup {None}
    BY <2>1, <2>5 DEF RightInv
  <2> QED
    BY <2>1, <2>2, <2>5, <2>6, <2>7 DEF RightInv
<1>3. ASSUME NEW s \in Session, NEW on \in BOOLEAN, Register(s, on)
      PROVE  RightInv' /\ UNCHANGED asserted
  <2>1. /\ session[s] # None /\ session' = [session EXCEPT ![s].registered = on]
        /\ UNCHANGED <<used_thread_ids, active_thread_id, asserted>>
    BY <1>3 DEF Register
  <2>2. session[s] \in SessionData
    BY <2>1 DEF RightInv
  <2>3. PICK d : d = [session[s] EXCEPT !.registered = on]
    OBVIOUS
  <2>4. d \in SessionData /\ d.thread_id = session[s].thread_id
    BY <2>2, <2>3 DEF SessionData
  <2>5. /\ session' \in [Session -> SessionData \cup {None}] /\ session'[s] = d
        /\ \A u \in Session : u # s => session'[u] = session[u]
    BY <2>1, <2>3, <2>4 DEF RightInv
  <2>6. d # None
    BY <2>4, IdsAreThreads
  <2>7. Connected' = Connected
    BY <2>1, <2>5, <2>6 DEF Connected
  <2>8. \A u \in Connected : session'[u].thread_id = session[u].thread_id
    BY <2>4, <2>5 DEF Connected
  <2>9. Ids' = Ids
    BY <2>7, <2>8 DEF Ids
  <2> QED
    BY <2>1, <2>5, <2>7, <2>8, <2>9 DEF RightInv
<1>4. ASSUME NEW s \in Session, UNCHANGED <<session, used_thread_ids>>, session[s] # None,
             active_thread_id' \in {active_thread_id, None, session[s].thread_id}
      PROVE  RightInv'
  <2>1. s \in Connected
    BY <1>4 DEF Connected
  <2>2. session[s].thread_id \in Ids
    BY <2>1 DEF Ids
  <2>3. Ids' = Ids /\ Connected' = Connected
    BY <1>4 DEF Ids, Connected
  <2> QED
    BY <1>4, <2>2, <2>3 DEF RightInv
<1>5. ASSUME NEW s \in Session, NEW b \in BOOLEAN, AcquireGpuRight(s, b)
      PROVE  RightInv' /\ (Patient => UNCHANGED asserted)
  BY <1>4, <1>5 DEF AcquireGpuRight
<1>6. ASSUME NEW s \in Session, ReleaseRight(s) PROVE RightInv' /\ UNCHANGED asserted
  BY <1>4, <1>6 DEF ReleaseRight
<1>7. ASSUME UNCHANGED <<session, used_thread_ids, active_thread_id, asserted>>
      PROVE  RightInv' /\ UNCHANGED asserted
  BY <1>7, RightKept
<1>8. ASSUME NEW s \in Session, (\E c \in Command : WriteCommand(s, c)) \/ TriggerCmdReqQueue(s)
                                 \/ SaveVramSysArea(s) \/ RestoreVramSysArea(s)
      PROVE  UNCHANGED <<session, used_thread_ids, active_thread_id, asserted>>
  BY <1>8 DEF WriteCommand, TriggerCmdReqQueue, SaveVramSysArea, RestoreVramSysArea
<1>9. ASSUME NEW t \in Thread, TakeInterrupt(t) \/ ClearStatus(t)
                                \/ \E c \in Drawn, f \in Frame : HandOver(t, c, f)
      PROVE  UNCHANGED <<session, used_thread_ids, active_thread_id, asserted>>
  BY <1>9 DEF TakeInterrupt, ClearStatus, HandOver
<1>10. VBlank => UNCHANGED <<session, used_thread_ids, active_thread_id, asserted>>
  BY DEF VBlank
<1>11. UNCHANGED vars => UNCHANGED <<session, used_thread_ids, active_thread_id, asserted>>
  BY DEF vars
<1> QED
  BY <1>1, <1>2, <1>3, <1>5, <1>6, <1>7, <1>8, <1>9, <1>10, <1>11 DEF Next

\* Nobody is connected initially.
LEMMA RightInit ==
  ASSUME Parameters, Init
  PROVE  RightInv /\ ~ asserted
PROOF
<1>1. Connected = {}
  BY DEF Init, Connected
<1> QED
  BY <1>1 DEF Init, RightInv, Ids

\* The GPU right belongs to a connected session and ids are not shared
\* (RightHeldByOne), however sessions come, go and die.
THEOREM RightHeldByOneHolds ==
  ASSUME Parameters
  PROVE  Spec => []RightHeldByOne
PROOF
<1>1. Init => RightInv
  BY RightInit
<1>2. RightInv /\ [Next]_vars => RightInv'
  BY RightInvNext
<1>3. RightInv => RightHeldByOne
  BY DEF RightInv, RightHeldByOne, Ids
<1> QED
  BY <1>1, <1>2, <1>3, PTL DEF Spec

\* The right and the ids are sound, an id is free for every session that the port
\* lets in, and clients that ask for the right when it is free never have to sleep
\* for it (RightSound).
THEOREM RightSoundHolds ==
  ASSUME Parameters, Patient
  PROVE  Spec => []RightSound
PROOF
<1>1. Init => RightInv /\ ~ asserted
  BY RightInit
<1>2. RightInv /\ ~ asserted /\ [Next]_vars => (RightInv /\ ~ asserted)'
  BY RightInvNext
<1>3. RightInv /\ ~ asserted => RightSound
  BY DEF RightSound, Assertions, RightInv, RightHeldByOne, Ids
<1> QED
  BY <1>1, <1>2, <1>3, PTL DEF Spec

-----------------------------------------------------------------------------
(***************************************************************************)
(* Command buffers.                                                        *)
(***************************************************************************)
BufferData == [index : 0 .. Commands - 1, number : 0 .. Commands, stopped : BOOLEAN,
               commands : [0 .. Commands - 1 -> Command \cup {None}]]

\* A buffer holds the commands of a list, from its index on round the ring.
Holds(b, list) ==
  /\ Len(list) = b.number
  /\ \A i \in 1 .. b.number : list[i] = b.commands[(b.index + i - 1) % Commands]

BufferInv ==
  /\ buffer \in [Thread -> BufferData] /\ todo \in [Thread -> Seq(Command)]
  /\ \A t \in Thread : Holds(buffer[t], todo[t])

\* Less than twice round a ring.
LEMMA RoundTheRing ==
  ASSUME NEW n \in Nat \ {0}, NEW x \in 0 .. 2 * n - 1
  PROVE  x % n = IF x < n THEN x ELSE x - n
PROOF
<1> DEFINE q == x \div n
           r == x % n
<1>1. q \in Int /\ r \in 0 .. n - 1 /\ x = n * q + r
  OBVIOUS
<1> HIDE DEF q, r
<1>2. q >= 2 => n * q >= 2 * n
  BY <1>1
<1>3. q <= -1 => n * q <= - n
  BY <1>1
<1>4. q = 0 \/ q = 1
  BY <1>1, <1>2, <1>3
<1>5. r = IF x < n THEN x ELSE x - n
  BY <1>1, <1>4
<1> QED
  BY <1>5 DEF r

\* What the client reads out of the buffer is the list.
LEMMA WrittenIsList ==
  ASSUME NEW b \in BufferData, NEW list \in Seq(Command), Holds(b, list)
  PROVE  Written(b) = list
PROOF
<1>1. DOMAIN list = 1 .. b.number /\ list = [i \in 1 .. b.number |-> list[i]]
  BY DEF Holds, BufferData
<1> QED
  BY <1>1 DEF Holds, Written

\* The places of the commands in the ring: the one behind the last is another,
\* and they are the same when the index moves on by n.
LEMMA RingPlaces ==
  ASSUME NEW N \in Nat \ {0}, NEW ix \in 0 .. N - 1, NEW num \in 0 .. N
  PROVE  /\ \A i \in 1 .. num : /\ (ix + i - 1) % N \in 0 .. N - 1
                                /\ num < N => (ix + i - 1) % N # (ix + num) % N
         /\ \A n \in 0 .. num : \A i \in 1 .. num - n :
              (((ix + n) % N) + i - 1) % N = (ix + (n + i) - 1) % N
PROOF
<1>1. \A x \in 0 .. 2 * N - 1 : x % N = IF x < N THEN x ELSE x - N
  BY RoundTheRing
<1>2. ASSUME NEW i \in 1 .. num
      PROVE  /\ (ix + i - 1) % N \in 0 .. N - 1
             /\ num < N => (ix + i - 1) % N # (ix + num) % N
  <2>1. PICK x \in 0 .. 2 * N - 1 : x = ix + i - 1
    OBVIOUS
  <2>2. x % N = IF x < N THEN x ELSE x - N
    BY <1>1
  <2>3. ASSUME num < N PROVE x % N # (ix + num) % N
    <3>1. PICK y \in 0 .. 2 * N - 1 : y = ix + num
      BY <2>3
    <3>2. y % N = IF y < N THEN y ELSE y - N
      BY <1>1
    <3> QED
      BY <2>1, <2>2, <2>3, <3>1, <3>2
  <2> QED
    BY <2>1, <2>2, <2>3
<1>3. ASSUME NEW n \in 0 .. num, NEW i \in 1 .. num - n
      PROVE  (((ix + n) % N) + i - 1) % N = (ix + (n + i) - 1) % N
  <2>1. PICK x \in 0 .. 2 * N - 1 : x = ix + n
    OBVIOUS
  <2>2. PICK j : j = x % N
    OBVIOUS
  <2>3. j = IF x < N THEN x ELSE x - N
    BY <1>1, <2>2
  <2>4. PICK y \in 0 .. 2 * N - 1 : y = j + i - 1
    BY <2>1, <2>3
  <2>5. PICK z \in 0 .. 2 * N - 1 : z = ix + (n + i) - 1
    OBVIOUS
  <2>6. y % N = (IF y < N THEN y ELSE y - N) /\ z % N = (IF z < N THEN z ELSE z - N)
    BY <1>1
  <2>7. y % N = z % N
    BY <2>1, <2>3, <2>4, <2>5, <2>6
  <2> QED
    BY <2>1, <2>2, <2>4, <2>5, <2>7
<1> QED
  BY <1>2, <1>3

\* A buffer with these fields.
LEMMA BufferRecord ==
  ASSUME NEW ix \in 0 .. Commands - 1, NEW num \in 0 .. Commands, NEW stop0 \in BOOLEAN,
         NEW cs \in [0 .. Commands - 1 -> Command \cup {None}], NEW d,
         d = [index |-> ix, number |-> num, stopped |-> stop0, commands |-> cs]
  PROVE  d \in BufferData /\ d.number = num /\ d.index = ix /\ d.commands = cs
PROOF
  BY DEF BufferData

\* A command is written behind the last one.
LEMMA CommandWritten ==
  ASSUME Parameters, NEW b \in BufferData, NEW list \in Seq(Command), Holds(b, list),
         b.number < Commands, NEW c \in Command, NEW d,
         d = [b EXCEPT !.commands[(b.index + b.number) % Commands] = c, !.number = @ + 1]
  PROVE  d \in BufferData /\ Holds(d, Append(list, c))
PROOF
<1>1. PICK ix \in 0 .. Commands - 1, num \in 0 .. Commands, stop0 \in BOOLEAN,
           cs \in [0 .. Commands - 1 -> Command \cup {None}] :
        b = [index |-> ix, number |-> num, stopped |-> stop0, commands |-> cs]
  BY DEF BufferData
<1>2. Commands \in Nat \ {0} /\ num < Commands /\ num \in Nat
  BY <1>1 DEF Parameters
<1>3. PICK k : k = (b.index + b.number) % Commands
  OBVIOUS
<1>k. k = (ix + num) % Commands
  BY <1>1, <1>3
<1>e. d = [b EXCEPT !.commands[k] = c, !.number = @ + 1]
  BY <1>3
<1>4. k \in 0 .. Commands - 1
  BY <1>2, <1>k
<1>5. PICK cs2 \in [0 .. Commands - 1 -> Command \cup {None}] : cs2 = [cs EXCEPT ![k] = c]
  OBVIOUS
<1>6. d = [index |-> ix, number |-> num + 1, stopped |-> stop0, commands |-> cs2]
  BY <1>1, <1>e, <1>5
<1>n. PICK n2 \in 0 .. Commands : n2 = num + 1
  BY <1>2
<1>r. d = [index |-> ix, number |-> n2, stopped |-> stop0, commands |-> cs2]
  BY <1>6, <1>n
<1>7. d \in BufferData /\ d.number = n2 /\ d.index = ix /\ d.commands = cs2
  <2>1. PICK e : e = [index |-> ix, number |-> n2, stopped |-> stop0, commands |-> cs2]
    OBVIOUS
  <2>2. e \in BufferData /\ e.number = n2 /\ e.index = ix /\ e.commands = cs2
    BY <2>1, BufferRecord
  <2>3. d = e
    BY <1>r, <2>1
  <2> QED
    BY <2>2, <2>3
<1>8. Len(list) = num /\ \A i \in 1 .. num : list[i] = cs[(ix + i - 1) % Commands]
  BY <1>1 DEF Holds
<1>9. ASSUME NEW i \in 1 .. num + 1
      PROVE  Append(list, c)[i] = [cs EXCEPT ![k] = c][(ix + i - 1) % Commands]
  <2>1. CASE i = num + 1
    <3>1. ix + i - 1 = ix + num
      BY <1>2, <2>1
    <3>2. Append(list, c)[i] = c
      BY <1>8, <2>1
    <3> QED
      BY <1>k, <1>4, <3>1, <3>2
  <2>2. CASE i \in 1 .. num
    <3>1. (ix + i - 1) % Commands # k /\ (ix + i - 1) % Commands \in 0 .. Commands - 1
      BY <1>2, <1>k, <2>2, RingPlaces
    <3>2. Append(list, c)[i] = list[i]
      BY <1>8, <2>2
    <3> QED
      BY <1>8, <2>2, <3>1, <3>2
  <2>3. i = num + 1 \/ i \in 1 .. num
    BY <1>2
  <2> QED
    BY <2>1, <2>2, <2>3
<1>10. Len(Append(list, c)) = num + 1
  BY <1>8
<1>11. PICK list2 : list2 = Append(list, c)
  OBVIOUS
<1>12. Len(list2) = n2 /\ \A i \in 1 .. n2 : list2[i] = cs2[(ix + i - 1) % Commands]
  BY <1>5, <1>n, <1>9, <1>10, <1>11
<1>13. Holds(d, list2)
  BY <1>7, <1>12 DEF Holds
<1> QED
  BY <1>7, <1>11, <1>13

\* Running n commands takes them from the front.
LEMMA CommandsRun ==
  ASSUME Parameters, NEW b \in BufferData, NEW list \in Seq(Command), Holds(b, list),
         NEW n \in 0 .. b.number
  PROVE  /\ Advance(b, n) \in BufferData
         /\ SubSeq(list, n + 1, Len(list)) \in Seq(Command)
         /\ Len(SubSeq(list, n + 1, Len(list))) = Len(list) - n
         /\ Holds(Advance(b, n), SubSeq(list, n + 1, Len(list)))
PROOF
<1>1. PICK ix \in 0 .. Commands - 1, num \in 0 .. Commands, stop0 \in BOOLEAN,
           cs \in [0 .. Commands - 1 -> Command \cup {None}] :
        b = [index |-> ix, number |-> num, stopped |-> stop0, commands |-> cs]
  BY DEF BufferData
<1>2. Commands \in Nat \ {0} /\ n \in 0 .. num
  BY <1>1 DEF Parameters
<1>3. PICK st2 \in BOOLEAN : st2 = (stop0 \/ (n > 0 /\ Written(b)[n].stop))
  OBVIOUS
<1>4. Advance(b, n) = [index |-> (ix + n) % Commands, number |-> num - n,
                       stopped |-> st2, commands |-> cs]
  <2>1. PICK x : x = Written(b)[n].stop
    OBVIOUS
  <2>2. st2 = (stop0 \/ (n > 0 /\ x))
    BY <1>3, <2>1
  <2>3. Advance(b, n) = [b EXCEPT !.index = (@ + n) % Commands, !.number = @ - n,
                                  !.stopped = @ \/ (n > 0 /\ x)]
    BY <2>1 DEF Advance
  <2> QED
    BY <1>1, <2>2, <2>3
<1>5. Advance(b, n) \in BufferData
  <2>1. (ix + n) % Commands \in 0 .. Commands - 1 /\ num - n \in 0 .. Commands
    BY <1>2
  <2> QED
    BY <1>4, <2>1 DEF BufferData
<1>6. Len(list) = num /\ \A i \in 1 .. num : list[i] = cs[(ix + i - 1) % Commands]
  BY <1>1 DEF Holds
<1>7. /\ SubSeq(list, n + 1, Len(list)) \in Seq(Command)
      /\ Len(SubSeq(list, n + 1, Len(list))) = num - n
      /\ \A i \in 1 .. num - n : SubSeq(list, n + 1, Len(list))[i] = list[n + i]
  <2>1. n \in Nat /\ num \in Nat /\ n <= num
    BY <1>2
  <2>2. n + 1 \in 1 .. num + 1 /\ Len(list) = num
    BY <1>6, <2>1
  <2>3. SubSeq(list, n + 1, num) \in Seq(Command)
    BY <2>1, <2>2
  <2>4. Len(SubSeq(list, n + 1, num)) = num - n
    BY <2>1, <2>2
  <2>5. ASSUME NEW i \in 1 .. num - n PROVE SubSeq(list, n + 1, num)[i] = list[n + i]
    BY <2>1, <2>2
  <2> QED
    BY <2>2, <2>3, <2>4, <2>5
<1>8. ASSUME NEW i \in 1 .. num - n
      PROVE  list[n + i] = cs[(((ix + n) % Commands) + i - 1) % Commands]
  <2>1. list[n + i] = cs[(ix + (n + i) - 1) % Commands]
    BY <1>2, <1>6
  <2>2. (((ix + n) % Commands) + i - 1) % Commands = (ix + (n + i) - 1) % Commands
    BY <1>2, RingPlaces
  <2> QED
    BY <2>1, <2>2
<1>9. Holds(Advance(b, n), SubSeq(list, n + 1, Len(list)))
  <2>1. PICK j, m, d : j = (ix + n) % Commands /\ m = num - n /\ d = Advance(b, n)
    OBVIOUS
  <2>2. d.index = j /\ d.number = m /\ d.commands = cs
    BY <1>4, <2>1
  <2>3. ASSUME NEW i \in 1 .. m
        PROVE  SubSeq(list, n + 1, Len(list))[i] = cs[(j + i - 1) % Commands]
    BY <1>7, <1>8, <2>1
  <2> QED
    BY <1>7, <2>1, <2>2, <2>3 DEF Holds
<1> QED
  BY <1>5, <1>6, <1>7, <1>9

\* What runs of a buffer: nothing when it is stopped, and nothing behind a
\* command that stops it.
LEMMA RunsBound ==
  ASSUME NEW b \in BufferData
  PROVE  /\ Runs(b) \in 0 .. b.number
         /\ b.stopped => Runs(b) = 0
         /\ \A i \in 1 .. Runs(b) - 1 : ~ Written(b)[i].stop
PROOF
<1>1. b.number \in Nat /\ b.stopped \in BOOLEAN
  BY DEF BufferData
<1>2. PICK stops : stops = {i \in 1 .. b.number : Written(b)[i].stop}
  OBVIOUS
<1>3. Runs(b) = IF b.stopped THEN 0 ELSE IF stops = {} THEN b.number ELSE Min(stops)
  BY <1>2 DEF Runs
<1>4. CASE b.stopped
  BY <1>1, <1>3, <1>4
<1>5. CASE ~ b.stopped /\ stops = {}
  <2>1. Runs(b) = b.number
    BY <1>3, <1>5
  <2>2. \A i \in 1 .. b.number : ~ Written(b)[i].stop
    BY <1>2, <1>5
  <2> QED
    BY <1>1, <1>5, <2>1, <2>2
<1>6. CASE ~ b.stopped /\ stops # {}
  <2>1. stops \subseteq Nat /\ stops \subseteq 1 .. b.number
    BY <1>1, <1>2
  <2>2. PICK m : m = Min(stops)
    OBVIOUS
  <2>3. m \in stops /\ \A q \in stops : m <= q
    BY <1>6, <2>1, <2>2, MinId
  <2>4. Runs(b) = m /\ m \in 1 .. b.number
    BY <1>3, <1>6, <2>1, <2>2, <2>3
  <2>5. ASSUME NEW i \in 1 .. m - 1 PROVE ~ Written(b)[i].stop
    <3>1. i \in 1 .. b.number /\ ~ (m <= i)
      BY <1>1, <2>4
    <3> QED
      BY <1>2, <2>3, <3>1
  <2> QED
    BY <1>1, <1>6, <2>4, <2>5
<1> QED
  BY <1>1, <1>4, <1>5, <1>6

\* The buffers are empty initially.
LEMMA BufferInit ==
  ASSUME Parameters, Init
  PROVE  BufferInv
PROOF
<1>2. Commands \in Nat \ {0}
  BY DEF Parameters
<1>3. PICK cs \in [0 .. Commands - 1 -> Command \cup {None}] :
        cs = [i \in 0 .. Commands - 1 |-> None]
  OBVIOUS
<1>z. PICK z \in 0 .. Commands - 1 : z = 0
  BY <1>2
<1>f. PICK f \in BOOLEAN : f = FALSE
  OBVIOUS
<1>1. PICK e : e = [index |-> z, number |-> z, stopped |-> f, commands |-> cs]
  OBVIOUS
<1>y. z \in 0 .. Commands
  BY <1>2
<1>4. e \in BufferData /\ e.number = 0
  BY <1>1, <1>y, <1>z, BufferRecord
<1>5. <<>> \in Seq(Command) /\ Len(<<>>) = 0
  OBVIOUS
<1>6. Holds(e, <<>>)
  BY <1>4, <1>5 DEF Holds
<1>7. buffer = [t \in Thread |-> e] /\ todo = [t \in Thread |-> <<>>]
  BY <1>1, <1>3, <1>z, <1>f DEF Init
<1> QED
  BY <1>4, <1>5, <1>6, <1>7 DEF BufferInv

\* One thread's buffer and list are replaced by others that agree.
LEMMA BufferReplaced ==
  ASSUME BufferInv, NEW t \in Thread, NEW d \in BufferData, NEW list \in Seq(Command),
         Holds(d, list), buffer' = [buffer EXCEPT ![t] = d], todo' = [todo EXCEPT ![t] = list]
  PROVE  BufferInv' /\ todo'[t] = list /\ \A u \in Thread : u # t => todo'[u] = todo[u]
PROOF
<1>1. /\ buffer' \in [Thread -> BufferData] /\ todo' \in [Thread -> Seq(Command)]
      /\ buffer'[t] = d /\ todo'[t] = list
      /\ \A u \in Thread : u # t => buffer'[u] = buffer[u] /\ todo'[u] = todo[u]
  BY DEF BufferInv
<1>2. ASSUME NEW u \in Thread PROVE Holds(buffer'[u], todo'[u])
  BY <1>1 DEF BufferInv
<1> QED
  BY <1>1, <1>2 DEF BufferInv

\* Every step keeps the buffers and the lists together, and runs commands only
\* as StopsAtStop says.
LEMMA BufferInvNext ==
  ASSUME Parameters, RightInv, BufferInv, [Next]_vars
  PROVE  BufferInv' /\ StopsAtStop
PROOF
<1>1. ASSUME UNCHANGED <<buffer, todo>> PROVE BufferInv' /\ StopsAtStop
  <2>1. BufferInv'
    BY <1>1 DEF BufferInv, Holds
  <2>2. \A t \in Thread : Len(todo[t]) \in Nat /\ todo'[t] = todo[t]
    BY <1>1 DEF BufferInv
  <2>3. \A t \in Thread : ~ (Len(todo'[t]) < Len(todo[t]))
    BY <2>2
  <2> QED
    BY <2>1, <2>3 DEF StopsAtStop
<1>2. ASSUME NEW s \in Session, NEW c \in Command, WriteCommand(s, c)
      PROVE  BufferInv' /\ StopsAtStop
  <2>1. PICK t : t = session[s].thread_id
    OBVIOUS
  <2>2. PICK b : b = buffer[t]
    OBVIOUS
  <2>3. /\ session[s] # None /\ b.number < Commands
        /\ buffer' = [buffer EXCEPT ![t].commands[(b.index + b.number) % Commands] = c,
                                    ![t].number = @ + 1]
        /\ todo' = [todo EXCEPT ![t] = Append(@, c)]
    BY <1>2, <2>1, <2>2 DEF WriteCommand
  <2>4. t \in Thread
    <3>1. s \in Connected
      BY <2>3 DEF Connected
    <3>2. t \in Ids
      BY <2>1, <3>1 DEF Ids
    <3> QED
      BY <3>2, IdsAreThreads
  <2>5. b \in BufferData /\ todo[t] \in Seq(Command) /\ Holds(b, todo[t])
    BY <2>2, <2>4 DEF BufferInv
  <2>6. PICK d : d = [b EXCEPT !.commands[(b.index + b.number) % Commands] = c, !.number = @ + 1]
    OBVIOUS
  <2>7. PICK list : list = Append(todo[t], c)
    OBVIOUS
  <2>8. buffer' = [buffer EXCEPT ![t] = d] /\ todo' = [todo EXCEPT ![t] = list]
    BY <2>2, <2>3, <2>4, <2>6, <2>7 DEF BufferInv
  <2>9. d \in BufferData /\ Holds(d, list)
    BY <2>3, <2>5, <2>6, <2>7, CommandWritten, ZenonT(30)
  <2>10. list \in Seq(Command) /\ Len(list) = Len(todo[t]) + 1
    BY <2>5, <2>7
  <2>11. BufferInv' /\ todo'[t] = list /\ \A u \in Thread : u # t => todo'[u] = todo[u]
    BY <2>4, <2>8, <2>9, <2>10, BufferReplaced
  <2>12. \A u \in Thread : Len(todo[u]) \in Nat
    BY DEF BufferInv
  <2>13. \A u \in Thread : ~ (Len(todo'[u]) < Len(todo[u]))
    BY <2>10, <2>11, <2>12
  <2> QED
    BY <2>11, <2>13 DEF StopsAtStop
<1>3. ASSUME NEW t \in Thread, ClearStatus(t) PROVE BufferInv' /\ StopsAtStop
  <2>1. PICK d : d = [buffer[t] EXCEPT !.stopped = FALSE]
    OBVIOUS
  <2>2. buffer[t] \in BufferData /\ todo[t] \in Seq(Command) /\ Holds(buffer[t], todo[t])
    BY DEF BufferInv
  <2>3. d \in BufferData /\ d.number = buffer[t].number /\ d.index = buffer[t].index
        /\ d.commands = buffer[t].commands
    BY <2>1, <2>2 DEF BufferData
  <2>4. Holds(d, todo[t])
    BY <2>2, <2>3 DEF Holds
  <2>5. buffer' = [buffer EXCEPT ![t] = d] /\ todo' = [todo EXCEPT ![t] = todo[t]]
    BY <1>3, <2>1 DEF ClearStatus, BufferInv
  <2>6. BufferInv'
    BY <2>2, <2>3, <2>4, <2>5, BufferReplaced
  <2>7. \A u \in Thread : Len(todo[u]) \in Nat /\ todo'[u] = todo[u]
    BY <1>3 DEF ClearStatus, BufferInv
  <2>8. \A u \in Thread : ~ (Len(todo'[u]) < Len(todo[u]))
    BY <2>7
  <2> QED
    BY <2>6, <2>8 DEF StopsAtStop
<1>4. ASSUME NEW s \in Session, TriggerCmdReqQueue(s) PROVE BufferInv' /\ StopsAtStop
  <2>1. CASE active_thread_id = None
    BY <1>1, <1>4, <2>1 DEF TriggerCmdReqQueue
  <2>2. CASE active_thread_id # None
    <3>1. PICK t : t = active_thread_id
      OBVIOUS
    <3>2. t \in Thread
      BY <2>2, <3>1, IdsAreThreads DEF RightInv
    <3>3. PICK b : b = buffer[t]
      OBVIOUS
    <3>4. PICK n : n = Runs(b)
      OBVIOUS
    <3>5. PICK d, list : d = Advance(b, n) /\ list = SubSeq(todo[t], n + 1, Len(todo[t]))
      OBVIOUS
    <3>6. /\ buffer' = [buffer EXCEPT ![t] = Advance(@, n)]
          /\ todo' = [todo EXCEPT ![t] = SubSeq(@, n + 1, Len(@))]
      BY <1>4, <2>2, <3>1, <3>3, <3>4 DEF TriggerCmdReqQueue
    <3>7. buffer' = [buffer EXCEPT ![t] = d] /\ todo' = [todo EXCEPT ![t] = list]
      BY <3>2, <3>3, <3>5, <3>6 DEF BufferInv
    <3>8. b \in BufferData /\ todo[t] \in Seq(Command) /\ Holds(b, todo[t])
      BY <3>2, <3>3 DEF BufferInv
    <3>9. n \in 0 .. b.number /\ (b.stopped => n = 0)
          /\ \A i \in 1 .. n - 1 : ~ Written(b)[i].stop
      BY <3>4, <3>8, RunsBound
    <3>10. d \in BufferData /\ list \in Seq(Command) /\ Len(list) = Len(todo[t]) - n
           /\ Holds(d, list)
      BY <3>5, <3>8, <3>9, CommandsRun
    <3>11. BufferInv' /\ todo'[t] = list /\ \A u \in Thread : u # t => todo'[u] = todo[u]
      BY <3>2, <3>7, <3>10, BufferReplaced
    <3>12. Written(b) = todo[t]
      BY <3>8, WrittenIsList
    <3>13. b.number \in Nat /\ \A u \in Thread : Len(todo[u]) \in Nat
      BY <3>8 DEF BufferInv, BufferData
    <3>14. ASSUME NEW u \in Thread, Len(todo'[u]) < Len(todo[u])
           PROVE  /\ ~ buffer[u].stopped
                  /\ \A i \in 1 .. Len(todo[u]) - Len(todo'[u]) - 1 : ~ todo[u][i].stop
      <4>1. u = t
        BY <3>11, <3>13, <3>14
      <4>2. Len(todo'[u]) = Len(todo[u]) - n
        BY <3>10, <3>11, <4>1
      <4>3. n \in Int /\ Len(todo[u]) \in Int
        BY <3>9, <3>13
      <4>a. Len(todo'[u]) \in Int
        BY <4>2, <4>3
      <4>4. PICK k, l : k = Len(todo'[u]) /\ l = Len(todo[u])
        OBVIOUS
      <4>5. k = l - n /\ k < l
        BY <3>14, <4>2, <4>4
      <4>b. k \in Int /\ l \in Int
        BY <4>a, <4>3, <4>4
      <4>6. l - k = n /\ n > 0 /\ l - k - 1 = n - 1
        BY <4>3, <4>b, <4>5
      <4>7. ~ buffer[u].stopped
        BY <3>3, <3>9, <4>1, <4>6
      <4>8. \A i \in 1 .. n - 1 : ~ todo[u][i].stop
        BY <3>9, <3>12, <4>1
      <4> QED
        BY <4>4, <4>6, <4>7, <4>8
    <3> QED
      BY <3>11, <3>14 DEF StopsAtStop
  <2> QED
    BY <2>1, <2>2
<1>5. ASSUME NEW s \in Session, \/ Connect(s) \/ Disconnect(s) \/ ReleaseRight(s)
                                \/ \E b \in BOOLEAN : Register(s, b) \/ AcquireGpuRight(s, b)
                                \/ SaveVramSysArea(s) \/ RestoreVramSysArea(s)
      PROVE  UNCHANGED <<buffer, todo>>
  BY <1>5 DEF Connect, Disconnect, ReleaseRight, Register, AcquireGpuRight, SaveVramSysArea,
              RestoreVramSysArea, Shared
<1>6. ASSUME NEW t \in Thread, TakeInterrupt(t) \/ \E c \in Drawn, f \in Frame : HandOver(t, c, f)
      PROVE  UNCHANGED <<buffer, todo>>
  BY <1>6 DEF TakeInterrupt, HandOver
<1>7. VBlank \/ UNCHANGED vars => UNCHANGED <<buffer, todo>>
  BY DEF VBlank, vars
<1> QED
  BY <1>1, <1>2, <1>3, <1>4, <1>5, <1>6, <1>7 DEF Next

-----------------------------------------------------------------------------
(***************************************************************************)
(* Screens.                                                                *)
(***************************************************************************)
FrameUpdate == [index : {0, 1}, is_dirty : BOOLEAN, info : [{0, 1} -> Frame \cup {None}]]

ScreenTypes == update \in [Thread -> [Screen -> FrameUpdate]]

\* The greatest of a set of ids.
LEMMA MaxId ==
  ASSUME NEW N \in Nat, NEW S, S \subseteq 0 .. N, S # {}
  PROVE  Max(S) \in S /\ \A q \in S : q <= Max(S)
PROOF
<1>1. PICK D : D = {N - x : x \in S}
  OBVIOUS
<1>2. D \subseteq Nat /\ D # {}
  <2>1. \A x \in S : N - x \in Nat
    OBVIOUS
  <2> QED
    BY <1>1, <2>1
<1>3. PICK d : d = Min(D)
  OBVIOUS
<1>4. d \in D /\ \A q \in D : d <= q
  BY <1>2, <1>3, MinId
<1>5. PICK p \in S : d = N - p
  BY <1>1, <1>4
<1>6. ASSUME NEW q \in S PROVE q <= p
  <2>1. N - q \in D
    BY <1>1
  <2>2. N - p <= N - q
    BY <1>4, <1>5, <2>1
  <2>3. p \in Int /\ q \in Int
    OBVIOUS
  <2> QED
    BY <2>2, <2>3
<1>7. \A q \in S : p >= q
  BY <1>6
<1> QED
  BY <1>6, <1>7 DEF Max

\* A step keeps the types, and clears the flag of a frame only with that frame,
\* or one of a later thread, on the screen.
LEMMA FramesNext ==
  ASSUME Parameters, ScreenTypes, [Next]_vars
  PROVE  ScreenTypes' /\ FramesShown
PROOF
<1>1. ASSUME UNCHANGED update PROVE ScreenTypes' /\ FramesShown
  BY <1>1 DEF ScreenTypes, FramesShown
<1>2. ASSUME NEW t \in Thread, NEW c \in Drawn, NEW f \in Frame, HandOver(t, c, f)
      PROVE  ScreenTypes' /\ FramesShown
  <2>1. c \in Screen
    BY DEF Parameters
  <2>2. PICK u : u = update[t][c]
    OBVIOUS
  <2>3. u \in FrameUpdate
    BY <2>1, <2>2 DEF ScreenTypes
  <2>4. PICK ix \in {0, 1}, di \in BOOLEAN, inf \in [{0, 1} -> Frame \cup {None}] :
          u = [index |-> ix, is_dirty |-> di, info |-> inf]
    BY <2>3 DEF FrameUpdate
  <2>5. PICK i \in {0, 1} : i = 1 - ix
    OBVIOUS
  <2>6. PICK inf2 \in [{0, 1} -> Frame \cup {None}] : inf2 = [inf EXCEPT ![i] = f]
    OBVIOUS
  <2>7. PICK v : v = [u EXCEPT !.index = i, !.is_dirty = TRUE, !.info[i] = f]
    OBVIOUS
  <2>9. v = [index |-> i, is_dirty |-> TRUE, info |-> inf2]
    BY <2>4, <2>6, <2>7
  <2>8. v \in FrameUpdate /\ v.is_dirty
    BY <2>9 DEF FrameUpdate
  <2>10. i = 1 - update[t][c].index
    BY <2>2, <2>4, <2>5
  <2>11. update' = [update EXCEPT ![t][c] = v]
    <3>1. update' = [update EXCEPT ![t][c] = [@ EXCEPT !.index = i, !.is_dirty = TRUE, !.info[i] = f]]
      BY <1>2, <2>10 DEF HandOver
    <3> QED
      BY <2>1, <2>2, <2>7, <3>1 DEF ScreenTypes
  <2>12. PICK row : row = [update[t] EXCEPT ![c] = v]
    OBVIOUS
  <2>13. update[t] \in [Screen -> FrameUpdate]
    BY DEF ScreenTypes
  <2>14. /\ row \in [Screen -> FrameUpdate]
         /\ \A d \in Screen : update[t][d].is_dirty => row[d].is_dirty
    BY <2>1, <2>8, <2>12, <2>13
  <2>15. update' = [update EXCEPT ![t] = row]
    BY <2>11, <2>12 DEF ScreenTypes
  <2>16. update' \in [Thread -> [Screen -> FrameUpdate]]
    BY <2>14, <2>15 DEF ScreenTypes
  <2>17. \A w \in Thread, d \in Screen : update[w][d].is_dirty => update'[w][d].is_dirty
    <3>1. update'[t] = row /\ \A w \in Thread : w # t => update'[w] = update[w]
      BY <2>15 DEF ScreenTypes
    <3> QED
      BY <2>14, <3>1
  <2> QED
    BY <2>16, <2>17 DEF ScreenTypes, FramesShown
<1>3. ASSUME VBlank PROVE ScreenTypes' /\ FramesShown
  <2>1. PICK listening : listening = {t \in Thread : Registered(t)}
    OBVIOUS
  <2>2. /\ update' = [t \in Thread |-> [c \in Screen |->
                        IF t \in listening THEN [update[t][c] EXCEPT !.is_dirty = FALSE]
                        ELSE update[t][c]]]
        /\ shown' = [c \in Screen |-> Flip(c, shown[c])]
    BY <1>3, <2>1 DEF VBlank
  <2>3. ASSUME NEW t \in Thread, NEW c \in Screen
        PROVE  update'[t][c] \in FrameUpdate /\ (t \notin listening => update'[t][c] = update[t][c])
    <3>1. update[t][c] \in FrameUpdate
      BY DEF ScreenTypes
    <3>2. [update[t][c] EXCEPT !.is_dirty = FALSE] \in FrameUpdate
      BY <3>1 DEF FrameUpdate
    <3>3. update'[t][c] = IF t \in listening THEN [update[t][c] EXCEPT !.is_dirty = FALSE]
                          ELSE update[t][c]
      BY <2>2
    <3> QED
      BY <3>1, <3>2, <3>3
  <2>4. update' \in [Thread -> [Screen -> FrameUpdate]]
    <3>1. ASSUME NEW t \in Thread PROVE update'[t] \in [Screen -> FrameUpdate]
      <4>1. update'[t] = [c \in Screen |-> update'[t][c]]
        BY <2>2
      <4> QED
        BY <2>3, <4>1
    <3>2. update' = [t \in Thread |-> update'[t]]
      BY <2>2
    <3> QED
      BY <3>1, <3>2
  <2>5. ASSUME NEW t \in Thread, NEW c \in Screen, update[t][c].is_dirty, ~ update'[t][c].is_dirty
        PROVE  \E u \in t .. MaxGSPThreads - 1 :
                 update[u][c].is_dirty /\ shown'[c] = update[u][c].info[update[u][c].index]
    <3>1. t \in listening
      BY <2>3, <2>5
    <3>2. PICK dirty : dirty = {u \in Thread : Registered(u) /\ update[u][c].is_dirty}
      OBVIOUS
    <3>3. t \in dirty
      BY <2>1, <2>5, <3>1, <3>2
    <3>4. PICK m : m = Max(dirty)
      OBVIOUS
    <3>5. Flip(c, shown[c]) = update[m][c].info[update[m][c].index]
      BY <3>2, <3>3, <3>4 DEF Flip
    <3>6. MaxGSPThreads \in Nat /\ MaxGSPThreads - 1 \in Nat /\ dirty \subseteq 0 .. MaxGSPThreads - 1
      BY <3>2 DEF Parameters, Thread
    <3>7. m \in dirty /\ t <= m
      BY <3>3, <3>4, <3>6, MaxId
    <3>8. m \in t .. MaxGSPThreads - 1 /\ update[m][c].is_dirty
      BY <3>2, <3>6, <3>7 DEF Thread
    <3>9. shown'[c] = update[m][c].info[update[m][c].index]
      BY <2>2, <3>5
    <3> QED
      BY <3>8, <3>9
  <2> QED
    BY <2>4, <2>5 DEF ScreenTypes, FramesShown
<1>4. ASSUME NEW s \in Session, \/ Connect(s) \/ Disconnect(s) \/ ReleaseRight(s)
                                \/ \E b \in BOOLEAN : Register(s, b) \/ AcquireGpuRight(s, b)
                                \/ \E c \in Command : WriteCommand(s, c)
                                \/ TriggerCmdReqQueue(s) \/ SaveVramSysArea(s) \/ RestoreVramSysArea(s)
      PROVE  UNCHANGED update
  BY <1>4 DEF Connect, Disconnect, ReleaseRight, Register, AcquireGpuRight, WriteCommand,
              TriggerCmdReqQueue, SaveVramSysArea, RestoreVramSysArea, Shared
<1>5. ASSUME NEW t \in Thread, TakeInterrupt(t) \/ ClearStatus(t) PROVE UNCHANGED update
  BY <1>5 DEF TakeInterrupt, ClearStatus
<1>6. UNCHANGED vars => UNCHANGED update
  BY DEF vars
<1> QED
  BY <1>1, <1>2, <1>3, <1>4, <1>5, <1>6 DEF Next

\* No frames have been handed over initially.
LEMMA ScreenInit ==
  ASSUME Init
  PROVE  ScreenTypes
PROOF
<1>1. PICK e : e = [index |-> 0, is_dirty |-> FALSE, info |-> [i \in {0, 1} |-> None]]
  OBVIOUS
<1>2. e \in FrameUpdate
  BY <1>1 DEF FrameUpdate
<1>3. update = [t \in Thread |-> [c \in Screen |-> e]]
  BY <1>1 DEF Init
<1> QED
  BY <1>2, <1>3 DEF ScreenTypes

-----------------------------------------------------------------------------
(***************************************************************************)
(* Interrupt relay queues.                                                 *)
(***************************************************************************)
\* A relay queue holds a list of interrupts, from its index on round the slots.
Relays(q, list) ==
  /\ Len(list) <= Lag
  /\ \E ix \in 0 .. Slots - 1 : \E sl :
       /\ DOMAIN sl = 0 .. Slots - 1 /\ sl = [i \in 0 .. Slots - 1 |-> sl[i]]
       /\ q = [index |-> ix, number |-> Len(list), slot |-> sl]
       /\ \A i \in 1 .. Len(list) : sl[(ix + i - 1) % Slots] = list[i]

RelayInv ==
  /\ DOMAIN relay = Thread /\ relay = [t \in Thread |-> relay[t]]
  /\ \E Irq : pending \in [Thread -> Seq(Irq)]
  /\ \A t \in Thread : Relays(relay[t], pending[t])

\* No place behind the last of a ring is one in use, and no two of them are the
\* same while the ring has room.
LEMMA PlacesApart ==
  ASSUME NEW N \in Nat \ {0}, NEW ix \in 0 .. N - 1, NEW i \in 1 .. N, NEW j \in 1 .. N, i # j
  PROVE  (ix + i - 1) % N # (ix + j - 1) % N
PROOF
<1>1. PICK x \in 0 .. 2 * N - 1 : x = ix + i - 1
  OBVIOUS
<1>2. PICK y \in 0 .. 2 * N - 1 : y = ix + j - 1
  OBVIOUS
<1>3. x % N = IF x < N THEN x ELSE x - N
  BY RoundTheRing
<1>4. y % N = IF y < N THEN y ELSE y - N
  BY RoundTheRing
<1>5. x % N # y % N
  BY <1>1, <1>2, <1>3, <1>4
<1> QED
  BY <1>1, <1>2, <1>5

\* Interrupts are signalled behind those that wait.
LEMMA InterruptsSignalled ==
  ASSUME Parameters, NEW Irq, NEW list \in Seq(Irq), NEW irqs \in Seq(Irq), NEW q,
         Relays(q, list), Len(list) + Len(irqs) <= Lag
  PROVE  Relays(Signal(q, irqs), list \o irqs)
PROOF
<1>p. PICK ix \in 0 .. Slots - 1 : \E sl :
        /\ DOMAIN sl = 0 .. Slots - 1 /\ sl = [i \in 0 .. Slots - 1 |-> sl[i]]
        /\ q = [index |-> ix, number |-> Len(list), slot |-> sl]
        /\ \A i \in 1 .. Len(list) : sl[(ix + i - 1) % Slots] = list[i]
  BY DEF Relays
<1>1. PICK sl :
        /\ DOMAIN sl = 0 .. Slots - 1 /\ sl = [i \in 0 .. Slots - 1 |-> sl[i]]
        /\ q = [index |-> ix, number |-> Len(list), slot |-> sl]
        /\ \A i \in 1 .. Len(list) : sl[(ix + i - 1) % Slots] = list[i]
  BY <1>p
<1>2. PICK num, more : num = Len(list) /\ more = Len(irqs)
  OBVIOUS
<1>3. /\ num \in Nat /\ more \in Nat /\ num + more <= Lag
      /\ Slots \in Nat \ {0} /\ Lag \in Nat /\ Wrap \in Nat /\ Lag <= Slots /\ Slots + Lag <= Wrap
  BY <1>2 DEF Parameters
<1> DEFINE Here(i) == {k \in 1 .. Len(irqs) : ((q.index + q.number + k - 1) % Wrap) % Slots = i}
<1>4. PICK sl2 :
        sl2 = [i \in 0 .. Slots - 1 |-> IF Here(i) = {} THEN q.slot[i] ELSE irqs[Max(Here(i))]]
  OBVIOUS
<1>5. Signal(q, irqs) = [index |-> ix, number |-> (num + more) % Wrap, slot |-> sl2]
  <2>1. Signal(q, irqs) = [q EXCEPT !.number = (@ + Len(irqs)) % Wrap, !.slot = sl2]
    BY <1>4 DEF Signal
  <2> QED
    BY <1>1, <1>2, <2>1
<1>a. q.index = ix /\ q.number = num /\ q.slot = sl
  BY <1>1, <1>2
<1>6. (num + more) % Wrap = num + more
  <2>1. Wrap \in Nat \ {0} /\ num + more \in 0 .. Wrap - 1
    BY <1>3
  <2>2. num + more \in 0 .. 2 * Wrap - 1 /\ num + more < Wrap
    BY <2>1
  <2> QED
    BY <2>1, <2>2, RoundTheRing
<1>7. \A k \in 1 .. more : (ix + num + k - 1) % Wrap = ix + (num + k) - 1
  <2> TAKE k \in 1 .. more
  <2>1. PICK x : x = ix + num + k - 1
    OBVIOUS
  <2>2. x \in 0 .. Wrap - 1 /\ Wrap \in Nat \ {0}
    BY <1>3, <2>1
  <2>3. x \in 0 .. 2 * Wrap - 1 /\ x < Wrap
    BY <2>2
  <2>4. x % Wrap = x
    BY <2>2, <2>3, RoundTheRing
  <2>5. x = ix + (num + k) - 1
    BY <1>3, <2>1
  <2> QED
    BY <2>1, <2>4, <2>5
<1>8. \A i \in 0 .. Slots - 1 : Here(i) = {k \in 1 .. more : (ix + (num + k) - 1) % Slots = i}
  BY <1>2, <1>7, <1>a
<1> HIDE DEF Here
<1>9. ASSUME NEW i \in 1 .. num + more
      PROVE  (ix + i - 1) % Slots \in 0 .. Slots - 1 /\ i \in 1 .. Slots
  <2>1. ix + i - 1 \in Int
    BY <1>3
  <2> QED
    BY <1>3, <2>1
<1>10. ASSUME NEW i \in 1 .. num
       PROVE  sl2[(ix + i - 1) % Slots] = list[i]
  <2>1. i \in 1 .. num + more
    BY <1>3
  <2>2. PICK p \in 0 .. Slots - 1 : p = (ix + i - 1) % Slots
    BY <1>9, <2>1
  <2>3. ASSUME NEW k \in 1 .. more PROVE (ix + (num + k) - 1) % Slots # p
    <3>1. num + k \in 1 .. Slots /\ i \in 1 .. Slots /\ num + k # i
      BY <1>3
    <3> QED
      BY <1>3, <2>2, <3>1, PlacesApart
  <2>4. Here(p) = {}
    BY <1>8, <2>3
  <2>5. sl2[p] = sl[p]
    BY <1>4, <1>a, <2>4
  <2> QED
    BY <1>1, <1>2, <2>2, <2>5
<1>11. ASSUME NEW k \in 1 .. more
       PROVE  sl2[(ix + (num + k) - 1) % Slots] = irqs[k]
  <2>1. num + k \in 1 .. num + more
    BY <1>3
  <2>2. PICK p \in 0 .. Slots - 1 : p = (ix + (num + k) - 1) % Slots
    BY <1>9, <2>1
  <2>3. ASSUME NEW j \in 1 .. more, j # k PROVE (ix + (num + j) - 1) % Slots # p
    <3>1. num + k \in 1 .. Slots /\ num + j \in 1 .. Slots /\ num + k # num + j
      BY <1>3, <2>3
    <3> QED
      BY <1>3, <2>2, <3>1, PlacesApart
  <2>4. Here(p) = {k}
    BY <1>8, <2>2, <2>3
  <2>5. Max({k}) = k
    <3>1. k \in 0 .. more /\ more \in Nat
      BY <1>3
    <3>2. {k} \subseteq 0 .. more /\ {k} # {}
      BY <3>1
    <3>3. Max({k}) \in {k}
      BY <3>1, <3>2, MaxId
    <3> QED
      BY <3>3
  <2>6. sl2[p] = irqs[k]
    BY <1>4, <2>4, <2>5
  <2> QED
    BY <2>2, <2>6
<1>12. PICK both : both = list \o irqs
  OBVIOUS
<1>13. Len(both) = num + more /\ \A i \in 1 .. num : both[i] = list[i]
  BY <1>2, <1>12
<1>b. ASSUME NEW k \in 1 .. more PROVE both[num + k] = irqs[k]
  BY <1>2, <1>12
<1>14. ASSUME NEW i \in 1 .. Len(both) PROVE sl2[(ix + i - 1) % Slots] = both[i]
  <2>1. i \in 1 .. num \/ \E k \in 1 .. more : i = num + k
    <3>1. i \in 1 .. num + more
      BY <1>13
    <3>2. CASE i > num
      <4>1. i - num \in 1 .. more /\ i = num + (i - num)
        BY <1>3, <3>1, <3>2
      <4> QED
        BY <4>1
    <3>3. CASE i <= num
      BY <1>3, <3>1, <3>3
    <3> QED
      BY <1>3, <3>1, <3>2, <3>3
  <2>2. CASE i \in 1 .. num
    BY <1>10, <1>13, <2>2
  <2>3. ASSUME NEW k \in 1 .. more, i = num + k PROVE sl2[(ix + i - 1) % Slots] = both[i]
    <3>1. sl2[(ix + (num + k) - 1) % Slots] = irqs[k]
      BY <1>11
    <3>2. both[num + k] = irqs[k]
      BY <1>b
    <3>3. both[i] = irqs[k] /\ (ix + i - 1) % Slots = (ix + (num + k) - 1) % Slots
      BY <2>3, <3>2
    <3> QED
      BY <3>1, <3>3
  <2> QED
    BY <2>1, <2>2, <2>3
<1>15. DOMAIN sl2 = 0 .. Slots - 1 /\ sl2 = [i \in 0 .. Slots - 1 |-> sl2[i]]
  BY <1>4
<1>16. PICK r : r = Signal(q, irqs)
  OBVIOUS
<1>17. r = [index |-> ix, number |-> Len(both), slot |-> sl2] /\ Len(both) <= Lag
  BY <1>3, <1>5, <1>6, <1>13, <1>16
<1>18. \E jx \in 0 .. Slots - 1 : \E tl :
         /\ DOMAIN tl = 0 .. Slots - 1 /\ tl = [i \in 0 .. Slots - 1 |-> tl[i]]
         /\ r = [index |-> jx, number |-> Len(both), slot |-> tl]
         /\ \A i \in 1 .. Len(both) : tl[(jx + i - 1) % Slots] = both[i]
  <2> WITNESS ix \in 0 .. Slots - 1
  <2> WITNESS sl2
  <2> QED
    BY <1>14, <1>15, <1>17
<1>19. Relays(r, both)
  BY <1>17, <1>18, Zenon DEF Relays
<1> QED
  BY <1>12, <1>16, <1>19

\* A client takes the oldest interrupt.
LEMMA InterruptTaken ==
  ASSUME Parameters, NEW Irq, NEW list \in Seq(Irq), list # <<>>, NEW q, NEW r, Relays(q, list),
         r = [q EXCEPT !.number = @ - 1, !.index = (@ + 1) % Slots]
  PROVE  Relays(r, Tail(list)) /\ Tail(list) \in Seq(Irq)
PROOF
<1>p. PICK ix \in 0 .. Slots - 1 : \E sl :
        /\ DOMAIN sl = 0 .. Slots - 1 /\ sl = [i \in 0 .. Slots - 1 |-> sl[i]]
        /\ q = [index |-> ix, number |-> Len(list), slot |-> sl]
        /\ \A i \in 1 .. Len(list) : sl[(ix + i - 1) % Slots] = list[i]
  BY DEF Relays
<1>1. PICK sl :
        /\ DOMAIN sl = 0 .. Slots - 1 /\ sl = [i \in 0 .. Slots - 1 |-> sl[i]]
        /\ q = [index |-> ix, number |-> Len(list), slot |-> sl]
        /\ \A i \in 1 .. Len(list) : sl[(ix + i - 1) % Slots] = list[i]
  BY <1>p
<1>2. PICK num : num = Len(list)
  OBVIOUS
<1>3. num \in Nat \ {0} /\ num <= Lag /\ Slots \in Nat \ {0} /\ Lag \in Nat /\ Lag <= Slots
  BY <1>2 DEF Parameters, Relays
<1>4. PICK jx : jx = (ix + 1) % Slots
  OBVIOUS
<1>5. jx \in 0 .. Slots - 1
  BY <1>3, <1>4
<1>6. PICK rest : rest = Tail(list)
  OBVIOUS
<1>7. rest \in Seq(Irq) /\ Len(rest) = num - 1 /\ \A i \in 1 .. num - 1 : rest[i] = list[i + 1]
  BY <1>2, <1>6
<1>8. r = [index |-> jx, number |-> Len(rest), slot |-> sl] /\ Len(rest) <= Lag
  <2>1. r = [index |-> jx, number |-> num - 1, slot |-> sl]
    BY <1>1, <1>2, <1>4
  <2>2. num - 1 = Len(rest)
    BY <1>7
  <2>3. r = [index |-> jx, number |-> Len(rest), slot |-> sl]
    BY <2>1, <2>2
  <2>4. Len(rest) <= Lag
    BY <1>3, <1>7
  <2> QED
    BY <2>3, <2>4
<1>9. ASSUME NEW i \in 1 .. Len(rest) PROVE sl[(jx + i - 1) % Slots] = rest[i]
  <2>1. i \in 1 .. num - 1 /\ i + 1 \in 1 .. num /\ num \in 0 .. Slots /\ 1 \in 0 .. num
    BY <1>3, <1>7
  <2>2. (((ix + 1) % Slots) + i - 1) % Slots = (ix + (1 + i) - 1) % Slots
    <3>1. \A n \in 0 .. num : \A j \in 1 .. num - n :
            (((ix + n) % Slots) + j - 1) % Slots = (ix + (n + j) - 1) % Slots
      BY <1>3, <2>1, RingPlaces
    <3>2. 1 \in 0 .. num /\ i \in 1 .. num - 1
      BY <2>1
    <3> QED
      BY <3>1, <3>2
  <2>3. ix + (1 + i) - 1 = ix + (i + 1) - 1
    BY <2>1
  <2>4. sl[(ix + (i + 1) - 1) % Slots] = list[i + 1]
    <3>1. PICK j : j = i + 1
      OBVIOUS
    <3>2. j \in 1 .. Len(list)
      BY <1>2, <2>1, <3>1
    <3>3. sl[(ix + j - 1) % Slots] = list[j]
      BY <1>1, <3>2
    <3> QED
      BY <3>1, <3>3
  <2> QED
    <3>1. rest[i] = list[i + 1]
      BY <1>7, <2>1
    <3>2. (jx + i - 1) % Slots = (ix + (i + 1) - 1) % Slots
      BY <1>4, <2>2, <2>3
    <3> QED
      BY <2>4, <3>1, <3>2
<1>10. \E kx \in 0 .. Slots - 1 : \E tl :
         /\ DOMAIN tl = 0 .. Slots - 1 /\ tl = [i \in 0 .. Slots - 1 |-> tl[i]]
         /\ r = [index |-> kx, number |-> Len(rest), slot |-> tl]
         /\ \A i \in 1 .. Len(rest) : tl[(kx + i - 1) % Slots] = rest[i]
  <2>1. jx \in 0 .. Slots - 1
    BY <1>5
  <2> WITNESS jx \in 0 .. Slots - 1
  <2> WITNESS sl
  <2> QED
    BY <1>1, <1>8, <1>9
<1>11. Relays(r, rest)
  BY <1>8, <1>10, Zenon DEF Relays
<1> QED
  BY <1>6, <1>7, <1>11

\* The interrupts of the commands that ran are a sequence.
LEMMA InterruptsAreSeq ==
  ASSUME NEW cs, Len(cs) \in Nat
  PROVE  \E Irq : Interrupts(cs) \in Seq(Irq)
PROOF
<1>1. PICK raising : raising = {k \in 1 .. Len(cs) : cs[k].irq # None}
  OBVIOUS
<1>2. PICK n : n = Cardinality(raising)
  OBVIOUS
<1>3. n \in Nat
  <2>1. IsFiniteSet(1 .. Len(cs))
    BY FS_Interval
  <2>2. raising \subseteq 1 .. Len(cs)
    BY <1>1
  <2>3. IsFiniteSet(raising)
    BY <2>1, <2>2, FS_Subset
  <2> QED
    BY <1>2, <2>3, FS_CardinalityType
<1> DEFINE Of(i) == cs[CHOOSE k \in raising : Cardinality(raising \cap (1 .. k)) = i].irq
<1>4. Interrupts(cs) = [i \in 1 .. n |-> Of(i)]
  BY <1>1, <1>2 DEF Interrupts
<1> HIDE DEF Of
<1>5. PICK Irq : Irq = {Of(i) : i \in 1 .. n}
  OBVIOUS
<1>6. \A i \in 1 .. n : Of(i) \in Irq
  BY <1>5
<1>7. [i \in 1 .. n |-> Of(i)] \in Seq(Irq)
  BY <1>3, <1>6
<1> QED
  BY <1>4, <1>7

\* One thread's queue and list are replaced by others that agree.
LEMMA RelayReplaced ==
  ASSUME RelayInv, NEW t \in Thread, NEW q, NEW list, NEW Irq, list \in Seq(Irq), Relays(q, list),
         relay' = [relay EXCEPT ![t] = q], pending' = [pending EXCEPT ![t] = list]
  PROVE  RelayInv'
PROOF
<1>1. PICK Old : pending \in [Thread -> Seq(Old)]
  BY DEF RelayInv
<1>2. PICK Every : Every = Old \cup Irq
  OBVIOUS
<1>3. list \in Seq(Every) /\ \A u \in Thread : pending[u] \in Seq(Every)
  BY <1>1, <1>2
<1>4. pending' \in [Thread -> Seq(Every)]
  BY <1>1, <1>3
<1>5. DOMAIN relay' = Thread /\ relay' = [u \in Thread |-> relay'[u]]
  BY DEF RelayInv
<1>6. /\ relay'[t] = q /\ pending'[t] = list
      /\ \A u \in Thread : u # t => relay'[u] = relay[u] /\ pending'[u] = pending[u]
  BY <1>1 DEF RelayInv
<1>7. ASSUME NEW u \in Thread PROVE Relays(relay'[u], pending'[u])
  BY <1>6 DEF RelayInv
<1> QED
  BY <1>4, <1>5, <1>7 DEF RelayInv, Relays

\* The relay queues are empty initially.
LEMMA RelayInit ==
  ASSUME Parameters, Init
  PROVE  RelayInv
PROOF
<1>1. PICK sl : sl = [i \in 0 .. Slots - 1 |-> None]
  OBVIOUS
<1>2. PICK q : q = [index |-> 0, number |-> 0, slot |-> sl]
  OBVIOUS
<1>3. relay = [t \in Thread |-> q] /\ pending = [t \in Thread |-> <<>>]
  BY <1>1, <1>2 DEF Init
<1>4. 0 \in 0 .. Slots - 1 /\ 0 <= Lag
  BY DEF Parameters
<1>5. PICK list : list = <<>>
  OBVIOUS
<1>6. list \in Seq({}) /\ Len(list) = 0
  BY <1>5
<1>7. q = [index |-> 0, number |-> Len(list), slot |-> sl] /\ Len(list) <= Lag
  BY <1>2, <1>4, <1>6
<1>8. \E jx \in 0 .. Slots - 1 : \E tl :
        /\ DOMAIN tl = 0 .. Slots - 1 /\ tl = [i \in 0 .. Slots - 1 |-> tl[i]]
        /\ q = [index |-> jx, number |-> Len(list), slot |-> tl]
        /\ \A i \in 1 .. Len(list) : tl[(jx + i - 1) % Slots] = list[i]
  <2>1. DOMAIN sl = 0 .. Slots - 1 /\ sl = [i \in 0 .. Slots - 1 |-> sl[i]]
    BY <1>1
  <2>2. \A i \in 1 .. Len(list) : FALSE
    BY <1>6
  <2>3. 0 \in 0 .. Slots - 1
    BY <1>4
  <2> WITNESS 0 \in 0 .. Slots - 1
  <2> WITNESS sl
  <2> QED
    BY <1>7, <2>1, <2>2
<1>9. Relays(q, list)
  BY <1>7, <1>8, Zenon DEF Relays
<1>10. pending \in [Thread -> Seq({})]
  BY <1>3, <1>5, <1>6
<1>11. ASSUME NEW t \in Thread PROVE Relays(relay[t], pending[t])
  BY <1>3, <1>5, <1>9
<1>12. DOMAIN relay = Thread /\ relay = [t \in Thread |-> relay[t]]
  BY <1>3
<1> QED
  BY <1>10, <1>11, <1>12 DEF RelayInv

\* Every step keeps the relay queues and the interrupts not taken together.
LEMMA RelayInvNext ==
  ASSUME Parameters, RightInv, BufferInv, RelayInv, [Next]_vars
  PROVE  RelayInv'
PROOF
<1>0. PICK Irq : pending \in [Thread -> Seq(Irq)]
  BY DEF RelayInv
<1>1. ASSUME UNCHANGED <<relay, pending>> PROVE RelayInv'
  BY <1>1 DEF RelayInv, Relays
<1>2. ASSUME NEW t \in Thread, NEW New, NEW irqs \in Seq(New), Raise(t, irqs) PROVE RelayInv'
  <2>1. CASE UNCHANGED <<relay, pending>>
    BY <1>1, <2>1
  <2>2. CASE /\ Len(pending[t]) + Len(irqs) <= Lag
             /\ relay' = [relay EXCEPT ![t] = Signal(@, irqs)]
             /\ pending' = [pending EXCEPT ![t] = @ \o irqs]
    <3>1. PICK Every : Every = Irq \cup New
      OBVIOUS
    <3>2. PICK q, list, both : q = Signal(relay[t], irqs) /\ list = pending[t] /\ both = list \o irqs
      OBVIOUS
    <3>3. list \in Seq(Every) /\ irqs \in Seq(Every) /\ both \in Seq(Every)
      BY <1>0, <3>1, <3>2
    <3>4. Relays(relay[t], list)
      BY <3>2 DEF RelayInv
    <3>5. Len(list) + Len(irqs) <= Lag
      BY <2>2, <3>2
    <3>6. Relays(q, both)
      BY <3>2, <3>3, <3>4, <3>5, InterruptsSignalled
    <3>7. relay' = [relay EXCEPT ![t] = q]
      BY <2>2, <3>2 DEF RelayInv
    <3>8. pending' = [pending EXCEPT ![t] = both]
      BY <2>2, <3>2, <1>0
    <3> QED
      BY <3>3, <3>6, <3>7, <3>8, RelayReplaced
  <2> QED
    BY <1>2, <2>1, <2>2 DEF Raise
<1>3. ASSUME NEW s \in Session, TriggerCmdReqQueue(s) PROVE RelayInv'
  <2>1. CASE active_thread_id = None
    BY <1>1, <1>3, <2>1 DEF TriggerCmdReqQueue
  <2>2. CASE active_thread_id # None
    <3>1. PICK t : t = active_thread_id
      OBVIOUS
    <3>2. t \in Thread
      BY <2>2, <3>1, IdsAreThreads DEF RightInv
    <3>3. PICK n, cs : n = Runs(buffer[t]) /\ cs = SubSeq(Written(buffer[t]), 1, n)
      OBVIOUS
    <3>4. Raise(t, Interrupts(cs))
      BY <1>3, <2>2, <3>1, <3>3 DEF TriggerCmdReqQueue
    <3>5. buffer[t] \in BufferData /\ todo[t] \in Seq(Command) /\ Holds(buffer[t], todo[t])
      BY <3>2 DEF BufferInv
    <3>6. Written(buffer[t]) = todo[t] /\ n \in Nat
      BY <3>3, <3>5, WrittenIsList, RunsBound DEF BufferData
    <3>7. Len(cs) \in Nat
      BY <3>3, <3>5, <3>6
    <3>8. PICK New : Interrupts(cs) \in Seq(New)
      BY <3>7, InterruptsAreSeq
    <3> QED
      BY <1>2, <3>2, <3>4, <3>8
  <2> QED
    BY <2>1, <2>2
<1>4. ASSUME VBlank PROVE RelayInv'
  <2>1. PICK listening : listening = {t \in Thread : Registered(t)}
    OBVIOUS
  <2>2. PICK irqs : irqs = <<"PDC0", "PDC1">>
    OBVIOUS
  <2>3. PICK Every : Every = Irq \cup {"PDC0", "PDC1"}
    OBVIOUS
  <2>4. irqs \in Seq(Every) /\ Len(irqs) = 2
    BY <2>2, <2>3
  <2>5. /\ \A t \in listening : Len(pending[t]) + Len(irqs) <= Lag
        /\ relay' = [t \in Thread |-> IF t \in listening THEN Signal(relay[t], irqs) ELSE relay[t]]
        /\ pending' = [t \in Thread |-> IF t \in listening THEN pending[t] \o irqs ELSE pending[t]]
    BY <1>4, <2>1, <2>2, <2>4 DEF VBlank
  <2>6. ASSUME NEW t \in Thread
        PROVE  pending'[t] \in Seq(Every) /\ Relays(relay'[t], pending'[t])
    <3>1. PICK list, both : list = pending[t] /\ both = list \o irqs
      OBVIOUS
    <3>2. list \in Seq(Every) /\ both \in Seq(Every)
      BY <1>0, <2>3, <2>4, <3>1
    <3>3. Relays(relay[t], list)
      BY <3>1 DEF RelayInv
    <3>4. CASE t \in listening
      <4>1. Len(list) + Len(irqs) <= Lag
        BY <2>5, <3>1, <3>4
      <4>2. Relays(Signal(relay[t], irqs), both)
        BY <2>4, <3>1, <3>2, <3>3, <4>1, InterruptsSignalled
      <4>3. relay'[t] = Signal(relay[t], irqs) /\ pending'[t] = both
        BY <2>5, <3>1, <3>4
      <4> QED
        BY <3>2, <4>2, <4>3
    <3>5. CASE t \notin listening
      <4>1. relay'[t] = relay[t] /\ pending'[t] = list
        BY <2>5, <3>1, <3>5
      <4> QED
        BY <3>2, <3>3, <4>1
    <3> QED
      BY <3>4, <3>5
  <2>7. /\ DOMAIN relay' = Thread /\ relay' = [t \in Thread |-> relay'[t]]
        /\ pending' = [t \in Thread |-> pending'[t]]
    BY <2>5
  <2>8. pending' \in [Thread -> Seq(Every)]
    BY <2>6, <2>7
  <2>9. \A t \in Thread : Relays(relay'[t], pending'[t])
    BY <2>6
  <2> QED
    BY <2>7, <2>8, <2>9 DEF RelayInv, Relays
<1>5. ASSUME NEW t \in Thread, TakeInterrupt(t) PROVE RelayInv'
  <2>1. PICK q, list, rest : /\ q = [relay[t] EXCEPT !.number = @ - 1, !.index = (@ + 1) % Slots]
                             /\ list = pending[t] /\ rest = Tail(list)
    OBVIOUS
  <2>2. list # <<>> /\ pending' = [pending EXCEPT ![t] = rest]
    BY <1>0, <1>5, <2>1 DEF TakeInterrupt
  <2>3. relay' = [relay EXCEPT ![t] = q]
    BY <1>5, <2>1 DEF TakeInterrupt, RelayInv
  <2>4. list \in Seq(Irq) /\ Relays(relay[t], list)
    BY <1>0, <2>1 DEF RelayInv
  <2>5. Relays(q, rest) /\ rest \in Seq(Irq)
    BY <2>1, <2>2, <2>4, InterruptTaken
  <2> QED
    BY <2>2, <2>3, <2>5, RelayReplaced
<1>6. ASSUME NEW s \in Session, \/ Connect(s) \/ Disconnect(s) \/ ReleaseRight(s)
                                \/ \E b \in BOOLEAN : Register(s, b) \/ AcquireGpuRight(s, b)
                                \/ \E c \in Command : WriteCommand(s, c)
                                \/ SaveVramSysArea(s) \/ RestoreVramSysArea(s)
      PROVE  UNCHANGED <<relay, pending>>
  BY <1>6 DEF Connect, Disconnect, ReleaseRight, Register, AcquireGpuRight, WriteCommand,
              SaveVramSysArea, RestoreVramSysArea, Shared
<1>7. ASSUME NEW t \in Thread, ClearStatus(t) \/ \E c \in Drawn, f \in Frame : HandOver(t, c, f)
      PROVE  UNCHANGED <<relay, pending>>
  BY <1>7 DEF ClearStatus, HandOver
<1>8. UNCHANGED vars => UNCHANGED <<relay, pending>>
  BY DEF vars
<1> QED
  BY <1>1, <1>3, <1>4, <1>5, <1>6, <1>7, <1>8 DEF Next

\* What a client reads is what was signalled.
LEMMA RelayInvImplies ==
  ASSUME RelayInv
  PROVE  RelayFaithful
PROOF
<1> SUFFICES ASSUME NEW t \in Thread
             PROVE  /\ relay[t].number = Len(pending[t])
                    /\ \A i \in 1 .. Len(pending[t]) :
                         relay[t].slot[(relay[t].index + i - 1) % Slots] = pending[t][i]
  BY DEF RelayFaithful
<1>p. PICK ix \in 0 .. Slots - 1 : \E sl :
        /\ relay[t] = [index |-> ix, number |-> Len(pending[t]), slot |-> sl]
        /\ \A i \in 1 .. Len(pending[t]) : sl[(ix + i - 1) % Slots] = pending[t][i]
  BY DEF RelayInv, Relays
<1>1. PICK sl :
        /\ relay[t] = [index |-> ix, number |-> Len(pending[t]), slot |-> sl]
        /\ \A i \in 1 .. Len(pending[t]) : sl[(ix + i - 1) % Slots] = pending[t][i]
  BY <1>p
<1>2. relay[t].index = ix /\ relay[t].number = Len(pending[t]) /\ relay[t].slot = sl
  BY <1>1
<1> QED
  BY <1>1, <1>2

\* What lies in the shared memory is what the two sides have put there: a command
\* buffer holds the commands written and not run, a relay queue the interrupts
\* signalled and not taken, oldest first (SharedMemoryFaithful), as long as the
\* clients take their interrupts before the slots run out.
THEOREM SharedMemoryFaithfulHolds ==
  ASSUME Parameters
  PROVE  Spec => []SharedMemoryFaithful
PROOF
<1> DEFINE Inv == RightInv /\ BufferInv /\ RelayInv
<1>1. Init => Inv
  BY RightInit, BufferInit, RelayInit
<1>2. Inv /\ [Next]_vars => Inv'
  BY RightInvNext, BufferInvNext, RelayInvNext
<1>3. Inv => SharedMemoryFaithful
  BY WrittenIsList, RelayInvImplies DEF BufferInv, CommandsFaithful, SharedMemoryFaithful
<1> QED
  BY <1>1, <1>2, <1>3, PTL DEF Spec

\* No command runs while its buffer is stopped or behind the one that stops it,
\* and the flag of a frame is cleared only with it, or the frame of a later
\* thread, on the screen (GpuSteps).
THEOREM GpuStepsHold ==
  ASSUME Parameters
  PROVE  Spec => GpuSteps
PROOF
<1> DEFINE Inv == RightInv /\ BufferInv /\ ScreenTypes
<1>1. Init => Inv
  BY RightInit, BufferInit, ScreenInit
<1>2. Inv /\ [Next]_vars => Inv' /\ [StopsAtStop /\ FramesShown]_vars
  BY RightInvNext, BufferInvNext, FramesNext
<1> QED
  BY <1>1, <1>2, PTL DEF Spec, GpuSteps

-----------------------------------------------------------------------------
(* nwm::UDS: the room *)

\* What the parameters stand for; one station hosts.
UdsParameters ==
  /\ IsFiniteSet(Station) /\ Hosts \subseteq Station /\ \A g, h \in Hosts : g = h
  /\ MaxNodes \in Nat \ {0} /\ Types \subseteq {"Client", "Spectator"}
  /\ None \notin [connected : BOOLEAN, spec : BOOLEAN, id : Nat]

\* A packet from r to s: who asks for a place says as what, and only a host
\* sends lists of nodes, to others.
Packet(p, r, s) ==
  /\ p.type = "start" => p.kind \in {"Client", "Spectator"}
  /\ p.type \in {"map", "logoff"} => r \in Hosts /\ r # s

Wire(q, r, s) == (\E P : q \in Seq(P)) /\ \A k \in 1 .. Len(q) : Packet(q[k], r, s)

Wires(n) ==
  /\ DOMAIN n = Station
  /\ \A r \in Station : DOMAIN n[r] = Station /\ \A s \in Station : Wire(n[r][s], r, s)

\* The packets by which a station joins; those behind the host's first answer are
\* late.
Joining(p) == p.type \in {"auth", "assoc", "start"}
Late(p)    == p.type \in {"assoc", "start"}

Loose(q)  == \A k \in 1 .. Len(q) : ~ Joining(q[k])
Sole(q)   == \A j, k \in 1 .. Len(q) : Joining(q[j]) /\ Joining(q[k]) => j = k
Silent(n) == \A r, s \in Station : Loose(n[r][s])
Alone(n)  ==
  /\ \A r, s \in Station : Sole(n[r][s])
  /\ \A r, s, t, u \in Station : Loose(n[r][s]) \/ Loose(n[t][u]) \/ (r = t /\ s = u)
HasLate(n) == \E r, s \in Station : \E k \in 1 .. Len(n[r][s]) : Late(n[r][s][k])

\* The first packet is taken off a wire.
LEMMA WireTail ==
  ASSUME NEW q, NEW r, NEW s, Wire(q, r, s), q # <<>>
  PROVE  /\ Wire(Tail(q), r, s) /\ Packet(Head(q), r, s)
         /\ Len(Tail(q)) = Len(q) - 1 /\ \A k \in 1 .. Len(Tail(q)) : k + 1 \in 1 .. Len(q) /\ Tail(q)[k] = q[k + 1]
         /\ 1 \in 1 .. Len(q) /\ Head(q) = q[1]
PROOF
<1>1. PICK P : q \in Seq(P)
  BY DEF Wire
<1>2. Tail(q) \in Seq(P) /\ Len(Tail(q)) = Len(q) - 1 /\ Len(q) \in Nat \ {0} /\ Head(q) = q[1]
  BY <1>1
<1>3. \A k \in 1 .. Len(Tail(q)) : k + 1 \in 1 .. Len(q) /\ Tail(q)[k] = q[k + 1]
  BY <1>1, <1>2
<1>4. \A k \in 1 .. Len(Tail(q)) : Packet(Tail(q)[k], r, s)
  BY <1>3 DEF Wire
<1>5. 1 \in 1 .. Len(q)
  BY <1>2
<1>6. Packet(Head(q), r, s)
  BY <1>2, <1>5 DEF Wire
<1> QED
  BY <1>2, <1>3, <1>4, <1>5, <1>6 DEF Wire

\* A packet is put on a wire.
LEMMA WireAppend ==
  ASSUME NEW q, NEW r, NEW s, Wire(q, r, s), NEW p, Packet(p, r, s)
  PROVE  /\ Wire(Append(q, p), r, s)
         /\ Len(Append(q, p)) = Len(q) + 1 /\ Len(q) \in Nat
         /\ \A k \in 1 .. Len(q) : k \in 1 .. Len(Append(q, p)) /\ Append(q, p)[k] = q[k]
         /\ Append(q, p)[Len(q) + 1] = p
PROOF
<1>1. PICK P : q \in Seq(P)
  BY DEF Wire
<1>2. PICK R : R = P \cup {p}
  OBVIOUS
<1>3. q \in Seq(R) /\ p \in R
  BY <1>1, <1>2
<1>4. Append(q, p) \in Seq(R) /\ Len(Append(q, p)) = Len(q) + 1 /\ Len(q) \in Nat
  BY <1>3
<1>5. /\ \A k \in 1 .. Len(q) : k \in 1 .. Len(Append(q, p)) /\ Append(q, p)[k] = q[k]
      /\ Append(q, p)[Len(q) + 1] = p
  BY <1>3, <1>4
<1>6. \A k \in 1 .. Len(Append(q, p)) : k \in 1 .. Len(q) \/ k = Len(q) + 1
  BY <1>4
<1>7. \A k \in 1 .. Len(Append(q, p)) : Packet(Append(q, p)[k], r, s)
  BY <1>5, <1>6 DEF Wire
<1> QED
  BY <1>4, <1>5, <1>7 DEF Wire

\* A station takes a packet.
LEMMA TakenFacts ==
  ASSUME Wires(net), NEW r \in Station, NEW s \in Station, net[r][s] # <<>>
  PROVE  /\ Wires(Taken(r, s)) /\ Packet(Head(net[r][s]), r, s)
         /\ Alone(net) => Alone(Taken(r, s))
         /\ Silent(net) => Silent(Taken(r, s))
         /\ Alone(net) /\ Joining(Head(net[r][s])) => Silent(Taken(r, s))
         /\ HasLate(Taken(r, s)) => HasLate(net)
         /\ Late(Head(net[r][s])) => HasLate(net)
PROOF
<1>1. PICK n : n = Taken(r, s)
  OBVIOUS
<1>2. /\ DOMAIN n = Station /\ \A t \in Station : DOMAIN n[t] = Station
      /\ n[r][s] = Tail(net[r][s])
      /\ \A t, u \in Station : t # r \/ u # s => n[t][u] = net[t][u]
  BY <1>1 DEF Taken, Wires
<1>3. PICK q : q = net[r][s]
  OBVIOUS
<1>4. /\ Wire(Tail(q), r, s) /\ Packet(Head(q), r, s)
      /\ \A k \in 1 .. Len(Tail(q)) : k + 1 \in 1 .. Len(q) /\ Tail(q)[k] = q[k + 1]
      /\ 1 \in 1 .. Len(q) /\ Head(q) = q[1]
  BY <1>3, WireTail DEF Wires
<1>5. Wires(n)
  BY <1>2, <1>3, <1>4 DEF Wires
<1>6. Loose(q) => Loose(Tail(q))
  BY <1>4 DEF Loose
<1>7. Sole(q) => Sole(Tail(q))
  BY <1>4 DEF Sole
<1>8. Sole(q) /\ Joining(Head(q)) => Loose(Tail(q))
  BY <1>4 DEF Sole, Loose
<1>9. Alone(net) => Alone(n)
  BY <1>2, <1>3, <1>6, <1>7 DEF Alone
<1>10. Silent(net) => Silent(n)
  BY <1>2, <1>3, <1>6 DEF Silent
<1>11. Alone(net) /\ Joining(Head(q)) => Silent(n)
  <2> SUFFICES ASSUME Alone(net), Joining(Head(q)), NEW t \in Station, NEW u \in Station
               PROVE  Loose(n[t][u])
    BY DEF Silent
  <2>1. ~ Loose(q)
    BY <1>4 DEF Loose
  <2>2. CASE t = r /\ u = s
    BY <2>2, <1>2, <1>3, <1>8 DEF Alone
  <2>3. CASE t # r \/ u # s
    BY <2>1, <2>3, <1>2, <1>3 DEF Alone
  <2> QED
    BY <2>2, <2>3
<1>12. HasLate(n) => HasLate(net)
  <2> SUFFICES ASSUME NEW t \in Station, NEW u \in Station,
                      NEW k \in 1 .. Len(n[t][u]), Late(n[t][u][k])
               PROVE  HasLate(net)
    BY DEF HasLate
  <2>1. CASE t = r /\ u = s
    <3>1. k + 1 \in 1 .. Len(q) /\ Late(q[k + 1])
      BY <2>1, <1>2, <1>3, <1>4
    <3> QED
      BY <3>1, <1>3 DEF HasLate
  <2>2. CASE t # r \/ u # s
    BY <2>2, <1>2 DEF HasLate
  <2> QED
    BY <2>1, <2>2
<1>13. Late(Head(q)) => HasLate(net)
  BY <1>3, <1>4 DEF HasLate
<1> QED
  BY <1>1, <1>3, <1>4, <1>5, <1>9, <1>10, <1>11, <1>12, <1>13

\* A packet is sent to one station.
LEMMA SendFacts ==
  ASSUME NEW n, Wires(n), NEW r \in Station, NEW s \in Station, NEW p, Packet(p, r, s)
  PROVE  /\ Wires(Send(n, r, s, p))
         /\ ~ Joining(p) => /\ Alone(n) => Alone(Send(n, r, s, p))
                            /\ Silent(n) => Silent(Send(n, r, s, p))
                            /\ HasLate(Send(n, r, s, p)) => HasLate(n)
         /\ Silent(n) => Alone(Send(n, r, s, p))
         /\ ~ Late(p) => (HasLate(Send(n, r, s, p)) => HasLate(n))
PROOF
<1>1. PICK m : m = Send(n, r, s, p)
  OBVIOUS
<1>3. PICK q : q = n[r][s]
  OBVIOUS
<1>4. PICK a : a = Append(q, p)
  OBVIOUS
<1>2. /\ DOMAIN m = Station /\ \A t \in Station : DOMAIN m[t] = Station
      /\ m[r][s] = a
      /\ \A t, u \in Station : t # r \/ u # s => m[t][u] = n[t][u]
  BY <1>1, <1>3, <1>4 DEF Send, Wires
<1>5. /\ Wire(a, r, s) /\ Len(a) = Len(q) + 1 /\ Len(q) \in Nat
      /\ \A k \in 1 .. Len(q) : k \in 1 .. Len(a) /\ a[k] = q[k]
      /\ a[Len(q) + 1] = p
  BY <1>3, <1>4, WireAppend DEF Wires
<1>6. \A k \in 1 .. Len(a) : k \in 1 .. Len(q) \/ k = Len(q) + 1
  BY <1>5
<1>7. Wires(m)
  BY <1>2, <1>5 DEF Wires
<1>8. ~ Joining(p) => (Loose(q) => Loose(a)) /\ (Sole(q) => Sole(a))
  BY <1>5, <1>6 DEF Loose, Sole
<1>9. Loose(q) => Sole(a)
  BY <1>5, <1>6 DEF Loose, Sole
<1>10. ~ Joining(p) => (Alone(n) => Alone(m)) /\ (Silent(n) => Silent(m))
  BY <1>2, <1>3, <1>8 DEF Alone, Silent
<1>11. Silent(n) => Alone(m)
  <2> SUFFICES ASSUME Silent(n) PROVE Alone(m)
    OBVIOUS
  <2>1. \A t, u \in Station : t # r \/ u # s => Loose(m[t][u])
    BY <1>2 DEF Silent
  <2>2. Sole(m[r][s])
    BY <1>2, <1>3, <1>9 DEF Silent
  <2>3. \A t, u \in Station : Sole(m[t][u])
    BY <2>1, <2>2 DEF Loose, Sole
  <2> QED
    BY <2>1, <2>3 DEF Alone
<1>12. ~ Late(p) => (HasLate(m) => HasLate(n))
  BY <1>2, <1>3, <1>5, <1>6 DEF HasLate
<1>13. ~ Joining(p) => ~ Late(p)
  BY DEF Joining, Late
<1> QED
  BY <1>1, <1>7, <1>10, <1>11, <1>12, <1>13

\* A packet that is not about joining is sent to all others.
LEMMA BroadcastFacts ==
  ASSUME NEW n, Wires(n), NEW r \in Station, NEW p, ~ Joining(p), p.type # "start",
         \A s \in Station : s # r => Packet(p, r, s)
  PROVE  /\ Wires(Broadcast(n, r, p))
         /\ Alone(n) => Alone(Broadcast(n, r, p))
         /\ Silent(n) => Silent(Broadcast(n, r, p))
         /\ HasLate(Broadcast(n, r, p)) => HasLate(n)
PROOF
<1>1. PICK m : m = Broadcast(n, r, p)
  OBVIOUS
<1>2. /\ DOMAIN m = Station /\ \A t \in Station : DOMAIN m[t] = Station
      /\ \A t, u \in Station : t # r \/ u = r => m[t][u] = n[t][u]
      /\ \A u \in Station : u # r => m[r][u] = Append(n[r][u], p)
  BY <1>1 DEF Broadcast, Wires
<1>3. \A u \in Station : u # r =>
        /\ Wire(m[r][u], r, u)
        /\ Loose(n[r][u]) => Loose(m[r][u])
        /\ Sole(n[r][u]) => Sole(m[r][u])
        /\ \A k \in 1 .. Len(m[r][u]) : Late(m[r][u][k]) => k \in 1 .. Len(n[r][u]) /\ Late(n[r][u][k])
  <2> SUFFICES ASSUME NEW u \in Station, u # r
               PROVE  /\ Wire(m[r][u], r, u)
                      /\ Loose(n[r][u]) => Loose(m[r][u])
                      /\ Sole(n[r][u]) => Sole(m[r][u])
                      /\ \A k \in 1 .. Len(m[r][u]) : Late(m[r][u][k]) => k \in 1 .. Len(n[r][u]) /\ Late(n[r][u][k])
    OBVIOUS
  <2>1. PICK q, a : q = n[r][u] /\ a = m[r][u]
    OBVIOUS
  <2>2. /\ Wire(a, r, u) /\ Len(a) = Len(q) + 1 /\ Len(q) \in Nat
        /\ \A k \in 1 .. Len(q) : k \in 1 .. Len(a) /\ a[k] = q[k]
        /\ a[Len(q) + 1] = p
    <3>1. Wire(q, r, u) /\ Packet(p, r, u) /\ a = Append(q, p)
      BY <1>2, <2>1 DEF Wires
    <3> QED
      BY <3>1, WireAppend
  <2>3. \A k \in 1 .. Len(a) : k \in 1 .. Len(q) \/ k = Len(q) + 1
    BY <2>2
  <2>4. (Loose(q) => Loose(a)) /\ (Sole(q) => Sole(a))
    BY <2>2, <2>3 DEF Loose, Sole
  <2>5. \A k \in 1 .. Len(a) : Late(a[k]) => k \in 1 .. Len(q) /\ Late(q[k])
    BY <2>2, <2>3 DEF Late, Joining
  <2> QED
    BY <2>1, <2>2, <2>4, <2>5
<1>4. \A t, u \in Station : /\ Loose(n[t][u]) => Loose(m[t][u])
                            /\ Sole(n[t][u]) => Sole(m[t][u])
                            /\ Wire(m[t][u], t, u)
                            /\ \A k \in 1 .. Len(m[t][u]) :
                                 Late(m[t][u][k]) => k \in 1 .. Len(n[t][u]) /\ Late(n[t][u][k])
  BY <1>2, <1>3 DEF Wires
<1>5. Wires(m)
  BY <1>2, <1>4 DEF Wires
<1>6. (Alone(n) => Alone(m)) /\ (Silent(n) => Silent(m))
  BY <1>4 DEF Alone, Silent
<1>7. HasLate(m) => HasLate(n)
  BY <1>4 DEF HasLate
<1> QED
  BY <1>1, <1>5, <1>6, <1>7

-----------------------------------------------------------------------------
(* nwm::UDS: the stations *)

Fields == {"initialized", "status", "id", "mask", "total", "max", "host", "ntotal", "info", "type", "node"}

\* What holds of a station's status and of what it is about to send.
StationInv(s) ==
  /\ s \notin Hosts => st[s].status # "Host"
  /\ st[s].status = "Connecting" => st[s].type \in Types
  /\ st[s].status # "NotConnected" => st[s].host \in Station
  /\ out[s].net # None => /\ out[s].net.type \in {"assoc", "start"} /\ out[s].net.to \in Station
                          /\ out[s].net.type = "start" => st[s].type \in Types
  /\ out[s].app # None => out[s].app.type \in {"auth", "deauth"} /\ out[s].app.to \in Station

Shapes ==
  /\ DOMAIN st = Station /\ \A s \in Station : DOMAIN st[s] = Fields
  /\ DOMAIN out = Station /\ \A s \in Station : DOMAIN out[s] = {"net", "app"}
  /\ DOMAIN node_map = Station

RoomInv == Shapes /\ Wires(net) /\ \A s \in Station : StationInv(s)

\* In the beginning.
LEMMA RoomInit ==
  ASSUME UdsParameters, UdsInit
  PROVE  RoomInv /\ Alone(net) /\ Silent(net) /\ ~ HasLate(net)
PROOF
<1>1. Shapes /\ \A s \in Station : StationInv(s)
  BY DEF UdsInit, Shapes, Fields, StationInv
<1>2. \A r, s \in Station : net[r][s] = <<>>
  BY DEF UdsInit
<1>3. DOMAIN net = Station /\ \A r \in Station : DOMAIN net[r] = Station
  BY DEF UdsInit
<1>4. <<>> \in Seq(Station) /\ Len(<<>>) = 0
  OBVIOUS
<1>5. Wires(net)
  <2>1. \A r, s \in Station : Wire(<<>>, r, s)
    BY <1>4 DEF Wire
  <2> QED
    BY <1>2, <1>3, <2>1 DEF Wires
<1>6. Silent(net) /\ ~ HasLate(net)
  BY <1>2, <1>4 DEF Silent, Loose, HasLate
<1>7. Alone(net)
  BY <1>2, <1>4 DEF Alone, Loose, Sole
<1> QED
  BY <1>1, <1>5, <1>6, <1>7 DEF RoomInv

\* What a host sends when it has given a place to r.
Announces(r, s) ==
  \E map, d, i : net' = Broadcast(Broadcast(Taken(r, s), s, [type |-> "map", map |-> map]), s, Logoff(d, i))
Answers(r, s) == \E d, i : net' = Broadcast(Taken(r, s), s, Logoff(d, i))

\* What becomes of a station that asks for a place: nothing, the assertion that
\* there is one (nwm_uds.cpp:96), or it becomes a client or a spectator.
LEMMA StartOutcome ==
  ASSUME NEW r, NEW s, HandleEAPoLStart(r, s)
  PROVE  /\ out' = out
         /\ \/ net' = Taken(r, s) /\ st' = st /\ node_map' = node_map /\ overfull' = overfull
            \/ /\ net' = Taken(r, s) /\ st' = st /\ node_map' = node_map
               /\ st[s].status = "Host" /\ node_map[s][r] # None
               /\ st[s].max = st[s].total \/ (1 .. st[s].max) \subseteq st[s].mask
            \/ /\ st[s].status = "Host" /\ node_map[s][r] # None /\ ~ node_map[s][r].connected
               /\ ~ (1 .. st[s].max) \subseteq st[s].mask /\ overfull' = overfull
               /\ node_map' = [node_map EXCEPT ![s] = [node_map[s] EXCEPT ![r] =
                                 Entry(Head(net[r][s]).kind, GetNextAvailableNodeId(st[s]))]]
               /\ \/ /\ Head(net[r][s]).kind = "Client"
                     /\ st' = [st EXCEPT ![s] = Joined(st[s], GetNextAvailableNodeId(st[s]))]
                     /\ Announces(r, s)
                  \/ /\ Head(net[r][s]).kind # "Client" /\ st' = st
                     /\ Answers(r, s)
PROOF
<1>1. CASE \/ st[s].status # "Host" \/ node_map[s][r] = None \/ node_map[s][r].connected
           \/ st[s].max = st[s].total \/ (1 .. st[s].max) \subseteq st[s].mask
  BY <1>1 DEF HandleEAPoLStart
<1>2. CASE /\ st[s].status = "Host" /\ node_map[s][r] # None /\ ~ node_map[s][r].connected
           /\ st[s].max # st[s].total /\ ~ (1 .. st[s].max) \subseteq st[s].mask
  <2>1. /\ out' = out /\ overfull' = overfull
        /\ node_map' = [node_map EXCEPT ![s] = [node_map[s] EXCEPT ![r] =
                           Entry(Head(net[r][s]).kind, GetNextAvailableNodeId(st[s]))]]
    BY <1>2 DEF HandleEAPoLStart
  <2>2. CASE Head(net[r][s]).kind = "Client"
    <3>1. PICK map : map = NodeMapOf([node_map[s] EXCEPT ![r] =
                             Entry(Head(net[r][s]).kind, GetNextAvailableNodeId(st[s]))])
      OBVIOUS
    <3>2. PICK i : i = GetNextAvailableNodeId(st[s])
      OBVIOUS
    <3>3. PICK d : d = Joined(st[s], i)
      OBVIOUS
    <3>4. st' = [st EXCEPT ![s] = Joined(st[s], GetNextAvailableNodeId(st[s]))]
      BY <1>2, <2>2 DEF HandleEAPoLStart
    <3>5. net' = Broadcast(Broadcast(Taken(r, s), s, [type |-> "map", map |-> map]), s, Logoff(d, i))
      BY <1>2, <2>2, <3>1, <3>2, <3>3 DEF HandleEAPoLStart
    <3>6. Announces(r, s)
      BY <3>5, Zenon DEF Announces
    <3> QED
      BY <1>2, <2>1, <2>2, <3>4, <3>6
  <2>3. CASE Head(net[r][s]).kind # "Client"
    <3>1. st' = st /\ net' = Broadcast(Taken(r, s), s, Logoff(st[s], Head(net[r][s]).node))
      BY <1>2, <2>3 DEF HandleEAPoLStart
    <3>2. Answers(r, s)
      BY <3>1, Zenon DEF Answers
    <3> QED
      BY <1>2, <2>1, <2>3, <3>1, <3>2
  <2> QED
    BY <2>2, <2>3
<1> QED
  BY <1>1, <1>2

\* The packets that stations put into the room are as they should be: packets
\* that are taken, sent and passed on.
LEMMA RoomStep ==
  ASSUME UdsParameters, RoomInv, UdsNext
  PROVE  RoomInv'
PROOF
<1>0. PICK s \in Station :
    \/ NetworkThread(s)
    \/ Initialize(s) \/ Shutdown(s) \/ BeginHostingNetwork(s) \/ DestroyNetwork(s)
    \/ \E h \in Hosts, type \in Types : ConnectToNetwork(s, h, type)
    \/ SendPacket(s) \/ DisconnectNetwork(s)
    \/ \E i \in 1 .. MaxNodes : EjectClient(s, i)
    \/ \E i \in {All} \cup 1 .. MaxNodes : Bind(s, i) \/ \E f \in Flags : SendTo(s, i, f)
    \/ Unbind(s) \/ PullPacket(s)
  BY DEF UdsNext
<1>1. Shapes /\ Wires(net) /\ \A t \in Station : StationInv(t)
  BY DEF RoomInv
<1>2. CASE SendAssociationResponseFrame(s)
  <2>1. Packet([type |-> "assoc"], s, out[s].net.to)
    BY DEF Packet
  <2>2. Wires(net)'
    BY <1>1, <1>2, <2>1, SendFacts DEF SendAssociationResponseFrame, StationInv
  <2>3. Shapes' /\ \A t \in Station : StationInv(t)'
    BY <1>1, <1>2 DEF SendAssociationResponseFrame, StationInv, Shapes
  <2> QED
    BY <2>2, <2>3 DEF RoomInv
<1>3. CASE SendEAPoLStart(s)
  <2>1. PICK p : p = [type |-> "start", kind |-> st[s].type, node |-> st[s].node]
    OBVIOUS
  <2>2. p.type = "start" /\ p.kind = st[s].type
    BY <2>1
  <2>3. Packet(p, s, out[s].net.to) /\ out[s].net.to \in Station /\ net' = Send(net, s, out[s].net.to, p)
    BY <1>1, <1>3, <2>1, <2>2 DEF SendEAPoLStart, StationInv, Packet, UdsParameters
  <2>4. Wires(net)'
    BY <1>1, <2>3, SendFacts
  <2>5. Shapes' /\ \A t \in Station : StationInv(t)'
    BY <1>1, <1>3 DEF SendEAPoLStart, StationInv, Shapes
  <2> QED
    BY <2>4, <2>5 DEF RoomInv
<1>4. ASSUME NEW r \in Station, net[r][s] # <<>>, net' = Taken(r, s), st' = st, node_map' = node_map, out' = out
      PROVE  RoomInv'
  BY <1>1, <1>4, TakenFacts DEF RoomInv, Shapes, StationInv
<1>5. ASSUME NEW r \in Station, HandleAuthenticationFrame(r, s)
      PROVE  RoomInv'
  <2>1. Wires(net)'
    BY <1>1, <1>5, TakenFacts DEF HandleAuthenticationFrame, Arrives
  <2>2. Shapes' /\ \A t \in Station : StationInv(t)'
    BY <1>1, <1>5 DEF HandleAuthenticationFrame, Shapes, StationInv
  <2> QED
    BY <2>1, <2>2 DEF RoomInv
<1>6. ASSUME NEW r \in Station, HandleAssociationResponseFrame(r, s)
      PROVE  RoomInv'
  <2>1. Wires(net)'
    BY <1>1, <1>6, TakenFacts DEF HandleAssociationResponseFrame, Arrives
  <2>2. Shapes' /\ \A t \in Station : StationInv(t)'
    BY <1>1, <1>6 DEF HandleAssociationResponseFrame, Shapes, StationInv
  <2> QED
    BY <2>1, <2>2 DEF RoomInv
<1>7. ASSUME NEW r \in Station, HandleEAPoLStart(r, s)
      PROVE  RoomInv'
  <2>1. Wires(Taken(r, s)) /\ Packet(Head(net[r][s]), r, s)
    BY <1>1, <1>7, TakenFacts DEF HandleEAPoLStart, Arrives
  <2>2. st[s].status # "Host" => net' = Taken(r, s)
    BY <1>7, StartOutcome
  <2>3. \/ net' = Taken(r, s)
        \/ Announces(r, s)
        \/ Answers(r, s)
    BY <1>7, StartOutcome
  <2>4. Wires(net)'
    <3>1. CASE net' = Taken(r, s)
      BY <3>1, <2>1
    <3>2. CASE st[s].status = "Host"
      <4>1. s \in Hosts
        BY <1>1, <3>2 DEF StationInv
      <4>2. ASSUME NEW map PROVE
              /\ Wires(Broadcast(Taken(r, s), s, [type |-> "map", map |-> map]))
        <5>1. PICK p : p = [type |-> "map", map |-> map]
          OBVIOUS
        <5>2. p.type = "map"
          BY <5>1
        <5>3. ~ Joining(p) /\ p.type # "start" /\ \A t \in Station : t # s => Packet(p, s, t)
          BY <4>1, <5>2 DEF Joining, Packet
        <5> QED
          BY <2>1, <5>1, <5>3, BroadcastFacts
      <4>3. ASSUME NEW n, Wires(n), NEW d, NEW i
            PROVE  Wires(Broadcast(n, s, Logoff(d, i)))
        <5>1. PICK p : p = Logoff(d, i)
          OBVIOUS
        <5>2. p.type = "logoff"
          BY <5>1 DEF Logoff
        <5>3. ~ Joining(p) /\ p.type # "start" /\ \A t \in Station : t # s => Packet(p, s, t)
          BY <4>1, <5>2 DEF Joining, Packet
        <5> QED
          BY <4>3, <5>1, <5>3, BroadcastFacts
      <4> QED
        BY <2>1, <2>3, <4>2, <4>3 DEF Announces, Answers
    <3> QED
      BY <2>2, <3>1, <3>2
  <2>5. out' = out /\ DOMAIN node_map' = Station /\ (st' = st \/ \E i : st' = [st EXCEPT ![s] = Joined(st[s], i)])
    BY <1>1, <1>7, StartOutcome DEF Shapes
  <2>6. \A i : /\ DOMAIN Joined(st[s], i) = Fields /\ Joined(st[s], i).status = st[s].status
               /\ Joined(st[s], i).type = st[s].type /\ Joined(st[s], i).host = st[s].host
    BY <1>1 DEF Joined, Shapes, Fields
  <2>7. /\ Shapes'
        /\ \A t \in Station : /\ st'[t].status = st[t].status /\ st'[t].type = st[t].type
                              /\ st'[t].host = st[t].host
    BY <1>1, <2>5, <2>6 DEF Shapes
  <2>8. \A t \in Station : StationInv(t)'
    BY <1>1, <2>5, <2>7 DEF StationInv
  <2> QED
    BY <2>4, <2>7, <2>8 DEF RoomInv
<1>8. ASSUME NEW r \in Station, HandleDeauthenticationFrame(r, s)
      PROVE  RoomInv'
  <2>1. Wires(net)'
    BY <1>1, <1>8, TakenFacts DEF HandleDeauthenticationFrame, Arrives
  <2>2. out' = out /\ DOMAIN node_map' = Station /\ (st' = st \/ \E i : st' = [st EXCEPT ![s] = Left(st[s], i)])
    BY <1>1, <1>8 DEF HandleDeauthenticationFrame, Shapes
  <2>3. \A i : /\ DOMAIN Left(st[s], i) = Fields /\ Left(st[s], i).status = st[s].status
               /\ Left(st[s], i).type = st[s].type /\ Left(st[s], i).host = st[s].host
    BY <1>1 DEF Left, Shapes, Fields
  <2>4. /\ Shapes'
        /\ \A t \in Station : /\ st'[t].status = st[t].status /\ st'[t].type = st[t].type
                              /\ st'[t].host = st[t].host
    BY <1>1, <2>2, <2>3 DEF Shapes
  <2>5. \A t \in Station : StationInv(t)'
    BY <1>1, <2>2, <2>4 DEF StationInv
  <2> QED
    BY <2>1, <2>4, <2>5 DEF RoomInv
<1>9. ASSUME NEW r \in Station, HandleEAPoLLogoff(r, s)
      PROVE  RoomInv'
  <2>1. Wires(net)'
    BY <1>1, <1>9, TakenFacts DEF HandleEAPoLLogoff, Arrives
  <2>2. PICK d : d = LoggedOff(st[s], r, Head(net[r][s]))
    OBVIOUS
  <2>3. st' = [st EXCEPT ![s] = d] /\ out' = out /\ node_map' = node_map
    BY <1>9, <2>2 DEF HandleEAPoLLogoff
  <2>4. /\ DOMAIN d = Fields /\ d.type = st[s].type
        /\ \/ d.status = st[s].status /\ d.host = st[s].host
           \/ st[s].status = "Connecting" /\ d.status = st[s].type /\ d.host = r
    BY <1>1, <2>2 DEF LoggedOff, Shapes, Fields
  <2>5. Shapes'
    BY <1>1, <2>3, <2>4 DEF Shapes
  <2>6. d.status = st[s].status \/ d.status \in {"Client", "Spectator"}
    BY <1>1, <2>4 DEF StationInv, UdsParameters
  <2>7. st'[s] = d /\ \A t \in Station : t # s => st'[t] = st[t]
    BY <1>1, <2>3 DEF Shapes
  <2>8. \A t \in Station : StationInv(t)'
    BY <1>1, <2>3, <2>4, <2>6, <2>7 DEF StationInv
  <2> QED
    BY <2>1, <2>5, <2>8 DEF RoomInv
<1>10. ASSUME NEW r \in Station, HandleNodeMapPacket(r, s)
       PROVE  RoomInv'
  BY <1>1, <1>10, TakenFacts DEF HandleNodeMapPacket, Arrives, RoomInv, Shapes, StationInv
<1>11. ASSUME NEW r \in Station, HandleSecureDataPacket(r, s)
       PROVE  RoomInv'
  <2>1. PICK p : p = Head(net[r][s])
    OBVIOUS
  <2>2. p.type = "data" /\ Wires(Taken(r, s))
    BY <1>1, <1>11, <2>1, TakenFacts DEF HandleSecureDataPacket, Arrives
  <2>3. ~ Joining(p) /\ p.type # "start" /\ \A t \in Station : Packet(p, s, t)
    BY <2>2 DEF Joining, Packet
  <2>4. net' = Taken(r, s) \/ net' = Broadcast(Taken(r, s), s, p)
    BY <1>11, <2>1 DEF HandleSecureDataPacket
  <2>5. Wires(net)'
    BY <2>2, <2>3, <2>4, BroadcastFacts
  <2>6. st' = st /\ out' = out /\ node_map' = node_map
    BY <1>11 DEF HandleSecureDataPacket
  <2> QED
    BY <1>1, <2>5, <2>6 DEF RoomInv, Shapes, StationInv
<1>12. CASE NetworkThread(s)
  <2>1. \A r \in Station : Ignore(r, s) => RoomInv'
    BY <1>4 DEF Ignore
  <2> QED
    BY <1>2, <1>3, <1>5, <1>6, <1>7, <1>8, <1>9, <1>10, <1>11, <1>12, <2>1 DEF NetworkThread
<1>13. ASSUME NEW d, st' = [st EXCEPT ![s] = d], DOMAIN d = Fields, net' = net, DOMAIN node_map' = Station,
              out' = out \/ (\E t \in Station : out' = [out EXCEPT ![s].app = [type |-> "deauth", to |-> t]]),
              s \in Hosts \/ d.status # "Host", d.status # "Connecting", d.type = st[s].type,
              d.status # "NotConnected" => d.host \in Station
       PROVE  RoomInv'
  <2>1. /\ DOMAIN out' = Station /\ \A t \in Station : DOMAIN out'[t] = {"net", "app"} /\ out'[t].net = out[t].net
        /\ \A t \in Station : out'[t].app = out[t].app
                              \/ (out'[t].app.type = "deauth" /\ out'[t].app.to \in Station)
    BY <1>1, <1>13 DEF Shapes
  <2>2. st'[s] = d /\ \A t \in Station : t # s => st'[t] = st[t]
    BY <1>1, <1>13 DEF Shapes
  <2>3. Shapes'
    BY <1>1, <1>13, <2>1, <2>2 DEF Shapes
  <2>4. \A t \in Station : StationInv(t)'
    BY <1>1, <1>13, <2>1, <2>2 DEF StationInv
  <2> QED
    BY <1>1, <1>13, <2>3, <2>4 DEF RoomInv
<1>14. CASE Initialize(s)
  <2>1. PICK d : d = [Reset(st[s], "NotConnected") EXCEPT !.initialized = TRUE, !.id = 0, !.info = {}, !.node = 0]
    OBVIOUS
  <2>2. DOMAIN d = Fields /\ d.status = "NotConnected" /\ d.type = st[s].type
    BY <1>1, <2>1 DEF Reset, Shapes, Fields
  <2>3. st' = [st EXCEPT ![s] = d] /\ net' = net /\ out' = out /\ DOMAIN node_map' = Station
    BY <1>1, <1>14, <2>1 DEF Initialize, Shapes
  <2> QED
    BY <1>13, <2>2, <2>3
<1>15. CASE Shutdown(s)
  <2>1. /\ st' = [st EXCEPT ![s].initialized = FALSE] /\ net' = net /\ out' = out
        /\ DOMAIN node_map' = Station
    BY <1>1, <1>15 DEF Shutdown, Shapes, Forgotten
  <2>2. \A t \in Station : /\ DOMAIN st'[t] = Fields /\ st'[t].status = st[t].status /\ st'[t].type = st[t].type
                           /\ st'[t].host = st[t].host
    BY <1>1, <2>1 DEF Shapes, Fields
  <2>3. Shapes' /\ \A t \in Station : StationInv(t)'
    BY <1>1, <2>1, <2>2 DEF Shapes, StationInv
  <2> QED
    BY <1>1, <2>1, <2>3 DEF RoomInv
<1>16. CASE BeginHostingNetwork(s)
  <2>1. PICK d : d = Hosting(st[s], s)
    OBVIOUS
  <2>2. DOMAIN d = Fields /\ d.status = "Host" /\ d.type = st[s].type /\ d.host = s
    BY <1>1, <2>1 DEF Shapes, Fields, Hosting
  <2>3. st' = [st EXCEPT ![s] = d] /\ net' = net /\ out' = out /\ DOMAIN node_map' = Station /\ s \in Hosts
    BY <1>1, <1>16, <2>1 DEF BeginHostingNetwork, Shapes
  <2> QED
    BY <1>13, <2>2, <2>3
<1>17. CASE DestroyNetwork(s)
  <2>1. PICK d : d = Reset(st[s], "NotConnected")
    OBVIOUS
  <2>2. DOMAIN d = Fields /\ d.status = "NotConnected" /\ d.type = st[s].type
    BY <1>1, <2>1 DEF Reset, Shapes, Fields
  <2>3. st' = [st EXCEPT ![s] = d] /\ net' = net /\ out' = out /\ DOMAIN node_map' = Station
    BY <1>1, <1>17, <2>1 DEF DestroyNetwork, Shapes, Forgotten
  <2> QED
    BY <1>13, <2>2, <2>3
<1>18. ASSUME NEW h \in Hosts, NEW type \in Types, ConnectToNetwork(s, h, type)
       PROVE  RoomInv'
  <2>1. PICK d : d = [st[s] EXCEPT !.status = "Connecting", !.host = h, !.type = type]
    OBVIOUS
  <2>2. DOMAIN d = Fields /\ d.status = "Connecting" /\ d.type = type /\ d.host = h /\ h \in Station
    BY <1>1, <2>1 DEF Shapes, Fields, UdsParameters
  <2>3. /\ st' = [st EXCEPT ![s] = d] /\ net' = net /\ node_map' = node_map
        /\ out' = [out EXCEPT ![s].app = [type |-> "auth", to |-> h]]
    BY <1>18, <2>1 DEF ConnectToNetwork
  <2>4. st'[s] = d /\ \A t \in Station : t # s => st'[t] = st[t]
    BY <1>1, <2>3 DEF Shapes
  <2>5. /\ DOMAIN out' = Station /\ \A t \in Station : DOMAIN out'[t] = {"net", "app"} /\ out'[t].net = out[t].net
        /\ \A t \in Station : out'[t].app = out[t].app
                              \/ (out'[t].app.type = "auth" /\ out'[t].app.to \in Station)
    BY <1>1, <2>2, <2>3 DEF Shapes
  <2>6. Shapes'
    BY <1>1, <2>2, <2>3, <2>4, <2>5 DEF Shapes
  <2>7. \A t \in Station : StationInv(t)'
    BY <1>1, <2>2, <2>4, <2>5 DEF StationInv
  <2> QED
    BY <1>1, <2>3, <2>6, <2>7 DEF RoomInv
<1>19. CASE SendPacket(s)
  <2>1. PICK p : p = [type |-> out[s].app.type]
    OBVIOUS
  <2>2. p.type = out[s].app.type /\ net' = Send(net, s, out[s].app.to, p) /\ out[s].app.to \in Station
    BY <1>1, <1>19, <2>1 DEF SendPacket, StationInv
  <2>3. Packet(p, s, out[s].app.to)
    BY <1>1, <1>19, <2>2 DEF SendPacket, StationInv, Packet
  <2>4. Wires(net)'
    BY <1>1, <2>2, <2>3, SendFacts
  <2>5. Shapes' /\ \A t \in Station : StationInv(t)'
    BY <1>1, <1>19 DEF SendPacket, StationInv, Shapes
  <2> QED
    BY <2>4, <2>5 DEF RoomInv
<1>20. CASE DisconnectNetwork(s)
  <2>1. PICK d : d = Reset(st[s], IF st[s].status = "Host" THEN "Host" ELSE "NotConnected")
    OBVIOUS
  <2>2. /\ DOMAIN d = Fields /\ d.type = st[s].type /\ d.host = st[s].host
        /\ d.status = (IF st[s].status = "Host" THEN "Host" ELSE "NotConnected")
    BY <1>1, <2>1 DEF Reset, Shapes, Fields
  <2>3. /\ st' = [st EXCEPT ![s] = d] /\ net' = net /\ DOMAIN node_map' = Station
        /\ out' = out \/ (\E t \in Station : out' = [out EXCEPT ![s].app = [type |-> "deauth", to |-> t]])
    BY <1>1, <1>20, <2>1 DEF DisconnectNetwork, Shapes, Forgotten, StationInv
  <2>4. s \in Hosts \/ d.status # "Host"
    BY <1>1, <2>2 DEF StationInv
  <2>5. d.status # "NotConnected" => d.host \in Station
    BY <1>1, <2>2 DEF StationInv
  <2> QED
    BY <1>13, <2>2, <2>3, <2>4, <2>5
<1>21. ASSUME NEW t \in Station, NEW p, Packet(p, s, t), net' = Send(net, s, t, p),
              st' = st, out' = out, node_map' = node_map
       PROVE  RoomInv'
  BY <1>1, <1>21, SendFacts DEF RoomInv, Shapes, StationInv
<1>22. ASSUME NEW i, EjectClient(s, i)
       PROVE  RoomInv'
  <2>1. PICK t \in Station : net' = Send(net, s, t, [type |-> "deauth"])
    BY <1>22 DEF EjectClient, MacAddresses
  <2>2. Packet([type |-> "deauth"], s, t)
    BY DEF Packet
  <2> QED
    BY <1>21, <1>22, <2>1, <2>2 DEF EjectClient
<1>23. ASSUME NEW i, NEW f, SendTo(s, i, f)
       PROVE  RoomInv'
  <2>1. PICK p : p = [type |-> "data", src |-> st[s].id, dest |-> i, n |-> sent + 1]
    OBVIOUS
  <2>2. p.type = "data"
    BY <2>1
  <2>3. ~ Joining(p) /\ p.type # "start" /\ \A t \in Station : Packet(p, s, t)
    BY <2>2 DEF Joining, Packet
  <2>4. st' = st /\ out' = out /\ node_map' = node_map /\ st[s].status \in {"Host", "Client"}
    BY <1>23 DEF SendTo
  <2>5. \/ net' = Broadcast(net, s, p) \/ net' = Send(net, s, st[s].host, p)
        \/ \E m \in MacAddresses(s, i) : net' = Send(net, s, m, p)
    BY <1>23, <2>1 DEF SendTo
  <2>6. CASE net' = Broadcast(net, s, p)
    BY <1>1, <2>3, <2>4, <2>6, BroadcastFacts DEF RoomInv, Shapes, StationInv
  <2>7. st[s].host \in Station
    BY <1>1, <2>4 DEF StationInv
  <2> QED
    BY <1>21, <2>3, <2>4, <2>5, <2>6, <2>7 DEF MacAddresses
<1>24. ASSUME UNCHANGED <<st, node_map, out, net>>
       PROVE  RoomInv'
  BY <1>1, <1>24 DEF RoomInv, Shapes, StationInv
<1>25. ASSUME NEW i, Bind(s, i) PROVE RoomInv'
  BY <1>24, <1>25 DEF Bind
<1>26. CASE Unbind(s) \/ PullPacket(s)
  BY <1>24, <1>26 DEF Unbind, PullPacket
<1> QED
  BY <1>0, <1>12, <1>14, <1>15, <1>16, <1>17, <1>18, <1>19, <1>20, <1>22, <1>23, <1>25, <1>26

-----------------------------------------------------------------------------
(* nwm::UDS: what a host knows of its network *)

Nodes == [connected : BOOLEAN, spec : BOOLEAN, id : Nat]

Clear(h) == \A m \in Station : node_map[h][m] = None

Clients(h) == {m \in Station : node_map[h][m] # None /\ node_map[h][m].connected /\ ~ node_map[h][m].spec}

\* The ids in the bitmask, apart from the host's, are those of the clients, one each.
Numbered(h) ==
  /\ \A m \in Clients(h) : node_map[h][m].id \in st[h].mask \ {1}
  /\ \A i \in st[h].mask \ {1} : \E m \in Clients(h) : node_map[h][m].id = i
  /\ \A m, n \in Clients(h) : node_map[h][m].id = node_map[h][n].id => m = n
  /\ Cardinality(st[h].mask \ {1}) = Cardinality(Clients(h))

\* A host of a network, and one that has disconnected from its own.
Open(h) ==
  /\ st[h].mask \subseteq 1 .. MaxNodes /\ 1 \in st[h].mask /\ st[h].info = st[h].mask
  /\ st[h].max = MaxNodes /\ st[h].total = Cardinality(st[h].mask)
  /\ st[h].initialized => Numbered(h)
Deserted(h) == Clear(h) /\ st[h].mask = {} /\ st[h].total = 0 /\ st[h].max = 0

HostInv(h) ==
  /\ node_map[h] \in [Station -> Nodes \cup {None}]
  /\ st[h].initialized \in BOOLEAN /\ st[h].status \in {"NotConnected", "Host"}
  /\ st[h].status = "NotConnected" => Clear(h) /\ st[h].mask = {}
  /\ ~ st[h].initialized => Clear(h)
  /\ st[h].status = "Host" => Open(h) \/ Deserted(h)

UdsInv == RoomInv /\ \A h \in Hosts : HostInv(h)

\* Without clients the host is alone in its network.
LEMMA ClearHasNone ==
  ASSUME NEW h, Clear(h)
  PROVE  Clients(h) = {}
PROOF
  BY DEF Clear, Clients

\* A client is entered into the node map and gets an id that is free.
LEMMA ClientJoins ==
  ASSUME UdsParameters, NEW h \in Hosts, NEW r \in Station, HostInv(h), Open(h), st[h].initialized,
         node_map[h][r] # None, ~ node_map[h][r].connected,
         NEW i \in 1 .. MaxNodes, i \notin st[h].mask,
         node_map'[h] = [node_map[h] EXCEPT ![r] = Entry("Client", i)],
         st'[h].mask = st[h].mask \cup {i}, st'[h].info = st[h].info \cup {i},
         st'[h].total = st[h].total + 1, st'[h].max = st[h].max
  PROVE  node_map'[h] \in [Station -> Nodes \cup {None}] /\ Open(h)'
PROOF
<1>1. /\ node_map[h] \in [Station -> Nodes \cup {None}] /\ MaxNodes \in Nat
      /\ st[h].mask \subseteq 1 .. MaxNodes /\ 1 \in st[h].mask /\ st[h].info = st[h].mask
      /\ st[h].max = MaxNodes /\ st[h].total = Cardinality(st[h].mask) /\ Numbered(h)
  BY DEF HostInv, Open, UdsParameters
<1>2. PICK e : e = Entry("Client", i)
  OBVIOUS
<1>3. e \in Nodes /\ e.connected /\ ~ e.spec /\ e.id = i /\ e # None
  <2>1. "Client" # "Spectator" /\ i \in Nat
    BY <1>1
  <2>2. ("Client" = "Spectator") = FALSE
    BY <2>1
  <2>3. e = [connected |-> TRUE, spec |-> FALSE, id |-> i]
    BY <1>2, <2>2 DEF Entry
  <2>4. e \in Nodes /\ e.connected /\ ~ e.spec /\ e.id = i
    BY <2>1, <2>3 DEF Nodes
  <2> QED
    BY <2>4 DEF Nodes, UdsParameters
<1>4. /\ node_map'[h] \in [Station -> Nodes \cup {None}] /\ node_map'[h][r] = e
      /\ \A m \in Station : m # r => node_map'[h][m] = node_map[h][m]
  BY <1>1, <1>2, <1>3
<1>5. Clients(h)' = Clients(h) \cup {r} /\ r \notin Clients(h) /\ r \in Station
  BY <1>3, <1>4 DEF Clients
<1>6. IsFiniteSet(Clients(h)) /\ IsFiniteSet(st[h].mask) /\ IsFiniteSet(st[h].mask \ {1})
  <2>1. Clients(h) \subseteq Station /\ IsFiniteSet(Station)
    BY DEF Clients, UdsParameters
  <2>2. IsFiniteSet(1 .. MaxNodes)
    BY <1>1, FS_Interval
  <2> QED
    BY <1>1, <2>1, <2>2, FS_Subset
<1>7. i # 1 /\ (st'[h].mask) \ {1} = (st[h].mask \ {1}) \cup {i} /\ i \notin st[h].mask \ {1}
  BY <1>1
<1>8. /\ Cardinality(st[h].mask \cup {i}) = Cardinality(st[h].mask) + 1
      /\ Cardinality((st[h].mask \ {1}) \cup {i}) = Cardinality(st[h].mask \ {1}) + 1
      /\ Cardinality(Clients(h) \cup {r}) = Cardinality(Clients(h)) + 1
  BY <1>5, <1>6, <1>7, FS_AddElement
<1>9. \A m \in Clients(h) : m # r /\ node_map'[h][m] = node_map[h][m]
  BY <1>4, <1>5 DEF Clients
<1>10. Numbered(h)'
  <2>1. \A m \in Clients(h)' : node_map'[h][m].id \in st'[h].mask \ {1}
    BY <1>1, <1>3, <1>4, <1>5, <1>7, <1>9 DEF Numbered
  <2>2. \A j \in st'[h].mask \ {1} : \E m \in Clients(h)' : node_map'[h][m].id = j
    BY <1>1, <1>3, <1>4, <1>5, <1>7, <1>9 DEF Numbered
  <2>3. \A m \in Clients(h) : node_map'[h][m].id # i
    BY <1>1, <1>7, <1>9 DEF Numbered
  <2>4. \A m, n \in Clients(h)' : node_map'[h][m].id = node_map'[h][n].id => m = n
    BY <1>1, <1>3, <1>4, <1>5, <1>9, <2>3 DEF Numbered
  <2>5. Cardinality(st'[h].mask \ {1}) = Cardinality(Clients(h)')
    BY <1>1, <1>5, <1>7, <1>8 DEF Numbered
  <2> QED
    BY <2>1, <2>2, <2>4, <2>5 DEF Numbered
<1>11. st'[h].mask \subseteq 1 .. MaxNodes /\ 1 \in st'[h].mask /\ st'[h].info = st'[h].mask
  BY <1>1
<1> QED
  BY <1>1, <1>4, <1>8, <1>10, <1>11 DEF Open

\* The entry of a station that is no client, or is none yet, changes.
LEMMA EntryChanges ==
  ASSUME UdsParameters, NEW h \in Hosts, NEW r \in Station, HostInv(h), Open(h),
         st[h].status = "Host", st[h].initialized, r \notin Clients(h), NEW e \in Nodes \cup {None}, e # None => ~ e.connected \/ e.spec,
         node_map'[h] = [node_map[h] EXCEPT ![r] = e], st'[h] = st[h]
  PROVE  HostInv(h)'
PROOF
<1>1. /\ node_map'[h] \in [Station -> Nodes \cup {None}] /\ node_map'[h][r] = e
      /\ \A m \in Station : m # r => node_map'[h][m] = node_map[h][m]
  BY DEF HostInv
<1>2. Clients(h)' = Clients(h)
  BY <1>1 DEF Clients
<1>3. \A m \in Clients(h) : node_map'[h][m] = node_map[h][m]
  BY <1>1 DEF Clients
<1>4. Numbered(h) => Numbered(h)'
  BY <1>2, <1>3 DEF Numbered
<1>5. Open(h)'
  BY <1>4 DEF Open
<1> QED
  BY <1>1, <1>5 DEF HostInv

\* A client leaves; its id is free again.
LEMMA ClientLeaves ==
  ASSUME UdsParameters, NEW h \in Hosts, NEW r \in Clients(h), HostInv(h), Open(h), st[h].initialized,
         NEW i, i = node_map[h][r].id,
         node_map'[h] = [node_map[h] EXCEPT ![r] = None],
         st'[h].mask = st[h].mask \ {i}, st'[h].info = st[h].info \ {i},
         st'[h].total = st[h].total - 1, st'[h].max = st[h].max
  PROVE  node_map'[h] \in [Station -> Nodes \cup {None}] /\ Open(h)'
PROOF
<1>1. /\ node_map[h] \in [Station -> Nodes \cup {None}] /\ MaxNodes \in Nat
      /\ st[h].mask \subseteq 1 .. MaxNodes /\ 1 \in st[h].mask /\ st[h].info = st[h].mask
      /\ st[h].max = MaxNodes /\ st[h].total = Cardinality(st[h].mask) /\ Numbered(h)
  BY DEF HostInv, Open, UdsParameters
<1>2. r \in Station
  BY DEF Clients
<1>3. /\ node_map'[h] \in [Station -> Nodes \cup {None}] /\ node_map'[h][r] = None
      /\ \A m \in Station : m # r => node_map'[h][m] = node_map[h][m]
  BY <1>1, <1>2
<1>4. Clients(h)' = Clients(h) \ {r}
  BY <1>3 DEF Clients
<1>5. IsFiniteSet(Clients(h)) /\ IsFiniteSet(st[h].mask) /\ IsFiniteSet(st[h].mask \ {1})
  <2>1. Clients(h) \subseteq Station /\ IsFiniteSet(Station)
    BY DEF Clients, UdsParameters
  <2>2. IsFiniteSet(1 .. MaxNodes)
    BY <1>1, FS_Interval
  <2> QED
    BY <1>1, <2>1, <2>2, FS_Subset
<1>6. i \in st[h].mask \ {1} /\ i \in st[h].mask /\ (st'[h].mask) \ {1} = (st[h].mask \ {1}) \ {i}
  BY <1>1 DEF Numbered
<1>7. /\ Cardinality(st[h].mask \ {i}) = Cardinality(st[h].mask) - 1
      /\ Cardinality((st[h].mask \ {1}) \ {i}) = Cardinality(st[h].mask \ {1}) - 1
      /\ Cardinality(Clients(h) \ {r}) = Cardinality(Clients(h)) - 1
  <2>1. \A A : IsFiniteSet(A) /\ i \in A => Cardinality(A \ {i}) = Cardinality(A) - 1
    BY FS_RemoveElement
  <2>2. IsFiniteSet(st[h].mask) /\ i \in st[h].mask
    BY <1>5, <1>6
  <2>3. IsFiniteSet(st[h].mask \ {1}) /\ i \in st[h].mask \ {1}
    BY <1>5, <1>6
  <2>4. Cardinality(Clients(h) \ {r}) = Cardinality(Clients(h)) - 1
    BY <1>5, FS_RemoveElement
  <2> QED
    BY <2>1, <2>2, <2>3, <2>4
<1>8. \A m \in Clients(h) \ {r} : node_map'[h][m] = node_map[h][m] /\ node_map[h][m].id # i
  BY <1>1, <1>3 DEF Clients, Numbered
<1>9. Numbered(h)'
  <2>1. \A m \in Clients(h)' : node_map'[h][m].id \in st'[h].mask \ {1}
    BY <1>1, <1>4, <1>6, <1>8 DEF Numbered
  <2>2. \A j \in st'[h].mask \ {1} : \E m \in Clients(h)' : node_map'[h][m].id = j
    <3> TAKE j \in st'[h].mask \ {1}
    <3>1. PICK m \in Clients(h) : node_map[h][m].id = j
      BY <1>1, <1>6 DEF Numbered
    <3>2. m # r /\ m \in Clients(h)'
      BY <1>4, <1>6, <3>1
    <3> QED
      BY <1>8, <3>1, <3>2
  <2>3. \A m, n \in Clients(h)' : node_map'[h][m].id = node_map'[h][n].id => m = n
    BY <1>1, <1>4, <1>8 DEF Numbered
  <2>4. Cardinality(st'[h].mask \ {1}) = Cardinality(Clients(h)')
    BY <1>1, <1>4, <1>6, <1>7 DEF Numbered
  <2> QED
    BY <2>1, <2>2, <2>3, <2>4 DEF Numbered
<1>10. st'[h].mask \subseteq 1 .. MaxNodes /\ 1 \in st'[h].mask /\ st'[h].info = st'[h].mask
  BY <1>1, <1>6
<1> QED
  BY <1>1, <1>3, <1>7, <1>9, <1>10 DEF Open

\* What the host knows of its network stays true, whatever anybody does.
LEMMA HostStep ==
  ASSUME UdsParameters, UdsInv, UdsNext, NEW h \in Hosts
  PROVE  HostInv(h)'
PROOF
<1>0. PICK s \in Station :
    \/ NetworkThread(s)
    \/ Initialize(s) \/ Shutdown(s) \/ BeginHostingNetwork(s) \/ DestroyNetwork(s)
    \/ \E g \in Hosts, type \in Types : ConnectToNetwork(s, g, type)
    \/ SendPacket(s) \/ DisconnectNetwork(s)
    \/ \E i \in 1 .. MaxNodes : EjectClient(s, i)
    \/ \E i \in {All} \cup 1 .. MaxNodes : Bind(s, i) \/ \E f \in Flags : SendTo(s, i, f)
    \/ Unbind(s) \/ PullPacket(s)
  BY DEF UdsNext
<1>1. /\ h \in Station /\ HostInv(h) /\ Wires(net) /\ StationInv(h)
      /\ DOMAIN st = Station /\ DOMAIN st[h] = Fields /\ DOMAIN node_map = Station
      /\ \A g \in Hosts : g = h
  BY DEF UdsInv, RoomInv, Shapes, UdsParameters
<1>2. ASSUME st'[h] = st[h], node_map'[h] = node_map[h]
      PROVE  HostInv(h)'
  BY <1>1, <1>2 DEF HostInv, Open, Deserted, Clear, Clients, Numbered
<1>3. ASSUME UNCHANGED <<st, node_map>>
      PROVE  HostInv(h)'
  BY <1>2, <1>3
<1>4. ASSUME node_map' = Forgotten(h)
      PROVE  node_map'[h] \in [Station -> Nodes \cup {None}] /\ Clear(h)'
  BY <1>1, <1>4 DEF Forgotten, Clear
<1>5. ASSUME NEW r \in Station, HandleAuthenticationFrame(r, s)
      PROVE  HostInv(h)'
  <2>1. st' = st /\ (st[s].status = "Host" => st[s].initialized)
    BY <1>5 DEF HandleAuthenticationFrame, Arrives
  <2>2. PICK e : e = [connected |-> FALSE, spec |-> FALSE, id |-> NodeIDSpec]
    OBVIOUS
  <2>3. e \in Nodes /\ ~ e.connected
    BY <2>2 DEF Nodes, NodeIDSpec
  <2>4. CASE s = h /\ st[h].status = "Host" /\ node_map[h][r] = None /\ st[h].max # st[h].total
    <3>1. Open(h) /\ r \notin Clients(h)
      BY <1>1, <2>4 DEF HostInv, Deserted, Clients
    <3>2. node_map'[h] = [node_map[h] EXCEPT ![r] = e] /\ st'[h] = st[h]
      BY <1>1, <1>5, <2>1, <2>2, <2>4 DEF HandleAuthenticationFrame
    <3> QED
      BY <1>1, <2>1, <2>3, <2>4, <3>1, <3>2, EntryChanges
  <2>5. CASE s # h \/ ~ (st[h].status = "Host" /\ node_map[h][r] = None /\ st[h].max # st[h].total)
    BY <1>1, <1>2, <1>5, <2>1, <2>5 DEF HandleAuthenticationFrame
  <2> QED
    BY <2>4, <2>5
<1>6. ASSUME NEW r \in Station, HandleEAPoLStart(r, s)
      PROVE  HostInv(h)'
  <2>1. CASE s # h
    <3>1. st'[h] = st[h] /\ node_map'[h] = node_map[h]
      BY <1>1, <1>6, <2>1, StartOutcome
    <3> QED
      BY <1>2, <3>1
  <2>2. CASE UNCHANGED <<st, node_map>>
    BY <1>3, <2>2
  <2>3. CASE s = h /\ ~ UNCHANGED <<st, node_map>>
    <3>1. PICK kind, i : kind = Head(net[r][h]).kind /\ i = GetNextAvailableNodeId(st[h])
      OBVIOUS
    <3>2. st[h].initialized /\ Head(net[r][h]).type = "start" /\ net[r][h] # <<>>
      BY <1>6, <2>3 DEF HandleEAPoLStart, Arrives
    <3>3. kind \in {"Client", "Spectator"}
      BY <1>1, <3>1, <3>2, TakenFacts DEF Packet
    <3>4. /\ st[h].status = "Host" /\ node_map[h][r] # None /\ ~ node_map[h][r].connected
          /\ ~ (1 .. st[h].max) \subseteq st[h].mask
          /\ node_map' = [node_map EXCEPT ![h] = [node_map[h] EXCEPT ![r] = Entry(kind, i)]]
          /\ \/ kind = "Client" /\ st' = [st EXCEPT ![h] = Joined(st[h], i)]
             \/ kind # "Client" /\ st' = st
      BY <1>6, <2>3, <3>1, StartOutcome
    <3>5. Open(h) /\ node_map'[h] = [node_map[h] EXCEPT ![r] = Entry(kind, i)]
      BY <1>1, <3>4 DEF HostInv, Deserted, Clear
    <3>6. CASE kind = "Client"
      <4>1. st[h].max = MaxNodes /\ MaxNodes \in Nat
        BY <3>5 DEF Open, UdsParameters
      <4>2. i \in (1 .. MaxNodes) \ st[h].mask
        <5>1. PICK S : S = (1 .. MaxNodes) \ st[h].mask
          OBVIOUS
        <5>2. S # {} /\ S \subseteq Nat
          BY <3>4, <4>1, <5>1
        <5>3. i = Min(S)
          BY <3>1, <4>1, <5>1 DEF GetNextAvailableNodeId
        <5> QED
          BY <5>1, <5>2, <5>3, MinId
      <4>3. PICK d : d = Joined(st[h], i)
        OBVIOUS
      <4>4. /\ d.mask = st[h].mask \cup {i} /\ d.info = st[h].info \cup {i}
            /\ d.total = st[h].total + 1 /\ d.max = st[h].max
            /\ d.status = st[h].status /\ d.initialized = st[h].initialized
        BY <1>1, <4>3 DEF Joined, Fields
      <4>5. st'[h] = d
        BY <1>1, <3>4, <3>6, <4>3
      <4>6. node_map'[h] \in [Station -> Nodes \cup {None}] /\ Open(h)'
        BY <1>1, <3>2, <3>4, <3>5, <3>6, <4>2, <4>4, <4>5, ClientJoins
      <4> QED
        BY <1>1, <3>2, <3>4, <4>4, <4>5, <4>6 DEF HostInv
    <3>7. CASE kind = "Spectator"
      <4>1. PICK e : e = Entry(kind, i)
        OBVIOUS
      <4>2. e = [connected |-> TRUE, spec |-> TRUE, id |-> 0]
        BY <3>7, <4>1 DEF Entry, NodeIDSpec
      <4>3. e \in Nodes /\ e.spec
        BY <4>2 DEF Nodes
      <4>4. r \notin Clients(h) /\ st'[h] = st[h]
        BY <3>4, <3>7 DEF Clients
      <4> QED
        BY <1>1, <3>2, <3>4, <3>5, <4>1, <4>3, <4>4, EntryChanges
    <3> QED
      BY <3>3, <3>6, <3>7
  <2> QED
    BY <2>1, <2>2, <2>3
<1>7. ASSUME NEW r \in Station, HandleDeauthenticationFrame(r, s)
      PROVE  HostInv(h)'
  <2>1. CASE s # h \/ st[h].status # "Host"
    BY <1>1, <1>2, <1>7, <2>1 DEF HandleDeauthenticationFrame
  <2>2. CASE s = h /\ st[h].status = "Host"
    <3>1. st[h].initialized /\ node_map'[h] = [node_map[h] EXCEPT ![r] = None]
      BY <1>1, <1>7, <2>2 DEF HandleDeauthenticationFrame, Arrives
    <3>2. CASE Deserted(h)
      <4>1. node_map'[h] = node_map[h]
        BY <1>1, <3>1, <3>2 DEF Deserted, Clear, HostInv
      <4>2. st'[h] = st[h]
        BY <1>7, <2>2, <3>2 DEF HandleDeauthenticationFrame, Deserted, Clear
      <4> QED
        BY <1>2, <4>1, <4>2
    <3>3. CASE Open(h) /\ r \notin Clients(h)
      <4>1. st'[h] = st[h]
        BY <1>7, <2>2, <3>3 DEF HandleDeauthenticationFrame, Clients
      <4> QED
        BY <1>1, <2>2, <3>1, <3>3, <4>1, EntryChanges
    <3>4. CASE Open(h) /\ r \in Clients(h)
      <4>1. PICK i : i = node_map[h][r].id
        OBVIOUS
      <4>2. i \in st[h].info
        BY <3>1, <3>4, <4>1 DEF Open, Numbered
      <4>3. PICK d : d = Left(st[h], i)
        OBVIOUS
      <4>4. /\ d.mask = st[h].mask \ {i} /\ d.info = st[h].info \ {i}
            /\ d.total = st[h].total - 1 /\ d.max = st[h].max
            /\ d.status = st[h].status /\ d.initialized = st[h].initialized
        BY <1>1, <4>3 DEF Left, Fields
      <4>5. st'[h] = d
        BY <1>1, <1>7, <2>2, <3>4, <4>1, <4>2, <4>3 DEF HandleDeauthenticationFrame, Clients
      <4>6. node_map'[h] \in [Station -> Nodes \cup {None}] /\ Open(h)'
        BY <1>1, <3>1, <3>4, <4>1, <4>4, <4>5, ClientLeaves
      <4> QED
        BY <1>1, <2>2, <3>1, <4>4, <4>5, <4>6 DEF HostInv
    <3> QED
      BY <1>1, <2>2, <3>2, <3>3, <3>4 DEF HostInv
  <2> QED
    BY <2>1, <2>2
<1>8. ASSUME NEW r \in Station, Arrives(r, s, "map") \/ Arrives(r, s, "logoff")
      PROVE  s # h
  BY <1>1, <1>8, TakenFacts DEF Arrives, Packet
<1>9. ASSUME NEW r \in Station, HandleEAPoLLogoff(r, s) \/ HandleNodeMapPacket(r, s)
      PROVE  HostInv(h)'
  <2>1. s # h
    BY <1>8, <1>9 DEF HandleEAPoLLogoff, HandleNodeMapPacket
  <2> QED
    BY <1>1, <1>2, <1>9, <2>1 DEF HandleEAPoLLogoff, HandleNodeMapPacket
<1>10. CASE NetworkThread(s)
  <2>1. CASE SendAssociationResponseFrame(s) \/ SendEAPoLStart(s)
    BY <1>3, <2>1 DEF SendAssociationResponseFrame, SendEAPoLStart
  <2>2. ASSUME NEW r \in Station, Ignore(r, s) \/ HandleAssociationResponseFrame(r, s) \/ HandleSecureDataPacket(r, s)
        PROVE  HostInv(h)'
    BY <1>3, <2>2 DEF Ignore, HandleAssociationResponseFrame, HandleSecureDataPacket
  <2> QED
    BY <1>5, <1>6, <1>7, <1>9, <1>10, <2>1, <2>2 DEF NetworkThread
<1>11. CASE Initialize(s)
  <2>1. CASE s = h
    <3>1. PICK d : d = [Reset(st[h], "NotConnected") EXCEPT !.initialized = TRUE, !.id = 0, !.info = {}, !.node = 0]
      OBVIOUS
    <3>2. d.status = "NotConnected" /\ d.mask = {} /\ d.initialized = TRUE
      BY <1>1, <3>1 DEF Reset, Fields
    <3>3. st'[h] = d /\ node_map' = node_map /\ ~ st[h].initialized
      BY <1>1, <1>11, <2>1, <3>1 DEF Initialize
    <3> QED
      BY <1>1, <3>2, <3>3 DEF HostInv, Clear
  <2>2. CASE s # h
    BY <1>1, <1>2, <1>11, <2>2 DEF Initialize
  <2> QED
    BY <2>1, <2>2
<1>12. CASE Shutdown(s)
  <2>1. CASE s = h
    <3>1. node_map'[h] \in [Station -> Nodes \cup {None}] /\ Clear(h)'
      BY <1>4, <1>12, <2>1 DEF Shutdown
    <3>2. PICK d : d = [st[h] EXCEPT !.initialized = FALSE]
      OBVIOUS
    <3>3. st'[h] = d
      BY <1>1, <1>12, <2>1, <3>2 DEF Shutdown
    <3>4. /\ d.initialized = FALSE /\ d.status = st[h].status /\ d.mask = st[h].mask /\ d.info = st[h].info
          /\ d.total = st[h].total /\ d.max = st[h].max
      BY <1>1, <3>2 DEF Fields
    <3>5. (Open(h) => Open(h)') /\ (Deserted(h) => Deserted(h)')
      BY <3>1, <3>3, <3>4 DEF Open, Deserted
    <3> QED
      BY <1>1, <3>1, <3>3, <3>4, <3>5 DEF HostInv
  <2>2. CASE s # h
    BY <1>1, <1>2, <1>12, <2>2 DEF Shutdown, Forgotten
  <2> QED
    BY <2>1, <2>2
<1>13. CASE BeginHostingNetwork(s)
  <2>1. CASE s = h
    <3>1. PICK d : d = Hosting(st[h], h)
      OBVIOUS
    <3>2. /\ d.status = "Host" /\ d.max = MaxNodes /\ d.total = 1 /\ d.mask = st[h].mask \cup {1}
          /\ d.info = {1} /\ d.initialized = st[h].initialized
      BY <1>1, <3>1 DEF Hosting, Fields
    <3>3. st'[h] = d /\ node_map' = node_map /\ st[h].status = "NotConnected"
      BY <1>1, <1>13, <2>1, <3>1 DEF BeginHostingNetwork
    <3>4. st'[h].mask = {1} /\ Clear(h)' /\ Clear(h)
      BY <1>1, <3>2, <3>3 DEF HostInv, Clear
    <3>5. Clients(h)' = {}
      BY <3>4 DEF Clear, Clients
    <3>6. /\ Cardinality({1}) = 1 /\ Cardinality({}) = 0 /\ {1} \ {1} = {} /\ 1 \in 1 .. MaxNodes
      BY FS_Singleton, FS_EmptySet DEF UdsParameters
    <3>7. Numbered(h)'
      BY <3>4, <3>5, <3>6 DEF Numbered
    <3>8. Open(h)'
      BY <3>2, <3>3, <3>4, <3>6, <3>7 DEF Open
    <3> QED
      BY <1>1, <3>2, <3>3, <3>4, <3>8 DEF HostInv
  <2>2. CASE s # h
    BY <1>1, <1>2, <1>13, <2>2 DEF BeginHostingNetwork
  <2> QED
    BY <2>1, <2>2
<1>14. CASE DestroyNetwork(s) \/ DisconnectNetwork(s)
  <2>1. CASE s = h
    <3>1. node_map'[h] \in [Station -> Nodes \cup {None}] /\ Clear(h)'
      BY <1>4, <1>14, <2>1 DEF DestroyNetwork, DisconnectNetwork
    <3>2. PICK status \in {"NotConnected", "Host"} : st' = [st EXCEPT ![h] = Reset(st[h], status)]
      BY <1>14, <2>1 DEF DestroyNetwork, DisconnectNetwork
    <3>3. PICK d : d = Reset(st[h], status)
      OBVIOUS
    <3>4. d.status = status /\ d.mask = {} /\ d.total = 0 /\ d.max = 0 /\ d.initialized = st[h].initialized
      BY <1>1, <3>3 DEF Reset, Fields
    <3>5. st'[h] = d
      BY <1>1, <3>2, <3>3
    <3> QED
      BY <1>1, <3>1, <3>4, <3>5 DEF HostInv, Deserted
  <2>2. CASE s # h
    BY <1>1, <1>2, <1>14, <2>2 DEF DestroyNetwork, DisconnectNetwork, Forgotten
  <2> QED
    BY <2>1, <2>2
<1>15. ASSUME NEW g \in Hosts, NEW type \in Types, ConnectToNetwork(s, g, type)
       PROVE  HostInv(h)'
  <2>1. s # h
    BY <1>1, <1>15 DEF ConnectToNetwork
  <2> QED
    BY <1>1, <1>2, <1>15, <2>1 DEF ConnectToNetwork
<1>16. CASE SendPacket(s) \/ Unbind(s) \/ PullPacket(s)
  BY <1>3, <1>16 DEF SendPacket, Unbind, PullPacket
<1>17. ASSUME NEW i, NEW f, EjectClient(s, i) \/ Bind(s, i) \/ SendTo(s, i, f)
       PROVE  HostInv(h)'
  BY <1>3, <1>17 DEF EjectClient, Bind, SendTo
<1> QED
  BY <1>0, <1>10, <1>11, <1>12, <1>13, <1>14, <1>15, <1>16, <1>17

\* The invariant in the beginning.
LEMMA UdsInvInit ==
  ASSUME UdsParameters, UdsInit
  PROVE  UdsInv
PROOF
<1>1. RoomInv
  BY RoomInit
<1>2. \A h \in Hosts : HostInv(h)
  BY DEF UdsInit, HostInv, Clear, UdsParameters
<1> QED
  BY <1>1, <1>2 DEF UdsInv

\* The invariant is kept.
LEMMA UdsInvStep ==
  ASSUME UdsParameters, UdsInv, [UdsNext]_uds_vars
  PROVE  UdsInv'
PROOF
<1>1. CASE UdsNext
  BY <1>1, RoomStep, HostStep DEF UdsInv
<1>2. CASE UNCHANGED uds_vars
  <2>1. st' = st /\ out' = out /\ node_map' = node_map /\ net' = net
    BY <1>2 DEF uds_vars
  <2>2. RoomInv'
    BY <2>1 DEF UdsInv, RoomInv, Shapes, StationInv
  <2>3. \A h \in Hosts : HostInv(h)'
    <3> TAKE h \in Hosts
    <3>1. HostInv(h)
      BY DEF UdsInv
    <3>2. Clients(h)' = Clients(h) /\ (Clear(h) => Clear(h)')
      BY <2>1 DEF Clients, Clear
    <3>3. Numbered(h) => Numbered(h)'
      BY <2>1, <3>2 DEF Numbered
    <3> QED
      BY <2>1, <3>1, <3>2, <3>3 DEF HostInv, Open, Deserted
  <2> QED
    BY <2>2, <2>3 DEF UdsInv
<1> QED
  BY <1>1, <1>2

\* What is claimed of the host follows.
LEMMA UdsInvImplies ==
  ASSUME UdsParameters, UdsInv
  PROVE  HostCounts
PROOF
<1> SUFFICES ASSUME NEW h \in Station, st[h].status = "Host", st[h].initialized
             PROVE  /\ st[h].total = Cardinality(st[h].mask)
                    /\ st[h].mask \ {1} = {node_map[h][m].id : m \in Clients(h)}
                    /\ Cardinality(st[h].mask \ {1}) = Cardinality(Clients(h))
  BY DEF HostCounts, Clients
<1>1. HostInv(h)
  BY DEF UdsInv, RoomInv, StationInv
<1>2. CASE Open(h)
  BY <1>2 DEF Open, Numbered
<1>3. CASE Deserted(h)
  <2>1. Clients(h) = {} /\ st[h].mask \ {1} = {}
    BY <1>3, ClearHasNone DEF Deserted
  <2> QED
    BY <1>3, <2>1, FS_EmptySet DEF Deserted
<1> QED
  BY <1>1, <1>2, <1>3 DEF HostInv

\* For any number of stations, however they come, leave, are ejected and come
\* back: the host's total_nodes, its bitmask and its node map agree, and no two
\* clients have the same id.
THEOREM HostCountsHolds ==
  ASSUME UdsParameters
  PROVE  UdsSpec => []HostCounts
PROOF
<1>1. UdsInit => UdsInv
  BY UdsInvInit
<1>2. UdsInv /\ [UdsNext]_uds_vars => UdsInv'
  BY UdsInvStep
<1>3. UdsInv => HostCounts
  BY UdsInvImplies
<1> QED
  BY <1>1, <1>2, <1>3, PTL DEF UdsSpec

-----------------------------------------------------------------------------
(* nwm::UDS: one station joins at a time *)

\* A station is about to send its first packet.
Asking(s) == out[s].app # None /\ out[s].app.type = "auth"

Room(h) == st[h].status = "Host" /\ st[h].initialized /\ ~ Clear(h) => st[h].total < st[h].max

\* Of all that is sent and about to be sent, one thing at most is about joining; if
\* the host has let the station in, it still has room.
JoinInv ==
  /\ Alone(net)
  /\ \A s \in Station : out[s].net # None \/ Asking(s) => Silent(net)
  /\ \A s, t \in Station : out[s].net # None => ~ Asking(t) /\ (out[t].net # None => s = t)
  /\ \A s, t \in Station : Asking(s) /\ Asking(t) => s = t
  /\ HasLate(net) \/ (\E s \in Station : out[s].net # None) => \A h \in Hosts : Room(h)
  /\ ~ overfull

\* Nothing late is in a room where nobody joins.
LEMMA SilentIsEarly ==
  ASSUME NEW n, Silent(n)
  PROVE  ~ HasLate(n)
PROOF
  BY DEF Silent, Loose, HasLate, Joining, Late

\* A step that says nothing new about joining.
LEMMA JoinKept ==
  ASSUME JoinInv, Alone(net)', Silent(net) => Silent(net)', HasLate(net)' => HasLate(net),
         \A t \in Station : out'[t].net = out[t].net \/ out'[t].net = None,
         \A t \in Station : Asking(t)' => Asking(t),
         \A h \in Hosts : Room(h) => Room(h)', overfull' = overfull
  PROVE  JoinInv'
PROOF
<1>1. \A s \in Station : out'[s].net # None => out[s].net # None
  OBVIOUS
<1>2. \A s \in Station : out'[s].net # None \/ Asking(s)' => Silent(net)'
  BY <1>1 DEF JoinInv
<1>3. \A s, t \in Station : out'[s].net # None => ~ Asking(t)' /\ (out'[t].net # None => s = t)
  BY <1>1 DEF JoinInv
<1>4. \A s, t \in Station : Asking(s)' /\ Asking(t)' => s = t
  BY DEF JoinInv
<1>5. HasLate(net)' \/ (\E s \in Station : out'[s].net # None) => \A h \in Hosts : Room(h)'
  BY <1>1 DEF JoinInv
<1> QED
  BY <1>2, <1>3, <1>4, <1>5 DEF JoinInv

\* A packet about joining, when it is taken, was the only one.
LEMMA JoinTaken ==
  ASSUME RoomInv, JoinInv, NEW r \in Station, NEW s \in Station, net[r][s] # <<>>, Joining(Head(net[r][s]))
  PROVE  /\ Silent(Taken(r, s)) /\ ~ HasLate(Taken(r, s)) /\ Alone(Taken(r, s))
         /\ \A t \in Station : out[t].net = None /\ ~ Asking(t)
         /\ Late(Head(net[r][s])) => \A h \in Hosts : Room(h)
PROOF
<1>1. Silent(Taken(r, s)) /\ Alone(Taken(r, s)) /\ Packet(Head(net[r][s]), r, s)
  BY TakenFacts DEF RoomInv, JoinInv
<1>2. ~ HasLate(Taken(r, s))
  BY <1>1, SilentIsEarly
<1>3. 1 \in 1 .. Len(net[r][s]) /\ Head(net[r][s]) = net[r][s][1]
  BY WireTail DEF RoomInv, Wires
<1>4. ~ Silent(net)
  BY <1>3 DEF Silent, Loose
<1>5. Late(Head(net[r][s])) => HasLate(net)
  BY <1>3 DEF HasLate
<1> QED
  BY <1>1, <1>2, <1>4, <1>5 DEF JoinInv

\* While a host lets in one station after the other it has ids for them.
LEMMA RoomHasId ==
  ASSUME UdsParameters, NEW h \in Hosts, HostInv(h), st[h].status = "Host", ~ Clear(h)
  PROVE  /\ st[h].total \in Nat /\ st[h].max \in Nat /\ st[h].total <= st[h].max
         /\ st[h].total < st[h].max => ~ (1 .. st[h].max) \subseteq st[h].mask
PROOF
<1>1. /\ st[h].mask \subseteq 1 .. MaxNodes /\ st[h].max = MaxNodes /\ st[h].total = Cardinality(st[h].mask)
      /\ MaxNodes \in Nat
  BY DEF HostInv, Open, Deserted, UdsParameters
<1>2. IsFiniteSet(1 .. MaxNodes) /\ Cardinality(1 .. MaxNodes) = MaxNodes
  BY <1>1, FS_Interval
<1>3. Cardinality(st[h].mask) \in Nat /\ Cardinality(st[h].mask) <= MaxNodes
  BY <1>1, <1>2, FS_Subset, FS_CardinalityType
<1>4. (1 .. MaxNodes) \subseteq st[h].mask => st[h].mask = 1 .. MaxNodes
  BY <1>1
<1> QED
  BY <1>1, <1>2, <1>3, <1>4

\* Stations that join one after the other never meet a full network.
LEMMA JoinStep ==
  ASSUME UdsParameters, Orderly, UdsInv, JoinInv, UdsNext
  PROVE  JoinInv'
PROOF
<1>0. PICK s \in Station :
    \/ NetworkThread(s)
    \/ Initialize(s) \/ Shutdown(s) \/ BeginHostingNetwork(s) \/ DestroyNetwork(s)
    \/ \E g \in Hosts, type \in Types : ConnectToNetwork(s, g, type)
    \/ SendPacket(s) \/ DisconnectNetwork(s)
    \/ \E i \in 1 .. MaxNodes : EjectClient(s, i)
    \/ \E i \in {All} \cup 1 .. MaxNodes : Bind(s, i) \/ \E f \in Flags : SendTo(s, i, f)
    \/ Unbind(s) \/ PullPacket(s)
  BY DEF UdsNext
<1>1. /\ RoomInv /\ Shapes /\ Wires(net) /\ Hosts \subseteq Station
      /\ \A t \in Station : StationInv(t)
      /\ \A h \in Hosts : HostInv(h)
  BY DEF UdsInv, RoomInv, UdsParameters
<1>2. UdsInv'
  BY UdsInvStep
<1>3. ASSUME st' = st, node_map' = node_map
      PROVE  \A h \in Hosts : Room(h) => Room(h)'
  BY <1>3 DEF Room, Clear
<1>4. ASSUME out' = out
      PROVE  \A t \in Station : out'[t].net = out[t].net /\ (Asking(t)' => Asking(t))
  BY <1>4 DEF Asking
<1>5. ASSUME st' = st, node_map' = node_map, out' = out, overfull' = overfull,
             Alone(net)', Silent(net) => Silent(net)', HasLate(net)' => HasLate(net)
      PROVE  JoinInv'
  BY <1>3, <1>4, <1>5, JoinKept
<1>6. CASE SendAssociationResponseFrame(s) \/ SendEAPoLStart(s)
  <2>1. out[s].net # None /\ Silent(net) /\ \A h \in Hosts : Room(h)
    BY <1>6 DEF SendAssociationResponseFrame, SendEAPoLStart, JoinInv
  <2>2. \A t \in Station : ~ Asking(t) /\ (t # s => out[t].net = None)
    BY <2>1 DEF JoinInv
  <2>3. /\ st' = st /\ node_map' = node_map /\ overfull' = overfull
        /\ out' = [out EXCEPT ![s].net = None]
    BY <1>6 DEF SendAssociationResponseFrame, SendEAPoLStart
  <2>4. \A t \in Station : out'[t].net = None /\ out'[t].app = out[t].app
    BY <1>1, <2>2, <2>3 DEF Shapes
  <2>5. Alone(net)'
    <3>1. out[s].net.to \in Station
      BY <1>1, <2>1 DEF StationInv
    <3>2. CASE SendAssociationResponseFrame(s)
      <4>1. Packet([type |-> "assoc"], s, out[s].net.to)
        BY DEF Packet
      <4> QED
        BY <1>1, <2>1, <3>1, <3>2, <4>1, SendFacts DEF SendAssociationResponseFrame, JoinInv
    <3>3. CASE SendEAPoLStart(s)
      <4>1. PICK p : p = [type |-> "start", kind |-> st[s].type, node |-> st[s].node]
        OBVIOUS
      <4>2. p.type = "start" /\ p.kind = st[s].type
        BY <4>1
      <4>3. Packet(p, s, out[s].net.to) /\ net' = Send(net, s, out[s].net.to, p)
        BY <1>1, <3>3, <4>1, <4>2 DEF SendEAPoLStart, StationInv, Packet, UdsParameters
      <4> QED
        BY <1>1, <2>1, <3>1, <4>3, SendFacts
    <3> QED
      BY <1>6, <3>2, <3>3
  <2>6. \A t \in Station : ~ Asking(t)'
    BY <2>2, <2>4 DEF Asking
  <2>7. \A h \in Hosts : Room(h)'
    BY <1>3, <2>1, <2>3
  <2> QED
    BY <2>3, <2>4, <2>5, <2>6, <2>7 DEF JoinInv
<1>7. ASSUME NEW r \in Station, Ignore(r, s) \/ HandleNodeMapPacket(r, s) \/ HandleEAPoLLogoff(r, s)
                                \/ HandleDeauthenticationFrame(r, s)
      PROVE  JoinInv'
  <2>1. net[r][s] # <<>> /\ net' = Taken(r, s) /\ out' = out /\ overfull' = overfull
    BY <1>7 DEF Ignore, HandleNodeMapPacket, HandleEAPoLLogoff, HandleDeauthenticationFrame, Arrives
  <2>2. Alone(net)' /\ (Silent(net) => Silent(net)') /\ (HasLate(net)' => HasLate(net))
    BY <1>1, <2>1, TakenFacts DEF JoinInv
  <2>3. \A h \in Hosts : Room(h) => Room(h)'
    <3> SUFFICES ASSUME NEW h \in Hosts, Room(h) PROVE Room(h)'
      OBVIOUS
    <3>1. ASSUME st'[h] = st[h], node_map'[h] = node_map[h]
          PROVE  Room(h)'
      BY <3>1 DEF Room, Clear
    <3>2. CASE Ignore(r, s)
      BY <3>1, <3>2 DEF Ignore
    <3>3. CASE HandleNodeMapPacket(r, s) \/ HandleEAPoLLogoff(r, s)
      <4>1. Head(net[r][s]).type \in {"map", "logoff"}
        BY <3>3 DEF HandleNodeMapPacket, HandleEAPoLLogoff, Arrives
      <4>2. s # h
        BY <1>1, <2>1, <4>1, TakenFacts DEF Packet, UdsParameters
      <4> QED
        BY <1>1, <3>1, <3>3, <4>2 DEF HandleNodeMapPacket, HandleEAPoLLogoff, Shapes
    <3>4. CASE HandleDeauthenticationFrame(r, s)
      <4>1. CASE s # h
        BY <1>1, <3>1, <3>4, <4>1 DEF HandleDeauthenticationFrame, Shapes
      <4>2. CASE s = h
        <5>1. \A m \in Station : node_map'[h][m] # None => node_map[h][m] # None
          BY <1>1, <3>4, <4>2 DEF HandleDeauthenticationFrame, Shapes, HostInv
        <5>2. Clear(h) => Clear(h)'
          BY <5>1 DEF Clear
        <5>3. st'[h] = st[h] \/ \E i : st'[h] = Left(st[h], i)
          BY <1>1, <3>4, <4>2 DEF HandleDeauthenticationFrame, Shapes
        <5>4. \A i : /\ Left(st[h], i).status = st[h].status /\ Left(st[h], i).initialized = st[h].initialized
                     /\ Left(st[h], i).total = st[h].total - 1 /\ Left(st[h], i).max = st[h].max
          BY <1>1 DEF Left, Shapes, Fields
        <5> QED
          BY <1>1, <5>2, <5>3, <5>4, RoomHasId DEF Room
      <4> QED
        BY <4>1, <4>2
    <3> QED
      BY <1>7, <3>2, <3>3, <3>4
  <2> QED
    BY <1>4, <2>1, <2>2, <2>3, JoinKept
<1>8. ASSUME NEW r \in Station, HandleAuthenticationFrame(r, s)
      PROVE  JoinInv'
  <2>1. net[r][s] # <<>> /\ Joining(Head(net[r][s])) /\ st[s].initialized
    BY <1>8 DEF HandleAuthenticationFrame, Arrives, Joining
  <2>2. /\ Silent(net)' /\ ~ HasLate(net)' /\ Alone(net)' /\ net' = Taken(r, s)
        /\ \A t \in Station : out[t].net = None /\ ~ Asking(t)
    BY <1>1, <1>8, <2>1, JoinTaken DEF HandleAuthenticationFrame
  <2>3. CASE st[s].status = "Host" /\ node_map[s][r] = None /\ st[s].max # st[s].total
    <3>1. /\ out' = [out EXCEPT ![s].net = [type |-> "assoc", to |-> r]] /\ st' = st /\ overfull' = overfull
      BY <1>8, <2>3 DEF HandleAuthenticationFrame
    <3>2. \A t \in Station : (t # s => out'[t].net = None) /\ out'[t].app = out[t].app
      BY <1>1, <2>2, <3>1 DEF Shapes
    <3>3. \A t \in Station : ~ Asking(t)'
      BY <2>2, <3>2 DEF Asking
    <3>4. s \in Hosts /\ \A h \in Hosts : h = s
      BY <1>1, <2>3 DEF StationInv, UdsParameters
    <3>5. st[s].total < st[s].max
      <4>1. Open(s)
        BY <1>1, <2>3, <3>4 DEF HostInv, Deserted
      <4>2. st[s].mask \subseteq 1 .. MaxNodes /\ st[s].max = MaxNodes /\ st[s].total = Cardinality(st[s].mask)
            /\ MaxNodes \in Nat
        BY <4>1 DEF Open, UdsParameters
      <4>3. IsFiniteSet(1 .. MaxNodes) /\ Cardinality(1 .. MaxNodes) = MaxNodes
        BY <4>2, FS_Interval
      <4>4. Cardinality(st[s].mask) \in Nat /\ Cardinality(st[s].mask) <= MaxNodes
        BY <4>2, <4>3, FS_Subset, FS_CardinalityType
      <4> QED
        BY <2>3, <4>2, <4>4
    <3>6. \A h \in Hosts : Room(h)'
      BY <3>1, <3>4, <3>5 DEF Room
    <3> QED
      BY <2>2, <3>1, <3>2, <3>3, <3>6 DEF JoinInv
  <2>4. CASE ~ (st[s].status = "Host" /\ node_map[s][r] = None /\ st[s].max # st[s].total)
    <3>1. st' = st /\ node_map' = node_map /\ out' = out /\ overfull' = overfull
      BY <1>8, <2>4 DEF HandleAuthenticationFrame
    <3> QED
      BY <1>5, <2>2, <3>1
  <2> QED
    BY <2>3, <2>4
<1>9. ASSUME NEW r \in Station, HandleAssociationResponseFrame(r, s)
      PROVE  JoinInv'
  <2>1. net[r][s] # <<>> /\ Joining(Head(net[r][s])) /\ Late(Head(net[r][s]))
    BY <1>9 DEF HandleAssociationResponseFrame, Arrives, Joining, Late
  <2>2. /\ Silent(net)' /\ ~ HasLate(net)' /\ Alone(net)' /\ \A h \in Hosts : Room(h)
        /\ \A t \in Station : out[t].net = None /\ ~ Asking(t)
    BY <1>1, <1>9, <2>1, JoinTaken DEF HandleAssociationResponseFrame
  <2>3. st' = st /\ node_map' = node_map /\ overfull' = overfull
    BY <1>9 DEF HandleAssociationResponseFrame
  <2>4. \A t \in Station : (t # s => out'[t].net = None) /\ out'[t].app = out[t].app
    BY <1>1, <1>9, <2>2 DEF HandleAssociationResponseFrame, Shapes
  <2>5. \A t \in Station : ~ Asking(t)'
    BY <2>2, <2>4 DEF Asking
  <2>6. \A h \in Hosts : Room(h)'
    BY <1>3, <2>2, <2>3
  <2> QED
    BY <2>2, <2>3, <2>4, <2>5, <2>6 DEF JoinInv
<1>10. ASSUME NEW r \in Station, HandleEAPoLStart(r, s)
       PROVE  JoinInv'
  <2>1. net[r][s] # <<>> /\ Joining(Head(net[r][s])) /\ Late(Head(net[r][s])) /\ st[s].initialized
    BY <1>10 DEF HandleEAPoLStart, Arrives, Joining, Late
  <2>2. /\ Silent(Taken(r, s)) /\ Alone(Taken(r, s)) /\ \A h \in Hosts : Room(h)
        /\ \A t \in Station : out[t].net = None /\ ~ Asking(t)
    BY <1>1, <2>1, JoinTaken
  <2>3. Wires(Taken(r, s))
    BY <1>1, <2>1, TakenFacts
  <2>4. out' = out /\ (net' = Taken(r, s) \/ (st[s].status = "Host" /\ (Announces(r, s) \/ Answers(r, s))))
    BY <1>10, StartOutcome
  <2>5. Silent(net)' /\ Alone(net)'
    <3>1. CASE net' = Taken(r, s)
      BY <2>2, <3>1
    <3>2. CASE st[s].status = "Host" /\ (Announces(r, s) \/ Answers(r, s))
      <4>1. s \in Hosts
        BY <1>1, <3>2 DEF StationInv
      <4>2. ASSUME NEW n, Wires(n), Silent(n), Alone(n), NEW p, p.type \in {"map", "logoff"}
            PROVE  /\ Wires(Broadcast(n, s, p)) /\ Silent(Broadcast(n, s, p)) /\ Alone(Broadcast(n, s, p))
        <5>1. ~ Joining(p) /\ p.type # "start" /\ \A t \in Station : t # s => Packet(p, s, t)
          BY <4>1, <4>2 DEF Joining, Packet
        <5> QED
          BY <4>2, <5>1, BroadcastFacts
      <4>3. \A map : [type |-> "map", map |-> map].type = "map"
        OBVIOUS
      <4>4. \A d, i : Logoff(d, i).type = "logoff"
        BY DEF Logoff
      <4>5. CASE Announces(r, s)
        <5>1. PICK map, d, i :
                net' = Broadcast(Broadcast(Taken(r, s), s, [type |-> "map", map |-> map]), s, Logoff(d, i))
          BY <4>5 DEF Announces
        <5>2. PICK p, q : p = [type |-> "map", map |-> map] /\ q = Logoff(d, i)
          OBVIOUS
        <5>3. p.type = "map" /\ q.type = "logoff" /\ net' = Broadcast(Broadcast(Taken(r, s), s, p), s, q)
          BY <4>4, <5>1, <5>2
        <5>4. PICK n : n = Broadcast(Taken(r, s), s, p)
          OBVIOUS
        <5>5. Wires(n) /\ Silent(n) /\ Alone(n)
          BY <2>2, <2>3, <4>2, <5>3, <5>4
        <5> QED
          BY <4>2, <5>3, <5>4, <5>5
      <4>6. CASE Answers(r, s)
        <5>1. PICK d, i : net' = Broadcast(Taken(r, s), s, Logoff(d, i))
          BY <4>6 DEF Answers
        <5> QED
          BY <2>2, <2>3, <4>2, <4>4, <5>1
      <4> QED
        BY <3>2, <4>5, <4>6
    <3> QED
      BY <2>4, <3>1, <3>2
  <2>6. overfull' = overfull
    <3> SUFFICES ASSUME st[s].status = "Host", node_map[s][r] # None,
                        st[s].max = st[s].total \/ (1 .. st[s].max) \subseteq st[s].mask
                 PROVE  FALSE
      BY <1>10, StartOutcome
    <3>1. s \in Hosts /\ ~ Clear(s)
      BY <1>1 DEF StationInv, Clear
    <3>2. st[s].total < st[s].max
      BY <2>1, <2>2, <3>1 DEF Room
    <3> QED
      BY <1>1, <3>1, <3>2, RoomHasId
  <2>7. ~ HasLate(net)'
    BY <2>5, SilentIsEarly
  <2>8. \A t \in Station : out'[t].net = None /\ ~ Asking(t)'
    BY <2>2, <2>4 DEF Asking
  <2> QED
    BY <2>5, <2>6, <2>7, <2>8 DEF JoinInv
<1>11. ASSUME NEW r \in Station, HandleSecureDataPacket(r, s)
       PROVE  JoinInv'
  <2>1. PICK p : p = Head(net[r][s])
    OBVIOUS
  <2>2. p.type = "data" /\ net[r][s] # <<>>
    BY <1>11, <2>1 DEF HandleSecureDataPacket, Arrives
  <2>3. PICK n : n = Taken(r, s)
    OBVIOUS
  <2>4. Wires(n) /\ Alone(n) /\ (Silent(net) => Silent(n)) /\ (HasLate(n) => HasLate(net))
    BY <1>1, <2>2, <2>3, TakenFacts DEF JoinInv
  <2>5. ~ Joining(p) /\ p.type # "start" /\ \A t \in Station : Packet(p, s, t)
    BY <2>2 DEF Joining, Packet
  <2>6. net' = n \/ net' = Broadcast(n, s, p)
    BY <1>11, <2>1, <2>3 DEF HandleSecureDataPacket
  <2>7. Alone(net)' /\ (Silent(net) => Silent(net)') /\ (HasLate(net)' => HasLate(net))
    BY <2>4, <2>5, <2>6, BroadcastFacts
  <2>8. st' = st /\ out' = out /\ node_map' = node_map /\ overfull' = overfull
    BY <1>11 DEF HandleSecureDataPacket
  <2> QED
    BY <1>5, <2>7, <2>8
<1>12. CASE NetworkThread(s)
  BY <1>6, <1>7, <1>8, <1>9, <1>10, <1>11, <1>12 DEF NetworkThread
<1>13. ASSUME net' = net, overfull' = overfull, \A t \in Station : out'[t].net = out[t].net,
              \A t \in Station : Asking(t)' => Asking(t),
              \A h \in Hosts : Room(h) => Room(h)'
       PROVE  JoinInv'
  BY <1>13, JoinKept DEF JoinInv
<1>14. CASE Initialize(s) \/ Shutdown(s) \/ BeginHostingNetwork(s) \/ DestroyNetwork(s) \/ DisconnectNetwork(s)
  <2>1. net' = net /\ overfull' = overfull
    BY <1>14 DEF Initialize, Shutdown, BeginHostingNetwork, DestroyNetwork, DisconnectNetwork
  <2>2. \A t \in Station : out'[t].net = out[t].net /\ (Asking(t)' => Asking(t))
    <3>1. \/ out' = out
          \/ \E h : out' = [out EXCEPT ![s].app = [type |-> "deauth", to |-> h]]
      BY <1>14 DEF Initialize, Shutdown, BeginHostingNetwork, DestroyNetwork, DisconnectNetwork
    <3>2. \A t \in Station : out'[t].net = out[t].net /\ (out'[t].app = out[t].app \/ out'[t].app.type = "deauth")
      BY <1>1, <3>1 DEF Shapes
    <3> QED
      BY <3>2 DEF Asking
  <2>3. \A h \in Hosts : Room(h) => Room(h)'
    <3> SUFFICES ASSUME NEW h \in Hosts, Room(h) PROVE Room(h)'
      OBVIOUS
    <3>1. CASE s # h
      <4>1. st'[h] = st[h] /\ node_map'[h] = node_map[h]
        BY <1>1, <1>14, <3>1
           DEF Shapes, Initialize, Shutdown, BeginHostingNetwork, DestroyNetwork, DisconnectNetwork, Forgotten
      <4> QED
        BY <4>1 DEF Room, Clear
    <3>2. CASE s = h /\ (Shutdown(s) \/ DestroyNetwork(s) \/ DisconnectNetwork(s))
      <4>1. node_map' = Forgotten(h)
        BY <3>2 DEF Shutdown, DestroyNetwork, DisconnectNetwork
      <4>2. Clear(h)'
        BY <1>1, <4>1 DEF Forgotten, Clear, Shapes
      <4> QED
        BY <4>2 DEF Room
    <3>3. CASE s = h /\ (Initialize(s) \/ BeginHostingNetwork(s))
      <4>1. ~ st[h].initialized \/ st[h].status = "NotConnected"
        BY <3>3 DEF Initialize, BeginHostingNetwork
      <4>2. Clear(h) /\ node_map' = node_map
        BY <1>1, <3>3, <4>1 DEF HostInv, Initialize, BeginHostingNetwork
      <4> QED
        BY <4>2 DEF Room, Clear
    <3> QED
      BY <1>14, <3>1, <3>2, <3>3
  <2> QED
    BY <1>13, <2>1, <2>2, <2>3
<1>15. ASSUME NEW g \in Hosts, NEW type \in Types, ConnectToNetwork(s, g, type)
       PROVE  JoinInv'
  <2>1. Quiet /\ net' = net /\ node_map' = node_map /\ overfull' = overfull
        /\ out' = [out EXCEPT ![s].app = [type |-> "auth", to |-> g]]
    BY <1>15 DEF ConnectToNetwork
  <2>2. \A t, u \in Station : net[t][u] = <<>> /\ out[u] = [net |-> None, app |-> None]
    BY <2>1 DEF Quiet
  <2>3. Silent(net) /\ ~ HasLate(net)
    BY <2>2 DEF Silent, Loose, HasLate
  <2>4. \A t \in Station : out[t].net = None /\ ~ Asking(t)
    BY <2>2 DEF Asking
  <2>5. \A t \in Station : out'[t].net = None /\ (t # s => out'[t].app = out[t].app)
    BY <1>1, <2>1, <2>4 DEF Shapes
  <2>6. \A t \in Station : Asking(t)' => t = s
    BY <2>4, <2>5 DEF Asking
  <2> QED
    BY <2>1, <2>3, <2>5, <2>6 DEF JoinInv
<1>16. CASE SendPacket(s)
  <2>1. PICK p, to : p = [type |-> out[s].app.type] /\ to = out[s].app.to
    OBVIOUS
  <2>2. /\ p.type = out[s].app.type /\ net' = Send(net, s, to, p) /\ to \in Station /\ out[s].app # None
        /\ out' = [out EXCEPT ![s].app = None] /\ st' = st /\ node_map' = node_map /\ overfull' = overfull
    BY <1>1, <1>16, <2>1 DEF SendPacket, StationInv
  <2>3. p.type \in {"auth", "deauth"} /\ Packet(p, s, to) /\ ~ Late(p)
    BY <1>1, <2>2 DEF StationInv, Packet, Late
  <2>4. \A t \in Station : out'[t].net = out[t].net /\ (Asking(t)' => Asking(t)) /\ ~ Asking(s)'
    BY <1>1, <2>2 DEF Shapes, Asking
  <2>5. HasLate(net)' => HasLate(net)
    BY <1>1, <2>2, <2>3, SendFacts
  <2>6. CASE p.type = "auth"
    <3>1. Asking(s) /\ Silent(net)
      BY <2>2, <2>6 DEF Asking, JoinInv
    <3>2. Alone(net)'
      BY <1>1, <2>2, <2>3, <3>1, SendFacts
    <3>3. \A t \in Station : out'[t].net = None /\ ~ Asking(t)'
      BY <2>4, <3>1 DEF JoinInv
    <3>4. ~ HasLate(net)'
      BY <2>5, <3>1, SilentIsEarly
    <3> QED
      BY <2>2, <3>2, <3>3, <3>4 DEF JoinInv
  <2>7. CASE p.type = "deauth"
    <3>1. ~ Joining(p)
      BY <2>7 DEF Joining
    <3>2. Alone(net)' /\ (Silent(net) => Silent(net)')
      BY <1>1, <2>2, <2>3, <3>1, SendFacts DEF JoinInv
    <3> QED
      BY <1>3, <2>2, <2>4, <2>5, <3>2, JoinKept
  <2> QED
    BY <2>3, <2>6, <2>7
<1>17. ASSUME NEW t \in Station, NEW p, p.type \in {"data", "deauth"}, net' = Send(net, s, t, p),
              st' = st, out' = out, node_map' = node_map, overfull' = overfull
       PROVE  JoinInv'
  <2>1. ~ Joining(p) /\ Packet(p, s, t)
    BY <1>17 DEF Joining, Packet
  <2>2. Alone(net)' /\ (Silent(net) => Silent(net)') /\ (HasLate(net)' => HasLate(net))
    BY <1>1, <1>17, <2>1, SendFacts DEF JoinInv
  <2> QED
    BY <1>5, <1>17, <2>2
<1>18. ASSUME NEW i, EjectClient(s, i)
       PROVE  JoinInv'
  <2>1. PICK t \in Station : net' = Send(net, s, t, [type |-> "deauth"])
    BY <1>18 DEF EjectClient, MacAddresses
  <2>2. PICK p : p = [type |-> "deauth"]
    OBVIOUS
  <2>3. p.type = "deauth" /\ net' = Send(net, s, t, p)
    BY <2>1, <2>2
  <2> QED
    BY <1>17, <1>18, <2>3 DEF EjectClient
<1>19. ASSUME NEW i, NEW f, SendTo(s, i, f)
       PROVE  JoinInv'
  <2>1. PICK p : p = [type |-> "data", src |-> st[s].id, dest |-> i, n |-> sent + 1]
    OBVIOUS
  <2>2. p.type = "data"
    BY <2>1
  <2>3. ~ Joining(p) /\ p.type # "start" /\ \A t \in Station : Packet(p, s, t)
    BY <2>2 DEF Joining, Packet
  <2>4. st' = st /\ out' = out /\ node_map' = node_map /\ overfull' = overfull /\ st[s].status \in {"Host", "Client"}
    BY <1>19 DEF SendTo
  <2>5. \/ net' = Broadcast(net, s, p) \/ net' = Send(net, s, st[s].host, p)
        \/ \E m \in MacAddresses(s, i) : net' = Send(net, s, m, p)
    BY <1>19, <2>1 DEF SendTo
  <2>6. CASE net' = Broadcast(net, s, p)
    <3>1. Alone(net)' /\ (Silent(net) => Silent(net)') /\ (HasLate(net)' => HasLate(net))
      BY <1>1, <2>3, <2>6, BroadcastFacts DEF JoinInv
    <3> QED
      BY <1>5, <2>4, <3>1
  <2>7. st[s].host \in Station
    BY <1>1, <2>4 DEF StationInv
  <2> QED
    BY <1>17, <2>2, <2>4, <2>5, <2>6, <2>7 DEF MacAddresses
<1>20. ASSUME NEW i, Bind(s, i) PROVE JoinInv'
  <2>1. UNCHANGED <<st, node_map, out, net, overfull>>
    BY <1>20 DEF Bind
  <2> QED
    BY <1>5, <2>1 DEF JoinInv
<1>21. CASE Unbind(s) \/ PullPacket(s)
  <2>1. UNCHANGED <<st, node_map, out, net, overfull>>
    BY <1>21 DEF Unbind, PullPacket
  <2> QED
    BY <1>5, <2>1 DEF JoinInv
<1> QED
  BY <1>0, <1>12, <1>14, <1>15, <1>16, <1>18, <1>19, <1>20, <1>21

\* For any number of stations that come one after the other: what the host believes
\* of its network is so, and whom it has let in finds a place, so that the
\* assertion of GetNextAvailableNodeId (nwm_uds.cpp:96) holds.
THEOREM StationsCountedHolds ==
  ASSUME UdsParameters, Orderly
  PROVE  UdsSpec => []StationsCounted
PROOF
<1>1. UdsInit => UdsInv /\ JoinInv
  <2> SUFFICES ASSUME UdsInit PROVE UdsInv /\ JoinInv
    OBVIOUS
  <2>1. UdsInv /\ Alone(net) /\ Silent(net) /\ ~ HasLate(net)
    BY UdsInvInit, RoomInit
  <2>2. \A s \in Station : out[s].net = None /\ ~ Asking(s)
    BY DEF UdsInit, Asking
  <2>3. ~ overfull
    BY DEF UdsInit
  <2> QED
    BY <2>1, <2>2, <2>3 DEF JoinInv
<1>2. UdsInv /\ JoinInv /\ [UdsNext]_uds_vars => (UdsInv /\ JoinInv)'
  <2> SUFFICES ASSUME UdsInv, JoinInv, [UdsNext]_uds_vars PROVE UdsInv' /\ JoinInv'
    OBVIOUS
  <2>1. UdsInv'
    BY UdsInvStep
  <2>2. CASE UNCHANGED uds_vars
    <3>1. st' = st /\ out' = out /\ node_map' = node_map /\ net' = net /\ overfull' = overfull
      BY <2>2 DEF uds_vars
    <3> QED
      BY <2>1, <3>1 DEF JoinInv, Asking, Room, Clear
  <2> QED
    BY <2>1, <2>2, JoinStep
<1>3. UdsInv /\ JoinInv => StationsCounted
  BY UdsInvImplies DEF JoinInv, StationsCounted, NeverOverfull
<1> QED
  BY <1>1, <1>2, <1>3, PTL DEF UdsSpec

=============================================================================
