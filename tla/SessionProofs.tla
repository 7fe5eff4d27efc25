---------------------------- MODULE SessionProofs ----------------------------
(***************************************************************************)
(* Requests, connections and waits of sessions, for any number of threads, *)
(* sessions and ports and any lists of handles.                            *)
(*                                                                         *)
(* Three inductions, each on the one before: a request waits in one place   *)
(* (for every session, dead ones too, and only a thread asleep in           *)
(* ReplyAndReceive has wait objects); the number that ClientPort::Connect   *)
(* tests is that of the server ends in existence (a session that was never  *)
(* made is referred to by nobody); a server does not sleep on a ready       *)
(* object (only servers sleep on lists of handles).                         *)
(***************************************************************************)
EXTENDS Sessions, FiniteSetTheorems, WellFoundedInduction, TLAPS

\* What the parameters stand for: a thread is not the null pointer, a port is
\* not a session, and handle lists hold ports and sessions.
Parameters ==
  /\ None \notin Threads /\ None \notin Session /\ Port \notin Session
  /\ IsFiniteSet(Session) /\ MaxSessions \in Nat
  /\ HandleLists \subseteq Seq(Session \cup {Port})
  /\ MayStop \subseteq Threads

Unanswered == {"WaitIPC", "Dead"}

SessionTypes ==
  /\ status \in [Threads -> {"Running", "WaitIPC", "WaitHle", "WaitSynchAny", "Dead"}]
  /\ wait_objects \in [Threads -> Seq(Session \cup {Port})]
  /\ kind \in [Session -> Kind]
  /\ client \in [Session -> BOOLEAN] /\ held \in [Session -> BOOLEAN]
  /\ pending_requesting_threads \in [Session -> Seq(Threads)]
  /\ currently_handling \in [Session -> Threads \cup {None}]
  /\ pending_sessions \in Seq(Session)
  /\ active_sessions \in [PortName -> Int]
  /\ dead_resumed \in BOOLEAN

\* Only a thread that was put to sleep by ReplyAndReceive has wait objects.
WaitersAsleep == \A t \in Threads : wait_objects[t] # <<>> => status[t] = "WaitSynchAny"

\* RequestsOnce for all sessions, those without a server end too: their lists
\* stay as they were when the last reference to the server end went away.
RequestersWait == \A s \in Session : \A t \in Requests(s) : status[t] \in Unanswered
PendingOnce ==
  \A s \in Session : /\ IsInjective(pending_requesting_threads[s])
                     /\ currently_handling[s] \notin Range(pending_requesting_threads[s])
OneSession == \A s \in Session, r \in Session : s # r => Requests(r) \cap Requests(s) = {}

RequestInv == WaitersAsleep /\ RequestersWait /\ PendingOnce /\ OneSession

-----------------------------------------------------------------------------
(* Sequences *)

\* A thread that is pushed is one more element.
LEMMA AppendOne ==
  ASSUME NEW T, NEW s \in Seq(T), NEW x \in T
  PROVE  /\ Append(s, x) \in Seq(T)
         /\ Range(Append(s, x)) = Range(s) \cup {x}
         /\ IsInjective(s) /\ x \notin Range(s) => IsInjective(Append(s, x))
PROOF
<1>1. /\ Append(s, x) \in Seq(T) /\ Len(s) \in Nat
      /\ DOMAIN s = 1 .. Len(s) /\ DOMAIN Append(s, x) = 1 .. Len(s) + 1
  OBVIOUS
<1>2. \A i \in 1 .. Len(s) + 1 : Append(s, x)[i] = IF i <= Len(s) THEN s[i] ELSE x
  OBVIOUS
<1>3. Range(Append(s, x)) = Range(s) \cup {x}
  BY <1>1, <1>2 DEF Range
<1>4. ASSUME IsInjective(s), x \notin Range(s) PROVE IsInjective(Append(s, x))
  BY <1>1, <1>2, <1>4 DEF IsInjective, Range
<1> QED
  BY <1>1, <1>3, <1>4

\* Taking the last element leaves the others.
LEMMA FrontOthers ==
  ASSUME NEW T, NEW s \in Seq(T), s # <<>>
  PROVE  /\ Front(s) \in Seq(T) /\ Last(s) \in T
         /\ Range(Front(s)) \subseteq Range(s) /\ Last(s) \in Range(s)
         /\ IsInjective(s) => IsInjective(Front(s)) /\ Last(s) \notin Range(Front(s))
PROOF
<1>1. /\ Len(s) \in Nat /\ Len(s) >= 1 /\ DOMAIN s = 1 .. Len(s)
      /\ Front(s) \in Seq(T) /\ DOMAIN Front(s) = 1 .. Len(s) - 1
  BY DEF Front
<1>2. \A i \in 1 .. Len(s) - 1 : Front(s)[i] = s[i]
  BY <1>1 DEF Front
<1>3. Last(s) = s[Len(s)] /\ Len(s) \in 1 .. Len(s)
  BY <1>1 DEF Last
<1>4. Last(s) \in T /\ Last(s) \in Range(s) /\ Range(Front(s)) \subseteq Range(s)
  BY <1>1, <1>2, <1>3 DEF Range
<1>5. ASSUME IsInjective(s) PROVE IsInjective(Front(s)) /\ Last(s) \notin Range(Front(s))
  BY <1>1, <1>2, <1>3, <1>5 DEF IsInjective, Range
<1> QED
  BY <1>1, <1>4, <1>5

\* The least of a set of indices.
LEMMA MinIndex ==
  ASSUME NEW S, S \subseteq Nat, S # {}
  PROVE  Min(S) \in S
PROOF
<1>1. PICK p \in S : \A q \in S : ~ (<<q, p>> \in OpToRel(<, Nat))
  BY WFMin, NatLessThanWellFounded
<1>2. \A q \in S : p <= q
  <2>1. TAKE q \in S
  <2>2. p \in Nat /\ q \in Nat
    OBVIOUS
  <2>3. ~ (q < p)
    BY <1>1, <2>2 DEF OpToRel
  <2> QED
    BY <2>2, <2>3
<1> QED
  BY <1>2 DEF Min

-----------------------------------------------------------------------------
(***************************************************************************)
(* Types.                                                                  *)
(***************************************************************************)
\* What ReplyAndReceive acquires: a session that has a client and a request
\* pending, and handles none.
LEMMA FirstReady ==
  ASSUME Parameters, SessionTypes, NEW objects \in HandleLists,
         NEW handling \in [Session -> Threads \cup {None}],
         NEW ready, ready = {i \in DOMAIN objects : ~ ShouldWait(objects[i], handling)},
         ready # {}, objects[Min(ready)] # Port, client[objects[Min(ready)]]
  PROVE  LET f == objects[Min(ready)]
         IN  f \in Session /\ pending_requesting_threads[f] # <<>> /\ handling[f] = None
PROOF
<1>1. objects \in Seq(Session \cup {Port}) /\ DOMAIN objects = 1 .. Len(objects)
      /\ Len(objects) \in Nat
  BY DEF Parameters
<1>2. Min(ready) \in ready
  <2>1. ready \subseteq Nat
    BY <1>1
  <2> QED
    BY <2>1, MinIndex
<1>3. Min(ready) \in 1 .. Len(objects) /\ ~ ShouldWait(objects[Min(ready)], handling)
  BY <1>1, <1>2
<1>4. objects[Min(ready)] \in Session
  BY <1>1, <1>3
<1> QED
  BY <1>3, <1>4 DEF ShouldWait

\* A step of ReplyAndReceive with its cases made explicit.
LEMMA ReceiveCases ==
  ASSUME Parameters, SessionTypes, NEW t \in Server, NEW objects \in HandleLists,
         NEW target \in Session \cup {None}, ReplyAndReceive(t, objects, target)
  PROVE  /\ Handled(target) \in [Session -> Threads \cup {None}]
         /\ \/ /\ currently_handling' = Handled(target)
               /\ UNCHANGED pending_requesting_threads
            \/ \E f \in Session :
                 /\ pending_requesting_threads[f] # <<>> /\ Handled(target)[f] = None
                 /\ currently_handling' =
                      [Handled(target) EXCEPT ![f] = Last(pending_requesting_threads[f])]
                 /\ pending_requesting_threads' =
                      [pending_requesting_threads EXCEPT ![f] = Front(@)]
         /\ \/ /\ status' = Resumed(Request(target)) /\ UNCHANGED wait_objects
            \/ /\ status' = [Resumed(Request(target)) EXCEPT ![t] = "WaitSynchAny"]
               /\ wait_objects' = [wait_objects EXCEPT ![t] = objects]
               /\ currently_handling' = Handled(target)
               /\ UNCHANGED pending_requesting_threads
               /\ \A i \in DOMAIN objects : ShouldWait(objects[i], Handled(target))
PROOF
<1> DEFINE ready == {i \in DOMAIN objects : ~ ShouldWait(objects[i], Handled(target))}
           f == objects[Min(ready)]
           taken == ready # {} /\ f # Port /\ client[f]
<1>1. Handled(target) \in [Session -> Threads \cup {None}]
  BY DEF Handled, SessionTypes
<1>2. /\ currently_handling' = IF taken
           THEN [Handled(target) EXCEPT ![f] = Last(pending_requesting_threads[f])]
           ELSE Handled(target)
      /\ pending_requesting_threads' = IF taken
           THEN [pending_requesting_threads EXCEPT ![f] = Front(@)]
           ELSE pending_requesting_threads
      /\ IF ready # {}
         THEN status' = Resumed(Request(target)) /\ UNCHANGED wait_objects
         ELSE /\ status' = [Resumed(Request(target)) EXCEPT ![t] = "WaitSynchAny"]
              /\ wait_objects' = [wait_objects EXCEPT ![t] = objects]
  BY DEF ReplyAndReceive
<1>3. taken => f \in Session /\ pending_requesting_threads[f] # <<>>
               /\ Handled(target)[f] = None
  BY <1>1, FirstReady
<1>4. ready = {} => \A i \in DOMAIN objects : ShouldWait(objects[i], Handled(target))
  OBVIOUS
<1>5. taken => ready # {}
  OBVIOUS
<1> HIDE DEF ready, f, taken
<1> QED
  BY <1>1, <1>2, <1>3, <1>4, <1>5

\* The status of the thread that is answered.
LEMMA ResumedStatus ==
  ASSUME Parameters, SessionTypes, NEW target \in Session \cup {None}
  PROVE  /\ Request(target) \in Threads \cup {None}
         /\ Resumed(Request(target)) \in
              [Threads -> {"Running", "WaitIPC", "WaitHle", "WaitSynchAny", "Dead"}]
         /\ \A x \in Threads : x # Request(target) => Resumed(Request(target))[x] = status[x]
PROOF
  BY DEF Request, Resumed, SessionTypes, Parameters

\* Every step keeps the types.
LEMMA TypesNext ==
  ASSUME Parameters, SessionTypes, [Next]_vars
  PROVE  SessionTypes'
PROOF
<1>1. ASSUME NEW S PROVE WakeUp(S) => /\ status' \in [Threads -> {"Running", "WaitIPC", "WaitHle", "WaitSynchAny", "Dead"}]
        /\ wait_objects' \in [Threads -> Seq(Session \cup {Port})]
  BY DEF WakeUp, SessionTypes
<1>2. ServerSessionDestructors => active_sessions' \in [PortName -> Int]
  <2> SUFFICES ASSUME NEW p \in PortName PROVE Cardinality(Destroyed(p)) \in Nat
    BY DEF ServerSessionDestructors, SessionTypes
  <2>1. Destroyed(p) \subseteq Session
    BY DEF Destroyed
  <2> QED
    BY <2>1, FS_Subset, FS_CardinalityType DEF Parameters
<1>3. ASSUME NEW s \in Session, NEW p \in PortName, NEW ok \in BOOLEAN, Connect(s, p, ok)
      PROVE  SessionTypes'
  <2>1. ASSUME NEW q \in PortName PROVE Cardinality(Destroyed(q)) \in Nat
    <3>1. Destroyed(q) \subseteq Session
      BY DEF Destroyed
    <3> QED
      BY <3>1, FS_Subset, FS_CardinalityType DEF Parameters
  <2>2. active_sessions' \in [PortName -> Int]
    BY <1>3, <2>1 DEF Connect, SessionTypes
  <2>3. /\ status' \in [Threads -> {"Running", "WaitIPC", "WaitHle", "WaitSynchAny", "Dead"}]
        /\ wait_objects' \in [Threads -> Seq(Session \cup {Port})]
    BY <1>1, <1>3 DEF Connect, WakePort
  <2>4. kind' \in [Session -> Kind] /\ client' \in [Session -> BOOLEAN]
        /\ held' \in [Session -> BOOLEAN]
    BY <1>3 DEF Connect, SessionTypes, Kind
  <2>5. pending_sessions' \in Seq(Session)
    BY <1>3, AppendOne DEF Connect, SessionTypes
  <2> QED
    BY <1>3, <2>2, <2>3, <2>4, <2>5 DEF Connect, SessionTypes
<1>4. ASSUME NEW s \in Session, NEW ok \in BOOLEAN, CreateSession(s, ok)
      PROVE  SessionTypes'
  BY <1>4 DEF CreateSession, SessionTypes, Kind, requestVars
<1>5. ASSUME NEW ok \in BOOLEAN, AcceptSession(ok) PROVE SessionTypes'
  <2>1. Front(pending_sessions) \in Seq(Session)
    BY <1>5, FrontOthers DEF AcceptSession, SessionTypes
  <2> QED
    BY <1>2, <1>5, <2>1 DEF AcceptSession, SessionTypes, requestVars
<1>6. ASSUME NEW t \in Client, NEW s \in Session, SendSyncRequest(t, s) PROVE SessionTypes'
  <2>1. t \in Threads /\ Append(pending_requesting_threads[s], t) \in Seq(Threads)
    BY AppendOne DEF Threads, SessionTypes
  <2>2. \A w \in Waiters(s) : w \in Threads
    BY DEF Waiters
  <2>3. UNCHANGED <<kind, client, held, pending_sessions, dead_resumed>>
        /\ active_sessions' \in [PortName -> Int]
    BY <1>2, <1>6 DEF SendSyncRequest
  <2>4. /\ status' \in [Threads -> {"Running", "WaitIPC", "WaitHle", "WaitSynchAny", "Dead"}]
        /\ wait_objects' \in [Threads -> Seq(Session \cup {Port})]
        /\ pending_requesting_threads' \in [Session -> Seq(Threads)]
        /\ currently_handling' \in [Session -> Threads \cup {None}]
    <3>1. CASE /\ status' = [status EXCEPT ![t] = "WaitIPC"]
               /\ pending_requesting_threads' =
                    [pending_requesting_threads EXCEPT ![s] = Append(@, t)]
               /\ UNCHANGED <<wait_objects, currently_handling>>
      BY <2>1, <3>1 DEF SessionTypes
    <3>2. ASSUME NEW w \in Waiters(s),
                 status' = [status EXCEPT ![t] = "WaitIPC", ![w] = "Running"],
                 wait_objects' = [wait_objects EXCEPT ![w] = <<>>],
                 currently_handling' = [currently_handling EXCEPT ![s] = t],
                 UNCHANGED pending_requesting_threads
          PROVE  /\ status' \in [Threads -> {"Running", "WaitIPC", "WaitHle", "WaitSynchAny", "Dead"}]
                 /\ wait_objects' \in [Threads -> Seq(Session \cup {Port})]
                 /\ pending_requesting_threads' \in [Session -> Seq(Threads)]
                 /\ currently_handling' \in [Session -> Threads \cup {None}]
      <4>1. <<>> \in Seq(Session \cup {Port})
        OBVIOUS
      <4> QED
        BY <2>1, <2>2, <3>2, <4>1 DEF SessionTypes
    <3> QED
      BY <1>6, <3>1, <3>2 DEF SendSyncRequest
  <2> QED
    BY <2>3, <2>4 DEF SessionTypes
<1>7. ASSUME NEW t \in Client, NEW s \in Session, SendSyncRequestHLE(t, s)
      PROVE  SessionTypes'
  BY <1>7 DEF SendSyncRequestHLE, SessionTypes, sessionVars, requestVars
<1>8. ASSUME NEW t \in Server, NEW s \in Session, Reply(t, s) PROVE SessionTypes'
  <2>1. Handled(s) \in [Session -> Threads \cup {None}]
    BY DEF Handled, SessionTypes
  <2>2. (dead_resumed \/ ResumesDead(s)) \in BOOLEAN
    BY DEF SessionTypes, ResumesDead
  <2> QED
    BY <1>8, <2>1, <2>2, ResumedStatus DEF Reply, SessionTypes, sessionVars
<1>9. ASSUME NEW t \in Server, NEW objects \in HandleLists, NEW target \in Session \cup {None},
             ReplyAndReceive(t, objects, target)
      PROVE  SessionTypes'
  <2>1. objects \in Seq(Session \cup {Port}) /\ t \in Threads
    BY DEF Parameters, Threads
  <2>2. dead_resumed' \in BOOLEAN /\ UNCHANGED sessionVars
    BY <1>9 DEF ReplyAndReceive, SessionTypes, ResumesDead
  <2>3. /\ currently_handling' \in [Session -> Threads \cup {None}]
        /\ pending_requesting_threads' \in [Session -> Seq(Threads)]
    <3>1. CASE currently_handling' = Handled(target) /\ UNCHANGED pending_requesting_threads
      BY <1>9, <3>1, ReceiveCases DEF SessionTypes
    <3>2. ASSUME NEW f \in Session, pending_requesting_threads[f] # <<>>,
                 currently_handling' =
                   [Handled(target) EXCEPT ![f] = Last(pending_requesting_threads[f])],
                 pending_requesting_threads' =
                   [pending_requesting_threads EXCEPT ![f] = Front(@)]
          PROVE  /\ currently_handling' \in [Session -> Threads \cup {None}]
                 /\ pending_requesting_threads' \in [Session -> Seq(Threads)]
      <4>1. pending_requesting_threads[f] \in Seq(Threads)
        BY DEF SessionTypes
      <4>2. Front(pending_requesting_threads[f]) \in Seq(Threads)
            /\ Last(pending_requesting_threads[f]) \in Threads
        BY <3>2, <4>1, FrontOthers
      <4>3. Handled(target) \in [Session -> Threads \cup {None}]
        BY <1>9, ReceiveCases
      <4> QED
        BY <3>2, <4>2, <4>3 DEF SessionTypes
    <3> QED
      BY <1>9, <3>1, <3>2, ReceiveCases
  <2>4. /\ status' \in [Threads -> {"Running", "WaitIPC", "WaitHle", "WaitSynchAny", "Dead"}]
        /\ wait_objects' \in [Threads -> Seq(Session \cup {Port})]
    <3>1. Resumed(Request(target)) \in
            [Threads -> {"Running", "WaitIPC", "WaitHle", "WaitSynchAny", "Dead"}]
      BY ResumedStatus
    <3>2. \/ /\ status' = Resumed(Request(target)) /\ UNCHANGED wait_objects
          \/ /\ status' = [Resumed(Request(target)) EXCEPT ![t] = "WaitSynchAny"]
             /\ wait_objects' = [wait_objects EXCEPT ![t] = objects]
      BY <1>9, ReceiveCases
    <3> QED
      BY <2>1, <3>1, <3>2 DEF SessionTypes
  <2> QED
    BY <2>2, <2>3, <2>4 DEF SessionTypes, sessionVars
<1>10. ASSUME NEW s \in Session, CloseClient(s) PROVE SessionTypes'
  <2>1. /\ client' \in [Session -> BOOLEAN] /\ held' \in [Session -> BOOLEAN]
        /\ pending_requesting_threads' \in [Session -> Seq(Threads)]
        /\ currently_handling' \in [Session -> Threads \cup {None}]
    BY <1>10 DEF CloseClient, SessionTypes
  <2> QED
    BY <1>1, <1>2, <1>10, <2>1 DEF CloseClient, SessionTypes
<1>11. ASSUME NEW s \in Session, CloseServer(s) PROVE SessionTypes'
  BY <1>2, <1>11 DEF CloseServer, SessionTypes, requestVars
<1>12. ASSUME NEW t \in MayStop, Stop(t) PROVE SessionTypes'
  BY <1>2, <1>12 DEF Stop, SessionTypes, requestVars, Parameters
<1>13. ASSUME UNCHANGED vars PROVE SessionTypes'
  BY <1>13 DEF vars, SessionTypes
<1>14. Opening => SessionTypes'
  BY <1>3, <1>4, <1>5 DEF Opening
<1>15. Requesting => SessionTypes'
  <2>1. ASSUME NEW t \in Client, WakeAfterDelay(t) PROVE SessionTypes'
    BY <2>1 DEF WakeAfterDelay, SessionTypes, sessionVars, requestVars
  <2> QED
    BY <1>6, <1>7, <2>1 DEF Requesting
<1>16. Serving => SessionTypes'
  BY <1>8, <1>9 DEF Serving
<1>17. Ending => SessionTypes'
  BY <1>10, <1>11, <1>12 DEF Ending
<1> QED
  BY <1>13, <1>14, <1>15, <1>16, <1>17 DEF Next

-----------------------------------------------------------------------------
(***************************************************************************)
(* Requests.                                                               *)
(***************************************************************************)
\* A requesting thread is a thread, and the null pointer is none.
LEMMA RequestsAreThreads ==
  ASSUME Parameters, SessionTypes, NEW s \in Session
  PROVE  Requests(s) \subseteq Threads /\ None \notin Requests(s)
PROOF
<1>1. pending_requesting_threads[s] \in Seq(Threads)
      /\ currently_handling[s] \in Threads \cup {None}
  BY DEF SessionTypes
<1>2. Range(pending_requesting_threads[s]) \subseteq Threads
  BY <1>1 DEF Range
<1> QED
  BY <1>1, <1>2 DEF Requests, Parameters

\* A step in which at most one thread, new to all sessions, makes a request of
\* one session.
LEMMA RequestStep ==
  ASSUME RequestInv, NEW x, NEW at, \A s \in Session : x \notin Requests(s),
         \A s \in Session :
           /\ IsInjective(pending_requesting_threads'[s])
           /\ currently_handling'[s] \notin Range(pending_requesting_threads'[s])
           /\ Requests(s)' \subseteq Requests(s) \cup (IF s = at THEN {x} ELSE {})
           /\ \A t \in Requests(s)' : status'[t] \in Unanswered
  PROVE  (RequestersWait /\ PendingOnce /\ OneSession)'
PROOF
<1>1. RequestersWait' /\ PendingOnce'
  BY DEF RequestersWait, PendingOnce
<1>2. ASSUME NEW s \in Session, NEW r \in Session, s # r
      PROVE  Requests(r)' \cap Requests(s)' = {}
  <2>1. Requests(r) \cap Requests(s) = {}
    BY <1>2 DEF RequestInv, OneSession
  <2> QED
    BY <1>2, <2>1
<1> QED
  BY <1>1, <1>2 DEF OneSession

\* A step that leaves the requests alone and answers no one.
LEMMA RequestsKept ==
  ASSUME Parameters, SessionTypes, RequestInv,
         UNCHANGED <<pending_requesting_threads, currently_handling>>,
         \A t \in Threads : status[t] \in Unanswered => status'[t] \in Unanswered
  PROVE  (RequestersWait /\ PendingOnce /\ OneSession)'
PROOF
<1>1. \A s \in Session : Requests(s)' = Requests(s)
  BY DEF Requests
<1>2. \A s \in Session : Requests(s) \subseteq Threads
  BY RequestsAreThreads
<1> QED
  BY <1>1, <1>2 DEF RequestInv, RequestersWait, PendingOnce, OneSession

\* Threads that are woken from their waits were asleep, and made no request.
LEMMA WakeUpAsleep ==
  ASSUME Parameters, SessionTypes, RequestInv, NEW o, WakeUp(Waiters(o)) \/ WakeUp({})
  PROVE  /\ \A t \in Threads : status[t] \in Unanswered => status'[t] \in Unanswered
         /\ WaitersAsleep'
PROOF
<1>1. PICK S \in SUBSET Threads : WakeUp(S) /\ \A t \in S : wait_objects[t] # <<>>
  <2>1. \A t \in Waiters(o) : t \in Threads /\ wait_objects[t] # <<>>
    BY DEF Waiters, Range
  <2> QED
    BY <2>1
<1>2. \A t \in S : status[t] = "WaitSynchAny"
  BY <1>1 DEF RequestInv, WaitersAsleep
<1> QED
  BY <1>1, <1>2 DEF WakeUp, RequestInv, WaitersAsleep, Unanswered

\* The reply takes the request out of its session; nobody else is answered.
LEMMA ReplyAnswers ==
  ASSUME Parameters, SessionTypes, RequestInv, NEW target \in Session \cup {None},
         NEW s \in Session
  PROVE  /\ Handled(target)[s] = currently_handling[s] \/ Handled(target)[s] = None
         /\ \A t \in Range(pending_requesting_threads[s])
                     \cup ({Handled(target)[s]} \ {None}) :
              t \in Threads /\ t \in Requests(s) /\ Resumed(Request(target))[t] \in Unanswered
PROOF
<1>1. Handled(target)[s] = currently_handling[s] \/ Handled(target)[s] = None
  BY DEF Handled, SessionTypes
<1>2. ASSUME NEW t \in Range(pending_requesting_threads[s]) \cup ({Handled(target)[s]} \ {None})
      PROVE  t \in Threads /\ t \in Requests(s) /\ t # Request(target)
  <2>1. t \in Requests(s)
    BY <1>1 DEF Requests
  <2>2. t \in Threads /\ t # None
    BY <2>1, RequestsAreThreads
  <2>3. ASSUME t = Request(target) PROVE FALSE
    <3>1. target \in Session /\ t = currently_handling[target]
      BY <2>2, <2>3 DEF Request
    <3>2. t \in Requests(target)
      BY <2>2, <3>1 DEF Requests
    <3>3. target = s
      BY <2>1, <3>1, <3>2 DEF RequestInv, OneSession
    <3>4. Handled(target)[s] = None
      BY <3>1, <3>3 DEF Handled, SessionTypes, Parameters
    <3>5. t \notin Range(pending_requesting_threads[s])
      BY <3>1, <3>3 DEF RequestInv, PendingOnce
    <3> QED
      BY <3>4, <3>5
  <2> QED
    BY <2>1, <2>2, <2>3
<1>3. ASSUME NEW t \in Range(pending_requesting_threads[s]) \cup ({Handled(target)[s]} \ {None})
      PROVE  Resumed(Request(target))[t] \in Unanswered
  <2>1. Resumed(Request(target))[t] = status[t]
    BY <1>2, ResumedStatus
  <2> QED
    BY <1>2, <2>1 DEF RequestInv, RequestersWait
<1> QED
  BY <1>1, <1>2, <1>3

\* The thread that is answered had no wait objects.
LEMMA AnsweredNotWaiting ==
  ASSUME Parameters, SessionTypes, RequestInv, NEW target \in Session \cup {None},
         NEW x \in Threads, wait_objects[x] # <<>>
  PROVE  Resumed(Request(target))[x] = "WaitSynchAny"
PROOF
<1>1. status[x] = "WaitSynchAny"
  BY DEF RequestInv, WaitersAsleep
<1>2. ASSUME x = Request(target) PROVE FALSE
  <2>1. x # None
    BY DEF Parameters
  <2>2. target \in Session /\ x = currently_handling[target]
    BY <1>2, <2>1 DEF Request
  <2>3. x \in Requests(target)
    BY <2>1, <2>2 DEF Requests
  <2> QED
    BY <1>1, <2>2, <2>3 DEF RequestInv, RequestersWait, Unanswered
<1> QED
  BY <1>1, <1>2, ResumedStatus

\* A request is pushed, or handed to a thread that waits for it.
LEMMA SendSyncRequestOnce ==
  ASSUME Parameters, SessionTypes, RequestInv, NEW t \in Client, NEW s \in Session,
         SendSyncRequest(t, s)
  PROVE  RequestInv'
PROOF
<1>1. t \in Threads /\ t # None /\ status[t] = "Running"
  BY DEF SendSyncRequest, Threads, Parameters
<1>2. \A r \in Session : t \notin Requests(r)
  BY <1>1 DEF RequestInv, RequestersWait, Unanswered
<1>3. wait_objects[t] = <<>>
  BY <1>1 DEF RequestInv, WaitersAsleep
<1>4. \A r \in Session : Requests(r) \subseteq Threads
  BY RequestsAreThreads
<1>5. CASE /\ status' = [status EXCEPT ![t] = "WaitIPC"]
           /\ pending_requesting_threads' =
                [pending_requesting_threads EXCEPT ![s] = Append(@, t)]
           /\ UNCHANGED <<wait_objects, currently_handling>>
  <2>1. WaitersAsleep'
    BY <1>1, <1>3, <1>5 DEF RequestInv, WaitersAsleep, SessionTypes
  <2>2. \A x \in Threads : status[x] \in Unanswered => status'[x] \in Unanswered
    BY <1>5 DEF SessionTypes, Unanswered
  <2>3. status'[t] \in Unanswered
    BY <1>1, <1>5 DEF SessionTypes, Unanswered
  <2>4. pending_requesting_threads[s] \in Seq(Threads)
        /\ t \notin Range(pending_requesting_threads[s])
    BY <1>2 DEF SessionTypes, Requests
  <2>5. ASSUME NEW r \in Session
        PROVE  /\ IsInjective(pending_requesting_threads'[r])
               /\ currently_handling'[r] \notin Range(pending_requesting_threads'[r])
               /\ Requests(r)' \subseteq Requests(r) \cup (IF r = s THEN {t} ELSE {})
    <3>1. CASE r # s
      BY <1>5, <3>1 DEF SessionTypes, RequestInv, PendingOnce, Requests
    <3>2. CASE r = s
      <4>1. pending_requesting_threads'[s] = Append(pending_requesting_threads[s], t)
        BY <1>5 DEF SessionTypes
      <4>2. /\ Range(pending_requesting_threads'[s])
                 = Range(pending_requesting_threads[s]) \cup {t}
            /\ IsInjective(pending_requesting_threads'[s])
        BY <1>1, <2>4, <4>1, AppendOne DEF RequestInv, PendingOnce
      <4>3. currently_handling'[s] = currently_handling[s] /\ currently_handling[s] # t
        BY <1>1, <1>2, <1>5 DEF Requests
      <4> QED
        BY <3>2, <4>2, <4>3 DEF RequestInv, PendingOnce, Requests
    <3> QED
      BY <3>1, <3>2
  <2>6. ASSUME NEW r \in Session, NEW x \in Requests(r)' PROVE status'[x] \in Unanswered
    <3>1. x = t \/ x \in Requests(r)
      BY <2>5
    <3> QED
      BY <1>4, <2>2, <2>3, <3>1 DEF RequestInv, RequestersWait
  <2>7. (RequestersWait /\ PendingOnce /\ OneSession)'
    BY <1>2, <2>5, <2>6, RequestStep
  <2> QED
    BY <2>1, <2>7 DEF RequestInv
<1>6. ASSUME NEW w \in Waiters(s), currently_handling[s] = None,
             status' = [status EXCEPT ![t] = "WaitIPC", ![w] = "Running"],
             wait_objects' = [wait_objects EXCEPT ![w] = <<>>],
             currently_handling' = [currently_handling EXCEPT ![s] = t],
             UNCHANGED pending_requesting_threads
      PROVE  RequestInv'
  <2>1. w \in Threads /\ wait_objects[w] # <<>>
    BY DEF Waiters, Range
  <2>2. status[w] = "WaitSynchAny" /\ w # t
    BY <1>1, <2>1 DEF RequestInv, WaitersAsleep
  <2>3. WaitersAsleep'
    BY <1>1, <1>3, <1>6, <2>1, <2>2 DEF RequestInv, WaitersAsleep, SessionTypes
  <2>4. \A x \in Threads : status[x] \in Unanswered => status'[x] \in Unanswered
    BY <1>6, <2>2 DEF SessionTypes, Unanswered
  <2>5. status'[t] \in Unanswered
    BY <1>1, <1>6, <2>2 DEF SessionTypes, Unanswered
  <2>6. ASSUME NEW r \in Session
        PROVE  /\ IsInjective(pending_requesting_threads'[r])
               /\ currently_handling'[r] \notin Range(pending_requesting_threads'[r])
               /\ Requests(r)' \subseteq Requests(r) \cup (IF r = s THEN {t} ELSE {})
    <3>1. t \notin Range(pending_requesting_threads[s])
      BY <1>2 DEF Requests
    <3> QED
      BY <1>6, <3>1 DEF SessionTypes, RequestInv, PendingOnce, Requests
  <2>7. ASSUME NEW r \in Session, NEW x \in Requests(r)' PROVE status'[x] \in Unanswered
    <3>1. x = t \/ x \in Requests(r)
      BY <2>6
    <3> QED
      BY <1>4, <2>4, <2>5, <3>1 DEF RequestInv, RequestersWait
  <2>8. (RequestersWait /\ PendingOnce /\ OneSession)'
    BY <1>2, <2>6, <2>7, RequestStep
  <2> QED
    BY <2>3, <2>8 DEF RequestInv
<1> QED
  BY <1>5, <1>6 DEF SendSyncRequest

\* The reply and the request that is taken next: a set of requests only shrinks.
LEMMA ReplyAndReceiveOnce ==
  ASSUME Parameters, SessionTypes, RequestInv, NEW t \in Server, NEW objects \in HandleLists,
         NEW target \in Session \cup {None}, ReplyAndReceive(t, objects, target)
  PROVE  RequestInv'
PROOF
<1>1. t \in Threads /\ status[t] = "Running"
  BY DEF ReplyAndReceive, Threads
<1>2. \A s \in Session : t \notin Requests(s)
  BY <1>1 DEF RequestInv, RequestersWait, Unanswered
<1>3. \A s \in Session : None \notin Requests(s)
  BY RequestsAreThreads
<1>4. \A x \in Threads : x # t => status'[x] = Resumed(Request(target))[x]
  <2>1. Resumed(Request(target)) \in
          [Threads -> {"Running", "WaitIPC", "WaitHle", "WaitSynchAny", "Dead"}]
    BY ResumedStatus
  <2> QED
    BY <2>1, ReceiveCases
<1>5. WaitersAsleep'
  <2> SUFFICES ASSUME NEW x \in Threads, wait_objects'[x] # <<>>
               PROVE  status'[x] = "WaitSynchAny"
    BY DEF WaitersAsleep
  <2>1. CASE x # t
    <3>1. wait_objects'[x] = wait_objects[x]
      <4>1. UNCHANGED wait_objects \/ wait_objects' = [wait_objects EXCEPT ![t] = objects]
        BY ReceiveCases
      <4>2. DOMAIN wait_objects = Threads
        BY DEF SessionTypes
      <4> QED
        BY <2>1, <4>1, <4>2
    <3> QED
      BY <1>4, <2>1, <3>1, AnsweredNotWaiting
  <2>2. CASE x = t
    <3>1. wait_objects[t] = <<>>
      BY <1>1 DEF RequestInv, WaitersAsleep
    <3>2. status' = [Resumed(Request(target)) EXCEPT ![t] = "WaitSynchAny"]
      BY <2>2, <3>1, ReceiveCases
    <3>3. Resumed(Request(target)) \in
            [Threads -> {"Running", "WaitIPC", "WaitHle", "WaitSynchAny", "Dead"}]
      BY ResumedStatus
    <3> QED
      BY <1>1, <2>2, <3>2, <3>3
  <2> QED
    BY <2>1, <2>2
<1>6. ASSUME NEW s \in Session
      PROVE  /\ IsInjective(pending_requesting_threads'[s])
             /\ currently_handling'[s] \notin Range(pending_requesting_threads'[s])
             /\ Requests(s)' \subseteq
                  Range(pending_requesting_threads[s]) \cup ({Handled(target)[s]} \ {None})
  <2>1. /\ Handled(target) \in [Session -> Threads \cup {None}]
        /\ Handled(target)[s] = currently_handling[s] \/ Handled(target)[s] = None
    BY ReceiveCases, ReplyAnswers
  <2>2. /\ IsInjective(pending_requesting_threads[s])
        /\ currently_handling[s] \notin Range(pending_requesting_threads[s])
        /\ None \notin Range(pending_requesting_threads[s])
    BY <1>3 DEF RequestInv, PendingOnce, Requests
  <2>3. CASE currently_handling'[s] = Handled(target)[s]
             /\ pending_requesting_threads'[s] = pending_requesting_threads[s]
    BY <2>1, <2>2, <2>3 DEF Requests
  <2>4. ASSUME pending_requesting_threads[s] # <<>>,
               currently_handling'[s] = Last(pending_requesting_threads[s]),
               pending_requesting_threads'[s] = Front(pending_requesting_threads[s])
        PROVE  /\ IsInjective(pending_requesting_threads'[s])
               /\ currently_handling'[s] \notin Range(pending_requesting_threads'[s])
               /\ Requests(s)' \subseteq
                    Range(pending_requesting_threads[s]) \cup ({Handled(target)[s]} \ {None})
    <3>1. pending_requesting_threads[s] \in Seq(Threads)
      BY DEF SessionTypes
    <3>2. LET q == pending_requesting_threads[s]
          IN  /\ Range(Front(q)) \subseteq Range(q) /\ Last(q) \in Range(q)
              /\ IsInjective(Front(q)) /\ Last(q) \notin Range(Front(q))
      BY <2>2, <2>4, <3>1, FrontOthers
    <3> QED
      BY <2>4, <3>2 DEF Requests
  <2>5. ASSUME NEW f \in Session,
               pending_requesting_threads[f] # <<>>, Handled(target)[f] = None,
               currently_handling' =
                 [Handled(target) EXCEPT ![f] = Last(pending_requesting_threads[f])],
               pending_requesting_threads' =
                 [pending_requesting_threads EXCEPT ![f] = Front(@)]
        PROVE  /\ IsInjective(pending_requesting_threads'[s])
               /\ currently_handling'[s] \notin Range(pending_requesting_threads'[s])
               /\ Requests(s)' \subseteq
                    Range(pending_requesting_threads[s]) \cup ({Handled(target)[s]} \ {None})
    <3>1. CASE s = f
      BY <2>1, <2>4, <2>5, <3>1 DEF SessionTypes
    <3>2. CASE s # f
      BY <2>1, <2>3, <2>5, <3>2 DEF SessionTypes
    <3> QED
      BY <3>1, <3>2
  <2> QED
    BY <2>3, <2>5, ReceiveCases
<1>7. ASSUME NEW s \in Session
      PROVE  /\ Requests(s)' \subseteq Requests(s)
             /\ \A x \in Requests(s)' : status'[x] \in Unanswered
  <2>1. ASSUME NEW x \in Requests(s)' PROVE x \in Requests(s) /\ status'[x] \in Unanswered
    <3>1. x \in Range(pending_requesting_threads[s]) \cup ({Handled(target)[s]} \ {None})
      BY <1>6, <2>1
    <3>2. x \in Threads /\ x \in Requests(s) /\ Resumed(Request(target))[x] \in Unanswered
      BY <3>1, ReplyAnswers
    <3> QED
      BY <1>2, <1>4, <3>2
  <2> QED
    BY <2>1
<1>8. (RequestersWait /\ PendingOnce /\ OneSession)'
  BY <1>3, <1>6, <1>7, RequestStep
<1> QED
  BY <1>5, <1>8 DEF RequestInv

\* Every step keeps every request in one place.
LEMMA RequestInvNext ==
  ASSUME Parameters, SessionTypes, RequestInv, [Next]_vars
  PROVE  RequestInv'
PROOF
<1>1. ASSUME NEW s \in Session, NEW p \in PortName, NEW ok \in BOOLEAN, Connect(s, p, ok)
      PROVE  RequestInv'
  <2>1. WakeUp(Waiters(Port)) \/ WakeUp({})
    BY <1>1 DEF Connect, WakePort
  <2>2. UNCHANGED <<pending_requesting_threads, currently_handling>>
    BY <1>1 DEF Connect
  <2> QED
    BY <2>1, <2>2, WakeUpAsleep, RequestsKept DEF RequestInv
<1>2. ASSUME UNCHANGED <<status, wait_objects, pending_requesting_threads, currently_handling>>
      PROVE  RequestInv'
  <2>1. WaitersAsleep'
    BY <1>2 DEF RequestInv, WaitersAsleep
  <2> QED
    BY <1>2, <2>1, RequestsKept DEF RequestInv
<1>3. ASSUME NEW t \in Threads, UNCHANGED <<wait_objects, pending_requesting_threads, currently_handling>>,
             NEW st, status' = [status EXCEPT ![t] = st], status[t] \in {"Running", "WaitHle"}
      PROVE  RequestInv'
  <2>1. WaitersAsleep'
    BY <1>3 DEF RequestInv, WaitersAsleep, SessionTypes
  <2>2. \A x \in Threads : status[x] \in Unanswered => status'[x] \in Unanswered
    BY <1>3 DEF SessionTypes, Unanswered
  <2> QED
    BY <1>3, <2>1, <2>2, RequestsKept DEF RequestInv
<1>4. ASSUME NEW t \in Server, NEW s \in Session, Reply(t, s) PROVE RequestInv'
  <2>1. /\ currently_handling' = Handled(s) /\ status' = Resumed(Request(s))
        /\ UNCHANGED <<wait_objects, pending_requesting_threads>>
    BY <1>4 DEF Reply
  <2>2. WaitersAsleep'
    BY <2>1, AnsweredNotWaiting DEF WaitersAsleep
  <2>3. ASSUME NEW r \in Session
        PROVE  /\ IsInjective(pending_requesting_threads'[r])
               /\ currently_handling'[r] \notin Range(pending_requesting_threads'[r])
               /\ Requests(r)' \subseteq Requests(r)
               /\ \A x \in Requests(r)' : status'[x] \in Unanswered
    <3>1. None \notin Range(pending_requesting_threads[r])
      BY RequestsAreThreads DEF Requests
    <3>2. Handled(s)[r] = currently_handling[r] \/ Handled(s)[r] = None
      BY ReplyAnswers
    <3>3. Requests(r)' = Range(pending_requesting_threads[r]) \cup ({Handled(s)[r]} \ {None})
      BY <2>1 DEF Requests
    <3>4. /\ Requests(r)' \subseteq Requests(r)
          /\ \A x \in Requests(r)' : status'[x] \in Unanswered
      BY <2>1, <3>3, ReplyAnswers
    <3> QED
      BY <2>1, <3>1, <3>2, <3>4 DEF RequestInv, PendingOnce
  <2>4. \A r \in Session : None \notin Requests(r)
    BY RequestsAreThreads
  <2>5. (RequestersWait /\ PendingOnce /\ OneSession)'
    BY <2>3, <2>4, RequestStep
  <2> QED
    BY <2>2, <2>5 DEF RequestInv
<1>5. ASSUME NEW s \in Session, CloseClient(s) PROVE RequestInv'
  <2>1. /\ pending_requesting_threads' = [pending_requesting_threads EXCEPT ![s] = <<>>]
        /\ currently_handling' = [currently_handling EXCEPT ![s] = None]
        /\ WakeUp(Waiters(s))
    BY <1>5 DEF CloseClient
  <2>2. /\ \A t \in Threads : status[t] \in Unanswered => status'[t] \in Unanswered
        /\ WaitersAsleep'
    BY <2>1, WakeUpAsleep
  <2>3. ASSUME NEW r \in Session
        PROVE  /\ IsInjective(pending_requesting_threads'[r])
               /\ currently_handling'[r] \notin Range(pending_requesting_threads'[r])
               /\ Requests(r)' \subseteq Requests(r)
    <3>1. CASE r # s
      BY <2>1, <3>1 DEF SessionTypes, RequestInv, PendingOnce, Requests
    <3>2. CASE r = s
      <4>1. pending_requesting_threads'[s] = <<>> /\ currently_handling'[s] = None
        BY <2>1 DEF SessionTypes
      <4>2. IsInjective(<<>>) /\ Range(<<>>) = {}
        BY DEF IsInjective, Range
      <4> QED
        BY <3>2, <4>1, <4>2 DEF Requests
    <3> QED
      BY <3>1, <3>2
  <2>4. \A r \in Session : None \notin Requests(r) /\ Requests(r) \subseteq Threads
    BY RequestsAreThreads
  <2>5. ASSUME NEW r \in Session, NEW x \in Requests(r)' PROVE status'[x] \in Unanswered
    BY <2>2, <2>3, <2>4 DEF RequestInv, RequestersWait
  <2>6. (RequestersWait /\ PendingOnce /\ OneSession)'
    BY <2>3, <2>4, <2>5, RequestStep
  <2> QED
    BY <2>2, <2>6 DEF RequestInv
<1>6. ASSUME NEW t \in MayStop, Stop(t) PROVE RequestInv'
  <2>1. /\ status' = [status EXCEPT ![t] = "Dead"]
        /\ wait_objects' = [wait_objects EXCEPT ![t] = <<>>]
        /\ UNCHANGED <<pending_requesting_threads, currently_handling>>
    BY <1>6 DEF Stop, requestVars
  <2>2. WaitersAsleep'
    BY <2>1 DEF RequestInv, WaitersAsleep, SessionTypes
  <2>3. \A x \in Threads : status[x] \in Unanswered => status'[x] \in Unanswered
    BY <2>1 DEF SessionTypes, Unanswered
  <2> QED
    BY <2>1, <2>2, <2>3, RequestsKept DEF RequestInv
<1>7. Opening => RequestInv'
  BY <1>1, <1>2 DEF Opening, CreateSession, AcceptSession, requestVars
<1>8. Requesting => RequestInv'
  <2>1. ASSUME NEW t \in Client, NEW s \in Session, SendSyncRequestHLE(t, s) PROVE RequestInv'
    BY <1>3, <2>1 DEF SendSyncRequestHLE, Threads, requestVars
  <2>2. ASSUME NEW t \in Client, WakeAfterDelay(t) PROVE RequestInv'
    BY <1>3, <2>2 DEF WakeAfterDelay, Threads, requestVars
  <2> QED
    BY <2>1, <2>2, SendSyncRequestOnce DEF Requesting
<1>9. Serving => RequestInv'
  BY <1>4, ReplyAndReceiveOnce DEF Serving
<1>10. Ending => RequestInv'
  <2>1. ASSUME NEW s \in Session, CloseServer(s) PROVE RequestInv'
    BY <1>2, <2>1 DEF CloseServer, requestVars
  <2> QED
    BY <1>5, <1>6, <2>1 DEF Ending
<1>11. UNCHANGED vars => RequestInv'
  BY <1>2 DEF vars
<1> QED
  BY <1>7, <1>8, <1>9, <1>10, <1>11 DEF Next

\* The initial state.
LEMMA SessionsInit ==
  ASSUME Parameters, Init
  PROVE  SessionTypes /\ RequestInv
PROOF
<1>1. SessionTypes
  <2>1. "unmade" \in Kind
    BY DEF Kind
  <2>2. ASSUME NEW T PROVE <<>> \in Seq(T)
    OBVIOUS
  <2>3. /\ wait_objects \in [Threads -> Seq(Session \cup {Port})]
        /\ pending_requesting_threads \in [Session -> Seq(Threads)]
        /\ pending_sessions \in Seq(Session)
    BY <2>2 DEF Init
  <2>4. kind \in [Session -> Kind] /\ active_sessions \in [PortName -> Int]
    BY <2>1 DEF Init
  <2>5. /\ client \in [Session -> BOOLEAN] /\ held \in [Session -> BOOLEAN]
        /\ dead_resumed \in BOOLEAN
    BY DEF Init
  <2>6. /\ status \in [Threads -> {"Running", "WaitIPC", "WaitHle", "WaitSynchAny", "Dead"}]
        /\ currently_handling \in [Session -> Threads \cup {None}]
    BY DEF Init
  <2> QED
    BY <2>3, <2>4, <2>5, <2>6 DEF SessionTypes
<1>2. \A s \in Session : Requests(s) = {} /\ IsInjective(pending_requesting_threads[s])
                         /\ Range(pending_requesting_threads[s]) = {}
  BY DEF Init, Requests, IsInjective, Range
<1> QED
  BY <1>1, <1>2 DEF Init, RequestInv, WaitersAsleep, RequestersWait, PendingOnce, OneSession

\* A request is in one list of one session while its thread sleeps
\* (RequestsOnce), whatever the numbers of clients, servers and sessions and
\* whoever closes handles or dies.
THEOREM RequestsOnceHolds ==
  ASSUME Parameters
  PROVE  Spec => []RequestsOnce
PROOF
<1>1. Init => SessionTypes /\ RequestInv
  BY SessionsInit
<1>2. SessionTypes /\ RequestInv /\ [Next]_vars => (SessionTypes /\ RequestInv)'
  BY TypesNext, RequestInvNext
<1>3. RequestInv => RequestsOnce
  BY DEF RequestInv, RequestersWait, PendingOnce, OneSession, RequestsOnce, Unanswered
<1> QED
  BY <1>1, <1>2, <1>3, PTL DEF Spec

-----------------------------------------------------------------------------
(***************************************************************************)
(* Connections.  A server end exists while it is referenced; a session that *)
(* was not made yet is not.                                                *)
(***************************************************************************)
Referenced(s) == held[s] \/ s \in Range(pending_sessions) \/ Waiters(s) # {}

UnmadeUnreferenced == \A s \in Session : kind[s] = "unmade" => ~ Referenced(s)

ServerEnds(p) == {s \in Session : kind[s] = p /\ HasServer(s)}

CountInv == UnmadeUnreferenced /\ ConnectionsCounted

\* ServerSession::~ServerSession counts down what is no longer referenced.
LEMMA EndsDestroyed ==
  ASSUME Parameters, CountInv, UNCHANGED kind,
         \A s \in Session : Referenced(s)' => Referenced(s)
  PROVE  /\ UnmadeUnreferenced'
         /\ ServerSessionDestructors => ConnectionsCounted'
PROOF
<1>1. UnmadeUnreferenced'
  BY DEF CountInv, UnmadeUnreferenced
<1>2. ASSUME ServerSessionDestructors, NEW p \in PortName
      PROVE  /\ active_sessions'[p] = Cardinality(ServerEnds(p)')
             /\ active_sessions'[p] <= MaxSessions
  <2>1. Destroyed(p) \subseteq ServerEnds(p) /\ ServerEnds(p) \subseteq Session
    BY DEF Destroyed, ServerEnds
  <2>2. ServerEnds(p)' = ServerEnds(p) \ Destroyed(p)
    BY DEF ServerEnds, Destroyed, HasServer, Referenced
  <2>3. /\ IsFiniteSet(ServerEnds(p)) /\ IsFiniteSet(Destroyed(p))
        /\ Cardinality(ServerEnds(p)) \in Nat /\ Cardinality(Destroyed(p)) \in Nat
    BY <2>1, FS_Subset, FS_CardinalityType DEF Parameters
  <2>4. ServerEnds(p) \cap Destroyed(p) = Destroyed(p)
    BY <2>1
  <2>5. Cardinality(ServerEnds(p) \ Destroyed(p))
          = Cardinality(ServerEnds(p)) - Cardinality(Destroyed(p))
    BY <2>3, <2>4, FS_Difference
  <2>6. active_sessions[p] = Cardinality(ServerEnds(p)) /\ active_sessions[p] <= MaxSessions
    BY DEF CountInv, ConnectionsCounted, ServerEnds
  <2>7. active_sessions'[p] = active_sessions[p] - Cardinality(Destroyed(p))
    BY <1>2 DEF ServerSessionDestructors
  <2> QED
    BY <2>2, <2>3, <2>5, <2>6, <2>7 DEF Parameters
<1>3. ASSUME ServerSessionDestructors PROVE ConnectionsCounted'
  BY <1>2, <1>3 DEF ConnectionsCounted, ServerEnds
<1> QED
  BY <1>1, <1>3

\* Nothing is counted when the server ends of the ports stay as they are.
LEMMA EndsKept ==
  ASSUME CountInv, UNCHANGED active_sessions,
         \A s \in Session, p \in PortName :
           kind'[s] = p /\ HasServer(s)' <=> kind[s] = p /\ HasServer(s)
  PROVE  ConnectionsCounted'
PROOF
<1>1. ASSUME NEW p \in PortName PROVE ServerEnds(p)' = ServerEnds(p)
  BY DEF ServerEnds
<1> QED
  BY <1>1 DEF CountInv, ConnectionsCounted, ServerEnds

\* Connect counts the new session, and those that a woken thread let go of.
LEMMA ConnectCounts ==
  ASSUME Parameters, SessionTypes, CountInv, NEW s \in Session, NEW p \in PortName,
         NEW ok \in BOOLEAN, Connect(s, p, ok)
  PROVE  CountInv'
PROOF
<1>1. kind[s] = "unmade" /\ ~ Referenced(s)
  BY DEF Connect, CountInv, UnmadeUnreferenced
<1>2. \A r \in Session : Waiters(r)' \subseteq Waiters(r)
  <2>1. PICK S : WakeUp(S)
    BY DEF Connect, WakePort
  <2>2. \A t \in Threads : Range(wait_objects'[t]) \subseteq Range(wait_objects[t])
    BY <2>1 DEF WakeUp, Range
  <2> QED
    BY <2>2 DEF Waiters
<1>3. \A r \in Session : r \in Range(pending_sessions')
        <=> r \in Range(pending_sessions) \/ (r = s /\ p = "lle")
  <2>1. Range(Append(pending_sessions, s)) = Range(pending_sessions) \cup {s}
    BY AppendOne DEF SessionTypes
  <2>2. pending_sessions' = IF p = "lle" THEN Append(pending_sessions, s) ELSE pending_sessions
    BY DEF Connect
  <2> QED
    BY <2>1, <2>2
<1>4. \A r \in Session : r # s => held'[r] = held[r] /\ kind'[r] = kind[r]
  BY DEF Connect, SessionTypes
<1>5. kind'[s] = p /\ held'[s] = (p = "hle" /\ ok)
  BY DEF Connect, SessionTypes
<1>6. ASSUME NEW r \in Session, r # s PROVE Referenced(r)' => Referenced(r)
  BY <1>2, <1>3, <1>4, <1>6 DEF Referenced
<1>7. Referenced(s)' <=> (p = "hle" => ok)
  BY <1>1, <1>2, <1>3, <1>5 DEF Referenced, PortName
<1>8. UnmadeUnreferenced'
  <2>1. p # "unmade"
    BY DEF PortName
  <2> QED
    BY <1>4, <1>5, <1>6, <2>1 DEF CountInv, UnmadeUnreferenced
<1>9. ASSUME NEW q \in PortName
      PROVE  /\ active_sessions'[q] = Cardinality(ServerEnds(q)')
             /\ active_sessions'[q] <= MaxSessions
  <2>1. Destroyed(q) \subseteq ServerEnds(q) /\ ServerEnds(q) \subseteq Session
        /\ s \notin ServerEnds(q)
    BY <1>1 DEF Destroyed, ServerEnds, HasServer
  <2>2. /\ IsFiniteSet(ServerEnds(q)) /\ IsFiniteSet(Destroyed(q))
        /\ Cardinality(ServerEnds(q)) \in Nat /\ Cardinality(Destroyed(q)) \in Nat
    BY <2>1, FS_Subset, FS_CardinalityType DEF Parameters
  <2>3. ServerEnds(q) \cap Destroyed(q) = Destroyed(q)
    BY <2>1
  <2> DEFINE rest == ServerEnds(q) \ Destroyed(q)
  <2>4. Cardinality(rest) = Cardinality(ServerEnds(q)) - Cardinality(Destroyed(q))
        /\ IsFiniteSet(rest)
    BY <2>2, <2>3, FS_Difference
  <2>5. active_sessions[q] = Cardinality(ServerEnds(q)) /\ active_sessions[q] <= MaxSessions
    BY DEF CountInv, ConnectionsCounted, ServerEnds
  <2>6. active_sessions'[q] = active_sessions[q] - Cardinality(Destroyed(q))
                                + (IF q = p /\ (p = "hle" => ok) THEN 1 ELSE 0)
    BY DEF Connect
  <2>7. \A r \in Session : r # s => (HasServer(r)' => HasServer(r))
    BY <1>4, <1>6 DEF HasServer, Referenced
  <2>8. \A r \in Session : r # s => (r \in ServerEnds(q)' <=> r \in rest)
    BY <1>4, <2>7 DEF ServerEnds, Destroyed
  <2>9. s \in ServerEnds(q)' <=> q = p /\ (p = "hle" => ok)
    <3>1. HasServer(s)' <=> (p = "hle" => ok)
      <4>1. p # "unmade"
        BY DEF PortName
      <4> QED
        BY <1>5, <1>7, <4>1 DEF HasServer, Referenced
    <3> QED
      BY <1>5, <3>1 DEF ServerEnds
  <2>10. s \notin rest
    BY <2>1
  <2>11. ServerEnds(q)' \subseteq Session /\ rest \subseteq Session
    BY <2>1 DEF ServerEnds
  <2> HIDE DEF rest
  <2>12. CASE q = p /\ (p = "hle" => ok)
    <3>1. ServerEnds(q)' = rest \cup {s}
      BY <2>8, <2>9, <2>11, <2>12
    <3>2. Cardinality(rest \cup {s}) = Cardinality(rest) + 1
      BY <2>4, <2>10, FS_AddElement
    <3>3. active_sessions[q] < MaxSessions
      BY <2>12 DEF Connect
    <3> QED
      BY <2>2, <2>4, <2>5, <2>6, <2>12, <3>1, <3>2, <3>3 DEF Parameters
  <2>13. CASE ~ (q = p /\ (p = "hle" => ok))
    <3>1. ServerEnds(q)' = rest
      BY <2>8, <2>9, <2>10, <2>11, <2>13
    <3> QED
      BY <2>2, <2>4, <2>5, <2>6, <2>13, <3>1 DEF Parameters
  <2> QED
    BY <2>12, <2>13
<1>10. ConnectionsCounted'
  BY <1>9 DEF ConnectionsCounted, ServerEnds
<1> QED
  BY <1>8, <1>10 DEF CountInv

\* Every step keeps the counts exact.
LEMMA CountInvNext ==
  ASSUME Parameters, SessionTypes, RequestInv, CountInv, [Next]_vars
  PROVE  CountInv'
PROOF
<1>1. ASSUME UNCHANGED kind, ServerSessionDestructors,
             \A s \in Session : Referenced(s)' => Referenced(s)
      PROVE  CountInv'
  BY <1>1, EndsDestroyed DEF CountInv
<1>2. ASSUME UNCHANGED <<kind, active_sessions>>,
             \A s \in Session : Referenced(s)' <=> Referenced(s)
      PROVE  CountInv'
  <2>1. UnmadeUnreferenced'
    BY <1>2 DEF CountInv, UnmadeUnreferenced
  <2>2. \A s \in Session : HasServer(s)' <=> HasServer(s)
    BY <1>2 DEF HasServer, Referenced
  <2> QED
    BY <1>2, <2>1, <2>2, EndsKept DEF CountInv
<1>3. ASSUME UNCHANGED <<wait_objects, kind, active_sessions, held, pending_sessions>>
      PROVE  CountInv'
  BY <1>2, <1>3 DEF Referenced, Waiters
<1>4. ASSUME NEW t \in Threads, wait_objects' = [wait_objects EXCEPT ![t] = <<>>]
      PROVE  \A s \in Session : Waiters(s)' \subseteq Waiters(s)
  BY <1>4 DEF Waiters, SessionTypes, Range
<1>5. ASSUME NEW s \in Session, NEW ok \in BOOLEAN, CreateSession(s, ok) PROVE CountInv'
  <2>1. \A r \in Session : r # s => kind'[r] = kind[r] /\ held'[r] = held[r]
    BY <1>5 DEF CreateSession, SessionTypes
  <2>2. kind[s] = "unmade" /\ kind'[s] = "bare"
    BY <1>5 DEF CreateSession, SessionTypes
  <2>3. UNCHANGED <<wait_objects, pending_sessions, active_sessions>>
    BY <1>5 DEF CreateSession
  <2>4. \A r \in Session : r # s => (Referenced(r)' <=> Referenced(r))
    BY <2>1, <2>3 DEF Referenced, Waiters
  <2>5. UnmadeUnreferenced'
    BY <2>1, <2>2, <2>4 DEF CountInv, UnmadeUnreferenced
  <2>6. \A r \in Session, p \in PortName :
          kind'[r] = p /\ HasServer(r)' <=> kind[r] = p /\ HasServer(r)
    BY <2>1, <2>2, <2>4 DEF HasServer, Referenced, PortName
  <2> QED
    BY <2>3, <2>5, <2>6, EndsKept DEF CountInv
<1>6. ASSUME NEW ok \in BOOLEAN, AcceptSession(ok) PROVE CountInv'
  <2>1. /\ pending_sessions \in Seq(Session) /\ pending_sessions # <<>>
        /\ UNCHANGED <<wait_objects, kind>> /\ ServerSessionDestructors
        /\ pending_sessions' = Front(pending_sessions)
        /\ held' = [held EXCEPT ![Last(pending_sessions)] = ok]
    BY <1>6 DEF AcceptSession, SessionTypes
  <2>2. /\ Range(Front(pending_sessions)) \subseteq Range(pending_sessions)
        /\ Last(pending_sessions) \in Range(pending_sessions)
    BY <2>1, FrontOthers
  <2>3. \A s \in Session : Referenced(s)' => Referenced(s)
    BY <2>1, <2>2 DEF Referenced, Waiters, SessionTypes
  <2> QED
    BY <1>1, <2>1, <2>3
<1>7. ASSUME NEW t \in Client, NEW s \in Session, SendSyncRequest(t, s) PROVE CountInv'
  <2>1. \A w \in Waiters(s) : w \in Threads
    BY DEF Waiters
  <2>2. \A r \in Session : Waiters(r)' \subseteq Waiters(r)
    <3>1. CASE UNCHANGED wait_objects
      BY <3>1 DEF Waiters
    <3>2. CASE \E w \in Threads : wait_objects' = [wait_objects EXCEPT ![w] = <<>>]
      BY <1>4, <3>2
    <3> QED
      BY <1>7, <2>1, <3>1, <3>2 DEF SendSyncRequest
  <2>3. UNCHANGED <<kind, held, pending_sessions>> /\ ServerSessionDestructors
    BY <1>7 DEF SendSyncRequest
  <2> QED
    BY <1>1, <2>2, <2>3 DEF Referenced
<1>8. ASSUME NEW t \in Server, NEW objects \in HandleLists, NEW target \in Session \cup {None},
             ReplyAndReceive(t, objects, target)
      PROVE  CountInv'
  <2>1. /\ t \in Threads /\ status[t] = "Running" /\ UNCHANGED sessionVars
        /\ \A o \in Range(objects) \ {Port} : held[o]
    BY <1>8 DEF ReplyAndReceive, Threads
  <2>2. wait_objects[t] = <<>>
    BY <2>1 DEF RequestInv, WaitersAsleep
  <2>3. UNCHANGED wait_objects \/ wait_objects' = [wait_objects EXCEPT ![t] = objects]
    BY <1>8, ReceiveCases
  <2>4. DOMAIN wait_objects = Threads
    BY DEF SessionTypes
  <2>5. ASSUME NEW s \in Session PROVE Referenced(s)' <=> Referenced(s)
    <3>1. s # Port
      BY DEF Parameters
    <3>2. \A x \in Threads : x # t => wait_objects'[x] = wait_objects[x]
      BY <2>3, <2>4
    <3>3. t \notin Waiters(s)
      BY <2>2 DEF Waiters, Range
    <3>4. t \in Waiters(s)' => held[s]
      <4>1. t \in Waiters(s)' => s \in Range(wait_objects'[t])
        BY DEF Waiters
      <4>2. wait_objects'[t] = wait_objects[t] \/ wait_objects'[t] = objects
        BY <2>1, <2>3, <2>4
      <4>3. s \notin Range(wait_objects[t])
        BY <2>1, <3>3 DEF Waiters
      <4> QED
        BY <2>1, <3>1, <4>1, <4>2, <4>3
    <3>5. \A x \in Threads : x # t => (x \in Waiters(s)' <=> x \in Waiters(s))
      BY <3>2 DEF Waiters
    <3>6. held' = held /\ pending_sessions' = pending_sessions
      BY <2>1 DEF sessionVars
    <3>7. Waiters(s) \subseteq Threads /\ Waiters(s)' \subseteq Threads
      BY DEF Waiters
    <3> QED
      BY <3>3, <3>4, <3>5, <3>6, <3>7 DEF Referenced
  <2> QED
    BY <1>2, <2>1, <2>5 DEF sessionVars
<1>9. ASSUME NEW s \in Session, CloseClient(s) PROVE CountInv'
  <2>1. /\ held' = [held EXCEPT ![s] = @ /\ kind[s] # "hle"] /\ WakeUp(Waiters(s))
        /\ UNCHANGED <<kind, pending_sessions>> /\ ServerSessionDestructors
    BY <1>9 DEF CloseClient
  <2>2. \A r \in Session : held'[r] => held[r]
    BY <2>1 DEF SessionTypes
  <2>3. \A r \in Session : Waiters(r)' \subseteq Waiters(r)
    BY <2>1 DEF WakeUp, Waiters, Range
  <2> QED
    BY <1>1, <2>1, <2>2, <2>3 DEF Referenced
<1>10. ASSUME NEW s \in Session, CloseServer(s) PROVE CountInv'
  <2>1. \A r \in Session : held'[r] => held[r]
    BY <1>10 DEF CloseServer, SessionTypes
  <2> QED
    BY <1>1, <1>10, <2>1 DEF CloseServer, Referenced, Waiters
<1>11. ASSUME NEW t \in MayStop, Stop(t) PROVE CountInv'
  <2>1. \A r \in Session : Waiters(r)' \subseteq Waiters(r)
    BY <1>4, <1>11 DEF Stop, Parameters
  <2> QED
    BY <1>1, <1>11, <2>1 DEF Stop, Referenced
<1>12. Opening => CountInv'
  BY <1>5, <1>6, ConnectCounts DEF Opening
<1>13. Requesting => CountInv'
  <2>1. ASSUME NEW t \in Client, NEW s \in Session, SendSyncRequestHLE(t, s) PROVE CountInv'
    BY <1>3, <2>1 DEF SendSyncRequestHLE, sessionVars
  <2>2. ASSUME NEW t \in Client, WakeAfterDelay(t) PROVE CountInv'
    BY <1>3, <2>2 DEF WakeAfterDelay, sessionVars
  <2> QED
    BY <1>7, <2>1, <2>2 DEF Requesting
<1>14. Serving => CountInv'
  <2>1. ASSUME NEW t \in Server, NEW s \in Session, Reply(t, s) PROVE CountInv'
    BY <1>3, <2>1 DEF Reply, sessionVars
  <2> QED
    BY <1>8, <2>1 DEF Serving
<1>15. Ending => CountInv'
  BY <1>9, <1>10, <1>11 DEF Ending
<1>16. UNCHANGED vars => CountInv'
  BY <1>3 DEF vars
<1> QED
  BY <1>12, <1>13, <1>14, <1>15, <1>16 DEF Next

\* Nothing is referenced initially.
LEMMA CountInit ==
  ASSUME Parameters, Init
  PROVE  CountInv
PROOF
<1>1. ASSUME NEW s \in Session PROVE ~ Referenced(s)
  <2>1. Range(<<>>) = {}
    BY DEF Range
  <2> QED
    BY <2>1 DEF Init, Referenced, Waiters
<1>2. ASSUME NEW p \in PortName PROVE ServerEnds(p) = {} /\ active_sessions[p] = 0
  BY <1>1 DEF Init, ServerEnds, HasServer, Referenced, PortName
<1>3. ConnectionsCounted
  <2>1. Cardinality({}) = 0 /\ 0 <= MaxSessions
    BY FS_EmptySet DEF Parameters
  <2>2. ASSUME NEW p \in PortName
        PROVE  active_sessions[p] = Cardinality(ServerEnds(p)) /\ active_sessions[p] <= MaxSessions
    BY <1>2, <2>1
  <2> QED
    BY <2>2 DEF ConnectionsCounted, ServerEnds
<1> QED
  BY <1>1, <1>3 DEF CountInv, UnmadeUnreferenced

\* The count that ClientPort::Connect tests is the number of server ends of the
\* port that exist, never more than its maximum (ConnectionsCounted), and with
\* it every state is well typed.
THEOREM ConnectionsCountedHolds ==
  ASSUME Parameters
  PROVE  Spec => [](ConnectionsCounted /\ TypeOK)
PROOF
<1> DEFINE Inv == SessionTypes /\ RequestInv /\ CountInv
<1>1. Init => Inv
  BY SessionsInit, CountInit
<1>2. Inv /\ [Next]_vars => Inv'
  BY TypesNext, RequestInvNext, CountInvNext
<1>3. Inv => ConnectionsCounted /\ TypeOK
  <2> SUFFICES ASSUME Inv PROVE active_sessions \in [PortName -> Nat]
    BY DEF CountInv, SessionTypes, TypeOK
  <2>1. ASSUME NEW p \in PortName PROVE active_sessions[p] \in Nat
    <3>1. ServerEnds(p) \subseteq Session
      BY DEF ServerEnds
    <3>2. Cardinality(ServerEnds(p)) \in Nat
      BY <3>1, FS_Subset, FS_CardinalityType DEF Parameters
    <3> QED
      BY <3>2 DEF CountInv, ConnectionsCounted, ServerEnds
  <2> QED
    BY <2>1 DEF SessionTypes
<1> QED
  BY <1>1, <1>2, <1>3, PTL DEF Spec

-----------------------------------------------------------------------------
(***************************************************************************)
(* Waits.  With one server thread nobody can make an object ready behind    *)
(* the back of a thread that waits for it: the changes that do so are its   *)
(* own, or wake it.                                                        *)
(***************************************************************************)
OnlyServersWait == \A t \in Threads : wait_objects[t] # <<>> => t \in Server

WaitInv == OnlyServersWait /\ NoMissedRequest

\* An object is not made ready by a step that leaves its session alone.
LEMMA StillWaits ==
  ASSUME NEW o \in Session, ShouldWait(o, currently_handling), Port \notin Session,
         client'[o] = client[o],
         pending_requesting_threads'[o] = pending_requesting_threads[o],
         currently_handling'[o] = currently_handling[o]
  PROVE  ShouldWait(o, currently_handling)'
PROOF
  BY DEF ShouldWait

\* Nobody waits for anything while the only server thread runs.
LEMMA NobodyWaits ==
  ASSUME RequestInv, OnlyServersWait, NEW v \in Threads, Server = {v}, status[v] # "WaitSynchAny"
  PROVE  /\ \A t \in Threads : wait_objects[t] = <<>>
         /\ \A o : Waiters(o) = {}
PROOF
<1>1. \A t \in Threads : wait_objects[t] = <<>>
  BY DEF RequestInv, WaitersAsleep, OnlyServersWait
<1> QED
  BY <1>1 DEF Waiters, Range

\* Every step keeps it so.
LEMMA WaitInvNext ==
  ASSUME Parameters, SessionTypes, RequestInv, CountInv, WaitInv, [Next]_vars,
         NEW v, Server = {v}
  PROVE  WaitInv'
PROOF
<1> DEFINE Waits(o) == Waiters(o) # {} => ShouldWait(o, currently_handling)
<1>1. v \in Threads
  BY DEF Threads
<1>2. \A o \in Session \cup {Port} : Waits(o)
  BY DEF WaitInv, NoMissedRequest
<1>3. ASSUME NEW S, WakeUp(S)
      PROVE  OnlyServersWait' /\ \A o : Waiters(o)' = Waiters(o) \ S
  <2>1. OnlyServersWait'
    BY <1>3 DEF WakeUp, OnlyServersWait, WaitInv
  <2>2. ASSUME NEW o PROVE Waiters(o)' = Waiters(o) \ S
    <3>1. Range(<<>>) = {}
      BY DEF Range
    <3> QED
      BY <1>3, <3>1 DEF WakeUp, Waiters
  <2> QED
    BY <2>1, <2>2
<1>4. ASSUME UNCHANGED <<wait_objects, client, pending_requesting_threads, currently_handling>>,
             pending_sessions = <<>> => pending_sessions' = <<>>
      PROVE  WaitInv'
  <2>1. OnlyServersWait'
    BY <1>4 DEF WaitInv, OnlyServersWait
  <2>2. ASSUME NEW o \in Session \cup {Port}, Waiters(o)' # {}
        PROVE  ShouldWait(o, currently_handling)'
    <3>1. ShouldWait(o, currently_handling)
      BY <1>2, <1>4, <2>2 DEF Waiters
    <3> QED
      BY <1>4, <3>1 DEF ShouldWait
  <2> QED
    BY <2>1, <2>2 DEF WaitInv, NoMissedRequest
<1>5. ASSUME NEW s \in Session, NEW p \in PortName, NEW ok \in BOOLEAN, Connect(s, p, ok)
      PROVE  WaitInv'
  <2>1. PICK S : WakeUp(S) /\ S = IF p = "lle" THEN Waiters(Port) ELSE {}
    BY <1>5 DEF Connect, WakePort
  <2>2. /\ client' = [client EXCEPT ![s] = ok]
        /\ UNCHANGED <<pending_requesting_threads, currently_handling>>
        /\ p # "lle" => UNCHANGED pending_sessions
    BY <1>5 DEF Connect
  <2>3. ASSUME NEW o \in Session \cup {Port}, Waiters(o)' # {}
        PROVE  ShouldWait(o, currently_handling)'
    <3>1. Waiters(o) # {} /\ ShouldWait(o, currently_handling)
      BY <1>2, <1>3, <2>1, <2>3
    <3>2. CASE o = Port
      <4>1. p # "lle"
        BY <1>3, <2>1, <2>3, <3>2
      <4> QED
        BY <2>2, <3>1, <3>2, <4>1 DEF ShouldWait
    <3>3. CASE o \in Session
      <4>1. ~ Referenced(s)
        BY <1>5 DEF Connect, CountInv, UnmadeUnreferenced
      <4>2. o # s
        BY <3>1, <4>1 DEF Referenced
      <4> QED
        BY <2>2, <3>1, <3>3, <4>2, StillWaits DEF SessionTypes, Parameters
    <3> QED
      BY <3>2, <3>3
  <2> QED
    BY <1>3, <2>1, <2>3 DEF WaitInv, NoMissedRequest
<1>6. ASSUME NEW s \in Session, NEW ok \in BOOLEAN, CreateSession(s, ok) PROVE WaitInv'
  <2>1. /\ client' = [client EXCEPT ![s] = ok]
        /\ UNCHANGED <<wait_objects, pending_sessions, pending_requesting_threads,
                       currently_handling>>
        /\ ~ Referenced(s)
    BY <1>6 DEF CreateSession, CountInv, UnmadeUnreferenced, requestVars
  <2>2. OnlyServersWait'
    BY <2>1 DEF WaitInv, OnlyServersWait
  <2>3. ASSUME NEW o \in Session \cup {Port}, Waiters(o)' # {}
        PROVE  ShouldWait(o, currently_handling)'
    <3>1. Waiters(o) # {} /\ ShouldWait(o, currently_handling)
      BY <1>2, <2>1, <2>3 DEF Waiters
    <3>2. CASE o = Port
      BY <2>1, <3>1, <3>2 DEF ShouldWait
    <3>3. CASE o \in Session
      <4>1. o # s
        BY <2>1, <3>1 DEF Referenced
      <4> QED
        BY <2>1, <3>1, <3>3, <4>1, StillWaits DEF SessionTypes, Parameters
    <3> QED
      BY <3>2, <3>3
  <2> QED
    BY <2>2, <2>3 DEF WaitInv, NoMissedRequest
<1>7. ASSUME NEW ok \in BOOLEAN, AcceptSession(ok) PROVE WaitInv'
  BY <1>4, <1>7 DEF AcceptSession, requestVars
<1>8. ASSUME NEW t \in Client, NEW s \in Session, SendSyncRequest(t, s) PROVE WaitInv'
  <2>1. UNCHANGED <<client, pending_sessions>> /\ s # Port
    BY <1>8 DEF SendSyncRequest, Parameters
  <2>2. CASE /\ Waiters(s) = {} \/ currently_handling[s] # None
             /\ pending_requesting_threads' =
                  [pending_requesting_threads EXCEPT ![s] = Append(@, t)]
             /\ UNCHANGED <<wait_objects, currently_handling>>
    <3>1. OnlyServersWait'
      BY <2>2 DEF WaitInv, OnlyServersWait
    <3>2. ASSUME NEW o \in Session \cup {Port}, Waiters(o)' # {}
          PROVE  ShouldWait(o, currently_handling)'
      <4>1. Waiters(o) # {} /\ ShouldWait(o, currently_handling)
        BY <1>2, <2>2, <3>2 DEF Waiters
      <4>2. CASE o = s
        BY <2>1, <2>2, <4>1, <4>2 DEF ShouldWait
      <4>3. CASE o # s
        BY <2>1, <2>2, <4>1, <4>3 DEF ShouldWait, SessionTypes
      <4> QED
        BY <4>2, <4>3
    <3> QED
      BY <3>1, <3>2 DEF WaitInv, NoMissedRequest
  <2>3. ASSUME NEW w \in Waiters(s), wait_objects' = [wait_objects EXCEPT ![w] = <<>>]
        PROVE  WaitInv'
    <3>1. w \in Threads /\ wait_objects[w] # <<>>
      BY DEF Waiters, Range
    <3>2. w = v
      BY <3>1 DEF WaitInv, OnlyServersWait
    <3>3. \A x \in Threads : wait_objects'[x] = <<>>
      BY <2>3, <3>1, <3>2 DEF WaitInv, OnlyServersWait, SessionTypes
    <3>4. \A o : Waiters(o)' = {}
      BY <3>3 DEF Waiters, Range
    <3> QED
      BY <3>3, <3>4 DEF WaitInv, OnlyServersWait, NoMissedRequest
  <2> QED
    BY <1>8, <2>2, <2>3 DEF SendSyncRequest
<1>9. ASSUME NEW t \in Server, NEW s \in Session, Reply(t, s) PROVE WaitInv'
  <2>1. t = v /\ status[v] = "Running" /\ UNCHANGED wait_objects
    BY <1>9 DEF Reply
  <2>2. \A x \in Threads : wait_objects'[x] = <<>>
    BY <1>1, <2>1, NobodyWaits DEF WaitInv
  <2>3. \A o : Waiters(o)' = {}
    BY <2>2 DEF Waiters, Range
  <2> QED
    BY <2>2, <2>3 DEF WaitInv, OnlyServersWait, NoMissedRequest
<1>10. ASSUME NEW t \in Server, NEW objects \in HandleLists, NEW target \in Session \cup {None},
              ReplyAndReceive(t, objects, target)
       PROVE  WaitInv'
  <2>1. t = v /\ status[v] = "Running" /\ UNCHANGED <<client, pending_sessions>>
    BY <1>10 DEF ReplyAndReceive, sessionVars
  <2>2. \A x \in Threads : wait_objects[x] = <<>>
    BY <1>1, <2>1, NobodyWaits DEF WaitInv
  <2>3. DOMAIN wait_objects = Threads
    BY DEF SessionTypes
  <2>4. CASE UNCHANGED wait_objects
    <3>1. \A o : Waiters(o)' = {}
      BY <2>2, <2>4 DEF Waiters, Range
    <3> QED
      BY <2>2, <2>4, <3>1 DEF WaitInv, OnlyServersWait, NoMissedRequest
  <2>5. ASSUME wait_objects' = [wait_objects EXCEPT ![t] = objects],
               currently_handling' = Handled(target),
               UNCHANGED pending_requesting_threads,
               \A i \in DOMAIN objects : ShouldWait(objects[i], Handled(target))
        PROVE  WaitInv'
    <3>1. \A x \in Threads : wait_objects'[x] # <<>> => x = t /\ wait_objects'[x] = objects
      BY <2>2, <2>3, <2>5
    <3>2. ASSUME NEW o \in Session \cup {Port}, Waiters(o)' # {}
          PROVE  ShouldWait(o, currently_handling)'
      <4>1. PICK x \in Threads : o \in Range(wait_objects'[x])
        BY <3>2 DEF Waiters
      <4>2. o \in Range(objects)
        BY <3>1, <4>1 DEF Range
      <4>3. ShouldWait(o, Handled(target))
        BY <2>5, <4>2 DEF Range
      <4> QED
        BY <2>1, <2>5, <4>3 DEF ShouldWait
    <3> QED
      BY <3>1, <3>2 DEF WaitInv, OnlyServersWait, NoMissedRequest
  <2> QED
    BY <1>10, <2>4, <2>5, ReceiveCases
<1>11. ASSUME NEW s \in Session, CloseClient(s) PROVE WaitInv'
  <2>1. /\ client' = [client EXCEPT ![s] = FALSE]
        /\ pending_requesting_threads' = [pending_requesting_threads EXCEPT ![s] = <<>>]
        /\ currently_handling' = [currently_handling EXCEPT ![s] = None]
        /\ WakeUp(Waiters(s)) /\ UNCHANGED pending_sessions
    BY <1>11 DEF CloseClient
  <2>2. ASSUME NEW o \in Session \cup {Port}, Waiters(o)' # {}
        PROVE  ShouldWait(o, currently_handling)'
    <3>1. Waiters(o) # {} /\ o # s /\ ShouldWait(o, currently_handling)
      BY <1>2, <1>3, <2>1, <2>2
    <3>2. CASE o = Port
      BY <2>1, <3>1, <3>2 DEF ShouldWait
    <3>3. CASE o \in Session
      BY <2>1, <3>1, <3>3, StillWaits DEF SessionTypes, Parameters
    <3> QED
      BY <3>2, <3>3
  <2> QED
    BY <1>3, <2>1, <2>2 DEF WaitInv, NoMissedRequest
<1>12. ASSUME NEW s \in Session, CloseServer(s) PROVE WaitInv'
  BY <1>4, <1>12 DEF CloseServer, requestVars
<1>13. ASSUME NEW t \in MayStop, Stop(t) PROVE WaitInv'
  <2>1. /\ wait_objects' = [wait_objects EXCEPT ![t] = <<>>]
        /\ UNCHANGED <<client, pending_requesting_threads, currently_handling, pending_sessions>>
    BY <1>13 DEF Stop, requestVars
  <2>2. \A x \in Threads : wait_objects'[x] = wait_objects[x] \/ wait_objects'[x] = <<>>
    BY <2>1 DEF SessionTypes
  <2>3. OnlyServersWait'
    BY <2>2 DEF WaitInv, OnlyServersWait
  <2>4. ASSUME NEW o \in Session \cup {Port}, Waiters(o)' # {}
        PROVE  ShouldWait(o, currently_handling)'
    <3>1. Waiters(o) # {}
      BY <2>2, <2>4 DEF Waiters, Range
    <3>2. ShouldWait(o, currently_handling)
      BY <1>2, <3>1
    <3> QED
      BY <2>1, <3>2 DEF ShouldWait
  <2> QED
    BY <2>3, <2>4 DEF WaitInv, NoMissedRequest
<1>14. Opening => WaitInv'
  BY <1>5, <1>6, <1>7 DEF Opening
<1>15. Requesting => WaitInv'
  <2>1. ASSUME NEW t \in Client, NEW s \in Session, SendSyncRequestHLE(t, s) PROVE WaitInv'
    BY <1>4, <2>1 DEF SendSyncRequestHLE, sessionVars, requestVars
  <2>2. ASSUME NEW t \in Client, WakeAfterDelay(t) PROVE WaitInv'
    BY <1>4, <2>2 DEF WakeAfterDelay, sessionVars, requestVars
  <2> QED
    BY <1>8, <2>1, <2>2 DEF Requesting
<1>16. Serving => WaitInv'
  BY <1>9, <1>10 DEF Serving
<1>17. Ending => WaitInv'
  BY <1>11, <1>12, <1>13 DEF Ending
<1>18. UNCHANGED vars => WaitInv'
  BY <1>4 DEF vars
<1> QED
  BY <1>14, <1>15, <1>16, <1>17, <1>18 DEF Next

\* A server thread that serves alone never sleeps while one of its objects is
\* ready (NoMissedRequest): for any number of clients, sessions and handles.
\* With two server threads it may, as the README's table says.
THEOREM NoMissedRequestHolds ==
  ASSUME Parameters, NEW v, Server = {v}
  PROVE  Spec => []NoMissedRequest
PROOF
<1> DEFINE Inv == SessionTypes /\ RequestInv /\ CountInv /\ WaitInv
<1>1. Init => Inv
  <2> SUFFICES ASSUME Init PROVE WaitInv
    BY SessionsInit, CountInit
  <2>1. \A t \in Threads : wait_objects[t] = <<>>
    BY DEF Init
  <2>2. \A o : Waiters(o) = {}
    BY <2>1 DEF Waiters, Range
  <2> QED
    BY <2>1, <2>2 DEF WaitInv, OnlyServersWait, NoMissedRequest
<1>2. Inv /\ [Next]_vars => Inv'
  BY TypesNext, RequestInvNext, CountInvNext, WaitInvNext
<1>3. Inv => NoMissedRequest
  BY DEF WaitInv
<1> QED
  BY <1>1, <1>2, <1>3, PTL DEF Spec

\* What a port promises (SessionsSound), for a single server thread and any
\* clients, sessions and handle lists.
THEOREM SessionsSoundHolds ==
  ASSUME Parameters, NEW v, Server = {v}
  PROVE  Spec => []SessionsSound
PROOF
<1>1. Spec => []RequestsOnce
  BY RequestsOnceHolds
<1>2. Spec => [](ConnectionsCounted /\ TypeOK)
  BY ConnectionsCountedHolds
<1>3. Spec => []NoMissedRequest
  BY NoMissedRequestHolds
<1> QED
  BY <1>1, <1>2, <1>3, PTL DEF SessionsSound
=============================================================================
