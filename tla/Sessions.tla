------------------------------ MODULE Sessions ------------------------------
(***************************************************************************)
(* Ports and sessions of the emulated kernel: client_port.cpp,             *)
(* server_port.cpp, client_session.cpp, server_session.cpp and the calls   *)
(* of svc.cpp on them.                                                     *)
(*                                                                         *)
(* A session has a client end, alive while its handle is, and a server     *)
(* end, alive while it is referenced by a handle (or by the HLE handler    *)
(* that serves it), by the port's list of pending sessions or by the wait  *)
(* of a thread.  A thread is "Running" when it may make a call.  Priorities *)
(* are left out: any of the threads that wait for an object may be the     *)
(* first to be woken.  Calls that return an error at once change nothing   *)
(* and are left out.                                                       *)
(***************************************************************************)
EXTENDS Integers, Sequences, FiniteSets, SequencesExt

CONSTANTS Client,       \* threads that make requests
          Server,       \* threads that serve them
          Session,      \* identifiers of sessions, each used once
          MaxSessions,  \* of one port
          Port,         \* the server port as a wait object
          HandleLists,  \* handle lists of ReplyAndReceive
          MayStop,      \* threads that may be stopped
          MayClose,     \* whether server handles may be closed
          None

VARIABLES status,            \* of each thread
          wait_objects,      \* of each thread, a sequence
          kind,              \* of each session: the port it belongs to
          client,            \* Session::client # nullptr
          held,              \* a handle or an HLE handler keeps the server end
          pending_requesting_threads,
          currently_handling,
          pending_sessions,  \* of the port
          active_sessions,   \* of each port
          dead_resumed       \* ResumeFromWait was called for a dead thread

vars == <<status, wait_objects, kind, client, held, pending_requesting_threads,
          currently_handling, pending_sessions, active_sessions, dead_resumed>>

sessionVars == <<kind, client, held, pending_sessions, active_sessions>>
requestVars == <<pending_requesting_threads, currently_handling, dead_resumed>>

Threads   == Client \cup Server
PortName == {"lle", "hle"}
Kind     == PortName \cup {"unmade", "bare"}

Waiters(o) == {t \in Threads : o \in Range(wait_objects[t])}

\* The server end exists: Session::server # nullptr.
HasServer(s) ==
  /\ kind[s] # "unmade"
  /\ held[s] \/ s \in Range(pending_sessions) \/ Waiters(s) # {}

Init ==
  /\ status = [t \in Threads |-> "Running"]
  /\ wait_objects = [t \in Threads |-> <<>>]
  /\ kind = [s \in Session |-> "unmade"]
  /\ client = [s \in Session |-> FALSE]
  /\ held = [s \in Session |-> FALSE]
  /\ pending_requesting_threads = [s \in Session |-> <<>>]
  /\ currently_handling = [s \in Session |-> None]
  /\ pending_sessions = <<>>
  /\ active_sessions = [p \in PortName |-> 0]
  /\ dead_resumed = FALSE

-----------------------------------------------------------------------------
KeepCount == UNCHANGED active_sessions   \* mutant

CountDownEveryPort ==   \* mutant
  active_sessions' = [p \in PortName |-> active_sessions[p]
    - Cardinality({s \in Session : HasServer(s) /\ ~ HasServer(s)'})]

\* The server ends of a port that lose their last reference in this step.
Destroyed(p) == {s \in Session : kind[s] = p /\ HasServer(s) /\ ~ HasServer(s)'}

\* Their destructors.
ServerSessionDestructors ==
  active_sessions' = [p \in PortName |-> active_sessions[p] - Cardinality(Destroyed(p))]

\* Threads that leave their wait; their references go with it.
WakeUp(threads) ==
  /\ wait_objects' = [t \in Threads |-> IF t \in threads THEN <<>> ELSE wait_objects[t]]
  /\ status' = [t \in Threads |-> IF t \in threads THEN "Running" ELSE status[t]]

WakeNobody(p) == WakeUp({})   \* mutant

\* Everyone who waits for the port: acquiring it takes nothing away.
WakePort(p) == WakeUp(IF p = "lle" THEN Waiters(Port) ELSE {})

\* ok: the handle table had room for the client end.  An HLE port hands the
\* server end to its handler, which drops it when the client goes away.  The
\* threads that are woken drop the other objects of their waits.
Connect(s, p, ok) ==
  /\ kind[s] = "unmade" /\ active_sessions[p] < MaxSessions
  /\ kind' = [kind EXCEPT ![s] = p]
  /\ client' = [client EXCEPT ![s] = ok]
  /\ held' = [held EXCEPT ![s] = p = "hle" /\ ok]
  /\ pending_sessions' = IF p = "lle" THEN Append(pending_sessions, s) ELSE pending_sessions
  /\ WakePort(p)
  /\ active_sessions' = [q \in PortName |-> active_sessions[q] - Cardinality(Destroyed(q))
                          + IF q = p /\ (p = "hle" => ok) THEN 1 ELSE 0]
  /\ UNCHANGED <<pending_requesting_threads, currently_handling, dead_resumed>>

CreateSession(s, ok) ==
  /\ kind[s] = "unmade"
  /\ kind' = [kind EXCEPT ![s] = "bare"]
  /\ client' = [client EXCEPT ![s] = ok]
  /\ held' = [held EXCEPT ![s] = TRUE]
  /\ UNCHANGED <<status, wait_objects, pending_sessions, active_sessions, requestVars>>

\* The last session to connect is the first to be accepted.
AcceptSession(ok) ==
  /\ pending_sessions # <<>>
  /\ held' = [held EXCEPT ![Last(pending_sessions)] = ok]
  /\ pending_sessions' = Front(pending_sessions)
  /\ UNCHANGED <<status, wait_objects, kind, client, requestVars>>
  /\ ServerSessionDestructors

-----------------------------------------------------------------------------
(* Requests *)

\* handling stands for the currently_handling fields at the time of the call.
ShouldWait(o, handling) ==
  IF o = Port THEN pending_sessions = <<>>
  ELSE client[o] /\ (pending_requesting_threads[o] = <<>> \/ handling[o] # None)

\* A request for a server in the guest: it is pushed, and if the session is
\* free one of the threads that wait for it takes the last one pushed.
SendSyncRequest(t, s) ==
  /\ status[t] = "Running" /\ client[s] /\ HasServer(s) /\ kind[s] # "hle"
  /\ \/ /\ Waiters(s) = {} \/ currently_handling[s] # None
        /\ status' = [status EXCEPT ![t] = "WaitIPC"]
        /\ pending_requesting_threads' = [pending_requesting_threads EXCEPT ![s] = Append(@, t)]
        /\ UNCHANGED <<wait_objects, currently_handling>>
     \/ \E w \in Waiters(s) :
          /\ currently_handling[s] = None
          /\ status' = [status EXCEPT ![t] = "WaitIPC", ![w] = "Running"]
          /\ wait_objects' = [wait_objects EXCEPT ![w] = <<>>]
          /\ currently_handling' = [currently_handling EXCEPT ![s] = t]
          /\ UNCHANGED pending_requesting_threads
  /\ UNCHANGED <<kind, client, held, pending_sessions, dead_resumed>>
  /\ ServerSessionDestructors

\* A request for an HLE service is executed at once; the thread then sleeps
\* for a while, or until the event its handler chose.
SendSyncRequestHLE(t, s) ==
  /\ status[t] = "Running" /\ client[s] /\ HasServer(s) /\ kind[s] = "hle"
  /\ status' = [status EXCEPT ![t] = "WaitHle"]
  /\ UNCHANGED <<wait_objects, sessionVars, requestVars>>

WakeAfterDelay(t) ==
  /\ status[t] = "WaitHle"
  /\ status' = [status EXCEPT ![t] = "Running"]
  /\ UNCHANGED <<wait_objects, sessionVars, requestVars>>

HandledNever(target) == currently_handling   \* mutant

\* The request is taken out of the session before it is answered.
Handled(target) ==
  IF target = None THEN currently_handling ELSE [currently_handling EXCEPT ![target] = None]

\* The requesting thread that a reply resumes, if its session is still open.
Request(target) ==
  IF target # None /\ client[target] THEN currently_handling[target] ELSE None

\* ResumeFromWait of the requesting thread; one that died is left alone.
Resumed(request) ==
  IF request # None /\ status[request] # "Dead"
  THEN [status EXCEPT ![request] = "Running"] ELSE status

ResumesDead(target) == Request(target) # None /\ status[Request(target)] = "Dead"

\* ReplyAndReceive without handles, or to a request that is gone.
Reply(t, target) ==
  /\ status[t] = "Running" /\ held[target]
  /\ currently_handling' = Handled(target)
  /\ status' = Resumed(Request(target))
  /\ dead_resumed' = (dead_resumed \/ ResumesDead(target))
  /\ UNCHANGED <<wait_objects, sessionVars, pending_requesting_threads>>

\* The first object that is ready is acquired: a session with a client takes
\* the last of its pending requests.  Without one the thread waits for all.
ReplyAndReceive(t, objects, target) ==
  LET handling == Handled(target)
      ready    == {i \in DOMAIN objects : ~ ShouldWait(objects[i], handling)}
      first    == objects[Min(ready)]
      taken    == ready # {} /\ first # Port /\ client[first]
  IN  /\ status[t] = "Running" /\ objects # <<>>
      /\ \A o \in Range(objects) \ {Port} : held[o]
      /\ target # None => held[target] /\ Request(target) # None
      /\ currently_handling' = IF taken
           THEN [handling EXCEPT ![first] = Last(pending_requesting_threads[first])]
           ELSE handling
      /\ pending_requesting_threads' = IF taken
           THEN [pending_requesting_threads EXCEPT ![first] = Front(@)] ELSE pending_requesting_threads
      /\ dead_resumed' = (dead_resumed \/ ResumesDead(target))
      /\ IF ready # {}
         THEN status' = Resumed(Request(target)) /\ UNCHANGED wait_objects
         ELSE /\ status' = [Resumed(Request(target)) EXCEPT ![t] = "WaitSynchAny"]
              /\ wait_objects' = [wait_objects EXCEPT ![t] = objects]
      /\ UNCHANGED sessionVars

-----------------------------------------------------------------------------
(* Endings *)

\* The last handle of the client end is closed.
CloseClient(s) ==
  /\ client[s]
  /\ client' = [client EXCEPT ![s] = FALSE]
  /\ held' = [held EXCEPT ![s] = @ /\ kind[s] # "hle"]
  /\ pending_requesting_threads' = [pending_requesting_threads EXCEPT ![s] = <<>>]
  /\ currently_handling' = [currently_handling EXCEPT ![s] = None]
  /\ WakeUp(Waiters(s))
  /\ UNCHANGED <<kind, pending_sessions, dead_resumed>>
  /\ ServerSessionDestructors

\* The handle of the server end is closed; a thread that waits keeps it alive.
CloseServer(s) ==
  /\ held[s] /\ kind[s] # "hle"
  /\ held' = [held EXCEPT ![s] = FALSE]
  /\ UNCHANGED <<status, wait_objects, kind, client, pending_sessions, requestVars>>
  /\ ServerSessionDestructors

\* Thread::Stop takes the thread out of its wait objects, not out of a session.
Stop(t) ==
  /\ status[t] # "Dead"
  /\ status' = [status EXCEPT ![t] = "Dead"]
  /\ wait_objects' = [wait_objects EXCEPT ![t] = <<>>]
  /\ UNCHANGED <<kind, client, held, pending_sessions, requestVars>>
  /\ ServerSessionDestructors

-----------------------------------------------------------------------------
Opening == \E s \in Session, ok \in BOOLEAN :
  \/ \E p \in PortName : Connect(s, p, ok)
  \/ CreateSession(s, ok)
  \/ AcceptSession(ok)

Requesting == \E t \in Client :
  \/ \E s \in Session : SendSyncRequest(t, s) \/ SendSyncRequestHLE(t, s)
  \/ WakeAfterDelay(t)

Serving == \E t \in Server :
  \/ \E s \in Session : Reply(t, s)
  \/ \E objects \in HandleLists, target \in Session \cup {None} : ReplyAndReceive(t, objects, target)

Ending ==
  \/ \E s \in Session : CloseClient(s) \/ (MayClose /\ CloseServer(s))
  \/ \E t \in MayStop : Stop(t)

Next == Opening \/ Requesting \/ Serving \/ Ending

Spec == Init /\ [][Next]_vars

-----------------------------------------------------------------------------
(* Properties *)

\* One type invariant.
TypeOK ==
  /\ status \in [Threads -> {"Running", "WaitIPC", "WaitHle", "WaitSynchAny", "Dead"}]
  /\ wait_objects \in [Threads -> Seq(Session \cup {Port})]
  /\ kind \in [Session -> Kind]
  /\ client \in [Session -> BOOLEAN] /\ held \in [Session -> BOOLEAN]
  /\ pending_requesting_threads \in [Session -> Seq(Threads)]
  /\ currently_handling \in [Session -> Threads \cup {None}]
  /\ pending_sessions \in Seq(Session)
  /\ active_sessions \in [PortName -> Nat]
  /\ dead_resumed \in BOOLEAN

\* The count that ClientPort::Connect tests is the number of server ends of
\* the port that still exist, through failed handle creation, accepted and
\* never accepted sessions, waits that outlive a handle and dying threads
\* (client_port.cpp:28 and 47, server_session.cpp:32); it never exceeds the
\* maximum.
ConnectionsCounted ==
  \A p \in PortName :
    /\ active_sessions[p] = Cardinality({s \in Session : kind[s] = p /\ HasServer(s)})
    /\ active_sessions[p] <= MaxSessions

Requests(s) ==
  Range(pending_requesting_threads[s]) \cup ({currently_handling[s]} \ {None})

\* A request is kept in one place: the threads in the lists of the living
\* sessions wait for a reply or are dead, none is in two sessions, twice in
\* one, or both pending and handled (server_session.cpp:64, svc.cpp:1004).
\* A thread answered twice would be resumed in the middle of something else.
RequestsOnce ==
  \A s \in Session : HasServer(s) =>
    /\ \A t \in Requests(s) : status[t] \in {"WaitIPC", "Dead"}
    /\ IsInjective(pending_requesting_threads[s])
    /\ currently_handling[s] \notin Range(pending_requesting_threads[s])
    /\ \A r \in Session \ {s} : HasServer(r) => Requests(r) \cap Requests(s) = {}

\* No thread waits for an object that is ready (server_session.cpp:60: "Wait
\* if we have no pending requests, or if we're currently handling a request.").
\* With one server thread this holds; with two, a reply that frees a session
\* with pending requests wakes nobody.
NoMissedRequest ==
  \A o \in Session \cup {Port} : Waiters(o) # {} => ShouldWait(o, currently_handling)

\* What a port promises, together: requests in one place, exact counts, and no
\* server thread asleep on a ready object (server_session.cpp:60, client_port.cpp:28).
SessionsSound == RequestsOnce /\ ConnectionsCounted /\ NoMissedRequest

\* server_session.cpp:110 says of a client put to sleep that "it will be
\* awoken in svcReplyAndReceive for LLE servers": its request is in the lists
\* of a server session that a server can still find.
ClientsCanBeAnswered ==
  \A t \in Client : status[t] = "WaitIPC" =>
    \E s \in Session : HasServer(s) /\ t \in Requests(s)

\* thread.cpp:329 says of resuming a dead thread "This should never happen".
DeadThreadsStayDead == ~ dead_resumed
=============================================================================
