----------------------------- MODULE MCSessions -----------------------------
EXTENDS Sessions

CONSTANTS s1, s2

Single == {<<s1>>, <<Port>>}

\* A server as guest programs write it: accept what connects, answer what was
\* received, close what its client left, wait for the port and the rest.
Open == SelectSeq(<<s1, s2>>, LAMBDA s : held[s])
Current == LET busy == {s \in Session : held[s] /\ currently_handling[s] # None}
           IN  IF busy = {} THEN None ELSE CHOOSE s \in busy : TRUE
Loop(t) ==
  \/ status[t] = "Running" /\ AcceptSession(TRUE)
  \/ status[t] = "Running" /\ \E s \in Session : ~ client[s] /\ CloseServer(s)
  \/ /\ pending_sessions = <<>> /\ \A s \in Session : held[s] => client[s]
     /\ ReplyAndReceive(t, <<Port>> \o Open, Current)

LoopNext ==
  \/ \E s \in Session : Connect(s, "lle", TRUE)
  \/ \E t \in Client, s \in Session : SendSyncRequest(t, s)
  \/ \E s \in Session : CloseClient(s) /\ Requests(s) = {}
  \/ \E t \in Server : Loop(t)

LoopSpec == Init /\ [][LoopNext]_vars /\ \A t \in Server : WF_vars(Loop(t))

\* With a server that accepts, answers and waits for all its sessions, and
\* that is scheduled, every request is answered: neither the last-in first-out
\* order of requests and connections nor the order of the handle list starves
\* one of two clients (server_session.cpp:74, server_port.cpp:27, svc.cpp:1037).
EveryRequestAnswered == \A t \in Client : status[t] = "WaitIPC" ~> status[t] = "Running"
=============================================================================
