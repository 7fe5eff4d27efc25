---------------------------------- MODULE Uds ----------------------------------
(***************************************************************************)
(* nwm::UDS, local wireless play: stations in a room host a network, join  *)
(* it (authentication, association, EAPoL start and logoff), leave it and  *)
(* exchange data.  Calls of the application and packets that the network   *)
(* thread receives are handled under connection_status_mutex; some packets *)
(* are sent after it is released.  The room carries packets without loss,  *)
(* in order between two stations.                                          *)
(***************************************************************************)
EXTENDS Services, Integers, Sequences, FiniteSets, FiniteSetsExt

CONSTANTS Station,
          Hosts,       \* stations that host a network
          MaxNodes,    \* its size
          Types,       \* connection types in use: "Client", "Spectator"
          Orderly,     \* nobody joins before the one before has done and the room is quiet
          MayEnd,      \* stations that shut down, destroy their network or eject
          MaxData,     \* data packets sent
          Flags        \* flags of SendTo: 2 is "broadcast"

VARIABLES st,            \* connection_status, network_info, conn_type, current_node
          node_map,      \* by MAC address
          channel_data,  \* the bound data channel
          out,           \* what the network thread and the application are about to send
          net,           \* packets in flight, by sender and receiver
          overfull,      \* an assertion has failed
          sent, got      \* number of data packets, and those each station has queued

uds_vars == <<st, node_map, channel_data, out, net, overfull, sent, got>>

All == 65535      \* BroadcastNetworkNodeId
NodeIDSpec == 0
Linked == {"Host", "Client", "Spectator"}

(***************************************************************************)
(* Members of st[s]: initialized; status; id, mask, total, max: the        *)
(* network_node_id, node_bitmask, total_nodes, max_nodes of the connection *)
(* status; host, ntotal: host_mac_address, total_nodes of the network      *)
(* info; info: the ids in node_info; type: conn_type; node: the id in      *)
(* current_node.                                                           *)
(***************************************************************************)
UdsInit ==
  /\ st = [s \in Station |-> [initialized |-> TRUE, status |-> "NotConnected", id |-> 0, mask |-> {},
                              total |-> 0, max |-> 0, host |-> None, ntotal |-> 0, info |-> {},
                              type |-> None, node |-> 0]]
  /\ node_map = [s \in Station |-> [m \in Station |-> None]]
  /\ channel_data = [s \in Station |-> None]
  /\ out = [s \in Station |-> [net |-> None, app |-> None]]
  /\ net = [r \in Station |-> [s \in Station |-> <<>>]]
  /\ overfull = FALSE
  /\ sent = 0 /\ got = [s \in Station |-> <<>>]

-----------------------------------------------------------------------------
(* The room *)

Send(n, r, s, p) == [n EXCEPT ![r][s] = Append(@, p)]
Broadcast(n, r, p) ==
  [n EXCEPT ![r] = [s \in Station |-> IF s = r THEN @[s] ELSE Append(@[s], p)]]

\* OnWifiPacketReceived: a packet of r at s, whose network thread is free.
Arrives(r, s, type) ==
  /\ net[r][s] # <<>> /\ Head(net[r][s]).type = type
  /\ out[s].net = None
  /\ st[s].initialized
Taken(r, s) == [net EXCEPT ![r][s] = Tail(@)]

Ignore(r, s) ==
  /\ net[r][s] # <<>> /\ ~ st[s].initialized
  /\ net' = Taken(r, s)
  /\ UNCHANGED <<st, node_map, channel_data, out, overfull, sent, got>>

Quiet == \A r, s \in Station : net[r][s] = <<>> /\ out[s] = [net |-> None, app |-> None]

-----------------------------------------------------------------------------
(* Packets: the host *)

AuthenticateFull(r, s) ==   \* mutant
  /\ Arrives(r, s, "auth")
  /\ IF st[s].status = "Host" /\ node_map[s][r] = None
     THEN /\ node_map' = [node_map EXCEPT ![s][r] =
                            [connected |-> FALSE, spec |-> FALSE, id |-> NodeIDSpec]]
          /\ out' = [out EXCEPT ![s].net = [type |-> "assoc", to |-> r]]
     ELSE UNCHANGED <<node_map, out>>
  /\ net' = Taken(r, s)
  /\ UNCHANGED <<st, channel_data, overfull, sent, got>>

\* HandleAuthenticationFrame.  Nodes that are about to join are not counted.
HandleAuthenticationFrame(r, s) ==
  /\ Arrives(r, s, "auth")
  /\ IF st[s].status = "Host" /\ node_map[s][r] = None /\ st[s].max # st[s].total
     THEN /\ node_map' = [node_map EXCEPT ![s][r] =
                            [connected |-> FALSE, spec |-> FALSE, id |-> NodeIDSpec]]
          /\ out' = [out EXCEPT ![s].net = [type |-> "assoc", to |-> r]]
     ELSE UNCHANGED <<node_map, out>>
  /\ net' = Taken(r, s)
  /\ UNCHANGED <<st, channel_data, overfull, sent, got>>

\* SendAssociationResponseFrame
SendAssociationResponseFrame(s) ==
  /\ out[s].net # None /\ out[s].net.type = "assoc"
  /\ net' = IF st[s].status = "Host" THEN Send(net, s, out[s].net.to, [type |-> "assoc"]) ELSE net
  /\ out' = [out EXCEPT ![s].net = None]
  /\ UNCHANGED <<st, node_map, channel_data, overfull, sent, got>>

\* GetNextAvailableNodeId
GetNextAvailableNodeId(d) == Min((1 .. d.max) \ d.mask)

NodeMapOf(m) == [x \in Station |-> IF m[x] # None /\ m[x].connected /\ ~ m[x].spec THEN m[x] ELSE None]

\* GenerateEAPoLLogoffFrame
Logoff(d, id) == [type |-> "logoff", id |-> id, total |-> d.ntotal, max |-> MaxNodes, nodes |-> d.info]

\* A node gets an id, or gives it back.
Joined(d, i) == [d EXCEPT !.mask = @ \cup {i}, !.total = @ + 1, !.ntotal = @ + 1, !.info = @ \cup {i}]
Left(d, i)   == [d EXCEPT !.mask = @ \ {i}, !.total = @ - 1, !.ntotal = @ - 1, !.info = @ \ {i}]

Entry(kind, i) == [connected |-> TRUE, spec |-> kind = "Spectator",
                   id |-> IF kind = "Client" THEN i ELSE NodeIDSpec]

\* The host's part of HandleEAPoLPacket, with BroadcastNodeMap.  The logoff goes
\* to everybody.
HandleEAPoLStart(r, s) ==
  LET p == Head(net[r][s])
      d == st[s]
      i == GetNextAvailableNodeId(d)
      map == [node_map[s] EXCEPT ![r] = Entry(p.kind, i)]
  IN
  /\ Arrives(r, s, "start")
  /\ IF d.status # "Host" \/ node_map[s][r] = None \/ (node_map[s][r] # None /\ node_map[s][r].connected)
     THEN net' = Taken(r, s) /\ UNCHANGED <<st, node_map, overfull>>
     ELSE IF d.max = d.total \/ (1 .. d.max) \subseteq d.mask
     THEN overfull' = TRUE /\ net' = Taken(r, s) /\ UNCHANGED <<st, node_map>>
     ELSE /\ node_map' = [node_map EXCEPT ![s] = map]
          /\ IF p.kind = "Client"
             THEN /\ st' = [st EXCEPT ![s] = Joined(d, i)]
                  /\ net' = Broadcast(Broadcast(Taken(r, s), s, [type |-> "map", map |-> NodeMapOf(map)]),
                                      s, Logoff(Joined(d, i), i))
             ELSE /\ net' = Broadcast(Taken(r, s), s, Logoff(d, p.node))
                  /\ UNCHANGED st
          /\ UNCHANGED overfull
  /\ UNCHANGED <<channel_data, out, sent, got>>

HandleDeauthenticationKeepsNode(r, s) ==   \* mutant
  LET n == node_map[s][r] IN
  /\ Arrives(r, s, "deauth")
  /\ st' = IF st[s].status = "Host" /\ n # None /\ n.connected /\ ~ n.spec /\ n.id \in st[s].info
           THEN [st EXCEPT ![s] = Left(@, n.id)]
           ELSE st
  /\ net' = Taken(r, s)
  /\ UNCHANGED <<node_map, channel_data, out, overfull, sent, got>>

HandleDeauthenticationKeepsId(r, s) ==   \* mutant
  LET n == node_map[s][r] IN
  /\ Arrives(r, s, "deauth")
  /\ node_map' = IF st[s].status = "Host" THEN [node_map EXCEPT ![s][r] = None] ELSE node_map
  /\ st' = IF st[s].status = "Host" /\ n # None /\ n.connected /\ ~ n.spec
           THEN [st EXCEPT ![s].total = @ - 1, ![s].ntotal = @ - 1]
           ELSE st
  /\ net' = Taken(r, s)
  /\ UNCHANGED <<channel_data, out, overfull, sent, got>>

\* HandleDeauthenticationFrame; the clients that stay are not told.
HandleDeauthenticationFrame(r, s) ==
  LET n == node_map[s][r] IN
  /\ Arrives(r, s, "deauth")
  /\ node_map' = IF st[s].status = "Host" THEN [node_map EXCEPT ![s][r] = None] ELSE node_map
  /\ st' = IF st[s].status = "Host" /\ n # None /\ n.connected /\ ~ n.spec /\ n.id \in st[s].info
           THEN [st EXCEPT ![s] = Left(@, n.id)]
           ELSE st
  /\ net' = Taken(r, s)
  /\ UNCHANGED <<channel_data, out, overfull, sent, got>>

-----------------------------------------------------------------------------
(* Packets: the clients *)

\* HandleAssociationResponseFrame looks at the status, and sends afterwards.
HandleAssociationResponseFrame(r, s) ==
  /\ Arrives(r, s, "assoc")
  /\ out' = IF st[s].status = "Connecting"
            THEN [out EXCEPT ![s].net = [type |-> "start", to |-> r]] ELSE out
  /\ net' = Taken(r, s)
  /\ UNCHANGED <<st, node_map, channel_data, overfull, sent, got>>

SendEAPoLStart(s) ==
  /\ out[s].net # None /\ out[s].net.type = "start"
  /\ net' = Send(net, s, out[s].net.to,
                 [type |-> "start", kind |-> st[s].type, node |-> st[s].node])
  /\ out' = [out EXCEPT ![s].net = None]
  /\ UNCHANGED <<st, node_map, channel_data, overfull, sent, got>>

LogoffOnlyForTheNew(d, r, p) ==   \* mutant
  IF d.status # "Connecting" THEN d
  ELSE [d EXCEPT !.host = r, !.id = p.id, !.total = p.total, !.max = p.max,
                 !.ntotal = p.total, !.mask = @ \cup p.nodes, !.info = p.nodes, !.status = d.type]

LogoffForAll(d, r, p) ==   \* mutant
  IF d.status = "Connecting"
  THEN [d EXCEPT !.host = r, !.id = p.id, !.total = p.total, !.max = p.max,
                 !.ntotal = p.total, !.mask = @ \cup p.nodes, !.info = p.nodes, !.status = d.type]
  ELSE IF d.status \in {"Client", "Spectator"}
  THEN [d EXCEPT !.id = p.id, !.total = p.total, !.ntotal = p.total, !.mask = p.nodes, !.info = p.nodes]
  ELSE d

\* HandleEAPoLPacket, the logoff: a station that is connecting takes the id in
\* it, whoever it was meant for; one that is connected takes the list of nodes.
LoggedOff(d, r, p) ==
  IF d.status = "Connecting"
  THEN [d EXCEPT !.host = r, !.id = p.id, !.total = p.total, !.max = p.max,
                 !.ntotal = p.total, !.mask = @ \cup p.nodes, !.info = p.nodes, !.status = d.type]
  ELSE IF d.status \in {"Client", "Spectator"}
  THEN [d EXCEPT !.total = p.total, !.ntotal = p.total, !.mask = p.nodes, !.info = p.nodes]
  ELSE d

HandleEAPoLLogoff(r, s) ==
  /\ Arrives(r, s, "logoff")
  /\ st' = [st EXCEPT ![s] = LoggedOff(@, r, Head(net[r][s]))]
  /\ net' = Taken(r, s)
  /\ UNCHANGED <<node_map, channel_data, out, overfull, sent, got>>

\* HandleNodeMapPacket, connected or not.
HandleNodeMapPacket(r, s) ==
  /\ Arrives(r, s, "map")
  /\ node_map' = IF st[s].status = "Host" THEN node_map
                 ELSE [node_map EXCEPT ![s] = Head(net[r][s]).map]
  /\ net' = Taken(r, s)
  /\ UNCHANGED <<st, channel_data, out, overfull, sent, got>>

RoutesAlways(d, p) == p.src # d.id /\ d.status = "Host"   \* mutant

\* A host passes on what is meant for another node.
Routes(d, p) == p.src # d.id /\ p.dest \notin {d.id, All} /\ d.status = "Host"

Accepts(d, c, p) ==
  /\ d.status \in Linked /\ p.src # d.id
  /\ p.dest \in {d.id, All}
  /\ c # None /\ c.node \in {All, p.src}

\* HandleSecureDataPacket
HandleSecureDataPacket(r, s) ==
  LET p == Head(net[r][s])
      new == Accepts(st[s], channel_data[s], p)
  IN
  /\ Arrives(r, s, "data")
  /\ net' = IF Routes(st[s], p) THEN Broadcast(Taken(r, s), s, p) ELSE Taken(r, s)
  /\ channel_data' = IF new THEN [channel_data EXCEPT ![s].packets = Append(@, p)] ELSE channel_data
  /\ got' = IF new THEN [got EXCEPT ![s] = Append(@, p.n)] ELSE got
  /\ UNCHANGED <<st, node_map, out, overfull, sent>>

-----------------------------------------------------------------------------
(* Calls of the application, which makes one at a time *)

Calls(s) == out[s].app = None /\ st[s].initialized

\* connection_status = {} and what is put back.
Reset(d, status) == [d EXCEPT !.status = status, !.mask = {}, !.total = 0, !.max = 0]
Forgotten(s) == [node_map EXCEPT ![s] = [m \in Station |-> None]]

\* Initialize does not clear the node map.
Initialize(s) ==
  /\ ~ st[s].initialized /\ out[s].app = None
  /\ st' = [st EXCEPT ![s] = [Reset(@, "NotConnected") EXCEPT !.initialized = TRUE, !.id = 0,
                                                             !.info = {}, !.node = 0]]
  /\ channel_data' = [channel_data EXCEPT ![s] = None]
  /\ UNCHANGED <<node_map, out, net, overfull, sent, got>>

\* ShutdownHLE leaves the connection status alone and tells nobody.
Shutdown(s) ==
  /\ s \in MayEnd /\ Calls(s)
  /\ st' = [st EXCEPT ![s].initialized = FALSE]
  /\ channel_data' = [channel_data EXCEPT ![s] = None]
  /\ node_map' = Forgotten(s)
  /\ UNCHANGED <<out, net, overfull, sent, got>>

Hosting(d, s) == [d EXCEPT !.status = "Host", !.max = MaxNodes, !.total = 1, !.ntotal = 1, !.id = 1,
                           !.node = 1, !.mask = @ \cup {1}, !.host = s, !.info = {1}]

\* BeginHostingNetwork does not clear the node map either.
BeginHostingNetwork(s) ==
  /\ s \in Hosts /\ Calls(s) /\ st[s].status = "NotConnected"
  /\ st' = [st EXCEPT ![s] = Hosting(@, s)]
  /\ UNCHANGED <<node_map, channel_data, out, net, overfull, sent, got>>

\* DestroyNetworkHLE: no packet is sent.
DestroyNetwork(s) ==
  /\ s \in MayEnd /\ Calls(s) /\ st[s].status = "Host"
  /\ st' = [st EXCEPT ![s] = Reset(@, "NotConnected")]
  /\ node_map' = Forgotten(s)
  /\ channel_data' = [channel_data EXCEPT ![s] = None]
  /\ UNCHANGED <<out, net, overfull, sent, got>>

\* ConnectToNetworkHLE, StartConnectionSequence; the frame is sent afterwards.
\* The station has seen a beacon of the host.
ConnectToNetwork(s, h, type) ==
  /\ Calls(s) /\ s # h /\ st[s].status = "NotConnected" /\ st[h].status = "Host"
  /\ Orderly => Quiet /\ \A x \in Station : st[x].status # "Connecting"
  /\ st' = [st EXCEPT ![s] = [@ EXCEPT !.status = "Connecting", !.host = h, !.type = type]]
  /\ out' = [out EXCEPT ![s].app = [type |-> "auth", to |-> h]]
  /\ UNCHANGED <<node_map, channel_data, net, overfull, sent, got>>

SendPacketKeepsChannel(s) ==   \* mutant
  /\ out[s].app # None
  /\ net' = Send(net, s, out[s].app.to, [type |-> out[s].app.type])
  /\ out' = [out EXCEPT ![s].app = None]
  /\ UNCHANGED <<st, node_map, channel_data, overfull, sent, got>>

\* The end of ConnectToNetwork and of DisconnectNetwork, which closes the channels.
SendPacket(s) ==
  /\ out[s].app # None
  /\ net' = Send(net, s, out[s].app.to, [type |-> out[s].app.type])
  /\ channel_data' = IF out[s].app.type = "deauth" THEN [channel_data EXCEPT ![s] = None]
                     ELSE channel_data
  /\ out' = [out EXCEPT ![s].app = None]
  /\ UNCHANGED <<st, node_map, overfull, sent, got>>

\* DisconnectNetworkHLE.  A connection attempt is given up after its timeout.
\* A host stays a host, of nothing.
DisconnectNetwork(s) ==
  /\ Calls(s) /\ st[s].status # "NotConnected"
  /\ st[s].status = "Connecting" /\ Orderly => Quiet
  /\ st[s].status = "Host" => s \in MayEnd
  /\ node_map' = Forgotten(s)
  /\ IF st[s].status = "Host"
     THEN st' = [st EXCEPT ![s] = Reset(@, "Host")] /\ UNCHANGED out
     ELSE /\ st' = [st EXCEPT ![s] = Reset(@, "NotConnected")]
          /\ out' = [out EXCEPT ![s].app = [type |-> "deauth", to |-> st[s].host]]
  /\ UNCHANGED <<channel_data, net, overfull, sent, got>>

\* GetNodeMacAddress, for a node that is not the host.
MacAddresses(s, i) == {m \in Station : node_map[s][m] # None /\ node_map[s][m].connected
                                        /\ node_map[s][m].id = i}

\* EjectClientHLE; one frame at a time.
EjectClient(s, i) ==
  /\ s \in MayEnd /\ Calls(s) /\ st[s].status = "Host" /\ i # 1
  /\ \E m \in MacAddresses(s, i) :
       /\ m # s /\ [type |-> "deauth"] \notin {net[s][m][k] : k \in DOMAIN net[s][m]}
       /\ net' = Send(net, s, m, [type |-> "deauth"])
  /\ UNCHANGED <<st, node_map, channel_data, out, overfull, sent, got>>

\* BindHLE and UnbindHLE, for packets of one node or of all.
Bind(s, i) ==
  /\ MaxData > 0 /\ Calls(s) /\ st[s].status \in Linked /\ channel_data[s] = None
  /\ channel_data' = [channel_data EXCEPT ![s] = [node |-> i, packets |-> <<>>]]
  /\ UNCHANGED <<st, node_map, out, net, overfull, sent, got>>

Unbind(s) ==
  /\ Calls(s) /\ channel_data[s] # None
  /\ channel_data' = [channel_data EXCEPT ![s] = None]
  /\ UNCHANGED <<st, node_map, out, net, overfull, sent, got>>

\* SendToHLE
SendTo(s, dest, flags) ==
  LET p == [type |-> "data", src |-> st[s].id, dest |-> dest, n |-> sent + 1] IN
  /\ sent < MaxData /\ Calls(s)
  /\ st[s].status \in {"Host", "Client"} /\ dest # st[s].id
  /\ sent' = sent + 1
  /\ IF flags = 2 \/ dest = All THEN net' = Broadcast(net, s, p)
     ELSE IF dest = 1 THEN net' = Send(net, s, st[s].host, p)
     ELSE \E m \in MacAddresses(s, dest) : net' = Send(net, s, m, p)
  /\ UNCHANGED <<st, node_map, channel_data, out, overfull, got>>

\* PullPacketHLE
PullPacket(s) ==
  /\ Calls(s) /\ st[s].status \in Linked
  /\ channel_data[s] # None /\ channel_data[s].packets # <<>>
  /\ channel_data' = [channel_data EXCEPT ![s].packets = Tail(@)]
  /\ UNCHANGED <<st, node_map, out, net, overfull, sent, got>>

NetworkThread(s) ==
  \/ SendAssociationResponseFrame(s) \/ SendEAPoLStart(s)
  \/ \E r \in Station :
       \/ Ignore(r, s) \/ HandleAuthenticationFrame(r, s) \/ HandleAssociationResponseFrame(r, s)
       \/ HandleEAPoLStart(r, s) \/ HandleEAPoLLogoff(r, s) \/ HandleDeauthenticationFrame(r, s)
       \/ HandleNodeMapPacket(r, s) \/ HandleSecureDataPacket(r, s)

UdsNext ==
  \E s \in Station :
    \/ NetworkThread(s)
    \/ Initialize(s) \/ Shutdown(s) \/ BeginHostingNetwork(s) \/ DestroyNetwork(s)
    \/ \E h \in Hosts, type \in Types : ConnectToNetwork(s, h, type)
    \/ SendPacket(s) \/ DisconnectNetwork(s)
    \/ \E i \in 1 .. MaxNodes : EjectClient(s, i)
    \/ \E i \in {All} \cup 1 .. MaxNodes : Bind(s, i) \/ \E f \in Flags : SendTo(s, i, f)
    \/ Unbind(s) \/ PullPacket(s)

UdsSpec == UdsInit /\ [][UdsNext]_uds_vars

\* Packets are delivered, and a call that has begun goes on.
UdsFairness == \A s \in Station : WF_uds_vars(NetworkThread(s)) /\ WF_uds_vars(SendPacket(s))

UdsFairSpec == UdsSpec /\ UdsFairness

-----------------------------------------------------------------------------
\* The host's counts agree: its total_nodes, its bitmask and the clients in its
\* node map, who have ids of their own (nwm_uds.cpp:229, nwm_uds.cpp:530).
HostCounts ==
  \A h \in Station : st[h].status = "Host" /\ st[h].initialized =>
    LET clients == {m \in Station : node_map[h][m] # None /\ node_map[h][m].connected
                                     /\ ~ node_map[h][m].spec}
    IN  /\ st[h].total = Cardinality(st[h].mask)
        /\ st[h].mask \ {1} = {node_map[h][m].id : m \in clients}
        /\ Cardinality(st[h].mask \ {1}) = Cardinality(clients)

\* A full network refuses further stations before they come so far as to need
\* an id (nwm_uds.cpp:96: "Any connection attempts to an already full network
\* should have been refused.").
NeverOverfull == ~ overfull

\* Both: what the host believes of its network is so, and it has room for whom it
\* lets in.
StationsCounted == HostCounts /\ NeverOverfull

\* A station that is connected has the id under which its host knows it.
AgreedIds ==
  \A c \in Station : st[c].status = "Client" /\ st[c].initialized =>
    LET n == node_map[st[c].host][c] IN
    st[st[c].host].status = "Host" => n # None /\ n.connected /\ n.id = st[c].id

\* When all packets have arrived, every client of a network knows the others and
\* can address them.
MembersKnown ==
  Quiet => \A c, h \in Station :
    st[c].status = "Client" /\ st[c].host = h /\ st[h].status = "Host" =>
      /\ st[h].mask \subseteq st[c].mask
      /\ \A m \in Station : node_map[h][m] # None /\ node_map[h][m].connected /\ ~ node_map[h][m].spec =>
           MacAddresses(c, node_map[h][m].id) = {m}

\* What waits in the channel of a station was meant for the node it is now.
DataForMe ==
  \A s \in Station : channel_data[s] # None /\ st[s].status \in Linked =>
    \A i \in DOMAIN channel_data[s].packets :
      LET p == channel_data[s].packets[i] IN p.dest \in {st[s].id, All} /\ p.src # st[s].id

\* No station gets a data packet twice, although hosts pass packets on.
DataOnce == \A s \in Station : \A i, k \in DOMAIN got[s] : i # k => got[s][i] # got[s][k]

\* An attempt to join a network that has room, and whose host goes on, ends with
\* a connection: also that of a station that has left and comes back.
JoinCompletes ==
  \A s \in Station :
    (st[s].status = "Connecting" /\ st[st[s].host].status = "Host")
      ~> (st[s].status # "Connecting")
=============================================================================
