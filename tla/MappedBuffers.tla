---------------------------- MODULE MappedBuffers ----------------------------
(***************************************************************************)
(* Mapped buffers in requests between processes: TranslateCommandBuffer of *)
(* kernel/ipc.cpp, as ReplyAndReceive calls it.  The kernel copies a       *)
(* buffer of the client into new pages of the server, between two guard    *)
(* pages, and at the reply copies it back and unmaps it.  Several requests *)
(* may be open at a server.                                                *)
(*                                                                         *)
(* Addresses count cells, PageSize of them in a page.  Handles, static     *)
(* buffers and the process id, the other parameters that are translated,   *)
(* are copied and leave nothing behind.                                    *)
(***************************************************************************)
EXTENDS Integers, Sequences, SequencesExt, FiniteSetsExt

CONSTANTS Session,
          Commands,    \* sequences of buffers [perms, address, size]
          PageSize,
          ClientCells, \* addresses of the client
          Area,        \* pages of the server's IPC mapping area
          Value,       \* contents of a cell
          MayLeave,    \* sessions whose client may close its end
          None

VARIABLES request,  \* [session -> the buffers of its request, None]
          phase,    \* "idle", "pending", "handling", "closed"
          memory,   \* of the client
          state,    \* [page of the area -> None, "Shared", "Reserved"]
          cells,    \* contents of the area
          mapped_buffer_context,
          asserted,
          expected  \* [session -> what the server believes the client's buffers to hold]

vars == <<request, phase, memory, state, cells, mapped_buffer_context, asserted, expected>>

Cell == 0 .. ClientCells - 1
Page == 0 .. Area - 1
Zero == CHOOSE v \in Value : TRUE

Buffer(address, size) == address .. address + size - 1

Init ==
  /\ request = [s \in Session |-> None] /\ phase = [s \in Session |-> "idle"]
  /\ memory = [c \in Cell |-> Zero]
  /\ state = [p \in Page |-> None] /\ cells = [c \in 0 .. Area * PageSize - 1 |-> Zero]
  /\ mapped_buffer_context = [s \in Session |-> <<>>]
  /\ asserted = FALSE
  /\ expected = [s \in Session |-> [c \in Cell |-> None]]

-----------------------------------------------------------------------------
(* Pages of a buffer *)

PageOffset(address) == address % PageSize
NumPages(address, size) == (PageOffset(address) + size + PageSize - 1) \div PageSize

\* The free areas of the mapping area, as <<first page, end>>.
FreeAreas(st) ==
  {<<a, b>> \in Page \X (1 .. Area) :
     /\ a < b /\ \A p \in a .. b - 1 : st[p] = None
     /\ a > 0 => st[a - 1] # None
     /\ b < Area => st[b] # None}

\* VMManager::MapBackingMemoryToBase takes the first free area that ends far
\* enough behind the base, and fails if the pages do not fit into it.
Target(st, pages) ==
  LET ends == {a \in FreeAreas(st) : a[2] >= pages}
      a    == CHOOSE x \in ends : \A y \in ends : x[1] <= y[1]
  IN  IF ends = {} \/ a[1] + pages > a[2] THEN None ELSE a[1]

-----------------------------------------------------------------------------
(* Translation; x holds what it changes. *)

\* A mapped buffer of a request.
MapBuffer(x, b) ==
  LET n == NumPages(b.address, b.size)
      t == Target(x.state, n + 2)
      target == (t + 1) * PageSize + PageOffset(b.address)
  IN
  IF b.size = 0 THEN x
  ELSE IF t = None THEN [x EXCEPT !.asserted = TRUE]
  ELSE [x EXCEPT
    !.state = [p \in Page |-> IF p \in {t, t + n + 1} THEN "Reserved"
                              ELSE IF p \in t .. t + n THEN "Shared" ELSE @[p]],
    !.cells = [c \in DOMAIN @ |->
                 IF c \in Buffer(target, b.size) THEN memory[c - target + b.address]
                 ELSE IF c \div PageSize \in t .. t + n + 1 THEN Zero ELSE @[c]],
    !.context = Append(@, [perms |-> b.perms, size |-> b.size, source |-> b.address,
                           target |-> target])]

UnmapWithoutGuards(st, first, n) ==   \* mutant
  [p \in Page |-> IF p \in first .. first + n - 1 THEN None ELSE st[p]]

UnmapBuffer(st, first, n) ==
  [p \in Page |-> IF p \in first - 1 .. first + n THEN None ELSE st[p]]

\* A mapped buffer of a reply, which names the address in the server.
ReturnBuffer(x, b) ==
  LET found == {i \in DOMAIN x.context : /\ x.context[i].perms = b.perms
                                         /\ x.context[i].size = b.size
                                         /\ x.context[i].target = b.address}
      i     == Min(found)
      c     == x.context[i]
      first == b.address \div PageSize
      n     == NumPages(b.address, b.size)
  IN
  IF b.size = 0 THEN x
  ELSE IF found = {} \/ x.state[first - 1] # "Reserved" \/ x.state[first + n] # "Reserved"
  THEN [x EXCEPT !.asserted = TRUE]
  ELSE [x EXCEPT
    !.memory = IF b.perms = "R" THEN @
               ELSE [a \in Cell |-> IF a \in Buffer(c.source, c.size)
                                    THEN cells[a - c.source + c.target] ELSE @[a]],
    !.state = UnmapBuffer(@, first, n),
    !.context = RemoveAt(@, i)]

-----------------------------------------------------------------------------
SendSyncRequest(s, command) ==
  /\ phase[s] = "idle"
  /\ phase' = [phase EXCEPT ![s] = "pending"]
  /\ request' = [request EXCEPT ![s] = command]
  /\ UNCHANGED <<memory, state, cells, mapped_buffer_context, asserted, expected>>

Written(s) == UNION {Buffer(request[s][i].address, request[s][i].size) :
                       i \in {k \in DOMAIN request[s] : request[s][k].perms # "R"}}

\* ReceiveIPCRequest
ReceiveIPCRequest(s) ==
  LET x == FoldLeft(MapBuffer, [state |-> state, cells |-> cells, asserted |-> asserted,
                                context |-> mapped_buffer_context[s]], request[s])
  IN
  /\ phase[s] = "pending" /\ ~ asserted
  /\ phase' = [phase EXCEPT ![s] = "handling"]
  /\ state' = x.state /\ cells' = x.cells /\ asserted' = x.asserted
  /\ mapped_buffer_context' = [mapped_buffer_context EXCEPT ![s] = x.context]
  /\ expected' = [expected EXCEPT ![s] = [c \in Cell |-> IF c \in Written(s) THEN memory[c] ELSE None]]
  /\ UNCHANGED <<request, memory>>

\* The server writes into a buffer at the address it was given.
ServerWrite(s, i, k, v) ==
  LET c == mapped_buffer_context[s][i] IN
  /\ phase[s] = "handling"
  /\ cells' = [cells EXCEPT ![c.target + k] = v]
  /\ expected' = IF c.perms = "R" THEN expected ELSE [expected EXCEPT ![s][c.source + k] = v]
  /\ UNCHANGED <<request, phase, memory, state, mapped_buffer_context, asserted>>

\* Another thread of the client.
ClientWrite(c, v) ==
  /\ memory[c] # v /\ memory' = [memory EXCEPT ![c] = v]
  /\ UNCHANGED <<request, phase, state, cells, mapped_buffer_context, asserted, expected>>

\* The reply of ReplyAndReceive names the buffers of the request, in any order.
Orders(n) == {o \in [1 .. n -> 1 .. n] : IsInjective(o)}

ReplyAndReceive(s) ==
  LET context == mapped_buffer_context[s] IN
  /\ phase[s] = "handling" /\ ~ asserted
  /\ \E o \in Orders(Len(context)) :
       LET reply == [i \in DOMAIN context |-> [perms |-> context[o[i]].perms, size |-> context[o[i]].size,
                                               address |-> context[o[i]].target]]
           x == FoldLeft(ReturnBuffer, [memory |-> memory, state |-> state, asserted |-> asserted,
                                        context |-> context], reply)
       IN  /\ memory' = x.memory /\ state' = x.state /\ asserted' = x.asserted
           /\ mapped_buffer_context' = [mapped_buffer_context EXCEPT ![s] = x.context]
  /\ phase' = [phase EXCEPT ![s] = "idle"]
  /\ request' = [request EXCEPT ![s] = None]
  /\ expected' = [expected EXCEPT ![s] = [c \in Cell |-> None]]
  /\ cells' = [c \in DOMAIN cells |-> IF state'[c \div PageSize] = None THEN Zero ELSE cells[c]]

\* The client closes its end, or dies.  A reply is refused then, and the
\* buffers of the request stay mapped.
CloseClient(s) ==
  /\ s \in MayLeave /\ phase[s] # "closed"
  /\ phase' = [phase EXCEPT ![s] = "closed"]
  /\ UNCHANGED <<request, memory, state, cells, mapped_buffer_context, asserted, expected>>

Next ==
  \/ \E s \in Session :
       \/ \E command \in Commands : SendSyncRequest(s, command)
       \/ ReceiveIPCRequest(s) \/ ReplyAndReceive(s) \/ CloseClient(s)
       \/ \E i \in DOMAIN mapped_buffer_context[s], v \in Value :
            \E k \in 0 .. mapped_buffer_context[s][i].size - 1 : ServerWrite(s, i, k, v)
  \/ \E c \in Cell, v \in Value : ClientWrite(c, v)

Spec == Init /\ [][Next]_vars

-----------------------------------------------------------------------------
Contexts == {<<s, i>> \in Session \X (1 .. Area) : i \in DOMAIN mapped_buffer_context[s]}

FirstPage(x) == mapped_buffer_context[x[1]][x[2]].target \div PageSize
LastPage(x)  == LET c == mapped_buffer_context[x[1]][x[2]]
                IN  (c.target + c.size - 1) \div PageSize
Frame(x)     == FirstPage(x) - 1 .. LastPage(x) + 1

\* Every buffer that a server holds has pages of its own between guards of its
\* own (ipc.cpp:182 asserts that it finds them), and the area holds nothing
\* else, whatever requests are open, in which order they are answered and
\* whichever clients are gone.
BuffersFramed ==
  /\ \A x \in Contexts : \A p \in Frame(x) :
       state[p] = IF p \in FirstPage(x) .. LastPage(x) THEN "Shared" ELSE "Reserved"
  /\ \A x, y \in Contexts : x # y => Frame(x) \cap Frame(y) = {}
  /\ {p \in Page : state[p] # None} = UNION {Frame(x) : x \in Contexts}

\* Between its requests a session holds no buffer, and none of the assertions
\* of the translation has failed.
BuffersReturned ==
  ~ asserted /\ \A s \in Session : phase[s] = "idle" => mapped_buffer_context[s] = <<>>

\* A reply brings back exactly what the server wrote, to the cells of the
\* client's writable buffers and to no others, although buffers start anywhere
\* in a page and are copied (ipc.cpp:169).
RepliesExact ==
  \A s \in Session : phase[s] = "handling" /\ phase'[s] = "idle" =>
    \A c \in Cell : memory'[c] = IF expected[s][c] # None THEN expected[s][c] ELSE memory[c]
=============================================================================
