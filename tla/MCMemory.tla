------------------------------ MODULE MCMemory ------------------------------
(***************************************************************************)
(* Memory regions, address spaces, the memory of processes, their other    *)
(* resources and the buffers of their requests in one run.  In a behaviour *)
(* only the component that `part` names moves, as in MCObjects.            *)
(***************************************************************************)
EXTENDS ProcessResources, ProcessMemory, Sequences, TLC

CONSTANTS p1, p2, b1, o1, o2, o3, o4, s1, s2

VARIABLES part,
  free_blocks, used, is_locked, result, held, stale, file,         \* MemoryRegion
  vma_map, page_table, areas_locked,                               \* VMManager
  request, phase, memory, state, cells, mapped_buffer_context,     \* MappedBuffers
  asserted, expected

\* A region, and a smaller one that is saved and restored.
R == INSTANCE MemoryRegion WITH Size <- 7, Requests <- 1 .. 7, MaySave <- FALSE
L == INSTANCE MemoryRegion WITH Size <- 4, Requests <- 1 .. 4, MaySave <- TRUE

\* An address space; memory is lent to a shared block and taken back
\* (shared_memory.cpp), in the first with callers that reprotect what they map.
RW == {"R", "W"}
Lend == {<<"Private", RW, "Locked", {"R"}>>, <<"Locked", {}, "Private", RW>>}
V == INSTANCE VMManager WITH
       MaxAddress <- 4, Memory <- 0 .. 1, State <- {"Private"}, Perms <- {{"R"}, RW},
       Changes <- Lend, MapPerms <- {{"R"}}, Free <- NoPage, is_locked <- areas_locked
W == INSTANCE VMManager WITH
       MaxAddress <- 3, Memory <- 0 .. 2, State <- {"Private"}, Perms <- {{"R"}, RW},
       Changes <- Lend, MapPerms <- {}, Free <- NoPage, is_locked <- areas_locked

\* Two processes that share one limit: as the configuration says, where creations
\* fail and processes leave shared memory open, and where neither happens.
Kinds     == {"Thread", "SharedMemory", "Semaphore"}
Failing   == {"Thread", "Semaphore"}
Objects   == {o1, o2, o3, o4}
Processes == {p1, p2}
BlocksMade == {b1}
Q == INSTANCE ProcessResources WITH
       MaxPages <- 2, MayFail <- {}, LeavesShared <- FALSE

\* Buffers of a client at a server: of one page in two requests at once, one of
\* whose senders may leave, and of several sizes in one request.
Buffer(perms, address, size) == [perms |-> perms, address |-> address, size |-> size]
X == INSTANCE MappedBuffers WITH
       Session <- {s1, s2}, PageSize <- 2, ClientCells <- 4, Area <- 12, Value <- {0, 1},
       Commands <- {<<Buffer("RW", 1, 1)>>, <<Buffer("W", 0, 2), Buffer("R", 3, 1)>>},
       MayLeave <- {s2}
Y == INSTANCE MappedBuffers WITH
       Session <- {s1}, PageSize <- 2, ClientCells <- 4, Area <- 12, Value <- {0, 1},
       Commands <- {<<Buffer("RW", 1, 2), Buffer("R", 3, 1)>>, <<Buffer("W", 1, 3)>>,
                    <<Buffer("R", 0, 1), Buffer("RW", 1, 1), Buffer("W", 2, 2)>>,
                    <<Buffer("R", 0, 0), Buffer("RW", 0, 1)>>},
       MayLeave <- {}

region    == <<free_blocks, used, is_locked, result, held, stale, file>>
areas     == <<vma_map, page_table, areas_locked>>
resources == <<current, kind, owner, handles, status, tls, pages, alive>>
process   == memory_vars
buffers   == <<request, phase, memory, state, cells, mapped_buffer_context, asserted, expected>>
all       == <<part, region, areas, resources, process, buffers>>

AllInit ==
  /\ part \in {"region", "saved", "areas", "pages", "resources", "failures", "process",
              "requests", "sizes"}
  /\ IF part = "saved"    THEN L!Init ELSE R!Init
  /\ IF part = "pages"    THEN W!Init ELSE V!Init
  /\ Init
  /\ MemoryInit
  /\ IF part = "requests" THEN X!Init ELSE Y!Init

AllNext ==
  \/ part = "region"    /\ R!Next /\ UNCHANGED <<part, areas, resources, process, buffers>>
  \/ part = "saved"     /\ L!Next /\ UNCHANGED <<part, areas, resources, process, buffers>>
  \/ part = "areas"     /\ V!Next /\ UNCHANGED <<part, region, resources, process, buffers>>
  \/ part = "pages"     /\ W!Next /\ UNCHANGED <<part, region, resources, process, buffers>>
  \/ part = "resources" /\ Q!Next /\ UNCHANGED <<part, region, areas, process, buffers>>
  \/ part = "failures"  /\ Next /\ UNCHANGED <<part, region, areas, process, buffers>>
  \/ part = "process"   /\ MemoryNext /\ UNCHANGED <<part, region, areas, resources, buffers>>
  \/ part = "requests"  /\ X!Next /\ UNCHANGED <<part, region, areas, resources, process>>
  \/ part = "sizes"     /\ Y!Next /\ UNCHANGED <<part, region, areas, resources, process>>

AllSpec == AllInit /\ [][AllNext]_all

Symmetry == Permutations({p1, p2}) \cup Permutations({o1, o2, o3})

-----------------------------------------------------------------------------
\* The interval set implements the abstract pool of pages, and its free blocks
\* never touch.
ImplementsPages ==
  /\ part = "region" => R!Pool!Init
  /\ [][part = "region" => /\ R!Pool!Next \/ UNCHANGED <<free_blocks, result>>
                           /\ R!BlocksMerged']_all

\* Splitting and merging areas implements the operations of AddressSpace on
\* pages.
ImplementsAddressSpace ==
  /\ part = "pages" => W!Pages!Init
  /\ [][part = "pages" => W!Pages!Next
                          \/ \A p \in W!Page : W!PageOf(p)' = W!PageOf(p)]_all

\* The areas cover the address space once and in order, the page table says of
\* each page what its area says, and the operations succeed exactly when the pages
\* of their range allow it.  A region has all its pages across save states; objects
\* of processes that lose none are counted exactly.
MemorySound ==
  /\ part = "areas" => V!AreasCoverSpace /\ V!PageTableMatches /\ V!OutcomesExact
  /\ part = "saved" => L!PagesConserved
  /\ part = "resources" => Q!CountsExact /\ Q!OwnStorage

\* A reply brings back what the server wrote and leaves nothing behind; the
\* buffers that are mapped meanwhile have pages and guards of their own.
BuffersRestored ==
  [][/\ part = "requests" => X!RepliesExact /\ X!BuffersFramed' /\ X!BuffersReturned'
     /\ part = "sizes"    => Y!RepliesExact /\ Y!BuffersFramed' /\ Y!BuffersReturned']_all
=============================================================================
