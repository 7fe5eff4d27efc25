---------------------------- MODULE ProcessMemory ----------------------------
(***************************************************************************)
(* Who owns which page of FCRAM: the heaps of the processes (process.cpp), *)
(* memory mapped twice in a process, and blocks shared between processes   *)
(* (shared_memory.cpp), with the accounting of memory_used and of the      *)
(* resource limit's Commit value.  Address spaces and the region are taken *)
(* page by page: VMManager implements AddressSpace, MemoryRegion implements*)
(* PageAllocator.                                                          *)
(*                                                                         *)
(* Virtual pages 0 .. HeapPages-1 are the heap; page HeapPages + f is where*)
(* the linear heap shows page f of the region.                             *)
(***************************************************************************)
EXTENDS Processes, Integers, FiniteSets, FiniteSetsExt, Functions

CONSTANTS Block,       \* shared memory objects
          Frames,      \* pages of the region
          HeapPages,   \* virtual pages of each heap
          MaxSize,     \* pages an operation works on
          Careless,    \* what programs do that the kernel does not check:
                       \* "free" or "unmap" memory in any state, "share" what
                       \* is not theirs
          NoPage

VARIABLES free,        \* pages of the region that are free
          space,       \* [process -> [virtual page -> NoPage or a mapping]]
          holding,     \* holding_memory
          memory_used,
          commit,      \* ResourceLimitType::Commit
          block,       \* shared memory objects
          running,
          double_free  \* the assertion of MemoryRegionInfo::Free has failed

memory_vars == <<free, space, holding, memory_used, commit, block, running, double_free>>

Frame  == 0 .. Frames - 1
VPage  == 0 .. HeapPages + Frames - 1
Linear(f) == HeapPages + f
Extent(a, n) == a .. a + n - 1
HeapRanges   == {r \in (0 .. HeapPages - 1) \X (1 .. MaxSize) : r[1] + r[2] <= HeapPages}
LinearRanges == {r \in (HeapPages .. HeapPages + Frames - 1) \X (1 .. MaxSize) :
                   r[1] + r[2] <= HeapPages + Frames}

Mapping(state, frame) == [state |-> state, frame |-> frame]
Run(f, n) == [i \in 1 .. n |-> f + i - 1]
IsState(p, r, state) ==
  \A v \in Extent(r[1], r[2]) : space[p][v] # NoPage /\ space[p][v].state = state
Mapped(p, r) == \A v \in Extent(r[1], r[2]) : space[p][v] # NoPage
Unused(p, r) == \A v \in Extent(r[1], r[2]) : space[p][v] = NoPage
Behind(p, r) == [i \in 1 .. r[2] |-> space[p][r[1] + i - 1].frame]

MapTo(s, r, state, frames) ==
  [v \in VPage |-> IF v \in Extent(r[1], r[2]) THEN Mapping(state, frames[v - r[1] + 1]) ELSE s[v]]
Unmapped(s, r) == [v \in VPage |-> IF v \in Extent(r[1], r[2]) THEN NoPage ELSE s[v]]
Marked(s, r, state) ==
  [v \in VPage |-> IF v \in Extent(r[1], r[2]) THEN Mapping(state, s[v].frame) ELSE s[v]]

MemoryInit ==
  /\ free = Frame
  /\ space = [p \in Process |-> [v \in VPage |-> NoPage]]
  /\ holding = [p \in Process |-> {}]
  /\ memory_used = [p \in Process |-> 0]
  /\ commit = 0
  /\ block = [b \in Block |-> None]
  /\ running = Process
  /\ double_free = FALSE

-----------------------------------------------------------------------------
(* The heaps *)

\* Pages go to a process, or come back.
Took(p, fs) ==
  /\ free' = free \ fs
  /\ holding' = [holding EXCEPT ![p] = @ \cup fs]
  /\ memory_used' = [memory_used EXCEPT ![p] = @ + Cardinality(fs)]
  /\ commit' = commit + Cardinality(fs)
  /\ UNCHANGED <<block, running, double_free>>

GaveUncounted(p, fs, n) ==   \* mutant
  /\ free' = free \cup fs
  /\ holding' = [holding EXCEPT ![p] = @ \ fs]
  /\ memory_used' = [memory_used EXCEPT ![p] = @ - n]
  /\ double_free' = (double_free \/ fs \cap free # {})
  /\ UNCHANGED <<commit, block, running>>

Gave(p, fs, n) ==
  /\ free' = free \cup fs
  /\ holding' = [holding EXCEPT ![p] = @ \ fs]
  /\ memory_used' = [memory_used EXCEPT ![p] = @ - n]
  /\ commit' = commit - n
  /\ double_free' = (double_free \/ fs \cap free # {})
  /\ UNCHANGED <<block, running>>

\* The highest n free pages, in ascending order.
Highest(n) ==
  {q \in [1 .. n -> free] : /\ \A i, j \in 1 .. n : i < j => q[i] < q[j]
                           /\ \A f \in free : f >= q[1] => f \in Range(q)}

\* HeapAllocate: block by block from the highest free address.
HeapAllocate(p, r) ==
  /\ p \in running /\ Unused(p, r)
  /\ \E frames \in Highest(r[2]) :
       /\ Took(p, Range(frames))
       /\ space' = [space EXCEPT ![p] = MapTo(@, r, "Private", frames)]

FreeAnything(p, r, state) == TRUE   \* mutant

\* Programs free what they allocated, unless they are careless.
MayFree(p, r, state) == "free" \in Careless \/ IsState(p, r, state)

HeapFreeStillMapped(p, r) ==   \* mutant
  /\ p \in running /\ Mapped(p, r) /\ MayFree(p, r, "Private")
  /\ Gave(p, Range(Behind(p, r)), r[2])
  /\ UNCHANGED space

\* HeapFree: whatever memory is mapped there is given back.
HeapFree(p, r) ==
  /\ p \in running /\ Mapped(p, r) /\ MayFree(p, r, "Private")
  /\ Gave(p, Range(Behind(p, r)), r[2])
  /\ space' = [space EXCEPT ![p] = Unmapped(@, r)]

\* Where n pages in a row are free.
Runs(n) == {f \in Frame : f + n <= Frames /\ Extent(f, n) \subseteq free}

\* LinearAllocate: at the address asked for, or at the lowest there is.
LinearAllocate(p, f, n) ==
  /\ p \in running /\ f \in Runs(n)
  /\ Took(p, Extent(f, n))
  /\ space' = [space EXCEPT ![p] = MapTo(@, <<Linear(f), n>>, "Continuous", Run(f, n))]

\* LinearFree gives back the pages that belong to the addresses.
LinearFree(p, r) ==
  /\ p \in running /\ Mapped(p, r) /\ MayFree(p, r, "Continuous")
  /\ Gave(p, {v - HeapPages : v \in Extent(r[1], r[2])}, r[2])
  /\ space' = [space EXCEPT ![p] = Unmapped(@, r)]

MapUnmarked(p, target, r) ==   \* mutant
  /\ p \in running
  /\ IsState(p, r, "Private") /\ Unused(p, <<target, r[2]>>)
  /\ space' = [space EXCEPT ![p] = MapTo(@, <<target, r[2]>>, "Alias", Behind(p, r))]
  /\ UNCHANGED <<free, holding, memory_used, commit, block, running, double_free>>

\* Process::Map: memory of the heap appears a second time.
Map(p, target, r) ==
  /\ p \in running
  /\ IsState(p, r, "Private") /\ Unused(p, <<target, r[2]>>)
  /\ space' = [space EXCEPT ![p] = MapTo(Marked(@, r, "Aliased"), <<target, r[2]>>, "Alias",
                                         Behind(p, r))]
  /\ UNCHANGED <<free, holding, memory_used, commit, block, running, double_free>>

\* Process::Unmap.  Whatever is mapped at the target goes, then the source is
\* unmarked if it was marked; careful programs name a pair that Map has made.
Unmap(p, target, r) ==
  LET t == <<target, r[2]>>
      s == Unmapped(space[p], t)
  IN
  /\ p \in running /\ Mapped(p, t) /\ Extent(target, r[2]) \cap Extent(r[1], r[2]) = {}
  /\ \/ "unmap" \in Careless
     \/ IsState(p, t, "Alias") /\ IsState(p, r, "Aliased") /\ Behind(p, t) = Behind(p, r)
  /\ space' = [space EXCEPT ![p] = IF IsState(p, r, "Aliased") THEN Marked(s, r, "Private") ELSE s]
  /\ UNCHANGED <<free, holding, memory_used, commit, block, running, double_free>>

-----------------------------------------------------------------------------
(* Shared memory *)

\* CreateSharedMemory at address 0: a block with memory of its own.
CreateSharedMemory(p, b, n) ==
  LET f == Min(Runs(n)) IN
  /\ p \in running /\ block[b] = None /\ Runs(n) # {}
  /\ free' = free \ Extent(f, n)
  /\ block' = [block EXCEPT ![b] = [owner |-> p, base |-> None, size |-> n, users |-> {p},
                                    frames |-> Run(f, n), holding |-> Extent(f, n)]]
  /\ memory_used' = [memory_used EXCEPT ![p] = @ + n]
  /\ UNCHANGED <<space, holding, commit, running, double_free>>

\* CreateSharedMemory over memory of the process, which is locked meanwhile.  If
\* that fails the destructor of the half-made block takes it for one of the
\* other kind.
ShareMemory(p, b, r) ==
  /\ p \in running /\ block[b] = None
  /\ "share" \in Careless \/ IsState(p, r, "Private")
  /\ IF IsState(p, r, "Private")
     THEN /\ space' = [space EXCEPT ![p] = Marked(@, r, "Locked")]
          /\ block' = [block EXCEPT ![b] = [owner |-> p, base |-> r[1], size |-> r[2], users |-> {p},
                                            frames |-> Behind(p, r), holding |-> {}]]
          /\ UNCHANGED memory_used
     ELSE /\ memory_used' = [memory_used EXCEPT ![p] = @ - r[2]]
          /\ UNCHANGED <<space, block>>
  /\ UNCHANGED <<free, holding, commit, running, double_free>>

\* A message gives another process a handle.
Receive(q, b) ==
  /\ q \in running /\ block[b] # None /\ q \notin block[b].users
  /\ block' = [block EXCEPT ![b].users = @ \cup {q}]
  /\ UNCHANGED <<free, space, holding, memory_used, commit, running, double_free>>

\* SharedMemory::Map, at an address of the heap or where the linear heap has it.
MapShared(q, b, a) ==
  LET r == <<a, block[b].size>> IN
  /\ q \in running /\ block[b] # None /\ q \in block[b].users
  /\ r \in HeapRanges \/ (block[b].base = None /\ a = Linear(block[b].frames[1]))
  /\ Unused(q, r)
  /\ space' = [space EXCEPT ![q] = MapTo(@, r, "Shared", block[b].frames)]
  /\ UNCHANGED <<free, holding, memory_used, commit, block, running, double_free>>

UnmapShared(q, b, a) ==
  LET r == <<a, block[b].size>> IN
  /\ q \in running /\ block[b] # None /\ q \in block[b].users
  /\ r \in HeapRanges \cup LinearRanges /\ IsState(q, r, "Shared")
  /\ Behind(q, r) = block[b].frames
  /\ space' = [space EXCEPT ![q] = Unmapped(@, r)]
  /\ UNCHANGED <<free, holding, memory_used, commit, block, running, double_free>>

Shows(q, b) == \E v \in VPage : /\ space[q][v] # NoPage /\ space[q][v].state = "Shared"
                                /\ space[q][v].frame \in Range(block[b].frames)

\* Blocks of a set that lose their last handle when q drops its own.
Dying(q, bs) == {b \in bs : block[b] # None /\ block[b].users = {q}}

Dropped(q, bs) ==
  [b \in Block |-> IF b \in Dying(q, bs) THEN None
                   ELSE IF b \in bs /\ block[b] # None THEN [block[b] EXCEPT !.users = @ \ {q}]
                   ELSE block[b]]

StaysLocked(dying, p) == space[p]   \* mutant

\* ~SharedMemory: lent memory is unlocked in its process ...
Unlocked(dying, p) ==
  [v \in VPage |-> IF \E b \in dying : /\ block[b].owner = p /\ block[b].base # None
                                       /\ v \in Extent(block[b].base, block[b].size)
                   THEN Mapping("Private", space[p][v].frame) ELSE space[p][v]]

ReturnedIfLent(dying) == UNION {block[b].holding : b \in {c \in dying : block[c].base # None}}   \* mutant

\* ... and memory of the block's own is given back.
Returned(dying) == UNION {block[b].holding : b \in dying}

ReturnedOf(dying, p) == Returned({b \in dying : block[b].owner = p})

\* A process closes its handle when it has unmapped the block.
CloseShared(q, b) ==
  LET dying == Dying(q, {b}) IN
  /\ q \in running /\ block[b] # None /\ q \in block[b].users /\ ~ Shows(q, b)
  /\ block' = Dropped(q, {b})
  /\ free' = free \cup Returned(dying)
  /\ space' = [p \in Process |-> IF p \in running THEN Unlocked(dying, p) ELSE space[p]]
  /\ memory_used' = [p \in Process |-> memory_used[p] - IF p \in running
                                       THEN Cardinality(ReturnedOf(dying, p)) ELSE 0]
  /\ double_free' = (double_free \/ Returned(dying) \cap free # {})
  /\ UNCHANGED <<holding, commit, running>>

\* ~Process: the handle table is cleared, and FreeAllMemory gives back what the
\* process holds.  Nobody else uses memory that the process has lent.
Exit(q) ==
  LET dying == Dying(q, Block) IN
  /\ q \in running
  /\ \A b \in Block : block[b] # None /\ block[b].owner = q /\ block[b].base # None
                       => block[b].users \subseteq {q}
  /\ running' = running \ {q}
  /\ block' = Dropped(q, Block)
  /\ free' = free \cup Returned(dying) \cup holding[q]
  /\ holding' = [holding EXCEPT ![q] = {}]
  /\ memory_used' = [p \in Process |-> memory_used[p] -
                       IF p = q THEN Cardinality(holding[q])
                       ELSE IF p \in running THEN Cardinality(ReturnedOf(dying, p)) ELSE 0]
  /\ commit' = commit - Cardinality(holding[q])
  /\ double_free' = (double_free \/ (holding[q] \cup Returned(dying)) \cap free # {})
  /\ space' = [p \in Process |-> IF p = q THEN [v \in VPage |-> NoPage]
                                 ELSE IF p \in running THEN Unlocked(dying, p) ELSE space[p]]

MemoryNext ==
  \/ \E p \in Process :
       \/ \E r \in HeapRanges :
            \/ HeapAllocate(p, r) \/ HeapFree(p, r)
            \/ \E t \in 0 .. HeapPages - r[2] : Map(p, t, r) \/ Unmap(p, t, r)
            \/ \E b \in Block : ShareMemory(p, b, r)
       \/ \E r \in LinearRanges : LinearFree(p, r)
       \/ \E n \in 1 .. MaxSize : \/ \E f \in Frame : LinearAllocate(p, f, n)
                              \/ \E b \in Block : CreateSharedMemory(p, b, n)
       \/ \E b \in Block : \/ Receive(p, b) \/ CloseShared(p, b)
                           \/ \E a \in VPage : MapShared(p, b, a) \/ UnmapShared(p, b, a)
       \/ Exit(p)

MemorySpec == MemoryInit /\ [][MemoryNext]_memory_vars

-----------------------------------------------------------------------------
Blocks == {b \in Block : block[b] # None}

\* Every page of the region is free, held by one process or held by one block:
\* nothing leaks and nothing has two owners, whoever exits or closes first.
PagesHaveOneOwner ==
  /\ \A f \in Frame \ free :
       Cardinality({p \in Process : f \in holding[p]})
         + Cardinality({b \in Blocks : f \in block[b].holding}) = 1
  /\ \A p \in Process : holding[p] \cap free = {}
  /\ \A b \in Blocks : block[b].holding \cap free = {}

\* No address space shows a page that was given back, and none shows a page of
\* another process that is not shared with it (vm_manager.cpp:384).
MappingsBacked ==
  \A p \in running, v \in VPage : space[p][v] # NoPage =>
    /\ space[p][v].frame \notin free
    /\ \/ space[p][v].frame \in holding[p]
       \/ \E b \in Blocks : p \in block[b].users /\ space[p][v].frame \in Range(block[b].frames)

\* memory_used, which programs can ask for, and the Commit value count the pages
\* exactly; blocks count for the process that made them (shared_memory.cpp:63:
\* "Increase the amount of used linear heap memory for the owner process.").
AccountsExact ==
  /\ commit = Cardinality(UNION {holding[p] : p \in Process})
  /\ \A p \in running : memory_used[p] = Cardinality(holding[p])
       + Cardinality(UNION {block[b].holding : b \in {c \in Blocks : block[c].owner = p}})

\* Memory is locked as long as a block shares it, and not longer: the process
\* could not use or free it again (shared_memory.cpp:29).
LockedWhileShared ==
  \A p \in running, v \in VPage : space[p][v] # NoPage /\ space[p][v].state = "Locked" =>
    \E b \in Blocks : block[b].owner = p /\ block[b].base # None
                      /\ v \in Extent(block[b].base, block[b].size)

\* Aliased memory has its second mapping, and each second mapping its source:
\* memory left marked could never be aliased or shared again.  process.cpp:583
\* wants Unmap to "check that the source and the target are actually a pair
\* created by Map".
AliasesPaired ==
  \A p \in running, v \in VPage : space[p][v] # NoPage =>
    /\ space[p][v].state = "Aliased" => Mapping("Alias", space[p][v].frame) \in {space[p][w] : w \in VPage}
    /\ space[p][v].state = "Alias" => Mapping("Aliased", space[p][v].frame) \in {space[p][w] : w \in VPage}

\* memory.cpp:368 asserts of the memory that is freed: "must be allocated
\* blocks".
FreesAllocated == ~ double_free

\* process.cpp:399 asserts of LinearAllocate that the address of a free page is
\* not in use: `ASSERT(vma.Succeeded());`.
LinearFits == \A p \in running, f \in free : space[p][Linear(f)] = NoPage

\* A mapped page is held, and by one; aliases exist at both ends, what is shared
\* stays locked, only what is allocated is freed, a free page can be shown at its
\* linear address, and the accounts of a process's memory agree (process.cpp:328,
\* shared_memory.cpp:20, memory.cpp:368).
MemoryOwned ==
  /\ PagesHaveOneOwner /\ MappingsBacked /\ AliasesPaired /\ LockedWhileShared
  /\ FreesAllocated /\ LinearFits /\ AccountsExact
=============================================================================
