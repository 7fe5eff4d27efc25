---------------------------- MODULE MemoryProofs ----------------------------
(***************************************************************************)
(* Who owns the pages of FCRAM, for any number of processes, blocks and    *)
(* pages.                                                                  *)
(*                                                                         *)
(* That a page which is given back is shown by nobody needs to know how a  *)
(* page can be shown: once by its owner, in one of four states, a second   *)
(* time by an alias, whose source is marked, and elsewhere through a block *)
(* that its owner's mapping is locked for or that holds it.  What a program*)
(* may free is in none of the marked states, so nothing else shows it.     *)
(***************************************************************************)
EXTENDS ProcessMemory, FiniteSetTheorems, WellFoundedInduction, TLAPS

\* The states of memory that a process holds itself, and all states.
OwnStates == {"Private", "Aliased", "Locked", "Continuous"}
States    == OwnStates \cup {"Alias", "Shared"}
Maps      == [state : States, frame : Frame]
BlockRecords ==
  [owner : Process, base : Nat \cup {None}, size : 1 .. MaxSize, users : SUBSET Process,
   frames : UNION {[1 .. n -> Frame] : n \in 1 .. MaxSize}, holding : SUBSET Frame]

\* What the parameters stand for.  Programs free what they allocated and unmap
\* what they mapped; whether they share what is not theirs is left open.
Parameters ==
  /\ Frames \in Nat /\ HeapPages \in Nat /\ MaxSize \in Nat
  /\ NoPage \notin Maps /\ NoPage \notin States /\ None \notin Nat /\ None \notin BlockRecords
  /\ "free" \notin Careless /\ "unmap" \notin Careless

\* What an address space says of a page.
StateOf(p, v) == IF space[p][v] = NoPage THEN NoPage ELSE space[p][v].state
FrameOf(p, v) == space[p][v].frame

MemoryTypes ==
  /\ free \subseteq Frame
  /\ space \in [Process -> [VPage -> Maps \cup {NoPage}]]
  /\ holding \in [Process -> SUBSET Frame]
  /\ memory_used \in [Process -> Int]
  /\ commit \in Int
  /\ block \in [Block -> BlockRecords \cup {None}]
  /\ running \subseteq Process
  /\ double_free \in BOOLEAN

\* Pages are free, of a process or of a block, and one of these.
OneOwner ==
  /\ \A f \in Frame : \/ f \in free
                      \/ \E p \in Process : f \in holding[p]
                      \/ \E b \in Block : block[b] # None /\ f \in block[b].holding
  /\ \A p \in Process : holding[p] \cap free = {}
  /\ \A p, q \in Process : p # q => holding[p] \cap holding[q] = {}
  /\ \A b \in Block : block[b] # None =>
       /\ block[b].holding \cap free = {}
       /\ \A p \in Process : block[b].holding \cap holding[p] = {}
       /\ \A c \in Block : block[c] # None /\ b # c => block[b].holding \cap block[c].holding = {}
  /\ \A p \in Process : p \notin running => holding[p] = {}

\* A process shows each page of its own once, apart from aliases.
OwnMapped ==
  \A p \in running, v \in VPage : StateOf(p, v) \in OwnStates =>
    /\ FrameOf(p, v) \in holding[p]
    /\ \A w \in VPage : StateOf(p, w) \in OwnStates /\ FrameOf(p, w) = FrameOf(p, v) => w = v

\* Aliases and their sources are pairs.
AliasMapped ==
  \A p \in running, v \in VPage :
    /\ StateOf(p, v) = "Aliased" =>
         \E w \in VPage : StateOf(p, w) = "Alias" /\ FrameOf(p, w) = FrameOf(p, v)
    /\ StateOf(p, v) = "Alias" =>
         /\ \E w \in VPage : StateOf(p, w) = "Aliased" /\ FrameOf(p, w) = FrameOf(p, v)
         /\ \A w \in VPage : StateOf(p, w) = "Alias" /\ FrameOf(p, w) = FrameOf(p, v) => w = v

\* Linear addresses show the page that belongs to them.
LinearMapped ==
  \A p \in running, v \in VPage : StateOf(p, v) # NoPage =>
    /\ v >= HeapPages => /\ FrameOf(p, v) = v - HeapPages
                         /\ StateOf(p, v) \in {"Continuous", "Shared"}
    /\ StateOf(p, v) = "Continuous" => v >= HeapPages

\* What is shown as shared is of a block the process has a handle to.
SharedMapped ==
  \A p \in running, v \in VPage : StateOf(p, v) = "Shared" =>
    \E b \in Block : /\ block[b] # None /\ p \in block[b].users
                     /\ \E i \in 1 .. block[b].size : block[b].frames[i] = FrameOf(p, v)

\* Memory is locked for a block, and as long as there is one.
Lends(b, p) == block[b] # None /\ block[b].base # None /\ block[b].owner = p
LockedLent ==
  \A p \in running, v \in VPage : StateOf(p, v) = "Locked" =>
    \E b \in Block : Lends(b, p) /\ v \in Extent(block[b].base, block[b].size)

BlocksUsed ==
  \A b \in Block : block[b] # None =>
    /\ block[b].users # {} /\ block[b].users \subseteq running
    /\ block[b].frames \in [1 .. block[b].size -> Frame]

\* A block has a run of pages of its own, or pages its owner has locked.
BlocksOwn ==
  \A b \in Block : block[b] # None /\ block[b].base = None =>
    \A i \in 1 .. block[b].size : /\ block[b].frames[i] = block[b].frames[1] + i - 1
                                  /\ block[b].frames[i] \in block[b].holding

BlocksLent ==
  \A b \in Block, p \in Process : Lends(b, p) =>
    /\ p \in running /\ block[b].holding = {} /\ block[b].base + block[b].size <= HeapPages
    /\ \A v \in Extent(block[b].base, block[b].size) :
         StateOf(p, v) = "Locked" /\ FrameOf(p, v) = block[b].frames[v - block[b].base + 1]
    /\ \A c \in Block : Lends(c, p) /\ b # c =>
         Extent(block[b].base, block[b].size) \cap Extent(block[c].base, block[c].size) = {}

\* What the blocks of a process hold.
BlockPages(p) == UNION {block[b].holding : b \in {c \in Block : block[c] # None /\ block[c].owner = p}}
Commits  == commit = Cardinality(UNION {holding[p] : p \in Process})
Accounts == "share" \notin Careless => \A p \in running :
              memory_used[p] = Cardinality(holding[p]) + Cardinality(BlockPages(p))

MemoryInv ==
  /\ MemoryTypes /\ OneOwner /\ OwnMapped /\ AliasMapped /\ LinearMapped /\ SharedMapped
  /\ LockedLent /\ BlocksUsed /\ BlocksOwn /\ BlocksLent
  /\ Commits /\ Accounts /\ double_free = FALSE

-----------------------------------------------------------------------------
(* Pages, ranges and mappings *)

\* A range of the heap.
LEMMA HeapRangeFacts ==
  ASSUME Parameters, NEW r \in HeapRanges
  PROVE  /\ r[1] \in Nat /\ r[2] \in Nat /\ r[2] >= 1 /\ r[2] \in 1 .. MaxSize
         /\ r[1] + r[2] <= HeapPages
         /\ \A v \in Extent(r[1], r[2]) : v \in VPage /\ v < HeapPages /\ v - r[1] + 1 \in 1 .. r[2]
PROOF
  BY DEF Parameters, HeapRanges, Extent, VPage

\* A range of the linear heap.
LEMMA LinearRangeFacts ==
  ASSUME Parameters, NEW r \in LinearRanges
  PROVE  /\ r[1] \in Nat /\ r[2] \in Nat /\ r[2] >= 1
         /\ r[1] >= HeapPages /\ r[1] + r[2] <= HeapPages + Frames
         /\ \A v \in Extent(r[1], r[2]) : v \in VPage /\ v >= HeapPages /\ v - HeapPages \in Frame
PROOF
  BY DEF Parameters, LinearRanges, Extent, VPage, Frame

\* A mapping is not a free page, and says what was mapped.
LEMMA MappingFacts ==
  ASSUME Parameters, NEW s \in States, NEW f \in Frame
  PROVE  /\ Mapping(s, f) \in Maps /\ Mapping(s, f) # NoPage
         /\ Mapping(s, f).state = s /\ Mapping(s, f).frame = f
PROOF
  BY DEF Parameters, Mapping, Maps

\* What an address space says has its type.
LEMMA PageFacts ==
  ASSUME Parameters, MemoryTypes, NEW p \in Process, NEW v \in VPage
  PROVE  /\ StateOf(p, v) \in States \cup {NoPage}
         /\ StateOf(p, v) = NoPage <=> space[p][v] = NoPage
         /\ StateOf(p, v) # NoPage => /\ FrameOf(p, v) \in Frame
                                    /\ space[p][v] = Mapping(StateOf(p, v), FrameOf(p, v))
PROOF
<1>1. space[p][v] \in Maps \cup {NoPage}
  BY DEF MemoryTypes
<1>2. CASE space[p][v] = NoPage
  BY <1>2 DEF StateOf
<1>3. CASE space[p][v] \in Maps
  <2>1. space[p][v] # NoPage /\ NoPage \notin States
    BY <1>3 DEF Parameters
  <2>2. /\ space[p][v].state \in States /\ space[p][v].frame \in Frame
        /\ space[p][v] = Mapping(space[p][v].state, space[p][v].frame)
    BY <1>3 DEF Maps, Mapping
  <2> QED
    BY <2>1, <2>2 DEF StateOf, FrameOf
<1> QED
  BY <1>1, <1>2, <1>3

\* Memory of one process is mapped over a range.
LEMMA MapToStep ==
  ASSUME Parameters, MemoryTypes, NEW p \in Process, NEW r, r[1] \in Nat, r[2] \in Nat,
         NEW s \in States, NEW frames \in [1 .. r[2] -> Frame],
         space' = [space EXCEPT ![p] = MapTo(@, r, s, frames)]
  PROVE  /\ space' \in [Process -> [VPage -> Maps \cup {NoPage}]]
         /\ \A v \in VPage : v \in Extent(r[1], r[2]) =>
              StateOf(p, v)' = s /\ FrameOf(p, v)' = frames[v - r[1] + 1]
         /\ \A v \in VPage : v \notin Extent(r[1], r[2]) =>
              StateOf(p, v)' = StateOf(p, v) /\ FrameOf(p, v)' = FrameOf(p, v)
         /\ \A q \in Process, v \in VPage : q # p =>
              StateOf(q, v)' = StateOf(q, v) /\ FrameOf(q, v)' = FrameOf(q, v)
PROOF
<1>1. space \in [Process -> [VPage -> Maps \cup {NoPage}]]
  BY DEF MemoryTypes
<1>2. PICK t : t = MapTo(space[p], r, s, frames)
  OBVIOUS
<1>3. \A v \in Extent(r[1], r[2]) : /\ v - r[1] + 1 \in 1 .. r[2]
                                    /\ frames[v - r[1] + 1] \in Frame
  BY DEF Extent
<1>4. \A v \in VPage : v \in Extent(r[1], r[2]) =>
        t[v] = Mapping(s, frames[v - r[1] + 1]) /\ t[v] \in Maps /\ t[v] # NoPage
        /\ t[v].state = s /\ t[v].frame = frames[v - r[1] + 1]
  BY <1>2, <1>3, MappingFacts DEF MapTo
<1>5. \A v \in VPage : v \notin Extent(r[1], r[2]) => t[v] = space[p][v]
  BY <1>2 DEF MapTo
<1>6. t \in [VPage -> Maps \cup {NoPage}]
  <2>1. \A v \in VPage : t[v] \in Maps \cup {NoPage}
    BY <1>1, <1>4, <1>5
  <2> QED
    BY <1>2, <2>1 DEF MapTo
<1>7. space' = [space EXCEPT ![p] = t]
  BY <1>2
<1>8. space'[p] = t /\ \A q \in Process : q # p => space'[q] = space[q]
  BY <1>1, <1>7
<1> QED
  BY <1>1, <1>4, <1>5, <1>6, <1>7, <1>8 DEF StateOf, FrameOf

\* A range of one process is unmapped.
LEMMA UnmapStep ==
  ASSUME Parameters, MemoryTypes, NEW p \in Process, NEW r,
         space' = [space EXCEPT ![p] = Unmapped(@, r)]
  PROVE  /\ space' \in [Process -> [VPage -> Maps \cup {NoPage}]]
         /\ \A v \in VPage : v \in Extent(r[1], r[2]) => StateOf(p, v)' = NoPage
         /\ \A v \in VPage : v \notin Extent(r[1], r[2]) =>
              StateOf(p, v)' = StateOf(p, v) /\ FrameOf(p, v)' = FrameOf(p, v)
         /\ \A q \in Process, v \in VPage : q # p =>
              StateOf(q, v)' = StateOf(q, v) /\ FrameOf(q, v)' = FrameOf(q, v)
PROOF
<1>1. space \in [Process -> [VPage -> Maps \cup {NoPage}]]
  BY DEF MemoryTypes
<1>2. PICK t : t = Unmapped(space[p], r)
  OBVIOUS
<1>3. /\ \A v \in VPage : v \in Extent(r[1], r[2]) => t[v] = NoPage
      /\ \A v \in VPage : v \notin Extent(r[1], r[2]) => t[v] = space[p][v]
  BY <1>2 DEF Unmapped
<1>4. t \in [VPage -> Maps \cup {NoPage}]
  <2>1. \A v \in VPage : t[v] \in Maps \cup {NoPage}
    BY <1>1, <1>3
  <2> QED
    BY <1>2, <2>1 DEF Unmapped
<1>5. space' = [space EXCEPT ![p] = t]
  BY <1>2
<1>6. space'[p] = t /\ \A q \in Process : q # p => space'[q] = space[q]
  BY <1>1, <1>5
<1> QED
  BY <1>1, <1>3, <1>4, <1>5, <1>6 DEF StateOf, FrameOf

\* A range of one process is marked.
LEMMA MarkStep ==
  ASSUME Parameters, MemoryTypes, NEW p \in Process, NEW r, NEW s \in States, Mapped(p, r),
         \A v \in Extent(r[1], r[2]) : v \in VPage,
         space' = [space EXCEPT ![p] = Marked(@, r, s)]
  PROVE  /\ space' \in [Process -> [VPage -> Maps \cup {NoPage}]]
         /\ \A v \in VPage : FrameOf(p, v)' = FrameOf(p, v)
         /\ \A v \in VPage : v \in Extent(r[1], r[2]) => StateOf(p, v)' = s
         /\ \A v \in VPage : v \notin Extent(r[1], r[2]) => StateOf(p, v)' = StateOf(p, v)
         /\ \A q \in Process, v \in VPage : q # p =>
              StateOf(q, v)' = StateOf(q, v) /\ FrameOf(q, v)' = FrameOf(q, v)
PROOF
<1>1. space \in [Process -> [VPage -> Maps \cup {NoPage}]]
  BY DEF MemoryTypes
<1>2. PICK t : t = Marked(space[p], r, s)
  OBVIOUS
<1>3. \A v \in Extent(r[1], r[2]) : space[p][v] \in Maps /\ space[p][v].frame \in Frame
  BY <1>1 DEF Mapped, Maps
<1>4. \A v \in VPage : v \in Extent(r[1], r[2]) =>
        /\ t[v] \in Maps /\ t[v] # NoPage
        /\ t[v].state = s /\ t[v].frame = space[p][v].frame
  BY <1>2, <1>3, MappingFacts DEF Marked
<1>5. \A v \in VPage : v \notin Extent(r[1], r[2]) => t[v] = space[p][v]
  BY <1>2 DEF Marked
<1>6. t \in [VPage -> Maps \cup {NoPage}]
  <2>1. \A v \in VPage : t[v] \in Maps \cup {NoPage}
    BY <1>1, <1>4, <1>5
  <2> QED
    BY <1>2, <2>1 DEF Marked
<1>7. space' = [space EXCEPT ![p] = t]
  BY <1>2
<1>8. space'[p] = t /\ \A q \in Process : q # p => space'[q] = space[q]
  BY <1>1, <1>7
<1> QED
  BY <1>1, <1>4, <1>5, <1>6, <1>7, <1>8 DEF StateOf, FrameOf

\* Conditions on a range, in terms of what the address space says.
LEMMA RangeStates ==
  ASSUME Parameters, MemoryTypes, NEW p \in Process, NEW r, r[1] \in Nat, r[2] \in Nat,
         \A v \in Extent(r[1], r[2]) : v \in VPage
  PROVE  /\ \A s \in States : IsState(p, r, s) <=> \A v \in Extent(r[1], r[2]) : StateOf(p, v) = s
         /\ Mapped(p, r) <=> \A v \in Extent(r[1], r[2]) : StateOf(p, v) # NoPage
         /\ Unused(p, r) <=> \A v \in Extent(r[1], r[2]) : StateOf(p, v) = NoPage
         /\ \A s \in States : IsState(p, r, s) => Mapped(p, r)
         /\ \A i \in 1 .. r[2] : /\ r[1] + i - 1 \in Extent(r[1], r[2])
                                 /\ Behind(p, r)[i] = FrameOf(p, r[1] + i - 1)
PROOF
<1>1. NoPage \notin States
  BY DEF Parameters
<1>2. \A v \in Extent(r[1], r[2]) : /\ StateOf(p, v) = NoPage <=> space[p][v] = NoPage
                                    /\ space[p][v] # NoPage => StateOf(p, v) = space[p][v].state
  BY PageFacts DEF StateOf
<1>3. /\ \A s \in States : IsState(p, r, s) <=> \A v \in Extent(r[1], r[2]) : StateOf(p, v) = s
      /\ \A s \in States : IsState(p, r, s) => Mapped(p, r)
  BY <1>1, <1>2 DEF IsState, Mapped
<1>4. /\ Mapped(p, r) <=> \A v \in Extent(r[1], r[2]) : StateOf(p, v) # NoPage
      /\ Unused(p, r) <=> \A v \in Extent(r[1], r[2]) : StateOf(p, v) = NoPage
  BY <1>2 DEF Mapped, Unused
<1>5. \A i \in 1 .. r[2] : r[1] + i - 1 \in Extent(r[1], r[2])
  BY DEF Extent
<1>6. \A i \in 1 .. r[2] : Behind(p, r)[i] = FrameOf(p, r[1] + i - 1)
  BY DEF Behind, FrameOf
<1> QED
  BY <1>3, <1>4, <1>5, <1>6

\* What a block says has its type.
LEMMA BlockFacts ==
  ASSUME Parameters, MemoryTypes, NEW b \in Block, block[b] # None
  PROVE  /\ block[b] \in BlockRecords
         /\ block[b].owner \in Process /\ block[b].users \in SUBSET Process
         /\ block[b].size \in Nat /\ block[b].size >= 1 /\ block[b].size \in 1 .. MaxSize
         /\ block[b].base # None => block[b].base \in Nat
         /\ block[b].holding \in SUBSET Frame
PROOF
<1>1. block[b] \in BlockRecords
  BY DEF MemoryTypes
<1>2. /\ block[b].owner \in Process /\ block[b].users \in SUBSET Process
      /\ block[b].size \in 1 .. MaxSize /\ block[b].base \in Nat \cup {None}
      /\ block[b].holding \in SUBSET Frame
  BY <1>1 DEF BlockRecords
<1> QED
  BY <1>1, <1>2 DEF Parameters

\* Sets of pages are finite.
LEMMA PagesFinite ==
  ASSUME Parameters
  PROVE  /\ IsFiniteSet(Frame)
         /\ \A S \in SUBSET Frame : IsFiniteSet(S) /\ Cardinality(S) \in Nat
PROOF
<1>1. IsFiniteSet(Frame)
  BY FS_Interval DEF Parameters, Frame
<1> QED
  BY <1>1, FS_Subset, FS_CardinalityType

\* Disjoint sets of pages are counted together.
LEMMA CountBoth ==
  ASSUME Parameters, NEW S \in SUBSET Frame, NEW T \in SUBSET Frame, S \cap T = {}
  PROVE  Cardinality(S \cup T) = Cardinality(S) + Cardinality(T)
PROOF
<1>1. IsFiniteSet(S) /\ IsFiniteSet(T) /\ Cardinality(S) \in Nat /\ Cardinality(T) \in Nat
  BY PagesFinite
<1>2. Cardinality(S \cap T) = 0
  BY FS_EmptySet
<1>3. Cardinality(S \cup T) = Cardinality(S) + Cardinality(T) - Cardinality(S \cap T)
  BY <1>1, FS_Union
<1> QED
  BY <1>1, <1>2, <1>3

\* Different pages behind the numbers 1 to n are n pages.
LEMMA CountBehind ==
  ASSUME NEW n \in Nat, NEW S, NEW g \in [1 .. n -> S],
         \A i, j \in 1 .. n : g[i] = g[j] => i = j, \A f \in S : \E i \in 1 .. n : g[i] = f
  PROVE  Cardinality(S) = n
PROOF
<1>1. g \in Bijection(1 .. n, S)
  BY DEF Bijection, Injection, Surjection, IsInjective
<1>2. IsFiniteSet(1 .. n) /\ Cardinality(1 .. n) = n
  BY FS_Interval
<1> QED
  BY <1>1, <1>2, FS_Bijection DEF ExistsBijection

-----------------------------------------------------------------------------
(* Who owns a page, and the accounts *)

\* All pages that processes hold.
HeldPages == UNION {holding[p] : p \in Process}

\* What processes and their blocks hold are pages of the region.
LEMMA HeldFacts ==
  ASSUME Parameters, MemoryTypes
  PROVE  /\ HeldPages \in SUBSET Frame
         /\ \A p \in Process : BlockPages(p) \in SUBSET Frame /\ holding[p] \in SUBSET Frame
PROOF
<1>1. \A p \in Process : holding[p] \in SUBSET Frame
  BY DEF MemoryTypes
<1>2. \A b \in Block : block[b] # None => block[b].holding \in SUBSET Frame
  BY DEF MemoryTypes, BlockRecords
<1> QED
  BY <1>1, <1>2 DEF HeldPages, BlockPages

\* A process takes free pages.
LEMMA TookKeeps ==
  ASSUME Parameters, MemoryInv, NEW p \in Process, p \in running, NEW fs \in SUBSET free, Took(p, fs)
  PROVE  /\ free' \subseteq Frame /\ holding' \in [Process -> SUBSET Frame]
         /\ memory_used' \in [Process -> Int] /\ commit' \in Int
         /\ holding'[p] = holding[p] \cup fs /\ \A q \in Process : q # p => holding'[q] = holding[q]
         /\ OneOwner' /\ Commits' /\ Accounts'
PROOF
<1> USE DEF MemoryInv
<1>1. fs \in SUBSET Frame /\ free \subseteq Frame
  BY DEF MemoryTypes
<1>2. Cardinality(fs) \in Nat
  BY <1>1, PagesFinite
<1>3. /\ free' = free \ fs /\ holding' = [holding EXCEPT ![p] = @ \cup fs]
      /\ memory_used' = [memory_used EXCEPT ![p] = @ + Cardinality(fs)]
      /\ commit' = commit + Cardinality(fs) /\ block' = block /\ running' = running
  BY DEF Took
<1>4. holding'[p] = holding[p] \cup fs /\ \A q \in Process : q # p => holding'[q] = holding[q]
  BY <1>3 DEF MemoryTypes
<1>5. /\ memory_used'[p] = memory_used[p] + Cardinality(fs)
      /\ \A q \in Process : q # p => memory_used'[q] = memory_used[q]
  BY <1>3 DEF MemoryTypes
<1>6. /\ free' \subseteq Frame /\ holding' \in [Process -> SUBSET Frame]
      /\ memory_used' \in [Process -> Int] /\ commit' \in Int
  BY <1>1, <1>2, <1>3 DEF MemoryTypes
<1>7. OneOwner'
  BY <1>1, <1>3, <1>4 DEF OneOwner
<1>8. Commits'
  <2>1. HeldPages' = HeldPages \cup fs
    BY <1>3, <1>4 DEF HeldPages
  <2>2. HeldPages \cap fs = {}
    BY DEF OneOwner, HeldPages
  <2>3. Cardinality(HeldPages') = Cardinality(HeldPages) + Cardinality(fs)
    BY <1>1, <2>1, <2>2, HeldFacts, CountBoth
  <2> QED
    BY <1>3, <2>3 DEF Commits, HeldPages
<1>9. Accounts'
  <2> SUFFICES ASSUME "share" \notin Careless, NEW q \in running
               PROVE  memory_used'[q] = Cardinality(holding'[q]) + Cardinality(BlockPages(q)')
    BY <1>3 DEF Accounts
  <2>1. BlockPages(q)' = BlockPages(q)
    BY <1>3 DEF BlockPages
  <2>2. q \in Process /\ memory_used[q] = Cardinality(holding[q]) + Cardinality(BlockPages(q))
    BY DEF Accounts, MemoryTypes
  <2>3. CASE q # p
    BY <1>4, <1>5, <2>1, <2>2, <2>3
  <2>4. CASE q = p
    <3>1. holding[p] \cap fs = {}
      BY DEF OneOwner
    <3>2. Cardinality(holding[p] \cup fs) = Cardinality(holding[p]) + Cardinality(fs)
      BY <1>1, <3>1, HeldFacts, CountBoth
    <3>3. Cardinality(holding[p]) \in Nat /\ Cardinality(BlockPages(p)) \in Nat
      BY HeldFacts, PagesFinite
    <3>4. memory_used'[p] = Cardinality(holding'[p]) + Cardinality(BlockPages(p))
      BY <1>2, <1>4, <1>5, <2>2, <2>4, <3>2, <3>3
    <3>5. BlockPages(p)' = BlockPages(p)
      BY <1>3 DEF BlockPages
    <3> QED
      BY <2>4, <3>4, <3>5
  <2> QED
    BY <2>3, <2>4
<1> QED
  BY <1>4, <1>6, <1>7, <1>8, <1>9

\* A process gives pages back, and counts them right.
LEMMA GaveKeeps ==
  ASSUME Parameters, MemoryInv, NEW p \in Process, p \in running, NEW fs \in SUBSET holding[p],
         Gave(p, fs, Cardinality(fs))
  PROVE  /\ free' \subseteq Frame /\ holding' \in [Process -> SUBSET Frame]
         /\ memory_used' \in [Process -> Int] /\ commit' \in Int /\ double_free' = FALSE
         /\ holding'[p] = holding[p] \ fs /\ \A q \in Process : q # p => holding'[q] = holding[q]
         /\ OneOwner' /\ Commits' /\ Accounts'
PROOF
<1> USE DEF MemoryInv
<1>1. fs \in SUBSET Frame /\ free \subseteq Frame /\ holding[p] \in SUBSET Frame
  BY DEF MemoryTypes
<1>2. Cardinality(fs) \in Nat
  BY <1>1, PagesFinite
<1>3. /\ free' = free \cup fs /\ holding' = [holding EXCEPT ![p] = @ \ fs]
      /\ memory_used' = [memory_used EXCEPT ![p] = @ - Cardinality(fs)]
      /\ commit' = commit - Cardinality(fs) /\ block' = block /\ running' = running
      /\ double_free' = (double_free \/ fs \cap free # {})
  BY DEF Gave
<1>4. holding'[p] = holding[p] \ fs /\ \A q \in Process : q # p => holding'[q] = holding[q]
  BY <1>3 DEF MemoryTypes
<1>5. /\ memory_used'[p] = memory_used[p] - Cardinality(fs)
      /\ \A q \in Process : q # p => memory_used'[q] = memory_used[q]
  BY <1>3 DEF MemoryTypes
<1>6. /\ free' \subseteq Frame /\ holding' \in [Process -> SUBSET Frame]
      /\ memory_used' \in [Process -> Int] /\ commit' \in Int
  BY <1>1, <1>2, <1>3 DEF MemoryTypes
<1>7. double_free' = FALSE
  BY <1>3 DEF OneOwner
<1>8. OneOwner'
  <2>1. \A f \in Frame : \/ f \in free'
                         \/ \E q \in Process : f \in holding'[q]
                         \/ \E b \in Block : block'[b] # None /\ f \in block'[b].holding
    BY <1>3, <1>4 DEF OneOwner
  <2>2. /\ \A q \in Process : holding'[q] \cap free' = {}
        /\ \A q, s \in Process : q # s => holding'[q] \cap holding'[s] = {}
        /\ \A q \in Process : q \notin running' => holding'[q] = {}
    BY <1>3, <1>4 DEF OneOwner
  <2>3. \A b \in Block : block'[b] # None =>
       /\ block'[b].holding \cap free' = {}
       /\ \A q \in Process : block'[b].holding \cap holding'[q] = {}
       /\ \A c \in Block : block'[c] # None /\ b # c => block'[b].holding \cap block'[c].holding = {}
    BY <1>3, <1>4 DEF OneOwner
  <2> QED
    BY <2>1, <2>2, <2>3 DEF OneOwner
<1>9. Commits'
  <2>1. HeldPages = HeldPages' \cup fs /\ HeldPages' \cap fs = {}
    BY <1>3, <1>4 DEF HeldPages, OneOwner
  <2>2. HeldPages' \in SUBSET Frame
    BY <2>1, HeldFacts
  <2>3. Cardinality(HeldPages) = Cardinality(HeldPages') + Cardinality(fs)
    BY <1>1, <2>1, <2>2, CountBoth
  <2>4. Cardinality(HeldPages') \in Nat
    BY <2>2, PagesFinite
  <2> QED
    BY <1>2, <1>3, <2>3, <2>4 DEF Commits, HeldPages
<1>10. Accounts'
  <2> SUFFICES ASSUME "share" \notin Careless, NEW q \in running
               PROVE  memory_used'[q] = Cardinality(holding'[q]) + Cardinality(BlockPages(q)')
    BY <1>3 DEF Accounts
  <2>1. BlockPages(q)' = BlockPages(q)
    BY <1>3 DEF BlockPages
  <2>2. q \in Process /\ memory_used[q] = Cardinality(holding[q]) + Cardinality(BlockPages(q))
    BY DEF Accounts, MemoryTypes
  <2>3. CASE q # p
    BY <1>4, <1>5, <2>1, <2>2, <2>3
  <2>4. CASE q = p
    <3>1. holding[p] = (holding[p] \ fs) \cup fs /\ (holding[p] \ fs) \cap fs = {}
      OBVIOUS
    <3>2. Cardinality(holding[p]) = Cardinality(holding[p] \ fs) + Cardinality(fs)
      BY <1>1, <3>1, CountBoth
    <3>3. Cardinality(holding[p] \ fs) \in Nat /\ Cardinality(BlockPages(p)) \in Nat
      BY <1>1, HeldFacts, PagesFinite
    <3>4. memory_used'[p] = Cardinality(holding'[p]) + Cardinality(BlockPages(p))
      BY <1>2, <1>4, <1>5, <2>2, <2>4, <3>2, <3>3
    <3>5. BlockPages(p)' = BlockPages(p)
      BY <1>3 DEF BlockPages
    <3> QED
      BY <2>4, <3>4, <3>5
  <2> QED
    BY <2>3, <2>4
<1> QED
  BY <1>4, <1>6, <1>7, <1>8, <1>9, <1>10

-----------------------------------------------------------------------------
(* The heaps *)

\* Where the blocks stay as they are, memory is lent as before if the pages say so.
LEMMA LentStay ==
  ASSUME BlocksLent, block' = block, running' = running,
         \A b \in Block, q \in Process : Lends(b, q) =>
           \A v \in Extent(block[b].base, block[b].size) :
             StateOf(q, v)' = "Locked" /\ FrameOf(q, v)' = block[b].frames[v - block[b].base + 1]
  PROVE  BlocksLent'
PROOF
<1>1. \A b \in Block, q \in Process : Lends(b, q)' <=> Lends(b, q)
  BY DEF Lends
<1> SUFFICES ASSUME NEW b \in Block, NEW p \in Process, Lends(b, p)
    PROVE  /\ p \in running /\ block[b].holding = {} /\ block[b].base + block[b].size <= HeapPages
           /\ \A v \in Extent(block[b].base, block[b].size) :
                StateOf(p, v)' = "Locked" /\ FrameOf(p, v)' = block[b].frames[v - block[b].base + 1]
           /\ \A c \in Block : Lends(c, p) /\ b # c =>
                Extent(block[b].base, block[b].size) \cap Extent(block[c].base, block[c].size) = {}
  BY <1>1 DEF BlocksLent
<1> QED
  BY DEF BlocksLent

\* The pages a block has borrowed.
LEMMA LentPages ==
  ASSUME Parameters, MemoryTypes, BlocksLent, NEW b \in Block, NEW p \in Process, Lends(b, p),
         NEW v \in Extent(block[b].base, block[b].size)
  PROVE  /\ p \in running /\ StateOf(p, v) = "Locked" /\ v \in VPage /\ v < HeapPages
         /\ FrameOf(p, v) = block[b].frames[v - block[b].base + 1]
PROOF
<1>1. /\ p \in running /\ StateOf(p, v) = "Locked"
      /\ FrameOf(p, v) = block[b].frames[v - block[b].base + 1]
      /\ block[b].base + block[b].size <= HeapPages
  BY DEF BlocksLent
<1>2. block[b].base \in Nat /\ block[b].size \in Nat
  BY BlockFacts DEF Lends
<1>3. v \in VPage /\ v < HeapPages
  BY <1>1, <1>2 DEF Extent, VPage, Parameters
<1> QED
  BY <1>1, <1>3

\* Pages of a process are added where nothing was mapped: what is said of the other
\* pages stays.
LEMMA AddKeeps ==
  ASSUME Parameters, MemoryInv, NEW p \in Process, NEW r, r[1] \in Nat, r[2] \in Nat,
         NEW s \in {"Private", "Continuous"}, NEW frames \in [1 .. r[2] -> free],
         \A i, j \in 1 .. r[2] : frames[i] = frames[j] => i = j,
         \A v \in Extent(r[1], r[2]) : /\ v \in VPage /\ StateOf(p, v) = NoPage
                                       /\ v < HeapPages <=> s = "Private"
                                       /\ v >= HeapPages => frames[v - r[1] + 1] = v - HeapPages,
         space' = [space EXCEPT ![p] = MapTo(@, r, s, frames)],
         \A i \in 1 .. r[2] : frames[i] \in holding'[p],
         holding[p] \subseteq holding'[p], \A q \in Process : q # p => holding'[q] = holding[q],
         block' = block, running' = running
  PROVE  /\ space' \in [Process -> [VPage -> Maps \cup {NoPage}]]
         /\ OwnMapped' /\ AliasMapped' /\ LinearMapped' /\ SharedMapped' /\ LockedLent'
         /\ BlocksUsed' /\ BlocksOwn' /\ BlocksLent'
PROOF
<1> DEFINE E == Extent(r[1], r[2])
<1>1. /\ MemoryTypes /\ OneOwner /\ OwnMapped /\ AliasMapped /\ LinearMapped /\ SharedMapped
      /\ LockedLent /\ BlocksUsed /\ BlocksOwn /\ BlocksLent
  BY DEF MemoryInv
<1>2. s \in States /\ s \in OwnStates /\ s # "Alias" /\ s # "Aliased" /\ s # "Shared" /\ s # "Locked"
      /\ NoPage \notin States
  BY DEF States, OwnStates, Parameters
<1>3. frames \in [1 .. r[2] -> Frame] /\ running \subseteq Process
  BY <1>1 DEF MemoryTypes
<1>4. /\ space' \in [Process -> [VPage -> Maps \cup {NoPage}]]
      /\ \A v \in VPage : v \in E => StateOf(p, v)' = s /\ FrameOf(p, v)' = frames[v - r[1] + 1]
      /\ \A v \in VPage : v \notin E =>
           StateOf(p, v)' = StateOf(p, v) /\ FrameOf(p, v)' = FrameOf(p, v)
      /\ \A q \in Process, v \in VPage : q # p =>
           StateOf(q, v)' = StateOf(q, v) /\ FrameOf(q, v)' = FrameOf(q, v)
  BY <1>1, <1>2, <1>3, MapToStep
<1>5. \A v \in E : /\ v \in VPage /\ v - r[1] + 1 \in 1 .. r[2] /\ frames[v - r[1] + 1] \in free
                   /\ StateOf(p, v) = NoPage
                   /\ \A w \in E : frames[v - r[1] + 1] = frames[w - r[1] + 1] => v = w
  <2>1. \A v \in E : v \in Int /\ v - r[1] + 1 \in 1 .. r[2]
    BY DEF Extent
  <2>2. \A v, w \in E : v - r[1] + 1 = w - r[1] + 1 => v = w
    BY <2>1
  <2> QED
    BY <2>1, <2>2
<1>6. \A v \in E : FrameOf(p, v)' \in free /\ FrameOf(p, v)' \in holding'[p] /\ StateOf(p, v)' = s
  BY <1>4, <1>5
<1>7. \A v, w \in E : FrameOf(p, v)' = FrameOf(p, w)' => v = w
  BY <1>4, <1>5
<1> HIDE DEF E
<1>8. OwnMapped'
  <2> SUFFICES ASSUME NEW q \in running, NEW v \in VPage, StateOf(q, v)' \in OwnStates
               PROVE  /\ FrameOf(q, v)' \in holding'[q]
                      /\ \A w \in VPage : StateOf(q, w)' \in OwnStates
                                          /\ FrameOf(q, w)' = FrameOf(q, v)' => w = v
    BY DEF OwnMapped
  <2>1. CASE q # p
    BY <1>1, <1>3, <1>4, <2>1 DEF OwnMapped
  <2>2. CASE q = p
    <3>1. \A w \in VPage : w \notin E /\ StateOf(p, w)' \in OwnStates =>
            FrameOf(p, w)' \in holding[p] /\ FrameOf(p, w)' \notin free
      BY <1>1, <1>4, <2>2 DEF OwnMapped, OneOwner
    <3>2. CASE v \in E
      BY <1>6, <1>7, <2>2, <3>1, <3>2
    <3>3. CASE v \notin E
      <4>1. StateOf(p, v) \in OwnStates /\ FrameOf(p, v)' = FrameOf(p, v)
        BY <1>4, <2>2, <3>3
      <4>2. FrameOf(q, v)' \in holding'[q]
        BY <2>2, <3>1, <3>3
      <4>3. ASSUME NEW w \in VPage, StateOf(p, w)' \in OwnStates, FrameOf(p, w)' = FrameOf(p, v)'
            PROVE  w = v
        <5>1. w \notin E
          BY <1>6, <2>2, <3>1, <3>3, <4>3
        <5>2. StateOf(p, w) \in OwnStates /\ FrameOf(p, w) = FrameOf(p, v)
          BY <1>4, <4>1, <4>3, <5>1
        <5> QED
          BY <1>1, <2>2, <4>1, <5>2 DEF OwnMapped
      <4> QED
        BY <2>2, <4>2, <4>3
    <3> QED
      BY <3>2, <3>3
  <2> QED
    BY <2>1, <2>2
<1>9. \A q \in running, v \in VPage :
        /\ StateOf(q, v) # NoPage => StateOf(q, v)' = StateOf(q, v) /\ FrameOf(q, v)' = FrameOf(q, v)
        /\ StateOf(q, v)' \in {"Alias", "Aliased", "Shared", "Locked"} =>
             StateOf(q, v)' = StateOf(q, v) /\ FrameOf(q, v)' = FrameOf(q, v)
  BY <1>2, <1>3, <1>4, <1>5
<1>10. \A q \in running, v \in VPage : StateOf(q, v) \in {"Alias", "Aliased", "Shared", "Locked"} =>
         StateOf(q, v) # NoPage
  BY <1>2 DEF States, OwnStates
<1>11. AliasMapped'
  BY <1>1, <1>9, <1>10 DEF AliasMapped
<1>12. LinearMapped'
  <2> SUFFICES ASSUME NEW q \in running, NEW v \in VPage, StateOf(q, v)' # NoPage
               PROVE  /\ v >= HeapPages => /\ FrameOf(q, v)' = v - HeapPages
                                           /\ StateOf(q, v)' \in {"Continuous", "Shared"}
                      /\ StateOf(q, v)' = "Continuous" => v >= HeapPages
    BY DEF LinearMapped
  <2>1. CASE q = p /\ v \in E
    <3>1. v \in Int /\ HeapPages \in Int
      BY DEF VPage, Parameters
    <3>2. v < HeapPages <=> s = "Private"
      BY <2>1 DEF E
    <3>3. v >= HeapPages => FrameOf(p, v)' = v - HeapPages
      BY <1>4, <2>1 DEF E
    <3> QED
      BY <1>4, <2>1, <3>1, <3>2, <3>3
  <2>2. CASE ~ (q = p /\ v \in E)
    <3>1. StateOf(q, v)' = StateOf(q, v) /\ FrameOf(q, v)' = FrameOf(q, v)
      BY <1>3, <1>4, <2>2
    <3> QED
      BY <1>1, <3>1 DEF LinearMapped
  <2> QED
    BY <2>1, <2>2
<1>13. SharedMapped'
  BY <1>1, <1>9 DEF SharedMapped
<1>14. LockedLent'
  BY <1>1, <1>9 DEF LockedLent, Lends
<1>15. BlocksUsed' /\ BlocksOwn'
  BY <1>1 DEF BlocksUsed, BlocksOwn
<1>16. BlocksLent'
  <2> SUFFICES ASSUME NEW b \in Block, NEW q \in Process, Lends(b, q),
                      NEW v \in Extent(block[b].base, block[b].size)
               PROVE  /\ StateOf(q, v)' = "Locked"
                      /\ FrameOf(q, v)' = block[b].frames[v - block[b].base + 1]
    BY <1>1, LentStay
  <2>1. /\ q \in running /\ StateOf(q, v) = "Locked" /\ v \in VPage
        /\ FrameOf(q, v) = block[b].frames[v - block[b].base + 1]
    BY <1>1, LentPages
  <2> QED
    BY <1>9, <1>10, <2>1
<1> QED
  BY <1>4, <1>8, <1>11, <1>12, <1>13, <1>14, <1>15, <1>16

\* A page that a block shows is not free: the block holds it, or the process that
\* lends it.
LEMMA BlockBacked ==
  ASSUME Parameters, MemoryTypes, OneOwner, OwnMapped, BlocksOwn, BlocksLent,
         NEW b \in Block, block[b] # None, NEW i \in 1 .. block[b].size
  PROVE  /\ block[b].frames[i] \notin free
         /\ block[b].base = None => block[b].frames[i] \in block[b].holding
         /\ block[b].base # None =>
              /\ block[b].owner \in running /\ block[b].base + i - 1 \in VPage
              /\ StateOf(block[b].owner, block[b].base + i - 1) = "Locked"
              /\ FrameOf(block[b].owner, block[b].base + i - 1) = block[b].frames[i]
              /\ block[b].frames[i] \in holding[block[b].owner]
PROOF
<1>1. /\ block[b].owner \in Process /\ block[b].size \in Nat
      /\ block[b].base # None => block[b].base \in Nat
  BY BlockFacts
<1>2. CASE block[b].base = None
  BY <1>2 DEF BlocksOwn, OneOwner
<1>3. CASE block[b].base # None
  <2>1. PICK p, v : p = block[b].owner /\ v = block[b].base + i - 1
    OBVIOUS
  <2>2. Lends(b, p) /\ p \in Process
    BY <1>1, <1>3, <2>1 DEF Lends
  <2>3. v \in Extent(block[b].base, block[b].size) /\ v - block[b].base + 1 = i /\ v \in Nat
        /\ v < block[b].base + block[b].size
    BY <1>1, <1>3, <2>1 DEF Extent
  <2>4. /\ p \in running /\ StateOf(p, v) = "Locked" /\ FrameOf(p, v) = block[b].frames[i]
        /\ block[b].base + block[b].size <= HeapPages
    BY <2>2, <2>3 DEF BlocksLent
  <2>5. v \in VPage
    BY <1>1, <1>3, <2>3, <2>4 DEF VPage, Parameters
  <2>6. FrameOf(p, v) \in holding[p] /\ FrameOf(p, v) \notin free
    BY <2>2, <2>4, <2>5 DEF OwnMapped, OwnStates, OneOwner
  <2> QED
    BY <1>3, <2>1, <2>4, <2>5, <2>6
<1> QED
  BY <1>2, <1>3

\* HeapAllocate.
LEMMA HeapAllocateKeeps ==
  ASSUME Parameters, MemoryInv, NEW p \in Process, NEW r \in HeapRanges, HeapAllocate(p, r)
  PROVE  MemoryInv'
PROOF
<1>1. p \in running /\ Unused(p, r)
  BY DEF HeapAllocate
<1>2. PICK frames \in Highest(r[2]) :
        /\ Took(p, Range(frames))
        /\ space' = [space EXCEPT ![p] = MapTo(@, r, "Private", frames)]
  BY DEF HeapAllocate
<1>3. /\ r[1] \in Nat /\ r[2] \in Nat
      /\ \A v \in Extent(r[1], r[2]) : v \in VPage /\ v < HeapPages /\ v - r[1] + 1 \in 1 .. r[2]
  BY HeapRangeFacts
<1>4. MemoryTypes
  BY DEF MemoryInv
<1>5. frames \in [1 .. r[2] -> free] /\ \A i, j \in 1 .. r[2] : i < j => frames[i] < frames[j]
  BY DEF Highest
<1>6. \A i, j \in 1 .. r[2] : frames[i] = frames[j] => i = j
  <2>1. free \subseteq Int
    BY <1>4 DEF MemoryTypes, Frame
  <2>2. ASSUME NEW i \in 1 .. r[2], NEW j \in 1 .. r[2], frames[i] = frames[j] PROVE i = j
    <3>0. frames[i] \in free /\ frames[j] \in free
      BY <1>5
    <3>1. frames[i] \in Int /\ frames[j] \in Int
      BY <2>1, <3>0
    <3>3. i \in Int /\ j \in Int
      BY <1>3
    <3>2. ~ (i < j) /\ ~ (j < i)
      BY <1>5, <2>2, <3>1
    <3> QED
      BY <3>2, <3>3
  <2> QED
    BY <2>2
<1>7. Range(frames) \in SUBSET free /\ \A i \in 1 .. r[2] : frames[i] \in Range(frames)
  BY <1>5 DEF Range
<1>8. /\ free' \subseteq Frame /\ holding' \in [Process -> SUBSET Frame]
      /\ memory_used' \in [Process -> Int] /\ commit' \in Int
      /\ holding'[p] = holding[p] \cup Range(frames)
      /\ \A q \in Process : q # p => holding'[q] = holding[q]
      /\ OneOwner' /\ Commits' /\ Accounts'
  BY <1>1, <1>2, <1>7, TookKeeps
<1>9. block' = block /\ running' = running /\ double_free' = double_free
  BY <1>2 DEF Took
<1>10. \A v \in Extent(r[1], r[2]) : /\ StateOf(p, v) = NoPage
                                     /\ v < HeapPages <=> "Private" = "Private"
                                     /\ v >= HeapPages => frames[v - r[1] + 1] = v - HeapPages
  <2>1. \A v \in Extent(r[1], r[2]) : StateOf(p, v) = NoPage
    BY <1>1, <1>3, <1>4, RangeStates
  <2>2. \A v \in Extent(r[1], r[2]) : v \in Int /\ HeapPages \in Int
    BY <1>3 DEF VPage, Parameters
  <2> QED
    BY <1>3, <2>1, <2>2
<1>11. /\ space' \in [Process -> [VPage -> Maps \cup {NoPage}]]
       /\ OwnMapped' /\ AliasMapped' /\ LinearMapped' /\ SharedMapped' /\ LockedLent'
       /\ BlocksUsed' /\ BlocksOwn' /\ BlocksLent'
  <2>1. PICK s : s = "Private"
    OBVIOUS
  <2>2. /\ s \in {"Private", "Continuous"} /\ space' = [space EXCEPT ![p] = MapTo(@, r, s, frames)]
        /\ \A v \in Extent(r[1], r[2]) : /\ v \in VPage /\ StateOf(p, v) = NoPage
                                         /\ v < HeapPages <=> s = "Private"
                                         /\ v >= HeapPages => frames[v - r[1] + 1] = v - HeapPages
    BY <1>2, <1>3, <1>10, <2>1
  <2>3. /\ holding[p] \subseteq holding'[p] /\ \A i \in 1 .. r[2] : frames[i] \in holding'[p]
    BY <1>7, <1>8
  <2> HIDE DEF Range
  <2> QED
    BY <1>3, <1>5, <1>6, <1>8, <1>9, <2>2, <2>3, AddKeeps
<1>12. MemoryTypes' /\ double_free' = FALSE
  BY <1>4, <1>8, <1>9, <1>11 DEF MemoryTypes, MemoryInv
<1> QED
  BY <1>8, <1>11, <1>12 DEF MemoryInv

\* LinearAllocate: nothing shows a page that is free, so its address is unused.
LEMMA LinearUnused ==
  ASSUME Parameters, MemoryInv, NEW p \in running, NEW f \in free
  PROVE  Linear(f) \in VPage /\ StateOf(p, Linear(f)) = NoPage
PROOF
<1>1. /\ MemoryTypes /\ OneOwner /\ OwnMapped /\ LinearMapped /\ SharedMapped /\ BlocksUsed
      /\ BlocksOwn /\ BlocksLent
  BY DEF MemoryInv
<1>2. f \in Frame /\ f \in Int /\ p \in Process /\ HeapPages \in Nat
  BY <1>1 DEF MemoryTypes, Frame, Parameters
<1>3. PICK v : v = Linear(f)
  OBVIOUS
<1>4. v \in VPage /\ v \in Int /\ v >= HeapPages /\ v - HeapPages = f
  BY <1>2, <1>3 DEF Linear, VPage, Frame, Parameters
<1>5. ASSUME StateOf(p, v) # NoPage PROVE FALSE
  <2>1. FrameOf(p, v) = f /\ StateOf(p, v) \in {"Continuous", "Shared"}
    BY <1>1, <1>4, <1>5 DEF LinearMapped
  <2>2. CASE StateOf(p, v) = "Continuous"
    BY <1>1, <1>2, <1>4, <2>1, <2>2 DEF OwnMapped, OneOwner, OwnStates
  <2>3. CASE StateOf(p, v) = "Shared"
    <3>1. PICK b \in Block : block[b] # None /\ \E i \in 1 .. block[b].size : block[b].frames[i] = f
      BY <1>1, <1>4, <2>1, <2>3 DEF SharedMapped
    <3> QED
      BY <1>1, <3>1, BlockBacked
  <2> QED
    BY <2>1, <2>2, <2>3
<1> QED
  BY <1>3, <1>4, <1>5

\* LinearAllocate.
LEMMA LinearAllocateKeeps ==
  ASSUME Parameters, MemoryInv, NEW p \in Process, NEW f \in Frame, NEW n \in 1 .. MaxSize,
         LinearAllocate(p, f, n)
  PROVE  MemoryInv'
PROOF
<1>1. /\ p \in running /\ f \in Runs(n) /\ Took(p, Extent(f, n))
      /\ space' = [space EXCEPT ![p] = MapTo(@, <<Linear(f), n>>, "Continuous", Run(f, n))]
  BY DEF LinearAllocate
<1>2. f \in Nat /\ n \in Nat /\ HeapPages \in Nat /\ Frames \in Nat /\ MemoryTypes
  BY DEF MemoryInv, Frame, Parameters
<1>3. Extent(f, n) \in SUBSET free /\ f + n <= Frames
  BY <1>1 DEF Runs
<1>4. PICK r, frames, s : r = <<Linear(f), n>> /\ frames = Run(f, n) /\ s = "Continuous"
  OBVIOUS
<1>5. r[1] = HeapPages + f /\ r[2] = n /\ r[1] \in Nat /\ r[2] \in Nat
  BY <1>2, <1>4 DEF Linear
<1>6. /\ frames \in [1 .. r[2] -> free] /\ \A i, j \in 1 .. r[2] : frames[i] = frames[j] => i = j
      /\ \A i \in 1 .. r[2] : frames[i] \in Extent(f, n) /\ frames[i] = f + i - 1
  <2>1. \A i \in 1 .. n : frames[i] = f + i - 1 /\ f + i - 1 \in Extent(f, n)
    BY <1>2, <1>4 DEF Run, Extent
  <2>2. DOMAIN frames = 1 .. n /\ frames = [i \in 1 .. n |-> frames[i]]
    BY <1>4 DEF Run
  <2>3. \A i, j \in 1 .. n : f + i - 1 = f + j - 1 => i = j
    BY <1>2
  <2> QED
    BY <1>3, <1>5, <2>1, <2>2, <2>3
<1>7. /\ free' \subseteq Frame /\ holding' \in [Process -> SUBSET Frame]
      /\ memory_used' \in [Process -> Int] /\ commit' \in Int
      /\ holding'[p] = holding[p] \cup Extent(f, n)
      /\ \A q \in Process : q # p => holding'[q] = holding[q]
      /\ OneOwner' /\ Commits' /\ Accounts'
  BY <1>1, <1>3, TookKeeps
<1>8. block' = block /\ running' = running /\ double_free' = double_free
  BY <1>1 DEF Took
<1>9. \A v \in Extent(r[1], r[2]) : /\ v \in VPage /\ StateOf(p, v) = NoPage
                                    /\ v < HeapPages <=> s = "Private"
                                    /\ v >= HeapPages => frames[v - r[1] + 1] = v - HeapPages
  <2> TAKE v \in Extent(r[1], r[2])
  <2>1. v \in Int /\ v - HeapPages \in Extent(f, n) /\ v >= HeapPages /\ v - r[1] + 1 \in 1 .. r[2]
    BY <1>2, <1>5 DEF Extent
  <2>2. v = Linear(v - HeapPages) /\ v - HeapPages \in free
    BY <1>2, <1>3, <2>1 DEF Linear
  <2>3. v \in VPage /\ StateOf(p, v) = NoPage
    BY <1>1, <2>2, LinearUnused
  <2>4. frames[v - r[1] + 1] = v - HeapPages
    BY <1>2, <1>5, <1>6, <2>1
  <2> QED
    BY <1>2, <1>4, <2>1, <2>3, <2>4
<1>10. /\ space' \in [Process -> [VPage -> Maps \cup {NoPage}]]
       /\ OwnMapped' /\ AliasMapped' /\ LinearMapped' /\ SharedMapped' /\ LockedLent'
       /\ BlocksUsed' /\ BlocksOwn' /\ BlocksLent'
  <2>1. s \in {"Private", "Continuous"} /\ space' = [space EXCEPT ![p] = MapTo(@, r, s, frames)]
    BY <1>1, <1>4
  <2>2. holding[p] \subseteq holding'[p]
    BY <1>7
  <2>3. \A i \in 1 .. r[2] : frames[i] \in holding'[p]
    BY <1>6, <1>7
  <2>4. \A q \in Process : q # p => holding'[q] = holding[q]
    BY <1>7
  <2>5. frames \in [1 .. r[2] -> free]
    BY <1>5, <1>6
  <2>6. \A i, j \in 1 .. r[2] : frames[i] = frames[j] => i = j
    BY <1>5, <1>6
  <2>7. r[1] \in Nat /\ r[2] \in Nat
    BY <1>5, <1>6
  <2> QED
    BY <1>8, <1>9, <2>1, <2>2, <2>3, <2>4, <2>5, <2>6, <2>7, AddKeeps, ZenonT(30)
<1>11. MemoryTypes' /\ double_free' = FALSE
  BY <1>2, <1>7, <1>8, <1>10 DEF MemoryTypes, MemoryInv
<1> QED
  BY <1>7, <1>10, <1>11 DEF MemoryInv

\* Pages of a process that are in no marked state are unmapped and given back:
\* nothing else shows them.
LEMMA RemoveKeeps ==
  ASSUME Parameters, MemoryInv, NEW p \in Process, NEW r, NEW s \in {"Private", "Continuous"},
         \A v \in Extent(r[1], r[2]) : v \in VPage /\ StateOf(p, v) = s,
         space' = [space EXCEPT ![p] = Unmapped(@, r)],
         \A f \in holding[p] : f \in holding'[p] \/ \E v \in Extent(r[1], r[2]) : FrameOf(p, v) = f,
         \A q \in Process : q # p => holding'[q] = holding[q],
         block' = block, running' = running
  PROVE  /\ space' \in [Process -> [VPage -> Maps \cup {NoPage}]]
         /\ OwnMapped' /\ AliasMapped' /\ LinearMapped' /\ SharedMapped' /\ LockedLent'
         /\ BlocksUsed' /\ BlocksOwn' /\ BlocksLent'
PROOF
<1> DEFINE E == Extent(r[1], r[2])
<1>1. /\ MemoryTypes /\ OneOwner /\ OwnMapped /\ AliasMapped /\ LinearMapped /\ SharedMapped
      /\ LockedLent /\ BlocksUsed /\ BlocksOwn /\ BlocksLent
  BY DEF MemoryInv
<1>2. /\ s \in OwnStates /\ s # "Alias" /\ s # "Aliased" /\ s # "Shared" /\ s # "Locked"
      /\ NoPage \notin States /\ NoPage \notin OwnStates
      /\ NoPage # "Alias" /\ NoPage # "Aliased" /\ NoPage # "Shared" /\ NoPage # "Locked"
  BY DEF States, OwnStates, Parameters
<1>3. running \subseteq Process
  BY <1>1 DEF MemoryTypes
<1>4. /\ space' \in [Process -> [VPage -> Maps \cup {NoPage}]]
      /\ \A v \in VPage : v \in E => StateOf(p, v)' = NoPage
      /\ \A v \in VPage : v \notin E =>
           StateOf(p, v)' = StateOf(p, v) /\ FrameOf(p, v)' = FrameOf(p, v)
      /\ \A q \in Process, v \in VPage : q # p =>
           StateOf(q, v)' = StateOf(q, v) /\ FrameOf(q, v)' = FrameOf(q, v)
  BY <1>1, UnmapStep
<1>5. \A q \in running, v \in VPage : StateOf(q, v)' # NoPage =>
        /\ StateOf(q, v)' = StateOf(q, v) /\ FrameOf(q, v)' = FrameOf(q, v)
        /\ q = p => v \notin E
  BY <1>3, <1>4
<1>6. \A q \in running, v \in VPage : StateOf(q, v) \in {"Alias", "Aliased", "Shared", "Locked"} =>
        StateOf(q, v)' = StateOf(q, v) /\ FrameOf(q, v)' = FrameOf(q, v)
  BY <1>2, <1>3, <1>4
<1>7. \A v \in E : v \in VPage /\ StateOf(p, v) \in OwnStates
  BY <1>2
<1>8. \A f \in holding[p] : f \in holding'[p] \/ \E v \in E : FrameOf(p, v) = f
  OBVIOUS
<1> HIDE DEF E
<1>9. OwnMapped'
  <2> SUFFICES ASSUME NEW q \in running, NEW v \in VPage, StateOf(q, v)' \in OwnStates
               PROVE  /\ FrameOf(q, v)' \in holding'[q]
                      /\ \A w \in VPage : StateOf(q, w)' \in OwnStates
                                          /\ FrameOf(q, w)' = FrameOf(q, v)' => w = v
    BY DEF OwnMapped
  <2>1. \A w \in VPage : StateOf(q, w)' \in OwnStates =>
          /\ StateOf(q, w) \in OwnStates /\ FrameOf(q, w)' = FrameOf(q, w)
          /\ q = p => w \notin E
    BY <1>2, <1>5
  <2>2. \A w \in VPage : StateOf(q, w)' \in OwnStates /\ FrameOf(q, w)' = FrameOf(q, v)' => w = v
    BY <1>1, <2>1 DEF OwnMapped
  <2>3. FrameOf(q, v) \in holding[q]
    BY <1>1, <2>1 DEF OwnMapped
  <2>4. CASE q # p
    BY <1>3, <2>1, <2>2, <2>3, <2>4
  <2>5. CASE q = p
    <3>1. ~ \E w \in E : FrameOf(p, w) = FrameOf(p, v)
      BY <1>1, <1>7, <2>1, <2>5 DEF OwnMapped
    <3> QED
      BY <1>8, <2>1, <2>2, <2>3, <2>5, <3>1
  <2> QED
    BY <2>4, <2>5
<1>10. AliasMapped'
  <2> SUFFICES ASSUME NEW q \in running, NEW v \in VPage
      PROVE  /\ StateOf(q, v)' = "Aliased" =>
                  \E w \in VPage : StateOf(q, w)' = "Alias" /\ FrameOf(q, w)' = FrameOf(q, v)'
             /\ StateOf(q, v)' = "Alias" =>
                  /\ \E w \in VPage : StateOf(q, w)' = "Aliased" /\ FrameOf(q, w)' = FrameOf(q, v)'
                  /\ \A w \in VPage : StateOf(q, w)' = "Alias" /\ FrameOf(q, w)' = FrameOf(q, v)' => w = v
    BY DEF AliasMapped
  <2> QED
    BY <1>1, <1>2, <1>5, <1>6 DEF AliasMapped
<1>11. LinearMapped'
  BY <1>1, <1>5 DEF LinearMapped
<1>12. SharedMapped'
  BY <1>1, <1>2, <1>5 DEF SharedMapped
<1>13. LockedLent'
  BY <1>1, <1>2, <1>5 DEF LockedLent, Lends
<1>14. BlocksUsed' /\ BlocksOwn'
  BY <1>1 DEF BlocksUsed, BlocksOwn
<1>15. BlocksLent'
  <2> SUFFICES ASSUME NEW b \in Block, NEW q \in Process, Lends(b, q),
                      NEW v \in Extent(block[b].base, block[b].size)
               PROVE  /\ StateOf(q, v)' = "Locked"
                      /\ FrameOf(q, v)' = block[b].frames[v - block[b].base + 1]
    BY <1>1, LentStay
  <2>1. /\ q \in running /\ StateOf(q, v) = "Locked" /\ v \in VPage
        /\ FrameOf(q, v) = block[b].frames[v - block[b].base + 1]
    BY <1>1, LentPages
  <2> QED
    BY <1>6, <2>1
<1> QED
  BY <1>4, <1>9, <1>10, <1>11, <1>12, <1>13, <1>14, <1>15

\* HeapFree.
LEMMA HeapFreeKeeps ==
  ASSUME Parameters, MemoryInv, NEW p \in Process, NEW r \in HeapRanges, HeapFree(p, r)
  PROVE  MemoryInv'
PROOF
<1>1. /\ p \in running /\ Gave(p, Range(Behind(p, r)), r[2]) /\ IsState(p, r, "Private")
      /\ space' = [space EXCEPT ![p] = Unmapped(@, r)]
  BY DEF HeapFree, MayFree, Parameters
<1>2. /\ r[1] \in Nat /\ r[2] \in Nat
      /\ \A v \in Extent(r[1], r[2]) : v \in VPage /\ v - r[1] + 1 \in 1 .. r[2]
  BY HeapRangeFacts
<1>3. MemoryTypes /\ OwnMapped
  BY DEF MemoryInv
<1>4. PICK s : s = "Private"
  OBVIOUS
<1>5. s \in States /\ s \in OwnStates /\ IsState(p, r, s)
  BY <1>1, <1>4 DEF States, OwnStates
<1>6. \A v \in Extent(r[1], r[2]) : v \in VPage /\ StateOf(p, v) = s
  BY <1>2, <1>3, <1>5, RangeStates
<1>7. \A i \in 1 .. r[2] : /\ r[1] + i - 1 \in Extent(r[1], r[2])
                           /\ Behind(p, r)[i] = FrameOf(p, r[1] + i - 1)
  BY <1>2, <1>3, RangeStates
<1>8. PICK fs, g : fs = Range(Behind(p, r)) /\ g = Behind(p, r)
  OBVIOUS
<1>9. DOMAIN g = 1 .. r[2] /\ g = [i \in 1 .. r[2] |-> g[i]] /\ fs = {g[i] : i \in 1 .. r[2]}
  BY <1>8 DEF Behind, Range
<1>10. \A i \in 1 .. r[2] : /\ r[1] + i - 1 \in Extent(r[1], r[2]) /\ g[i] = FrameOf(p, r[1] + i - 1)
                            /\ g[i] \in holding[p]
  BY <1>1, <1>3, <1>5, <1>6, <1>7, <1>8 DEF OwnMapped
<1>11. g \in [1 .. r[2] -> fs] /\ fs \in SUBSET holding[p] /\ \A f \in fs : \E i \in 1 .. r[2] : g[i] = f
  BY <1>9, <1>10
<1>12. \A i, j \in 1 .. r[2] : g[i] = g[j] => i = j
  <2>1. ASSUME NEW i \in 1 .. r[2], NEW j \in 1 .. r[2], g[i] = g[j] PROVE i = j
    <3>1. r[1] + i - 1 = r[1] + j - 1
      BY <1>1, <1>3, <1>5, <1>6, <1>10, <2>1 DEF OwnMapped
    <3> QED
      BY <1>2, <3>1
  <2> QED
    BY <2>1
<1>13. Cardinality(fs) = r[2]
  BY <1>2, <1>11, <1>12, CountBehind
<1>14. /\ free' \subseteq Frame /\ holding' \in [Process -> SUBSET Frame]
       /\ memory_used' \in [Process -> Int] /\ commit' \in Int /\ double_free' = FALSE
       /\ holding'[p] = holding[p] \ fs
       /\ \A q \in Process : q # p => holding'[q] = holding[q]
       /\ OneOwner' /\ Commits' /\ Accounts'
  BY <1>1, <1>8, <1>11, <1>13, GaveKeeps
<1>15. block' = block /\ running' = running
  BY <1>1 DEF Gave
<1>16. \A f \in holding[p] : f \in holding'[p] \/ \E v \in Extent(r[1], r[2]) : FrameOf(p, v) = f
  BY <1>10, <1>11, <1>14
<1>17. /\ space' \in [Process -> [VPage -> Maps \cup {NoPage}]]
       /\ OwnMapped' /\ AliasMapped' /\ LinearMapped' /\ SharedMapped' /\ LockedLent'
       /\ BlocksUsed' /\ BlocksOwn' /\ BlocksLent'
  BY <1>1, <1>4, <1>6, <1>14, <1>15, <1>16, RemoveKeeps
<1>18. MemoryTypes'
  BY <1>3, <1>14, <1>15, <1>17 DEF MemoryTypes
<1> QED
  BY <1>14, <1>17, <1>18 DEF MemoryInv

\* LinearFree.
LEMMA LinearFreeKeeps ==
  ASSUME Parameters, MemoryInv, NEW p \in Process, NEW r \in LinearRanges, LinearFree(p, r)
  PROVE  MemoryInv'
PROOF
<1>1. PICK fs : fs = {v - HeapPages : v \in Extent(r[1], r[2])}
  OBVIOUS
<1>2. /\ p \in running /\ Gave(p, fs, r[2]) /\ IsState(p, r, "Continuous")
      /\ space' = [space EXCEPT ![p] = Unmapped(@, r)]
  BY <1>1 DEF LinearFree, MayFree, Parameters
<1>3. /\ r[1] \in Nat /\ r[2] \in Nat /\ HeapPages \in Nat
      /\ \A v \in Extent(r[1], r[2]) : v \in VPage /\ v >= HeapPages
  BY LinearRangeFacts DEF Parameters
<1>4. MemoryTypes /\ OwnMapped /\ LinearMapped
  BY DEF MemoryInv
<1>5. PICK s : s = "Continuous"
  OBVIOUS
<1>6. s \in States /\ s \in OwnStates /\ IsState(p, r, s) /\ s # NoPage
  BY <1>2, <1>5 DEF States, OwnStates, Parameters
<1>7. \A v \in Extent(r[1], r[2]) : v \in VPage /\ StateOf(p, v) = s
  BY <1>3, <1>4, <1>6, RangeStates
<1>8. \A v \in Extent(r[1], r[2]) : FrameOf(p, v) = v - HeapPages /\ FrameOf(p, v) \in holding[p]
  BY <1>2, <1>3, <1>4, <1>6, <1>7 DEF LinearMapped, OwnMapped
<1>9. fs \in SUBSET holding[p]
  BY <1>1, <1>8
<1>10. Cardinality(fs) = r[2]
  <2>1. PICK g : g = [i \in 1 .. r[2] |-> r[1] + i - 1 - HeapPages]
    OBVIOUS
  <2>2. \A i \in 1 .. r[2] : r[1] + i - 1 \in Extent(r[1], r[2]) /\ g[i] = (r[1] + i - 1) - HeapPages
    BY <1>3, <2>1 DEF Extent
  <2>3. g \in [1 .. r[2] -> fs]
    BY <1>1, <2>1, <2>2
  <2>4. \A i, j \in 1 .. r[2] : g[i] = g[j] => i = j
    BY <1>3, <2>2
  <2>5. \A f \in fs : \E i \in 1 .. r[2] : g[i] = f
    <3> SUFFICES ASSUME NEW v \in Extent(r[1], r[2]) PROVE \E i \in 1 .. r[2] : g[i] = v - HeapPages
      BY <1>1
    <3>1. v \in Int /\ v - r[1] + 1 \in 1 .. r[2] /\ r[1] + (v - r[1] + 1) - 1 = v
      BY <1>3 DEF Extent
    <3> QED
      BY <2>2, <3>1
  <2> QED
    BY <1>3, <2>3, <2>4, <2>5, CountBehind
<1>11. /\ free' \subseteq Frame /\ holding' \in [Process -> SUBSET Frame]
       /\ memory_used' \in [Process -> Int] /\ commit' \in Int /\ double_free' = FALSE
       /\ holding'[p] = holding[p] \ fs
       /\ \A q \in Process : q # p => holding'[q] = holding[q]
       /\ OneOwner' /\ Commits' /\ Accounts'
  BY <1>2, <1>9, <1>10, GaveKeeps
<1>12. block' = block /\ running' = running
  BY <1>2 DEF Gave
<1>13. \A f \in holding[p] : f \in holding'[p] \/ \E v \in Extent(r[1], r[2]) : FrameOf(p, v) = f
  BY <1>1, <1>8, <1>11
<1>14. /\ space' \in [Process -> [VPage -> Maps \cup {NoPage}]]
       /\ OwnMapped' /\ AliasMapped' /\ LinearMapped' /\ SharedMapped' /\ LockedLent'
       /\ BlocksUsed' /\ BlocksOwn' /\ BlocksLent'
  BY <1>2, <1>5, <1>7, <1>11, <1>12, <1>13, RemoveKeeps
<1>15. MemoryTypes'
  BY <1>4, <1>11, <1>12, <1>14 DEF MemoryTypes
<1> QED
  BY <1>11, <1>14, <1>15 DEF MemoryInv

-----------------------------------------------------------------------------
(* Memory mapped twice *)

\* Process::Map marks the source and maps its pages at the target.
LEMMA MapEffect ==
  ASSUME Parameters, MemoryTypes, NEW p \in Process, NEW r \in HeapRanges,
         NEW t \in 0 .. HeapPages - r[2], Map(p, t, r)
  PROVE  /\ p \in running
         /\ space' \in [Process -> [VPage -> Maps \cup {NoPage}]]
         /\ \A v \in Extent(r[1], r[2]) :
              /\ v \in VPage /\ v < HeapPages /\ v \notin Extent(t, r[2]) /\ StateOf(p, v) = "Private"
              /\ StateOf(p, v)' = "Aliased" /\ FrameOf(p, v)' = FrameOf(p, v)
         /\ \A v \in Extent(t, r[2]) :
              /\ v \in VPage /\ v < HeapPages /\ StateOf(p, v) = NoPage
              /\ StateOf(p, v)' = "Alias"
              /\ r[1] + (v - t) \in Extent(r[1], r[2])
              /\ FrameOf(p, v)' = FrameOf(p, r[1] + (v - t))
         /\ \A v \in VPage : v \notin Extent(r[1], r[2]) /\ v \notin Extent(t, r[2]) =>
              StateOf(p, v)' = StateOf(p, v) /\ FrameOf(p, v)' = FrameOf(p, v)
         /\ \A q \in Process, v \in VPage : q # p =>
              StateOf(q, v)' = StateOf(q, v) /\ FrameOf(q, v)' = FrameOf(q, v)
PROOF
<1>1. /\ p \in running /\ IsState(p, r, "Private") /\ Unused(p, <<t, r[2]>>)
      /\ space' = [space EXCEPT ![p] = MapTo(Marked(@, r, "Aliased"), <<t, r[2]>>, "Alias", Behind(p, r))]
  BY DEF Map
<1>2. /\ r[1] \in Nat /\ r[2] \in Nat /\ r[1] + r[2] <= HeapPages /\ HeapPages \in Nat
      /\ \A v \in Extent(r[1], r[2]) : v \in VPage /\ v < HeapPages
  BY HeapRangeFacts DEF Parameters
<1>3. t \in Nat /\ \A v \in Extent(t, r[2]) : /\ v \in VPage /\ v < HeapPages /\ v - t + 1 \in 1 .. r[2]
                                              /\ v \in Int /\ r[1] + (v - t) \in Extent(r[1], r[2])
                                              /\ r[1] + (v - t + 1) - 1 = r[1] + (v - t)
  BY <1>2 DEF Extent, VPage, Parameters
<1>4. "Private" \in States /\ "Alias" \in States /\ "Aliased" \in States /\ NoPage \notin States
  BY DEF States, OwnStates, Parameters
<1>5. \A v \in Extent(r[1], r[2]) : StateOf(p, v) = "Private"
  BY <1>1, <1>2, <1>4, RangeStates
<1>6. \A v \in Extent(t, r[2]) : StateOf(p, v) = NoPage
  BY <1>1, <1>3, PageFacts DEF Unused
<1>7. \A v \in Extent(r[1], r[2]) : v \notin Extent(t, r[2])
  BY <1>4, <1>5, <1>6
<1>8. \A v \in Extent(r[1], r[2]) : space[p][v] # NoPage /\ space[p][v].frame \in Frame
  BY <1>2, <1>4, <1>5, PageFacts DEF FrameOf
<1>9. PICK m : m = Marked(space[p], r, "Aliased")
  OBVIOUS
<1>10. PICK u : u = MapTo(m, <<t, r[2]>>, "Alias", Behind(p, r))
  OBVIOUS
<1>11. space' = [space EXCEPT ![p] = u] /\ space \in [Process -> [VPage -> Maps \cup {NoPage}]]
  BY <1>1, <1>9, <1>10 DEF MemoryTypes
<1>12. /\ \A v \in VPage : v \in Extent(r[1], r[2]) => m[v] = Mapping("Aliased", space[p][v].frame)
       /\ \A v \in VPage : v \notin Extent(r[1], r[2]) => m[v] = space[p][v]
  BY <1>9 DEF Marked
<1>13. \A v \in VPage : IF v \in Extent(t, r[2]) THEN u[v] = Mapping("Alias", Behind(p, r)[v - t + 1])
                        ELSE u[v] = m[v]
  BY <1>10 DEF MapTo
<1>14. \A v \in Extent(t, r[2]) : /\ Behind(p, r)[v - t + 1] = FrameOf(p, r[1] + (v - t))
                                  /\ FrameOf(p, r[1] + (v - t)) \in Frame
  <2> TAKE v \in Extent(t, r[2])
  <2>1. Behind(p, r)[v - t + 1] = FrameOf(p, r[1] + (v - t + 1) - 1)
    BY <1>2, <1>3, RangeStates
  <2>2. FrameOf(p, r[1] + (v - t)) \in Frame
    BY <1>3, <1>8 DEF FrameOf
  <2> QED
    BY <1>3, <2>1, <2>2
<1>15. /\ \A v \in Extent(r[1], r[2]) : /\ u[v] = Mapping("Aliased", space[p][v].frame)
                                        /\ u[v] \in Maps /\ u[v] # NoPage
                                        /\ u[v].state = "Aliased" /\ u[v].frame = space[p][v].frame
       /\ \A v \in Extent(t, r[2]) : /\ u[v] \in Maps /\ u[v] # NoPage /\ u[v].state = "Alias"
                                     /\ u[v].frame = FrameOf(p, r[1] + (v - t))
  BY <1>2, <1>3, <1>4, <1>7, <1>8, <1>12, <1>13, <1>14, MappingFacts
<1>16. \A v \in VPage : v \notin Extent(r[1], r[2]) /\ v \notin Extent(t, r[2]) => u[v] = space[p][v]
  BY <1>12, <1>13
<1>17. u \in [VPage -> Maps \cup {NoPage}]
  <2>1. \A v \in VPage : u[v] \in Maps \cup {NoPage}
    BY <1>11, <1>15, <1>16
  <2> QED
    BY <1>10, <2>1 DEF MapTo
<1>18. space'[p] = u /\ \A q \in Process : q # p => space'[q] = space[q]
  BY <1>11
<1>19. space' \in [Process -> [VPage -> Maps \cup {NoPage}]]
  BY <1>11, <1>17
<1>20. /\ \A v \in Extent(r[1], r[2]) : StateOf(p, v)' = "Aliased" /\ FrameOf(p, v)' = FrameOf(p, v)
       /\ \A v \in Extent(t, r[2]) : /\ StateOf(p, v)' = "Alias"
                                     /\ FrameOf(p, v)' = FrameOf(p, r[1] + (v - t))
  BY <1>15, <1>18 DEF StateOf, FrameOf
<1>21. /\ \A v \in VPage : v \notin Extent(r[1], r[2]) /\ v \notin Extent(t, r[2]) =>
            StateOf(p, v)' = StateOf(p, v) /\ FrameOf(p, v)' = FrameOf(p, v)
       /\ \A q \in Process, v \in VPage : q # p =>
            StateOf(q, v)' = StateOf(q, v) /\ FrameOf(q, v)' = FrameOf(q, v)
  BY <1>16, <1>18 DEF StateOf, FrameOf
<1> QED
  BY <1>1, <1>2, <1>3, <1>5, <1>6, <1>7, <1>19, <1>20, <1>21

\* Process::Unmap of a pair that Map made: the target goes, the source is unmarked.
LEMMA UnmapEffect ==
  ASSUME Parameters, MemoryTypes, NEW p \in Process, NEW r \in HeapRanges,
         NEW t \in 0 .. HeapPages - r[2], Unmap(p, t, r)
  PROVE  /\ p \in running
         /\ space' \in [Process -> [VPage -> Maps \cup {NoPage}]]
         /\ \A v \in Extent(r[1], r[2]) :
              /\ v \in VPage /\ v < HeapPages /\ v \notin Extent(t, r[2]) /\ StateOf(p, v) = "Aliased"
              /\ StateOf(p, v)' = "Private" /\ FrameOf(p, v)' = FrameOf(p, v)
              /\ t + (v - r[1]) \in Extent(t, r[2]) /\ FrameOf(p, t + (v - r[1])) = FrameOf(p, v)
         /\ \A v \in Extent(t, r[2]) :
              /\ v \in VPage /\ StateOf(p, v) = "Alias" /\ StateOf(p, v)' = NoPage
              /\ r[1] + (v - t) \in Extent(r[1], r[2]) /\ FrameOf(p, v) = FrameOf(p, r[1] + (v - t))
         /\ \A v \in VPage : v \notin Extent(r[1], r[2]) /\ v \notin Extent(t, r[2]) =>
              StateOf(p, v)' = StateOf(p, v) /\ FrameOf(p, v)' = FrameOf(p, v)
         /\ \A q \in Process, v \in VPage : q # p =>
              StateOf(q, v)' = StateOf(q, v) /\ FrameOf(q, v)' = FrameOf(q, v)
PROOF
<1>1. PICK tr : tr = <<t, r[2]>>
  OBVIOUS
<1>2. PICK m : m = Unmapped(space[p], tr)
  OBVIOUS
<1>3. PICK u : u = Marked(m, r, "Private")
  OBVIOUS
<1>4. /\ p \in running /\ IsState(p, tr, "Alias") /\ IsState(p, r, "Aliased")
      /\ Behind(p, tr) = Behind(p, r) /\ Extent(t, r[2]) \cap Extent(r[1], r[2]) = {}
      /\ space' = [space EXCEPT ![p] = u]
  BY <1>1, <1>2, <1>3 DEF Unmap, Parameters
<1>5. /\ r[1] \in Nat /\ r[2] \in Nat /\ r[1] + r[2] <= HeapPages /\ HeapPages \in Nat
      /\ \A v \in Extent(r[1], r[2]) : v \in VPage /\ v < HeapPages
  BY HeapRangeFacts DEF Parameters
<1>6. /\ t \in Nat /\ tr[1] = t /\ tr[2] = r[2]
      /\ \A v \in Extent(t, r[2]) : /\ v \in VPage /\ v - t + 1 \in 1 .. r[2]
                                    /\ v \in Int /\ r[1] + (v - t) \in Extent(r[1], r[2])
                                    /\ r[1] + (v - t + 1) - 1 = r[1] + (v - t)
                                    /\ t + (v - t + 1) - 1 = v
  BY <1>1, <1>5 DEF Extent, VPage, Parameters
<1>7. \A v \in Extent(r[1], r[2]) : /\ v \in Int /\ t + (v - r[1]) \in Extent(t, r[2])
                                    /\ r[1] + ((t + (v - r[1])) - t) = v
  BY <1>5, <1>6 DEF Extent
<1>8. "Private" \in States /\ "Alias" \in States /\ "Aliased" \in States /\ NoPage \notin States
  BY DEF States, OwnStates, Parameters
<1>9. /\ \A v \in Extent(r[1], r[2]) : StateOf(p, v) = "Aliased"
      /\ \A i \in 1 .. r[2] : Behind(p, r)[i] = FrameOf(p, r[1] + i - 1)
  BY <1>4, <1>5, <1>8, RangeStates
<1>10. /\ \A v \in Extent(t, r[2]) : StateOf(p, v) = "Alias"
       /\ \A i \in 1 .. r[2] : Behind(p, tr)[i] = FrameOf(p, t + i - 1)
  BY <1>4, <1>5, <1>6, <1>8, RangeStates
<1>11. \A v \in Extent(t, r[2]) : FrameOf(p, v) = FrameOf(p, r[1] + (v - t))
  <2> TAKE v \in Extent(t, r[2])
  <2>1. FrameOf(p, t + (v - t + 1) - 1) = FrameOf(p, r[1] + (v - t + 1) - 1)
    BY <1>4, <1>6, <1>9, <1>10
  <2> QED
    BY <1>6, <2>1
<1>12. \A v \in Extent(r[1], r[2]) : FrameOf(p, t + (v - r[1])) = FrameOf(p, v)
  BY <1>7, <1>11
<1>13. space \in [Process -> [VPage -> Maps \cup {NoPage}]]
  BY DEF MemoryTypes
<1>14. /\ \A v \in VPage : v \in Extent(t, r[2]) => m[v] = NoPage
       /\ \A v \in VPage : v \notin Extent(t, r[2]) => m[v] = space[p][v]
  BY <1>2, <1>6 DEF Unmapped
<1>15. /\ \A v \in VPage : v \in Extent(r[1], r[2]) => u[v] = Mapping("Private", m[v].frame)
       /\ \A v \in VPage : v \notin Extent(r[1], r[2]) => u[v] = m[v]
  BY <1>3 DEF Marked
<1>16. \A v \in Extent(r[1], r[2]) : v \notin Extent(t, r[2]) /\ space[p][v].frame \in Frame
  BY <1>4, <1>5, <1>8, <1>9, PageFacts DEF FrameOf
<1>17. \A v \in Extent(r[1], r[2]) : /\ u[v] \in Maps /\ u[v] # NoPage /\ u[v].state = "Private"
                                     /\ u[v].frame = space[p][v].frame
  <2> TAKE v \in Extent(r[1], r[2])
  <2>1. v \in VPage /\ u[v] = Mapping("Private", space[p][v].frame) /\ space[p][v].frame \in Frame
    BY <1>5, <1>14, <1>15, <1>16
  <2> QED
    BY <1>8, <2>1, MappingFacts
<1>18. /\ \A v \in Extent(t, r[2]) : u[v] = NoPage
       /\ \A v \in VPage : v \notin Extent(r[1], r[2]) /\ v \notin Extent(t, r[2]) => u[v] = space[p][v]
  BY <1>4, <1>6, <1>14, <1>15
<1>19. u \in [VPage -> Maps \cup {NoPage}]
  <2>1. \A v \in VPage : u[v] \in Maps \cup {NoPage}
    BY <1>13, <1>17, <1>18
  <2> QED
    BY <1>3, <2>1 DEF Marked
<1>20. space'[p] = u /\ \A q \in Process : q # p => space'[q] = space[q]
  BY <1>4, <1>13
<1>21. space' \in [Process -> [VPage -> Maps \cup {NoPage}]]
  BY <1>4, <1>13, <1>19
<1>22. /\ \A v \in Extent(r[1], r[2]) : StateOf(p, v)' = "Private" /\ FrameOf(p, v)' = FrameOf(p, v)
       /\ \A v \in Extent(t, r[2]) : StateOf(p, v)' = NoPage
  BY <1>17, <1>18, <1>20 DEF StateOf, FrameOf
<1>23. /\ \A v \in VPage : v \notin Extent(r[1], r[2]) /\ v \notin Extent(t, r[2]) =>
            StateOf(p, v)' = StateOf(p, v) /\ FrameOf(p, v)' = FrameOf(p, v)
       /\ \A q \in Process, v \in VPage : q # p =>
            StateOf(q, v)' = StateOf(q, v) /\ FrameOf(q, v)' = FrameOf(q, v)
  BY <1>18, <1>20 DEF StateOf, FrameOf
<1>24. \A v \in Extent(r[1], r[2]) : v \in VPage /\ v < HeapPages /\ v \notin Extent(t, r[2])
  BY <1>5, <1>16
<1> QED
  BY <1>4, <1>6, <1>7, <1>9, <1>10, <1>11, <1>12, <1>21, <1>22, <1>23, <1>24

\* Steps that only change an address space leave the owners and the accounts.
LEMMA QuietStep ==
  ASSUME MemoryInv, space' \in [Process -> [VPage -> Maps \cup {NoPage}]],
         UNCHANGED <<free, holding, memory_used, commit, block, running, double_free>>
  PROVE  /\ MemoryTypes' /\ OneOwner' /\ Commits' /\ Accounts' /\ BlocksUsed' /\ BlocksOwn'
         /\ double_free' = FALSE
PROOF
<1>1. MemoryTypes' /\ double_free' = FALSE
  BY DEF MemoryInv, MemoryTypes
<1>2. OneOwner'
  BY DEF MemoryInv, OneOwner
<1>3. Commits'
  BY DEF MemoryInv, Commits
<1>4. Accounts'
  <2>1. \A p \in running : BlockPages(p)' = BlockPages(p)
    BY DEF BlockPages
  <2> QED
    BY <2>1 DEF MemoryInv, Accounts
<1>5. BlocksUsed' /\ BlocksOwn'
  BY DEF MemoryInv, BlocksUsed, BlocksOwn
<1> QED
  BY <1>1, <1>2, <1>3, <1>4, <1>5

\* Process::Map.
LEMMA MapKeeps ==
  ASSUME Parameters, MemoryInv, NEW p \in Process, NEW r \in HeapRanges,
         NEW t \in 0 .. HeapPages - r[2], Map(p, t, r)
  PROVE  MemoryInv'
PROOF
<1> DEFINE R == Extent(r[1], r[2])
           T == Extent(t, r[2])
<1>1. /\ MemoryTypes /\ OneOwner /\ OwnMapped /\ AliasMapped /\ LinearMapped /\ SharedMapped
      /\ LockedLent /\ BlocksLent
  BY DEF MemoryInv
<1>2. UNCHANGED <<free, holding, memory_used, commit, block, running, double_free>>
  BY DEF Map
<1>3. /\ p \in running /\ space' \in [Process -> [VPage -> Maps \cup {NoPage}]]
      /\ \A v \in R : /\ v \in VPage /\ v < HeapPages /\ v \notin T /\ StateOf(p, v) = "Private"
                      /\ StateOf(p, v)' = "Aliased" /\ FrameOf(p, v)' = FrameOf(p, v)
      /\ \A v \in T : /\ v \in VPage /\ v < HeapPages /\ StateOf(p, v) = NoPage
                      /\ StateOf(p, v)' = "Alias" /\ r[1] + (v - t) \in R
                      /\ FrameOf(p, v)' = FrameOf(p, r[1] + (v - t))
      /\ \A v \in VPage : v \notin R /\ v \notin T =>
           StateOf(p, v)' = StateOf(p, v) /\ FrameOf(p, v)' = FrameOf(p, v)
      /\ \A q \in Process, v \in VPage : q # p =>
           StateOf(q, v)' = StateOf(q, v) /\ FrameOf(q, v)' = FrameOf(q, v)
  BY <1>1, MapEffect
<1>4. \A v \in R : t + (v - r[1]) \in T /\ FrameOf(p, t + (v - r[1]))' = FrameOf(p, v)
  <2> TAKE v \in R
  <2>1. r[1] \in Nat /\ r[2] \in Nat /\ t \in Nat /\ v \in Int
    BY HeapRangeFacts DEF Extent, Parameters
  <2>2. t + (v - r[1]) \in T /\ r[1] + ((t + (v - r[1])) - t) = v
    BY <2>1 DEF Extent
  <2> QED
    BY <1>3, <2>2
<1>5. \A v, w \in T : FrameOf(p, v)' = FrameOf(p, w)' => v = w
  <2> SUFFICES ASSUME NEW v \in T, NEW w \in T, FrameOf(p, v)' = FrameOf(p, w)' PROVE v = w
    OBVIOUS
  <2>1. r[1] + (v - t) \in R /\ r[1] + (w - t) \in R
        /\ FrameOf(p, r[1] + (v - t)) = FrameOf(p, r[1] + (w - t))
    BY <1>3
  <2>2. r[1] + (v - t) = r[1] + (w - t)
    BY <1>1, <1>3, <2>1 DEF OwnMapped, OwnStates
  <2>3. r[1] \in Nat /\ r[2] \in Nat /\ t \in Nat /\ v \in Int /\ w \in Int
    BY HeapRangeFacts DEF Extent, Parameters
  <2> QED
    BY <2>2, <2>3
<1>6. /\ running \subseteq Process
      /\ NoPage # "Alias" /\ NoPage # "Aliased" /\ NoPage # "Shared" /\ NoPage # "Locked" /\ NoPage # "Private"
      /\ NoPage # "Continuous" /\ NoPage \notin OwnStates
  BY <1>1 DEF MemoryTypes, States, OwnStates, Parameters
<1> HIDE DEF R, T
<1>7. OwnMapped'
  <2>1. \A q \in running, v \in VPage : StateOf(q, v)' \in OwnStates =>
          StateOf(q, v) \in OwnStates /\ FrameOf(q, v)' = FrameOf(q, v)
    BY <1>3, <1>6 DEF OwnStates
  <2> QED
    BY <1>1, <1>2, <2>1 DEF OwnMapped
<1>8. AliasMapped'
  <2> SUFFICES ASSUME NEW q \in running, NEW v \in VPage
      PROVE  /\ StateOf(q, v)' = "Aliased" =>
                  \E w \in VPage : StateOf(q, w)' = "Alias" /\ FrameOf(q, w)' = FrameOf(q, v)'
             /\ StateOf(q, v)' = "Alias" =>
                  /\ \E w \in VPage : StateOf(q, w)' = "Aliased" /\ FrameOf(q, w)' = FrameOf(q, v)'
                  /\ \A w \in VPage : StateOf(q, w)' = "Alias" /\ FrameOf(q, w)' = FrameOf(q, v)' => w = v
    BY <1>2 DEF AliasMapped
  <2>1. CASE q # p
    BY <1>1, <1>3, <1>6, <2>1 DEF AliasMapped
  <2>2. CASE q = p
    <3>1. ASSUME StateOf(p, v)' = "Aliased"
          PROVE  \E w \in VPage : StateOf(p, w)' = "Alias" /\ FrameOf(p, w)' = FrameOf(p, v)'
      <4>1. CASE v \in R
        BY <1>3, <1>4, <4>1
      <4>2. CASE v \notin R
        <5>1. StateOf(p, v) = "Aliased" /\ FrameOf(p, v)' = FrameOf(p, v)
          BY <1>3, <3>1, <4>2
        <5>2. PICK w \in VPage : StateOf(p, w) = "Alias" /\ FrameOf(p, w) = FrameOf(p, v)
          BY <1>1, <1>3, <5>1 DEF AliasMapped
        <5>3. StateOf(p, w)' = "Alias" /\ FrameOf(p, w)' = FrameOf(p, w)
          BY <1>3, <1>6, <5>2
        <5> QED
          BY <5>1, <5>2, <5>3
      <4> QED
        BY <4>1, <4>2
    <3>2. ASSUME StateOf(p, v)' = "Alias"
          PROVE  \E w \in VPage : StateOf(p, w)' = "Aliased" /\ FrameOf(p, w)' = FrameOf(p, v)'
      <4>1. CASE v \in T
        BY <1>3, <4>1
      <4>2. CASE v \notin T
        <5>1. StateOf(p, v) = "Alias" /\ FrameOf(p, v)' = FrameOf(p, v)
          BY <1>3, <3>2, <4>2
        <5>2. PICK w \in VPage : StateOf(p, w) = "Aliased" /\ FrameOf(p, w) = FrameOf(p, v)
          BY <1>1, <1>3, <5>1 DEF AliasMapped
        <5>3. StateOf(p, w)' = "Aliased" /\ FrameOf(p, w)' = FrameOf(p, w)
          BY <1>3, <1>6, <5>2
        <5> QED
          BY <5>1, <5>2, <5>3
      <4> QED
        BY <4>1, <4>2
    <3>3. \A u \in VPage : StateOf(p, u)' = "Alias" /\ u \notin T =>
            /\ StateOf(p, u) = "Alias" /\ FrameOf(p, u)' = FrameOf(p, u)
            /\ \A w \in T : FrameOf(p, w)' # FrameOf(p, u)
      <4> SUFFICES ASSUME NEW u \in VPage, StateOf(p, u)' = "Alias", u \notin T
                   PROVE  /\ StateOf(p, u) = "Alias" /\ FrameOf(p, u)' = FrameOf(p, u)
                          /\ \A w \in T : FrameOf(p, w)' # FrameOf(p, u)
        OBVIOUS
      <4>1. StateOf(p, u) = "Alias" /\ FrameOf(p, u)' = FrameOf(p, u)
        BY <1>3
      <4>2. PICK x \in VPage : StateOf(p, x) = "Aliased" /\ FrameOf(p, x) = FrameOf(p, u)
        BY <1>1, <1>3, <4>1 DEF AliasMapped
      <4>3. \A y \in R : FrameOf(p, y) # FrameOf(p, x)
        BY <1>1, <1>3, <4>2 DEF OwnMapped, OwnStates
      <4> QED
        BY <1>3, <4>1, <4>2, <4>3
    <3>4. ASSUME StateOf(p, v)' = "Alias", NEW w \in VPage, StateOf(p, w)' = "Alias",
                 FrameOf(p, w)' = FrameOf(p, v)'
          PROVE  w = v
      <4>1. CASE v \in T /\ w \in T
        BY <1>5, <3>4, <4>1
      <4>2. CASE v \notin T /\ w \notin T
        BY <1>1, <1>3, <3>3, <3>4, <4>2 DEF AliasMapped
      <4>3. CASE (v \in T /\ w \notin T) \/ (v \notin T /\ w \in T)
        BY <3>3, <3>4, <4>3
      <4> QED
        BY <4>1, <4>2, <4>3
    <3> QED
      BY <2>2, <3>1, <3>2, <3>4
  <2> QED
    BY <2>1, <2>2
<1>9. LinearMapped'
  <2> SUFFICES ASSUME NEW q \in running, NEW v \in VPage, StateOf(q, v)' # NoPage
               PROVE  /\ v >= HeapPages => /\ FrameOf(q, v)' = v - HeapPages
                                           /\ StateOf(q, v)' \in {"Continuous", "Shared"}
                      /\ StateOf(q, v)' = "Continuous" => v >= HeapPages
    BY <1>2 DEF LinearMapped
  <2>1. CASE q = p /\ (v \in R \/ v \in T)
    <3>1. v \in Int /\ HeapPages \in Int /\ v < HeapPages
      BY <1>3, <2>1 DEF VPage, Parameters
    <3> QED
      BY <1>3, <2>1, <3>1
  <2>2. CASE ~ (q = p /\ (v \in R \/ v \in T))
    <3>1. StateOf(q, v)' = StateOf(q, v) /\ FrameOf(q, v)' = FrameOf(q, v)
      BY <1>3, <1>6, <2>2
    <3> QED
      BY <1>1, <3>1 DEF LinearMapped
  <2> QED
    BY <2>1, <2>2
<1>10. \A q \in running, v \in VPage :
         /\ StateOf(q, v)' \in {"Shared", "Locked"} =>
              StateOf(q, v) = StateOf(q, v)' /\ FrameOf(q, v)' = FrameOf(q, v)
         /\ StateOf(q, v) \in {"Shared", "Locked"} =>
              StateOf(q, v) = StateOf(q, v)' /\ FrameOf(q, v)' = FrameOf(q, v)
  BY <1>3, <1>6
<1>11. SharedMapped'
  BY <1>1, <1>2, <1>10 DEF SharedMapped
<1>12. LockedLent'
  BY <1>1, <1>2, <1>10 DEF LockedLent, Lends
<1>13. BlocksLent'
  <2> SUFFICES ASSUME NEW b \in Block, NEW q \in Process, Lends(b, q),
                      NEW v \in Extent(block[b].base, block[b].size)
               PROVE  /\ StateOf(q, v)' = "Locked"
                      /\ FrameOf(q, v)' = block[b].frames[v - block[b].base + 1]
    BY <1>1, <1>2, LentStay
  <2>1. /\ q \in running /\ StateOf(q, v) = "Locked" /\ v \in VPage
        /\ FrameOf(q, v) = block[b].frames[v - block[b].base + 1]
    BY <1>1, LentPages
  <2> QED
    BY <1>10, <2>1
<1> QED
  BY <1>2, <1>3, <1>7, <1>8, <1>9, <1>11, <1>12, <1>13, QuietStep DEF MemoryInv

\* Process::Unmap.
LEMMA UnmapKeeps ==
  ASSUME Parameters, MemoryInv, NEW p \in Process, NEW r \in HeapRanges,
         NEW t \in 0 .. HeapPages - r[2], Unmap(p, t, r)
  PROVE  MemoryInv'
PROOF
<1> DEFINE R == Extent(r[1], r[2])
           T == Extent(t, r[2])
<1>1. /\ MemoryTypes /\ OneOwner /\ OwnMapped /\ AliasMapped /\ LinearMapped /\ SharedMapped
      /\ LockedLent /\ BlocksLent
  BY DEF MemoryInv
<1>2. UNCHANGED <<free, holding, memory_used, commit, block, running, double_free>>
  BY DEF Unmap
<1>3. /\ p \in running /\ space' \in [Process -> [VPage -> Maps \cup {NoPage}]]
      /\ \A v \in R : /\ v \in VPage /\ v < HeapPages /\ v \notin T /\ StateOf(p, v) = "Aliased"
                      /\ StateOf(p, v)' = "Private" /\ FrameOf(p, v)' = FrameOf(p, v)
                      /\ t + (v - r[1]) \in T /\ FrameOf(p, t + (v - r[1])) = FrameOf(p, v)
      /\ \A v \in T : /\ v \in VPage /\ StateOf(p, v) = "Alias" /\ StateOf(p, v)' = NoPage
                      /\ r[1] + (v - t) \in R /\ FrameOf(p, v) = FrameOf(p, r[1] + (v - t))
      /\ \A v \in VPage : v \notin R /\ v \notin T =>
           StateOf(p, v)' = StateOf(p, v) /\ FrameOf(p, v)' = FrameOf(p, v)
      /\ \A q \in Process, v \in VPage : q # p =>
           StateOf(q, v)' = StateOf(q, v) /\ FrameOf(q, v)' = FrameOf(q, v)
  BY <1>1, UnmapEffect
<1>4. /\ running \subseteq Process
      /\ NoPage # "Alias" /\ NoPage # "Aliased" /\ NoPage # "Shared" /\ NoPage # "Locked" /\ NoPage # "Private"
      /\ NoPage # "Continuous" /\ NoPage \notin OwnStates
  BY <1>1 DEF MemoryTypes, States, OwnStates, Parameters
<1> HIDE DEF R, T
<1>5. OwnMapped'
  <2>1. \A q \in running, v \in VPage : StateOf(q, v)' \in OwnStates =>
          StateOf(q, v) \in OwnStates /\ FrameOf(q, v)' = FrameOf(q, v)
    BY <1>3, <1>4 DEF OwnStates
  <2> QED
    BY <1>1, <1>2, <2>1 DEF OwnMapped
<1>6. AliasMapped'
  <2> SUFFICES ASSUME NEW q \in running, NEW v \in VPage
      PROVE  /\ StateOf(q, v)' = "Aliased" =>
                  \E w \in VPage : StateOf(q, w)' = "Alias" /\ FrameOf(q, w)' = FrameOf(q, v)'
             /\ StateOf(q, v)' = "Alias" =>
                  /\ \E w \in VPage : StateOf(q, w)' = "Aliased" /\ FrameOf(q, w)' = FrameOf(q, v)'
                  /\ \A w \in VPage : StateOf(q, w)' = "Alias" /\ FrameOf(q, w)' = FrameOf(q, v)' => w = v
    BY <1>2 DEF AliasMapped
  <2>1. CASE q # p
    BY <1>1, <1>3, <1>4, <2>1 DEF AliasMapped
  <2>2. CASE q = p
    <3>1. \A u \in VPage : StateOf(p, u)' \in {"Alias", "Aliased"} =>
            /\ u \notin R /\ u \notin T
            /\ StateOf(p, u) = StateOf(p, u)' /\ FrameOf(p, u)' = FrameOf(p, u)
      BY <1>3, <1>4
    <3>2. ASSUME StateOf(p, v)' = "Aliased"
          PROVE  \E w \in VPage : StateOf(p, w)' = "Alias" /\ FrameOf(p, w)' = FrameOf(p, v)'
      <4>1. v \notin R /\ v \notin T /\ StateOf(p, v) = "Aliased" /\ FrameOf(p, v)' = FrameOf(p, v)
        BY <3>1, <3>2
      <4>2. PICK w \in VPage : StateOf(p, w) = "Alias" /\ FrameOf(p, w) = FrameOf(p, v)
        BY <1>1, <1>3, <4>1 DEF AliasMapped
      <4>3. \A y \in R : FrameOf(p, y) # FrameOf(p, v)
        BY <1>1, <1>3, <4>1 DEF OwnMapped, OwnStates
      <4>4. w \notin T /\ w \notin R
        BY <1>3, <4>2, <4>3
      <4> QED
        BY <1>3, <4>1, <4>2, <4>4
    <3>3. ASSUME StateOf(p, v)' = "Alias"
          PROVE  \E w \in VPage : StateOf(p, w)' = "Aliased" /\ FrameOf(p, w)' = FrameOf(p, v)'
      <4>1. v \notin R /\ v \notin T /\ StateOf(p, v) = "Alias" /\ FrameOf(p, v)' = FrameOf(p, v)
        BY <3>1, <3>3
      <4>2. PICK w \in VPage : StateOf(p, w) = "Aliased" /\ FrameOf(p, w) = FrameOf(p, v)
        BY <1>1, <1>3, <4>1 DEF AliasMapped
      <4>3. \A y \in T : FrameOf(p, y) # FrameOf(p, v)
        BY <1>1, <1>3, <4>1 DEF AliasMapped
      <4>4. w \notin R /\ w \notin T
        BY <1>3, <4>2, <4>3
      <4> QED
        BY <1>3, <4>1, <4>2, <4>4
    <3>4. ASSUME StateOf(p, v)' = "Alias", NEW w \in VPage, StateOf(p, w)' = "Alias",
                 FrameOf(p, w)' = FrameOf(p, v)'
          PROVE  w = v
      BY <1>1, <1>3, <3>1, <3>4 DEF AliasMapped
    <3> QED
      BY <2>2, <3>2, <3>3, <3>4
  <2> QED
    BY <2>1, <2>2
<1>7. LinearMapped'
  <2> SUFFICES ASSUME NEW q \in running, NEW v \in VPage, StateOf(q, v)' # NoPage
               PROVE  /\ v >= HeapPages => /\ FrameOf(q, v)' = v - HeapPages
                                           /\ StateOf(q, v)' \in {"Continuous", "Shared"}
                      /\ StateOf(q, v)' = "Continuous" => v >= HeapPages
    BY <1>2 DEF LinearMapped
  <2>1. CASE q = p /\ v \in R
    <3>1. v \in Int /\ HeapPages \in Int /\ v < HeapPages
      BY <1>3, <2>1 DEF VPage, Parameters
    <3> QED
      BY <1>3, <2>1, <3>1
  <2>2. CASE ~ (q = p /\ v \in R)
    <3>1. StateOf(q, v)' = StateOf(q, v) /\ FrameOf(q, v)' = FrameOf(q, v)
      BY <1>3, <1>4, <2>2
    <3> QED
      BY <1>1, <3>1 DEF LinearMapped
  <2> QED
    BY <2>1, <2>2
<1>8. \A q \in running, v \in VPage :
         /\ StateOf(q, v)' \in {"Shared", "Locked"} =>
              StateOf(q, v) = StateOf(q, v)' /\ FrameOf(q, v)' = FrameOf(q, v)
         /\ StateOf(q, v) \in {"Shared", "Locked"} =>
              StateOf(q, v) = StateOf(q, v)' /\ FrameOf(q, v)' = FrameOf(q, v)
  BY <1>3, <1>4
<1>9. SharedMapped'
  BY <1>1, <1>2, <1>8 DEF SharedMapped
<1>10. LockedLent'
  BY <1>1, <1>2, <1>8 DEF LockedLent, Lends
<1>11. BlocksLent'
  <2> SUFFICES ASSUME NEW b \in Block, NEW q \in Process, Lends(b, q),
                      NEW v \in Extent(block[b].base, block[b].size)
               PROVE  /\ StateOf(q, v)' = "Locked"
                      /\ FrameOf(q, v)' = block[b].frames[v - block[b].base + 1]
    BY <1>1, <1>2, LentStay
  <2>1. /\ q \in running /\ StateOf(q, v) = "Locked" /\ v \in VPage
        /\ FrameOf(q, v) = block[b].frames[v - block[b].base + 1]
    BY <1>1, LentPages
  <2> QED
    BY <1>8, <2>1
<1> QED
  BY <1>2, <1>3, <1>5, <1>6, <1>7, <1>9, <1>10, <1>11, QuietStep DEF MemoryInv

-----------------------------------------------------------------------------
(* Shared memory *)

\* The least of the places a region has.
LEMMA MinRun ==
  ASSUME NEW S, S \subseteq Nat, S # {}
  PROVE  Min(S) \in S
PROOF
<1>1. PICK p \in S : \A q \in S : ~ (<<q, p>> \in OpToRel(<, Nat))
  BY WFMin, NatLessThanWellFounded
<1>2. \A q \in S : p <= q
  <2>1. TAKE q \in S
  <2>2. p \in Nat /\ q \in Nat
    OBVIOUS
  <2>3. ~ (q < p)
    BY <1>1, <2>2 DEF OpToRel
  <2> QED
    BY <2>2, <2>3
<1> QED
  BY <1>2 DEF Min

\* Address spaces that stay as they are.
LEMMA SpaceSame ==
  ASSUME space' = space
  PROVE  \A q, v : StateOf(q, v)' = StateOf(q, v) /\ FrameOf(q, v)' = FrameOf(q, v)
PROOF
  BY DEF StateOf, FrameOf

\* CreateSharedMemory with memory of its own.
LEMMA CreateKeeps ==
  ASSUME Parameters, MemoryInv, NEW p \in Process, NEW b \in Block, NEW n \in 1 .. MaxSize,
         CreateSharedMemory(p, b, n)
  PROVE  MemoryInv'
PROOF
<1> USE DEF MemoryInv
<1>1. PICK f : f = Min(Runs(n))
  OBVIOUS
<1>2. PICK fs, frames : fs = Extent(f, n) /\ frames = Run(f, n)
  OBVIOUS
<1>3. PICK rec : rec = [owner |-> p, base |-> None, size |-> n, users |-> {p},
                        frames |-> frames, holding |-> fs]
  OBVIOUS
<1>4. /\ p \in running /\ block[b] = None /\ Runs(n) # {} /\ free' = free \ fs
      /\ block' = [block EXCEPT ![b] = rec] /\ memory_used' = [memory_used EXCEPT ![p] = @ + n]
      /\ UNCHANGED <<space, holding, commit, running, double_free>>
  BY <1>1, <1>2, <1>3 DEF CreateSharedMemory
<1>5. f \in Frame /\ f \in Nat /\ n \in Nat /\ n >= 1 /\ fs \in SUBSET free /\ f + n <= Frames
  <2>1. Runs(n) \subseteq Nat
    BY DEF Runs, Frame, Parameters
  <2>2. f \in Runs(n)
    BY <1>1, <1>4, <2>1, MinRun
  <2> QED
    BY <1>2, <2>1, <2>2 DEF Runs, Parameters
<1>6. fs \in SUBSET Frame /\ Cardinality(fs) = n
  <2>1. Cardinality(f .. f + n - 1) = n
    BY <1>5, FS_Interval
  <2> QED
    BY <1>2, <1>5, <2>1 DEF MemoryTypes, Extent
<1>7. /\ frames \in [1 .. n -> Frame]
      /\ \A i \in 1 .. n : frames[i] = frames[1] + i - 1 /\ frames[i] \in fs
  <2>1. \A i \in 1 .. n : frames[i] = f + i - 1 /\ f + i - 1 \in fs /\ f + i - 1 \in Int
    BY <1>2, <1>5 DEF Run, Extent
  <2>2. frames = [i \in 1 .. n |-> frames[i]]
    BY <1>2 DEF Run
  <2>3. frames[1] = f
    BY <1>5, <2>1
  <2> QED
    BY <1>5, <1>6, <2>1, <2>2, <2>3
<1>8. /\ rec \in BlockRecords /\ rec # None /\ rec.owner = p /\ rec.base = None /\ rec.size = n
      /\ rec.users = {p} /\ rec.frames = frames /\ rec.holding = fs
  BY <1>3, <1>6, <1>7 DEF BlockRecords, Parameters
<1>9. block'[b] = rec /\ \A c \in Block : c # b => block'[c] = block[c]
  BY <1>4 DEF MemoryTypes
<1>10. memory_used'[p] = memory_used[p] + n /\ \A q \in Process : q # p => memory_used'[q] = memory_used[q]
  BY <1>4 DEF MemoryTypes
<1>11. MemoryTypes' /\ double_free' = FALSE
  BY <1>4, <1>5, <1>8 DEF MemoryTypes
<1>12. OneOwner'
  <2>1. \A g \in Frame : \/ g \in free'
                         \/ \E q \in Process : g \in holding'[q]
                         \/ \E c \in Block : block'[c] # None /\ g \in block'[c].holding
    BY <1>4, <1>8, <1>9 DEF OneOwner
  <2>2. /\ \A q \in Process : holding'[q] \cap free' = {}
        /\ \A q, s \in Process : q # s => holding'[q] \cap holding'[s] = {}
        /\ \A q \in Process : q \notin running' => holding'[q] = {}
    BY <1>4 DEF OneOwner
  <2>3. \A c \in Block : block'[c] # None =>
       /\ block'[c].holding \cap free' = {}
       /\ \A q \in Process : block'[c].holding \cap holding'[q] = {}
       /\ \A d \in Block : block'[d] # None /\ c # d => block'[c].holding \cap block'[d].holding = {}
    BY <1>4, <1>5, <1>8, <1>9 DEF OneOwner
  <2> QED
    BY <2>1, <2>2, <2>3 DEF OneOwner
<1>13. \A q, v : StateOf(q, v)' = StateOf(q, v) /\ FrameOf(q, v)' = FrameOf(q, v)
  BY <1>4, SpaceSame
<1>14. OwnMapped' /\ AliasMapped' /\ LinearMapped'
  BY <1>4, <1>13 DEF OwnMapped, AliasMapped, LinearMapped
<1>15. SharedMapped'
  BY <1>4, <1>9, <1>13 DEF SharedMapped
<1>16. \A c \in Block, q \in Process :
         /\ Lends(c, q)' <=> Lends(c, q)
         /\ Lends(c, q) => block'[c] = block[c]
  BY <1>4, <1>8, <1>9 DEF Lends
<1>17. LockedLent'
  BY <1>4, <1>13, <1>16 DEF LockedLent, MemoryTypes
<1>18. BlocksUsed'
  BY <1>4, <1>7, <1>8, <1>9 DEF BlocksUsed
<1>19. BlocksOwn'
  <2> SUFFICES ASSUME NEW c \in Block, block'[c] # None, block'[c].base = None,
                      NEW i \in 1 .. block'[c].size
               PROVE  /\ block'[c].frames[i] = block'[c].frames[1] + i - 1
                      /\ block'[c].frames[i] \in block'[c].holding
    BY DEF BlocksOwn
  <2>1. CASE c = b
    BY <1>7, <1>8, <1>9, <2>1
  <2>2. CASE c # b
    BY <1>9, <2>2 DEF BlocksOwn
  <2> QED
    BY <2>1, <2>2
<1>20. BlocksLent'
  BY <1>4, <1>13, <1>16 DEF BlocksLent
<1>21. Commits'
  BY <1>4 DEF Commits
<1>22. Accounts'
  <2> SUFFICES ASSUME "share" \notin Careless, NEW q \in running
               PROVE  memory_used'[q] = Cardinality(holding'[q]) + Cardinality(BlockPages(q)')
    BY <1>4 DEF Accounts
  <2>1. q \in Process /\ memory_used[q] = Cardinality(holding[q]) + Cardinality(BlockPages(q))
    BY DEF Accounts, MemoryTypes
  <2>2. CASE q # p
    <3>1. BlockPages(q)' = BlockPages(q)
      BY <1>4, <1>8, <1>9, <2>2 DEF BlockPages
    <3> QED
      BY <1>4, <1>10, <2>1, <2>2, <3>1
  <2>3. CASE q = p
    <3>1. BlockPages(p)' = BlockPages(p) \cup fs
      BY <1>4, <1>8, <1>9 DEF BlockPages
    <3>2. BlockPages(p) \cap fs = {}
      BY <1>5 DEF BlockPages, OneOwner
    <3>3. Cardinality(BlockPages(p)') = Cardinality(BlockPages(p)) + n
      BY <1>6, <3>1, <3>2, HeldFacts, CountBoth
    <3>4. Cardinality(BlockPages(p)) \in Nat /\ Cardinality(holding[p]) \in Nat
      BY HeldFacts, PagesFinite
    <3>5. memory_used'[p] = Cardinality(holding[p]) + Cardinality(BlockPages(p)')
      BY <1>5, <1>10, <2>1, <2>3, <3>3, <3>4
    <3> QED
      BY <1>4, <2>3, <3>5
  <2> QED
    BY <2>2, <2>3
<1> QED
  BY <1>11, <1>12, <1>14, <1>15, <1>17, <1>18, <1>19, <1>20, <1>21, <1>22

\* CreateSharedMemory over memory of the process.
LEMMA ShareKeeps ==
  ASSUME Parameters, MemoryInv, NEW p \in Process, NEW b \in Block, NEW r \in HeapRanges,
         ShareMemory(p, b, r)
  PROVE  MemoryInv'
PROOF
<1>1. /\ MemoryTypes /\ OneOwner /\ OwnMapped /\ AliasMapped /\ LinearMapped /\ SharedMapped
      /\ LockedLent /\ BlocksUsed /\ BlocksOwn /\ BlocksLent /\ Commits /\ Accounts
      /\ double_free = FALSE
  BY DEF MemoryInv
<1>2. /\ p \in running /\ block[b] = None
      /\ UNCHANGED <<free, holding, commit, running, double_free>>
  BY DEF ShareMemory
<1>3. /\ r[1] \in Nat /\ r[2] \in Nat /\ r[2] \in 1 .. MaxSize /\ r[1] + r[2] <= HeapPages
      /\ \A v \in Extent(r[1], r[2]) : v \in VPage /\ v < HeapPages /\ v - r[1] + 1 \in 1 .. r[2]
  BY HeapRangeFacts
<1>4. CASE ~ IsState(p, r, "Private")
  <2>1. /\ "share" \in Careless /\ memory_used' = [memory_used EXCEPT ![p] = @ - r[2]]
        /\ UNCHANGED <<space, block>>
    BY <1>4 DEF ShareMemory
  <2>2. MemoryTypes'
    BY <1>1, <1>2, <1>3, <2>1 DEF MemoryTypes
  <2>3. OneOwner' /\ Commits'
    BY <1>1, <1>2, <2>1 DEF OneOwner, Commits
  <2>4. Accounts'
    BY <2>1 DEF Accounts
  <2>5. \A q, v : StateOf(q, v)' = StateOf(q, v) /\ FrameOf(q, v)' = FrameOf(q, v)
    BY <2>1, SpaceSame
  <2>6. OwnMapped' /\ AliasMapped' /\ LinearMapped'
    BY <1>1, <1>2, <2>5 DEF OwnMapped, AliasMapped, LinearMapped
  <2>7. SharedMapped' /\ LockedLent' /\ BlocksUsed' /\ BlocksOwn'
    BY <1>1, <1>2, <2>1, <2>5 DEF SharedMapped, LockedLent, Lends, BlocksUsed, BlocksOwn
  <2>8. BlocksLent'
    <3>1. \A c \in Block, q \in Process : Lends(c, q) =>
            \A v \in Extent(block[c].base, block[c].size) :
              StateOf(q, v)' = "Locked" /\ FrameOf(q, v)' = block[c].frames[v - block[c].base + 1]
      BY <1>1, <2>5 DEF BlocksLent
    <3> QED
      BY <1>1, <1>2, <2>1, <3>1, LentStay
  <2> QED
    BY <1>1, <1>2, <2>2, <2>3, <2>4, <2>6, <2>7, <2>8 DEF MemoryInv
<1>5. CASE IsState(p, r, "Private")
  <2> DEFINE R == Extent(r[1], r[2])
  <2>1. PICK frames : frames = Behind(p, r)
    OBVIOUS
  <2>2. PICK rec : rec = [owner |-> p, base |-> r[1], size |-> r[2], users |-> {p},
                          frames |-> frames, holding |-> {}]
    OBVIOUS
  <2>3. /\ space' = [space EXCEPT ![p] = Marked(@, r, "Locked")]
        /\ block' = [block EXCEPT ![b] = rec] /\ memory_used' = memory_used
    BY <1>5, <2>1, <2>2 DEF ShareMemory
  <2>4. "Private" \in States /\ "Locked" \in States /\ NoPage \notin States /\ None \notin Nat
    BY DEF States, OwnStates, Parameters
  <2>5. /\ \A v \in R : StateOf(p, v) = "Private"
        /\ Mapped(p, r)
        /\ \A i \in 1 .. r[2] : r[1] + i - 1 \in R /\ frames[i] = FrameOf(p, r[1] + i - 1)
    BY <1>1, <1>3, <1>5, <2>1, <2>4, RangeStates
  <2>6. \A v \in R : v \in VPage /\ v < HeapPages /\ FrameOf(p, v) \in Frame
    BY <1>1, <1>3, <2>4, <2>5, PageFacts
  <2>7. frames \in [1 .. r[2] -> Frame]
    <3>1. \A i \in 1 .. r[2] : frames[i] \in Frame
      BY <2>5, <2>6
    <3> QED
      BY <2>1, <3>1 DEF Behind
  <2>8. /\ rec \in BlockRecords /\ rec # None /\ rec.owner = p /\ rec.base = r[1] /\ rec.size = r[2]
        /\ rec.users = {p} /\ rec.frames = frames /\ rec.holding = {} /\ rec.base # None
    BY <1>3, <2>2, <2>4, <2>7, SMTT(30) DEF BlockRecords, Parameters
  <2>9. block'[b] = rec /\ \A c \in Block : c # b => block'[c] = block[c]
    BY <1>1, <2>3 DEF MemoryTypes
  <2>10. /\ space' \in [Process -> [VPage -> Maps \cup {NoPage}]]
         /\ \A v \in VPage : FrameOf(p, v)' = FrameOf(p, v)
         /\ \A v \in VPage : v \in R => StateOf(p, v)' = "Locked"
         /\ \A v \in VPage : v \notin R => StateOf(p, v)' = StateOf(p, v)
         /\ \A q \in Process, v \in VPage : q # p =>
              StateOf(q, v)' = StateOf(q, v) /\ FrameOf(q, v)' = FrameOf(q, v)
    BY <1>1, <1>3, <2>3, <2>4, <2>5, MarkStep
  <2>11. running \subseteq Process
    BY <1>1 DEF MemoryTypes
  <2>12. MemoryTypes'
    BY <1>1, <1>2, <2>3, <2>8, <2>10 DEF MemoryTypes
  <2>13. OneOwner'
    <3>1. \A g \in Frame : \/ g \in free'
                           \/ \E q \in Process : g \in holding'[q]
                           \/ \E c \in Block : block'[c] # None /\ g \in block'[c].holding
      BY <1>1, <1>2, <2>9 DEF OneOwner
    <3>2. /\ \A q \in Process : holding'[q] \cap free' = {}
          /\ \A q, s \in Process : q # s => holding'[q] \cap holding'[s] = {}
          /\ \A q \in Process : q \notin running' => holding'[q] = {}
      BY <1>1, <1>2 DEF OneOwner
    <3>3. \A c \in Block : block'[c] # None =>
         /\ block'[c].holding \cap free' = {}
         /\ \A q \in Process : block'[c].holding \cap holding'[q] = {}
         /\ \A d \in Block : block'[d] # None /\ c # d => block'[c].holding \cap block'[d].holding = {}
      BY <1>1, <1>2, <2>8, <2>9 DEF OneOwner
    <3> QED
      BY <3>1, <3>2, <3>3 DEF OneOwner
  <2>14. Commits'
    BY <1>1, <1>2 DEF Commits
  <2>15. Accounts'
    <3>1. \A q \in running : BlockPages(q)' = BlockPages(q)
      BY <1>2, <2>8, <2>9 DEF BlockPages
    <3> QED
      BY <1>1, <1>2, <2>3, <3>1 DEF Accounts
  <2> HIDE DEF R
  <2>16. OwnMapped'
    <3>1. \A q \in running, v \in VPage : StateOf(q, v)' \in OwnStates =>
            StateOf(q, v) \in OwnStates /\ FrameOf(q, v)' = FrameOf(q, v)
      BY <2>5, <2>10, <2>11 DEF OwnStates
    <3> QED
      BY <1>1, <1>2, <3>1 DEF OwnMapped
  <2>17. \A q \in running, v \in VPage :
           /\ StateOf(q, v) \in {"Alias", "Aliased", "Shared", "Locked"} =>
                StateOf(q, v)' = StateOf(q, v) /\ FrameOf(q, v)' = FrameOf(q, v)
           /\ StateOf(q, v)' \in {"Alias", "Aliased", "Shared"} =>
                StateOf(q, v)' = StateOf(q, v) /\ FrameOf(q, v)' = FrameOf(q, v)
           /\ StateOf(q, v)' = "Locked" => StateOf(q, v) = "Locked" \/ (q = p /\ v \in R)
    BY <2>5, <2>10, <2>11
  <2>18. AliasMapped'
    <3> SUFFICES ASSUME NEW q \in running, NEW v \in VPage
        PROVE  /\ StateOf(q, v)' = "Aliased" =>
                    \E w \in VPage : StateOf(q, w)' = "Alias" /\ FrameOf(q, w)' = FrameOf(q, v)'
               /\ StateOf(q, v)' = "Alias" =>
                    /\ \E w \in VPage : StateOf(q, w)' = "Aliased" /\ FrameOf(q, w)' = FrameOf(q, v)'
                    /\ \A w \in VPage : StateOf(q, w)' = "Alias" /\ FrameOf(q, w)' = FrameOf(q, v)' => w = v
      BY <1>2 DEF AliasMapped
    <3> QED
      BY <1>1, <2>17 DEF AliasMapped
  <2>19. LinearMapped'
    <3> SUFFICES ASSUME NEW q \in running, NEW v \in VPage, StateOf(q, v)' # NoPage
                 PROVE  /\ v >= HeapPages => /\ FrameOf(q, v)' = v - HeapPages
                                             /\ StateOf(q, v)' \in {"Continuous", "Shared"}
                        /\ StateOf(q, v)' = "Continuous" => v >= HeapPages
      BY <1>2 DEF LinearMapped
    <3>1. CASE q = p /\ v \in R
      <4>1. v \in Int /\ HeapPages \in Int /\ v < HeapPages
        BY <2>6, <3>1 DEF VPage, Parameters
      <4> QED
        BY <2>10, <3>1, <4>1
    <3>2. CASE ~ (q = p /\ v \in R)
      <4>1. StateOf(q, v)' = StateOf(q, v) /\ FrameOf(q, v)' = FrameOf(q, v)
        BY <2>10, <2>11, <3>2
      <4> QED
        BY <1>1, <4>1 DEF LinearMapped
    <3> QED
      BY <3>1, <3>2
  <2>20. SharedMapped'
    BY <1>1, <1>2, <2>9, <2>17 DEF SharedMapped
  <2>21. /\ \A c \in Block, q \in Process : c # b => (Lends(c, q)' <=> Lends(c, q))
         /\ \A q \in Process : Lends(b, q)' <=> q = p
         /\ \A q \in Process : ~ Lends(b, q)
    BY <1>2, <2>8, <2>9 DEF Lends
  <2>22. LockedLent'
    <3> SUFFICES ASSUME NEW q \in running, NEW v \in VPage, StateOf(q, v)' = "Locked"
                 PROVE  \E c \in Block : Lends(c, q)' /\ v \in Extent(block'[c].base, block'[c].size)
      BY <1>2 DEF LockedLent
    <3>1. CASE q = p /\ v \in R
      BY <2>8, <2>9, <2>21, <3>1, <2>11 DEF R
    <3>2. CASE StateOf(q, v) = "Locked"
      <4>1. PICK c \in Block : Lends(c, q) /\ v \in Extent(block[c].base, block[c].size)
        BY <1>1, <3>2 DEF LockedLent
      <4>2. c # b /\ q \in Process
        BY <2>11, <2>21, <4>1
      <4> QED
        BY <2>9, <2>21, <4>1, <4>2
    <3> QED
      BY <2>17, <3>1, <3>2
  <2>23. BlocksUsed'
    <3> SUFFICES ASSUME NEW c \in Block, block'[c] # None
                 PROVE  /\ block'[c].users # {} /\ block'[c].users \subseteq running
                        /\ block'[c].frames \in [1 .. block'[c].size -> Frame]
      BY <1>2 DEF BlocksUsed
    <3>1. CASE c = b
      BY <1>2, <2>7, <2>8, <2>9, <3>1
    <3>2. CASE c # b
      BY <1>1, <2>9, <3>2 DEF BlocksUsed
    <3> QED
      BY <3>1, <3>2
  <2>24. BlocksOwn'
    <3> SUFFICES ASSUME NEW c \in Block, block'[c] # None, block'[c].base = None,
                        NEW i \in 1 .. block'[c].size
                 PROVE  /\ block'[c].frames[i] = block'[c].frames[1] + i - 1
                        /\ block'[c].frames[i] \in block'[c].holding
      BY DEF BlocksOwn
    <3>1. c # b
      BY <2>8, <2>9
    <3> QED
      BY <1>1, <2>9, <3>1 DEF BlocksOwn
  <2>25. BlocksLent'
    <3> SUFFICES ASSUME NEW c \in Block, NEW q \in Process, Lends(c, q)'
        PROVE  /\ q \in running /\ block'[c].holding = {} /\ block'[c].base + block'[c].size <= HeapPages
               /\ \A v \in Extent(block'[c].base, block'[c].size) :
                    /\ StateOf(q, v)' = "Locked"
                    /\ FrameOf(q, v)' = block'[c].frames[v - block'[c].base + 1]
               /\ \A d \in Block : Lends(d, q)' /\ c # d =>
                    Extent(block'[c].base, block'[c].size) \cap Extent(block'[d].base, block'[d].size) = {}
      BY <1>2 DEF BlocksLent
    <3>1. \A d \in Block, s \in Process : d # b /\ Lends(d, s)' =>
            /\ s \in running /\ block'[d].holding = {} /\ block'[d].base + block'[d].size <= HeapPages
            /\ \A v \in Extent(block'[d].base, block'[d].size) :
                 /\ StateOf(s, v) = "Locked" /\ v \in VPage
                 /\ StateOf(s, v)' = "Locked"
                 /\ FrameOf(s, v)' = block'[d].frames[v - block'[d].base + 1]
      <4> SUFFICES ASSUME NEW d \in Block, NEW s \in Process, d # b, Lends(d, s)'
          PROVE  /\ s \in running /\ block'[d].holding = {} /\ block'[d].base + block'[d].size <= HeapPages
                 /\ \A v \in Extent(block'[d].base, block'[d].size) :
                      /\ StateOf(s, v) = "Locked" /\ v \in VPage
                      /\ StateOf(s, v)' = "Locked"
                      /\ FrameOf(s, v)' = block'[d].frames[v - block'[d].base + 1]
        OBVIOUS
      <4>1. Lends(d, s) /\ block'[d] = block[d]
        BY <2>9, <2>21
      <4>2. s \in running /\ block[d].holding = {} /\ block[d].base + block[d].size <= HeapPages
        BY <1>1, <4>1 DEF BlocksLent
      <4>3. \A v \in Extent(block[d].base, block[d].size) :
               /\ StateOf(s, v) = "Locked" /\ v \in VPage
               /\ FrameOf(s, v) = block[d].frames[v - block[d].base + 1]
        BY <1>1, <4>1, LentPages
      <4> QED
        BY <2>17, <4>1, <4>2, <4>3
    <3>2. CASE c # b
      <4>1. \A d \in Block : Lends(d, q)' /\ c # d =>
              Extent(block'[c].base, block'[c].size) \cap Extent(block'[d].base, block'[d].size) = {}
        <5> SUFFICES ASSUME NEW d \in Block, Lends(d, q)', c # d
            PROVE Extent(block'[c].base, block'[c].size) \cap Extent(block'[d].base, block'[d].size) = {}
          OBVIOUS
        <5>1. CASE d = b
          <6>1. q = p /\ Extent(block'[d].base, block'[d].size) = R
            BY <2>8, <2>9, <2>21, <5>1 DEF R
          <6>2. \A v \in Extent(block'[c].base, block'[c].size) : v \notin R
            BY <2>5, <3>1, <3>2, <6>1 DEF R
          <6> QED
            BY <6>1, <6>2
        <5>2. CASE d # b
          <6>1. Lends(c, q) /\ Lends(d, q) /\ block'[c] = block[c] /\ block'[d] = block[d]
            BY <2>9, <2>21, <3>2, <5>2
          <6> QED
            BY <1>1, <6>1 DEF BlocksLent
        <5> QED
          BY <5>1, <5>2
      <4> QED
        BY <3>1, <3>2, <4>1
    <3>3. CASE c = b
      <4>1. q = p /\ block'[c].base = r[1] /\ block'[c].size = r[2] /\ block'[c].holding = {}
            /\ block'[c].frames = frames
        BY <2>8, <2>9, <2>21, <3>3
      <4>2. \A v \in R : StateOf(p, v)' = "Locked" /\ FrameOf(p, v)' = frames[v - r[1] + 1]
        <5> TAKE v \in R
        <5>1. v \in VPage /\ v \in Int /\ v - r[1] + 1 \in 1 .. r[2] /\ r[1] + (v - r[1] + 1) - 1 = v
          BY <1>3 DEF R, Extent
        <5>2. frames[v - r[1] + 1] = FrameOf(p, r[1] + (v - r[1] + 1) - 1)
          BY <2>5, <5>1
        <5> QED
          BY <2>10, <5>1, <5>2
      <4>3. \A d \in Block : Lends(d, q)' /\ c # d =>
              R \cap Extent(block'[d].base, block'[d].size) = {}
        BY <2>5, <3>1, <3>3, <4>1 DEF R
      <4> QED
        BY <1>2, <1>3, <4>1, <4>2, <4>3 DEF R
    <3> QED
      BY <3>2, <3>3
  <2> QED
    BY <1>1, <1>2, <2>12, <2>13, <2>14, <2>15, <2>16, <2>18, <2>19, <2>20, <2>22, <2>23, <2>24, <2>25
    DEF MemoryInv
<1> QED
  BY <1>4, <1>5

\* A message gives another process a handle.
LEMMA ReceiveKeeps ==
  ASSUME Parameters, MemoryInv, NEW p \in Process, NEW b \in Block, Receive(p, b)
  PROVE  MemoryInv'
PROOF
<1>1. /\ MemoryTypes /\ OneOwner /\ OwnMapped /\ AliasMapped /\ LinearMapped /\ SharedMapped
      /\ LockedLent /\ BlocksUsed /\ BlocksOwn /\ BlocksLent /\ Commits /\ Accounts
      /\ double_free = FALSE
  BY DEF MemoryInv
<1>2. /\ p \in running /\ block[b] # None
      /\ block' = [block EXCEPT ![b].users = @ \cup {p}]
      /\ UNCHANGED <<free, space, holding, memory_used, commit, running, double_free>>
  BY DEF Receive
<1>3. block[b] \in BlockRecords /\ block[b].users \in SUBSET Process
  BY <1>1, <1>2, BlockFacts
<1>4. PICK rec : rec = [block[b] EXCEPT !.users = @ \cup {p}]
  OBVIOUS
<1>5. /\ rec \in BlockRecords /\ rec # None /\ rec.owner = block[b].owner /\ rec.base = block[b].base
      /\ rec.size = block[b].size /\ rec.users = block[b].users \cup {p}
      /\ rec.frames = block[b].frames /\ rec.holding = block[b].holding
  BY <1>3, <1>4 DEF BlockRecords, Parameters
<1>6. block' = [block EXCEPT ![b] = rec]
  BY <1>2, <1>4
<1>7. block'[b] = rec /\ \A c \in Block : c # b => block'[c] = block[c]
  BY <1>1, <1>6 DEF MemoryTypes
<1>8. MemoryTypes'
  BY <1>1, <1>2, <1>5, <1>6 DEF MemoryTypes
<1>9. \A c \in Block :
        /\ block'[c] # None <=> block[c] # None
        /\ block[c] # None => /\ block'[c].owner = block[c].owner /\ block'[c].base = block[c].base
                              /\ block'[c].size = block[c].size /\ block'[c].frames = block[c].frames
                              /\ block'[c].holding = block[c].holding
                              /\ block[c].users \subseteq block'[c].users
                              /\ block'[c].users \subseteq block[c].users \cup {p}
  BY <1>2, <1>5, <1>7
<1>10. \A q, v : StateOf(q, v)' = StateOf(q, v) /\ FrameOf(q, v)' = FrameOf(q, v)
  BY <1>2, SpaceSame
<1>11. OwnMapped' /\ AliasMapped' /\ LinearMapped'
  BY <1>1, <1>2, <1>10 DEF OwnMapped, AliasMapped, LinearMapped
<1>12. OneOwner'
  <2>1. \A f \in Frame : \/ f \in free'
                         \/ \E q \in Process : f \in holding'[q]
                         \/ \E c \in Block : block'[c] # None /\ f \in block'[c].holding
    BY <1>1, <1>2, <1>9 DEF OneOwner
  <2>2. \A c \in Block : block'[c] # None =>
       /\ block'[c].holding \cap free' = {}
       /\ \A q \in Process : block'[c].holding \cap holding'[q] = {}
       /\ \A d \in Block : block'[d] # None /\ c # d => block'[c].holding \cap block'[d].holding = {}
    BY <1>1, <1>2, <1>9 DEF OneOwner
  <2> QED
    BY <1>1, <1>2, <2>1, <2>2 DEF OneOwner
<1>13. SharedMapped'
  BY <1>1, <1>2, <1>9, <1>10 DEF SharedMapped
<1>14. \A c \in Block, q \in Process : Lends(c, q)' <=> Lends(c, q)
  BY <1>9 DEF Lends
<1>15. LockedLent'
  <2> SUFFICES ASSUME NEW q \in running, NEW v \in VPage, StateOf(q, v)' = "Locked"
               PROVE  \E c \in Block : Lends(c, q)' /\ v \in Extent(block'[c].base, block'[c].size)
    BY <1>2 DEF LockedLent
  <2>1. PICK c \in Block : Lends(c, q) /\ v \in Extent(block[c].base, block[c].size)
    BY <1>1, <1>10 DEF LockedLent
  <2>2. q \in Process /\ block[c] # None
    BY <1>1, <2>1 DEF MemoryTypes, Lends
  <2> QED
    BY <1>9, <1>14, <2>1, <2>2
<1>16. BlocksUsed' /\ BlocksOwn'
  BY <1>1, <1>2, <1>9 DEF BlocksUsed, BlocksOwn
<1>17. BlocksLent'
  <2>1. \A c \in Block, q \in Process : Lends(c, q) => block[c] # None
    BY DEF Lends
  <2>2. \A c \in Block, q \in Process : Lends(c, q) =>
          /\ q \in running /\ block'[c].holding = {} /\ block'[c].base + block'[c].size <= HeapPages
          /\ \A v \in Extent(block'[c].base, block'[c].size) :
               StateOf(q, v)' = "Locked" /\ FrameOf(q, v)' = block'[c].frames[v - block'[c].base + 1]
    BY <1>1, <1>9, <1>10, <2>1 DEF BlocksLent
  <2>3. \A c, d \in Block, q \in Process : Lends(c, q) /\ Lends(d, q) /\ c # d =>
          Extent(block'[c].base, block'[c].size) \cap Extent(block'[d].base, block'[d].size) = {}
    BY <1>1, <1>9, <2>1 DEF BlocksLent
  <2> QED
    BY <1>2, <1>14, <2>2, <2>3 DEF BlocksLent
<1>18. Commits'
  BY <1>1, <1>2 DEF Commits
<1>19. Accounts'
  <2>1. \A q \in running : BlockPages(q)' = BlockPages(q)
    BY <1>9 DEF BlockPages
  <2> QED
    BY <1>1, <1>2, <2>1 DEF Accounts
<1> QED
  BY <1>1, <1>2, <1>8, <1>11, <1>12, <1>13, <1>15, <1>16, <1>17, <1>18, <1>19 DEF MemoryInv

\* SharedMemory::Map.
LEMMA MapSharedKeeps ==
  ASSUME Parameters, MemoryInv, NEW p \in Process, NEW b \in Block, NEW a \in VPage, MapShared(p, b, a)
  PROVE  MemoryInv'
PROOF
<1>1. /\ MemoryTypes /\ OneOwner /\ OwnMapped /\ AliasMapped /\ LinearMapped /\ SharedMapped
      /\ LockedLent /\ BlocksUsed /\ BlocksOwn /\ BlocksLent
  BY DEF MemoryInv
<1>2. PICK r, frames, n : r = <<a, n>> /\ frames = block[b].frames /\ n = block[b].size
  OBVIOUS
<1>3. /\ p \in running /\ block[b] # None /\ p \in block[b].users
      /\ r \in HeapRanges \/ (block[b].base = None /\ a = Linear(frames[1]))
      /\ Unused(p, r)
      /\ space' = [space EXCEPT ![p] = MapTo(@, r, "Shared", frames)]
      /\ UNCHANGED <<free, holding, memory_used, commit, block, running, double_free>>
  BY <1>2 DEF MapShared
<1>4. /\ n \in Nat /\ n >= 1 /\ a \in Nat /\ r[1] = a /\ r[2] = n /\ HeapPages \in Nat /\ Frames \in Nat
      /\ frames \in [1 .. n -> Frame]
  BY <1>1, <1>2, <1>3, BlockFacts DEF BlocksUsed, VPage, Parameters
<1>5. \A v \in Extent(a, n) : /\ v \in VPage /\ v - a + 1 \in 1 .. n
                              /\ v >= HeapPages => frames[v - a + 1] = v - HeapPages
  <2>1. CASE r \in HeapRanges
    <3>1. \A v \in Extent(r[1], r[2]) : v \in VPage /\ v < HeapPages /\ v - r[1] + 1 \in 1 .. r[2]
      BY <2>1, HeapRangeFacts
    <3>2. \A v \in Extent(a, n) : v \in Int
      BY <1>4 DEF Extent
    <3> QED
      BY <1>4, <3>1, <3>2
  <2>2. CASE block[b].base = None /\ a = Linear(frames[1])
    <3> TAKE v \in Extent(a, n)
    <3>1. v \in Int /\ v - a + 1 \in 1 .. n
      BY <1>4 DEF Extent
    <3>2. frames[v - a + 1] = frames[1] + (v - a + 1) - 1
      BY <1>1, <1>2, <1>3, <2>2, <3>1 DEF BlocksOwn
    <3>3. frames[1] \in Frame /\ frames[v - a + 1] \in Frame
      BY <1>4, <3>1
    <3>4. a = HeapPages + frames[1] /\ frames[1] \in Int /\ frames[v - a + 1] \in 0 .. Frames - 1
      BY <2>2, <3>3 DEF Linear, Frame
    <3>5. v = HeapPages + frames[v - a + 1]
      BY <1>4, <3>1, <3>2, <3>4, SMTT(30)
    <3>6. PICK g : g = frames[v - a + 1]
      OBVIOUS
    <3>7. g \in 0 .. Frames - 1 /\ v = HeapPages + g
      BY <3>4, <3>5, <3>6
    <3>8. v \in VPage /\ g = v - HeapPages
      BY <1>4, <3>7 DEF VPage
    <3> QED
      BY <3>1, <3>6, <3>8
  <2> QED
    BY <1>3, <2>1, <2>2
<1>6. "Shared" \in States /\ NoPage \notin States /\ NoPage \notin OwnStates
      /\ NoPage # "Alias" /\ NoPage # "Aliased" /\ NoPage # "Shared" /\ NoPage # "Locked"
  BY DEF States, OwnStates, Parameters
<1>7. \A v \in Extent(a, n) : StateOf(p, v) = NoPage
  BY <1>1, <1>3, <1>4, <1>5, RangeStates
<1>8. /\ space' \in [Process -> [VPage -> Maps \cup {NoPage}]]
      /\ \A v \in VPage : v \in Extent(a, n) =>
           StateOf(p, v)' = "Shared" /\ FrameOf(p, v)' = frames[v - a + 1]
      /\ \A v \in VPage : v \notin Extent(a, n) =>
           StateOf(p, v)' = StateOf(p, v) /\ FrameOf(p, v)' = FrameOf(p, v)
      /\ \A q \in Process, v \in VPage : q # p =>
           StateOf(q, v)' = StateOf(q, v) /\ FrameOf(q, v)' = FrameOf(q, v)
  <2>1. PICK s : s = "Shared"
    OBVIOUS
  <2>2. /\ s \in States /\ space' = [space EXCEPT ![p] = MapTo(@, r, s, frames)]
        /\ r[1] \in Nat /\ r[2] \in Nat /\ frames \in [1 .. r[2] -> Frame]
    BY <1>3, <1>4, <1>6, <2>1
  <2>3. /\ space' \in [Process -> [VPage -> Maps \cup {NoPage}]]
        /\ \A v \in VPage : v \in Extent(r[1], r[2]) =>
             StateOf(p, v)' = s /\ FrameOf(p, v)' = frames[v - r[1] + 1]
        /\ \A v \in VPage : v \notin Extent(r[1], r[2]) =>
             StateOf(p, v)' = StateOf(p, v) /\ FrameOf(p, v)' = FrameOf(p, v)
        /\ \A q \in Process, v \in VPage : q # p =>
             StateOf(q, v)' = StateOf(q, v) /\ FrameOf(q, v)' = FrameOf(q, v)
    BY <1>1, <2>2, MapToStep
  <2> QED
    BY <1>4, <2>1, <2>3
<1>9. \A q \in running, v \in VPage :
        /\ StateOf(q, v) # NoPage => StateOf(q, v)' = StateOf(q, v) /\ FrameOf(q, v)' = FrameOf(q, v)
        /\ StateOf(q, v)' \notin {"Shared"} =>
             StateOf(q, v)' = StateOf(q, v) /\ FrameOf(q, v)' = FrameOf(q, v)
  BY <1>1, <1>7, <1>8 DEF MemoryTypes
<1>10. OwnMapped'
  <2>1. \A q \in running, v \in VPage : StateOf(q, v)' \in OwnStates =>
          StateOf(q, v) \in OwnStates /\ FrameOf(q, v)' = FrameOf(q, v)
    BY <1>9 DEF OwnStates
  <2> QED
    BY <1>1, <1>3, <2>1 DEF OwnMapped
<1>11. AliasMapped'
  <2> SUFFICES ASSUME NEW q \in running, NEW v \in VPage
      PROVE  /\ StateOf(q, v)' = "Aliased" =>
                  \E w \in VPage : StateOf(q, w)' = "Alias" /\ FrameOf(q, w)' = FrameOf(q, v)'
             /\ StateOf(q, v)' = "Alias" =>
                  /\ \E w \in VPage : StateOf(q, w)' = "Aliased" /\ FrameOf(q, w)' = FrameOf(q, v)'
                  /\ \A w \in VPage : StateOf(q, w)' = "Alias" /\ FrameOf(q, w)' = FrameOf(q, v)' => w = v
    BY <1>3 DEF AliasMapped
  <2> QED
    BY <1>1, <1>6, <1>9 DEF AliasMapped
<1>12. LinearMapped'
  <2> SUFFICES ASSUME NEW q \in running, NEW v \in VPage, StateOf(q, v)' # NoPage
               PROVE  /\ v >= HeapPages => /\ FrameOf(q, v)' = v - HeapPages
                                           /\ StateOf(q, v)' \in {"Continuous", "Shared"}
                      /\ StateOf(q, v)' = "Continuous" => v >= HeapPages
    BY <1>3 DEF LinearMapped
  <2>1. CASE q = p /\ v \in Extent(a, n)
    BY <1>5, <1>8, <2>1
  <2>2. CASE ~ (q = p /\ v \in Extent(a, n))
    <3>1. StateOf(q, v)' = StateOf(q, v) /\ FrameOf(q, v)' = FrameOf(q, v)
      BY <1>1, <1>8, <2>2 DEF MemoryTypes
    <3> QED
      BY <1>1, <3>1 DEF LinearMapped
  <2> QED
    BY <2>1, <2>2
<1>13. SharedMapped'
  <2> SUFFICES ASSUME NEW q \in running, NEW v \in VPage, StateOf(q, v)' = "Shared"
      PROVE  \E c \in Block : /\ block[c] # None /\ q \in block[c].users
                              /\ \E i \in 1 .. block[c].size : block[c].frames[i] = FrameOf(q, v)'
    BY <1>3 DEF SharedMapped
  <2>1. CASE q = p /\ v \in Extent(a, n)
    BY <1>2, <1>3, <1>5, <1>8, <2>1
  <2>2. CASE ~ (q = p /\ v \in Extent(a, n))
    <3>1. StateOf(q, v)' = StateOf(q, v) /\ FrameOf(q, v)' = FrameOf(q, v)
      BY <1>1, <1>8, <2>2 DEF MemoryTypes
    <3> QED
      BY <1>1, <3>1 DEF SharedMapped
  <2> QED
    BY <2>1, <2>2
<1>14. LockedLent'
  BY <1>1, <1>3, <1>9 DEF LockedLent, Lends
<1>15. BlocksLent'
  <2> SUFFICES ASSUME NEW c \in Block, NEW q \in Process, Lends(c, q),
                      NEW v \in Extent(block[c].base, block[c].size)
               PROVE  /\ StateOf(q, v)' = "Locked"
                      /\ FrameOf(q, v)' = block[c].frames[v - block[c].base + 1]
    BY <1>1, <1>3, LentStay
  <2>1. /\ q \in running /\ StateOf(q, v) = "Locked" /\ v \in VPage
        /\ FrameOf(q, v) = block[c].frames[v - block[c].base + 1]
    BY <1>1, LentPages
  <2> QED
    BY <1>6, <1>9, <2>1
<1> QED
  BY <1>3, <1>8, <1>10, <1>11, <1>12, <1>13, <1>14, <1>15, QuietStep DEF MemoryInv

\* SharedMemory::Unmap.
LEMMA UnmapSharedKeeps ==
  ASSUME Parameters, MemoryInv, NEW p \in Process, NEW b \in Block, NEW a \in VPage,
         UnmapShared(p, b, a)
  PROVE  MemoryInv'
PROOF
<1>1. /\ MemoryTypes /\ OneOwner /\ OwnMapped /\ AliasMapped /\ LinearMapped /\ SharedMapped
      /\ LockedLent /\ BlocksUsed /\ BlocksOwn /\ BlocksLent
  BY DEF MemoryInv
<1>2. PICK r : r = <<a, block[b].size>>
  OBVIOUS
<1>3. /\ p \in running /\ r \in HeapRanges \cup LinearRanges /\ IsState(p, r, "Shared")
      /\ space' = [space EXCEPT ![p] = Unmapped(@, r)]
      /\ UNCHANGED <<free, holding, memory_used, commit, block, running, double_free>>
  BY <1>2 DEF UnmapShared
<1>4. r[1] \in Nat /\ r[2] \in Nat /\ \A v \in Extent(r[1], r[2]) : v \in VPage
  BY <1>3, HeapRangeFacts, LinearRangeFacts
<1>5. "Shared" \in States /\ NoPage \notin OwnStates
      /\ NoPage # "Alias" /\ NoPage # "Aliased" /\ NoPage # "Shared" /\ NoPage # "Locked"
  BY DEF States, OwnStates, Parameters
<1>6. \A v \in Extent(r[1], r[2]) : StateOf(p, v) = "Shared"
  BY <1>1, <1>3, <1>4, <1>5, RangeStates
<1>7. /\ space' \in [Process -> [VPage -> Maps \cup {NoPage}]]
      /\ \A v \in VPage : v \in Extent(r[1], r[2]) => StateOf(p, v)' = NoPage
      /\ \A v \in VPage : v \notin Extent(r[1], r[2]) =>
           StateOf(p, v)' = StateOf(p, v) /\ FrameOf(p, v)' = FrameOf(p, v)
      /\ \A q \in Process, v \in VPage : q # p =>
           StateOf(q, v)' = StateOf(q, v) /\ FrameOf(q, v)' = FrameOf(q, v)
  BY <1>1, <1>3, UnmapStep
<1>8. \A q \in running, v \in VPage :
        /\ StateOf(q, v)' # NoPage => StateOf(q, v)' = StateOf(q, v) /\ FrameOf(q, v)' = FrameOf(q, v)
        /\ StateOf(q, v) # "Shared" =>
             StateOf(q, v)' = StateOf(q, v) /\ (StateOf(q, v) # NoPage => FrameOf(q, v)' = FrameOf(q, v))
  BY <1>1, <1>6, <1>7 DEF MemoryTypes
<1>9. OwnMapped'
  <2>1. \A q \in running, v \in VPage : StateOf(q, v)' \in OwnStates =>
          StateOf(q, v) \in OwnStates /\ FrameOf(q, v)' = FrameOf(q, v)
    BY <1>5, <1>8
  <2> QED
    BY <1>1, <1>3, <2>1 DEF OwnMapped
<1>10. AliasMapped'
  <2> SUFFICES ASSUME NEW q \in running, NEW v \in VPage
      PROVE  /\ StateOf(q, v)' = "Aliased" =>
                  \E w \in VPage : StateOf(q, w)' = "Alias" /\ FrameOf(q, w)' = FrameOf(q, v)'
             /\ StateOf(q, v)' = "Alias" =>
                  /\ \E w \in VPage : StateOf(q, w)' = "Aliased" /\ FrameOf(q, w)' = FrameOf(q, v)'
                  /\ \A w \in VPage : StateOf(q, w)' = "Alias" /\ FrameOf(q, w)' = FrameOf(q, v)' => w = v
    BY <1>3 DEF AliasMapped
  <2> QED
    BY <1>1, <1>5, <1>8 DEF AliasMapped
<1>11. LinearMapped'
  BY <1>1, <1>3, <1>8 DEF LinearMapped
<1>12. SharedMapped'
  BY <1>1, <1>3, <1>5, <1>8 DEF SharedMapped
<1>13. LockedLent'
  BY <1>1, <1>3, <1>5, <1>8 DEF LockedLent, Lends
<1>14. BlocksLent'
  <2> SUFFICES ASSUME NEW c \in Block, NEW q \in Process, Lends(c, q),
                      NEW v \in Extent(block[c].base, block[c].size)
               PROVE  /\ StateOf(q, v)' = "Locked"
                      /\ FrameOf(q, v)' = block[c].frames[v - block[c].base + 1]
    BY <1>1, <1>3, LentStay
  <2>1. /\ q \in running /\ StateOf(q, v) = "Locked" /\ v \in VPage
        /\ FrameOf(q, v) = block[c].frames[v - block[c].base + 1]
    BY <1>1, LentPages
  <2> QED
    BY <1>5, <1>8, <2>1
<1> QED
  BY <1>3, <1>7, <1>9, <1>10, <1>11, <1>12, <1>13, <1>14, QuietStep DEF MemoryInv

\* What is left of a block when a process drops its handles to some of them.
LEMMA DroppedFacts ==
  ASSUME Parameters, MemoryTypes, NEW q \in Process, NEW bs \in SUBSET Block, block' = Dropped(q, bs)
  PROVE  /\ block' \in [Block -> BlockRecords \cup {None}]
         /\ \A c \in Block : block'[c] # None <=> block[c] # None /\ c \notin Dying(q, bs)
         /\ \A c \in Block : block'[c] # None =>
              /\ block'[c].owner = block[c].owner /\ block'[c].base = block[c].base
              /\ block'[c].size = block[c].size /\ block'[c].frames = block[c].frames
              /\ block'[c].holding = block[c].holding
              /\ block'[c].users = IF c \in bs THEN block[c].users \ {q} ELSE block[c].users
PROOF
<1> SUFFICES ASSUME NEW c \in Block
    PROVE  /\ block'[c] \in BlockRecords \cup {None}
           /\ block'[c] # None <=> block[c] # None /\ c \notin Dying(q, bs)
           /\ block'[c] # None =>
                /\ block'[c].owner = block[c].owner /\ block'[c].base = block[c].base
                /\ block'[c].size = block[c].size /\ block'[c].frames = block[c].frames
                /\ block'[c].holding = block[c].holding
                /\ block'[c].users = IF c \in bs THEN block[c].users \ {q} ELSE block[c].users
  BY DEF Dropped
<1>1. CASE c \in Dying(q, bs)
  BY <1>1 DEF Dropped
<1>2. CASE c \notin Dying(q, bs) /\ c \in bs /\ block[c] # None
  <2>1. block'[c] = [block[c] EXCEPT !.users = @ \ {q}]
    BY <1>2 DEF Dropped
  <2>2. block[c] \in BlockRecords /\ block[c].users \in SUBSET Process
    BY <1>2, BlockFacts
  <2>3. PICK rec : rec = [block[c] EXCEPT !.users = @ \ {q}]
    OBVIOUS
  <2>4. /\ rec \in BlockRecords /\ rec # None /\ rec.owner = block[c].owner /\ rec.base = block[c].base
        /\ rec.size = block[c].size /\ rec.users = block[c].users \ {q}
        /\ rec.frames = block[c].frames /\ rec.holding = block[c].holding
    BY <2>2, <2>3 DEF BlockRecords, Parameters
  <2>5. block'[c] = rec
    BY <2>1, <2>3
  <2> QED
    BY <1>2, <2>4, <2>5
<1>3. CASE c \notin Dying(q, bs) /\ ~ (c \in bs /\ block[c] # None)
  <2>1. block'[c] = block[c]
    BY <1>3 DEF Dropped
  <2> QED
    BY <1>3, <2>1 DEF MemoryTypes
<1> QED
  BY <1>1, <1>2, <1>3

\* The destructors unlock the pages their blocks had borrowed, and nothing else.
LEMMA UnlockedFacts ==
  ASSUME Parameters, MemoryTypes, BlocksLent, NEW p \in Process, NEW dying \in SUBSET Block,
         \A b \in dying : block[b] # None, space'[p] = Unlocked(dying, p)
  PROVE  /\ space'[p] \in [VPage -> Maps \cup {NoPage}]
         /\ \A v \in VPage : (\E b \in dying : Lends(b, p) /\ v \in Extent(block[b].base, block[b].size)) =>
              StateOf(p, v) = "Locked" /\ StateOf(p, v)' = "Private" /\ FrameOf(p, v)' = FrameOf(p, v)
         /\ \A v \in VPage : ~ (\E b \in dying : Lends(b, p) /\ v \in Extent(block[b].base, block[b].size)) =>
              StateOf(p, v)' = StateOf(p, v) /\ FrameOf(p, v)' = FrameOf(p, v)
PROOF
<1> DEFINE L(v) == \E b \in dying : Lends(b, p) /\ v \in Extent(block[b].base, block[b].size)
<1>1. \A v \in VPage : L(v) <=> \E b \in dying : /\ block[b].owner = p /\ block[b].base # None
                                                 /\ v \in Extent(block[b].base, block[b].size)
  BY DEF Lends
<1>2. \A v \in VPage : space'[p][v] = IF L(v) THEN Mapping("Private", space[p][v].frame) ELSE space[p][v]
  BY <1>1 DEF Unlocked
<1>3. \A v \in VPage : L(v) => StateOf(p, v) = "Locked"
  BY DEF BlocksLent
<1> HIDE DEF L
<1>4. "Private" \in States /\ NoPage # "Locked"
  BY DEF States, OwnStates, Parameters
<1>5. \A v \in VPage : L(v) => space[p][v].frame \in Frame
  BY <1>3, <1>4, PageFacts DEF FrameOf
<1>6. \A v \in VPage : L(v) => /\ space'[p][v] \in Maps /\ space'[p][v] # NoPage
                               /\ space'[p][v].state = "Private"
                               /\ space'[p][v].frame = space[p][v].frame
  <2> SUFFICES ASSUME NEW v \in VPage, L(v)
               PROVE  /\ space'[p][v] \in Maps /\ space'[p][v] # NoPage
                      /\ space'[p][v].state = "Private" /\ space'[p][v].frame = space[p][v].frame
    OBVIOUS
  <2>1. space'[p][v] = Mapping("Private", space[p][v].frame) /\ space[p][v].frame \in Frame
    BY <1>2, <1>5
  <2> QED
    BY <1>4, <2>1, MappingFacts
<1>7. \A v \in VPage : space'[p][v] \in Maps \cup {NoPage}
  BY <1>2, <1>6 DEF MemoryTypes
<1>8. space'[p] \in [VPage -> Maps \cup {NoPage}]
  BY <1>7 DEF Unlocked
<1>9. \A v \in VPage : L(v) => StateOf(p, v)' = "Private" /\ FrameOf(p, v)' = FrameOf(p, v)
  BY <1>6 DEF StateOf, FrameOf
<1>10. \A v \in VPage : ~ L(v) => StateOf(p, v)' = StateOf(p, v) /\ FrameOf(p, v)' = FrameOf(p, v)
  BY <1>2 DEF StateOf, FrameOf
<1> QED
  BY <1>3, <1>8, <1>9, <1>10 DEF L

\* A process drops its handles to blocks that it does not show, or exits.
LEMMA DropKeeps ==
  ASSUME Parameters, MemoryInv, NEW q \in Process, q \in running, NEW bs \in SUBSET Block,
         block' = Dropped(q, bs),
         running' \subseteq running, \A p \in running : p # q => p \in running',
         \A p \in running' : space'[p] = Unlocked(Dying(q, bs), p) /\ holding'[p] = holding[p],
         q \in running' => \A b \in bs, v \in VPage :
           block[b] # None /\ StateOf(q, v) = "Shared" =>
             \A i \in 1 .. block[b].size : block[b].frames[i] # FrameOf(q, v),
         q \notin running' => /\ bs = Block
                              /\ \A b \in Block : Lends(b, q) => block[b].users \subseteq {q}
  PROVE  /\ \A p \in running' : space'[p] \in [VPage -> Maps \cup {NoPage}]
         /\ OwnMapped' /\ AliasMapped' /\ LinearMapped' /\ SharedMapped' /\ LockedLent'
         /\ BlocksUsed' /\ BlocksOwn' /\ BlocksLent'
PROOF
<1>1. /\ MemoryTypes /\ OneOwner /\ OwnMapped /\ AliasMapped /\ LinearMapped /\ SharedMapped
      /\ LockedLent /\ BlocksUsed /\ BlocksOwn /\ BlocksLent
  BY DEF MemoryInv
<1>2. PICK dying : dying = Dying(q, bs)
  OBVIOUS
<1>3. dying \in SUBSET Block /\ \A b \in dying : block[b] # None /\ b \in bs /\ block[b].users = {q}
  BY <1>2 DEF Dying
<1>4. /\ \A c \in Block : block'[c] # None <=> block[c] # None /\ c \notin dying
      /\ \A c \in Block : block'[c] # None =>
           /\ block'[c].owner = block[c].owner /\ block'[c].base = block[c].base
           /\ block'[c].size = block[c].size /\ block'[c].frames = block[c].frames
           /\ block'[c].holding = block[c].holding
           /\ block'[c].users = IF c \in bs THEN block[c].users \ {q} ELSE block[c].users
  BY <1>1, <1>2, DroppedFacts
<1>41. \A c \in Block : block'[c] # None <=> block[c] # None /\ c \notin dying
  BY <1>4
<1>42. \A c \in Block : block'[c] # None /\ c \in bs => block'[c].users = block[c].users \ {q}
  BY <1>4
<1>43. \A c \in Block : block'[c] # None /\ c \notin bs => block'[c].users = block[c].users
  BY <1>4
<1>44. \A c \in Block : block'[c] # None =>
         block'[c].size = block[c].size /\ block'[c].frames = block[c].frames
  BY <1>4
<1>45. \A c \in Block : block'[c] # None =>
         block'[c].base = block[c].base /\ block'[c].holding = block[c].holding
  BY <1>4
<1>5. running \subseteq Process
  BY <1>1 DEF MemoryTypes
<1> DEFINE L(p, v) == \E b \in dying : Lends(b, p) /\ v \in Extent(block[b].base, block[b].size)
<1>6. \A p \in running' :
        /\ space'[p] \in [VPage -> Maps \cup {NoPage}]
        /\ \A v \in VPage : L(p, v) =>
             StateOf(p, v) = "Locked" /\ StateOf(p, v)' = "Private" /\ FrameOf(p, v)' = FrameOf(p, v)
        /\ \A v \in VPage : ~ L(p, v) => StateOf(p, v)' = StateOf(p, v) /\ FrameOf(p, v)' = FrameOf(p, v)
  <2> TAKE p \in running'
  <2>1. p \in Process /\ space'[p] = Unlocked(dying, p)
    BY <1>2, <1>5
  <2> QED
    BY <1>1, <1>3, <2>1, UnlockedFacts
<1> HIDE DEF L
<1>7. \A p \in running', v \in VPage :
        /\ FrameOf(p, v)' = FrameOf(p, v)
        /\ StateOf(p, v)' = StateOf(p, v) \/ (StateOf(p, v) = "Locked" /\ StateOf(p, v)' = "Private")
  BY <1>6
<1>8. OwnMapped'
  <2>1. \A p \in running', v \in VPage : StateOf(p, v)' \in OwnStates => StateOf(p, v) \in OwnStates
    BY <1>7 DEF OwnStates
  <2> QED
    BY <1>1, <1>7, <2>1 DEF OwnMapped
<1>9. AliasMapped'
  <2> SUFFICES ASSUME NEW p \in running', NEW v \in VPage
      PROVE  /\ StateOf(p, v)' = "Aliased" =>
                  \E w \in VPage : StateOf(p, w)' = "Alias" /\ FrameOf(p, w)' = FrameOf(p, v)'
             /\ StateOf(p, v)' = "Alias" =>
                  /\ \E w \in VPage : StateOf(p, w)' = "Aliased" /\ FrameOf(p, w)' = FrameOf(p, v)'
                  /\ \A w \in VPage : StateOf(p, w)' = "Alias" /\ FrameOf(p, w)' = FrameOf(p, v)' => w = v
    BY DEF AliasMapped
  <2> QED
    BY <1>1, <1>7 DEF AliasMapped
<1>10. LinearMapped'
  <2> SUFFICES ASSUME NEW p \in running', NEW v \in VPage, StateOf(p, v)' # NoPage
               PROVE  /\ v >= HeapPages => /\ FrameOf(p, v)' = v - HeapPages
                                           /\ StateOf(p, v)' \in {"Continuous", "Shared"}
                      /\ StateOf(p, v)' = "Continuous" => v >= HeapPages
    BY DEF LinearMapped
  <2>1. StateOf(p, v) # NoPage /\ p \in running
    BY <1>7 DEF Parameters, States, OwnStates
  <2> QED
    BY <1>1, <1>7, <2>1 DEF LinearMapped
<1>11. SharedMapped'
  <2> SUFFICES ASSUME NEW p \in running', NEW v \in VPage, StateOf(p, v)' = "Shared"
      PROVE  \E c \in Block : /\ block'[c] # None /\ p \in block'[c].users
                              /\ \E i \in 1 .. block'[c].size : block'[c].frames[i] = FrameOf(p, v)'
    BY DEF SharedMapped
  <2>1. StateOf(p, v) = "Shared" /\ FrameOf(p, v)' = FrameOf(p, v) /\ p \in running
    BY <1>7
  <2>2. PICK c \in Block : /\ block[c] # None /\ p \in block[c].users
                           /\ \E i \in 1 .. block[c].size : block[c].frames[i] = FrameOf(p, v)
    BY <1>1, <2>1 DEF SharedMapped
  <2>3. p = q => c \notin bs
    BY <2>1, <2>2
  <2>4. c \notin dying
    <3>1. c \in dying => c \in bs /\ block[c].users = {q}
      BY <1>3
    <3> QED
      BY <2>2, <2>3, <3>1
  <2>5. block'[c] # None
    BY <1>41, <2>2, <2>4
  <2>6. p \in block'[c].users
    <3>1. CASE c \in bs
      BY <1>42, <2>2, <2>3, <2>5, <3>1
    <3>2. CASE c \notin bs
      BY <1>43, <2>2, <2>5, <3>2
    <3> QED
      BY <3>1, <3>2
  <2>7. block'[c].size = block[c].size /\ block'[c].frames = block[c].frames
    BY <1>44, <2>5
  <2>8. \E i \in 1 .. block'[c].size : block'[c].frames[i] = FrameOf(p, v)'
    BY <2>1, <2>2, <2>7
  <2> QED
    BY <2>5, <2>6, <2>8
<1>12. \A c \in Block, p \in Process : Lends(c, p)' <=> Lends(c, p) /\ c \notin dying
  BY <1>4 DEF Lends
<1>13. LockedLent'
  <2> SUFFICES ASSUME NEW p \in running', NEW v \in VPage, StateOf(p, v)' = "Locked"
               PROVE  \E c \in Block : Lends(c, p)' /\ v \in Extent(block'[c].base, block'[c].size)
    BY DEF LockedLent
  <2>1. StateOf(p, v) = "Locked" /\ ~ L(p, v) /\ p \in running /\ p \in Process
    BY <1>5, <1>6
  <2>2. PICK c \in Block : Lends(c, p) /\ v \in Extent(block[c].base, block[c].size)
    BY <1>1, <2>1 DEF LockedLent
  <2>3. c \notin dying
    BY <2>1, <2>2 DEF L
  <2>4. Lends(c, p)' /\ block'[c] # None
    BY <1>12, <2>1, <2>2, <2>3 DEF Lends
  <2> QED
    BY <1>4, <2>2, <2>4
<1>14. BlocksUsed'
  <2> SUFFICES ASSUME NEW c \in Block, block'[c] # None
               PROVE  /\ block'[c].users # {} /\ block'[c].users \subseteq running'
                      /\ block'[c].frames \in [1 .. block'[c].size -> Frame]
    BY DEF BlocksUsed
  <2>1. /\ block[c] # None /\ c \notin dying /\ block[c].users # {} /\ block[c].users \subseteq running
        /\ block[c].frames \in [1 .. block[c].size -> Frame]
    BY <1>1, <1>4 DEF BlocksUsed
  <2>2. c \in bs => block[c].users # {q}
    BY <1>2, <2>1 DEF Dying
  <2>3. CASE c \in bs
    <3>1. block'[c].users = block[c].users \ {q}
      BY <1>42, <2>3
    <3>2. block'[c].users # {} /\ block'[c].users \subseteq running'
      BY <2>1, <2>2, <2>3, <3>1
    <3> QED
      BY <1>44, <2>1, <3>2
  <2>4. CASE c \notin bs
    <3>1. block'[c].users = block[c].users /\ q \in running'
      BY <1>43, <2>4
    <3>2. block'[c].users # {} /\ block'[c].users \subseteq running'
      BY <2>1, <3>1
    <3> QED
      BY <1>44, <2>1, <3>2
  <2> QED
    BY <2>3, <2>4
<1>15. BlocksOwn'
  <2> SUFFICES ASSUME NEW c \in Block, block'[c] # None, block'[c].base = None, NEW i \in 1 .. block'[c].size
               PROVE  /\ block'[c].frames[i] = block'[c].frames[1] + i - 1
                      /\ block'[c].frames[i] \in block'[c].holding
    BY DEF BlocksOwn
  <2>1. block'[c].size = block[c].size /\ block'[c].frames = block[c].frames
    BY <1>44
  <2>2. block[c].base = None /\ block'[c].holding = block[c].holding /\ block[c] # None
    BY <1>41, <1>45
  <2>3. block[c].frames[i] = block[c].frames[1] + i - 1 /\ block[c].frames[i] \in block[c].holding
    BY <1>1, <2>1, <2>2 DEF BlocksOwn
  <2> QED
    BY <2>1, <2>2, <2>3
<1>16. BlocksLent'
  <2> SUFFICES ASSUME NEW c \in Block, NEW p \in Process, Lends(c, p)'
      PROVE  /\ p \in running' /\ block'[c].holding = {} /\ block'[c].base + block'[c].size <= HeapPages
             /\ \A v \in Extent(block'[c].base, block'[c].size) :
                  /\ StateOf(p, v)' = "Locked"
                  /\ FrameOf(p, v)' = block'[c].frames[v - block'[c].base + 1]
             /\ \A d \in Block : Lends(d, p)' /\ c # d =>
                  Extent(block'[c].base, block'[c].size) \cap Extent(block'[d].base, block'[d].size) = {}
    BY DEF BlocksLent
  <2>1. Lends(c, p) /\ c \notin dying /\ block[c] # None /\ block'[c] # None
    BY <1>4, <1>12 DEF Lends
  <2>2. /\ p \in running /\ block[c].holding = {} /\ block[c].base + block[c].size <= HeapPages
        /\ \A d \in Block : Lends(d, p) /\ c # d =>
             Extent(block[c].base, block[c].size) \cap Extent(block[d].base, block[d].size) = {}
    BY <1>1, <2>1 DEF BlocksLent
  <2>3. p \in running'
    <3>1. CASE p # q
      BY <2>2, <3>1
    <3>2. CASE p = q /\ q \notin running'
      <4>1. bs = Block /\ block[c].users \subseteq {q} /\ block[c].users # {}
        BY <1>1, <2>1, <3>2 DEF BlocksUsed
      <4>2. block[c].users = {q}
        BY <4>1
      <4> QED
        BY <1>2, <2>1, <4>1, <4>2 DEF Dying
    <3> QED
      BY <3>1, <3>2
  <2>4. \A v \in Extent(block[c].base, block[c].size) :
          /\ StateOf(p, v)' = "Locked"
          /\ FrameOf(p, v)' = block[c].frames[v - block[c].base + 1]
    <3> TAKE v \in Extent(block[c].base, block[c].size)
    <3>1. /\ StateOf(p, v) = "Locked" /\ v \in VPage
          /\ FrameOf(p, v) = block[c].frames[v - block[c].base + 1]
      BY <1>1, <2>1, LentPages
    <3>2. ~ L(p, v)
      BY <1>3, <2>1, <2>2 DEF L
    <3> QED
      BY <1>6, <2>3, <3>1, <3>2
  <2>5. \A d \in Block : Lends(d, p)' => Lends(d, p) /\ block'[d] # None
    BY <1>12 DEF Lends
  <2>6. \A d \in Block : Lends(d, p)' /\ c # d =>
          Extent(block'[c].base, block'[c].size) \cap Extent(block'[d].base, block'[d].size) = {}
    BY <1>4, <2>1, <2>2, <2>5
  <2> QED
    BY <1>4, <2>1, <2>2, <2>3, <2>4, <2>6
<1> QED
  BY <1>6, <1>8, <1>9, <1>10, <1>11, <1>13, <1>14, <1>15, <1>16

\* What the blocks that go had held is free again, and what their makers' blocks
\* still hold is the rest.
LEMMA ReturnedFacts ==
  ASSUME Parameters, MemoryInv, NEW q \in Process, NEW bs \in SUBSET Block, block' = Dropped(q, bs),
         NEW dying, dying = Dying(q, bs)
  PROVE  /\ Returned(dying) \in SUBSET Frame /\ Returned(dying) \cap free = {}
         /\ \A p \in Process : Returned(dying) \cap holding[p] = {}
         /\ \A p \in Process :
              /\ ReturnedOf(dying, p) \in SUBSET Frame /\ BlockPages(p)' \in SUBSET Frame
              /\ Cardinality(BlockPages(p)) = Cardinality(BlockPages(p)') + Cardinality(ReturnedOf(dying, p))
PROOF
<1>1. MemoryTypes /\ OneOwner
  BY DEF MemoryInv
<1>2. dying \in SUBSET Block /\ \A b \in dying : block[b] # None
  BY DEF Dying
<1>3. \A c \in Block : block'[c] # None <=> block[c] # None /\ c \notin dying
  BY <1>1, DroppedFacts
<1>4. \A c \in Block : block'[c] # None =>
        block'[c].owner = block[c].owner /\ block'[c].holding = block[c].holding
  BY <1>1, DroppedFacts
<1>5. \A b \in Block : block[b] # None => block[b].holding \in SUBSET Frame
  BY <1>1 DEF MemoryTypes, BlockRecords
<1>6. /\ Returned(dying) \in SUBSET Frame /\ Returned(dying) \cap free = {}
      /\ \A p \in Process : Returned(dying) \cap holding[p] = {}
  BY <1>1, <1>2, <1>5 DEF Returned, OneOwner
<1>7. ASSUME NEW p \in Process
      PROVE  /\ ReturnedOf(dying, p) \in SUBSET Frame /\ BlockPages(p)' \in SUBSET Frame
             /\ Cardinality(BlockPages(p)) = Cardinality(BlockPages(p)') + Cardinality(ReturnedOf(dying, p))
  <2>1. PICK R : R = ReturnedOf(dying, p)
    OBVIOUS
  <2>2. PICK B, C : B = BlockPages(p) /\ C = BlockPages(p)'
    OBVIOUS
  <2>3. \A f : f \in R <=> \E b \in dying : block[b].owner = p /\ f \in block[b].holding
    BY <2>1 DEF ReturnedOf, Returned
  <2>4. \A f : f \in B <=> \E b \in Block : block[b] # None /\ block[b].owner = p /\ f \in block[b].holding
    BY <2>2 DEF BlockPages
  <2>5. \A f : f \in C <=>
          \E b \in Block : block'[b] # None /\ block'[b].owner = p /\ f \in block'[b].holding
    BY <2>2 DEF BlockPages
  <2>6. \A f : f \in C <=>
          \E b \in Block : block[b] # None /\ b \notin dying /\ block[b].owner = p /\ f \in block[b].holding
    BY <1>3, <1>4, <2>5
  <2>7. B = C \cup R
    <3>1. \A f : f \in B <=> f \in C \/ f \in R
      BY <1>2, <2>3, <2>4, <2>6
    <3> QED
      BY <3>1
  <2>8. C \cap R = {}
    <3>1. \A b, c \in Block : block[b] # None /\ block[c] # None /\ b # c =>
            block[b].holding \cap block[c].holding = {}
      BY <1>1 DEF OneOwner
    <3> QED
      BY <1>2, <2>3, <2>6, <3>1
  <2>9. B \in SUBSET Frame
    BY <1>1, <2>2, HeldFacts
  <2>10. C \in SUBSET Frame /\ R \in SUBSET Frame
    BY <2>7, <2>9
  <2>11. Cardinality(B) = Cardinality(C) + Cardinality(R)
    BY <2>7, <2>8, <2>10, CountBoth
  <2> QED
    BY <2>1, <2>2, <2>10, <2>11
<1> QED
  BY <1>6, <1>7

\* Blocks go, and with them perhaps what a process holds: each page still has one
\* owner, and the accounts of the processes that stay agree.
LEMMA ReturnKeeps ==
  ASSUME Parameters, MemoryInv, NEW q \in Process, NEW bs \in SUBSET Block, block' = Dropped(q, bs),
         NEW dying, dying = Dying(q, bs),
         NEW fs, \A f \in fs : \E p \in Process : f \in holding[p],
         free' = (free \cup Returned(dying)) \cup fs, \A p \in Process : holding'[p] = holding[p] \ fs,
         running' \subseteq running, \A p \in Process : p \notin running' => holding'[p] = {},
         \A p \in running' : holding'[p] = holding[p]
                             /\ memory_used'[p] = memory_used[p] - Cardinality(ReturnedOf(dying, p))
  PROVE  free' \subseteq Frame /\ OneOwner' /\ Accounts'
PROOF
<1>1. MemoryTypes /\ OneOwner /\ Accounts
  BY DEF MemoryInv
<1>2. dying \in SUBSET Block /\ \A b \in dying : block[b] # None
  BY DEF Dying
<1>3. \A c \in Block : block'[c] # None <=> block[c] # None /\ c \notin dying
  BY <1>1, DroppedFacts
<1>4. \A c \in Block : block'[c] # None =>
        block'[c].owner = block[c].owner /\ block'[c].holding = block[c].holding
  BY <1>1, DroppedFacts, ZenonT(30)
<1>5. \A f : f \in Returned(dying) <=> \E b \in dying : f \in block[b].holding
  BY DEF Returned
<1>6. \A f : f \in free' <=> f \in free \/ f \in fs \/ \E b \in dying : f \in block[b].holding
  BY <1>5
<1>7. free' \subseteq Frame
  <2>1. fs \subseteq Frame /\ free \subseteq Frame
    BY <1>1 DEF MemoryTypes
  <2> QED
    BY <2>1, ReturnedFacts
<1>8. OneOwner'
  <2>1. ASSUME NEW f \in Frame
        PROVE  \/ f \in free'
               \/ \E p \in Process : f \in holding'[p]
               \/ \E b \in Block : block'[b] # None /\ f \in block'[b].holding
    <3>1. CASE \E b \in Block : block[b] # None /\ f \in block[b].holding
      <4>1. PICK b \in Block : block[b] # None /\ f \in block[b].holding
        BY <3>1
      <4> QED
        BY <1>3, <1>4, <1>6, <4>1
    <3>2. CASE \E p \in Process : f \in holding[p]
      BY <1>6, <3>2
    <3>3. CASE f \in free
      BY <1>6, <3>3
    <3> QED
      BY <1>1, <3>1, <3>2, <3>3 DEF OneOwner
  <2>2. /\ \A p \in Process : holding'[p] \cap free' = {}
        /\ \A p, s \in Process : p # s => holding'[p] \cap holding'[s] = {}
    BY <1>1, <1>2, <1>6 DEF OneOwner
  <2>3. ASSUME NEW b \in Block, block'[b] # None
        PROVE  /\ block'[b].holding \cap free' = {}
               /\ \A p \in Process : block'[b].holding \cap holding'[p] = {}
               /\ \A c \in Block : block'[c] # None /\ b # c => block'[b].holding \cap block'[c].holding = {}
    <3>1. block[b] # None /\ b \notin dying /\ block'[b].holding = block[b].holding
      BY <1>3, <1>4, <2>3
    <3>2. block[b].holding \cap free = {} /\ \A p \in Process : block[b].holding \cap holding[p] = {}
      BY <1>1, <3>1 DEF OneOwner
    <3>3. \A c \in Block : block[c] # None /\ b # c => block[b].holding \cap block[c].holding = {}
      BY <1>1, <3>1 DEF OneOwner
    <3>4. block[b].holding \cap free' = {}
      BY <1>2, <1>6, <3>1, <3>2, <3>3
    <3>5. \A c \in Block : block'[c] # None /\ b # c => block[b].holding \cap block'[c].holding = {}
      BY <1>3, <1>4, <3>3
    <3> QED
      BY <3>1, <3>2, <3>4, <3>5
  <2> QED
    BY <2>1, <2>2, <2>3 DEF OneOwner
<1>9. Accounts'
  <2> SUFFICES ASSUME "share" \notin Careless, NEW p \in running'
               PROVE  memory_used'[p] = Cardinality(holding'[p]) + Cardinality(BlockPages(p)')
    BY DEF Accounts
  <2>1. p \in running /\ p \in Process
    BY <1>1 DEF MemoryTypes
  <2>2. memory_used[p] = Cardinality(holding[p]) + Cardinality(BlockPages(p))
    BY <1>1, <2>1 DEF Accounts
  <2>3. PICK R, C : R = ReturnedOf(dying, p) /\ C = BlockPages(p)'
    OBVIOUS
  <2>4. R \in SUBSET Frame /\ C \in SUBSET Frame /\ Cardinality(BlockPages(p)) = Cardinality(C) + Cardinality(R)
    BY <2>1, <2>3, ReturnedFacts
  <2>5. Cardinality(R) \in Nat /\ Cardinality(C) \in Nat /\ Cardinality(holding[p]) \in Nat
    BY <1>1, <2>1, <2>4, PagesFinite DEF MemoryTypes
  <2>6. memory_used'[p] = memory_used[p] - Cardinality(R) /\ holding'[p] = holding[p]
    BY <2>3
  <2>7. memory_used'[p] = Cardinality(holding[p]) + Cardinality(C)
    BY <2>2, <2>4, <2>5, <2>6
  <2> QED
    BY <2>3, <2>6, <2>7
<1> QED
  BY <1>7, <1>8, <1>9

\* CloseHandle of a block that the process has unmapped.
LEMMA CloseKeeps ==
  ASSUME Parameters, MemoryInv, NEW q \in Process, NEW b \in Block, CloseShared(q, b)
  PROVE  MemoryInv'
PROOF
<1>1. PICK bs, dying : bs = {b} /\ dying = Dying(q, bs)
  OBVIOUS
<1>2. /\ q \in running /\ block[b] # None /\ ~ Shows(q, b) /\ block' = Dropped(q, bs)
      /\ free' = free \cup Returned(dying)
      /\ space' = [p \in Process |-> IF p \in running THEN Unlocked(dying, p) ELSE space[p]]
      /\ memory_used' = [p \in Process |-> memory_used[p] - IF p \in running
                                           THEN Cardinality(ReturnedOf(dying, p)) ELSE 0]
      /\ double_free' = (double_free \/ Returned(dying) \cap free # {})
      /\ holding' = holding /\ commit' = commit /\ running' = running
  BY <1>1 DEF CloseShared
<1>3. bs \in SUBSET Block /\ MemoryTypes /\ OneOwner /\ BlocksUsed /\ Commits
  BY <1>1 DEF MemoryInv
<1>4. running \subseteq Process /\ holding \in [Process -> SUBSET Frame]
  BY <1>3 DEF MemoryTypes
<1>5. free' \subseteq Frame /\ OneOwner' /\ Accounts'
  <2>1. \A p \in Process : holding'[p] = holding[p] \ {}
    BY <1>2
  <2>2. free' = (free \cup Returned(dying)) \cup {}
    BY <1>2
  <2>3. \A p \in Process : p \notin running' => holding'[p] = {}
    BY <1>2, <1>3 DEF OneOwner
  <2>4. \A p \in running' : holding'[p] = holding[p]
                            /\ memory_used'[p] = memory_used[p] - Cardinality(ReturnedOf(dying, p))
    BY <1>2, <1>4
  <2>5. block' = Dropped(q, bs) /\ dying = Dying(q, bs) /\ bs \in SUBSET Block /\ running' \subseteq running
    BY <1>1, <1>2, <1>3
  <2>6. PICK fs : fs = {}
    OBVIOUS
  <2>7. /\ \A f \in fs : \E p \in Process : f \in holding[p]
        /\ free' = (free \cup Returned(dying)) \cup fs
        /\ \A p \in Process : holding'[p] = holding[p] \ fs
    BY <2>1, <2>2, <2>6
  <2> QED
    BY <2>3, <2>4, <2>5, <2>7, ReturnKeeps
<1>6. /\ \A p \in running' : space'[p] \in [VPage -> Maps \cup {NoPage}]
      /\ OwnMapped' /\ AliasMapped' /\ LinearMapped' /\ SharedMapped' /\ LockedLent'
      /\ BlocksUsed' /\ BlocksOwn' /\ BlocksLent'
  <2>1. \A p \in running' : space'[p] = Unlocked(Dying(q, bs), p) /\ holding'[p] = holding[p]
    BY <1>1, <1>2, <1>4
  <2>2. ASSUME NEW c \in bs, NEW v \in VPage, block[c] # None, StateOf(q, v) = "Shared"
        PROVE  \A i \in 1 .. block[c].size : block[c].frames[i] # FrameOf(q, v)
    <3>1. c = b
      BY <1>1
    <3>2. space[q][v] # NoPage /\ space[q][v].state = "Shared"
      BY <2>2 DEF StateOf, Parameters, States
    <3>3. FrameOf(q, v) \notin Range(block[b].frames)
      BY <1>2, <3>2 DEF Shows, FrameOf
    <3>4. block[b].frames \in [1 .. block[b].size -> Frame]
      BY <1>2, <1>3 DEF BlocksUsed
    <3>5. \A i \in 1 .. block[b].size : block[b].frames[i] \in Range(block[b].frames)
      BY <3>4 DEF Range
    <3> QED
      BY <3>1, <3>3, <3>5
  <2> QED
    BY <1>2, <1>3, <2>1, <2>2, DropKeeps
<1>7. double_free' = FALSE
  BY <1>1, <1>2, <1>3, ReturnedFacts DEF MemoryInv
<1>8. Commits'
  BY <1>2, <1>3 DEF Commits
<1>9. MemoryTypes'
  <2>1. space' \in [Process -> [VPage -> Maps \cup {NoPage}]]
    <3>1. \A p \in Process : p \notin running => space'[p] = space[p]
      BY <1>2
    <3>2. \A p \in Process : space'[p] \in [VPage -> Maps \cup {NoPage}]
      BY <1>2, <1>3, <1>6, <3>1 DEF MemoryTypes
    <3> QED
      BY <1>2, <3>2
  <2>2. memory_used' \in [Process -> Int]
    <3>1. \A p \in Process : Cardinality(ReturnedOf(dying, p)) \in Nat
      BY <1>1, <1>2, <1>3, ReturnedFacts, PagesFinite
    <3>2. memory_used \in [Process -> Int]
      BY <1>3 DEF MemoryTypes
    <3> QED
      BY <1>2, <3>1, <3>2
  <2>3. block' \in [Block -> BlockRecords \cup {None}]
    BY <1>2, <1>3, DroppedFacts
  <2>4. holding' \in [Process -> SUBSET Frame] /\ commit' \in Int /\ running' \subseteq Process
    BY <1>2, <1>3 DEF MemoryTypes
  <2> QED
    BY <1>5, <1>7, <2>1, <2>2, <2>3, <2>4 DEF MemoryTypes
<1> QED
  BY <1>5, <1>6, <1>7, <1>8, <1>9 DEF MemoryInv

\* ~Process.
LEMMA ExitKeeps ==
  ASSUME Parameters, MemoryInv, NEW q \in Process, Exit(q)
  PROVE  MemoryInv'
PROOF
<1>1. PICK bs, dying, fs : bs = Block /\ dying = Dying(q, bs) /\ fs = holding[q]
  OBVIOUS
<1>2. /\ q \in running /\ block' = Dropped(q, bs)
      /\ \A b \in Block : block[b] # None /\ block[b].owner = q /\ block[b].base # None
                           => block[b].users \subseteq {q}
      /\ running' = running \ {q}
      /\ free' = free \cup Returned(dying) \cup fs
      /\ holding' = [holding EXCEPT ![q] = {}]
      /\ memory_used' = [p \in Process |-> memory_used[p] -
                           IF p = q THEN Cardinality(fs)
                           ELSE IF p \in running THEN Cardinality(ReturnedOf(dying, p)) ELSE 0]
      /\ commit' = commit - Cardinality(fs)
      /\ double_free' = (double_free \/ (fs \cup Returned(dying)) \cap free # {})
      /\ space' = [p \in Process |-> IF p = q THEN [v \in VPage |-> NoPage]
                                     ELSE IF p \in running THEN Unlocked(dying, p) ELSE space[p]]
  BY <1>1 DEF Exit
<1>3. bs \in SUBSET Block /\ MemoryTypes /\ OneOwner /\ Commits
  BY <1>1 DEF MemoryInv
<1>4. running \subseteq Process /\ holding \in [Process -> SUBSET Frame]
  BY <1>3 DEF MemoryTypes
<1>5. holding'[q] = {} /\ \A p \in Process : p # q => holding'[p] = holding[p]
  BY <1>2, <1>4
<1>6. \A p \in Process : holding'[p] = holding[p] \ fs
  BY <1>1, <1>3, <1>5 DEF OneOwner
<1>7. free' \subseteq Frame /\ OneOwner' /\ Accounts'
  <2>1. \A f \in fs : \E p \in Process : f \in holding[p]
    BY <1>1
  <2>2. \A p \in Process : p \notin running' => holding'[p] = {}
    BY <1>2, <1>3, <1>5 DEF OneOwner
  <2>3. \A p \in running' : holding'[p] = holding[p]
                            /\ memory_used'[p] = memory_used[p] - Cardinality(ReturnedOf(dying, p))
    BY <1>2, <1>4, <1>5
  <2>4. /\ block' = Dropped(q, bs) /\ dying = Dying(q, bs) /\ bs \in SUBSET Block /\ running' \subseteq running
        /\ free' = (free \cup Returned(dying)) \cup fs
    BY <1>1, <1>2, <1>3
  <2>5. /\ \A f \in fs : \E p \in Process : f \in holding[p]
        /\ free' = (free \cup Returned(dying)) \cup fs
        /\ \A p \in Process : holding'[p] = holding[p] \ fs
    BY <1>6, <2>1, <2>4
  <2>6. block' = Dropped(q, bs) /\ dying = Dying(q, bs) /\ bs \in SUBSET Block /\ running' \subseteq running
    BY <2>4
  <2> QED
    BY <2>2, <2>3, <2>5, <2>6, ReturnKeeps
<1>8. /\ \A p \in running' : space'[p] \in [VPage -> Maps \cup {NoPage}]
      /\ OwnMapped' /\ AliasMapped' /\ LinearMapped' /\ SharedMapped' /\ LockedLent'
      /\ BlocksUsed' /\ BlocksOwn' /\ BlocksLent'
  <2>1. \A p \in running' : space'[p] = Unlocked(Dying(q, bs), p) /\ holding'[p] = holding[p]
    BY <1>1, <1>2, <1>4, <1>5
  <2>2. q \notin running' /\ running' \subseteq running /\ \A p \in running : p # q => p \in running'
    BY <1>2
  <2>3. \A b \in Block : Lends(b, q) => block[b].users \subseteq {q}
    BY <1>2 DEF Lends
  <2> QED
    BY <1>1, <1>2, <1>3, <2>1, <2>2, <2>3, DropKeeps
<1>9. fs \in SUBSET Frame /\ Cardinality(fs) \in Nat
  BY <1>1, <1>4, PagesFinite
<1>10. double_free' = FALSE
  <2>1. fs \cap free = {} /\ Returned(dying) \cap free = {}
    BY <1>1, <1>2, <1>3, ReturnedFacts DEF OneOwner
  <2> QED
    BY <1>2, <2>1 DEF MemoryInv
<1>11. Commits'
  <2>1. HeldPages = HeldPages' \cup fs /\ HeldPages' \cap fs = {}
    BY <1>1, <1>6 DEF HeldPages
  <2>2. HeldPages' \in SUBSET Frame
    BY <1>3, <2>1, HeldFacts
  <2>3. Cardinality(HeldPages) = Cardinality(HeldPages') + Cardinality(fs)
    BY <1>9, <2>1, <2>2, CountBoth
  <2>4. Cardinality(HeldPages') \in Nat
    BY <2>2, PagesFinite
  <2> QED
    BY <1>2, <1>3, <1>9, <2>3, <2>4 DEF Commits, HeldPages
<1>12. MemoryTypes'
  <2>1. space' \in [Process -> [VPage -> Maps \cup {NoPage}]]
    <3>1. \A p \in Process : p \notin running => space'[p] = space[p]
      BY <1>2
    <3>2. space'[q] = [v \in VPage |-> NoPage]
      BY <1>2
    <3>3. space'[q] \in [VPage -> Maps \cup {NoPage}]
      BY <3>2
    <3>4. \A p \in Process : p \in running /\ p # q => p \in running'
      BY <1>2
    <3>5. \A p \in Process : space'[p] \in [VPage -> Maps \cup {NoPage}]
      BY <1>3, <1>8, <3>1, <3>3, <3>4 DEF MemoryTypes
    <3> QED
      BY <1>2, <3>5
  <2>2. memory_used' \in [Process -> Int]
    <3>1. \A p \in Process : Cardinality(ReturnedOf(dying, p)) \in Nat
      BY <1>1, <1>2, <1>3, ReturnedFacts, PagesFinite
    <3>2. memory_used \in [Process -> Int]
      BY <1>3 DEF MemoryTypes
    <3> QED
      BY <1>2, <1>9, <3>1, <3>2
  <2>3. block' \in [Block -> BlockRecords \cup {None}]
    BY <1>2, <1>3, DroppedFacts
  <2>4. holding' \in [Process -> SUBSET Frame] /\ running' \subseteq Process
    BY <1>2, <1>4
  <2>5. commit' \in Int
    BY <1>2, <1>3, <1>9 DEF MemoryTypes
  <2> QED
    BY <1>7, <1>10, <2>1, <2>2, <2>3, <2>4, <2>5 DEF MemoryTypes
<1> QED
  BY <1>7, <1>8, <1>10, <1>11, <1>12 DEF MemoryInv

-----------------------------------------------------------------------------
(* The invariant, and what it says *)

\* It holds when no page is taken.
LEMMA MemoryInvInit ==
  ASSUME Parameters, MemoryInit
  PROVE  MemoryInv
PROOF
<1>1. /\ free = Frame /\ space = [p \in Process |-> [v \in VPage |-> NoPage]]
      /\ holding = [p \in Process |-> {}] /\ memory_used = [p \in Process |-> 0] /\ commit = 0
      /\ block = [b \in Block |-> None] /\ running = Process /\ double_free = FALSE
  BY DEF MemoryInit
<1>2. MemoryTypes
  <2>1. space \in [Process -> [VPage -> Maps \cup {NoPage}]]
    BY <1>1
  <2>2. holding \in [Process -> SUBSET Frame] /\ memory_used \in [Process -> Int]
    BY <1>1
  <2>3. block \in [Block -> BlockRecords \cup {None}]
    BY <1>1
  <2> QED
    <3>1. free \subseteq Frame /\ running \subseteq Process /\ commit \in Int
      BY <1>1
    <3>2. double_free \in BOOLEAN
      BY <1>1, Zenon
    <3> QED
      BY <2>1, <2>2, <2>3, <3>1, <3>2 DEF MemoryTypes
<1>3. \A p \in Process : \A v \in VPage : StateOf(p, v) = NoPage
  BY <1>1 DEF StateOf
<1>4. \A b \in Block : block[b] = None
  BY <1>1
<1>5. \A p \in Process : holding[p] = {} /\ memory_used[p] = 0
  BY <1>1
<1>6. OneOwner
  BY <1>1, <1>4, <1>5 DEF OneOwner
<1>7. /\ "Private" # NoPage /\ "Aliased" # NoPage /\ "Locked" # NoPage
      /\ "Continuous" # NoPage /\ "Alias" # NoPage /\ "Shared" # NoPage
  BY DEF Parameters, States, OwnStates
<1>8. NoPage \notin OwnStates
  BY <1>7 DEF OwnStates
<1>9. OwnMapped /\ AliasMapped /\ SharedMapped /\ LockedLent /\ LinearMapped
  BY <1>1, <1>3, <1>7, <1>8 DEF OwnMapped, AliasMapped, SharedMapped, LockedLent, LinearMapped
<1>10. BlocksUsed /\ BlocksOwn /\ BlocksLent
  BY <1>4 DEF BlocksUsed, BlocksOwn, BlocksLent, Lends
<1>11. Cardinality({}) = 0
  BY FS_EmptySet
<1>12. Commits
  <2>1. UNION {holding[p] : p \in Process} = {}
    BY <1>5
  <2> QED
    BY <1>1, <1>11, <2>1 DEF Commits
<1>13. Accounts
  <2> SUFFICES ASSUME NEW p \in running
               PROVE  memory_used[p] = Cardinality(holding[p]) + Cardinality(BlockPages(p))
    BY DEF Accounts
  <2>1. BlockPages(p) = {}
    BY <1>4 DEF BlockPages
  <2> QED
    BY <1>1, <1>5, <1>11, <2>1
<1> QED
  BY <1>1, <1>2, <1>6, <1>9, <1>10, <1>12, <1>13 DEF MemoryInv

\* Every step keeps it.
LEMMA MemoryInvStep ==
  ASSUME Parameters, MemoryInv, [MemoryNext]_memory_vars
  PROVE  MemoryInv'
PROOF
<1>1. ASSUME NEW p \in Process, NEW r \in HeapRanges, HeapAllocate(p, r) \/ HeapFree(p, r)
      PROVE  MemoryInv'
  BY <1>1, HeapAllocateKeeps, HeapFreeKeeps
<1>2. ASSUME NEW p \in Process, NEW r \in HeapRanges, NEW t \in 0 .. HeapPages - r[2],
             Map(p, t, r) \/ Unmap(p, t, r)
      PROVE  MemoryInv'
  BY <1>2, MapKeeps, UnmapKeeps
<1>3. ASSUME NEW p \in Process, NEW r \in HeapRanges, NEW b \in Block, ShareMemory(p, b, r)
      PROVE  MemoryInv'
  BY <1>3, ShareKeeps
<1>4. ASSUME NEW p \in Process, NEW r \in LinearRanges, LinearFree(p, r)
      PROVE  MemoryInv'
  BY <1>4, LinearFreeKeeps
<1>5. ASSUME NEW p \in Process, NEW n \in 1 .. MaxSize, NEW f \in Frame, LinearAllocate(p, f, n)
      PROVE  MemoryInv'
  BY <1>5, LinearAllocateKeeps
<1>6. ASSUME NEW p \in Process, NEW n \in 1 .. MaxSize, NEW b \in Block, CreateSharedMemory(p, b, n)
      PROVE  MemoryInv'
  BY <1>6, CreateKeeps
<1>7. ASSUME NEW p \in Process, NEW b \in Block, Receive(p, b) \/ CloseShared(p, b)
      PROVE  MemoryInv'
  BY <1>7, ReceiveKeeps, CloseKeeps
<1>8. ASSUME NEW p \in Process, NEW b \in Block, NEW a \in VPage, MapShared(p, b, a) \/ UnmapShared(p, b, a)
      PROVE  MemoryInv'
  BY <1>8, MapSharedKeeps, UnmapSharedKeeps
<1>9. ASSUME NEW p \in Process, Exit(p)
      PROVE  MemoryInv'
  BY <1>9, ExitKeeps
<1>10. CASE MemoryNext
  BY <1>1, <1>2, <1>3, <1>4, <1>5, <1>6, <1>7, <1>8, <1>9, <1>10 DEF MemoryNext
<1>11. CASE UNCHANGED memory_vars
  <2>1. /\ free' = free /\ space' = space /\ holding' = holding /\ memory_used' = memory_used
        /\ commit' = commit /\ block' = block /\ running' = running /\ double_free' = double_free
    BY <1>11 DEF memory_vars
  <2>2. \A q, v : StateOf(q, v)' = StateOf(q, v) /\ FrameOf(q, v)' = FrameOf(q, v)
    BY <2>1, SpaceSame
  <2>3. \A b, q : Lends(b, q)' = Lends(b, q)
    BY <2>1 DEF Lends
  <2>4. \A q : BlockPages(q)' = BlockPages(q)
    BY <2>1 DEF BlockPages
  <2>5. MemoryTypes' /\ OneOwner' /\ double_free' = FALSE
    BY <2>1 DEF MemoryInv, MemoryTypes, OneOwner
  <2>6. OwnMapped' /\ AliasMapped' /\ LinearMapped'
    BY <2>1, <2>2 DEF MemoryInv, OwnMapped, AliasMapped, LinearMapped
  <2>7. SharedMapped'
    BY <2>1, <2>2 DEF MemoryInv, SharedMapped
  <2>8. LockedLent' /\ BlocksLent'
    BY <2>1, <2>2, <2>3 DEF MemoryInv, LockedLent, BlocksLent
  <2>9. BlocksUsed' /\ BlocksOwn'
    BY <2>1 DEF MemoryInv, BlocksUsed, BlocksOwn
  <2>10. Commits' /\ Accounts'
    BY <2>1, <2>4 DEF MemoryInv, Commits, Accounts
  <2> QED
    BY <2>5, <2>6, <2>7, <2>8, <2>9, <2>10 DEF MemoryInv
<1> QED
  BY <1>10, <1>11

\* Whoever holds a page that is not free, it is one process or one block.
LEMMA InvOneOwner ==
  ASSUME Parameters, MemoryInv
  PROVE  PagesHaveOneOwner
PROOF
<1>1. MemoryTypes /\ OneOwner
  BY DEF MemoryInv
<1>2. \A b : b \in Blocks <=> b \in Block /\ block[b] # None
  BY DEF Blocks
<1>3. /\ \A p \in Process : holding[p] \cap free = {}
      /\ \A b \in Blocks : block[b].holding \cap free = {}
  BY <1>1, <1>2 DEF OneOwner
<1>4. ASSUME NEW f \in Frame \ free
      PROVE  Cardinality({p \in Process : f \in holding[p]})
               + Cardinality({b \in Blocks : f \in block[b].holding}) = 1
  <2>1. PICK P, B : P = {p \in Process : f \in holding[p]} /\ B = {b \in Blocks : f \in block[b].holding}
    OBVIOUS
  <2>2. Cardinality({}) = 0
    BY FS_EmptySet
  <2>3. CASE \E p \in Process : f \in holding[p]
    <3>1. PICK p \in Process : f \in holding[p]
      BY <2>3
    <3>2. P = {p}
      BY <1>1, <2>1, <3>1 DEF OneOwner
    <3>3. B = {}
      BY <1>1, <1>2, <2>1, <3>1 DEF OneOwner
    <3>4. Cardinality({p}) = 1
      BY FS_Singleton
    <3>5. Cardinality(P) = 1 /\ Cardinality(B) = 0
      BY <2>2, <3>2, <3>3, <3>4
    <3>6. Cardinality(P) + Cardinality(B) = 1
      BY <3>5
    <3> QED
      BY <2>1, <3>6
  <2>4. CASE \E b \in Block : block[b] # None /\ f \in block[b].holding
    <3>1. PICK b \in Block : block[b] # None /\ f \in block[b].holding
      BY <2>4
    <3>2. P = {}
      BY <1>1, <2>1, <3>1 DEF OneOwner
    <3>3. B = {b}
      BY <1>1, <1>2, <2>1, <3>1 DEF OneOwner
    <3>4. Cardinality({b}) = 1
      BY FS_Singleton
    <3>5. Cardinality(B) = 1 /\ Cardinality(P) = 0
      BY <2>2, <3>2, <3>3, <3>4
    <3>6. Cardinality(P) + Cardinality(B) = 1
      BY <3>5
    <3> QED
      BY <2>1, <3>6
  <2> QED
    BY <1>1, <2>3, <2>4 DEF OneOwner
<1> QED
  BY <1>3, <1>4 DEF PagesHaveOneOwner

\* A page that a process shows is not free, and is its own or of a block it has a
\* handle to.
LEMMA InvBacked ==
  ASSUME Parameters, MemoryInv
  PROVE  MappingsBacked
PROOF
<1>1. /\ MemoryTypes /\ OneOwner /\ OwnMapped /\ AliasMapped /\ SharedMapped
      /\ BlocksUsed /\ BlocksOwn /\ BlocksLent
  BY DEF MemoryInv
<1> SUFFICES ASSUME NEW p \in running, NEW v \in VPage, space[p][v] # NoPage
    PROVE  /\ space[p][v].frame \notin free
           /\ \/ space[p][v].frame \in holding[p]
              \/ \E b \in Blocks : p \in block[b].users /\ space[p][v].frame \in Range(block[b].frames)
  BY DEF MappingsBacked
<1>2. p \in Process /\ space[p][v].frame = FrameOf(p, v)
  BY <1>1 DEF MemoryTypes, FrameOf
<1>3. StateOf(p, v) \in States
  BY <1>1, <1>2, PageFacts DEF StateOf
<1>4. \A w \in VPage : StateOf(p, w) \in OwnStates => FrameOf(p, w) \in holding[p]
  BY <1>1 DEF OwnMapped
<1>5. holding[p] \cap free = {}
  BY <1>1, <1>2 DEF OneOwner
<1>6. CASE StateOf(p, v) \in OwnStates
  BY <1>2, <1>4, <1>5, <1>6
<1>7. CASE StateOf(p, v) = "Alias"
  <2>1. PICK w \in VPage : StateOf(p, w) = "Aliased" /\ FrameOf(p, w) = FrameOf(p, v)
    BY <1>1, <1>7 DEF AliasMapped
  <2>2. StateOf(p, w) \in OwnStates
    BY <2>1 DEF OwnStates
  <2> QED
    BY <1>2, <1>4, <1>5, <2>1, <2>2
<1>8. CASE StateOf(p, v) = "Shared"
  <2>1. PICK b \in Block : /\ block[b] # None /\ p \in block[b].users
                           /\ \E i \in 1 .. block[b].size : block[b].frames[i] = FrameOf(p, v)
    BY <1>1, <1>8 DEF SharedMapped
  <2>2. PICK i \in 1 .. block[b].size : block[b].frames[i] = FrameOf(p, v)
    BY <2>1
  <2>3. block[b].frames \in [1 .. block[b].size -> Frame]
    BY <1>1, <2>1 DEF BlocksUsed
  <2>4. FrameOf(p, v) \in Range(block[b].frames)
    BY <2>2, <2>3 DEF Range
  <2>5. FrameOf(p, v) \notin free
    BY <1>1, <2>1, <2>2, BlockBacked
  <2> QED
    BY <1>2, <2>1, <2>4, <2>5 DEF Blocks
<1> QED
  BY <1>3, <1>6, <1>7, <1>8 DEF States

\* An alias and its source show the same page, each in its state.
LEMMA InvAliases ==
  ASSUME Parameters, MemoryInv
  PROVE  AliasesPaired
PROOF
<1>1. MemoryTypes /\ AliasMapped
  BY DEF MemoryInv
<1> SUFFICES ASSUME NEW p \in running, NEW v \in VPage, space[p][v] # NoPage
    PROVE  /\ space[p][v].state = "Aliased" =>
                Mapping("Alias", space[p][v].frame) \in {space[p][w] : w \in VPage}
           /\ space[p][v].state = "Alias" =>
                Mapping("Aliased", space[p][v].frame) \in {space[p][w] : w \in VPage}
  BY DEF AliasesPaired
<1>2. p \in Process /\ space[p][v].frame = FrameOf(p, v) /\ space[p][v].state = StateOf(p, v)
  BY <1>1 DEF MemoryTypes, FrameOf, StateOf
<1>3. \A w \in VPage : StateOf(p, w) # NoPage => space[p][w] = Mapping(StateOf(p, w), FrameOf(p, w))
  BY <1>1, <1>2, PageFacts
<1>4. "Alias" # NoPage /\ "Aliased" # NoPage
  BY DEF Parameters, States, OwnStates
<1>5. ASSUME StateOf(p, v) = "Aliased"
      PROVE  Mapping("Alias", FrameOf(p, v)) \in {space[p][w] : w \in VPage}
  <2>1. PICK w \in VPage : StateOf(p, w) = "Alias" /\ FrameOf(p, w) = FrameOf(p, v)
    BY <1>1, <1>5 DEF AliasMapped
  <2>2. space[p][w] = Mapping("Alias", FrameOf(p, v))
    BY <1>3, <1>4, <2>1
  <2> QED
    BY <2>2
<1>6. ASSUME StateOf(p, v) = "Alias"
      PROVE  Mapping("Aliased", FrameOf(p, v)) \in {space[p][w] : w \in VPage}
  <2>1. PICK w \in VPage : StateOf(p, w) = "Aliased" /\ FrameOf(p, w) = FrameOf(p, v)
    BY <1>1, <1>6 DEF AliasMapped
  <2>2. space[p][w] = Mapping("Aliased", FrameOf(p, v))
    BY <1>3, <1>4, <2>1
  <2> QED
    BY <2>2
<1> QED
  BY <1>2, <1>5, <1>6

\* Locked memory is lent, nothing free was freed, and free pages can be shown.
LEMMA InvRest ==
  ASSUME Parameters, MemoryInv
  PROVE  LockedWhileShared /\ FreesAllocated /\ LinearFits
PROOF
<1>1. MemoryTypes /\ LockedLent
  BY DEF MemoryInv
<1>2. LockedWhileShared
  <2> SUFFICES ASSUME NEW p \in running, NEW v \in VPage, space[p][v] # NoPage, space[p][v].state = "Locked"
      PROVE  \E b \in Blocks : block[b].owner = p /\ block[b].base # None
                               /\ v \in Extent(block[b].base, block[b].size)
    BY DEF LockedWhileShared
  <2>1. StateOf(p, v) = "Locked"
    BY DEF StateOf
  <2>2. PICK b \in Block : Lends(b, p) /\ v \in Extent(block[b].base, block[b].size)
    BY <1>1, <2>1 DEF LockedLent
  <2> QED
    BY <2>2 DEF Lends, Blocks
<1>3. FreesAllocated
  BY DEF FreesAllocated, MemoryInv
<1>4. LinearFits
  <2> SUFFICES ASSUME NEW p \in running, NEW f \in free
               PROVE  space[p][Linear(f)] = NoPage
    BY DEF LinearFits
  <2>1. f \in Frame /\ f \in Nat /\ Linear(f) \in VPage /\ Linear(f) >= HeapPages
        /\ Linear(f) - HeapPages = f
    BY <1>1 DEF MemoryTypes, Frame, VPage, Linear, Parameters
  <2>2. ASSUME space[p][Linear(f)] # NoPage
        PROVE  FALSE
    <3>1. PICK v : v = Linear(f)
      OBVIOUS
    <3>2. p \in Process /\ v \in VPage
      BY <1>1, <2>1, <3>1 DEF MemoryTypes
    <3>3. StateOf(p, v) # NoPage
      BY <1>1, <2>2, <3>1, <3>2, PageFacts
    <3>4. FrameOf(p, v) = f
      BY <2>1, <3>1, <3>2, <3>3 DEF MemoryInv, LinearMapped
    <3>5. FrameOf(p, v) \notin free
      BY <2>2, <3>1, <3>2, InvBacked DEF MappingsBacked, FrameOf
    <3> QED
      BY <3>4, <3>5
  <2> QED
    BY <2>2
<1> QED
  BY <1>2, <1>3, <1>4

\* The accounts count what is held.
LEMMA InvAccounts ==
  ASSUME Parameters, MemoryInv, "share" \notin Careless
  PROVE  AccountsExact
PROOF
<1>1. commit = Cardinality(UNION {holding[p] : p \in Process})
  BY DEF MemoryInv, Commits
<1>2. \A p \in running : memory_used[p] = Cardinality(holding[p]) + Cardinality(BlockPages(p))
  BY DEF MemoryInv, Accounts
<1>3. \A p : {c \in Block : block[c] # None /\ block[c].owner = p} = {c \in Blocks : block[c].owner = p}
  BY DEF Blocks
<1>4. \A p : BlockPages(p) = UNION {block[b].holding : b \in {c \in Blocks : block[c].owner = p}}
  BY <1>3 DEF BlockPages
<1> QED
  BY <1>1, <1>2, <1>4 DEF AccountsExact

\* However many processes and blocks there are, whatever they allocate, alias,
\* share and lend and in whichever order they close and exit: each page of FCRAM
\* has one owner, no process shows a page that was given back or is another's
\* unshared, aliases are pairs, memory is locked as long as it is lent, no page is
\* freed twice (memory.cpp:368), linear addresses of free pages are unused
\* (process.cpp:399), and the accounts are exact.
THEOREM MemoryOwnedHolds ==
  ASSUME Parameters, "share" \notin Careless
  PROVE  MemorySpec => []MemoryOwned
PROOF
<1>1. MemoryInit => MemoryInv
  BY MemoryInvInit
<1>2. MemoryInv /\ [MemoryNext]_memory_vars => MemoryInv'
  BY MemoryInvStep
<1>3. MemoryInv => MemoryOwned
  BY InvOneOwner, InvBacked, InvAliases, InvRest, InvAccounts DEF MemoryOwned
<1> QED
  BY <1>1, <1>2, <1>3, PTL DEF MemorySpec

\* The parts that do not need careful programs.
OwnedWhateverIsShared ==
  /\ PagesHaveOneOwner /\ MappingsBacked /\ AliasesPaired /\ LockedWhileShared
  /\ FreesAllocated /\ LinearFits /\ Commits

\* Programs that try to share memory that is not theirs, where CreateSharedMemory
\* fails and the destructor of the half-made block takes its size off memory_used
\* (shared_memory.cpp:20), upset that account only: pages, mappings and the Commit
\* value are as before.
THEOREM RefusedSharesHarmAccountsOnly ==
  ASSUME Parameters
  PROVE  MemorySpec => []OwnedWhateverIsShared
PROOF
<1>1. MemoryInit => MemoryInv
  BY MemoryInvInit
<1>2. MemoryInv /\ [MemoryNext]_memory_vars => MemoryInv'
  BY MemoryInvStep
<1>3. MemoryInv => OwnedWhateverIsShared
  BY InvOneOwner, InvBacked, InvAliases, InvRest DEF OwnedWhateverIsShared, MemoryInv
<1> QED
  BY <1>1, <1>2, <1>3, PTL DEF MemorySpec
=============================================================================
