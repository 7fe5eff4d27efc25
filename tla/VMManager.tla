------------------------------ MODULE VMManager ------------------------------
(***************************************************************************)
(* core/hle/kernel/vm_manager.cpp: an address space as a sequence of areas *)
(* that are split and merged, and the page table that is kept in step with *)
(* them.  The unit is the page.  A function of the class is an operator on *)
(* a space [map, table] and returns the space, whether it succeeded, and   *)
(* the position `at` of the area it returns a handle to.                   *)
(***************************************************************************)
EXTENDS Integers, Sequences, SequencesExt, FiniteSets

CONSTANTS MaxAddress,  \* MAX_ADDRESS, in pages
          Memory,      \* pages of host memory, 0 .. n
          State,       \* MemoryState tags given to mappings
          Perms,       \* sets of rights
          Changes,     \* arguments of ChangeMemoryState
          MapPerms,    \* rights given by callers that reprotect what they map
          Free

VARIABLES vma_map, page_table, is_locked

vars == <<vma_map, page_table, is_locked>>

Page  == 0 .. MaxAddress - 1
Space == [map |-> vma_map, table |-> page_table]

\* VirtualMemoryArea; backing is Free for an area that is not mapped.
Area(base, size, state, perms, backing) ==
  [base |-> base, size |-> size, state |-> state, perms |-> perms, backing |-> backing]
FreeArea(base, size) == Area(base, size, Free, {}, Free)
End(a)    == a.base + a.size
Span(a)   == a.base .. End(a) - 1
IsFree(a) == a.backing = Free
Offset(a, n) == IF IsFree(a) THEN Free ELSE a.backing + n

\* CanBeMergedWith
SameAttributes(a, next) ==   \* mutant
  <<a.perms, a.state, IsFree(a)>> = <<next.perms, next.state, IsFree(next)>>

CanBeMergedWith(a, next) ==
  /\ <<a.perms, a.state, IsFree(a)>> = <<next.perms, next.state, IsFree(next)>>
  /\ Offset(a, a.size) = next.backing

\* Reset
Init ==
  /\ vma_map = <<FreeArea(0, MaxAddress)>>
  /\ page_table = [p \in Page |-> Free]
  /\ is_locked = FALSE

FindVMA(m, target) == CHOOSE i \in DOMAIN m : target \in Span(m[i])

SplitSameBacking(m, i, off) ==   \* mutant
  LET a == m[i]
      left  == [a EXCEPT !.size = off]
      right == Area(a.base + off, a.size - off, a.state, a.perms, a.backing)
  IN  ReplaceAt(InsertAt(m, i + 1, right), i, left)

\* The area is cut at an offset; the right part is the new one.
SplitVMA(m, i, off) ==
  LET a == m[i]
      left  == [a EXCEPT !.size = off]
      right == Area(a.base + off, a.size - off, a.state, a.perms, Offset(a, off))
  IN  ReplaceAt(InsertAt(m, i + 1, right), i, left)

Join(m, i) == RemoveAt(ReplaceAt(m, i, [m[i] EXCEPT !.size = @ + m[i + 1].size]), i + 1)

MergeWithNext(m, i) ==   \* mutant
  [map |-> IF i < Len(m) /\ CanBeMergedWith(m[i], m[i + 1]) THEN Join(m, i) ELSE m, at |-> i]

\* MergeAdjacent: with the next area, then with the previous one.
MergeAdjacent(m, i) ==
  LET n == IF i < Len(m) /\ CanBeMergedWith(m[i], m[i + 1]) THEN Join(m, i) ELSE m
  IN  IF i > 1 /\ CanBeMergedWith(n[i - 1], n[i]) THEN [map |-> Join(n, i - 1), at |-> i - 1]
      ELSE [map |-> n, at |-> i]

UpdatePageTableForVMA(table, a) ==
  [p \in Page |-> IF p \in Span(a) THEN Offset(a, p - a.base) ELSE table[p]]

\* The area at i gets new attributes, its pages follow, its neighbours merge.
Update(s, i, a) ==
  LET merged == MergeAdjacent(ReplaceAt(s.map, i, a), i)
  IN  [map |-> merged.map, table |-> UpdatePageTableForVMA(s.table, a), at |-> merged.at]

Failed(s) == [ok |-> FALSE, map |-> s.map, table |-> s.table, at |-> 0]
Success(s) == [ok |-> TRUE, map |-> s.map, table |-> s.table, at |-> s.at]

-----------------------------------------------------------------------------
\* CarveVMA: cut a range out of one free area.
CanCarve(m, target, size) ==
  LET a == m[FindVMA(m, target)] IN IsFree(a) /\ target + size <= End(a)

CarveVMA(m, target, size) ==
  LET i == FindVMA(m, target)
      n == IF target + size # End(m[i]) THEN SplitVMA(m, i, target + size - m[i].base) ELSE m
  IN  IF target # m[i].base THEN [map |-> SplitVMA(n, i, target - m[i].base), at |-> i + 1]
      ELSE [map |-> n, at |-> i]

MapBackingMemory(s, target, size, back, state) ==
  IF ~ CanCarve(s.map, target, size) THEN Failed(s)
  ELSE LET c == CarveVMA(s.map, target, size)
       IN  Success(Update([s EXCEPT !.map = c.map], c.at,
                          Area(target, size, state, {"R", "W"}, back)))

\* The first free area that ends late enough, whatever its start leaves of it.
MapBackingMemoryToBase(s, base, region, size, back, state) ==
  LET fits == {i \in DOMAIN s.map : IsFree(s.map[i]) /\ End(s.map[i]) > base
                                     /\ End(s.map[i]) >= base + size}
      i      == CHOOSE j \in fits : \A k \in fits : j <= k
      target == IF s.map[i].base > base THEN s.map[i].base ELSE base
  IN  IF fits = {} \/ target + size > base + region THEN Failed(s)
      ELSE MapBackingMemory(s, target, size, back, state)

\* CarveVMARange: the edges of a range of mapped areas become boundaries.
InRange(m, target, size) ==
  {i \in DOMAIN m : Span(m[i]) \cap (target .. target + size - 1) # {}}

CarveVMARange(m, target, size) ==
  LET i == FindVMA(m, target)
      n == IF target = m[i].base THEN m ELSE SplitVMA(m, i, target - m[i].base)
      j == FindVMA(n, target + size - 1)
  IN  IF End(n[j]) = target + size THEN n ELSE SplitVMA(n, j, target + size - n[j].base)

\* The loop over the areas of a range, which merge under its feet.
Walk(s, target, size, f(_)) ==
  LET Step(w, area) ==
        IF w.at <= Len(w.map) /\ w.map[w.at].base < target + size
        THEN LET u == Update(w, w.at, f(w.map[w.at])) IN [u EXCEPT !.at = @ + 1]
        ELSE w
      carved == CarveVMARange(s.map, target, size)
  IN  IF \E i \in InRange(s.map, target, size) : IsFree(s.map[i]) THEN Failed(s)
      ELSE Success(FoldLeft(Step, [map |-> carved, table |-> s.table,
                                   at |-> FindVMA(carved, target)], carved))

UnmapRange(s, target, size) ==
  Walk(s, target, size, LAMBDA a : FreeArea(a.base, a.size))

ReprotectRange(s, target, size, perms) ==
  Walk(s, target, size, LAMBDA a : [a EXCEPT !.perms = perms])

ChangeFirst(s, target, size, c) ==   \* mutant
  LET a == s.map[FindVMA(s.map, target)] IN
  IF a.state # c[1] \/ ~ c[2] \subseteq a.perms THEN Failed(s)
  ELSE Walk(s, target, size, LAMBDA b : [b EXCEPT !.state = c[3], !.perms = c[4]])

ChangeMemoryState(s, target, size, c) ==
  IF \E i \in InRange(s.map, target, size) :
       s.map[i].state # c[1] \/ ~ c[2] \subseteq s.map[i].perms
  THEN Failed(s)
  ELSE Walk(s, target, size, LAMBDA a : [a EXCEPT !.state = c[3], !.perms = c[4]])

\* Reprotect of the area a handle names.
Reprotect(s, perms) == Update(s, s.at, [s.map[s.at] EXCEPT !.perms = perms])

-----------------------------------------------------------------------------
Becomes(r) == vma_map' = r.map /\ page_table' = r.table /\ UNCHANGED is_locked

\* Memory fits behind a range of `size` pages that starts at `back`.
Backed(back, size) == back + size - 1 \in Memory

Map(target, size, back, state) ==
  ~ is_locked /\ Backed(back, size) /\ Becomes(MapBackingMemory(Space, target, size, back, state))

MapToBase(base, region, size, back, state) ==
  /\ ~ is_locked /\ Backed(back, size)
  /\ Becomes(MapBackingMemoryToBase(Space, base, region, size, back, state))

\* How the kernel gives a mapping its rights: MapBackingMemory, then Reprotect
\* of the handle it returned.
MapAndReprotect(target, size, back, state, perms) ==
  /\ ~ is_locked /\ Backed(back, size)
  /\ LET r == MapBackingMemory(Space, target, size, back, state)
     IN  r.ok /\ Becomes(Reprotect(r, perms))

Unmap(target, size) == ~ is_locked /\ Becomes(UnmapRange(Space, target, size))

Protect(target, size, perms) ==
  ~ is_locked /\ Becomes(ReprotectRange(Space, target, size, perms))

\* A locked manager ignores the call: a destructor of the state being replaced.
ChangeState(target, size, c) ==
  IF is_locked THEN UNCHANGED vars ELSE Becomes(ChangeMemoryState(Space, target, size, c))

\* serialize locks the manager when it reads a state.
Load   == ~ is_locked /\ is_locked' = TRUE /\ UNCHANGED <<vma_map, page_table>>
Unlock == is_locked /\ is_locked' = FALSE /\ UNCHANGED <<vma_map, page_table>>

Next ==
  \/ \E t \in Page : \E n \in 1 .. MaxAddress - t :
       \/ \E back \in Memory, state \in State :
            \/ Map(t, n, back, state)
            \/ \E region \in 1 .. MaxAddress - t : MapToBase(t, region, n, back, state)
            \/ \E perms \in MapPerms : MapAndReprotect(t, n, back, state, perms)
       \/ Unmap(t, n)
       \/ \E perms \in Perms : Protect(t, n, perms)
       \/ \E c \in Changes : ChangeState(t, n, c)
  \/ Load \/ Unlock

Spec == Init /\ [][Next]_vars

-----------------------------------------------------------------------------
AreaOf(p) == vma_map[FindVMA(vma_map, p)]
PageOf(p) == LET a == AreaOf(p) IN IF IsFree(a) THEN Free
             ELSE [state |-> a.state, perms |-> a.perms, back |-> a.backing + (p - a.base)]

\* The areas cover the address space without gap or overlap, and free areas
\* are merged: mapping looks for room in one area only (vm_manager.cpp:263).
AreasCoverSpace ==
  /\ vma_map[1].base = 0 /\ End(vma_map[Len(vma_map)]) = MaxAddress
  /\ \A i \in 1 .. Len(vma_map) - 1 :
       /\ vma_map[i].base < End(vma_map[i]) /\ End(vma_map[i]) = vma_map[i + 1].base
       /\ ~ (IsFree(vma_map[i]) /\ IsFree(vma_map[i + 1]))

\* vm_manager.h:107 says of the areas: "mergeable regions must always be merged
\* when possible so that no two similar and adjacent regions exist that have
\* not been merged."
SimilarAreasMerged ==
  \A i \in 1 .. Len(vma_map) - 1 : ~ CanBeMergedWith(vma_map[i], vma_map[i + 1])

\* The page table that emulated loads and stores use agrees with the areas,
\* although areas merged into another are not walked again (vm_manager.cpp:166).
PageTableMatches ==
  \A p \in Page : page_table[p] = Offset(AreaOf(p), p - AreaOf(p).base)

\* A call succeeds exactly when every page of its range is in the state it
\* wants, wherever the range cuts the areas.
OutcomesExact ==
  \A t \in Page : \A n \in 1 .. MaxAddress - t :
    LET r == t .. t + n - 1 IN
    /\ MapBackingMemory(Space, t, n, 0, CHOOSE st \in State : TRUE).ok
         <=> \A p \in r : PageOf(p) = Free
    /\ UnmapRange(Space, t, n).ok <=> \A p \in r : PageOf(p) # Free
    /\ \A c \in Changes : ChangeMemoryState(Space, t, n, c).ok
         <=> \A p \in r : PageOf(p) # Free /\ PageOf(p).state = c[1] /\ c[2] \subseteq PageOf(p).perms

\* Splitting and merging implement operations on the pages of a range.
Pages == INSTANCE AddressSpace WITH pages <- [p \in Page |-> PageOf(p)]

ImplementsAddressSpace == Pages!Spec

\* vm_manager.h:126 says of MapBackingMemoryToBase: "Maps part of a ref-counted
\* block of memory at the first free address after the given base."
FindsFreeAddress ==
  \A b \in Page : \A n, g \in 1 .. MaxAddress - b :
    LET st == CHOOSE x \in State : TRUE IN
    (\E t \in b .. b + g - n : \A p \in t .. t + n - 1 : PageOf(p) = Free)
      => MapBackingMemoryToBase(Space, b, g, n, 0, st).ok

\* vm_manager.h:166 says of Reprotect: "Changes the permissions of the given
\* VMA"; vm_manager.cpp:118 of the area behind a new mapping: "This is the
\* appropriately sized VMA that will turn into our allocation."  Mapping memory
\* with certain rights leaves the rights of the other pages alone.
RightsStayPut ==
  [][ \A t \in Page : \A n \in 1 .. MaxAddress - t, back \in Memory, st \in State, perms \in MapPerms :
        MapAndReprotect(t, n, back, st, perms) =>
          \A p \in Page \ (t .. t + n - 1) : PageOf(p) = Free \/ PageOf(p)' = PageOf(p) ]_vars
=============================================================================
