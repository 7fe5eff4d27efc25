---------------------------- MODULE PageAllocator ----------------------------
(***************************************************************************)
(* What a region of FCRAM promises its callers (core/hle/kernel/memory.h): *)
(* pages are free or handed out, an allocation fails only for want of      *)
(* space, the heap grows down from the top and the linear heap up from the *)
(* bottom.                                                                 *)
(***************************************************************************)
EXTENDS Integers, FiniteSets, FiniteSetsExt

CONSTANTS Size,      \* pages in the region
          None       \* result of a call that fails

VARIABLES free,      \* pages that belong to nobody
          result     \* of the last call: what was asked, and the pages or None

Page == 0 .. Size - 1
Run(lower, n) == lower .. lower + n - 1
FreeRuns(n)   == {l \in Page : Run(l, n) \subseteq free}

Init == free = Page /\ result = <<"reset", 0, {}>>

Take(op, n, pages) == pages \subseteq free /\ free' = free \ pages /\ result' = <<op, n, pages>>
Fail(op, n)        == result' = <<op, n, None>> /\ UNCHANGED free

\* The n highest free pages, in as many blocks as they come.
HeapAllocate(n) ==
  IF n > Cardinality(free) THEN Fail("heap", n)
  ELSE Take("heap", n, {p \in free : Cardinality({q \in free : q > p}) < n})

\* n contiguous pages: the lowest ones, or the highest.
LinearAllocate(n) ==
  IF FreeRuns(n) = {} THEN Fail("linear", n) ELSE Take("linear", n, Run(Min(FreeRuns(n)), n))
RLinearAllocate(n) ==
  IF FreeRuns(n) = {} THEN Fail("rlinear", n) ELSE Take("rlinear", n, Run(Max(FreeRuns(n)), n))

\* A run the caller names; when the call fails nothing is promised.
LinearAllocateAt(lower, n) == Take("at", lower, Run(lower, n)) \/ Fail("at", lower)

Free(pages) ==
  pages \cap free = {} /\ free' = free \cup pages /\ result' = <<"free", 0, pages>>

Next ==
  \/ \E n \in 1 .. Size : \/ HeapAllocate(n) \/ LinearAllocate(n) \/ RLinearAllocate(n)
                          \/ \E l \in Page : LinearAllocateAt(l, n)
  \/ \E l \in Page, n \in 1 .. Size : Free(Run(l, n))

Spec == Init /\ [][Next]_<<free, result>>
=============================================================================
