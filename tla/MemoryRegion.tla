---------------------------- MODULE MemoryRegion ----------------------------
(***************************************************************************)
(* MemoryRegionInfo of core/hle/kernel/memory.cpp: the free pages of a     *)
(* region of FCRAM as an ordered set of intervals <<lower, upper>>, upper  *)
(* excluded.  `held` are the pages that the callers own and may free, in   *)
(* pieces of any size (the kernel frees what an area of virtual memory     *)
(* covers, not what it once allocated).  A save state replaces the         *)
(* intervals and locks the region while the objects of the old state die.  *)
(***************************************************************************)
EXTENDS Integers, FiniteSets, FiniteSetsExt

CONSTANTS Size,      \* pages in the region
          Requests,  \* sizes that callers ask for (positive)
          MaySave,   \* whether save states are written and read
          None

VARIABLES free_blocks, used, is_locked,
          result,    \* of the last call: what was asked, and the pages or None
          held,      \* pages that the callers own
          stale,     \* pages owned by objects of the state a load replaces
          file       \* the save state

vars == <<free_blocks, used, is_locked, result, held, stale, file>>

Page     == 0 .. Size - 1
Interval == {i \in (0 .. Size) \X (0 .. Size) : i[1] < i[2]}

Pages(i)        == i[1] .. i[2] - 1
AllPages(is)    == UNION {Pages(i) : i \in is}
IntervalSize(i) == i[2] - i[1]

\* IntervalLess: by the lower bound, then by the upper one.
Less(a, b) == a[1] < b[1] \/ (a[1] = b[1] /\ a[2] < b[2])

\* Contains looks at the interval before upper_bound(needle) only.
Contains(is, needle) ==
  \E i \in is : /\ ~ Less(needle, i)
                /\ \A j \in is : Less(i, j) => Less(needle, j)
                /\ i[1] <= needle[1] /\ needle[2] <= i[2]

Intersects(a, b) == a[1] < b[2] /\ b[1] < a[2]

InsertOnly(is, i) == is \cup {i}   \* mutant

\* InsertMerge: the new interval swallows the ones it overlaps or touches.
InsertMerge(is, i) ==
  LET touching == {j \in is : j[1] <= i[2] /\ i[1] <= j[2]} \cup {i}
  IN  (is \ touching) \cup {<<Min({j[1] : j \in touching}), Max({j[2] : j \in touching})>>}

SubtractEmpty(is, needle) ==   \* mutant
  LET cut == {i \in is : Intersects(i, needle)}
  IN  (is \ cut) \cup {<<i[1], needle[1]>> : i \in {c \in cut : c[1] <= needle[1]}}
                 \cup {<<needle[2], i[2]>> : i \in {c \in cut : needle[2] <= c[2]}}

SubtractInterval(is, needle) ==
  LET cut == {i \in is : Intersects(i, needle)}
  IN  (is \ cut) \cup {<<i[1], needle[1]>> : i \in {c \in cut : c[1] < needle[1]}}
                 \cup {<<needle[2], i[2]>> : i \in {c \in cut : needle[2] < c[2]}}

\* Reset
Init ==
  /\ free_blocks = {<<0, Size>>} /\ used = 0 /\ is_locked = FALSE
  /\ result = <<"reset", 0, {}>> /\ held = {} /\ stale = {} /\ file = <<>>

-----------------------------------------------------------------------------
Give(op, arg, blocks, n) ==
  /\ free_blocks' = FoldSet(LAMBDA b, is : SubtractInterval(is, b), free_blocks, blocks)
  /\ used' = used + n
  /\ result' = <<op, arg, AllPages(blocks)>>
  /\ held' = held \cup AllPages(blocks)
  /\ UNCHANGED <<is_locked, stale, file>>

Fail(op, arg) ==
  /\ result' = <<op, arg, None>>
  /\ UNCHANGED <<free_blocks, used, is_locked, held, stale, file>>

\* What the walk from the highest block still wants when it reaches block b.
Rest(n, b) ==
  n - FoldSet(LAMBDA c, sum : sum + IntervalSize(c), 0, {c \in free_blocks : Less(b, c)})

HeapAllocate(n) ==
  LET whole   == {b \in free_blocks : Rest(n, b) > IntervalSize(b)}
      last    == {b \in free_blocks : Rest(n, b) \in 1 .. IntervalSize(b)}
  IN  /\ ~ is_locked
      /\ \/ last # {} /\ Give("heap", n, whole \cup {<<b[2] - Rest(n, b), b[2]>> : b \in last}, n)
         \/ last = {} /\ Fail("heap", n)

\* LinearAllocate(offset, size)
LinearAllocateAt(lower, n) ==
  /\ ~ is_locked /\ lower + n <= Size
  /\ IF Contains(free_blocks, <<lower, lower + n>>)
     THEN Give("at", lower, {<<lower, lower + n>>}, n) ELSE Fail("at", lower)

Sufficient(n) == {b \in free_blocks : IntervalSize(b) >= n}

FirstLarger(n) ==   \* mutant
  LET fits == {b \in free_blocks : IntervalSize(b) > n} IN
  /\ ~ is_locked
  /\ \/ fits = {} /\ Fail("linear", n)
     \/ \E b \in fits : /\ \A c \in fits : ~ Less(c, b)
                        /\ Give("linear", n, {<<b[1], b[1] + n>>}, n)

\* LinearAllocate(size): the first block from below ...
LinearAllocate(n) ==
  /\ ~ is_locked
  /\ \/ Sufficient(n) = {} /\ Fail("linear", n)
     \/ \E b \in Sufficient(n) : /\ \A c \in Sufficient(n) : ~ Less(c, b)
                                 /\ Give("linear", n, {<<b[1], b[1] + n>>}, n)

\* ... RLinearAllocate: and from above.
RLinearAllocate(n) ==
  /\ ~ is_locked
  /\ \/ Sufficient(n) = {} /\ Fail("rlinear", n)
     \/ \E b \in Sufficient(n) : /\ \A c \in Sufficient(n) : ~ Less(b, c)
                                 /\ Give("rlinear", n, {<<b[2] - n, b[2]>>}, n)

FreeAnyway(lower, n) ==   \* mutant
  LET i == <<lower, lower + n>> IN
  /\ lower + n <= Size
  /\ \/ ~ is_locked /\ Pages(i) \subseteq held /\ held' = held \ Pages(i) /\ UNCHANGED stale
     \/ is_locked /\ Pages(i) \subseteq stale /\ stale' = stale \ Pages(i) /\ UNCHANGED held
  /\ free_blocks' = InsertMerge(free_blocks, i) /\ used' = used - n
  /\ result' = <<"free", 0, Pages(i)>>
  /\ UNCHANGED <<is_locked, file>>

\* Free, by an object that owns the pages; a locked region ignores the call.
Free(lower, n) ==
  LET i == <<lower, lower + n>> IN
  /\ lower + n <= Size
  /\ \/ /\ ~ is_locked /\ Pages(i) \subseteq held
        /\ free_blocks' = InsertMerge(free_blocks, i) /\ used' = used - n
        /\ held' = held \ Pages(i) /\ UNCHANGED stale
     \/ /\ is_locked /\ Pages(i) \subseteq stale
        /\ stale' = stale \ Pages(i) /\ UNCHANGED <<free_blocks, used, held>>
  /\ result' = <<"free", 0, Pages(i)>>
  /\ UNCHANGED <<is_locked, file>>

\* serialize: the region is written, or read and locked.
Save ==
  /\ MaySave /\ ~ is_locked
  /\ file' = <<free_blocks, used, held>>
  /\ UNCHANGED <<free_blocks, used, is_locked, result, held, stale>>

Load ==
  /\ MaySave /\ file # <<>> /\ ~ is_locked
  /\ free_blocks' = file[1] /\ used' = file[2] /\ held' = file[3]
  /\ stale' = held
  /\ is_locked' = TRUE
  /\ result' = <<"reset", 0, {}>>
  /\ UNCHANGED file

\* Unlock, when the objects of the old state are gone.
Unlock ==
  /\ is_locked /\ stale = {}
  /\ is_locked' = FALSE
  /\ UNCHANGED <<free_blocks, used, result, held, stale, file>>

Next ==
  \/ \E n \in Requests : \/ HeapAllocate(n) \/ LinearAllocate(n) \/ RLinearAllocate(n)
                         \/ \E l \in Page : LinearAllocateAt(l, n) \/ Free(l, n)
  \/ Save \/ Load \/ Unlock

Spec == Init /\ [][Next]_vars

-----------------------------------------------------------------------------
\* Well-typed states.
TypeOK ==
  /\ free_blocks \subseteq Interval
  /\ used \in 0 .. Size /\ is_locked \in BOOLEAN
  /\ result[3] \in (SUBSET Page) \cup {None}
  /\ {held, stale} \subseteq SUBSET Page

\* No page is lost or given out twice: after any sequence of allocations and
\* piecewise frees, loads included, the free blocks are exactly the pages
\* nobody owns, and `used` counts the others (memory.cpp:309-370).
PagesConserved ==
  /\ AllPages(free_blocks) = Page \ held
  /\ used = Cardinality(held)

\* The blocks stay disjoint and merged: no two of them touch (InsertMerge,
\* memory.cpp:64), or a linear allocation would miss the run they form.
BlocksMerged ==
  \A a, b \in free_blocks : a # b => a[2] < b[1] \/ b[2] < a[1]

\* The intervals implement the pages: heap and linear allocations find space
\* exactly when it is there, and where the region promises it (memory.h).
Pool == INSTANCE PageAllocator WITH free <- AllPages(free_blocks), result <- result

ImplementsPages == Pool!Spec

\* memory.h says of LinearAllocate(offset, size): "returns true if the
\* allocation is successful. false if the requested region is not free."
RefusedIsNotFree ==
  [][ \A n \in Requests, l \in Page :
        LinearAllocateAt(l, n) /\ result' = <<"at", l, None>> =>
          ~ (Pages(<<l, l + n>>) \subseteq AllPages(free_blocks)) ]_vars
=============================================================================
