---------------------------- MODULE AddressSpace ----------------------------
(***************************************************************************)
(* What VMManager is for (core/hle/kernel/vm_manager.h): every page of the *)
(* address space is free, or has a state, permissions and a page of host   *)
(* memory, and an operation changes the pages of its range, all or none.   *)
(***************************************************************************)
EXTENDS Integers

CONSTANTS MaxAddress,  \* pages of address space
          Memory,      \* pages of host memory that can be mapped
          State,       \* MemoryState tags
          Perms,       \* sets of rights
          Changes,     \* <<expected state, expected rights, new state, new rights>>
          Free         \* a page that is not mapped

VARIABLE pages

Page == 0 .. MaxAddress - 1
Ranges == {r \in SUBSET Page : r # {} /\ \A a, c \in r : a .. c \subseteq r}

Mapped(state, perms, back) == [state |-> state, perms |-> perms, back |-> back]

Init == pages = [p \in Page |-> Free]

\* Fresh mappings may be read and written; their memory is contiguous.
MapBackingMemory(r, back, state) ==
  LET base == CHOOSE p \in r : \A q \in r : p <= q
  IN  /\ \A p \in r : pages[p] = Free
      /\ pages' = [p \in Page |-> IF p \in r THEN Mapped(state, {"R", "W"}, back + (p - base))
                                             ELSE pages[p]]

Change(r, f(_)) ==
  /\ \A p \in r : pages[p] # Free
  /\ pages' = [p \in Page |-> IF p \in r THEN f(pages[p]) ELSE pages[p]]

UnmapRange(r)            == Change(r, LAMBDA m : Free)
ReprotectRange(r, perms) == Change(r, LAMBDA m : Mapped(m.state, perms, m.back))
ChangeMemoryState(r, c)  ==
  /\ \A p \in r : pages[p] # Free => pages[p].state = c[1] /\ c[2] \subseteq pages[p].perms
  /\ Change(r, LAMBDA m : Mapped(c[3], c[4], m.back))

Next ==
  \E r \in Ranges :
    \/ \E back \in Memory, state \in State : MapBackingMemory(r, back, state)
    \/ UnmapRange(r)
    \/ \E perms \in Perms : ReprotectRange(r, perms)
    \/ \E c \in Changes : ChangeMemoryState(r, c)

Spec == Init /\ [][Next]_pages
=============================================================================
