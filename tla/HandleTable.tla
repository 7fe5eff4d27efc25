----------------------------- MODULE HandleTable -----------------------------
(***************************************************************************)
(* The per-process handle table of the emulated kernel                     *)
(* (core/hle/kernel/handle_table.cpp).                                     *)
(*                                                                         *)
(* A Handle is a machine word: the low bits are a generation, the bits     *)
(* above it a slot index.  `generations` does double duty: the generation  *)
(* of an allocated slot, the index of the next free slot of a free one.    *)
(* Widths are constants: the code has MaxCount = 4096, GenLimit = 2^15,    *)
(* SlotMod = 2^16 (the u16 that GetSlot returns) and HandleMod = 2^32.     *)
(***************************************************************************)
EXTENDS Integers, Sequences, FiniteSets

CONSTANTS MaxCount,   \* number of slots
          GenLimit,   \* generations are 1 .. GenLimit - 1
          SlotMod,    \* size of the integer type GetSlot returns
          HandleMod,  \* size of the integer type Handle
          Object,     \* kernel objects
          Null        \* the null shared_ptr

ASSUME WidthsAssumption ==
  /\ MaxCount \in Nat \ {0}
  /\ GenLimit \in Nat /\ GenLimit >= 2
  /\ SlotMod \in Nat /\ MaxCount < SlotMod
  /\ HandleMod \in Nat /\ MaxCount * GenLimit <= HandleMod
ASSUME NullAssumption == Null \notin Object

VARIABLES objects,          \* slot -> Object or Null
          generations,      \* slot -> generation, or next free slot
          next_generation,  \* generation of the next handle
          next_free_slot    \* head of the free list, MaxCount when empty

vars == <<objects, generations, next_generation, next_free_slot>>

Slot   == 0 .. MaxCount - 1
Handle == 0 .. HandleMod - 1

MakeHandle(slot, generation) == generation + slot * GenLimit
GetSlot(handle)       == (handle \div GenLimit) % SlotMod
GetGeneration(handle) == handle % GenLimit

IsValid(handle) ==
  LET slot == GetSlot(handle)
  IN  /\ slot < MaxCount
      /\ objects[slot] # Null
      /\ generations[slot] = GetGeneration(handle)

\* GetGeneric without the two pseudo-handles, which do not reach the table.
GetGeneric(handle) == IF IsValid(handle) THEN objects[GetSlot(handle)] ELSE Null

-----------------------------------------------------------------------------
Cleared ==
  /\ generations = [i \in Slot |-> i + 1]
  /\ objects = [i \in Slot |-> Null]
  /\ next_free_slot = 0

Init == Cleared /\ next_generation = 1

NextGenerationNoWrap(g) == g + 1   \* mutant

\* The generation after g: 0 is skipped when the counter wraps.
NextGeneration(g) == IF g + 1 >= GenLimit THEN 1 ELSE g + 1

CreateKeepsFreeSlot(obj) ==   \* mutant
  /\ next_free_slot < MaxCount
  /\ next_generation' = NextGeneration(next_generation)
  /\ generations' = [generations EXCEPT ![next_free_slot] = next_generation]
  /\ objects' = [objects EXCEPT ![next_free_slot] = obj]
  /\ UNCHANGED next_free_slot

Create(obj) ==
  /\ next_free_slot < MaxCount
  /\ next_free_slot' = generations[next_free_slot]
  /\ next_generation' = NextGeneration(next_generation)
  /\ generations' = [generations EXCEPT ![next_free_slot] = next_generation]
  /\ objects' = [objects EXCEPT ![next_free_slot] = obj]

CreateFails ==   \* ResultOutOfHandles
  /\ ~ next_free_slot < MaxCount
  /\ UNCHANGED vars

Duplicate(handle) ==
  /\ IsValid(handle)
  /\ Create(GetGeneric(handle)) \/ CreateFails

CloseWithoutLink(handle) ==   \* mutant
  /\ IsValid(handle)
  /\ objects' = [objects EXCEPT ![GetSlot(handle)] = Null]
  /\ next_free_slot' = GetSlot(handle)
  /\ UNCHANGED <<generations, next_generation>>

Close(handle) ==
  /\ IsValid(handle)
  /\ objects' = [objects EXCEPT ![GetSlot(handle)] = Null]
  /\ generations' = [generations EXCEPT ![GetSlot(handle)] = next_free_slot]
  /\ next_free_slot' = GetSlot(handle)
  /\ UNCHANGED next_generation

InvalidHandle(handle) ==   \* ResultInvalidHandle of Duplicate and Close
  /\ ~ IsValid(handle)
  /\ UNCHANGED vars

ClearRestartsGenerations ==   \* mutant
  /\ generations' = [i \in Slot |-> i + 1]
  /\ objects' = [i \in Slot |-> Null]
  /\ next_free_slot' = 0
  /\ next_generation' = 1

Clear ==
  /\ generations' = [i \in Slot |-> i + 1]
  /\ objects' = [i \in Slot |-> Null]
  /\ next_free_slot' = 0
  /\ UNCHANGED next_generation

Next ==
  \/ \E obj \in Object : Create(obj)
  \/ CreateFails
  \/ \E handle \in Handle : Duplicate(handle) \/ Close(handle) \/ InvalidHandle(handle)
  \/ Clear

Spec == Init /\ [][Next]_vars

-----------------------------------------------------------------------------
(***************************************************************************)
(* Properties.                                                             *)
(***************************************************************************)

\* The fields of the table have their types; the generation counter skips 0 and
\* wraps before it outgrows its field in the handle.
TypeOK ==
  /\ objects \in [Slot -> Object \cup {Null}]
  /\ generations \in [Slot -> Nat]
  /\ next_generation \in 1 .. GenLimit - 1
  /\ next_free_slot \in 0 .. MaxCount

FreeSlots == {s \in Slot : objects[s] = Null}

\* fl lists the free slots in the order the list in `generations` links them.
IsFreeList(fl) ==
  /\ Len(fl) <= MaxCount
  /\ next_free_slot = IF fl = << >> THEN MaxCount ELSE fl[1]
  /\ \A i \in 1 .. Len(fl) :
        /\ fl[i] \in FreeSlots
        /\ generations[fl[i]] = IF i = Len(fl) THEN MaxCount ELSE fl[i + 1]
  /\ \A i, j \in 1 .. Len(fl) : fl[i] = fl[j] => i = j
  /\ \A s \in FreeSlots : \E i \in 1 .. Len(fl) : fl[i] = s

\* The list threaded through `generations` from next_free_slot holds every free
\* slot exactly once and ends at MaxCount, whatever Create, Duplicate, Close
\* and Clear did before: no slot is leaked, none is handed out twice, and
\* Create says ResultOutOfHandles only when all slots are taken.
FreeListSound ==
  \E n \in 0 .. MaxCount : \E fl \in [1 .. n -> Slot] : IsFreeList(fl)

\* The handles in use, each with its object: the abstraction of the table.
LiveHandles == {MakeHandle(s, generations[s]) : s \in Slot \ FreeSlots}
Live == [h \in LiveHandles |-> objects[GetSlot(h)]]

Map == INSTANCE HandleMap WITH live <- Live, Handle <- Handle, Object <- Object

\* The table implements a finite map: a step adds one unused handle, removes
\* one, removes all, or leaves every lookup alone.
ImplementsMap == Map!MapSpec

\* The handle format of handle_table.h: the slot index is bits 31:15, so a
\* handle is valid only when the whole field above the generation is a slot.
SlotFieldIsWhole ==
  \A handle \in Handle : IsValid(handle) => handle \div GenLimit \in Slot
=============================================================================
