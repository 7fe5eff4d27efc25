-------------------------- MODULE HandleTableProofs --------------------------
(***************************************************************************)
(* The free list of a handle table is sound for any number of slots and any *)
(* widths of the handle's fields.  Type correctness and the free list are   *)
(* one induction: Create takes next_free_slot from `generations`, which is  *)
(* a slot number only because the slot it is read from is free.             *)
(*                                                                         *)
(* From it: the table implements a finite map from handles to objects, and  *)
(* a closed handle stays invalid until the generation counter has gone      *)
(* round, whatever slots are reused in between.                             *)
(***************************************************************************)
EXTENDS MCHandleTable, FiniteSetTheorems, TLAPS

TableInv == TypeOK /\ FreeListSound

\* A list of different slots is no longer than the table.
LEMMA SlotsBound ==
  ASSUME NEW n \in Nat, NEW fl \in [1 .. n -> Slot],
         \A i, j \in 1 .. n : fl[i] = fl[j] => i = j
  PROVE  n <= MaxCount
PROOF
<1>1. MaxCount - 1 \in Int /\ 0 \in Int /\ 1 \in Int /\ n \in Int
  BY WidthsAssumption
<1>2. IsFiniteSet(Slot) /\ Cardinality(Slot) = MaxCount
  BY <1>1, FS_Interval, WidthsAssumption DEF Slot
<1>3. Cardinality(1 .. n) = n
  BY <1>1, FS_Interval
<1>4. fl \in Injection(1 .. n, Slot)
  BY DEF Injection, IsInjective
<1>5. Cardinality(1 .. n) <= Cardinality(Slot)
  BY <1>2, <1>4, FS_Injection
<1> QED
  BY <1>2, <1>3, <1>5

\* A free list of n slots, with its length made explicit.
LinksFree(fl, n) ==
  /\ next_free_slot = IF n = 0 THEN MaxCount ELSE fl[1]
  /\ \A i \in 1 .. n :
        /\ objects[fl[i]] = Null
        /\ generations[fl[i]] = IF i = n THEN MaxCount ELSE fl[i + 1]
  /\ \A i, j \in 1 .. n : fl[i] = fl[j] => i = j
  /\ \A s \in Slot : objects[s] = Null => \E i \in 1 .. n : fl[i] = s

HasFreeList == \E n \in Nat : \E fl \in [1 .. n -> Slot] : LinksFree(fl, n)

\* FreeListSound says that some list of free slots exists, of any length.
LEMMA FreeListForm == FreeListSound <=> HasFreeList
PROOF
<1>1. ASSUME NEW n \in Nat, NEW fl \in [1 .. n -> Slot]
      PROVE  /\ Len(fl) = n /\ fl \in Seq(Slot)
             /\ fl = << >> <=> n = 0
  OBVIOUS
<1>2. ASSUME NEW n \in Nat, NEW fl \in [1 .. n -> Slot], n <= MaxCount
      PROVE  IsFreeList(fl) <=> LinksFree(fl, n)
  BY <1>1, <1>2 DEF IsFreeList, LinksFree, FreeSlots
<1>3. ASSUME NEW n \in Nat, NEW fl \in [1 .. n -> Slot], LinksFree(fl, n)
      PROVE  n \in 0 .. MaxCount
  BY <1>3, SlotsBound, WidthsAssumption DEF LinksFree
<1>4. ASSUME NEW n \in 0 .. MaxCount PROVE n \in Nat /\ n <= MaxCount
  BY WidthsAssumption
<1> QED
  BY <1>2, <1>3, <1>4 DEF FreeListSound, HasFreeList

\* The same in the next state.
LEMMA FreeListFormNext == FreeListSound' <=> HasFreeList'
PROOF
  BY FreeListForm, PTL

-----------------------------------------------------------------------------
\* After Clear the list is 0, 1, ..., MaxCount - 1.
LEMMA ClearedInv ==
  Cleared /\ next_generation \in 1 .. GenLimit - 1 => TableInv
PROOF
<1> SUFFICES ASSUME generations = [i \in Slot |-> i + 1], objects = [i \in Slot |-> Null],
                    next_free_slot = 0, next_generation \in 1 .. GenLimit - 1
             PROVE  TableInv
  BY DEF Cleared
<1> DEFINE fl == [i \in 1 .. MaxCount |-> i - 1]
<1>1. fl \in [1 .. MaxCount -> Slot] /\ MaxCount \in Nat
  BY WidthsAssumption DEF Slot
<1>2. LinksFree(fl, MaxCount)
  <2>1. \A i \in 1 .. MaxCount : i - 1 \in Slot
    BY WidthsAssumption DEF Slot
  <2>2. \A s \in Slot : s + 1 \in 1 .. MaxCount /\ fl[s + 1] = s
    BY WidthsAssumption DEF Slot
  <2>3. \A s \in Slot : \E i \in 1 .. MaxCount : fl[i] = s
    BY <2>2
  <2>4. \A i \in 1 .. MaxCount :
          /\ objects[fl[i]] = Null
          /\ generations[fl[i]] = IF i = MaxCount THEN MaxCount ELSE fl[i + 1]
    BY <2>1, WidthsAssumption
  <2>5. next_free_slot = IF MaxCount = 0 THEN MaxCount ELSE fl[1]
    BY WidthsAssumption
  <2>6. \A i, j \in 1 .. MaxCount : fl[i] = fl[j] => i = j
    BY WidthsAssumption
  <2> QED
    BY <2>3, <2>4, <2>5, <2>6 DEF LinksFree
<1>3. FreeListSound
  <2> HIDE DEF fl
  <2> QED
    BY <1>1, <1>2, FreeListForm DEF HasFreeList
<1>4. TypeOK
  BY WidthsAssumption DEF TypeOK, Slot
<1> QED
  BY <1>3, <1>4 DEF TableInv

\* Create takes the head off the list.
LEMMA CreateInv ==
  ASSUME TableInv, NEW obj \in Object, Create(obj)
  PROVE  TableInv'
PROOF
<1>1. PICK n \in Nat : \E fl \in [1 .. n -> Slot] : LinksFree(fl, n)
  BY FreeListForm DEF TableInv, HasFreeList
<1>2. PICK fl \in [1 .. n -> Slot] : LinksFree(fl, n)
  BY <1>1
<1> DEFINE s == next_free_slot
           tl == [i \in 1 .. n - 1 |-> fl[i + 1]]
<1>3. /\ s < MaxCount /\ next_free_slot' = generations[s]
      /\ generations' = [generations EXCEPT ![s] = next_generation]
      /\ objects' = [objects EXCEPT ![s] = obj]
      /\ next_generation' = NextGeneration(next_generation)
  BY DEF Create
<1>4. n # 0 /\ s = fl[1] /\ n - 1 \in Nat /\ 1 \in 1 .. n
  <2>1. next_free_slot = IF n = 0 THEN MaxCount ELSE fl[1]
    BY <1>2 DEF LinksFree
  <2>2. n # 0
    BY <1>3, <2>1, WidthsAssumption
  <2> QED
    BY <2>1, <2>2
<1>5. s \in Slot /\ obj # Null
  BY <1>4, NullAssumption
<1>6. /\ objects \in [Slot -> Object \cup {Null}] /\ generations \in [Slot -> Nat]
      /\ next_generation \in 1 .. GenLimit - 1
  BY DEF TableInv, TypeOK
<1> HIDE DEF s
<1>7. tl \in [1 .. n - 1 -> Slot]
  BY <1>4
<1>8. \A i \in 1 .. n - 1 : /\ i + 1 \in 1 .. n /\ tl[i] = fl[i + 1] /\ fl[i + 1] # s
                            /\ fl[i + 1] \in Slot /\ i \in 1 .. n /\ i # n
  BY <1>2, <1>4 DEF LinksFree
<1> HIDE DEF tl
<1>9. LinksFree(tl, n - 1)'
  <2>1. next_free_slot' = IF n - 1 = 0 THEN MaxCount ELSE tl[1]
    <3>1. generations[fl[1]] = IF 1 = n THEN MaxCount ELSE fl[2]
      BY <1>2, <1>4 DEF LinksFree
    <3>2. n # 1 => 1 \in 1 .. n - 1
      BY <1>4
    <3> QED
      BY <1>3, <1>4, <1>8, <3>1, <3>2
  <2>2. ASSUME NEW i \in 1 .. n - 1
        PROVE  /\ objects'[tl[i]] = Null
               /\ generations'[tl[i]] = IF i = n - 1 THEN MaxCount ELSE tl[i + 1]
    <3>1. objects[fl[i + 1]] = Null
      BY <1>2, <1>8 DEF LinksFree
    <3>2. generations[fl[i + 1]] = IF i + 1 = n THEN MaxCount ELSE fl[i + 1 + 1]
      BY <1>2, <1>8 DEF LinksFree
    <3>3. i # n - 1 => i + 1 \in 1 .. n - 1 /\ tl[i + 1] = fl[i + 1 + 1]
      BY <1>4, <1>8
    <3> QED
      BY <1>3, <1>5, <1>6, <1>8, <3>1, <3>2, <3>3, <1>4
  <2>3. \A i, j \in 1 .. n - 1 : tl[i] = tl[j] => i = j
    <3> SUFFICES ASSUME NEW i \in 1 .. n - 1, NEW j \in 1 .. n - 1, tl[i] = tl[j]
                 PROVE  i = j
      OBVIOUS
    <3>1. i + 1 = j + 1
      BY <1>2, <1>8 DEF LinksFree
    <3> QED
      BY <3>1
  <2>4. ASSUME NEW x \in Slot, objects'[x] = Null
        PROVE  \E i \in 1 .. n - 1 : tl[i] = x
    <3>1. x # s /\ objects[x] = Null
      BY <1>3, <1>5, <1>6, <2>4
    <3>2. PICK j \in 1 .. n : fl[j] = x
      BY <1>2, <3>1 DEF LinksFree
    <3>3. j # 1
      BY <1>4, <3>1, <3>2
    <3>4. j - 1 \in 1 .. n - 1 /\ (j - 1) + 1 = j
      BY <3>3
    <3>5. tl[j - 1] = x
      BY <1>8, <3>2, <3>4
    <3> QED
      BY <3>4, <3>5
  <2> QED
    BY <2>1, <2>2, <2>3, <2>4 DEF LinksFree
<1>10. FreeListSound'
  BY <1>4, <1>7, <1>9, FreeListFormNext DEF HasFreeList
<1>11. TypeOK'
  <2>1. next_free_slot' \in 0 .. MaxCount
    <3>1. next_free_slot' \in Slot \cup {MaxCount}
      <4>1. n - 1 # 0 => 1 \in 1 .. n - 1
        BY <1>4
      <4> QED
        BY <1>7, <1>9, <4>1 DEF LinksFree
    <3> QED
      BY <3>1, WidthsAssumption DEF Slot
  <2>2. next_generation' \in 1 .. GenLimit - 1 /\ next_generation \in Nat
    BY <1>3, <1>6, WidthsAssumption DEF NextGeneration
  <2> QED
    BY <1>3, <1>5, <1>6, <2>1, <2>2 DEF TypeOK
<1> QED
  BY <1>10, <1>11 DEF TableInv

\* Close puts the closed slot in front of the list.
LEMMA CloseInv ==
  ASSUME TableInv, NEW handle \in Handle, Close(handle)
  PROVE  TableInv'
PROOF
<1>1. PICK n \in Nat : \E fl \in [1 .. n -> Slot] : LinksFree(fl, n)
  BY FreeListForm DEF TableInv, HasFreeList
<1>2. PICK fl \in [1 .. n -> Slot] : LinksFree(fl, n)
  BY <1>1
<1> DEFINE s == GetSlot(handle)
           hd == [i \in 1 .. n + 1 |-> IF i = 1 THEN s ELSE fl[i - 1]]
<1>3. /\ s < MaxCount /\ objects[s] # Null
      /\ objects' = [objects EXCEPT ![s] = Null]
      /\ generations' = [generations EXCEPT ![s] = next_free_slot]
      /\ next_free_slot' = s /\ next_generation' = next_generation
  BY DEF Close, IsValid
<1>4. s \in Slot
  <2>1. handle \in Nat /\ GenLimit \in Nat \ {0} /\ SlotMod \in Nat \ {0}
    BY WidthsAssumption DEF Handle
  <2>2. handle \div GenLimit \in Nat
    BY <2>1
  <2>3. s \in Nat
    BY <2>1, <2>2 DEF GetSlot
  <2> QED
    BY <1>3, <2>3, WidthsAssumption DEF Slot
<1>5. /\ objects \in [Slot -> Object \cup {Null}] /\ generations \in [Slot -> Nat]
      /\ next_free_slot \in 0 .. MaxCount
  BY DEF TableInv, TypeOK
<1> HIDE DEF s
<1>6. hd \in [1 .. n + 1 -> Slot] /\ n + 1 \in Nat
  BY <1>4
<1>7. /\ hd[1] = s
      /\ \A i \in 1 .. n : i + 1 \in 1 .. n + 1 /\ hd[i + 1] = fl[i] /\ fl[i] # s
                           /\ fl[i] \in Slot
  BY <1>2, <1>3 DEF LinksFree
<1>8. \A i \in 1 .. n + 1 : i = 1 \/ (i - 1 \in 1 .. n /\ i = (i - 1) + 1)
  OBVIOUS
<1> HIDE DEF hd
<1>9. LinksFree(hd, n + 1)'
  <2>1. next_free_slot' = IF n + 1 = 0 THEN MaxCount ELSE hd[1]
    BY <1>3, <1>7
  <2>2. ASSUME NEW i \in 1 .. n + 1
        PROVE  /\ objects'[hd[i]] = Null
               /\ generations'[hd[i]] = IF i = n + 1 THEN MaxCount ELSE hd[i + 1]
    <3>1. CASE i = 1
      <4>1. next_free_slot = IF n = 0 THEN MaxCount ELSE fl[1]
        BY <1>2 DEF LinksFree
      <4>2. n # 0 => hd[1 + 1] = fl[1]
        BY <1>7
      <4>3. objects'[s] = Null /\ generations'[s] = next_free_slot
        BY <1>3, <1>4, <1>5
      <4> QED
        BY <1>7, <3>1, <4>1, <4>2, <4>3
    <3>2. CASE i # 1
      <4>1. PICK j \in 1 .. n : i = j + 1
        BY <1>8, <3>2
      <4>2. /\ objects[fl[j]] = Null
            /\ generations[fl[j]] = IF j = n THEN MaxCount ELSE fl[j + 1]
        BY <1>2 DEF LinksFree
      <4>3. j # n => hd[i + 1] = fl[j + 1]
        BY <1>7, <4>1
      <4>4. hd[i] = fl[j] /\ fl[j] # s /\ fl[j] \in Slot
        BY <1>7, <4>1
      <4>5. objects'[fl[j]] = Null /\ generations'[fl[j]] = generations[fl[j]]
        BY <1>3, <1>5, <4>2, <4>4
      <4> QED
        BY <4>1, <4>2, <4>3, <4>4, <4>5
    <3> QED
      BY <3>1, <3>2
  <2>3. ASSUME NEW i \in 1 .. n + 1, NEW j \in 1 .. n + 1, hd[i] = hd[j] PROVE i = j
    <3>1. CASE i = 1 \/ j = 1
      BY <1>7, <1>8, <2>3, <3>1
    <3>2. CASE i # 1 /\ j # 1
      <4>1. i - 1 \in 1 .. n /\ j - 1 \in 1 .. n /\ fl[i - 1] = fl[j - 1]
        BY <1>7, <1>8, <2>3, <3>2
      <4>2. i - 1 = j - 1
        BY <1>2, <4>1 DEF LinksFree
      <4> QED
        BY <4>2
    <3> QED
      BY <3>1, <3>2
  <2>4. ASSUME NEW x \in Slot, objects'[x] = Null
        PROVE  \E i \in 1 .. n + 1 : hd[i] = x
    <3>1. CASE x = s
      BY <1>7, <3>1
    <3>2. CASE x # s
      <4>1. objects[x] = Null
        BY <1>3, <1>4, <1>5, <2>4, <3>2
      <4>2. PICK j \in 1 .. n : fl[j] = x
        BY <1>2, <4>1 DEF LinksFree
      <4> QED
        BY <1>7, <4>2
    <3> QED
      BY <3>1, <3>2
  <2> QED
    BY <2>1, <2>2, <2>3, <2>4 DEF LinksFree
<1>10. FreeListSound'
  BY <1>6, <1>9, FreeListFormNext DEF HasFreeList
<1>11. TypeOK'
  <2>1. next_free_slot' \in 0 .. MaxCount /\ next_free_slot \in Nat
    BY <1>3, <1>4, <1>5, WidthsAssumption DEF Slot
  <2> QED
    BY <1>3, <1>4, <1>5, <2>1 DEF TableInv, TypeOK
<1> QED
  BY <1>10, <1>11 DEF TableInv

-----------------------------------------------------------------------------
\* Every operation of the table keeps its invariant.
LEMMA TableInvNext ==
  ASSUME TableInv, [Next]_vars
  PROVE  TableInv'
PROOF
<1>1. ASSUME NEW obj \in Object, Create(obj) PROVE TableInv'
  BY <1>1, CreateInv
<1>2. ASSUME UNCHANGED vars PROVE TableInv'
  <2>1. PICK n \in Nat : \E fl \in [1 .. n -> Slot] : LinksFree(fl, n)
    BY FreeListForm DEF TableInv, HasFreeList
  <2>2. PICK fl \in [1 .. n -> Slot] : LinksFree(fl, n)
    BY <2>1
  <2>3. LinksFree(fl, n)'
    BY <1>2, <2>2 DEF vars, LinksFree
  <2>4. FreeListSound'
    BY <2>3, FreeListFormNext DEF HasFreeList
  <2> QED
    BY <1>2, <2>4 DEF vars, TableInv, TypeOK
<1>3. ASSUME NEW handle \in Handle, Duplicate(handle) PROVE TableInv'
  <2>1. GetGeneric(handle) \in Object \/ CreateFails
    <3>1. GetSlot(handle) \in Slot
      <4>1. handle \in Nat /\ GenLimit \in Nat \ {0} /\ SlotMod \in Nat \ {0}
        BY WidthsAssumption DEF Handle
      <4>2. handle \div GenLimit \in Nat
        BY <4>1
      <4>3. GetSlot(handle) \in Nat
        BY <4>1, <4>2 DEF GetSlot
      <4> QED
        BY <1>3, <4>3, WidthsAssumption DEF Duplicate, IsValid, Slot
    <3>2. objects[GetSlot(handle)] \in Object
      BY <1>3, <3>1 DEF Duplicate, IsValid, TableInv, TypeOK
    <3> QED
      BY <1>3, <3>2 DEF Duplicate, GetGeneric
  <2> QED
    BY <1>1, <1>2, <1>3, <2>1 DEF Duplicate, CreateFails
<1>4. ASSUME NEW handle \in Handle, Close(handle) PROVE TableInv'
  BY <1>4, CloseInv
<1>5. CASE Clear
  <2>1. Cleared' /\ (next_generation \in 1 .. GenLimit - 1)'
    BY <1>5 DEF Clear, Cleared, TableInv, TypeOK
  <2>2. (Cleared /\ next_generation \in 1 .. GenLimit - 1 => TableInv)'
    BY ClearedInv, PTL
  <2> QED
    BY <2>1, <2>2
<1> QED
  BY <1>1, <1>2, <1>3, <1>4, <1>5 DEF Next, CreateFails, InvalidHandle

\* The type invariant and the free list hold in every reachable state.
LEMMA TableInvariant == Spec => []TableInv
PROOF
<1>1. Init => TableInv
  BY ClearedInv, WidthsAssumption DEF Init, Cleared
<1>2. TableInv /\ [Next]_vars => TableInv'
  BY TableInvNext
<1> QED
  BY <1>1, <1>2, PTL DEF Spec

\* The list threaded through `generations` holds every free slot exactly once,
\* after any sequence of Create, Duplicate, Close and Clear: Create never hands
\* out a slot in use and fails only when the table is full.
THEOREM FreeListHolds == Spec => []FreeListSound
PROOF
<1>1. TableInv => FreeListSound
  BY DEF TableInv
<1> QED
  BY <1>1, TableInvariant, PTL

-----------------------------------------------------------------------------
(***************************************************************************)
(* The table implements the map of HandleMap.  That a new handle is not in  *)
(* use follows from the slot alone, as long as the generation of every slot *)
(* in use fits its field: else it would run over into the slot.             *)
(***************************************************************************)
LiveGenerations == \A s \in Slot : objects[s] # Null => generations[s] \in 1 .. GenLimit - 1

MapInv == TableInv /\ LiveGenerations

\* A number is taken apart into the fields it was made of.
LEMMA DivMod ==
  ASSUME NEW n \in Nat \ {0}, NEW s \in Nat, NEW g \in 0 .. n - 1
  PROVE  (g + s * n) \div n = s /\ (g + s * n) % n = g
PROOF
<1> DEFINE h == g + s * n
           q == h \div n
           r == h % n
<1>1. s * n \in Nat /\ h \in Nat
  OBVIOUS
<1>2. q \in Int /\ r \in 0 .. n - 1 /\ h = n * q + r
  BY <1>1
<1>3. g + s * n = n * q + r
  BY <1>2
<1> HIDE DEF h, q, r
<1>4. n * (s - q) = r - g
  BY <1>2, <1>3
<1>5. s - q >= 1 => n * (s - q) >= n
  BY <1>2
<1>6. s - q <= -1 => n * (s - q) <= - n
  BY <1>2
<1>7. s = q
  BY <1>2, <1>4, <1>5, <1>6
<1> QED
  BY <1>2, <1>3, <1>7 DEF q, r, h

\* GetSlot and GetGeneration undo MakeHandle, and a handle fits its type.
LEMMA HandleFields ==
  ASSUME NEW s \in Slot, NEW g \in 1 .. GenLimit - 1
  PROVE  /\ MakeHandle(s, g) \in Handle
         /\ GetSlot(MakeHandle(s, g)) = s
         /\ GetGeneration(MakeHandle(s, g)) = g
PROOF
<1>1. s \in Nat /\ s <= MaxCount - 1 /\ s < SlotMod /\ GenLimit \in Nat \ {0}
      /\ g \in 0 .. GenLimit - 1 /\ MaxCount \in Nat
  BY WidthsAssumption DEF Slot
<1>2. (g + s * GenLimit) \div GenLimit = s /\ (g + s * GenLimit) % GenLimit = g
  BY <1>1, DivMod
<1>3. s % SlotMod = s
  BY <1>1, WidthsAssumption
<1>4. g + s * GenLimit < MaxCount * GenLimit
  <2>1. (s + 1) * GenLimit <= MaxCount * GenLimit
    BY <1>1
  <2>2. (s + 1) * GenLimit = s * GenLimit + GenLimit /\ s * GenLimit \in Nat
        /\ MaxCount * GenLimit \in Nat
    BY <1>1
  <2> QED
    BY <1>1, <2>1, <2>2
<1>5. g + s * GenLimit \in Nat /\ MaxCount * GenLimit \in Nat
  BY <1>1
<1>6. g + s * GenLimit \in Handle
  BY <1>4, <1>5, WidthsAssumption DEF Handle
<1> QED
  BY <1>2, <1>3, <1>6 DEF MakeHandle, GetSlot, GetGeneration

\* The slot of a valid handle.
LEMMA ValidSlot ==
  ASSUME NEW handle \in Handle, IsValid(handle)
  PROVE  GetSlot(handle) \in Slot
PROOF
<1>1. handle \in Nat /\ GenLimit \in Nat \ {0} /\ SlotMod \in Nat \ {0}
  BY WidthsAssumption DEF Handle
<1>2. handle \div GenLimit \in Nat
  BY <1>1
<1>3. GetSlot(handle) \in Nat
  BY <1>1, <1>2 DEF GetSlot
<1> QED
  BY <1>3, WidthsAssumption DEF IsValid, Slot

\* The slot that Create takes is free.
LEMMA HeadIsFree ==
  ASSUME TableInv, next_free_slot < MaxCount
  PROVE  next_free_slot \in Slot /\ objects[next_free_slot] = Null
PROOF
<1>1. PICK n \in Nat : \E fl \in [1 .. n -> Slot] : LinksFree(fl, n)
  BY FreeListForm DEF TableInv, HasFreeList
<1>2. PICK fl \in [1 .. n -> Slot] : LinksFree(fl, n)
  BY <1>1
<1>3. next_free_slot = IF n = 0 THEN MaxCount ELSE fl[1]
  BY <1>2 DEF LinksFree
<1>4. n # 0 /\ 1 \in 1 .. n
  BY <1>3, WidthsAssumption
<1> QED
  BY <1>2, <1>3, <1>4 DEF LinksFree

\* The slots in use, by their handles.
LEMMA LiveSlots ==
  ASSUME MapInv, NEW s \in Slot, objects[s] # Null
  PROVE  /\ MakeHandle(s, generations[s]) \in LiveHandles
         /\ MakeHandle(s, generations[s]) \in Handle
         /\ GetSlot(MakeHandle(s, generations[s])) = s
PROOF
<1>1. generations[s] \in 1 .. GenLimit - 1
  BY DEF MapInv, LiveGenerations
<1>2. s \in Slot \ FreeSlots
  BY DEF FreeSlots
<1> QED
  BY <1>1, <1>2, HandleFields DEF LiveHandles

\* Create adds an entry under a handle that is not in use.
LEMMA CreateAdds ==
  ASSUME MapInv, NEW obj \in Object, Create(obj)
  PROVE  \E h \in Handle : Map!Add(h, obj)
PROOF
<1>1. PICK n \in Slot : n = next_free_slot /\ objects[n] = Null
  BY HeadIsFree DEF MapInv, Create
<1>2. PICK g \in 1 .. GenLimit - 1 : g = next_generation
  BY DEF MapInv, TableInv, TypeOK
<1>3. PICK h : h = MakeHandle(n, g)
  OBVIOUS
<1>4. h \in Handle /\ GetSlot(h) = n
  BY <1>3, HandleFields
<1>5. /\ objects \in [Slot -> Object \cup {Null}] /\ generations \in [Slot -> Nat]
      /\ objects' = [objects EXCEPT ![n] = obj]
      /\ generations' = [generations EXCEPT ![n] = g]
  BY <1>1, <1>2 DEF MapInv, TableInv, TypeOK, Create
<1>6. h \notin LiveHandles
  <2> SUFFICES ASSUME NEW s \in Slot \ FreeSlots, h = MakeHandle(s, generations[s]) PROVE FALSE
    BY DEF LiveHandles
  <2>1. GetSlot(h) = s
    BY LiveSlots DEF FreeSlots
  <2> QED
    BY <1>1, <1>4, <2>1 DEF FreeSlots
<1>7. \A s \in Slot : s # n => objects'[s] = objects[s] /\ generations'[s] = generations[s]
  BY <1>5
<1>8. objects'[n] = obj /\ obj # Null /\ generations'[n] = g
  BY <1>5, NullAssumption
<1>9. LiveHandles' = LiveHandles \cup {h}
  <2>1. \A s \in Slot : s \in FreeSlots' <=> s \in FreeSlots /\ s # n
    BY <1>1, <1>7, <1>8 DEF FreeSlots
  <2>2. LiveHandles' = {MakeHandle(s, generations'[s]) : s \in Slot \ FreeSlots'}
    BY DEF LiveHandles, MakeHandle
  <2>3. MakeHandle(n, generations'[n]) = h /\ n \in Slot \ FreeSlots'
    BY <1>3, <1>8, <2>1
  <2>4. n \notin Slot \ FreeSlots
    BY <1>1 DEF FreeSlots
  <2>5. \A s \in Slot \ FreeSlots' : s # n => s \in Slot \ FreeSlots
    BY <2>1
  <2> QED
    BY <1>7, <2>1, <2>2, <2>3, <2>4, <2>5 DEF LiveHandles
<1>10. \A k \in LiveHandles : objects'[GetSlot(k)] = objects[GetSlot(k)]
  <2> SUFFICES ASSUME NEW s \in Slot \ FreeSlots
               PROVE  objects'[GetSlot(MakeHandle(s, generations[s]))]
                        = objects[GetSlot(MakeHandle(s, generations[s]))]
    BY DEF LiveHandles
  <2>1. GetSlot(MakeHandle(s, generations[s])) = s /\ s # n
    BY <1>1, LiveSlots DEF FreeSlots
  <2> QED
    BY <1>7, <2>1
<1>11. Live' = [k \in LiveHandles \cup {h} |-> IF k = h THEN obj ELSE Live[k]]
  <2>1. Live' = [k \in LiveHandles' |-> objects'[GetSlot(k)]]
    BY DEF Live, GetSlot
  <2>2. \A k \in LiveHandles : Live[k] = objects[GetSlot(k)]
    BY DEF Live
  <2> QED
    BY <1>4, <1>8, <1>9, <1>10, <2>1, <2>2
<1>12. DOMAIN Live = LiveHandles
  BY DEF Live
<1> QED
  BY <1>4, <1>6, <1>11, <1>12 DEF Map!Add

\* Close removes the entry of the slot it frees.
LEMMA CloseRemoves ==
  ASSUME MapInv, NEW handle \in Handle, Close(handle)
  PROVE  \E h \in Handle : Map!Remove(h)
PROOF
<1>1. PICK n \in Slot : n = GetSlot(handle) /\ objects[n] # Null
  BY ValidSlot DEF Close, IsValid
<1>2. PICK h : h = MakeHandle(n, generations[n])
  OBVIOUS
<1>3. h \in LiveHandles /\ h \in Handle /\ GetSlot(h) = n
  BY <1>1, <1>2, LiveSlots
<1>4. /\ objects \in [Slot -> Object \cup {Null}] /\ generations \in [Slot -> Nat]
      /\ objects' = [objects EXCEPT ![n] = Null]
      /\ generations' = [generations EXCEPT ![n] = next_free_slot]
  BY <1>1 DEF MapInv, TableInv, TypeOK, Close
<1>5. \A s \in Slot : s # n => objects'[s] = objects[s] /\ generations'[s] = generations[s]
  BY <1>4
<1>6. objects'[n] = Null
  BY <1>4
<1>7. \A s \in Slot \ FreeSlots :
        /\ MakeHandle(s, generations[s]) = h <=> s = n
        /\ GetSlot(MakeHandle(s, generations[s])) = s
  BY <1>2, <1>3, LiveSlots DEF FreeSlots
<1>8. LiveHandles' = LiveHandles \ {h}
  <2>1. Slot \ FreeSlots' = (Slot \ FreeSlots) \ {n}
    BY <1>5, <1>6 DEF FreeSlots
  <2>2. LiveHandles' = {MakeHandle(s, generations'[s]) : s \in Slot \ FreeSlots'}
    BY DEF LiveHandles, MakeHandle
  <2> QED
    BY <1>5, <1>7, <2>1, <2>2 DEF LiveHandles
<1>9. \A k \in LiveHandles : k # h => objects'[GetSlot(k)] = objects[GetSlot(k)]
  <2> SUFFICES ASSUME NEW s \in Slot \ FreeSlots, MakeHandle(s, generations[s]) # h
               PROVE  objects'[GetSlot(MakeHandle(s, generations[s]))]
                        = objects[GetSlot(MakeHandle(s, generations[s]))]
    BY DEF LiveHandles
  <2> QED
    BY <1>5, <1>7
<1>10. Live' = [k \in LiveHandles \ {h} |-> Live[k]]
  <2>1. Live' = [k \in LiveHandles' |-> objects'[GetSlot(k)]]
    BY DEF Live, GetSlot
  <2>2. \A k \in LiveHandles : Live[k] = objects[GetSlot(k)]
    BY DEF Live
  <2> QED
    BY <1>8, <1>9, <2>1, <2>2
<1>11. DOMAIN Live = LiveHandles
  BY DEF Live
<1> QED
  BY <1>3, <1>10, <1>11 DEF Map!Remove

\* Without an object there is no handle.
LEMMA NothingLive ==
  ASSUME objects = [i \in Slot |-> Null]
  PROVE  LiveHandles = {}
PROOF
  BY DEF LiveHandles, FreeSlots

\* A step of the table is a step of the map or leaves it alone.
LEMMA TableStep ==
  ASSUME MapInv, [Next]_vars
  PROVE  [Map!MapNext]_Live
PROOF
<1>1. ASSUME NEW obj \in Object, Create(obj) PROVE Map!MapNext
  BY <1>1, CreateAdds DEF Map!MapNext
<1>2. ASSUME UNCHANGED vars PROVE UNCHANGED Live
  BY <1>2 DEF vars, Live, LiveHandles, FreeSlots, GetSlot, MakeHandle
<1>3. ASSUME NEW handle \in Handle, Duplicate(handle) PROVE [Map!MapNext]_Live
  <2>1. CASE CreateFails
    BY <1>2, <2>1 DEF CreateFails
  <2>2. CASE Create(GetGeneric(handle))
    <3>1. GetSlot(handle) \in Slot
      BY <1>3, ValidSlot DEF Duplicate
    <3>2. GetGeneric(handle) \in Object
      BY <1>3, <3>1 DEF Duplicate, GetGeneric, IsValid, MapInv, TableInv, TypeOK
    <3> QED
      BY <1>1, <2>2, <3>2
  <2> QED
    BY <1>3, <2>1, <2>2 DEF Duplicate
<1>4. ASSUME NEW handle \in Handle, Close(handle) PROVE Map!MapNext
  BY <1>4, CloseRemoves DEF Map!MapNext
<1>5. CASE Clear
  <2>1. (objects = [i \in Slot |-> Null])'
    BY <1>5 DEF Clear
  <2>2. (objects = [i \in Slot |-> Null] => LiveHandles = {})'
    BY NothingLive, PTL
  <2>3. LiveHandles' = {}
    BY <2>1, <2>2
  <2>4. Live' = [k \in LiveHandles' |-> objects'[GetSlot(k)]]
    BY DEF Live, GetSlot
  <2>5. DOMAIN Live' = {} /\ Live' = [k \in {} |-> k]
    BY <2>3, <2>4
  <2> QED
    BY <2>5 DEF Map!MapNext, Map!RemoveAll
<1> QED
  BY <1>1, <1>2, <1>3, <1>4, <1>5 DEF Next, CreateFails, InvalidHandle

\* Generations of slots in use stay in their field.
LEMMA MapInvNext ==
  ASSUME MapInv, [Next]_vars
  PROVE  MapInv'
PROOF
<1>1. TableInv'
  BY TableInvNext DEF MapInv
<1>2. ASSUME NEW obj, Create(obj) PROVE LiveGenerations'
  BY <1>2, HeadIsFree DEF MapInv, TableInv, TypeOK, Create, LiveGenerations
<1>3. ASSUME NEW handle \in Handle, Close(handle) PROVE LiveGenerations'
  BY <1>3, ValidSlot DEF MapInv, TableInv, TypeOK, Close, LiveGenerations
<1>4. ASSUME Clear PROVE LiveGenerations'
  BY <1>4 DEF Clear, LiveGenerations
<1>5. ASSUME UNCHANGED vars PROVE LiveGenerations'
  BY <1>5 DEF vars, MapInv, LiveGenerations
<1>6. LiveGenerations'
  BY <1>2, <1>3, <1>4, <1>5 DEF Next, Duplicate, CreateFails, InvalidHandle
<1> QED
  BY <1>1, <1>6 DEF MapInv

\* The table implements HandleMap (ImplementsMap) for any number of slots and any widths:
\* Create and Duplicate add one entry under an unused handle, Close removes exactly the
\* entry of its slot, Clear removes all, and no operation disturbs another lookup.
THEOREM TableImplementsMap == Spec => ImplementsMap
PROOF
<1>1. Init => MapInv
  <2>1. Init => TableInv
    BY ClearedInv, WidthsAssumption DEF Init
  <2> QED
    BY <2>1 DEF Init, Cleared, MapInv, LiveGenerations
<1>2. MapInv /\ [Next]_vars => MapInv'
  BY MapInvNext
<1>3. Init => Map!MapInit
  <2> SUFFICES ASSUME Init PROVE DOMAIN Live = {}
    BY DEF Map!MapInit
  <2>1. LiveHandles = {}
    BY NothingLive DEF Init, Cleared
  <2> QED
    BY <2>1 DEF Live
<1>4. MapInv /\ [Next]_vars => [Map!MapNext]_Live
  BY TableStep
<1> QED
  BY <1>1, <1>2, <1>3, <1>4, PTL DEF Spec, ImplementsMap, Map!MapSpec

-----------------------------------------------------------------------------
(***************************************************************************)
(* Closed handles stay invalid.  The generations of the last handles that   *)
(* were issued count down from next_generation, so that within a round of   *)
(* the counter a slot that is used again has another generation.            *)
(***************************************************************************)
\* The generation k issues before g.
Before(g, k) == IF g - k >= 1 THEN g - k ELSE g - k + GenLimit - 1

CountedDown(s, g) ==
  \A i \in 1 .. Len(s) : GetGeneration(s[i]) = Before(g, Len(s) + 1 - i)

HistoryInv ==
  /\ recent \in Seq(Handle) /\ Len(recent) <= Window
  /\ CountedDown(recent, next_generation)
  /\ closed \subseteq {recent[i] : i \in 1 .. Len(recent)}
  /\ StaleHandlesInvalid

\* A step with the history is a step of the table.
LEMMA HistoryStep ==
  ASSUME MapInv, MCNext
  PROVE  Next
PROOF
<1>1. ASSUME NEW handle \in LiveHandles PROVE handle \in Handle
  <2>1. PICK s \in Slot \ FreeSlots : handle = MakeHandle(s, generations[s])
    BY DEF LiveHandles
  <2> QED
    BY <2>1, LiveSlots DEF FreeSlots
<1> QED
  BY <1>1 DEF MCNext, Next

\* What was issued within a round of the counter has another generation.
LEMMA OtherGeneration ==
  ASSUME MapInv, HistoryInv, NEW h \in closed
  PROVE  h \in Handle /\ GetGeneration(h) # next_generation
PROOF
<1>1. PICK i \in 1 .. Len(recent) : h = recent[i]
  BY DEF HistoryInv
<1>2. GetGeneration(h) = Before(next_generation, Len(recent) + 1 - i)
  BY <1>1 DEF HistoryInv, CountedDown
<1>3. Len(recent) \in Nat /\ Len(recent) <= GenLimit - 2
  BY DEF HistoryInv, Window
<1>4. next_generation \in 1 .. GenLimit - 1
  BY DEF MapInv, TableInv, TypeOK
<1>5. Before(next_generation, Len(recent) + 1 - i) # next_generation
  BY <1>3, <1>4, WidthsAssumption DEF Before
<1>6. h \in Handle
  BY <1>1 DEF HistoryInv
<1> QED
  BY <1>2, <1>5, <1>6

\* The slot field of a handle, when it passes the range check, is a slot.
LEMMA SlotInRange ==
  ASSUME NEW h \in Handle, GetSlot(h) < MaxCount
  PROVE  GetSlot(h) \in Slot
PROOF
<1>1. h \in Nat /\ GenLimit \in Nat \ {0} /\ SlotMod \in Nat \ {0}
  BY WidthsAssumption DEF Handle
<1>2. h \div GenLimit \in Nat
  BY <1>1
<1>3. GetSlot(h) \in Nat
  BY <1>1, <1>2 DEF GetSlot
<1> QED
  BY <1>3, WidthsAssumption DEF Slot

\* A lookup that fails goes on failing after a step that reuses no slot of its.
LEMMA StaysInvalid ==
  ASSUME MapInv, NEW h \in Handle, ~ IsValid(h),
         \A s \in Slot : objects'[s] # Null =>
           \/ objects[s] # Null /\ generations'[s] = generations[s]
           \/ generations'[s] # GetGeneration(h)
  PROVE  ~ IsValid(h)'
PROOF
<1> SUFFICES ASSUME IsValid(h)' PROVE FALSE
  OBVIOUS
<1>1. /\ GetSlot(h) < MaxCount /\ objects'[GetSlot(h)] # Null
      /\ generations'[GetSlot(h)] = GetGeneration(h)
  BY DEF IsValid, GetSlot, GetGeneration
<1>2. GetSlot(h) \in Slot
  BY <1>1, SlotInRange
<1> QED
  BY <1>1, <1>2 DEF IsValid

\* Remembering a new handle keeps the count of the generations.
LEMMA RememberCounts ==
  ASSUME MapInv, HistoryInv, Remember, Issued \in Handle,
         GetGeneration(Issued) = next_generation,
         next_generation' = NextGeneration(next_generation)
  PROVE  recent' \in Seq(Handle) /\ Len(recent') <= Window
         /\ CountedDown(recent', next_generation')
PROOF
<1> DEFINE all == Append(recent, Issued)
<1>1. recent \in Seq(Handle) /\ Len(recent) \in Nat /\ Len(recent) <= Window
  BY DEF HistoryInv
<1>2. /\ all \in Seq(Handle) /\ Len(all) = Len(recent) + 1
      /\ \A i \in 1 .. Len(recent) : all[i] = recent[i]
      /\ all[Len(recent) + 1] = Issued
  BY <1>1
<1>3. next_generation \in 1 .. GenLimit - 1 /\ Window = GenLimit - 2
  BY DEF MapInv, TableInv, TypeOK, Window
<1>4. next_generation' \in 1 .. GenLimit - 1
  BY <1>3, WidthsAssumption DEF NextGeneration
<1>5. recent' = IF Len(all) > Window THEN Tail(all) ELSE all
  BY DEF Remember
<1> HIDE DEF all
<1>6. CountedDown(all, next_generation')
  <2> SUFFICES ASSUME NEW i \in 1 .. Len(all)
               PROVE  GetGeneration(all[i]) = Before(next_generation', Len(all) + 1 - i)
    BY DEF CountedDown
  <2>1. CASE i = Len(recent) + 1
    <3>1. Before(next_generation', 1) = next_generation
      BY <1>3, WidthsAssumption DEF Before, NextGeneration
    <3>2. Len(all) + 1 - i = 1
      BY <1>1, <1>2, <2>1
    <3> QED
      BY <1>2, <2>1, <3>1, <3>2
  <2>2. CASE i \in 1 .. Len(recent)
    <3>1. GetGeneration(all[i]) = Before(next_generation, Len(recent) + 1 - i)
      BY <1>2, <2>2 DEF HistoryInv, CountedDown
    <3>2. PICK k \in 1 .. GenLimit - 2 : k = Len(recent) + 1 - i
      <4>1. Len(recent) + 1 - i \in 1 .. GenLimit - 2
        BY <1>1, <1>3, <2>2, WidthsAssumption
      <4> QED
        BY <4>1
    <3>3. Len(all) + 1 - i = k + 1
      BY <1>1, <1>2, <3>2
    <3>4. Before(next_generation', k + 1) = Before(next_generation, k)
      BY <1>3, WidthsAssumption DEF Before, NextGeneration
    <3> QED
      BY <3>1, <3>2, <3>3, <3>4
  <2> QED
    BY <1>1, <1>2, <2>1, <2>2
<1>7. CASE Len(all) <= Window
  BY <1>1, <1>2, <1>3, <1>5, <1>6, <1>7, WidthsAssumption
<1>8. CASE ~ (Len(all) <= Window)
  <2>1. recent' = Tail(all) /\ Len(all) = Window + 1 /\ all # << >>
    BY <1>1, <1>2, <1>3, <1>5, <1>8, WidthsAssumption
  <2>2. /\ Tail(all) \in Seq(Handle) /\ Len(Tail(all)) = Len(all) - 1
        /\ \A i \in 1 .. Len(all) - 1 : Tail(all)[i] = all[i + 1]
    BY <1>2, <2>1
  <2>3. CountedDown(recent', next_generation')
    <3> SUFFICES ASSUME NEW i \in 1 .. Len(recent')
                 PROVE  GetGeneration(recent'[i]) = Before(next_generation', Len(recent') + 1 - i)
      BY DEF CountedDown
    <3>1. i + 1 \in 1 .. Len(all) /\ Len(all) + 1 - (i + 1) = Len(recent') + 1 - i
          /\ recent'[i] = all[i + 1]
      BY <1>1, <1>2, <2>1, <2>2
    <3> QED
      BY <1>6, <3>1 DEF CountedDown
  <2> QED
    BY <1>1, <1>3, <2>1, <2>2, <2>3, WidthsAssumption
<1> QED
  BY <1>7, <1>8

\* ToSet of a history is the set of its members.
LEMMA HistorySet ==
  ASSUME NEW s \in Seq(Handle)
  PROVE  ToSet(s) = {s[i] : i \in 1 .. Len(s)}
PROOF
  BY DEF ToSet

\* The history is kept by every step of the table.
LEMMA HistoryNext ==
  ASSUME MapInv, HistoryInv, [MCNext]_mcvars
  PROVE  HistoryInv'
PROOF
<1>1. /\ recent \in Seq(Handle) /\ Len(recent) <= Window
      /\ CountedDown(recent, next_generation)
      /\ closed \subseteq {recent[i] : i \in 1 .. Len(recent)}
      /\ \A h \in closed : ~ IsValid(h)
  BY DEF HistoryInv, StaleHandlesInvalid
<1>2. /\ objects \in [Slot -> Object \cup {Null}] /\ generations \in [Slot -> Nat]
      /\ next_generation \in 1 .. GenLimit - 1
  BY DEF MapInv, TableInv, TypeOK
<1>3. \A h \in closed : h \in Handle
  BY <1>1
<1>4. ASSUME NEW obj, Create(obj), Remember, closed' = closed \cap ToSet(recent')
      PROVE  HistoryInv'
  <2>1. next_free_slot \in Slot /\ objects[next_free_slot] = Null
    BY <1>4, HeadIsFree DEF MapInv, Create
  <2>2. Issued \in Handle /\ GetGeneration(Issued) = next_generation
    BY <1>2, <2>1, HandleFields DEF Issued
  <2>3. /\ recent' \in Seq(Handle) /\ Len(recent') <= Window
        /\ CountedDown(recent', next_generation')
    BY <1>4, <2>2, RememberCounts DEF Create
  <2>4. closed' \subseteq {recent'[i] : i \in 1 .. Len(recent')}
    BY <1>4, <2>3, HistorySet
  <2>5. ASSUME NEW h \in closed' PROVE ~ IsValid(h)'
    <3>1. h \in closed /\ h \in Handle /\ GetGeneration(h) # next_generation
      BY <1>4, <2>5, OtherGeneration
    <3>2. \A s \in Slot : objects'[s] # Null =>
            \/ objects[s] # Null /\ generations'[s] = generations[s]
            \/ generations'[s] # GetGeneration(h)
      BY <1>2, <1>4, <2>1, <3>1 DEF Create
    <3> QED
      BY <1>1, <3>1, <3>2, StaysInvalid
  <2>6. StaleHandlesInvalid'
    BY <2>5 DEF StaleHandlesInvalid
  <2>7. Window' = Window
    BY DEF Window
  <2>8. CountedDown(recent, next_generation)'
    BY <2>3 DEF CountedDown, GetGeneration, Before
  <2> QED
    BY <2>3, <2>4, <2>6, <2>7, <2>8 DEF HistoryInv
<1>5. ASSUME UNCHANGED <<vars, recent, closed>> PROVE HistoryInv'
  BY <1>1, <1>5 DEF vars, HistoryInv, StaleHandlesInvalid, IsValid, CountedDown, Window, Before,
                    GetSlot, GetGeneration
<1>6. ASSUME UNCHANGED <<next_generation, recent>>,
             closed' \subseteq {recent[i] : i \in 1 .. Len(recent)},
             \A h \in closed' : ~ IsValid(h)'
      PROVE  HistoryInv'
  <2>1. StaleHandlesInvalid'
    BY <1>6 DEF StaleHandlesInvalid
  <2>2. CountedDown(recent, next_generation)'
    BY <1>1, <1>6 DEF CountedDown, GetGeneration, Before
  <2> QED
    BY <1>1, <1>6, <2>1, <2>2 DEF HistoryInv, Window
<1>7. ASSUME NEW handle \in Handle, Close(handle), UNCHANGED recent,
             closed' = closed \cup ({MakeHandle(GetSlot(handle), GetGeneration(handle))}
                                      \cap ToSet(recent))
      PROVE  HistoryInv'
  <2>1. PICK n \in Slot : n = GetSlot(handle)
    BY <1>7, ValidSlot DEF Close
  <2>2. /\ objects' = [objects EXCEPT ![n] = Null]
        /\ generations' = [generations EXCEPT ![n] = next_free_slot]
        /\ generations[n] = GetGeneration(handle) /\ objects[n] # Null
        /\ UNCHANGED next_generation
    BY <1>7, <2>1 DEF Close, IsValid
  <2>3. ToSet(recent) = {recent[i] : i \in 1 .. Len(recent)}
    BY <1>1, HistorySet
  <2>4. GetSlot(MakeHandle(n, GetGeneration(handle))) = n
    BY <2>2, HandleFields DEF MapInv, LiveGenerations
  <2>5. ~ IsValid(MakeHandle(n, GetGeneration(handle)))'
    <3>1. objects'[n] = Null
      BY <1>2, <2>2
    <3>2. PICK x : x = MakeHandle(n, GetGeneration(handle)) /\ GetSlot(x) = n
      BY <2>4
    <3>3. ~ IsValid(x)'
      BY <3>1, <3>2 DEF IsValid, GetSlot
    <3> QED
      BY <3>2, <3>3 DEF MakeHandle, GetGeneration
  <2>6. ASSUME NEW h \in closed PROVE ~ IsValid(h)'
    <3>1. \A s \in Slot : objects'[s] # Null =>
            objects[s] # Null /\ generations'[s] = generations[s]
      BY <1>2, <2>2
    <3> QED
      BY <1>1, <1>3, <3>1, StaysInvalid
  <2>7. closed' \subseteq {recent[i] : i \in 1 .. Len(recent)}
    BY <1>1, <1>7, <2>3
  <2>8. ASSUME NEW h \in closed' PROVE ~ IsValid(h)'
    <3>1. h \in closed \/ h = MakeHandle(n, GetGeneration(handle))
      BY <1>7, <2>1, <2>8
    <3> QED
      BY <2>5, <2>6, <3>1
  <2> QED
    BY <1>6, <1>7, <2>2, <2>7, <2>8
<1>8. ASSUME Clear, UNCHANGED recent, closed' = closed \cup (LiveHandles \cap ToSet(recent))
      PROVE  HistoryInv'
  <2>1. ToSet(recent) = {recent[i] : i \in 1 .. Len(recent)}
    BY <1>1, HistorySet
  <2>2. closed' \subseteq {recent[i] : i \in 1 .. Len(recent)}
    BY <1>1, <1>8, <2>1
  <2>3. \A s \in Slot : objects'[s] = Null
    BY <1>8 DEF Clear
  <2>4. ASSUME NEW h \in closed' PROVE ~ IsValid(h)'
    <3>1. h \in Handle
      BY <1>1, <2>2, <2>4
    <3>2. ASSUME IsValid(h)' PROVE FALSE
      <4>1. GetSlot(h) < MaxCount /\ objects'[GetSlot(h)] # Null
        BY <3>2 DEF IsValid, GetSlot, GetGeneration
      <4>2. GetSlot(h) \in Slot
        BY <3>1, <4>1, SlotInRange
      <4> QED
        BY <2>3, <4>1, <4>2
    <3> QED
      BY <3>2
  <2> QED
    BY <1>6, <1>8, <2>2, <2>4 DEF Clear
<1>9. ASSUME NEW handle \in LiveHandles, Duplicate(handle), next_free_slot < MaxCount
      PROVE  \E obj : Create(obj)
  BY <1>9 DEF Duplicate, CreateFails
<1>10. ASSUME NEW handle \in LiveHandles, Duplicate(handle), ~ next_free_slot < MaxCount
       PROVE  UNCHANGED vars
  BY <1>10 DEF Duplicate, CreateFails, Create
<1> QED
  BY <1>4, <1>5, <1>7, <1>8, <1>9, <1>10 DEF MCNext, mcvars, CreateFails, InvalidHandle

\* A handle that Close or Clear made invalid stays invalid until the generation
\* counter has gone once round (StaleHandlesInvalid), for any number of slots and any
\* width of the generation.
THEOREM StaleHandlesHold == MCSpec => []StaleHandlesInvalid
PROOF
<1>1. MCInit => MapInv /\ HistoryInv
  <2>1. Init => TableInv
    BY ClearedInv, WidthsAssumption DEF Init
  <2>2. Init => MapInv
    BY <2>1 DEF Init, Cleared, MapInv, LiveGenerations
  <2>3. recent = << >> /\ closed = {} => HistoryInv
    BY WidthsAssumption DEF HistoryInv, StaleHandlesInvalid, CountedDown, Window
  <2> QED
    BY <2>2, <2>3 DEF MCInit
<1>2. (MapInv /\ HistoryInv) /\ [MCNext]_mcvars => (MapInv /\ HistoryInv)'
  <2> SUFFICES ASSUME MapInv, HistoryInv, [MCNext]_mcvars PROVE MapInv' /\ HistoryInv'
    OBVIOUS
  <2>1. [Next]_vars
    BY HistoryStep DEF mcvars
  <2> QED
    BY <2>1, MapInvNext, HistoryNext
<1>3. HistoryInv => StaleHandlesInvalid
  BY DEF HistoryInv
<1> QED
  BY <1>1, <1>2, <1>3, PTL DEF MCSpec
=============================================================================
