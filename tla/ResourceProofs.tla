--------------------------- MODULE ResourceProofs ---------------------------
(***************************************************************************)
(* The resource limit counts what exists, and threads have thread-local    *)
(* storage of their own, for any number of processes, objects and kinds.   *)
(*                                                                         *)
(* The counters change by what a step reserves and releases, so the proof  *)
(* compares that number with how the set of existing objects changes.      *)
(* Which objects a step destroys depends on the handle tables of all       *)
(* processes; that a thread is released once, by Thread::Stop, and not     *)
(* again by the step that destroys it, needs that a thread which has not   *)
(* stopped exists and belongs to a process that does.                      *)
(***************************************************************************)
EXTENDS ProcessResources, FiniteSetTheorems, WellFoundedInduction, TLAPS

\* What the parameters stand for.
Parameters ==
  /\ IsFiniteSet(Object) /\ {"Thread", "SharedMemory"} \subseteq Kind
  /\ SlotsPerPage \in Nat \ {0}
  /\ None \notin Kind /\ None \notin Nat

ResourceTypes ==
  /\ current \in [Kind -> Int]
  /\ kind \in [Object -> Kind \cup {None}]
  /\ owner \in [Object -> Process \cup {None}]
  /\ handles \in [Process -> SUBSET Object]
  /\ status \in [Object -> {"Ready", "Dead", "NoTLS"}]
  /\ tls \in [Object -> Nat \cup {None}]
  /\ pages \in [Process -> Nat]
  /\ alive \subseteq Process

\* A thread that has not stopped exists, and so does its process.
RunningExist == \A o \in Object : status[o] # "Dead" => kind[o] = "Thread" /\ owner[o] \in alive

\* A block of shared memory finds the limit it has to give its unit back to.
SharedOwned ==
  ~ LeavesShared => \A o \in Object : kind[o] = "SharedMemory" => owner[o] \in alive

CountsFaithful ==
  \A k \in Kind : /\ current[k] >= Cardinality(Live(k))
                  /\ Faultless(k) => current[k] = Cardinality(Live(k))

\* Slots are held by the threads that run, each by one, on a page of its process.
SlotsHeld ==
  /\ \A t \in Object : status[t] # "Ready" => tls[t] = None
  /\ \A t \in Object : status[t] = "Ready" =>
       tls[t] \in Nat /\ tls[t] < pages[owner[t]] * SlotsPerPage
  /\ \A t, u \in Object : status[t] = "Ready" /\ status[u] = "Ready" /\ t # u
                          /\ owner[t] = owner[u] => tls[t] # tls[u]
  /\ "Thread" \notin MayFail => \A t \in Object : status[t] # "NoTLS"

ResourceInv == ResourceTypes /\ RunningExist /\ SharedOwned /\ CountsFaithful /\ SlotsHeld

-----------------------------------------------------------------------------
\* The least of a set of slots.
LEMMA MinSlot ==
  ASSUME NEW S, S \subseteq Nat, S # {}
  PROVE  Min(S) \in S
PROOF
<1>1. PICK p \in S : \A q \in S : ~ (<<q, p>> \in OpToRel(<, Nat))
  BY WFMin, NatLessThanWellFounded
<1>2. \A q \in S : p <= q
  <2>1. TAKE q \in S
  <2>2. p \in Nat /\ q \in Nat
    OBVIOUS
  <2>3. ~ (q < p)
    BY <1>1, <2>2 DEF OpToRel
  <2> QED
    BY <2>2, <2>3
<1> QED
  BY <1>2 DEF Min

\* One page holds SlotsPerPage slots more.
LEMMA OnePageMore ==
  ASSUME NEW n \in Nat, NEW s \in Nat \ {0}
  PROVE  n * s \in Nat /\ (n + 1) * s \in Nat /\ n * s < (n + 1) * s
PROOF
<1>1. (n + 1) * s = (n * s) + s
  BY SMT
<1>2. n * s \in Nat
  BY SMT
<1> QED
  BY <1>1, <1>2

\* The objects that exist are finitely many.
LEMMA LiveFinite ==
  ASSUME Parameters, NEW k
  PROVE  IsFiniteSet(Live(k)) /\ Cardinality(Live(k)) \in Nat
PROOF
<1>1. Live(k) \in SUBSET Object
  BY DEF Live
<1> QED
  BY <1>1, FS_Subset, FS_CardinalityType DEF Parameters

\* The initial states: nothing exists.
LEMMA ResourceInvInit ==
  ASSUME Parameters, Init
  PROVE  ResourceInv
PROOF
<1>1. ResourceTypes
  BY DEF Init, ResourceTypes
<1>2. RunningExist /\ SharedOwned /\ SlotsHeld
  BY DEF Init, RunningExist, SharedOwned, SlotsHeld, Parameters
<1>3. CountsFaithful
  <2> SUFFICES ASSUME NEW k \in Kind PROVE current[k] = Cardinality(Live(k))
    BY DEF CountsFaithful, Init
  <2>1. Live(k) = {}
    BY DEF Live, Init, Parameters
  <2> QED
    BY <2>1, FS_EmptySet DEF Init
<1> QED
  BY <1>1, <1>2, <1>3 DEF ResourceInv

-----------------------------------------------------------------------------
\* A new object adds one to what exists of its kind.
LEMMA OneMoreLives ==
  ASSUME Parameters, ResourceInv, NEW o \in Object, kind[o] = None, NEW k \in Kind,
         kind' = [kind EXCEPT ![o] = k], current' = [current EXCEPT ![k] = @ + 1],
         \A u \in Object : u # o => status'[u] = status[u],
         k = "Thread" => status'[o] # "Dead"
  PROVE  CountsFaithful'
PROOF
<1> SUFFICES ASSUME NEW j \in Kind
    PROVE  /\ current'[j] >= Cardinality(Live(j)')
           /\ Faultless(j) => current'[j] = Cardinality(Live(j)')
  BY DEF CountsFaithful, Faultless
<1>1. /\ current[j] >= Cardinality(Live(j)) /\ current[j] \in Int
      /\ Faultless(j) => current[j] = Cardinality(Live(j))
  BY DEF ResourceInv, CountsFaithful, ResourceTypes
<1>2. IsFiniteSet(Live(j)) /\ Cardinality(Live(j)) \in Nat
  BY LiveFinite
<1>3. kind'[o] = k /\ \A u \in Object : u # o => kind'[u] = kind[u]
  BY DEF ResourceInv, ResourceTypes
<1>4. o \notin Live(j)
  BY DEF Live, Parameters
<1>5. CASE j = k
  <2>1. Live(j)' = Live(j) \cup {o}
    BY <1>3, <1>5 DEF Live
  <2>2. Cardinality(Live(j)') = Cardinality(Live(j)) + 1
    BY <1>2, <1>4, <2>1, FS_AddElement
  <2>3. current'[j] = current[j] + 1
    BY <1>5 DEF ResourceInv, ResourceTypes
  <2> QED
    BY <1>1, <1>2, <2>2, <2>3
<1>6. CASE j # k
  <2>1. Live(j)' = Live(j)
    BY <1>3, <1>4, <1>6 DEF Live
  <2>2. current'[j] = current[j]
    BY <1>6 DEF ResourceInv, ResourceTypes
  <2> QED
    BY <1>1, <2>1, <2>2
<1> QED
  BY <1>5, <1>6

\* CreateMutex and the other calls that create an object with a handle.
LEMMA CreateObjectKeeps ==
  ASSUME Parameters, ResourceInv, NEW p \in Process, NEW o \in Object, NEW k \in Kind,
         CreateObject(p, o, k)
  PROVE  ResourceInv'
PROOF
<1>1. /\ kind[o] = None /\ k # "Thread" /\ p \in alive
      /\ kind' = [kind EXCEPT ![o] = k] /\ current' = [current EXCEPT ![k] = @ + 1]
      /\ owner' = [owner EXCEPT ![o] = p] /\ handles' = [handles EXCEPT ![p] = @ \cup {o}]
      /\ UNCHANGED <<status, tls, pages, alive>>
  BY DEF CreateObject, Reserve, Running
<1>2. ResourceTypes'
  BY <1>1 DEF ResourceInv, ResourceTypes
<1>3. status[o] = "Dead"
  BY <1>1 DEF ResourceInv, RunningExist, Parameters
<1>4. /\ kind'[o] = k /\ owner'[o] = p
      /\ \A u \in Object : u # o => kind'[u] = kind[u] /\ owner'[u] = owner[u]
  BY <1>1 DEF ResourceInv, ResourceTypes
<1>5. RunningExist'
  BY <1>1, <1>3, <1>4 DEF ResourceInv, RunningExist
<1>6. SharedOwned'
  BY <1>1, <1>4 DEF ResourceInv, SharedOwned
<1>7. CountsFaithful'
  BY <1>1, OneMoreLives
<1>8. SlotsHeld'
  BY <1>1, <1>3, <1>4 DEF ResourceInv, SlotsHeld
<1> QED
  BY <1>2, <1>5, <1>6, <1>7, <1>8 DEF ResourceInv

\* An error of a constructor: the unit that was reserved is lost.
LEMMA CreateFailsKeeps ==
  ASSUME Parameters, ResourceInv, NEW p \in Process, NEW k \in Kind, CreateFails(p, k)
  PROVE  ResourceInv'
PROOF
<1>1. /\ k \in MayFail /\ current' = [current EXCEPT ![k] = @ + 1]
      /\ UNCHANGED <<kind, owner, handles, status, tls, pages, alive>>
  BY DEF CreateFails, Reserve
<1>2. ResourceTypes'
  BY <1>1 DEF ResourceInv, ResourceTypes
<1>3. RunningExist' /\ SharedOwned' /\ SlotsHeld'
  BY <1>1 DEF ResourceInv, RunningExist, SharedOwned, SlotsHeld
<1>4. CountsFaithful'
  <2> SUFFICES ASSUME NEW j \in Kind
      PROVE  /\ current'[j] >= Cardinality(Live(j)')
             /\ Faultless(j) => current'[j] = Cardinality(Live(j)')
    BY DEF CountsFaithful, Faultless
  <2>1. Live(j)' = Live(j)
    BY <1>1 DEF Live
  <2>2. Cardinality(Live(j)) \in Nat
    BY LiveFinite
  <2>3. /\ current[j] >= Cardinality(Live(j)) /\ current[j] \in Int
        /\ Faultless(j) => current[j] = Cardinality(Live(j)) /\ j # k
    BY <1>1 DEF ResourceInv, CountsFaithful, ResourceTypes, Faultless
  <2>4. current'[j] = IF j = k THEN current[j] + 1 ELSE current[j]
    BY <1>1 DEF ResourceInv, ResourceTypes
  <2> QED
    BY <2>1, <2>2, <2>3, <2>4
<1> QED
  BY <1>2, <1>3, <1>4 DEF ResourceInv

\* AllocateThreadLocalStorage gives a slot no other thread of the process has,
\* on a page the process has or is given.
LEMMA SlotIsFree ==
  ASSUME Parameters, ResourceInv, NEW p \in Process, NEW o \in Object, NEW slot, NEW more,
         slot = IF FreeSlots(p) # {} THEN Min(FreeSlots(p)) ELSE pages[p] * SlotsPerPage,
         more = IF FreeSlots(p) # {} THEN pages ELSE [pages EXCEPT ![p] = @ + 1]
  PROVE  /\ slot \in Nat /\ slot < more[p] * SlotsPerPage
         /\ more \in [Process -> Nat]
         /\ \A q \in Process : pages[q] * SlotsPerPage <= more[q] * SlotsPerPage
                               /\ pages[q] * SlotsPerPage \in Nat
                               /\ more[q] * SlotsPerPage \in Nat
         /\ \A t \in Object : status[t] = "Ready" /\ owner[t] = p => tls[t] # slot
PROOF
<1>1. pages \in [Process -> Nat] /\ SlotsPerPage \in Nat \ {0}
  BY DEF ResourceInv, ResourceTypes, Parameters
<1>2. \A q \in Process : /\ pages[q] * SlotsPerPage \in Nat /\ (pages[q] + 1) * SlotsPerPage \in Nat
                         /\ pages[q] * SlotsPerPage < (pages[q] + 1) * SlotsPerPage
  BY <1>1, OnePageMore
<1>3. CASE FreeSlots(p) # {}
  <2>1. more = pages /\ slot = Min(FreeSlots(p))
    BY <1>3
  <2>2. FreeSlots(p) \subseteq Nat
    BY <1>1, <1>2 DEF FreeSlots
  <2>3. slot \in FreeSlots(p)
    BY <1>3, <2>1, <2>2, MinSlot
  <2>4. slot \in 0 .. (pages[p] * SlotsPerPage) - 1 /\ slot \notin {tls[t] : t \in Threads(p)}
    BY <2>3 DEF FreeSlots
  <2>5. slot \in Nat /\ slot < pages[p] * SlotsPerPage
    BY <1>2, <2>4
  <2>6. \A t \in Object : status[t] = "Ready" /\ owner[t] = p => t \in Threads(p)
    BY DEF Threads, Live, ResourceInv, RunningExist
  <2> QED
    BY <1>1, <1>2, <2>1, <2>4, <2>5, <2>6
<1>4. CASE FreeSlots(p) = {}
  <2>1. more = [pages EXCEPT ![p] = @ + 1] /\ slot = pages[p] * SlotsPerPage
    BY <1>4
  <2>2. more \in [Process -> Nat] /\ more[p] = pages[p] + 1
        /\ \A q \in Process : q # p => more[q] = pages[q]
    BY <1>1, <2>1
  <2>3. \A t \in Object : status[t] = "Ready" /\ owner[t] = p => tls[t] # slot
    <3> SUFFICES ASSUME NEW t \in Object, status[t] = "Ready", owner[t] = p PROVE tls[t] # slot
      OBVIOUS
    <3>1. tls[t] \in Nat /\ tls[t] < pages[p] * SlotsPerPage
      BY DEF ResourceInv, SlotsHeld
    <3> QED
      BY <1>2, <2>1, <3>1
  <2>4. slot \in Nat /\ slot < more[p] * SlotsPerPage
    BY <1>2, <2>1, <2>2
  <2>5. ASSUME NEW q \in Process
        PROVE  /\ pages[q] * SlotsPerPage <= more[q] * SlotsPerPage
               /\ pages[q] * SlotsPerPage \in Nat /\ more[q] * SlotsPerPage \in Nat
    <3>1. more[q] = pages[q] \/ more[q] = pages[q] + 1
      BY <2>2
    <3> QED
      BY <1>2, <3>1
  <2> QED
    BY <2>2, <2>3, <2>4, <2>5
<1> QED
  BY <1>3, <1>4

\* CreateThread, with a slot of thread-local storage or without one.
LEMMA CreateThreadKeeps ==
  ASSUME Parameters, ResourceInv, NEW p \in Process, NEW o \in Object, CreateThread(p, o)
  PROVE  ResourceInv'
PROOF
<1>1. /\ p \in alive /\ kind[o] = None /\ kind' = [kind EXCEPT ![o] = "Thread"]
      /\ current' = [current EXCEPT !["Thread"] = @ + 1]
      /\ owner' = [owner EXCEPT ![o] = p] /\ alive' = alive
  BY DEF CreateThread, Reserve
<1>2. "Thread" \in Kind /\ "SharedMemory" # "Thread" /\ None # "Thread" /\ None \notin Nat
  BY DEF Parameters
<1>3. status[o] = "Dead" /\ tls[o] = None
  BY <1>1, <1>2 DEF ResourceInv, RunningExist, SlotsHeld
<1>4. /\ kind'[o] = "Thread" /\ owner'[o] = p
      /\ \A u \in Object : u # o => kind'[u] = kind[u] /\ owner'[u] = owner[u]
  BY <1>1 DEF ResourceInv, ResourceTypes
<1>5. PICK x \in {"Ready", "NoTLS"} : status' = [status EXCEPT ![o] = x]
  BY DEF CreateThread
<1>6. status'[o] = x /\ \A u \in Object : u # o => status'[u] = status[u]
  BY <1>5 DEF ResourceInv, ResourceTypes
<1>7. RunningExist'
  BY <1>1, <1>4, <1>6 DEF ResourceInv, RunningExist
<1>8. SharedOwned'
  BY <1>1, <1>2, <1>4 DEF ResourceInv, SharedOwned
<1>9. CountsFaithful'
  BY <1>1, <1>2, <1>6, OneMoreLives
<1>10. /\ current' \in [Kind -> Int] /\ kind' \in [Object -> Kind \cup {None}]
       /\ owner' \in [Object -> Process \cup {None}] /\ alive' \subseteq Process
       /\ status' \in [Object -> {"Ready", "Dead", "NoTLS"}]
  BY <1>1, <1>2, <1>5 DEF ResourceInv, ResourceTypes
<1>11. CASE /\ tls' = [tls EXCEPT ![o] = IF FreeSlots(p) # {} THEN Min(FreeSlots(p))
                                         ELSE pages[p] * SlotsPerPage]
            /\ pages' = IF FreeSlots(p) # {} THEN pages ELSE [pages EXCEPT ![p] = @ + 1]
            /\ status' = [status EXCEPT ![o] = "Ready"]
            /\ handles' = IF Room(p) THEN [handles EXCEPT ![p] = @ \cup {o}] ELSE handles
  <2>1. PICK slot : slot = IF FreeSlots(p) # {} THEN Min(FreeSlots(p)) ELSE pages[p] * SlotsPerPage
    OBVIOUS
  <2>2. PICK more : more = IF FreeSlots(p) # {} THEN pages ELSE [pages EXCEPT ![p] = @ + 1]
    OBVIOUS
  <2>3. /\ slot \in Nat /\ slot < more[p] * SlotsPerPage
        /\ more \in [Process -> Nat]
        /\ \A q \in Process : pages[q] * SlotsPerPage <= more[q] * SlotsPerPage
                              /\ pages[q] * SlotsPerPage \in Nat
                              /\ more[q] * SlotsPerPage \in Nat
        /\ \A t \in Object : status[t] = "Ready" /\ owner[t] = p => tls[t] # slot
    BY <2>1, <2>2, SlotIsFree
  <2>4. tls' = [tls EXCEPT ![o] = slot] /\ pages' = more
    BY <1>11, <2>1, <2>2
  <2>5. /\ tls' \in [Object -> Nat \cup {None}] /\ pages' \in [Process -> Nat]
        /\ tls'[o] = slot /\ \A u \in Object : u # o => tls'[u] = tls[u]
    BY <2>3, <2>4 DEF ResourceInv, ResourceTypes
  <2>6. handles' \in [Process -> SUBSET Object]
    BY <1>11 DEF ResourceInv, ResourceTypes
  <2>7. ResourceTypes'
    BY <1>10, <2>5, <2>6 DEF ResourceTypes
  <2>8. status'[o] = "Ready"
    BY <1>11 DEF ResourceInv, ResourceTypes
  <2>9. \A t \in Object : status'[t] # "Ready" => tls'[t] = None
    BY <1>6, <2>5, <2>8 DEF ResourceInv, SlotsHeld
  <2>10. ASSUME NEW t \in Object, status'[t] = "Ready"
         PROVE  tls'[t] \in Nat /\ tls'[t] < pages'[owner'[t]] * SlotsPerPage
    <3>1. CASE t = o
      BY <1>4, <2>3, <2>4, <2>5, <3>1
    <3>2. CASE t # o
      <4>1. status[t] = "Ready" /\ tls'[t] = tls[t] /\ owner'[t] = owner[t]
        BY <1>4, <1>6, <2>5, <2>10, <3>2
      <4>2. tls[t] \in Nat /\ tls[t] < pages[owner[t]] * SlotsPerPage /\ owner[t] \in Process
        BY <4>1 DEF ResourceInv, SlotsHeld, RunningExist, ResourceTypes
      <4>3. pages[owner[t]] * SlotsPerPage <= pages'[owner[t]] * SlotsPerPage
            /\ pages[owner[t]] * SlotsPerPage \in Nat /\ pages'[owner[t]] * SlotsPerPage \in Nat
        BY <2>3, <2>4, <4>2
      <4> QED
        BY <4>1, <4>2, <4>3
    <3> QED
      BY <3>1, <3>2
  <2>11. ASSUME NEW t \in Object, NEW u \in Object, status'[t] = "Ready", status'[u] = "Ready",
                t # u, owner'[t] = owner'[u]
         PROVE  tls'[t] # tls'[u]
    <3>1. CASE t = o
      BY <1>4, <1>6, <2>3, <2>5, <2>11, <3>1
    <3>2. CASE u = o
      BY <1>4, <1>6, <2>3, <2>5, <2>11, <3>2
    <3>3. CASE t # o /\ u # o
      BY <1>4, <1>6, <2>5, <2>11, <3>3 DEF ResourceInv, SlotsHeld
    <3> QED
      BY <3>1, <3>2, <3>3
  <2>12. "Thread" \notin MayFail => \A t \in Object : status'[t] # "NoTLS"
    BY <1>6, <2>8 DEF ResourceInv, SlotsHeld
  <2>13. SlotsHeld'
    BY <2>9, <2>10, <2>11, <2>12 DEF SlotsHeld
  <2> QED
    BY <1>7, <1>8, <1>9, <2>7, <2>13 DEF ResourceInv
<1>12. CASE /\ "Thread" \in MayFail /\ status' = [status EXCEPT ![o] = "NoTLS"]
            /\ UNCHANGED <<tls, handles, pages>>
  <2>1. ResourceTypes'
    BY <1>10, <1>12 DEF ResourceInv, ResourceTypes
  <2>2. status'[o] = "NoTLS"
    BY <1>12 DEF ResourceInv, ResourceTypes
  <2>3. SlotsHeld'
    BY <1>3, <1>4, <1>6, <1>12, <2>2 DEF ResourceInv, SlotsHeld
  <2> QED
    BY <1>7, <1>8, <1>9, <2>1, <2>3 DEF ResourceInv
<1> QED
  BY <1>11, <1>12 DEF CreateThread

\* A message copies a handle: no count changes.
LEMMA CopyHandleKeeps ==
  ASSUME Parameters, ResourceInv, NEW p \in Process, NEW q \in Process, NEW o \in Object,
         CopyHandle(p, q, o)
  PROVE  ResourceInv'
PROOF
<1>1. /\ handles' = [handles EXCEPT ![q] = @ \cup {o}]
      /\ UNCHANGED <<current, kind, owner, status, tls, pages, alive>>
  BY DEF CopyHandle
<1>2. ResourceTypes'
  BY <1>1 DEF ResourceInv, ResourceTypes
<1>3. RunningExist' /\ SharedOwned' /\ SlotsHeld'
  BY <1>1 DEF ResourceInv, RunningExist, SharedOwned, SlotsHeld
<1>4. CountsFaithful'
  <2>1. \A k : Live(k)' = Live(k)
    BY <1>1 DEF Live
  <2> QED
    BY <1>1, <2>1 DEF ResourceInv, CountsFaithful, Faultless
<1> QED
  BY <1>2, <1>3, <1>4 DEF ResourceInv

-----------------------------------------------------------------------------
\* Threads that stop and objects that are destroyed leave what exists by as many
\* as the limit is given back; by fewer only where a block of shared memory has
\* lost its process.
LEMMA SettleCounts ==
  ASSUME Parameters, ResourceInv, NEW stopped, NEW tables, NEW present,
         stopped \subseteq Live("Thread"), Settle(stopped, tables, present),
         ~ LeavesShared =>
           \A o \in Object : kind[o] = "SharedMemory" => owner[o] \in present
  PROVE  CountsFaithful'
PROOF
<1> DEFINE dead == {o \in Object : /\ kind[o] # None /\ \A p \in present : o \notin tables[p]
                                   /\ kind[o] = "Thread" => status[o] = "Dead" \/ o \in stopped}
<1>1. /\ status' = [o \in Object |-> IF o \in stopped THEN "Dead" ELSE status[o]]
      /\ kind' = [o \in Object |-> IF o \in dead THEN None ELSE kind[o]]
      /\ current' = [k \in Kind |-> current[k] - Released(k, stopped, dead, present)]
  BY DEF Settle
<1>2. dead \subseteq Object /\ \A o \in dead : kind[o] = "Thread" => status[o] = "Dead" \/ o \in stopped
  OBVIOUS
<1> HIDE DEF dead
<1> SUFFICES ASSUME NEW k \in Kind
    PROVE  /\ current'[k] >= Cardinality(Live(k)')
           /\ Faultless(k) => current'[k] = Cardinality(Live(k)')
  BY DEF CountsFaithful, Faultless
<1>3. /\ current[k] >= Cardinality(Live(k)) /\ current[k] \in Int
      /\ Faultless(k) => current[k] = Cardinality(Live(k))
  BY DEF ResourceInv, CountsFaithful, ResourceTypes
<1>4. IsFiniteSet(Live(k)) /\ Cardinality(Live(k)) \in Nat
  BY LiveFinite
<1>5. current'[k] = current[k] - Released(k, stopped, dead, present)
  BY <1>1
<1>6. k # None
  BY DEF Parameters
<1>7. CASE k = "Thread"
  <2>1. Live(k)' = Live(k) \ stopped
    BY <1>1, <1>2, <1>6, <1>7 DEF Live
  <2>2. Live(k) \cap stopped = stopped
    BY <1>7
  <2>3. Cardinality(Live(k)') = Cardinality(Live(k)) - Cardinality(stopped)
    BY <1>4, <2>1, <2>2, FS_Difference
  <2>4. Released(k, stopped, dead, present) = Cardinality(stopped)
    BY <1>7 DEF Released
  <2>5. Cardinality(stopped) \in Nat
    BY <1>4, <1>7, FS_Subset, FS_CardinalityType
  <2> QED
    BY <1>3, <1>4, <1>5, <2>3, <2>4, <2>5
<1>8. CASE k # "Thread"
  <2> DEFINE gone == {o \in dead : kind[o] = k}
             given == {o \in dead : kind[o] = k /\ (k = "SharedMemory" => owner[o] \in present)}
  <2>1. Live(k)' = Live(k) \ gone
    BY <1>1, <1>2, <1>6, <1>8 DEF Live
  <2>2. Live(k) \cap gone = gone /\ gone \subseteq Object /\ given \subseteq gone
    BY <1>2, <1>8 DEF Live
  <2>3. Released(k, stopped, dead, present) = Cardinality(given)
    BY <1>8 DEF Released
  <2>4. Faultless(k) => given = gone
    BY <1>2 DEF Faultless
  <2> HIDE DEF gone, given
  <2>5. Cardinality(Live(k)') = Cardinality(Live(k)) - Cardinality(gone)
    BY <1>4, <2>1, <2>2, FS_Difference
  <2>6. IsFiniteSet(gone)
    BY <2>2, FS_Subset DEF Parameters
  <2>7. /\ IsFiniteSet(given) /\ Cardinality(given) <= Cardinality(gone)
        /\ Cardinality(given) \in Nat /\ Cardinality(gone) \in Nat
    BY <2>2, <2>6, FS_Subset, FS_CardinalityType
  <2> QED
    BY <1>3, <1>4, <1>5, <2>3, <2>4, <2>5, <2>7
<1> QED
  BY <1>7, <1>8

\* Closing a handle, stopping a thread and leaving a process.
LEMMA SettleKeeps ==
  ASSUME Parameters, ResourceInv, NEW stopped, NEW tables, NEW present,
         stopped \subseteq Live("Thread"), Settle(stopped, tables, present),
         tables \in [Process -> SUBSET Object], present \subseteq alive,
         pages' \in [Process -> Nat], \A q \in present : pages'[q] = pages[q],
         \A t \in Live("Thread") \ stopped : owner[t] \in present,
         ~ LeavesShared =>
           \A o \in Object : kind[o] = "SharedMemory" => owner[o] \in present
  PROVE  ResourceInv'
PROOF
<1> DEFINE dead == {o \in Object : /\ kind[o] # None /\ \A p \in present : o \notin tables[p]
                                   /\ kind[o] = "Thread" => status[o] = "Dead" \/ o \in stopped}
<1>1. /\ status' = [o \in Object |-> IF o \in stopped THEN "Dead" ELSE status[o]]
      /\ tls' = [o \in Object |-> IF o \in stopped THEN None ELSE tls[o]]
      /\ handles' = tables /\ alive' = present
      /\ kind' = [o \in Object |-> IF o \in dead THEN None ELSE kind[o]]
      /\ owner' = [o \in Object |-> IF o \in dead THEN None ELSE owner[o]]
      /\ current' = [k \in Kind |-> current[k] - Released(k, stopped, dead, present)]
  BY DEF Settle
<1>2. dead \subseteq Object /\ \A o \in dead : kind[o] = "Thread" => status[o] = "Dead" \/ o \in stopped
  OBVIOUS
<1> HIDE DEF dead
<1>3. CountsFaithful'
  BY SettleCounts
<1>4. current' \in [Kind -> Int]
  <2> SUFFICES ASSUME NEW k \in Kind PROVE current[k] - Released(k, stopped, dead, present) \in Int
    BY <1>1
  <2>1. current[k] \in Int
    BY DEF ResourceInv, ResourceTypes
  <2>2. stopped \in SUBSET Object
    BY DEF Live
  <2>3. {o \in dead : kind[o] = k /\ (k = "SharedMemory" => owner[o] \in present)} \in SUBSET Object
    BY <1>2
  <2>4. /\ Cardinality(stopped) \in Nat
        /\ Cardinality({o \in dead : kind[o] = k /\ (k = "SharedMemory" => owner[o] \in present)}) \in Nat
    BY <2>2, <2>3, FS_Subset, FS_CardinalityType DEF Parameters
  <2> QED
    BY <2>1, <2>4 DEF Released
<1>5. /\ kind' \in [Object -> Kind \cup {None}] /\ owner' \in [Object -> Process \cup {None}]
      /\ status' \in [Object -> {"Ready", "Dead", "NoTLS"}] /\ tls' \in [Object -> Nat \cup {None}]
  BY <1>1 DEF ResourceInv, ResourceTypes
<1>6. ResourceTypes'
  BY <1>1, <1>4, <1>5 DEF ResourceInv, ResourceTypes
<1>7. \A o \in Object : status'[o] # "Dead" =>
        /\ o \notin stopped /\ o \notin dead /\ o \in Live("Thread")
        /\ status'[o] = status[o] /\ tls'[o] = tls[o] /\ kind'[o] = kind[o] /\ owner'[o] = owner[o]
  BY <1>1, <1>2 DEF ResourceInv, RunningExist, Live
<1>8. RunningExist'
  BY <1>1, <1>7 DEF ResourceInv, RunningExist
<1>9. SharedOwned'
  <2> SUFFICES ASSUME ~ LeavesShared, NEW o \in Object, kind'[o] = "SharedMemory"
      PROVE  owner'[o] \in present
    BY <1>1 DEF SharedOwned
  <2>1. o \notin dead /\ kind[o] = "SharedMemory"
    BY <1>1 DEF Parameters
  <2> QED
    BY <1>1, <2>1
<1>10. \A t \in Object : status'[t] # "Ready" => tls'[t] = None
  BY <1>1 DEF ResourceInv, SlotsHeld
<1>11. \A t \in Object : status'[t] = "Ready" =>
         tls'[t] \in Nat /\ tls'[t] < pages'[owner'[t]] * SlotsPerPage
  <2> SUFFICES ASSUME NEW t \in Object, status'[t] = "Ready"
      PROVE  tls'[t] \in Nat /\ tls'[t] < pages'[owner'[t]] * SlotsPerPage
    OBVIOUS
  <2>1. status[t] = "Ready" /\ tls'[t] = tls[t] /\ owner'[t] = owner[t] /\ owner[t] \in present
    BY <1>7
  <2>2. pages'[owner'[t]] = pages[owner[t]]
    BY <2>1
  <2> QED
    BY <2>1, <2>2 DEF ResourceInv, SlotsHeld
<1>12. \A t, u \in Object : status'[t] = "Ready" /\ status'[u] = "Ready" /\ t # u
                            /\ owner'[t] = owner'[u] => tls'[t] # tls'[u]
  BY <1>7 DEF ResourceInv, SlotsHeld
<1>13. "Thread" \notin MayFail => \A t \in Object : status'[t] # "NoTLS"
  BY <1>7 DEF ResourceInv, SlotsHeld
<1>14. SlotsHeld'
  BY <1>10, <1>11, <1>12, <1>13 DEF SlotsHeld
<1> QED
  BY <1>3, <1>6, <1>8, <1>9, <1>14 DEF ResourceInv

\* Every step keeps the invariant.
LEMMA ResourceInvNext ==
  ASSUME Parameters, ResourceInv, [Next]_vars
  PROVE  ResourceInv'
PROOF
<1>1. /\ \A t \in Live("Thread") : owner[t] \in alive
      /\ alive \subseteq Process /\ handles \in [Process -> SUBSET Object]
      /\ pages \in [Process -> Nat]
  BY DEF ResourceInv, ResourceTypes, RunningExist, Live
<1>2. ~ LeavesShared => \A o \in Object : kind[o] = "SharedMemory" => owner[o] \in alive
  BY DEF ResourceInv, SharedOwned
<1>3. ASSUME NEW p \in Process, NEW o \in Object, CloseHandle(p, o) PROVE ResourceInv'
  <2>1. PICK tables : tables = [handles EXCEPT ![p] = @ \ {o}]
    OBVIOUS
  <2>2. tables \in [Process -> SUBSET Object]
    BY <1>1, <2>1
  <2>3. Settle({}, tables, alive) /\ pages' = pages
    BY <1>3, <2>1 DEF CloseHandle
  <2> QED
    BY <1>1, <1>2, <2>2, <2>3, SettleKeeps
<1>4. ASSUME NEW t \in Object, ExitThread(t) PROVE ResourceInv'
  <2>1. {t} \subseteq Live("Thread")
    BY <1>4 DEF ExitThread, Live
  <2>2. Settle({t}, handles, alive) /\ pages' = pages
    BY <1>4 DEF ExitThread
  <2> QED
    BY <1>1, <1>2, <2>1, <2>2, SettleKeeps
<1>5. ASSUME NEW p \in Process, ExitProcess(p) PROVE ResourceInv'
  <2>1. PICK tables : tables = [handles EXCEPT ![p] = {}]
    OBVIOUS
  <2>2. tables \in [Process -> SUBSET Object]
    BY <1>1, <2>1
  <2>3. Settle(Threads(p), tables, alive \ {p}) /\ pages' = [pages EXCEPT ![p] = 0]
    BY <1>5, <2>1 DEF ExitProcess
  <2>4. Threads(p) \subseteq Live("Thread")
    BY DEF Threads
  <2>5. \A t \in Live("Thread") \ Threads(p) : owner[t] \in alive \ {p}
    BY <1>1 DEF Threads
  <2>6. ~ LeavesShared => \A o \in Object : kind[o] = "SharedMemory" => owner[o] \in alive \ {p}
    BY <1>2, <1>5 DEF ExitProcess, Live
  <2>7. pages' \in [Process -> Nat] /\ \A q \in alive \ {p} : pages'[q] = pages[q]
    BY <1>1, <2>3
  <2> QED
    BY <1>1, <2>2, <2>3, <2>4, <2>5, <2>6, <2>7, SettleKeeps
<1>6. CASE UNCHANGED vars
  <2>1. \A k : Live(k)' = Live(k)
    BY <1>6 DEF vars, Live
  <2>2. CountsFaithful'
    BY <1>6, <2>1 DEF vars, ResourceInv, CountsFaithful, Faultless
  <2>3. ResourceTypes' /\ RunningExist' /\ SharedOwned' /\ SlotsHeld'
    BY <1>6 DEF vars, ResourceInv, ResourceTypes, RunningExist, SharedOwned, SlotsHeld
  <2> QED
    BY <2>2, <2>3 DEF ResourceInv
<1> QED
  BY <1>3, <1>4, <1>5, <1>6, CreateObjectKeeps, CreateFailsKeeps, CreateThreadKeeps,
     CopyHandleKeeps DEF Next

-----------------------------------------------------------------------------
\* The invariant implies what it was made for.
LEMMA ResourceInvImplies ==
  ASSUME Parameters, ResourceInv
  PROVE  LimitSound /\ (MayFail = {} /\ ~ LeavesShared => CountsExact)
PROOF
<1>1. NeverUndercounted
  BY DEF ResourceInv, CountsFaithful, NeverUndercounted
<1>2. MayFail = {} /\ ~ LeavesShared => CountsExact
  BY DEF ResourceInv, CountsFaithful, CountsExact, Faultless
<1>3. OwnStorage
  <2> SUFFICES ASSUME NEW t \in Live("Thread"), status[t] = "Ready"
      PROVE  /\ owner[t] \in alive /\ tls[t] < pages[owner[t]] * SlotsPerPage
             /\ \A u \in Threads(owner[t]) \ {t} : tls[u] # tls[t]
    BY DEF OwnStorage
  <2>1. t \in Object
    BY DEF Live
  <2>2. owner[t] \in alive /\ tls[t] \in Nat /\ tls[t] < pages[owner[t]] * SlotsPerPage
    BY <2>1 DEF ResourceInv, RunningExist, SlotsHeld
  <2>3. ASSUME NEW u \in Threads(owner[t]), u # t PROVE tls[u] # tls[t]
    <3>1. u \in Object /\ owner[u] = owner[t]
      BY DEF Threads, Live
    <3>2. CASE status[u] = "Ready"
      BY <2>1, <2>3, <3>1, <3>2 DEF ResourceInv, SlotsHeld
    <3>3. CASE status[u] # "Ready"
      BY <2>2, <3>1, <3>3 DEF ResourceInv, SlotsHeld, Parameters
    <3> QED
      BY <3>2, <3>3
  <2> QED
    BY <2>2, <2>3
<1>4. \A k \in Kind : Faultless(k) => current[k] = Cardinality(Live(k))
  BY DEF ResourceInv, CountsFaithful
<1> QED
  BY <1>1, <1>2, <1>3, <1>4 DEF LimitSound

\* Whatever fails and whoever exits with what open, the limit never counts fewer
\* objects than exist (resource_limit.cpp:66), it counts those of a kind that loses
\* no unit exactly, and a running thread has a slot of thread-local storage that no
\* other thread of its process has (process.cpp:432).
THEOREM LimitSoundHolds ==
  ASSUME Parameters
  PROVE  Spec => []LimitSound
PROOF
<1>1. Init => ResourceInv
  BY ResourceInvInit
<1>2. ResourceInv /\ [Next]_vars => ResourceInv'
  BY ResourceInvNext
<1>3. ResourceInv => LimitSound
  BY ResourceInvImplies
<1> QED
  BY <1>1, <1>2, <1>3, PTL DEF Spec

\* Where no constructor fails and no process leaves shared memory open, the limit
\* counts exactly the objects that exist, through shared handles and exits in any
\* order (svc.cpp:1304, process.cpp:641).
THEOREM CountsExactHolds ==
  ASSUME Parameters, MayFail = {}, ~ LeavesShared
  PROVE  Spec => []CountsExact
PROOF
<1>1. Init => ResourceInv
  BY ResourceInvInit
<1>2. ResourceInv /\ [Next]_vars => ResourceInv'
  BY ResourceInvNext
<1>3. ResourceInv => CountsExact
  BY ResourceInvImplies
<1> QED
  BY <1>1, <1>2, <1>3, PTL DEF Spec

\* Where CreateThread does not fail, a thread that stops has a slot to mark as
\* free (thread.cpp:126).
THEOREM StoppedHadStorageHolds ==
  ASSUME Parameters, "Thread" \notin MayFail
  PROVE  Spec => StoppedHadStorage
PROOF
<1>1. Init => ResourceInv
  BY ResourceInvInit
<1>2. ResourceInv /\ [Next]_vars => ResourceInv'
  BY ResourceInvNext
<1>3. ResourceInv => \A t \in Object : status[t] # "Dead" => tls[t] # None
  BY DEF ResourceInv, SlotsHeld, ResourceTypes, Parameters
<1>4. ResourceInv /\ [Next]_vars =>
        [ \A t \in Object : status[t] # "Dead" /\ status'[t] = "Dead" => tls[t] # None ]_vars
  BY <1>3
<1> QED
  BY <1>1, <1>2, <1>4, PTL DEF Spec, StoppedHadStorage
=============================================================================
