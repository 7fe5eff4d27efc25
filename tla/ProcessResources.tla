--------------------------- MODULE ProcessResources ---------------------------
(***************************************************************************)
(* The resource limit of a group of processes (resource_limit.cpp) and the *)
(* kernel objects it counts: the supervisor calls reserve before they      *)
(* create (svc.cpp), destructors and Thread::Stop release.  Threads also   *)
(* take a slot of thread-local storage from the pages of their process     *)
(* (process.cpp).  An object lives while some process has a handle to it,  *)
(* a thread also while it has not stopped.                                 *)
(***************************************************************************)
EXTENDS Processes, Integers, FiniteSets, FiniteSetsExt, Functions

CONSTANTS Object,        \* kernel objects that can be created
          Kind,          \* counted: "Thread", "SharedMemory", "Semaphore", ...
          TableSize,     \* handles a process may have
          SlotsPerPage,  \* CITRA_PAGE_SIZE / TLS_ENTRY_SIZE
          MaxPages,      \* pages the BASE region has for thread-local storage
          MaxCount,      \* bound: of leaked reservations
          MayFail,       \* kinds whose creation can fail after the reservation
          LeavesShared   \* whether processes exit with shared memory open

VARIABLES current,    \* m_current_values
          kind, owner,\* of each object; None while it does not exist
          handles,    \* objects in the handle table of each process
          status,     \* of the threads: "Ready", "Dead", or "NoTLS" (never started)
          tls,        \* slot of each thread
          pages,      \* tls_slots.size() of each process
          alive       \* processes

vars == <<current, kind, owner, handles, status, tls, pages, alive>>

\* A thread counts until it has stopped, handles or not.
Live(k)    == {o \in Object : kind[o] = k /\ (k = "Thread" => status[o] # "Dead")}
Threads(p) == {o \in Live("Thread") : owner[o] = p}

Init ==
  /\ current = [k \in Kind |-> 0]
  /\ kind = [o \in Object |-> None] /\ owner = [o \in Object |-> None]
  /\ handles = [p \in Process |-> {}]
  /\ status = [o \in Object |-> "Dead"]
  /\ tls = [o \in Object |-> None]
  /\ pages = [p \in Process |-> 0]
  /\ alive = Process

\* Reserve logs an excess and goes on, as Release does.
Reserve(k) == [current EXCEPT ![k] = @ + 1]

\* Processes whose threads make supervisor calls.
Running(p) == p \in alive /\ \E t \in Threads(p) : status[t] = "Ready"
Room(p)    == Cardinality(handles[p]) < TableSize

-----------------------------------------------------------------------------
\* CreateMutex, CreateEvent, CreateTimer, CreateAddressArbiter, CreateSemaphore
\* and CreateMemoryBlock.  Without a free handle the new object dies at once
\* and its destructor releases what was reserved: nothing changes.
CreateObject(p, o, k) ==
  /\ Running(p) /\ kind[o] = None /\ k # "Thread" /\ Room(p)
  /\ current' = Reserve(k)
  /\ kind' = [kind EXCEPT ![o] = k] /\ owner' = [owner EXCEPT ![o] = p]
  /\ handles' = [handles EXCEPT ![p] = @ \cup {o}]
  /\ UNCHANGED <<status, tls, pages, alive>>

\* CreateSemaphore and CreateThread return an error of the constructor without
\* giving the reservation back.
CreateFails(p, k) ==
  /\ Running(p) /\ k \in MayFail /\ current[k] < MaxCount
  /\ current' = Reserve(k)
  /\ UNCHANGED <<kind, owner, handles, status, tls, pages, alive>>

TakenSlots(p) ==   \* mutant
  {n \in 0 .. (pages[p] * SlotsPerPage) - 1 : \E t \in Threads(p) : tls[t] = n}

\* AllocateThreadLocalStorage: the first slot that no bit of tls_slots marks.
FreeSlots(p) == (0 .. (pages[p] * SlotsPerPage) - 1) \ {tls[t] : t \in Threads(p)}

PagesTaken == SumFunction(pages)

\* The first thread of a process is the one Process::Run sets up.  The thread is
\* in the list of threads, owned by its process, before it has its slot; if no
\* page is left the call fails and leaves it there.
CreateThread(p, o) ==
  /\ p \in alive /\ kind[o] = None
  /\ current' = Reserve("Thread")
  /\ kind' = [kind EXCEPT ![o] = "Thread"] /\ owner' = [owner EXCEPT ![o] = p]
  /\ \/ /\ FreeSlots(p) # {} \/ PagesTaken < MaxPages
        /\ tls' = [tls EXCEPT ![o] = IF FreeSlots(p) # {} THEN Min(FreeSlots(p))
                                      ELSE pages[p] * SlotsPerPage]
        /\ pages' = IF FreeSlots(p) # {} THEN pages ELSE [pages EXCEPT ![p] = @ + 1]
        /\ status' = [status EXCEPT ![o] = "Ready"]
        /\ handles' = IF Room(p) THEN [handles EXCEPT ![p] = @ \cup {o}] ELSE handles
     \/ /\ FreeSlots(p) = {} /\ PagesTaken = MaxPages
        /\ "Thread" \in MayFail /\ Running(p)
        /\ status' = [status EXCEPT ![o] = "NoTLS"]
        /\ UNCHANGED <<tls, handles, pages>>
  /\ UNCHANGED alive

\* A message copies a handle to another process.
CopyHandle(p, q, o) ==
  /\ Running(p) /\ q \in alive /\ o \in handles[p] \ handles[q] /\ Room(q)
  /\ handles' = [handles EXCEPT ![q] = @ \cup {o}]
  /\ UNCHANGED <<current, kind, owner, status, tls, pages, alive>>

-----------------------------------------------------------------------------
ReleasedOnStop(k, stopped, dead, present) ==   \* mutant
  Cardinality({o \in dead : kind[o] = k /\ (k = "SharedMemory" => owner[o] \in present)})

ReleasedTwice(k, stopped, dead, present) ==   \* mutant
  Cardinality({o \in dead : kind[o] = k /\ (k = "SharedMemory" => owner[o] \in present)})
    + (IF k = "Thread" THEN Cardinality(stopped) ELSE 0)

\* What Thread::Stop and the destructors of dead objects release; a shared
\* memory block finds the limit through its process, if that is present.
Released(k, stopped, dead, present) ==
  IF k = "Thread" THEN Cardinality(stopped)
  ELSE Cardinality({o \in dead : kind[o] = k /\ (k = "SharedMemory" => owner[o] \in present)})

\* Threads stop, handle tables change, and what nothing refers to is destroyed.
Settle(stopped, tables, present) ==
  LET dead == {o \in Object : /\ kind[o] # None /\ \A p \in present : o \notin tables[p]
                              /\ kind[o] = "Thread" => status[o] = "Dead" \/ o \in stopped}
  IN  /\ status' = [o \in Object |-> IF o \in stopped THEN "Dead" ELSE status[o]]
      /\ tls' = [o \in Object |-> IF o \in stopped THEN None ELSE tls[o]]
      /\ handles' = tables
      /\ alive' = present
      /\ kind' = [o \in Object |-> IF o \in dead THEN None ELSE kind[o]]
      /\ owner' = [o \in Object |-> IF o \in dead THEN None ELSE owner[o]]
      /\ current' = [k \in Kind |-> current[k] - Released(k, stopped, dead, present)]

CloseHandle(p, o) ==
  /\ Running(p) /\ o \in handles[p]
  /\ Settle({}, [handles EXCEPT ![p] = @ \ {o}], alive)
  /\ UNCHANGED pages

ExitThread(t) ==
  /\ kind[t] = "Thread" /\ status[t] = "Ready"
  /\ Settle({t}, handles, alive)
  /\ UNCHANGED pages

\* TerminateProcess stops every thread while the process is there; ~Process then
\* clears the handle table, when weak pointers to it have expired, and frees the
\* pages.
ExitProcess(p) ==
  /\ p \in alive
  /\ ~ LeavesShared => \A o \in Live("SharedMemory") : owner[o] # p
  /\ Settle(Threads(p), [handles EXCEPT ![p] = {}], alive \ {p})
  /\ pages' = [pages EXCEPT ![p] = 0]

Next ==
  \/ \E p \in Process, k \in Kind :
       CreateFails(p, k) \/ \E o \in Object : CreateObject(p, o, k)
  \/ \E p \in Process, o \in Object :
       \/ CreateThread(p, o) \/ CloseHandle(p, o)
       \/ \E q \in Process : CopyHandle(p, q, o)
  \/ \E t \in Object : ExitThread(t)
  \/ \E p \in Process : ExitProcess(p)

Spec == Init /\ [][Next]_vars

-----------------------------------------------------------------------------
\* svc.cpp announces at each creation "Update thread count in resource limit."
\* (1304; mutexes 1375, semaphores 1441, events 1539, shared memory 1727), and
\* process.cpp:641 that a dying process releases its objects "so that their
\* potential destructor can do clean up with this process": the limit counts
\* the objects that exist, through shared handles and exits in any order.
CountsExact == \A k \in Kind : current[k] = Cardinality(Live(k))

\* Never fewer than the objects that exist, whatever fails or exits: a count
\* that is too low goes negative later (resource_limit.cpp:66).
NeverUndercounted == \A k \in Kind : current[k] >= Cardinality(Live(k))

\* Kinds no unit of which is lost, by a failed creation or at an exit.
Faultless(k) == k \notin MayFail /\ (k = "SharedMemory" => ~ LeavesShared)

\* Two threads of a process never share a slot of thread-local storage, and a
\* slot lies on a page of the process, also after other threads gave theirs
\* back (process.cpp:432, thread.cpp:126).
OwnStorage ==
  \A t \in Live("Thread") : status[t] = "Ready" =>
    /\ owner[t] \in alive /\ tls[t] < pages[owner[t]] * SlotsPerPage
    /\ \A u \in Threads(owner[t]) \ {t} : tls[u] # tls[t]

\* With failures and exits in any order the limit counts no fewer objects than
\* exist, a kind that loses no unit is counted exactly, and running threads have
\* storage of their own (resource_limit.cpp:66, svc.cpp:1304, process.cpp:432).
LimitSound ==
  /\ NeverUndercounted /\ OwnStorage
  /\ \A k \in Kind : Faultless(k) => current[k] = Cardinality(Live(k))

\* thread.cpp:126 says of a stopping thread "Mark the TLS slot in the thread's
\* page as free.": every thread that stops has one.
StoppedHadStorage ==
  [][ \A t \in Object : status[t] # "Dead" /\ status'[t] = "Dead" => tls[t] # None ]_vars
=============================================================================
