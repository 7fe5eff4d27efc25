---------------------------- MODULE MCHandleTable ----------------------------
(***************************************************************************)
(* HandleTable with a history of recently issued handles, for TLC.         *)
(***************************************************************************)
EXTENDS HandleTable, SequencesExt

VARIABLES recent,  \* the last GenLimit - 2 handles created, oldest first
          closed   \* those of them that were closed since

mcvars == <<vars, recent, closed>>

Window == GenLimit - 2

MCInit == Init /\ recent = << >> /\ closed = {}

\* The handle a successful Create or Duplicate returns.
Issued == MakeHandle(next_free_slot, next_generation)

Remember ==
  LET all == Append(recent, Issued)
  IN  recent' = IF Len(all) > Window THEN Tail(all) ELSE all

MCNext ==
  \/ /\ \/ \E obj \in Object : Create(obj)
        \/ \E handle \in LiveHandles : Duplicate(handle) /\ next_free_slot < MaxCount
     /\ Remember
     /\ closed' = closed \cap ToSet(recent')
  \/ /\ \/ CreateFails
        \/ \E handle \in LiveHandles : Duplicate(handle) /\ ~ next_free_slot < MaxCount
        \/ \E handle \in Handle : InvalidHandle(handle)
     /\ UNCHANGED <<recent, closed>>
  \/ /\ \E handle \in Handle :
          /\ Close(handle)
          /\ closed' = closed \cup ({MakeHandle(GetSlot(handle), GetGeneration(handle))}
                                      \cap ToSet(recent))
     /\ UNCHANGED recent
  \/ /\ Clear
     /\ closed' = closed \cup (LiveHandles \cap ToSet(recent))
     /\ UNCHANGED recent

MCSpec == MCInit /\ [][MCNext]_mcvars

\* A handle that was closed, by Close or by Clear, stays invalid until the
\* generation counter has gone once round: no create in between revives it,
\* whichever slots are recycled.
StaleHandlesInvalid == \A h \in closed : ~ IsValid(h)
=============================================================================
