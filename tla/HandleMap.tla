------------------------------ MODULE HandleMap ------------------------------
(***************************************************************************)
(* What a handle table promises its process: a finite map from handles to  *)
(* objects.  Creating (or duplicating) adds one entry under a handle that  *)
(* is not in use, closing removes one entry and leaves every other one     *)
(* alone, clearing removes them all.                                       *)
(***************************************************************************)
CONSTANTS Handle, Object

VARIABLE live   \* the handles in use, each with its object

MapInit == DOMAIN live = {}

Add(h, obj) ==
  /\ h \notin DOMAIN live
  /\ live' = [g \in DOMAIN live \cup {h} |-> IF g = h THEN obj ELSE live[g]]

Remove(h) ==
  /\ h \in DOMAIN live
  /\ live' = [g \in DOMAIN live \ {h} |-> live[g]]

RemoveAll == DOMAIN live' = {} /\ live' = [g \in {} |-> g]

MapNext ==
  \/ \E h \in Handle, obj \in Object : Add(h, obj)
  \/ \E h \in Handle : Remove(h)
  \/ RemoveAll

MapSpec == MapInit /\ [][MapNext]_live
=============================================================================
