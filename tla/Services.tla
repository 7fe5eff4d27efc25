----------------------------- MODULE Services -----------------------------
(***************************************************************************)
(* What the models of the services have in common.                         *)
(***************************************************************************)
CONSTANT None
=============================================================================
