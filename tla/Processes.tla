----------------------------- MODULE Processes -----------------------------
(***************************************************************************)
(* What the models of a process's resources and of its memory have in      *)
(* common.                                                                 *)
(***************************************************************************)
CONSTANTS Process, None
=============================================================================
