------------------------- MODULE MCScheduledService -------------------------
(***************************************************************************)
(* Small instances of ScheduledService for TLC.  There is no symmetry: the *)
(* fairness of each thread is part of what is checked.                     *)
(***************************************************************************)
EXTENDS ScheduledService
=============================================================================
