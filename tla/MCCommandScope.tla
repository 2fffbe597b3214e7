--------------------------- MODULE MCCommandScope ---------------------------
(***************************************************************************)
(* Small instances of CommandScope for TLC.                                *)
(***************************************************************************)
EXTENDS CommandScope, TLC

\* Aggregates differ only in the events they hold.
AggregateSymmetry == Permutations(Aggregates)
=============================================================================
