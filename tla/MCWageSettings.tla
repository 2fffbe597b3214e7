--------------------------- MODULE MCWageSettings ---------------------------
(***************************************************************************)
(* Small instances of WageSettings for TLC.                                *)
(***************************************************************************)
EXTENDS WageSettings, TLC

Symmetry ==
    Permutations(Pages) \cup Permutations(Lists) \cup Permutations(Rows)
        \cup Permutations(Requests)
=============================================================================
