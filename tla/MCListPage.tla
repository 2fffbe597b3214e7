----------------------------- MODULE MCListPage -----------------------------
(***************************************************************************)
(* Small instances of ListPage for TLC.                                    *)
(***************************************************************************)
EXTENDS ListPage, TLC

Symmetry == Permutations(Tabs) \cup Permutations(Items) \cup Permutations(Requests)
=============================================================================
