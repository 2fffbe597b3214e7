-------------------------- MODULE MCDocumentSearch --------------------------
(***************************************************************************)
(* Small instances of DocumentSearch for TLC.                              *)
(***************************************************************************)
EXTENDS DocumentSearch, TLC

Symmetry == Permutations(Importers) \cup Permutations(Docs)
=============================================================================
