-------------------------- MODULE MCImportPipeline --------------------------
(***************************************************************************)
(* Small instances of ImportPipeline for TLC.                              *)
(***************************************************************************)
EXTENDS ImportPipeline, TLC

\* Hosts are interchangeable, and so are jobs where a configuration names none.
HostAndJobSymmetry == Permutations(Hosts) \cup Permutations(Jobs)
=============================================================================
