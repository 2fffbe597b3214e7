--------------------------- MODULE MCOperationLock ---------------------------
(***************************************************************************)
(* Small instances of OperationLock for TLC.                               *)
(***************************************************************************)
EXTENDS OperationLock
=============================================================================
