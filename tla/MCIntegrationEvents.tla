------------------------ MODULE MCIntegrationEvents ------------------------
(***************************************************************************)
(* Small instances of IntegrationEvents for TLC.                           *)
(***************************************************************************)
EXTENDS IntegrationEvents
=============================================================================
