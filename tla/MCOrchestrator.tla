--------------------------- MODULE MCOrchestrator ---------------------------
(***************************************************************************)
(* The broker and the browsers, one of the services, two starts.           *)
(***************************************************************************)
EXTENDS Orchestrator
=============================================================================
