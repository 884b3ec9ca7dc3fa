-------------------------- MODULE MCIncidentDetails -------------------------
(***************************************************************************)
(* Two incidents with alerts, of which one may change or be resolved, and  *)
(* one query that may fail.                                                *)
(***************************************************************************)
EXTENDS IncidentDetails

CONSTANTS i, j
=============================================================================
