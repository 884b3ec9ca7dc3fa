---------------------------- MODULE MCBackground ----------------------------
(***************************************************************************)
(* Calls: two requests on a burst of two, with two retries, so that both   *)
(* run out, and every kind of answer.  Enrichment: two incidents, one      *)
(* cluster and two weeks of history.  Sessions: two incidents share one    *)
(* slot, with room for every eviction flag, and three prompts.             *)
(***************************************************************************)
EXTENDS Background

CONSTANTS r1, r2
CONSTANTS inc1, inc2, cluster
=============================================================================
