--------------------------- MODULE MCAgentSession ---------------------------
(***************************************************************************)
(* Two prompts, one line of other output and a buffer of a single event:   *)
(* enough for a full buffer, a late answer and a lost tail.                *)
(***************************************************************************)
EXTENDS AgentSession
=============================================================================
