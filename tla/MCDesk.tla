------------------------------- MODULE MCDesk -------------------------------
(***************************************************************************)
(* Keys: up to three views open at once and one message on its way.        *)
(* Approvals: three incidents, two investigations and two polls.  Feed:    *)
(* three incidents that make a cluster storm, a service storm in parts and *)
(* an urgency shift, a buffer of two, and two queries, so that one may     *)
(* supersede the other.  Config: every file over three keys, two of the    *)
(* old format, a preset with a login command or without one, teams from    *)
(* the environment or not, and two starts of the program.                  *)
(***************************************************************************)
EXTENDS Desk

CONSTANTS i, j, k, c, d, s

MCIncidents == {i, j, k}
MCServiceOf == [x \in MCIncidents |-> IF x = j THEN d ELSE s]
MCClustersOf == [x \in MCIncidents |-> IF x = k THEN {d} ELSE {c}]
=============================================================================
