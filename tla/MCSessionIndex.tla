--------------------------- MODULE MCSessionIndex ---------------------------
(* SessionIndex with a compaction threshold a few lines reach.             *)
EXTENDS SessionIndex

CONSTANTS a, b, c

MCIncidents == {a, b, c}
MCSymmetry == Permutations(MCIncidents)
=============================================================================
