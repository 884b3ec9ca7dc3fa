-------------------------- MODULE MCSessionManager --------------------------
(* SessionManager on a small instance: one incident more than may be live, *)
(* and room for a single eviction flag.                                    *)
EXTENDS SessionManager

CONSTANTS a, b, c

MCIncidents == {a, b, c}
MCSymmetry == Permutations(MCIncidents)
=============================================================================
