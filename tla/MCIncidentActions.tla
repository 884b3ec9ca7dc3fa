-------------------------- MODULE MCIncidentActions -------------------------
(* IncidentActions over two incidents in a fixed order.                  *)
EXTENDS IncidentActions

CONSTANTS a, b

MCIncidents == {a, b}
MCOrder == [i \in MCIncidents |-> IF i = a THEN 1 ELSE 2]
=============================================================================
