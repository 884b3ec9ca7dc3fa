---------------------------- MODULE MCWatcherFeed ---------------------------
(* The watcher pane alone: three incidents on two services and clusters.   *)
EXTENDS WatcherFeed

CONSTANTS i, j, k, c, d, s

MCIncidents == {i, j, k}
MCServiceOf == [x \in MCIncidents |-> IF x = j THEN d ELSE s]
MCClustersOf == [x \in MCIncidents |-> IF x = k THEN {d} ELSE {c}]
=============================================================================
