----------------------------- MODULE MCServices -----------------------------
(***************************************************************************)
(* Log: two loggers and two closers on a buffer of two, with a report for  *)
(* every second drop.  Stream: four tokens through channels of two.        *)
(* Index: three incidents and a compaction threshold a few lines reach.    *)
(***************************************************************************)
EXTENDS Services

CONSTANTS w1, w2, c1, c2, a, b, c, p
=============================================================================
