----------------------------- MODULE Background -----------------------------
(***************************************************************************)
(* What srepd does behind the screen, on one bench: calls through the      *)
(* rate limiter, the enrichment of clusters and the agent sessions.  A     *)
(* behaviour picks one of them and leaves the others in one initial state. *)
(***************************************************************************)
EXTENDS RetryClient

CONSTANTS Incidents, Clusters, None, Kinds, Weeks, MaxAlerts
CONSTANTS MaxLive, MaxEvicted, MaxPrompts

VARIABLES ocm, backplane, listed, alertsOf, selected, clustersOf,
          unasked, inFlight, failed, known, lookups, extra, errors, asking,
          weeksLeft, history, chains, arrived, cut
VARIABLES sessions, order, evicted, evictedOrder, established, sess, cliKnown,
          chain, mode, prompts, lastUsed
VARIABLE part   \* the one that runs

Enrich == INSTANCE Enrichment
Sessions == INSTANCE SessionManager WITH NoIncident <- None

ASSUME BackgroundAssumption ==
    Enrich!EnrichmentAssumption /\ Sessions!BoundsAssumption

enrichVars == <<ocm, backplane, listed, alertsOf, selected,
                clustersOf, unasked, inFlight, failed, known, lookups, extra, errors, asking,
                weeksLeft, history, chains, arrived, cut>>
sessionVars == <<sessions, order, evicted, evictedOrder, established, sess,
                 cliKnown, chain, mode, prompts, lastUsed>>
benchVars == <<part, vars, enrichVars, sessionVars>>

BenchInit ==
    /\ Init /\ Enrich!Init /\ Sessions!Init
    /\ part \in {"calls", "enrichment", "sessions"}
    /\ part # "enrichment" => ocm = "absent"
    /\ part # "sessions" => established = {} /\ cliKnown = {}

CallStep ==
    part = "calls" /\ Next /\ UNCHANGED <<part, enrichVars, sessionVars>>
EnrichStep ==
    /\ part = "enrichment" /\ Enrich!Next
    /\ UNCHANGED <<part, vars, sessionVars>>
SessionStep ==
    part = "sessions" /\ Sessions!Next /\ UNCHANGED <<part, vars, enrichVars>>

BenchNext == CallStep \/ EnrichStep \/ SessionStep

(* A part that was not picked never enables one of its fair steps.         *)
BenchSpec ==
    /\ BenchInit /\ [][BenchNext]_benchVars
    /\ Fairness /\ Enrich!Fairness /\ Sessions!Fairness

-----------------------------------------------------------------------------
(* Every variable of the three parts keeps its type.                       *)
TypesOK == TypeOK /\ Enrich!TypeOK /\ Sessions!TypeOK

(* No mark is left without a lookup that clears it, and every cluster of   *)
(* an incident is known, being looked up or has failed, unless only a      *)
(* refresh of the list mapped it.                                          *)
NobodyForgotten == Enrich!NobodyForgotten

(* A cluster has one chain of history queries, which merges a week once.   *)
WeeksOnce == Enrich!WeeksOnce

(* No tab of the incident view says for ever that it is loading, if its    *)
(* clusters were ever asked for.                                           *)
LoadingEnds == Enrich!LoadingEnds

(* A conversation the index knows is never started again under a fresh id, *)
(* as long as no flag had to be dropped at the cap.                        *)
KnownIsResumed == Sessions!KnownIsResumed

(* Quitting completes, even inside a spawn that holds the session mutex.   *)
QuitCompletes == Sessions!QuitCompletes
=============================================================================
