----------------------------- MODULE Enrichment -----------------------------
(***************************************************************************)
(* What srepd finds out about the clusters of an incident.                 *)
(*                                                                         *)
(* Alerts name clusters.  Each new cluster is looked up in OCM; the answer *)
(* asks for its service logs, its limited support and its reports.  From   *)
(* the alerts also starts, per cluster, a chain of history queries: every  *)
(* answer asks for the week before.  An incident that leaves the list      *)
(* takes along what is cached for clusters no other incident has.          *)
(*                                                                         *)
(* Only the alerts of the selected incident start all that.  Those of any  *)
(* other are cached, and the next refresh of the list takes the clusters   *)
(* from there, which nobody looks up then.                                 *)
(*                                                                         *)
(* The OCM client may still be waiting for a login in the browser when the *)
(* first alerts arrive.  Every query has a timeout, so it is answered; any *)
(* answer but that of a history week may be an error.                      *)
(***************************************************************************)
EXTENDS Naturals, Sequences, FiniteSets

CONSTANTS Incidents, Clusters, None,
          Kinds,          \* of detail: serviceLogs, limitedSupport, reports
          Weeks,          \* history queries per cluster (90 days by week)
          MaxAlerts       \* bound on answers with alerts

EnrichmentAssumption ==
    None \notin Incidents /\ Weeks \in Nat \ {0} /\ MaxAlerts \in Nat

MaxFailed == 3            \* lookups of one cluster that may fail

VARIABLES
    ocm,           \* the OCM client: "authenticating", "absent" or "ready"
    backplane,     \* the backplane client exists
    listed,        \* incidents of the list
    alertsOf,      \* clusters that the alerts in incidentCache name
    selected,      \* selectedIncident
    clustersOf,    \* incidentClusterMap (no entry: no clusters)
    unasked,       \* history: incidents that a refresh mapped from the cache
    inFlight,      \* clusterEnrichInFlight
    failed,        \* clusterEnrichFailed
    known,         \* clusterCache
    lookups,       \* GetCluster calls under way, by cluster
    extra,         \* serviceLogCache, limitedSupportCache, clusterReportCache
    errors,        \* serviceLogErrors, limitedSupportErrors, ...
    asking,        \* detail queries under way
    weeksLeft,     \* priorAlertPending
    history,       \* priorAlertCache: the weeks merged so far
    chains,        \* history queries under way
    arrived,       \* answers with alerts so far
    cut            \* clusters dropped while a chain was running

vars == <<ocm, backplane, listed, alertsOf, selected, clustersOf,
          unasked, inFlight, failed, known, lookups, extra, errors, asking,
          weeksLeft, history, chains, arrived, cut>>

ocmVars == <<inFlight, failed, known, lookups, extra, errors, asking>>
weekVars == <<weeksLeft, history, chains, cut>>
listVars == <<listed, alertsOf, selected, clustersOf, unasked>>

TypeOK ==
    /\ ocm \in {"authenticating", "absent", "ready"} /\ backplane \in BOOLEAN
    /\ listed \subseteq Incidents
    /\ selected \in listed \cup {None}
    /\ alertsOf \in [Incidents -> SUBSET Clusters]
    /\ clustersOf \in [Incidents -> SUBSET Clusters] /\ unasked \subseteq Incidents
    /\ inFlight \subseteq Clusters /\ known \subseteq Clusters
    /\ failed \in [Clusters -> Nat] /\ lookups \in [Clusters -> Nat]
    /\ extra \in [Kinds -> SUBSET Clusters]
    /\ errors \in [Kinds -> SUBSET Clusters]
    /\ asking \subseteq Kinds \X Clusters
    /\ weeksLeft \in [Clusters -> 0..Weeks]
    /\ history \in [Clusters -> Seq(1..Weeks)]
    /\ chains \subseteq [cluster : Clusters, week : 1..Weeks, started : Nat]
    /\ arrived \in 0..MaxAlerts /\ cut \subseteq Clusters

Init ==
    /\ ocm \in {"authenticating", "absent", "ready"} /\ backplane = FALSE
    /\ listed = Incidents /\ selected = None
    /\ alertsOf = [i \in Incidents |-> {}]
    /\ clustersOf = [i \in Incidents |-> {}] /\ unasked = {}
    /\ inFlight = {} /\ known = {} /\ asking = {}
    /\ failed = [c \in Clusters |-> 0] /\ lookups = [c \in Clusters |-> 0]
    /\ extra = [k \in Kinds |-> {}] /\ errors = [k \in Kinds |-> {}]
    /\ weeksLeft = [c \in Clusters |-> 0]
    /\ history = [c \in Clusters |-> <<>>]
    /\ chains = {} /\ arrived = 0 /\ cut = {}

-----------------------------------------------------------------------------
(* enrichClusters: marks are set only with a client to clear them.         *)
Wanted(set) ==
    {c \in set : c \notin known \cup inFlight /\ failed[c] < MaxFailed}

\* mutant: the mark is set before the client exists
MarkEarly(set) ==
    /\ inFlight' = inFlight \cup Wanted(set)
    /\ lookups' = [c \in Clusters |->
                     lookups[c] + IF c \in Wanted(set) /\ ocm = "ready" THEN 1 ELSE 0]
Mark(set) ==
    LET new == IF ocm = "ready" THEN Wanted(set) ELSE {}
    IN  /\ inFlight' = inFlight \cup new
        /\ lookups' = [c \in Clusters |-> lookups[c] + IF c \in new THEN 1 ELSE 0]

\* mutant: only what is already cached keeps a second chain from starting
StartsUncached(c) == history[c] = <<>>
Starts(c) == history[c] = <<>> /\ weeksLeft[c] = 0

(* A chain takes the weeks one by one, the latest first.                   *)
StartChains(set) ==
    LET new == {c \in set : Starts(c)}
    IN  /\ weeksLeft' = [c \in Clusters |-> IF c \in new THEN Weeks ELSE weeksLeft[c]]
        /\ chains' = chains \cup
             {[cluster |-> c, week |-> 1, started |-> arrived] : c \in new}

(* gotIncidentAlertsMsg: only the selected incident is enriched.           *)
GotAlerts(i, named) ==
    /\ arrived < MaxAlerts
    /\ arrived' = arrived + 1
    /\ alertsOf' = [alertsOf EXCEPT ![i] = named]
    /\ IF selected \in {None, i}
       THEN /\ clustersOf' = IF named = {} THEN clustersOf
                             ELSE [clustersOf EXCEPT ![i] = named]
            /\ unasked' = IF named = {} THEN unasked ELSE unasked \ {i}
            /\ Mark(named)
            /\ StartChains(named)
       ELSE UNCHANGED <<clustersOf, unasked, inFlight, lookups, weeksLeft, chains>>
    /\ UNCHANGED <<ocm, backplane, listed, selected, failed, known, extra,
                   errors, asking, history, cut>>

(* OCMClientReadyMsg: what the alerts named meanwhile is looked up now.    *)
ClientReady ==
    /\ ocm = "authenticating"
    /\ ocm' = "ready"
    /\ backplane' \in BOOLEAN
    /\ LET waiting == Wanted(UNION {clustersOf[i] : i \in Incidents})
       IN  /\ inFlight' = inFlight \cup waiting
           /\ lookups' = [c \in Clusters |->
                            lookups[c] + IF c \in waiting THEN 1 ELSE 0]
    /\ unasked' = {}
    /\ UNCHANGED <<listed, alertsOf, selected, clustersOf, failed, known, extra, errors, asking, weekVars, arrived>>

ClientFails ==
    /\ ocm = "authenticating" /\ ocm' = "absent"
    /\ UNCHANGED <<backplane, listVars, ocmVars, weekVars, arrived>>

-----------------------------------------------------------------------------
Answered(c) ==
    /\ lookups[c] > 0
    /\ lookups' = [lookups EXCEPT ![c] = @ - 1]
    /\ inFlight' = inFlight \ {c}

ClusterFails(c) ==
    /\ Answered(c)
    /\ failed' = [failed EXCEPT ![c] = @ + 1]
    /\ UNCHANGED <<ocm, backplane, listVars, known, extra, errors, asking,
                   weekVars, arrived>>

(* The internal id in the answer is what the further queries need.         *)
ClusterInfo(c) ==
    /\ Answered(c)
    /\ known' = known \cup {c}
    /\ asking' = asking \cup
         {<<k, c>> : k \in {k \in Kinds : /\ c \notin extra[k]
                                          /\ k = "reports" => backplane}}
    /\ UNCHANGED <<ocm, backplane, listVars, failed, extra, errors, weekVars,
                   arrived>>

Detail(k, c) ==
    /\ <<k, c>> \in asking
    /\ asking' = asking \ {<<k, c>>}
    /\ \/ extra' = [extra EXCEPT ![k] = @ \cup {c}] /\ UNCHANGED errors
       \/ errors' = [errors EXCEPT ![k] = @ \cup {c}] /\ UNCHANGED extra
    /\ UNCHANGED <<ocm, backplane, listVars, inFlight, failed, known, lookups,
                   weekVars, arrived>>

\* mutant: the last week is never asked for
BeforeShort(q) == IF q.week < Weeks - 1 THEN {[q EXCEPT !.week = @ + 1]} ELSE {}
Before(q) == IF q.week < Weeks THEN {[q EXCEPT !.week = @ + 1]} ELSE {}

(* priorAlertsMsg: the week is merged, the next one is asked for.  A scan  *)
(* that failed merges what it found until then.                            *)
Week(q) ==
    /\ q \in chains
    /\ weeksLeft' = [weeksLeft EXCEPT ![q.cluster] = IF @ > 0 THEN @ - 1 ELSE 0]
    /\ history' = [history EXCEPT ![q.cluster] = Append(@, q.week)]
    /\ chains' = (chains \ {q}) \cup Before(q)
    /\ UNCHANGED <<ocm, backplane, listVars, ocmVars, arrived, cut>>

-----------------------------------------------------------------------------
(* updatedIncidentListMsg, as far as the caches go: a departed incident is *)
(* dropped if it has an entry in incidentCache (gone), a changed one loses *)
(* its entry.  Details and notes make entries too, so one without alerts   *)
(* may be there or not.  Then the rows are built (shown: assigned to the   *)
(* user or of the team, not hidden by the urgency filter), and one without *)
(* clusters takes those of its cached alerts.  Last the selection follows  *)
(* the highlighted row.                                                    *)
Orphans(gone) ==
    (UNION {clustersOf[i] : i \in gone}) \
        UNION {clustersOf[i] : i \in Incidents \ gone}

Refilled(rows) == {i \in rows : clustersOf[i] = {} /\ alertsOf[i] # {}}

List(new, gone, changed, shown) ==
    LET orphans == Orphans(gone)
        refilled == Refilled(shown \ changed)
    IN  /\ \A i \in Incidents \ (new \cup gone) : alertsOf[i] = {}
        /\ listed' = new
        /\ alertsOf' = [i \in Incidents |->
                          IF i \in gone \cup changed THEN {} ELSE alertsOf[i]]
        /\ selected' \in IF selected \in shown THEN {selected} ELSE shown \cup {None}
        /\ clustersOf' = [i \in Incidents |->
                            IF i \in gone THEN {}
                            ELSE IF i \in refilled THEN alertsOf[i] ELSE clustersOf[i]]
        /\ unasked' = (unasked \ gone) \cup refilled
        /\ known' = known \ orphans
        /\ extra' = [k \in Kinds |-> extra[k] \ orphans]
        /\ inFlight' = inFlight \ orphans
        /\ weeksLeft' = [c \in Clusters |-> IF c \in orphans THEN 0 ELSE weeksLeft[c]]
        /\ history' = [c \in Clusters |-> IF c \in orphans THEN <<>> ELSE history[c]]
        /\ cut' = cut \cup {c \in orphans : \E q \in chains : q.cluster = c}
        /\ UNCHANGED <<ocm, backplane, failed, lookups, errors, asking, chains,
                       arrived>>

Select(i) ==
    /\ i \in listed /\ selected' = i /\ i # selected
    /\ UNCHANGED <<ocm, backplane, listed, alertsOf, clustersOf, unasked,
                   ocmVars, weekVars, arrived>>

Next ==
    \/ \E i \in Incidents, named \in SUBSET Clusters : GotAlerts(i, named)
    \/ \E i \in Incidents : Select(i)
    \/ ClientReady \/ ClientFails
    \/ \E c \in Clusters : ClusterFails(c) \/ ClusterInfo(c)
    \/ \E k \in Kinds, c \in Clusters : Detail(k, c)
    \/ \E q \in chains : Week(q)
    \/ \E new \in SUBSET Incidents :
          \E gone \in SUBSET (Incidents \ new), changed, shown \in SUBSET new :
              List(new, gone, changed, shown)

(* A query has a deadline and answers; the login and the alerts need not.  *)
Fairness ==
    /\ \A c \in Clusters : WF_vars(ClusterFails(c) \/ ClusterInfo(c))
    /\ \A k \in Kinds, c \in Clusters : WF_vars(Detail(k, c))
    /\ \A c \in Clusters : WF_vars(\E q \in chains : q.cluster = c /\ Week(q))

Spec == Init /\ [][Next]_vars /\ Fairness

-----------------------------------------------------------------------------
(* What the tabs of the incident view say (views.go).                      *)
Tabs == Kinds \cup {"cluster", "history"}
Own == IF selected = None THEN {} ELSE clustersOf[selected]

NotConnected == IF ocm = "authenticating" THEN "authenticating" ELSE "not connected"

ClusterText ==
    IF known # {} THEN "content"
    ELSE IF ocm = "ready" THEN "loading" ELSE NotConnected

DetailText(k) ==
    IF k = "reports" /\ ~backplane THEN "no backplane"
    ELSE IF extra[k] # {} THEN "content"
    ELSE IF errors[k] # {} THEN "error"
    ELSE IF ocm # "ready" THEN NotConnected
    ELSE IF k = "limitedSupport" THEN "content" ELSE "loading"

HistoryText ==
    IF Own = {} THEN "content"
    ELSE IF \E c \in Own : weeksLeft[c] > 0 THEN "loading" ELSE "content"

TabText(tab) ==
    CASE tab = "cluster" -> ClusterText
      [] tab = "history" -> HistoryText
      [] OTHER -> DetailText(tab)

-----------------------------------------------------------------------------
(* A mark is never left without a lookup that clears it; and once there is *)
(* a client, every cluster of an incident is known, being looked up, or    *)
(* has failed (the comment at gotIncidentAlertsMsg), but for an incident   *)
(* that only a refresh mapped, from alerts that were cached while another  *)
(* was selected: those clusters wait for its next alerts.                  *)
NobodyForgotten ==
    /\ \A c \in inFlight : lookups[c] > 0
    /\ ocm = "ready" => \A i \in Incidents \ unasked : \A c \in clustersOf[i] :
           c \in known \cup inFlight \/ failed[c] > 0

(* A cluster has one chain at a time, the counter behind "loading older    *)
(* history" says how much of it is left, and every week is merged once, as *)
(* long as the cluster was not dropped with a chain running.               *)
WeeksOnce ==
    \A c \in Clusters \ cut :
        LET running == {q \in chains : q.cluster = c}
        IN  /\ Cardinality(running) <= 1
            /\ \A q \in running : weeksLeft[c] = Weeks + 1 - q.week
            /\ \A m, n \in DOMAIN history[c] : history[c][m] = history[c][n] => m = n

(* No tab of an incident with clusters says that it is loading for ever:   *)
(* all of them settle, unless the lookup of a cluster failed or nobody     *)
(* asked for the clusters (NobodyForgotten).                               *)
LoadingEnds ==
    []<>(\/ Own = {}
         \/ selected \in unasked
         \/ \E c \in Own : failed[c] > 0
         \/ \A tab \in Tabs : TabText(tab) # "loading")
=============================================================================
