-------------------------- MODULE BackgroundProofs --------------------------
(***************************************************************************)
(* The retrying client, the enrichment of clusters and the agent sessions  *)
(* on their bench, for every number of requests, incidents, clusters,      *)
(* weeks and sessions.  What the session manager does alone is proved in   *)
(* SessionManagerProofs, instantiated here.                                *)
(***************************************************************************)
EXTENDS Background, SeqFacts

Manager == INSTANCE SessionManagerProofs WITH NoIncident <- None

-----------------------------------------------------------------------------
(* The retrying client.                                                    *)

(* The initial state satisfies the inductive invariant.                    *)
LEMMA InitIInv == Init => IInv
BY RetryAssumption
   DEF Init, IInv, TypeOK, RateBounded, TruthfulResult, RequestSound

LEMMA BeginIInv == ASSUME IInv, NEW r \in Requests, Begin(r) PROVE IInv'
BY RetryAssumption
   DEF Begin, IInv, TypeOK, RateBounded, TruthfulResult, RequestSound

LEMMA BackoffIInv == ASSUME IInv, NEW r \in Requests, BackoffElapses(r) PROVE IInv'
BY RetryAssumption
   DEF BackoffElapses, IInv, TypeOK, RateBounded, TruthfulResult, RequestSound

LEMMA DeadlineIInv == ASSUME IInv, NEW r \in Requests, Deadline(r) PROVE IInv'
BY RetryAssumption
   DEF Deadline, DeadlineChecked, IInv, TypeOK, RateBounded, TruthfulResult,
       RequestSound

LEMMA RefillIInv == ASSUME IInv, Refill PROVE IInv'
BY RetryAssumption
   DEF Refill, IInv, TypeOK, RateBounded, TruthfulResult, RequestSound

(* A call is an attempt that was counted and costs a token.                *)
LEMMA AcquireIInv == ASSUME IInv, NEW r \in Requests, Acquire(r) PROVE IInv'
<1> USE RetryAssumption DEF IInv, Acquire, TokenTaken
<1>1. TypeOK' BY DEF TypeOK
<1>2. RateBounded' BY DEF TypeOK, RateBounded
<1>3. TruthfulResult' BY DEF TypeOK, TruthfulResult
<1>4. RequestSound' BY DEF TypeOK, RequestSound
<1> QED BY <1>1, <1>2, <1>3, <1>4

LEMMA ReturnIInv == ASSUME IInv, NEW r \in Requests, Return(r) PROVE IInv'
<1> USE RetryAssumption
    DEF IInv, Return, IsRateLimitError, RetriesLeft, Exhausted, Counted
<1>1. TypeOK' BY DEF TypeOK, Reply
<1>2. RateBounded' BY DEF RateBounded
<1>3. TruthfulResult' BY DEF TypeOK, TruthfulResult
<1>4. RequestSound' BY DEF TypeOK, RequestSound
<1> QED BY <1>1, <1>2, <1>3, <1>4

(* Every step preserves the inductive invariant.                           *)
LEMMA NextIInv == ASSUME IInv, [Next]_vars PROVE IInv'
<1>1. CASE UNCHANGED vars
  BY <1>1 DEF vars, IInv, TypeOK, RateBounded, TruthfulResult, RequestSound
<1>2. CASE Refill BY <1>2, RefillIInv
<1>3. ASSUME NEW r \in Requests, Step(r) PROVE IInv'
  BY <1>3, BeginIInv, AcquireIInv, ReturnIInv, BackoffIInv, DeadlineIInv DEF Step
<1> QED BY <1>1, <1>2, <1>3 DEF Next

(* The invariant behind the bounds of the client holds always.             *)
THEOREM CallsInductive == Spec => []IInv
<1>1. Init => IInv BY InitIInv
<1>2. IInv /\ [Next]_vars => IInv' BY NextIInv
<1> QED BY <1>1, <1>2, PTL DEF Spec

(* No request makes more than 1 + MaxRetries calls.                        *)
THEOREM RetriesAreBounded == Spec => []CallsBounded
<1>1. ASSUME IInv, NEW r \in Requests PROVE req[r].made <= 1 + MaxRetries
  <2>1. /\ req[r].attempt \in 0..MaxRetries /\ req[r].made \in Nat
        /\ req[r].made <= 1 + req[r].attempt
    BY <1>1 DEF IInv, TypeOK, RequestSound
  <2> QED BY <2>1, RetryAssumption
<1>2. IInv => CallsBounded
  BY <1>1, Zenon DEF CallsBounded
<1> QED BY CallsInductive, <1>2, PTL

(* All requests together stay within the token bucket.                     *)
THEOREM RateIsBounded == Spec => []RateBounded
<1>1. IInv => RateBounded BY DEF IInv
<1> QED BY CallsInductive, <1>1, PTL

(* A request that exhausted its retries does not report success.           *)
THEOREM ResultsAreTruthful == Spec => []TruthfulResult
<1>1. IInv => TruthfulResult BY DEF IInv
<1> QED BY CallsInductive, <1>1, PTL

(* A request takes effect once, and once more for each error that only     *)
(* looks like a rate limit.                                                *)
THEOREM RepeatsAreExplained == Spec => []RepeatsExplained
<1>1. ASSUME IInv, NEW r \in Requests PROVE effects[r] <= 1 + mistaken[r]
  <2>1. /\ effects[r] \in Nat /\ mistaken[r] \in Nat
        /\ effects[r] <= mistaken[r] + IF req[r].pc = "done" THEN 1 ELSE 0
    BY <1>1 DEF IInv, TypeOK, RequestSound
  <2> QED BY <2>1
<1>2. IInv => RepeatsExplained
  BY <1>1, Zenon DEF RepeatsExplained
<1> QED BY CallsInductive, <1>2, PTL
-----------------------------------------------------------------------------
(* The enrichment of clusters.                                             *)

(* A cluster that was never dropped with a chain running has at most one   *)
(* chain, which knows what is left, and merged the weeks before its own.   *)
OneChain ==
    \A c \in Clusters \ cut :
        /\ \A q \in chains : q.cluster = c =>
             /\ \A r \in chains : r.cluster = c => r = q
             /\ weeksLeft[c] = Weeks + 1 - q.week
             /\ \A n \in DOMAIN history[c] : history[c][n] < q.week
        /\ \A m, n \in DOMAIN history[c] : history[c][m] = history[c][n] => m = n

EnrichInv == Enrich!TypeOK /\ Enrich!NobodyForgotten /\ OneChain

LEMMA EnrichBounds ==
    None \notin Incidents /\ Weeks \in Nat \ {0} /\ MaxAlerts \in Nat
  BY BackgroundAssumption DEF Enrich!EnrichmentAssumption

LEMMA EnrichStarts == Enrich!Init => EnrichInv
<1> SUFFICES ASSUME Enrich!Init PROVE EnrichInv
  OBVIOUS
<1>1. Enrich!TypeOK
  <2>1. backplane \in BOOLEAN BY Zenon DEF Enrich!Init
  <2>2. history \in [Clusters -> Seq(1..Weeks)]
    <3>1. <<>> \in Seq(1..Weeks) OBVIOUS
    <3> QED BY <3>1 DEF Enrich!Init
  <2>3. extra \in [Kinds -> SUBSET Clusters] /\ errors \in [Kinds -> SUBSET Clusters]
    BY DEF Enrich!Init
  <2>4. /\ weeksLeft \in [Clusters -> 0..Weeks] /\ arrived \in 0..MaxAlerts
        /\ failed \in [Clusters -> Nat] /\ lookups \in [Clusters -> Nat]
    BY EnrichBounds DEF Enrich!Init
  <2>5. /\ clustersOf \in [Incidents -> SUBSET Clusters]
        /\ alertsOf \in [Incidents -> SUBSET Clusters] /\ unasked \subseteq Incidents
    BY DEF Enrich!Init
  <2> QED BY <2>1, <2>2, <2>3, <2>4, <2>5 DEF Enrich!Init, Enrich!TypeOK
<1>2. Enrich!NobodyForgotten
  BY DEF Enrich!Init, Enrich!NobodyForgotten
<1>3. OneChain
  BY DEF Enrich!Init, OneChain
<1> QED BY <1>1, <1>2, <1>3 DEF EnrichInv

(* Marking sets of clusters: each mark comes with a lookup.                *)
LEMMA Marked ==
    ASSUME Enrich!TypeOK, NEW new \in SUBSET Clusters,
           inFlight' = inFlight \cup new,
           lookups' = [c \in Clusters |-> lookups[c] + IF c \in new THEN 1 ELSE 0]
    PROVE  /\ inFlight' \subseteq Clusters /\ lookups' \in [Clusters -> Nat]
           /\ (\A c \in inFlight : lookups[c] > 0) => \A c \in inFlight' : lookups'[c] > 0
  BY DEF Enrich!TypeOK

LEMMA AlertsStep ==
    ASSUME EnrichInv, NEW i \in Incidents, NEW named \in SUBSET Clusters,
           Enrich!GotAlerts(i, named)
    PROVE  EnrichInv'
<1> USE DEF EnrichInv
<1>1. /\ arrived' = arrived + 1 /\ arrived' \in 0..MaxAlerts /\ arrived \in Nat
      /\ alertsOf' = [alertsOf EXCEPT ![i] = named]
      /\ UNCHANGED <<ocm, backplane, listed, selected, failed, known, extra,
                     errors, asking, history, cut>>
  BY EnrichBounds DEF Enrich!GotAlerts, Enrich!TypeOK
<1>4. alertsOf' \in [Incidents -> SUBSET Clusters]
  BY <1>1 DEF Enrich!TypeOK
<1>2. CASE UNCHANGED <<clustersOf, unasked, inFlight, lookups, weeksLeft, chains>>
  <2>1. Enrich!TypeOK' BY <1>1, <1>2, <1>4 DEF Enrich!TypeOK
  <2>2. Enrich!NobodyForgotten' BY <1>1, <1>2 DEF Enrich!NobodyForgotten
  <2>3. OneChain' BY <1>1, <1>2 DEF OneChain
  <2> QED BY <2>1, <2>2, <2>3
<1>3. CASE /\ clustersOf' = IF named = {} THEN clustersOf ELSE [clustersOf EXCEPT ![i] = named]
           /\ unasked' = IF named = {} THEN unasked ELSE unasked \ {i}
           /\ Enrich!Mark(named) /\ Enrich!StartChains(named)
  <2> DEFINE new == IF ocm = "ready" THEN Enrich!Wanted(named) ELSE {}
             begun == {c \in named : Enrich!Starts(c)}
             firsts == {[cluster |-> c, week |-> 1, started |-> arrived] : c \in begun}
  <2>1. /\ new \in SUBSET Clusters /\ inFlight' = inFlight \cup new
        /\ lookups' = [c \in Clusters |-> lookups[c] + IF c \in new THEN 1 ELSE 0]
    BY <1>3 DEF Enrich!Mark, Enrich!Wanted
  <2>2. /\ inFlight' \subseteq Clusters /\ lookups' \in [Clusters -> Nat]
        /\ \A c \in inFlight' : lookups'[c] > 0
    <3> HIDE DEF new
    <3> QED BY <2>1, Marked DEF Enrich!NobodyForgotten
  <2>3. /\ weeksLeft' = [c \in Clusters |-> IF c \in begun THEN Weeks ELSE weeksLeft[c]]
        /\ chains' = chains \cup firsts
    BY <1>3 DEF Enrich!StartChains
  <2>4. begun \subseteq Clusters /\ \A c \in begun : history[c] = <<>> /\ weeksLeft[c] = 0
    BY DEF Enrich!Starts
  <2>5. /\ clustersOf' \in [Incidents -> SUBSET Clusters] /\ unasked' \subseteq Incidents
        /\ \A x \in Incidents \ unasked' :
             \/ x \notin unasked /\ clustersOf'[x] = clustersOf[x]
             \/ clustersOf'[x] = named
    BY <1>3 DEF Enrich!TypeOK
  <2> HIDE DEF begun
  <2>6. weeksLeft' \in [Clusters -> 0..Weeks]
    BY <2>3, EnrichBounds DEF Enrich!TypeOK
  <2>7. chains' \subseteq [cluster : Clusters, week : 1..Weeks, started : Nat]
    BY <1>1, <2>3, <2>4, EnrichBounds DEF Enrich!TypeOK
  <2>8. Enrich!TypeOK'
    BY <1>1, <1>4, <2>2, <2>5, <2>6, <2>7 DEF Enrich!TypeOK
  <2>9. Enrich!NobodyForgotten'
    <3> SUFFICES ASSUME ocm' = "ready", NEW x \in Incidents \ unasked', NEW c \in clustersOf'[x]
                 PROVE  c \in known' \cup inFlight' \/ failed'[c] > 0
      BY <2>2 DEF Enrich!NobodyForgotten
    <3>1. CASE x \notin unasked /\ c \in clustersOf[x]
      BY <1>1, <2>1, <3>1 DEF Enrich!NobodyForgotten
    <3>2. CASE c \in named
      <4>1. c \in Clusters /\ failed[c] \in Nat BY <3>2 DEF Enrich!TypeOK
      <4>2. c \in known \cup inFlight \/ ~(failed[c] < 3) \/ c \in new
        BY <1>1, <3>2 DEF Enrich!Wanted, Enrich!MaxFailed
      <4> HIDE DEF new
      <4> QED BY <1>1, <2>1, <4>1, <4>2
    <3> QED BY <2>5, <3>1, <3>2
  <2>10. OneChain'
    <3> SUFFICES ASSUME NEW c \in Clusters \ cut
                 PROVE /\ \A q \in chains' : q.cluster = c =>
                            /\ \A r \in chains' : r.cluster = c => r = q
                            /\ weeksLeft'[c] = Weeks + 1 - q.week
                            /\ \A n \in DOMAIN history[c] : history[c][n] < q.week
                       /\ \A m, n \in DOMAIN history[c] : history[c][m] = history[c][n] => m = n
      BY <1>1 DEF OneChain
    <3>1. CASE c \in begun
      <4>1. \A q \in chains : q.cluster # c
        <5> SUFFICES ASSUME NEW q \in chains, q.cluster = c PROVE FALSE
          OBVIOUS
        <5>1. q.week \in 1..Weeks BY DEF Enrich!TypeOK
        <5> QED BY <2>4, <3>1, <5>1, EnrichBounds DEF OneChain
      <4>2. \A q \in chains' : q.cluster = c => q = [cluster |-> c, week |-> 1, started |-> arrived]
        BY <2>3, <4>1
      <4>3. weeksLeft'[c] = Weeks BY <2>3, <3>1
      <4> QED BY <2>4, <3>1, <4>2, <4>3, EnrichBounds
    <3>2. CASE c \notin begun
      <4>1. \A q \in chains' : q.cluster = c => q \in chains BY <2>3, <3>2
      <4>2. weeksLeft'[c] = weeksLeft[c] BY <2>3, <3>2
      <4> QED BY <4>1, <4>2 DEF OneChain
    <3> QED BY <3>1, <3>2
  <2> QED BY <2>8, <2>9, <2>10
<1> QED BY <1>2, <1>3 DEF Enrich!GotAlerts

LEMMA ClientStep ==
    ASSUME EnrichInv, Enrich!ClientReady \/ Enrich!ClientFails
    PROVE  EnrichInv'
<1> USE DEF EnrichInv
<1>1. CASE Enrich!ClientFails
  <2>1. /\ ocm' = "absent"
        /\ UNCHANGED <<backplane, listed, alertsOf, selected, clustersOf, unasked, inFlight,
                       failed, known, lookups, extra, errors, asking, weeksLeft,
                       history, chains, cut, arrived>>
    BY <1>1 DEF Enrich!ClientFails, Enrich!listVars, Enrich!ocmVars, Enrich!weekVars
  <2>2. Enrich!TypeOK' BY <2>1 DEF Enrich!TypeOK
  <2>3. Enrich!NobodyForgotten' BY <2>1 DEF Enrich!NobodyForgotten
  <2>4. OneChain' BY <2>1 DEF OneChain
  <2> QED BY <2>2, <2>3, <2>4
<1>2. CASE Enrich!ClientReady
  <2> DEFINE all == UNION {clustersOf[i] : i \in Incidents}
             new == Enrich!Wanted(all)
  <2>1. /\ ocm' = "ready" /\ backplane' \in BOOLEAN /\ inFlight' = inFlight \cup new
        /\ lookups' = [c \in Clusters |-> lookups[c] + IF c \in new THEN 1 ELSE 0]
        /\ unasked' = {}
        /\ UNCHANGED <<listed, alertsOf, selected, clustersOf, failed, known, extra,
                       errors, asking, weeksLeft, history, chains, cut, arrived>>
    BY <1>2 DEF Enrich!ClientReady, Enrich!listVars, Enrich!weekVars
  <2>2. all \subseteq Clusters /\ \A x \in Incidents : clustersOf[x] \subseteq all
    BY DEF Enrich!TypeOK
  <2>3. \A c \in all : c \in known \cup inFlight \/ ~(failed[c] < 3) \/ c \in new
    BY DEF Enrich!Wanted, Enrich!MaxFailed
  <2>4. new \in SUBSET Clusters BY <2>2 DEF Enrich!Wanted
  <2> HIDE DEF all, new
  <2>5. /\ inFlight' \subseteq Clusters /\ lookups' \in [Clusters -> Nat]
        /\ \A c \in inFlight' : lookups'[c] > 0
    BY <2>1, <2>4, Marked DEF Enrich!NobodyForgotten
  <2>6. Enrich!TypeOK' BY <2>1, <2>5 DEF Enrich!TypeOK
  <2>7. Enrich!NobodyForgotten'
    <3> SUFFICES ASSUME NEW x \in Incidents, NEW c \in clustersOf[x]
                 PROVE  c \in known' \cup inFlight' \/ failed[c] > 0
      BY <2>1, <2>5 DEF Enrich!NobodyForgotten
    <3>1. c \in all /\ failed[c] \in Nat BY <2>2 DEF Enrich!TypeOK
    <3> QED BY <2>1, <2>3, <3>1
  <2>8. OneChain' BY <2>1 DEF OneChain
  <2> QED BY <2>6, <2>7, <2>8
<1> QED BY <1>1, <1>2

LEMMA LookupStep ==
    ASSUME EnrichInv, NEW c \in Clusters, Enrich!ClusterFails(c) \/ Enrich!ClusterInfo(c)
    PROVE  EnrichInv'
<1> USE DEF EnrichInv
<1>1. /\ lookups[c] > 0 /\ lookups' = [lookups EXCEPT ![c] = @ - 1]
      /\ inFlight' = inFlight \ {c}
      /\ UNCHANGED <<ocm, backplane, listed, alertsOf, selected, clustersOf, unasked, extra, errors,
                     weeksLeft, history, chains, cut, arrived>>
      /\ \/ failed' = [failed EXCEPT ![c] = @ + 1] /\ UNCHANGED <<known, asking>>
         \/ /\ known' = known \cup {c} /\ UNCHANGED failed
            /\ asking' \subseteq asking \cup (Kinds \X {c})
  BY DEF Enrich!ClusterFails, Enrich!ClusterInfo, Enrich!Answered, Enrich!listVars,
     Enrich!weekVars
<1>2. /\ lookups' \in [Clusters -> Nat] /\ failed' \in [Clusters -> Nat]
      /\ \A x \in Clusters : failed'[x] >= failed[x] /\ failed[x] \in Nat
      /\ \A x \in Clusters : x # c => lookups'[x] = lookups[x]
      /\ known \subseteq known' /\ (c \in known' \/ failed'[c] > 0)
  <2>1. lookups \in [Clusters -> Nat] /\ failed \in [Clusters -> Nat]
    BY DEF Enrich!TypeOK
  <2>2. lookups' \in [Clusters -> Nat] /\ \A x \in Clusters : x # c => lookups'[x] = lookups[x]
    BY <1>1, <2>1
  <2>3. CASE failed' = [failed EXCEPT ![c] = @ + 1] /\ UNCHANGED <<known, asking>>
    BY <2>1, <2>2, <2>3
  <2>4. CASE known' = known \cup {c} /\ UNCHANGED failed
    BY <2>1, <2>2, <2>4
  <2> QED BY <1>1, <2>3, <2>4
<1>3. known' \subseteq Clusters /\ asking' \subseteq Kinds \X Clusters
  BY <1>1 DEF Enrich!TypeOK
<1>4. Enrich!TypeOK' BY <1>1, <1>2, <1>3 DEF Enrich!TypeOK
<1>5. Enrich!NobodyForgotten'
  <2>1. \A x \in inFlight' : lookups'[x] > 0
    BY <1>1, <1>2 DEF Enrich!NobodyForgotten, Enrich!TypeOK
  <2>2. ASSUME ocm = "ready", NEW i \in Incidents \ unasked, NEW x \in clustersOf[i]
        PROVE  x \in known' \cup inFlight' \/ failed'[x] > 0
    <3>1. x \in Clusters BY DEF Enrich!TypeOK
    <3>2. CASE x = c BY <1>2, <3>2
    <3>3. CASE x # c BY <1>1, <1>2, <2>2, <3>1, <3>3 DEF Enrich!NobodyForgotten
    <3> QED BY <3>2, <3>3
  <2> QED BY <1>1, <2>1, <2>2 DEF Enrich!NobodyForgotten
<1>6. OneChain' BY <1>1 DEF OneChain
<1> QED BY <1>4, <1>5, <1>6

LEMMA DetailStep ==
    ASSUME EnrichInv, NEW k \in Kinds, NEW c \in Clusters, Enrich!Detail(k, c)
    PROVE  EnrichInv'
<1> USE DEF EnrichInv
<1>1. UNCHANGED <<ocm, backplane, listed, alertsOf, selected, clustersOf, unasked, inFlight, failed,
                  known, lookups, weeksLeft, history, chains, cut, arrived>>
  BY DEF Enrich!Detail, Enrich!listVars, Enrich!weekVars
<1>2. /\ asking' \subseteq asking /\ extra' \in [Kinds -> SUBSET Clusters]
      /\ errors' \in [Kinds -> SUBSET Clusters]
  <2>1. asking' \subseteq asking BY DEF Enrich!Detail
  <2>2. extra \in [Kinds -> SUBSET Clusters] /\ errors \in [Kinds -> SUBSET Clusters]
    BY DEF Enrich!TypeOK
  <2>3. \/ extra' = [extra EXCEPT ![k] = @ \cup {c}] /\ errors' = errors
        \/ errors' = [errors EXCEPT ![k] = @ \cup {c}] /\ extra' = extra
    BY DEF Enrich!Detail
  <2>4. CASE extra' = [extra EXCEPT ![k] = @ \cup {c}] /\ errors' = errors
    BY <2>1, <2>2, <2>4
  <2>5. CASE errors' = [errors EXCEPT ![k] = @ \cup {c}] /\ extra' = extra
    BY <2>1, <2>2, <2>5
  <2> QED BY <2>3, <2>4, <2>5
<1>3. Enrich!TypeOK' BY <1>1, <1>2 DEF Enrich!TypeOK
<1>4. Enrich!NobodyForgotten' BY <1>1 DEF Enrich!NobodyForgotten
<1>5. OneChain' BY <1>1 DEF OneChain
<1> QED BY <1>3, <1>4, <1>5

LEMMA WeekAppended ==
    ASSUME NEW old \in Seq(1..Weeks), NEW w \in 1..Weeks,
           \A n \in DOMAIN old : old[n] < w,
           \A m, n \in DOMAIN old : old[m] = old[n] => m = n
    PROVE  /\ \A n \in DOMAIN Append(old, w) : Append(old, w)[n] < w + 1
           /\ \A m, n \in DOMAIN Append(old, w) : Append(old, w)[m] = Append(old, w)[n] => m = n
<1> DEFINE now == Append(old, w)
           l == Len(old)
<1>1. /\ l \in Nat /\ DOMAIN old = 1..l /\ w \in Nat /\ \A n \in 1..l : old[n] \in Nat
  <2>1. l \in Nat /\ DOMAIN old = 1..l /\ \A n \in 1..l : old[n] \in 1..Weeks
    BY LenProperties, ElementOfSeq
  <2>2. \A n \in 1..Weeks : n \in Nat
    BY EnrichBounds
  <2> QED BY <2>1, <2>2
<1>2. /\ DOMAIN now = 1..(l + 1) /\ now[l + 1] = w
      /\ \A n \in 1..l : now[n] = old[n]
  BY <1>1
<1> HIDE DEF now, l
<1>3. \A n \in DOMAIN now : now[n] < w + 1 BY <1>1, <1>2
<1>4. \A m, n \in DOMAIN now : now[m] = now[n] => m = n BY <1>1, <1>2
<1> QED BY <1>3, <1>4 DEF now

(* A week is younger than those merged before it; then its chain moves on. *)
LEMMA WeekStep ==
    ASSUME EnrichInv, NEW q \in chains, Enrich!Week(q)
    PROVE  EnrichInv'
<1> USE DEF EnrichInv
<1> DEFINE c == q.cluster
           next == [q EXCEPT !.week = @ + 1]
<1>1. /\ weeksLeft' = [weeksLeft EXCEPT ![c] = IF @ > 0 THEN @ - 1 ELSE 0]
      /\ history' = [history EXCEPT ![c] = Append(@, q.week)]
      /\ chains' = (chains \ {q}) \cup IF q.week < Weeks THEN {next} ELSE {}
      /\ UNCHANGED <<ocm, backplane, listed, alertsOf, selected, clustersOf, unasked, inFlight, failed,
                     known, lookups, extra, errors, asking, arrived, cut>>
  BY DEF Enrich!Week, Enrich!Before, Enrich!listVars, Enrich!ocmVars
<1>2. /\ q \in [cluster : Clusters, week : 1..Weeks, started : Nat]
      /\ c \in Clusters /\ q.week \in 1..Weeks /\ history[c] \in Seq(1..Weeks)
      /\ weeksLeft[c] \in 0..Weeks
  BY DEF Enrich!TypeOK
<1>3. /\ next.cluster = c /\ next.week = q.week + 1
      /\ q.week < Weeks => next \in [cluster : Clusters, week : 1..Weeks, started : Nat]
  BY <1>2, EnrichBounds
<1>4. /\ history' \in [Clusters -> Seq(1..Weeks)] /\ weeksLeft' \in [Clusters -> 0..Weeks]
      /\ history'[c] = Append(history[c], q.week)
      /\ weeksLeft'[c] = IF weeksLeft[c] > 0 THEN weeksLeft[c] - 1 ELSE 0
      /\ \A x \in Clusters : x # c => history'[x] = history[x] /\ weeksLeft'[x] = weeksLeft[x]
  <2>1. Append(history[c], q.week) \in Seq(1..Weeks) BY <1>2
  <2> QED BY <1>1, <1>2, <2>1, EnrichBounds DEF Enrich!TypeOK
<1> HIDE DEF next
<1>5. Enrich!TypeOK'
  BY <1>1, <1>3, <1>4 DEF Enrich!TypeOK
<1>6. Enrich!NobodyForgotten' BY <1>1 DEF Enrich!NobodyForgotten
<1>7. OneChain'
  <2> SUFFICES ASSUME NEW x \in Clusters \ cut
               PROVE /\ \A p \in chains' : p.cluster = x =>
                          /\ \A r \in chains' : r.cluster = x => r = p
                          /\ weeksLeft'[x] = Weeks + 1 - p.week
                          /\ \A n \in DOMAIN history'[x] : history'[x][n] < p.week
                     /\ \A m, n \in DOMAIN history'[x] : history'[x][m] = history'[x][n] => m = n
    BY <1>1 DEF OneChain
  <2>1. CASE x # c
    <3>1. \A p \in chains' : p.cluster = x => p \in chains
      BY <1>1, <1>3, <2>1
    <3>2. history'[x] = history[x] /\ weeksLeft'[x] = weeksLeft[x]
      BY <1>4, <2>1
    <3> QED BY <3>1, <3>2 DEF OneChain
  <2>2. CASE x = c
    <3>1. \A p \in chains' : p.cluster = c => p = next /\ q.week < Weeks
      BY <1>1, <2>2 DEF OneChain
    <3>2. /\ weeksLeft[c] = Weeks + 1 - q.week
          /\ \A n \in DOMAIN history[c] : history[c][n] < q.week
          /\ \A m, n \in DOMAIN history[c] : history[c][m] = history[c][n] => m = n
      BY <2>2 DEF OneChain
    <3>4. weeksLeft'[c] = Weeks + 1 - (q.week + 1)
      <4>1. q.week \in Int /\ Weeks \in Int /\ q.week <= Weeks BY <1>2, EnrichBounds
      <4> QED BY <1>4, <3>2, <4>1
    <3>5. /\ \A n \in DOMAIN history'[c] : history'[c][n] < q.week + 1
          /\ \A m, n \in DOMAIN history'[c] : history'[c][m] = history'[c][n] => m = n
      <4> DEFINE now == Append(history[c], q.week)
      <4>1. /\ \A n \in DOMAIN now : now[n] < q.week + 1
            /\ \A m, n \in DOMAIN now : now[m] = now[n] => m = n
        <5> HIDE DEF c
        <5> QED BY ONLY <1>2, <3>2, WeekAppended
      <4> HIDE DEF now
      <4> QED BY <1>4, <4>1 DEF now
    <3> QED BY <1>3, <2>2, <3>1, <3>4, <3>5
  <2> QED BY <2>1, <2>2
<1> QED BY <1>5, <1>6, <1>7

LEMMA ListStep ==
    ASSUME EnrichInv, NEW new \in SUBSET Incidents, NEW gone \in SUBSET (Incidents \ new),
           NEW changed \in SUBSET new, NEW shown \in SUBSET new,
           Enrich!List(new, gone, changed, shown)
    PROVE  EnrichInv'
<1> USE DEF EnrichInv
<1> DEFINE orphans == Enrich!Orphans(gone)
           refilled == Enrich!Refilled(shown \ changed)
<1>1. /\ listed' = new
      /\ alertsOf' = [i \in Incidents |-> IF i \in gone \cup changed THEN {} ELSE alertsOf[i]]
      /\ selected' \in IF selected \in shown THEN {selected} ELSE shown \cup {None}
      /\ clustersOf' = [i \in Incidents |->
                          IF i \in gone THEN {}
                          ELSE IF i \in refilled THEN alertsOf[i] ELSE clustersOf[i]]
      /\ unasked' = (unasked \ gone) \cup refilled
      /\ known' = known \ orphans
      /\ extra' = [k \in Kinds |-> extra[k] \ orphans]
      /\ inFlight' = inFlight \ orphans
      /\ weeksLeft' = [c \in Clusters |-> IF c \in orphans THEN 0 ELSE weeksLeft[c]]
      /\ history' = [c \in Clusters |-> IF c \in orphans THEN <<>> ELSE history[c]]
      /\ cut' = cut \cup {c \in orphans : \E q \in chains : q.cluster = c}
      /\ UNCHANGED <<ocm, backplane, failed, lookups, errors, asking, chains, arrived>>
  BY DEF Enrich!List
<1>2. /\ orphans \subseteq Clusters /\ refilled \subseteq Incidents
      /\ \A i \in Incidents \ gone : clustersOf[i] \cap orphans = {}
  BY DEF Enrich!Orphans, Enrich!Refilled, Enrich!TypeOK
<1> HIDE DEF orphans, refilled
<1>3. /\ history' \in [Clusters -> Seq(1..Weeks)] /\ weeksLeft' \in [Clusters -> 0..Weeks]
      /\ selected' \in listed' \cup {None} /\ cut' \subseteq Clusters
      /\ extra' \in [Kinds -> SUBSET Clusters]
      /\ clustersOf' \in [Incidents -> SUBSET Clusters]
      /\ alertsOf' \in [Incidents -> SUBSET Clusters] /\ unasked' \subseteq Incidents
  <2>1. <<>> \in Seq(1..Weeks) OBVIOUS
  <2>2. history' \in [Clusters -> Seq(1..Weeks)]
    BY <1>1, <2>1 DEF Enrich!TypeOK
  <2>3. clustersOf' \in [Incidents -> SUBSET Clusters] /\ alertsOf' \in [Incidents -> SUBSET Clusters]
    BY <1>1 DEF Enrich!TypeOK
  <2>4. selected' \in listed' \cup {None} /\ cut' \subseteq Clusters /\ unasked' \subseteq Incidents
    BY <1>1, <1>2 DEF Enrich!TypeOK
  <2>5. weeksLeft' \in [Clusters -> 0..Weeks] /\ extra' \in [Kinds -> SUBSET Clusters]
    BY <1>1, EnrichBounds DEF Enrich!TypeOK
  <2> QED BY <2>2, <2>3, <2>4, <2>5
<1>4. Enrich!TypeOK' BY <1>1, <1>3 DEF Enrich!TypeOK
<1>5. Enrich!NobodyForgotten'
  <2>1. \A i \in Incidents \ unasked' :
          clustersOf'[i] = {} \/ (i \notin gone /\ i \notin unasked /\ clustersOf'[i] = clustersOf[i])
    BY <1>1
  <2> QED BY <1>1, <1>2, <2>1 DEF Enrich!NobodyForgotten
<1>6. OneChain'
  <2> SUFFICES ASSUME NEW c \in Clusters \ cut'
               PROVE /\ \A q \in chains : q.cluster = c =>
                          /\ \A r \in chains : r.cluster = c => r = q
                          /\ weeksLeft'[c] = Weeks + 1 - q.week
                          /\ \A n \in DOMAIN history'[c] : history'[c][n] < q.week
                     /\ \A m, n \in DOMAIN history'[c] : history'[c][m] = history'[c][n] => m = n
    BY <1>1 DEF OneChain
  <2>1. CASE c \in orphans
    <3>1. \A q \in chains : q.cluster # c BY <1>1, <2>1
    <3>2. history'[c] = <<>> BY <1>1, <2>1
    <3> QED BY <3>1, <3>2
  <2>2. CASE c \notin orphans
    BY <1>1, <2>2 DEF OneChain
  <2> QED BY <2>1, <2>2
<1> QED BY <1>4, <1>5, <1>6

LEMMA EnrichPreserved == EnrichInv /\ [Enrich!Next]_(Enrich!vars) => EnrichInv'
<1> SUFFICES ASSUME EnrichInv, [Enrich!Next]_(Enrich!vars) PROVE EnrichInv'
  OBVIOUS
<1>1. CASE UNCHANGED Enrich!vars
  <2>1. Enrich!TypeOK' BY <1>1 DEF Enrich!vars, EnrichInv, Enrich!TypeOK
  <2>2. Enrich!NobodyForgotten' BY <1>1 DEF Enrich!vars, EnrichInv, Enrich!NobodyForgotten
  <2>3. OneChain' BY <1>1 DEF Enrich!vars, EnrichInv, OneChain
  <2> QED BY <2>1, <2>2, <2>3 DEF EnrichInv
<1>2. ASSUME NEW i \in Incidents, Enrich!Select(i) PROVE EnrichInv'
  <2>1. /\ selected' = i /\ i \in listed
        /\ UNCHANGED <<ocm, backplane, listed, alertsOf, clustersOf, unasked, inFlight, failed,
                       known, lookups, extra, errors, asking, weeksLeft, history, chains, cut, arrived>>
    BY <1>2 DEF Enrich!Select, Enrich!ocmVars, Enrich!weekVars
  <2>2. Enrich!TypeOK' BY <2>1 DEF EnrichInv, Enrich!TypeOK
  <2>3. Enrich!NobodyForgotten' BY <2>1 DEF EnrichInv, Enrich!NobodyForgotten
  <2>4. OneChain' BY <2>1 DEF EnrichInv, OneChain
  <2> QED BY <2>2, <2>3, <2>4 DEF EnrichInv
<1> QED BY <1>1, <1>2, AlertsStep, ClientStep, LookupStep, DetailStep, WeekStep, ListStep
        DEF Enrich!Next

LEMMA OneChainIsOnce == EnrichInv => Enrich!WeeksOnce
<1> SUFFICES ASSUME EnrichInv, NEW c \in Clusters \ cut
             PROVE  LET running == {q \in chains : q.cluster = c}
                    IN  /\ Enrich!Cardinality(running) <= 1
                        /\ \A q \in running : weeksLeft[c] = Weeks + 1 - q.week
                        /\ \A m, n \in DOMAIN history[c] : history[c][m] = history[c][n] => m = n
  BY DEF Enrich!WeeksOnce
<1> DEFINE running == {q \in chains : q.cluster = c}
<1>1. \A S : Enrich!Cardinality(S) = Cardinality(S)
  BY DEF Cardinality, Enrich!Cardinality
<1>2. \A q, r \in running : q = r BY DEF EnrichInv, OneChain
<1>3. Cardinality(running) <= 1
  <2>1. CASE running = {} BY <2>1, FS_EmptySet
  <2>2. CASE running # {}
    <3>1. PICK q : running = {q} BY <1>2, <2>2
    <3> QED BY <3>1, FS_Singleton
  <2> QED BY <2>1, <2>2
<1> QED BY <1>1, <1>3 DEF EnrichInv, OneChain

-----------------------------------------------------------------------------
(* The session manager: the bench's instance and the one the theorems of   *)
(* SessionManagerProofs are about are the same.                            *)

LEMMA SameInit == Sessions!Init => Manager!Init
  BY DEF Sessions!Init, Manager!Init, Sessions!NoSession, Manager!NoSession,
         Sessions!Idle, Manager!Idle

LEMMA SameNext == [Sessions!Next]_(Sessions!vars) => [Manager!Next]_(Manager!vars)
  BY ZenonT(60) DEF Sessions!HandlePrompt, Manager!HandlePrompt, Sessions!Touched,
         Manager!Touched, Sessions!Touch, Manager!Touch, Sessions!MarkEvicted,
         Manager!MarkEvicted, Sessions!Dropped, Manager!Dropped,
         Sessions!MissOrDead, Manager!MissOrDead, Sessions!ClosedSession,
         Manager!ClosedSession, Sessions!Victim, Manager!Victim,
         Sessions!EvictOldest, Manager!EvictOldest, Sessions!Resumes,
         Manager!Resumes, Sessions!CreateSession, Manager!CreateSession,
         Sessions!Fail, Manager!Fail, Sessions!SendOnClosed,
         Manager!SendOnClosed, Sessions!SendOnSpawned, Manager!SendOnSpawned,
         Sessions!Spawn, Manager!Spawn, Sessions!SpawnFails,
         Manager!SpawnFails, Sessions!FirstByte, Manager!FirstByte,
         Sessions!RetryAsResume, Manager!RetryAsResume,
         Sessions!ExitBeforeOutput, Manager!ExitBeforeOutput,
         Sessions!Deadline, Manager!Deadline, Sessions!SpawnTimeout,
         Manager!SpawnTimeout, Sessions!WriteTurn, Manager!WriteTurn,
         Sessions!WriteFails, Manager!WriteFails, Sessions!ChildInit,
         Manager!ChildInit, Sessions!ReadResult, Manager!ReadResult,
         Sessions!ChildExit, Manager!ChildExit, Sessions!ReadLoopEnds,
         Manager!ReadLoopEnds, Sessions!ReadDone, Manager!ReadDone,
         Sessions!CancelledChild, Manager!CancelledChild, Sessions!CloseAll,
         Manager!CloseAll, Sessions!CloseOne, Manager!CloseOne,
         Sessions!AllClosed, Manager!AllClosed, Sessions!Exit, Manager!Exit,
         Sessions!Terminated, Manager!Terminated, Sessions!GetOrCreate,
         Manager!GetOrCreate, Sessions!SpawnOutcome, Manager!SpawnOutcome,
         Sessions!Send, Manager!Send, Sessions!Next, Manager!Next,
         Sessions!vars, Manager!vars, Sessions!managerVars,
         Manager!managerVars, Sessions!NoSession, Manager!NoSession,
         Sessions!Idle, Manager!Idle, Sessions!Running, Manager!Running,
         Sessions!Current, Manager!Current, Sessions!Goto, Manager!Goto,
         Sessions!Locked, Manager!Locked, Sessions!RemoveFirst,
         Manager!RemoveFirst, Sessions!RemoveAt, Manager!RemoveAt,
         Sessions!SelectInSeq, Manager!SelectInSeq, Sessions!Min, Manager!Min

LEMMA SameTypes == Manager!TypeOK => Sessions!TypeOK
  BY DEF Sessions!TypeOK, Manager!TypeOK, Sessions!Phases, Manager!Phases,
         Sessions!ChildStates, Manager!ChildStates, Sessions!Session,
         Manager!Session, Sessions!Pcs, Manager!Pcs, Sessions!Chain,
         Manager!Chain, Sessions!SessionIds, Manager!SessionIds,
         Sessions!NoSession, Manager!NoSession, Sessions!Idle, Manager!Idle

LEMMA SameRoom == Sessions!RoomForFlags => Manager!RoomForFlags
  BY DEF Sessions!RoomForFlags, Manager!RoomForFlags, Sessions!Cardinality,
         Manager!Cardinality, Sessions!IsFiniteSet, Manager!IsFiniteSet

LEMMA SessionBounds ==
    /\ None \notin Incidents
    /\ MaxLive \in Nat \ {0} /\ MaxEvicted \in Nat \ {0} /\ MaxPrompts \in Nat
  BY BackgroundAssumption DEF Sessions!BoundsAssumption

-----------------------------------------------------------------------------
(* The bench: a step of it is a step of one part and stutters in the rest. *)
LEMMA BenchParts ==
    [BenchNext]_benchVars =>
        /\ [Next]_vars
        /\ [Enrich!Next]_(Enrich!vars)
        /\ [Sessions!Next]_(Sessions!vars)
  BY DEF BenchNext, benchVars, CallStep, EnrichStep, SessionStep, enrichVars,
         sessionVars, Enrich!vars, Sessions!vars

(* Every variable of the three parts keeps its type.                       *)
THEOREM TypesKept == BenchSpec => []TypesOK
<1> DEFINE All == IInv /\ EnrichInv /\ Manager!IInv
<1>1. BenchInit => All
  BY InitIInv, EnrichStarts, SameInit, Manager!InitIInv, SessionBounds DEF BenchInit
<1>2. All /\ [BenchNext]_benchVars => All'
  BY BenchParts, NextIInv, EnrichPreserved, SameNext, Manager!NextIInv, SessionBounds
<1>3. All => TypesOK
  BY SameTypes DEF IInv, EnrichInv, Manager!IInv, TypesOK
<1> QED BY <1>1, <1>2, <1>3, PTL DEF BenchSpec

(* With a client, every cluster of an incident is known, being looked up   *)
(* or has failed, unless a refresh alone mapped the incident, and every    *)
(* mark has a lookup that clears it                                        *)
(* (gotIncidentAlertsMsg, OCMClientReadyMsg, updatedIncidentListMsg).      *)
THEOREM NobodyIsForgotten == BenchSpec => []NobodyForgotten
<1>1. BenchInit => EnrichInv BY EnrichStarts DEF BenchInit
<1>2. EnrichInv /\ [BenchNext]_benchVars => EnrichInv'
  BY BenchParts, EnrichPreserved
<1>3. EnrichInv => NobodyForgotten BY DEF EnrichInv, NobodyForgotten
<1> QED BY <1>1, <1>2, <1>3, PTL DEF BenchSpec

(* One chain of history queries per cluster merges every week once         *)
(* (priorAlertsMsg), for every number of weeks and clusters.               *)
THEOREM WeeksMergedOnce == BenchSpec => []WeeksOnce
<1>1. BenchInit => EnrichInv BY EnrichStarts DEF BenchInit
<1>2. EnrichInv /\ [BenchNext]_benchVars => EnrichInv'
  BY BenchParts, EnrichPreserved
<1>3. EnrichInv => WeeksOnce BY OneChainIsOnce DEF WeeksOnce
<1> QED BY <1>1, <1>2, <1>3, PTL DEF BenchSpec

(* With room for every flag (256 in the code), --session-id never names a  *)
(* conversation that the index knows (GetOrCreate, markEvicted).           *)
THEOREM KnownStaysResumed == Sessions!RoomForFlags => (BenchSpec => []KnownIsResumed)
<1> SUFFICES ASSUME Sessions!RoomForFlags PROVE BenchSpec => []KnownIsResumed
  OBVIOUS
<1> DEFINE All == Manager!IInv /\ Manager!ResumeInv
<1>1. BenchInit => All
  <2>1. Manager!Init => Manager!ResumeInv
    BY DEF Manager!Init, Manager!ResumeInv, Manager!FlaggedOrMapped, Manager!FreshIsFirst
  <2> QED BY <2>1, SameInit, Manager!InitIInv, SessionBounds DEF BenchInit
<1>2. All /\ [BenchNext]_benchVars => All'
  BY BenchParts, SameNext, SameRoom, Manager!NextIInv, Manager!ResumeStep, SessionBounds
<1>3. All => KnownIsResumed
  BY DEF Manager!ResumeInv, Manager!FreshIsFirst, KnownIsResumed, Sessions!KnownIsResumed
<1> QED BY <1>1, <1>2, <1>3, PTL DEF BenchSpec
=============================================================================
