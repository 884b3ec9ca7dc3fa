-------------------------- MODULE IncidentDetails --------------------------
(***************************************************************************)
(* The details of an incident: what is fetched, cached and taken over.     *)
(*                                                                         *)
(* The list says of each incident when it last changed; details, notes and *)
(* alerts come one by one, late and in any order, and are kept in a cache. *)
(* What arrives for the selected incident is taken over, and so is what    *)
(* arrives while nothing is selected.  A poll drops cache entries of       *)
(* incidents that changed; a job refetches the row nearest to the cursor   *)
(* whose entry is missing, incomplete or old.  Logging in and opening the  *)
(* SOP use the alerts that were taken over, a note goes to what is         *)
(* selected when the editor is left.                                       *)
(*                                                                         *)
(* Version n of an incident stands for its n-th LastStatusChangeAt.        *)
(***************************************************************************)
EXTENDS Integers, FiniteSets

CONSTANTS Incidents, None,
          Parts,          \* fetched beside the incident itself: notes, alerts
          MaxChanges,     \* bound on the changes at PagerDuty
          MaxErrors,      \* bound on failing fetches of an incident
          MaxFetches      \* bound on the queries under way when a key is pressed

ASSUME DetailsAssumption ==
    None \notin Incidents /\ MaxChanges \in Nat /\ MaxErrors \in Nat /\ MaxFetches \in Nat

MaxVersion == MaxChanges + 1

VARIABLES
    server,        \* PagerDuty: the version of each incident
    resolved,      \* ... and the incidents that are
    list,          \* incidentList: the version of each incident, 0 = not in it
    row,           \* the highlighted row
    cache,         \* incidentCache
    selected,      \* selectedIncident: its id, or None
    version,       \* ... and the version its fields are of (-1: placeholder)
    owner,         \* whose notes and alerts were taken over
    loaded,        \* incidentNotesLoaded, incidentAlertsLoaded
    viewing,       \* viewingIncident
    fetches,       \* queries under way, with the version they will bring
    changes,       \* so far at PagerDuty
    failures       \* fetches of an incident that failed

vars == <<server, resolved, list, row, cache, selected, version, owner, loaded, viewing,
          fetches, changes, failures>>
sideVars == <<failures, changes, server, resolved>>
selectionVars == <<selected, version, owner, loaded>>

NoEntry == [data |-> 0, parts |-> {}, old |-> FALSE]      \* of the cache
Entries == [data : 0..MaxVersion, parts : SUBSET Parts, old : BOOLEAN]

TypeOK ==
    /\ server \in [Incidents -> 1..MaxVersion] /\ resolved \subseteq Incidents
    /\ list \in [Incidents -> 0..MaxVersion]
    /\ row \in Incidents \cup {None} /\ selected \in Incidents \cup {None}
    /\ cache \in [Incidents -> Entries]
    /\ version \in -1..MaxVersion
    /\ owner \in [Parts -> Incidents \cup {None}] /\ loaded \subseteq Parts
    /\ \A p \in loaded : owner[p] # None        \* what counts as loaded is there
    /\ viewing \in BOOLEAN
    /\ changes \in 0..MaxChanges
    /\ fetches \subseteq [what : Parts \cup {"data"}, id : Incidents, brings : 0..MaxVersion]
    /\ failures \in 0..MaxErrors

Init ==
    /\ resolved \in SUBSET Incidents
    /\ server = [i \in Incidents |-> 1] /\ list = [i \in Incidents |-> 0]
    /\ row = None /\ selected = None /\ version = -1
    /\ cache = [i \in Incidents |-> NoEntry]
    /\ owner = [p \in Parts |-> None] /\ loaded = {}
    /\ viewing = FALSE
    /\ fetches = {} /\ changes = 0 /\ failures = 0

-----------------------------------------------------------------------------
(* getIncidentMsg: the incident, its alerts and its notes are asked for.   *)
GetIncident(i) ==
    fetches' = fetches \cup {[what |-> "data", id |-> i, brings |-> server[i]]}
                       \cup [what : Parts, id : {i}, brings : {0}]

Complete(i) == cache[i].data > 0 /\ cache[i].parts = Parts

(* syncSelectedIncidentToHighlightedRow with row r, list l and cache c.    *)
(* An entry that is older than the list keeps its notes and alerts.        *)
Sync(r, l, c) ==
    IF r = None
    THEN selected' = None /\ loaded' = {} /\ UNCHANGED <<version, owner, fetches>>
    ELSE IF selected = r THEN UNCHANGED <<selected, version, owner, loaded, fetches>>
    ELSE LET cached == c[r].data > 0
             fresh == cached /\ c[r].data = l[r]
         IN  /\ selected' = r
             /\ version' = l[r]
             /\ loaded' = IF cached THEN c[r].parts ELSE {}
             /\ owner' = [p \in Parts |-> IF p \in loaded' THEN r ELSE None]
             /\ IF fresh /\ c[r].parts = Parts THEN UNCHANGED fetches
                                               ELSE GetIncident(r)

Listed == [i \in Incidents |-> IF i \in resolved THEN 0 ELSE server[i]]
Rows(l) == {i \in Incidents : l[i] > 0}

(* updatedIncidentListMsg: entries of departed and of changed incidents    *)
(* are dropped; the cursor stays on its row if that is still there.        *)
\* mutant: what is cached stays as long as its incident is listed
DroppedDeparted(l) == [i \in Incidents |-> IF l[i] = 0 THEN NoEntry ELSE cache[i]]
Dropped(l) ==
    [i \in Incidents |->
        IF l[i] = 0 \/ (cache[i].data > 0 /\ cache[i].data # l[i])
        THEN NoEntry ELSE cache[i]]

Poll ==
    /\ list' = Listed
    /\ cache' = Dropped(Listed)
    /\ row' \in IF Rows(Listed) = {} THEN {None}
                ELSE IF row \in Rows(Listed) THEN {row} ELSE Rows(Listed)
    /\ Sync(row', Listed, cache')
    /\ UNCHANGED <<viewing, sideVars>>

Move(i) ==
    /\ ~viewing /\ i \in Rows(list) /\ row' = i
    /\ Sync(i, list, cache)
    /\ UNCHANGED <<list, cache, viewing, sideVars>>

(* needsEnrichment; pickNextEnrichment takes the nearest such row that was *)
(* not asked for in the last 30 seconds: with time left out, any of them.  *)
LazyEnrich(i) ==
    /\ i \in Rows(list) /\ (Complete(i) => cache[i].old)
    /\ GetIncident(i)
    /\ UNCHANGED <<list, row, cache, selectionVars, viewing, sideVars>>

(* An entry outlives its TTL: it is still used, and asked for again.       *)
Expire(i) ==
    /\ Complete(i) /\ ~cache[i].old /\ cache' = [cache EXCEPT ![i].old = TRUE]
    /\ UNCHANGED <<list, row, selectionVars, viewing, fetches, sideVars>>

-----------------------------------------------------------------------------
\* mutant: an answer for another incident is taken over as well
TakenAlways(i) == TRUE
Taken(i) == selected \in {None, i}

(* gotIncidentMsg                                                          *)
GotIncident(f) ==
    /\ f \in fetches /\ f.what = "data"
    /\ fetches' = fetches \ {f}
    /\ cache' = [cache EXCEPT ![f.id] = [@ EXCEPT !.data = f.brings, !.old = FALSE]]
    /\ IF Taken(f.id) THEN selected' = f.id /\ version' = f.brings
                      ELSE UNCHANGED <<selected, version>>
    /\ UNCHANGED <<list, row, owner, loaded, viewing, sideVars>>

IncidentFails(f) ==
    /\ f \in fetches /\ f.what = "data" /\ failures < MaxErrors
    /\ fetches' = fetches \ {f} /\ failures' = failures + 1
    /\ selected' = None /\ viewing' = FALSE
    /\ UNCHANGED <<server, resolved, list, row, cache, version, owner, loaded,
                   changes>>

(* gotIncidentAlertsMsg, gotIncidentNotesMsg                               *)
GotPart(f) ==
    /\ f \in fetches /\ f.what \in Parts
    /\ fetches' = fetches \ {f}
    /\ cache' = [cache EXCEPT ![f.id].parts = @ \cup {f.what}, ![f.id].old = FALSE]
    /\ IF Taken(f.id)
       THEN owner' = [owner EXCEPT ![f.what] = f.id] /\ loaded' = loaded \cup {f.what}
       ELSE UNCHANGED <<owner, loaded>>
    /\ UNCHANGED <<list, row, selected, version, viewing, sideVars>>

PartFails(f) ==
    /\ f \in fetches /\ f.what \in Parts /\ failures < MaxErrors
    /\ fetches' = fetches \ {f} /\ failures' = failures + 1
    /\ UNCHANGED <<server, resolved, list, row, cache, selectionVars, viewing,
                   changes>>

Answered(f) == GotIncident(f) \/ IncidentFails(f) \/ GotPart(f) \/ PartFails(f)

-----------------------------------------------------------------------------
(* Enter: cached data at once or a placeholder; what the cache lacks stays *)
(* from before but does not count as loaded.                               *)
Open ==
    /\ ~viewing /\ row # None
    /\ viewing' = TRUE /\ selected' = row
    /\ version' = IF cache[row].data > 0 THEN cache[row].data ELSE -1
    /\ loaded' = cache[row].parts
    /\ owner' = [p \in Parts |-> IF p \in cache[row].parts THEN row ELSE owner[p]]
    /\ GetIncident(row)
    /\ UNCHANGED <<list, row, cache, sideVars>>

(* clearSelectedIncident, after an action or with the refresh key.         *)
ClearKeepsLoaded ==   \* mutant: forgets to reset the flags
    /\ selected' = None /\ viewing' = FALSE /\ UNCHANGED loaded
    /\ owner' = [p \in Parts |-> None]
    /\ UNCHANGED <<list, row, cache, version, fetches, sideVars>>
Clear ==
    /\ selected' = None /\ viewing' = FALSE /\ loaded' = {}
    /\ owner' = [p \in Parts |-> None]
    /\ UNCHANGED <<list, row, cache, version, fetches, sideVars>>

(* Esc clears and selects the row again.                                   *)
Close ==
    /\ viewing /\ viewing' = FALSE
    /\ IF row = None
       THEN /\ selected' = None /\ loaded' = {}
            /\ owner' = [p \in Parts |-> None]
            /\ UNCHANGED <<version, fetches>>
       ELSE LET cached == cache[row].data > 0 IN
            /\ selected' = row /\ version' = list[row]
            /\ loaded' = IF cached THEN cache[row].parts ELSE {}
            /\ owner' = [p \in Parts |-> IF p \in loaded' THEN row ELSE None]
            /\ IF cache[row].data = list[row] /\ Complete(row) THEN UNCHANGED fetches
               ELSE GetIncident(row)
    /\ UNCHANGED <<list, row, cache, sideVars>>

(* 'l' in the table asks for the row, and for the login as soon as        *)
(* something is selected.  The login takes the cluster from the alerts     *)
(* that were taken over, whether they count as loaded or not.              *)
AskLogin ==
    /\ ~viewing /\ row # None /\ GetIncident(row)
    /\ UNCHANGED <<list, row, cache, selectionVars, viewing, sideVars>>

(* A note was edited: it is added to what is selected when the editor is  *)
(* left, whatever incident its template named, and that one is refetched.  *)
EditorFinished ==
    /\ selected # None /\ GetIncident(selected)
    /\ UNCHANGED <<list, row, cache, selectionVars, viewing, sideVars>>

(* Somebody changes an incident, or resolves it.                           *)
Change(i) ==
    /\ i \notin resolved /\ changes < MaxChanges /\ changes' = changes + 1
    /\ server' = [server EXCEPT ![i] = @ + 1]
    /\ resolved' \in {resolved, resolved \cup {i}}
    /\ UNCHANGED <<list, row, cache, selectionVars, viewing, fetches, failures>>

Next ==
    \/ /\ Cardinality(fetches) < MaxFetches
       /\ \/ Open \/ Close \/ AskLogin \/ EditorFinished
          \/ \E i \in Incidents : Move(i)
    \/ Poll \/ Clear
    \/ \E i \in Incidents : LazyEnrich(i) \/ Expire(i) \/ Change(i)
    \/ \E f \in fetches : Answered(f)

(* The poll and the enrichment are scheduled jobs, and every query has a   *)
(* deadline.                                                               *)
Queries == [what : Parts, id : Incidents, brings : {0}] \cup
           [what : {"data"}, id : Incidents, brings : 1..MaxVersion]
Fairness ==
    /\ WF_vars(Poll)
    /\ \A i \in Incidents : WF_vars(LazyEnrich(i))
    /\ \A f \in Queries : WF_vars(Answered(f))

Spec == Init /\ [][Next]_vars /\ Fairness

-----------------------------------------------------------------------------
(* Login, SOP and environment take the cluster of one incident and the     *)
(* name of another only if the mix-up came in while nothing was selected:  *)
(* no other step makes notes or alerts of one incident count as loaded for *)
(* another (the comments at gotIncidentMsg, "don't let background          *)
(* pre-fetch overwrite it").                                               *)
Mixed == selected # None /\ \E p \in loaded : owner[p] # selected
MixedOnlyUnselected == [][Mixed' => Mixed \/ selected = None]_vars

(* Once nothing changes any more, what is selected is shown as it is.      *)
CatchesUp == <>[](selected # None => version = server[selected])
=============================================================================
