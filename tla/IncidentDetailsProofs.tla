----------------------- MODULE IncidentDetailsProofs -----------------------
(***************************************************************************)
(* Proofs about IncidentDetails, for any incidents, parts and bounds.      *)
(*                                                                         *)
(* The types need one more fact to be inductive: no incident has changed   *)
(* more often than PagerDuty changed anything, so its version stays within *)
(* the bound.  That details are mixed up only while nothing is selected is *)
(* then a fact about single steps: wherever something is selected anew,    *)
(* what counts as loaded is set to it.                                     *)
(***************************************************************************)
EXTENDS IncidentDetails, TLAPS

IInv == TypeOK /\ \A i \in Incidents : server[i] <= changes + 1

Fetches == [what : Parts \cup {"data"}, id : Incidents, brings : 0..MaxVersion]
Caches == [Incidents -> Entries]
Lists == [Incidents -> 0..MaxVersion]

(* What is asked for is of the declared kinds.                             *)
LEMMA AskedFor ==
    ASSUME IInv, NEW i \in Incidents, GetIncident(i)
    PROVE  fetches' \subseteq Fetches
<1> USE DetailsAssumption DEF MaxVersion
<1>1. server[i] \in 0..MaxVersion /\ 0 \in 0..MaxVersion BY DEF IInv, TypeOK
<1>2. [what |-> "data", id |-> i, brings |-> server[i]] \in Fetches
  BY <1>1 DEF Fetches
<1>3. [what : Parts, id : {i}, brings : {0}] \subseteq Fetches
  BY <1>1 DEF Fetches
<1> QED BY <1>2, <1>3 DEF GetIncident, IInv, TypeOK, Fetches

(* The selection and the data taken over for it.                           *)
Chosen ==
    /\ selected' \in Incidents \cup {None} /\ version' \in -1..MaxVersion
    /\ owner' \in [Parts -> Incidents \cup {None}] /\ loaded' \subseteq Parts
    /\ \A p \in loaded' : owner'[p] # None
    /\ fetches' \subseteq Fetches

(* What the synchronisation sets: the types, and never a mix-up.           *)
LEMMA SyncChooses ==
    ASSUME IInv, NEW r \in Incidents \cup {None}, NEW l \in Lists, NEW c \in Caches,
           Sync(r, l, c)
    PROVE  Chosen /\ (Mixed' => Mixed \/ selected = None)
<1> USE DetailsAssumption DEF IInv, TypeOK
<1>1. CASE r = None
  <2>1. /\ selected' = None /\ loaded' = {}
        /\ UNCHANGED <<version, owner, fetches>>
    BY <1>1 DEF Sync
  <2> QED BY <2>1 DEF Chosen, Mixed, Fetches
<1>2. CASE r # None /\ selected = r
  <2>1. UNCHANGED <<selected, version, owner, loaded, fetches>>
    BY <1>2 DEF Sync
  <2> QED BY <2>1 DEF Chosen, Mixed, Fetches
<1>3. CASE r # None /\ selected # r
  <2>1. /\ selected' = r /\ version' = l[r]
        /\ loaded' = IF c[r].data > 0 THEN c[r].parts ELSE {}
        /\ owner' = [p \in Parts |-> IF p \in loaded' THEN r ELSE None]
        /\ fetches' = fetches \/ GetIncident(r)
    BY <1>3 DEF Sync
  <2>2. r \in Incidents BY <1>3
  <2>3. l[r] \in 0..MaxVersion /\ c[r].parts \subseteq Parts
    BY <2>2 DEF Lists, Caches, Entries
  <2>4. version' \in -1..MaxVersion BY <2>1, <2>3 DEF MaxVersion
  <2>5. loaded' \subseteq Parts BY <2>1, <2>3
  <2>6. owner' \in [Parts -> Incidents \cup {None}] BY <2>1, <2>2
  <2>7. \A p \in loaded' : owner'[p] = r BY <2>1, <2>5
  <2>8. fetches' \subseteq Fetches BY <2>1, <2>2, AskedFor DEF Fetches
  <2> QED BY <1>3, <2>1, <2>2, <2>4, <2>5, <2>6, <2>7, <2>8 DEF Chosen, Mixed
<1> QED BY <1>1, <1>2, <1>3

(* Every action keeps the types, and mixes nothing up.                     *)
Sound == IInv' /\ (Mixed' => Mixed \/ selected = None)

LEMMA ListKeeps ==
    ASSUME IInv, Poll \/ (\E i \in Incidents : Move(i)) PROVE Sound
<1> USE DetailsAssumption
<1>1. CASE Poll
  <2>1. Listed \in Lists
    BY DEF Listed, Lists, IInv, TypeOK, MaxVersion
  <2>2. cache' \in Caches /\ list' \in Lists
    <3>1. NoEntry \in Entries
      BY DEF NoEntry, Entries, MaxVersion
    <3>2. cache' = Dropped(Listed) /\ list' = Listed BY <1>1 DEF Poll
    <3> QED BY <2>1, <3>1, <3>2 DEF Dropped, Caches, IInv, TypeOK
  <2>3. row' \in Incidents \cup {None} BY <1>1 DEF Poll, Rows, IInv, TypeOK
  <2>4. Sync(row', Listed, cache') BY <1>1 DEF Poll
  <2>5. Chosen /\ (Mixed' => Mixed \/ selected = None)
    BY <2>1, <2>2, <2>3, <2>4, SyncChooses
  <2>6. UNCHANGED <<viewing, sideVars>> BY <1>1 DEF Poll
  <2> QED BY <2>2, <2>3, <2>5, <2>6
       DEF Sound, IInv, TypeOK, Chosen, Caches, Lists, Fetches, sideVars
<1>2. ASSUME NEW i \in Incidents, Move(i) PROVE Sound
  <2>1. Sync(i, list, cache) /\ row' = i /\ UNCHANGED <<list, cache, viewing, sideVars>>
    BY <1>2 DEF Move
  <2>2. Chosen /\ (Mixed' => Mixed \/ selected = None)
    BY <2>1, SyncChooses DEF IInv, TypeOK, Lists, Caches
  <2> QED BY <2>1, <2>2 DEF Sound, IInv, TypeOK, Chosen, Fetches, sideVars
<1> QED BY <1>1, <1>2

(* Queries without an effect on the selection.                             *)
LEMMA AskKeeps ==
    ASSUME IInv,
           AskLogin \/ EditorFinished \/ (\E i \in Incidents : LazyEnrich(i))
    PROVE  Sound
<1>1. PICK i \in Incidents : GetIncident(i)
  BY DEF AskLogin, EditorFinished, LazyEnrich, IInv, TypeOK
<1>2. UNCHANGED <<list, row, cache, selectionVars, viewing, sideVars>>
  BY DEF AskLogin, EditorFinished, LazyEnrich
<1>3. fetches' \subseteq Fetches BY <1>1, AskedFor
<1> QED BY <1>2, <1>3 DEF Sound, IInv, TypeOK, Fetches, Mixed, selectionVars, sideVars

(* Opening, clearing and closing a view.                                   *)
LEMMA ViewKeeps ==
    ASSUME IInv, Open \/ Clear \/ Close PROVE Sound
<1> USE DetailsAssumption
<1>1. CASE Open
  <2>1. row \in Incidents /\ cache[row] \in [data : 0..MaxVersion, parts : SUBSET Parts, old : BOOLEAN]
    BY <1>1 DEF Open, IInv, TypeOK, Entries
  <2>2. /\ selected' = row
        /\ version' = IF cache[row].data > 0 THEN cache[row].data ELSE -1
        /\ loaded' = cache[row].parts /\ viewing' = TRUE
        /\ owner' = [p \in Parts |-> IF p \in cache[row].parts THEN row ELSE owner[p]]
        /\ UNCHANGED <<list, row, cache, sideVars>>
    BY <1>1 DEF Open
  <2>3. version' \in -1..MaxVersion BY <2>1, <2>2 DEF MaxVersion
  <2>4. loaded' \subseteq Parts BY <2>1, <2>2
  <2>5. owner' \in [Parts -> Incidents \cup {None}] BY <2>1, <2>2 DEF IInv, TypeOK
  <2>6. \A p \in loaded' : owner'[p] = row BY <2>2, <2>4
  <2>7. fetches' \subseteq Fetches BY <1>1, <2>1, AskedFor DEF Open
  <2> QED BY <2>1, <2>2, <2>3, <2>4, <2>5, <2>6, <2>7
       DEF Sound, IInv, TypeOK, Fetches, Mixed, sideVars
<1>2. CASE Clear
  <2>1. /\ selected' = None /\ viewing' = FALSE /\ loaded' = {}
        /\ owner' = [p \in Parts |-> None]
        /\ UNCHANGED <<list, row, cache, version, fetches, sideVars>>
    BY <1>2 DEF Clear
  <2> QED BY <2>1 DEF Sound, IInv, TypeOK, Mixed, sideVars
<1>3. CASE Close /\ row = None
  <2>1. /\ selected' = None /\ viewing' = FALSE /\ loaded' = {}
        /\ owner' = [p \in Parts |-> None]
        /\ UNCHANGED <<version, fetches, list, row, cache, sideVars>>
    BY <1>3 DEF Close
  <2> QED BY <2>1 DEF Sound, IInv, TypeOK, Mixed, sideVars
<1>4. CASE Close /\ row # None
  <2>1. /\ row \in Incidents /\ list[row] \in 0..MaxVersion
        /\ cache[row] \in [data : 0..MaxVersion, parts : SUBSET Parts, old : BOOLEAN]
    BY <1>4 DEF IInv, TypeOK, Entries
  <2>2. /\ selected' = row /\ version' = list[row] /\ viewing' = FALSE
        /\ loaded' = IF cache[row].data > 0 THEN cache[row].parts ELSE {}
        /\ owner' = [p \in Parts |-> IF p \in loaded' THEN row ELSE None]
        /\ fetches' = fetches \/ GetIncident(row)
        /\ UNCHANGED <<list, row, cache, sideVars>>
    BY <1>4 DEF Close
  <2>3. version' \in -1..MaxVersion BY <2>1, <2>2 DEF MaxVersion
  <2>4. loaded' \subseteq Parts BY <2>1, <2>2
  <2>5. owner' \in [Parts -> Incidents \cup {None}] BY <2>1, <2>2
  <2>6. \A p \in loaded' : owner'[p] = row BY <2>2, <2>4
  <2>7. fetches' \subseteq Fetches
    BY <2>1, <2>2, AskedFor DEF IInv, TypeOK, Fetches
  <2> QED BY <1>4, <2>1, <2>2, <2>3, <2>4, <2>5, <2>6, <2>7
       DEF Sound, IInv, TypeOK, Fetches, Mixed, sideVars
<1> QED BY <1>1, <1>2, <1>3, <1>4

(* What arrives is taken over for the selected incident, or for none.      *)
LEMMA AnswerKeeps ==
    ASSUME IInv, NEW f \in fetches, Answered(f) PROVE Sound
<1> USE DetailsAssumption
<1>1. f \in Fetches /\ fetches' = fetches \ {f}
  BY DEF IInv, TypeOK, Fetches, Answered, GotIncident, IncidentFails, GotPart, PartFails
<1>2. f.id \in Incidents /\ f.brings \in 0..MaxVersion /\ f.brings \in -1..MaxVersion
  BY <1>1 DEF Fetches, MaxVersion
<1>3. CASE GotIncident(f)
  <2>1. cache' \in Caches
    BY <1>2, <1>3 DEF GotIncident, Caches, Entries, IInv, TypeOK
  <2>2. /\ selected' \in {selected, f.id} /\ version' \in {version, f.brings}
        /\ selected' # selected => selected = None
    BY <1>3 DEF GotIncident, Taken
  <2>3. UNCHANGED <<list, row, owner, loaded, viewing, sideVars>>
    BY <1>3 DEF GotIncident
  <2> QED BY <1>1, <1>2, <2>1, <2>2, <2>3
       DEF Sound, IInv, TypeOK, Caches, Mixed, sideVars
<1>4. CASE IncidentFails(f)
  <2>1. failures' \in 0..MaxErrors BY <1>4 DEF IncidentFails, IInv, TypeOK
  <2>2. /\ selected' = None /\ viewing' = FALSE
        /\ UNCHANGED <<server, resolved, list, row, cache, version, owner, loaded, changes>>
    BY <1>4 DEF IncidentFails
  <2> QED BY <1>1, <2>1, <2>2 DEF Sound, IInv, TypeOK, Mixed
<1>5. CASE GotPart(f)
  <2>1. f.what \in Parts BY <1>5 DEF GotPart
  <2>2. cache' \in Caches
    BY <1>2, <2>1, <1>5 DEF GotPart, Caches, Entries, IInv, TypeOK
  <2>3. UNCHANGED <<list, row, selected, version, viewing, sideVars>>
    BY <1>5 DEF GotPart
  <2>4. CASE Taken(f.id)
    <3>1. owner' = [owner EXCEPT ![f.what] = f.id] /\ loaded' = loaded \cup {f.what}
      BY <1>5, <2>4 DEF GotPart
    <3>2. /\ owner' \in [Parts -> Incidents \cup {None}] /\ loaded' \subseteq Parts
          /\ \A p \in loaded' : owner'[p] # None
      BY <1>2, <2>1, <3>1 DEF IInv, TypeOK
    <3>3. Mixed' => Mixed \/ selected = None
      BY <2>1, <2>3, <2>4, <3>1 DEF Taken, Mixed, IInv, TypeOK
    <3> QED BY <1>1, <2>2, <2>3, <3>2, <3>3 DEF Sound, IInv, TypeOK, Caches, sideVars
  <2>5. CASE ~Taken(f.id)
    <3>1. UNCHANGED <<owner, loaded>> BY <1>5, <2>5 DEF GotPart
    <3> QED BY <1>1, <2>2, <2>3, <3>1 DEF Sound, IInv, TypeOK, Caches, Mixed, sideVars
  <2> QED BY <2>4, <2>5
<1>6. CASE PartFails(f)
  <2>1. failures' \in 0..MaxErrors BY <1>6 DEF PartFails, IInv, TypeOK
  <2>2. UNCHANGED <<server, resolved, list, row, cache, selectionVars, viewing, changes>>
    BY <1>6 DEF PartFails
  <2> QED BY <1>1, <2>1, <2>2 DEF Sound, IInv, TypeOK, Mixed, selectionVars
<1> QED BY <1>3, <1>4, <1>5, <1>6 DEF Answered

(* An entry grows old, or PagerDuty changes an incident.                   *)
LEMMA TimeKeeps ==
    ASSUME IInv, NEW i \in Incidents, Expire(i) \/ Change(i) PROVE Sound
<1> USE DetailsAssumption
<1>1. CASE Expire(i)
  <2>1. cache' \in Caches BY <1>1 DEF Expire, Caches, Entries, IInv, TypeOK
  <2>2. UNCHANGED <<list, row, selectionVars, viewing, fetches, sideVars>>
    BY <1>1 DEF Expire
  <2> QED BY <2>1, <2>2 DEF Sound, IInv, TypeOK, Caches, Mixed, selectionVars, sideVars
<1>2. CASE Change(i)
  <2>1. /\ changes < MaxChanges /\ changes' = changes + 1
        /\ server' = [server EXCEPT ![i] = server[i] + 1]
        /\ resolved' \subseteq Incidents
        /\ UNCHANGED <<list, row, cache, selectionVars, viewing, fetches, failures>>
    BY <1>2 DEF Change, IInv, TypeOK
  <2>2. changes' \in 0..MaxChanges BY <2>1 DEF IInv, TypeOK
  <2>3. server[i] + 1 \in 1..MaxVersion BY <2>1 DEF IInv, TypeOK, MaxVersion
  <2>4. server' \in [Incidents -> 1..MaxVersion] BY <2>1, <2>3 DEF IInv, TypeOK
  <2>5. \A n \in Incidents : server'[n] <= changes' + 1
    BY <2>1 DEF IInv, TypeOK, MaxVersion
  <2> QED BY <2>1, <2>2, <2>4, <2>5 DEF Sound, IInv, TypeOK, Mixed, selectionVars
<1> QED BY <1>1, <1>2

-----------------------------------------------------------------------------
LEMMA StepIsSound == ASSUME IInv, Next PROVE Sound
BY ListKeeps, AskKeeps, ViewKeeps, AnswerKeeps, TimeKeeps DEF Next

(* The types hold for any number of incidents, changes and failures.       *)
THEOREM Inductive == Spec => []IInv
<1>1. ASSUME Init PROVE IInv
  <2> USE DetailsAssumption
  <2>1. /\ server \in [Incidents -> 1..MaxVersion] /\ resolved \subseteq Incidents
        /\ list \in [Incidents -> 0..MaxVersion] /\ version \in -1..MaxVersion
        /\ changes \in 0..MaxChanges /\ failures \in 0..MaxErrors
    BY <1>1 DEF Init, MaxVersion
  <2>2. cache \in [Incidents -> Entries]
    <3>1. NoEntry \in Entries
      BY DEF NoEntry, Entries, MaxVersion
    <3> QED BY <1>1, <3>1 DEF Init
  <2>3. /\ owner \in [Parts -> Incidents \cup {None}] /\ loaded = {} /\ fetches = {}
        /\ row = None /\ selected = None /\ viewing = FALSE
    BY <1>1 DEF Init
  <2>4. \A i \in Incidents : server[i] <= changes + 1 BY <1>1 DEF Init
  <2> QED BY <2>1, <2>2, <2>3, <2>4 DEF IInv, TypeOK
<1>2. IInv /\ [Next]_vars => IInv'
  <2>1. ASSUME IInv, Next PROVE IInv' BY <2>1, StepIsSound DEF Sound
  <2>2. ASSUME IInv, UNCHANGED vars PROVE IInv' BY <2>2 DEF IInv, TypeOK, vars
  <2> QED BY <2>1, <2>2
<1> QED BY <1>1, <1>2, PTL DEF Spec

(* TypeOK, with the owner of whatever counts as loaded.                    *)
THEOREM TypeCorrect == Spec => []TypeOK
<1>1. IInv => TypeOK BY DEF IInv
<1> QED BY Inductive, <1>1, PTL

(* Notes and alerts of one incident come to count as those of another only *)
(* while nothing is selected.                                              *)
THEOREM MixUpsNeedNoSelection == Spec => MixedOnlyUnselected
<1>1. IInv /\ [Next]_vars => [Mixed' => Mixed \/ selected = None]_vars
  BY StepIsSound DEF Sound
<1> QED BY Inductive, <1>1, PTL DEF Spec, MixedOnlyUnselected
=============================================================================
