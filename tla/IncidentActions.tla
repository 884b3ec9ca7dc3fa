-------------------------- MODULE IncidentActions --------------------------
(***************************************************************************)
(* The incident table of pkg/tui and the actions taken from it: which row  *)
(* is highlighted, which incident is selected, the y/n prompt, and the     *)
(* commands in flight.                                                     *)
(*                                                                         *)
(* Every handler of Update is one step.  A tea.Cmd runs on a goroutine of  *)
(* its own and its message arrives when it will, so net is a set of        *)
(* chains, the head of any of which may come next; a chain of several is a *)
(* tea.Sequence.  The table shows every listed incident in the order of    *)
(* PagerDuty; what the details of an incident say is left out, and so is   *)
(* the cache of them: a prefetch may or may not be needed.  Equal chains   *)
(* under way at the same time are one.                                     *)
(***************************************************************************)
EXTENDS Integers, Sequences, FiniteSets

CONSTANTS
    Incidents,   \* incident ids
    None,        \* no incident, no prompt, no form
    Order,       \* where each comes in the list of PagerDuty
    MaxChanges,  \* bound of the model: changes on PagerDuty's side
    MaxInputs    \* bound of the model: timed refreshes, and keys that start something

ASSUME ActionsAssumption ==
    /\ None \notin Incidents /\ \A S \in SUBSET Incidents : S # None
    /\ IsFiniteSet(Incidents) /\ Order \in [Incidents -> Nat]
    /\ \A i, j \in Incidents : Order[i] = Order[j] => i = j
    /\ {MaxChanges, MaxInputs} \subseteq Nat

VARIABLES
    server,      \* PagerDuty: the open incidents and those the user must ack
    list,        \* incidentList
    cursor,      \* row of the table cursor, 0 for none; 1 in a new table
    selected,    \* selectedIncident
    viewing,     \* viewingIncident
    prompt,      \* pendingConfirmation and what it says
    form,        \* options of the bulk silence form
    net,         \* chains of messages under way
    changes, inputs,
    last         \* history: the last bulk silence or swept acknowledgement

bounds == <<changes, inputs>>
ui == <<list, cursor, selected, viewing, prompt, form>>
vars == <<server, ui, net, bounds, last>>

Snapshots == [all : SUBSET Incidents, todo : SUBSET Incidents]
Maybe(S) == S \cup {None}

(* The row of a listed incident counts it and those before it.             *)
Rows(l) == Cardinality(l.all)
RowOf(l, i) == Cardinality({j \in l.all : Order[j] <= Order[i]})
RowIn(l, k) ==
    IF \E i \in l.all : RowOf(l, i) = k
    THEN CHOOSE i \in l.all : RowOf(l, i) = k ELSE None
Highlighted == RowIn(list, cursor)

(* An action message: the incidents it carries, None to mean the selected  *)
(* one; who asked for it; and what whoever asked was told it would act on. *)
Ask(act, of, from, named) ==
    [m |-> act, of |-> of, from |-> from, named |-> named]
Fetched(i) == [m |-> "gotIncident", id |-> i]
Listed(l) == [m |-> "updatedIncidentList", got |-> l]
Acted(ids) == [m |-> "acted", ids |-> ids]
OnCallCheck(ids) == [m |-> "checkOnCall", ids |-> ids]
Clear == [m |-> "clearSelectedIncidents"]
Render == [m |-> "renderIncident"]
Rendered == [m |-> "renderedIncident"]

TypeOK ==
    /\ server \in Snapshots /\ list \in Snapshots
    /\ cursor \in 0..Rows(list) \cup {1}
    /\ selected \in Maybe(Incidents)
    /\ viewing \in BOOLEAN
    /\ prompt \in Maybe([m : {"silence", "reescalate", "bulk"},
                         of : Maybe(SUBSET Incidents), from : {"prompt", "form"},
                         named : SUBSET Incidents])
    /\ form \in Maybe(Snapshots)
    /\ \A c \in net : c # <<>>
    /\ changes \in 0..MaxChanges /\ inputs \in 0..MaxInputs
    /\ last.hit \subseteq Incidents /\ last.named \subseteq Incidents

Init ==
    /\ server \in {s \in Snapshots : s.todo \subseteq s.all}
    /\ list = [all |-> {}, todo |-> {}]
    /\ cursor = 1 /\ selected = None /\ viewing = FALSE
    /\ prompt = None /\ form = None
    /\ net = {<<Listed(server)>>}
    /\ changes = 0 /\ inputs = 0
    /\ last = [from |-> "nobody", hit |-> {}, named |-> {}]

Send(chains) == net' = net \cup chains

-----------------------------------------------------------------------------
(* PagerDuty changes by itself and is polled.                              *)

ServerChanges ==
    /\ changes < MaxChanges /\ changes' = changes + 1
    /\ \E i \in Incidents :
          server' = IF i \in server.all
                    THEN [all |-> server.all \ {i}, todo |-> server.todo \ {i}]
                    ELSE [all |-> server.all \cup {i}, todo |-> server.todo \cup {i}]
    /\ UNCHANGED <<ui, net, inputs, last>>

Poll ==
    /\ inputs < MaxInputs /\ inputs' = inputs + 1
    /\ Send({<<Listed(server)>>})
    /\ UNCHANGED <<server, ui, changes, last>>

-----------------------------------------------------------------------------
(* Messages.                                                               *)

(* The rest of a chain follows once its head has been handled.             *)
Take(c, chains) ==
    net' = (net \ {c}) \cup chains
           \cup (IF Len(c) > 1 THEN {Tail(c)} ELSE {})

Is(c, m) == Head(c).m = m

(* A prefetch follows when the incident newly selected is not in the cache. *)
Prefetch(i) == {{}} \cup (IF i \in Incidents THEN {{<<Fetched(i)>>}} ELSE {})

Unclamped(k, n) == k
Clamped(k, n) == IF k > n THEN n ELSE k

NotRestored(h, l) == Clamped(cursor, Rows(l))

(* SetRows clamps the cursor, and it returns to the incident it was on.    *)
Restored(h, l) ==
    IF h \in l.all THEN RowOf(l, h) ELSE Clamped(cursor, Rows(l))

(* The sweep of a refresh: those to acknowledge, if the user is on call.   *)
Sweep(l) == IF l.todo = {} THEN {} ELSE {<<OnCallCheck(l.todo)>>}

ListArrives(c) ==
    /\ Is(c, "updatedIncidentList")
    /\ LET l == Head(c).got
           k == Restored(Highlighted, l)
       IN /\ list' = l
          /\ cursor' = k
          /\ selected' = RowIn(l, k)
          /\ \E fetch \in Prefetch(IF selected' = selected THEN None ELSE selected'),
                sweep \in {{}, Sweep(l)} :   \* autoAcknowledge is a toggle
                Take(c, fetch \cup sweep)
    /\ UNCHANGED <<server, viewing, prompt, form, bounds, last>>

OffCall(ids) == {}

OnCallChecked(c) ==
    /\ Is(c, "checkOnCall")
    /\ \/ Take(c, {<<Ask("ack", Head(c).ids, "sweep", Head(c).ids)>>})
       \/ Take(c, OffCall(Head(c).ids))
    /\ UNCHANGED <<server, ui, bounds, last>>

ClearSelected ==
    /\ selected' = None /\ viewing' = FALSE /\ prompt' = None

Cleared(c) ==
    /\ Is(c, "clearSelectedIncidents")
    /\ ClearSelected
    /\ Take(c, {})
    /\ UNCHANGED <<server, list, cursor, form, bounds, last>>

(* Details are taken over when nothing or the same incident is selected.   *)
GotIncident(c) ==
    /\ Is(c, "gotIncident")
    /\ \/ /\ selected \in {None, Head(c).id}
          /\ selected' = Head(c).id /\ UNCHANGED viewing
          /\ Take(c, IF viewing THEN {<<Render>>} ELSE {})
       \/ /\ selected \notin {None, Head(c).id}
          /\ UNCHANGED <<selected, viewing>>
          /\ Take(c, {})
       \/ /\ selected' = None /\ viewing' = FALSE   \* the fetch failed
          /\ Take(c, {})
    /\ UNCHANGED <<server, list, cursor, prompt, form, bounds, last>>

RenderIncident(c) ==
    /\ Is(c, "renderIncident")
    /\ viewing' = (viewing /\ selected # None)
    /\ Take(c, IF selected = None THEN {} ELSE {<<Rendered>>})
    /\ UNCHANGED <<server, list, cursor, selected, prompt, form, bounds, last>>

RenderedIncident(c) ==
    /\ Is(c, "renderedIncident")
    /\ viewing' = (viewing \/ selected # None)
    /\ Take(c, {})
    /\ UNCHANGED <<server, list, cursor, selected, prompt, form, bounds, last>>

(* What the request acts on when its message is handled, and the calls and *)
(* clearing messages each action sends.                                    *)
Target(of) ==
    IF of # None THEN of ELSE IF selected = None THEN {} ELSE {selected}

Calls(m, hit) ==
    CASE m \in {"ack", "reescalate"} -> {<<Acted(hit), Clear>>}
      [] m = "silence" -> {<<Acted(hit), Clear>>, <<Clear>>}
      [] m = "bulk" -> {<<Acted({i}), Clear>> : i \in hit} \cup {<<Clear>>}

Act(c) ==
    /\ Head(c).m \in {"ack", "silence", "reescalate", "bulk"}
    /\ LET hit == Target(Head(c).of)
       IN IF hit = {}
          THEN Take(c, {}) /\ UNCHANGED last
          ELSE /\ Take(c, Calls(Head(c).m, hit))
               /\ last' = IF Head(c).from \in {"form", "sweep"}
                          THEN [from |-> Head(c).from, hit |-> hit,
                                named |-> Head(c).named]
                          ELSE last
    /\ UNCHANGED <<server, ui, bounds>>

(* The call reached PagerDuty and a refresh follows, or it failed.         *)
CallReturns(c) ==
    /\ Is(c, "acted")
    /\ \/ /\ server' = [server EXCEPT !.todo = @ \ Head(c).ids]
          /\ Take(c, {<<Listed(server')>>})
       \/ Take(c, {}) /\ UNCHANGED server
    /\ UNCHANGED <<ui, bounds, last>>

-----------------------------------------------------------------------------
(* Keys.  A prompt takes every key; so does the form.                      *)

Key ==
    /\ prompt = None /\ form = None
    /\ inputs < MaxInputs /\ inputs' = inputs + 1
    /\ UNCHANGED <<server, list, changes, last>>
TableKey == Key /\ ~viewing
ViewKey == Key /\ viewing

(* syncSelectedIncidentToHighlightedRow                                    *)
Sync(k) == selected' = RowIn(list, k)

MoveTo ==
    /\ TableKey
    /\ \E k \in 1..Rows(list) :
          /\ cursor' = k
          /\ Sync(k)
          /\ \E fetch \in Prefetch(IF selected' = selected THEN None ELSE selected') :
                Send(fetch)
    /\ UNCHANGED <<viewing, prompt, form>>

Refresh ==
    /\ TableKey
    /\ ClearSelected
    /\ Send({<<Listed(server)>>})
    /\ UNCHANGED <<cursor, form>>

Enter ==
    /\ TableKey /\ Highlighted # None
    /\ selected' = Highlighted /\ viewing' = TRUE
    /\ Send({<<Render, Fetched(Highlighted)>>})
    /\ UNCHANGED <<cursor, prompt, form>>

Confirm(m, i) == prompt' = Ask(m, None, "prompt", {i})

AskFromTable ==
    /\ TableKey /\ Highlighted # None
    /\ Sync(cursor)
    /\ \E m \in {"silence", "reescalate"} : Confirm(m, Highlighted)
    /\ UNCHANGED <<cursor, viewing, form, net>>

AckFromTable ==
    /\ TableKey /\ Highlighted # None
    /\ Sync(cursor)
    /\ Send({<<Ask("ack", None, "key", {})>>})
    /\ UNCHANGED <<cursor, viewing, prompt, form>>

AskFromView ==
    /\ ViewKey /\ selected # None
    /\ \E m \in {"silence", "reescalate"} : Confirm(m, selected)
    /\ UNCHANGED <<cursor, selected, viewing, form, net>>

AckFromView ==
    /\ ViewKey /\ selected # None
    /\ Send({<<Ask("ack", None, "key", {})>>})
    /\ UNCHANGED <<cursor, selected, viewing, prompt, form>>

(* Closing the view clears the selection and syncs it with the row again.  *)
Back ==
    /\ ViewKey
    /\ selected' = Highlighted /\ viewing' = FALSE
    /\ \E fetch \in Prefetch(Highlighted) : Send(fetch)
    /\ UNCHANGED <<cursor, prompt, form>>

(* The chord and the message it sends are one step: both open the form.    *)
EnterBulkSilence ==
    /\ Key /\ list.all # {}
    /\ form' = list
    /\ UNCHANGED <<cursor, selected, viewing, prompt, net>>

PickedByPosition(chosen) ==
    {RowIn(list, RowOf(form, i)) : i \in chosen} \ {None}

(* What a completed form selects: the ids chosen that are listed still.    *)
(* That huh reports the form as completed is taken as given here.          *)
Picked(chosen) == chosen \cap list.all

FormDone ==
    /\ prompt = None /\ form # None
    /\ form' = None
    /\ \E chosen \in SUBSET form.all :
          prompt' = IF chosen = {} THEN None
                    ELSE Ask("bulk", Picked(chosen), "form", chosen)
    /\ UNCHANGED <<server, list, cursor, selected, viewing, net, bounds, last>>

Yes ==
    /\ prompt # None
    /\ prompt' = None
    /\ Send({<<prompt>>})
    /\ UNCHANGED <<server, list, cursor, selected, viewing, form, bounds, last>>

No ==
    /\ prompt # None
    /\ prompt' = None
    /\ UNCHANGED <<server, list, cursor, selected, viewing, form, net, bounds, last>>

-----------------------------------------------------------------------------
Deliver(c) ==
    \/ ListArrives(c) \/ OnCallChecked(c) \/ Cleared(c) \/ GotIncident(c)
    \/ RenderIncident(c) \/ RenderedIncident(c) \/ Act(c) \/ CallReturns(c)

Next ==
    \/ ServerChanges \/ Poll
    \/ \E c \in net : Deliver(c)
    \/ MoveTo \/ Refresh \/ Enter \/ Back
    \/ AskFromTable \/ AskFromView \/ AckFromTable \/ AckFromView
    \/ EnterBulkSilence \/ FormDone \/ Yes \/ No

Spec == Init /\ [][Next]_vars

-----------------------------------------------------------------------------
(* A bulk silence reaches no incident that its prompt did not name,        *)
(* however the list changed while form and prompt were open; and an        *)
(* acknowledgement nobody asked for reaches only incidents that the        *)
(* refresh behind it found assigned and unacknowledged, and none when the  *)
(* user is off call: never the incident that happens to be selected.       *)
HitsNamed == last.from \in {"form", "sweep"} => last.hit \subseteq last.named

(* A refresh that still lists the highlighted and selected incident leaves *)
(* both where they are, whatever moved above it.                           *)
RefreshKeepsSelection ==
    [][/\ list' # list
       /\ Highlighted # None /\ selected = Highlighted
       /\ Highlighted \in list'.all
       => selected' = selected /\ Highlighted' = Highlighted]_vars

(* While a prompt is open, what y would act on is what the prompt names    *)
(* (docs/plans/015-confirmation-prompts.md), whatever has arrived since.   *)
ConfirmedTarget == prompt # None => Target(prompt.of) \subseteq prompt.named

=============================================================================
