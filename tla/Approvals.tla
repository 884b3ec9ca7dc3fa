----------------------------- MODULE Approvals -----------------------------
(***************************************************************************)
(* From an observation to an approved action (pkg/tui/watcher.go,          *)
(* investigation.go, tui.go, model.go, approvals.go, msgHandlers.go).      *)
(*                                                                         *)
(* An investigation carries the incidents that set it off.  Its verdict    *)
(* becomes an ask in the strip of pending approvals, and an approved ask   *)
(* runs much later, when the list and the selection have moved on.  What   *)
(* an ask does is decided by the registry, the holder that every change of *)
(* the list or the selection is published into.                            *)
(***************************************************************************)
EXTENDS Naturals, SequencesExt

CONSTANTS Incidents,
          None,       \* no incident
          MaxRuns,    \* bound on investigations
          MaxPolls    \* bound on polls

ApprovalsAssumption ==
    /\ IsFiniteSet(Incidents) /\ None \notin Incidents
    /\ {MaxRuns, MaxPolls} \subseteq Nat

Actions == {"note", "command", "escalation"}

VARIABLES
    list,      \* incidentList
    selected,  \* selectedIncident
    registry,  \* incidentRegistry: the list and the selection last published
    runs,      \* investigations under way: the incidents that set them off
    strip,     \* approvals.asks
    cursor,    \* approvals.selected, from 0
    expanded,  \* approvalsExpanded
    approved,  \* commands of approved asks under way
    acted,     \* what was posted or re-escalated, and for whose observation
    polls, made \* counted for their bounds

vars == <<list, selected, registry, runs, strip, cursor, expanded, approved,
          acted, polls, made>>

Asks == [kind : Actions, incident : Incidents \cup {None}, origin : SUBSET Incidents]

TypeOK ==
    /\ list \subseteq Incidents /\ selected \in Incidents \cup {None}
    /\ registry \in [list : SUBSET Incidents, selected : Incidents \cup {None}]
    /\ \A r \in runs : r.ids \in Seq(Incidents)
    /\ strip \in Seq(Asks)
    /\ cursor \in 0..Len(strip) /\ (strip # <<>> => cursor < Len(strip))
    /\ expanded \in BOOLEAN
    /\ approved \subseteq Asks
    /\ acted \subseteq [on : Incidents, origin : SUBSET Incidents]
    /\ polls \in 0..MaxPolls /\ made \in 0..MaxRuns

Init ==
    /\ list = {} /\ selected = None
    /\ registry = [list |-> {}, selected |-> None]
    /\ runs = {} /\ strip = <<>> /\ cursor = 0 /\ expanded = FALSE
    /\ approved = {} /\ acted = {} /\ polls = 0 /\ made = 0

-----------------------------------------------------------------------------
(* incidentRegistry *)
Publish(l, s) == registry' = [list |-> l, selected |-> s]

\* mutant: falls back on whatever is selected
LookupSelected(id) == IF id \in registry.list THEN id ELSE registry.selected
Lookup(id) ==
    IF id \in registry.list \/ registry.selected = id THEN id ELSE None

(* The tail of a poll and every move in the table: the highlighted row is  *)
(* selected, and list and selection are published.                         *)
Sync(l, s) == selected' = s /\ Publish(l, s)

Poll(l) ==
    /\ polls < MaxPolls /\ polls' = polls + 1
    /\ list' = l
    /\ \E s \in IF l = {} THEN {None} ELSE l : Sync(l, s)
    /\ IF Cardinality(l) >= 2 /\ made < MaxRuns
       THEN /\ made' = made + 1     \* runDetectors, on what sets it off
            /\ \E ids \in SetToSeqs(l) : runs' = runs \cup {[ids |-> ids]}
       ELSE UNCHANGED <<made, runs>>
    /\ UNCHANGED <<strip, cursor, expanded, approved, acted>>

Move(s) ==
    /\ s \in list /\ Sync(list, s)
    /\ UNCHANGED <<list, runs, strip, cursor, expanded, approved, acted, polls,
                   made>>

(* clearSelectedIncident does not publish.                                 *)
Clear ==
    /\ selected' = None
    /\ UNCHANGED <<list, registry, runs, strip, cursor, expanded, approved, acted,
                   polls, made>>

-----------------------------------------------------------------------------
(* buildAskFromVerdict: the ask belongs to the first incident of those     *)
(* that set the investigation off, still in the list or not.               *)
Target(ids) == IF ids # <<>> THEN Head(ids) ELSE selected

BuildAsk(kind, ids) ==
    [kind |-> kind, incident |-> Target(ids), origin |-> ToSet(ids)]

(* An investigation times out or fails, or answers with or without a       *)
(* verdict that suggests an action.                                        *)
Outcomes == Actions \cup {"nothing", "error"}
Suggests(outcome) == outcome \in Actions

Verdict(run) ==
    /\ run \in runs /\ runs' = runs \ {run}
    /\ \E outcome \in Outcomes :
         IF Suggests(outcome)
         THEN /\ strip' = Append(strip, BuildAsk(outcome, run.ids))
              /\ Publish(list, selected)
         ELSE UNCHANGED <<strip, registry>>
    /\ UNCHANGED <<list, selected, cursor, expanded, approved, acted, polls, made>>

-----------------------------------------------------------------------------
(* The strip.  cursor counts from 0.                                       *)
Open ==
    /\ strip # <<>> /\ expanded' = TRUE
    /\ UNCHANGED <<list, selected, registry, runs, strip, cursor, approved, acted,
                   polls, made>>

Close ==
    /\ expanded /\ expanded' = FALSE
    /\ UNCHANGED <<list, selected, registry, runs, strip, cursor, approved, acted,
                   polls, made>>

MoveUp ==
    /\ expanded /\ cursor > 0 /\ cursor' = cursor - 1
    /\ UNCHANGED <<list, selected, registry, runs, strip, expanded, approved,
                   acted, polls, made>>

MoveDown ==
    /\ expanded /\ cursor + 1 < Len(strip) /\ cursor' = cursor + 1
    /\ UNCHANGED <<list, selected, registry, runs, strip, expanded, approved,
                   acted, polls, made>>

Unclamped(c, n) == c   \* mutant: leaves the cursor where it was
Clamped(c, n) == IF c >= n /\ c > 0 THEN n - 1 ELSE c

(* remove, and the pane that closes behind the last ask                    *)
TakeOut ==
    /\ expanded /\ cursor < Len(strip)
    /\ strip' = RemoveAt(strip, cursor + 1)
    /\ cursor' = Clamped(cursor, Len(strip'))
    /\ expanded' = (strip' # <<>>)
    /\ UNCHANGED <<list, selected, registry, runs, acted, polls, made>>

(* Accept: the action of the ask becomes a command; a suggested command is *)
(* only shown, and so is the refusal of an ask that names no incident.     *)
Accept ==
    /\ TakeOut
    /\ LET ask == strip[cursor + 1] IN
         approved' = IF ask.kind = "command" \/ ask.incident = None
                     THEN approved ELSE approved \cup {ask}

Dismiss == TakeOut /\ UNCHANGED approved

(* postAINoteToIncidentCmd *)
PostNote(ask) ==
    /\ ask \in approved /\ ask.kind = "note"
    /\ approved' = approved \ {ask}
    /\ acted' \in {acted, acted \cup {[on |-> ask.incident, origin |-> ask.origin]}}
    /\ UNCHANGED <<list, selected, registry, runs, strip, cursor, expanded, polls,
                   made>>

(* reEscalateIncidentByIDCmd: an incident that left the queue is fetched,  *)
(* and a failed fetch re-escalates nothing.                                *)
Escalate(ask) ==
    /\ ask \in approved /\ ask.kind = "escalation"
    /\ approved' = approved \ {ask}
    /\ LET found == Lookup(ask.incident)
           hit == [on |-> IF found # None THEN found ELSE ask.incident,
                   origin |-> ask.origin]
       IN  \/ acted' = acted \cup {hit}
           \/ found = None /\ UNCHANGED acted
    /\ UNCHANGED <<list, selected, registry, runs, strip, cursor, expanded, polls,
                   made>>

-----------------------------------------------------------------------------
Next ==
    \/ \E l \in SUBSET Incidents : Poll(l)
    \/ \E s \in Incidents : Move(s)
    \/ \E run \in runs : Verdict(run)
    \/ \E ask \in approved : PostNote(ask) \/ Escalate(ask)
    \/ Clear \/ Open \/ Close \/ MoveUp \/ MoveDown \/ Accept \/ Dismiss

Spec == Init /\ [][Next]_vars

-----------------------------------------------------------------------------
(* An approved note or re-escalation hits an incident that set off the     *)
(* investigation which proposed it, however far the list, the selection    *)
(* and the strip have moved since (model.go, the comment of                *)
(* reEscalateIncidentByIDCmd).                                             *)
ActsOnOrigin == \A a \in acted : a.on \in a.origin
=============================================================================
