------------------------------ MODULE KeyModes ------------------------------
(***************************************************************************)
(* Who gets a key, and what opens and closes the views.                    *)
(*                                                                         *)
(* The model of the terminal program holds one Boolean per view, form,     *)
(* prompt and input line (pkg/tui/model.go).  keyMsgHandler passes a key   *)
(* to the first open one in a fixed order, and messages that were asked    *)
(* for earlier open and close them at any later moment.  A table key works *)
(* only while the table has the focus.                                     *)
(*                                                                         *)
(* Keys stand for the bindings of keymap.go.  What a key does to the data  *)
(* is left to other modules; here it opens, closes and posts messages.     *)
(***************************************************************************)
EXTENDS Naturals, Sequences, FiniteSets

CONSTANTS MaxOpen,     \* bound on what is open at once
          MaxPosted    \* bound on the messages on their way

ASSUME KeyModesAssumption == MaxOpen \in Nat /\ MaxPosted \in Nat

Modes == {"tour", "config", "bulk", "team", "cluster", "merge", "log", "docs",
          "incident", "confirm", "chat", "chord", "input", "err", "approvals"}

Keys == {"quit", "esc", "enter", "y", "n", "text", "toggle", "tag", "prefix",
         "log", "bulk", "rosa", "input", "approvals", "merge", "login", "act",
         "docs", "refresh", "tab"}

\* Messages that open, close or change a view when they are handled.
Messages == {"logFileContent", "renderDocs", "renderedDocs", "renderIncident",
             "renderedIncident", "errMsg", "clearSelected", "fetchedTeams",
             "configWizardReady", "configSaved", "enterBulkSilence", "login",
             "rosaLogin", "mergeIncident", "listFlags", "huh"}

VARIABLES
    open,          \* the Booleans that are set
    prompt,        \* what the pending confirmation does: "act" or "merge"
    tableFocused,  \* table.Focused()
    rows,          \* the table has a row to highlight
    selected,      \* selectedIncident is set
    tagging,       \* tagInputActive
    backToIncident,\* docsReturnToIncident
    rosa,          \* rosaBoundaryClusterSelect
    source,        \* mergeSourceIncident is set
    answered,      \* the huh forms whose State is StateCompleted
    posted,        \* messages on their way
    running,       \* tea.Quit was not returned
    pressed        \* history: flips with every key

vars == <<open, prompt, tableFocused, rows, selected, tagging, backToIncident,
          rosa, source, answered, posted, running, pressed>>

TypeOK ==
    /\ open \subseteq Modes
    /\ prompt \in {"act", "merge"}
    /\ tableFocused \in BOOLEAN /\ rows \in BOOLEAN /\ selected \in BOOLEAN
    /\ tagging \in BOOLEAN /\ backToIncident \in BOOLEAN /\ rosa \in BOOLEAN
    /\ source \in BOOLEAN /\ running \in BOOLEAN /\ pressed \in BOOLEAN
    /\ answered \subseteq {"bulk", "team"}
    /\ posted \subseteq Messages

Init ==
    /\ open = {} /\ prompt = "act" /\ tableFocused = TRUE
    /\ rows = FALSE /\ selected = FALSE /\ tagging = FALSE
    /\ backToIncident = FALSE /\ rosa = FALSE /\ source = FALSE
    /\ answered = {} /\ running = TRUE /\ pressed = FALSE
    /\ posted \in {{}, {"fetchedTeams"}, {"configWizardReady"}}

-----------------------------------------------------------------------------
(* The order in which keyMsgHandler asks.  A pending chord is looked at    *)
(* only outside the input line, the error view and the cluster selection.  *)
ChordsOn == open \cap {"input", "err", "cluster"} = {}

Order == <<"confirm", "chat", "chord", "input", "tour", "config", "bulk",
           "team", "err", "cluster", "merge", "log", "docs", "incident",
           "approvals">>

FirstOf(order, set) ==
    LET hits == SelectSeq(order, LAMBDA m : m \in set)
    IN  IF hits = <<>> THEN "table" ELSE Head(hits)

Owner == FirstOf(Order, IF ChordsOn THEN open ELSE open \ {"chord"})

Opens(set) == open' = open \cup set
Closes(set) == open' = open \ set
Posts(set) == posted' = posted \cup set

\* The input line belongs to the global bindings of a key in every view.
GlobalKeys == {"quit", "toggle", "tag"} \cup IF ChordsOn THEN {"prefix"} ELSE {}

keyVars == <<prompt, tagging, backToIncident, rosa, source, answered>>
listVars == <<rows, selected>>

(* clearSelectedIncident: what a refresh, a closed view and every finished *)
(* action do.  It also drops a prompt and a cluster selection, but neither *)
(* the rosa-boundary flag of the latter nor the focus of the table.        *)
ClearSelectedIncident ==
    /\ Closes({"incident", "confirm", "cluster"})
    /\ selected' = FALSE

-----------------------------------------------------------------------------
(* The handlers, one per owner.  Each says what key k does.                *)

(* handleConfirmationInput *)
ConfirmKey(k) ==
    /\ Owner = "confirm"
    /\ IF k \in {"y", "n", "esc"} THEN Closes({"confirm"}) ELSE UNCHANGED open
    /\ CASE k = "y" /\ prompt = "merge" -> Posts({"mergeIncident"})
         [] k = "y" /\ prompt = "act" -> Posts({"clearSelected"})
         [] OTHER -> UNCHANGED posted
    /\ UNCHANGED <<keyVars, listVars, tableFocused>>

(* switchChatFocusMode *)
ChatKey(k) ==
    /\ Owner = "chat"
    /\ IF k = "esc" THEN Closes({"chat"}) /\ tableFocused' = TRUE
                    ELSE UNCHANGED <<open, tableFocused>>
    /\ UNCHANGED <<keyVars, listVars, posted>>

(* The second key of a chord; the login needs a row or an open incident.   *)
ChordKey(k) ==
    /\ Owner = "chord"
    /\ Closes({"chord"})
    /\ CASE k = "log" -> Posts({"logFileContent"})
         [] k = "bulk" /\ rows -> Posts({"enterBulkSilence"})
         [] k = "rosa" /\ (IF "incident" \in open THEN selected ELSE rows) ->
                posted' \in {posted, posted \cup {"rosaLogin"}}
         [] OTHER -> UNCHANGED posted
    /\ UNCHANGED <<keyVars, listVars, tableFocused>>

(* switchInputFocusMode: the line is a tag, a command or nothing.          *)
Commands == {"", "agent", "flags", "tour", "other"}
InputKey(k) ==
    /\ Owner = "input"
    /\ IF k \notin {"esc", "enter"}
       THEN UNCHANGED <<open, tableFocused, tagging, posted>>
       ELSE \E c \in IF k = "esc" \/ tagging THEN {"other"} ELSE Commands :
              /\ open' = (open \ {"input"}) \cup
                         CASE c = "agent" -> {"chat"} [] c = "tour" -> {"tour"}
                           [] OTHER -> {}
              /\ tableFocused' = (c # "tour")
              /\ tagging' = FALSE
              /\ IF c = "flags" THEN Posts({"listFlags"}) ELSE UNCHANGED posted
    /\ UNCHANGED <<prompt, backToIncident, rosa, source, answered, listVars>>

(* The global bindings, taken before every view below.                     *)
GlobalKey(k) ==
    /\ Owner \notin {"confirm", "chat", "chord", "input"}
    /\ k \in GlobalKeys \ {"quit"}
    /\ CASE k = "prefix" -> Opens({"chord"}) /\ UNCHANGED tagging
         [] k = "tag" /\ rows -> Opens({"input"}) /\ tagging' = TRUE
         [] OTHER -> UNCHANGED <<open, tagging>>
    /\ UNCHANGED <<prompt, backToIncident, rosa, source, answered, listVars,
                   tableFocused, posted>>

(* switchTourFocusMode: esc leaves, most keys go on, the last step ends.   *)
TourKey(k) ==
    /\ Owner = "tour"
    /\ \/ Closes({"tour"}) /\ tableFocused' = TRUE
       \/ k # "esc" /\ UNCHANGED <<open, tableFocused>>
    /\ UNCHANGED <<keyVars, listVars, posted>>

(* The huh forms take every key.  Enter makes the form send itself a       *)
(* message; a form that was answered is looked at when the next key comes. *)
FormKey(k) ==
    /\ Owner \in {"config", "bulk", "team"}
    /\ IF Owner \in answered
       THEN /\ tableFocused' = TRUE
            /\ answered' = answered \ {Owner}
            /\ \/ Owner = "bulk" /\ prompt' = "act"
                  /\ open' = (open \ {"bulk"}) \cup {"confirm"}
               \/ Closes({Owner}) /\ UNCHANGED prompt
            /\ UNCHANGED posted
       ELSE /\ IF k = "enter" THEN Posts({"huh"}) ELSE UNCHANGED posted
            /\ UNCHANGED <<open, tableFocused, answered, prompt>>
    /\ UNCHANGED <<tagging, backToIncident, rosa, source, listVars>>

(* switchErrorFocusMode *)
ErrorKey(k) ==
    /\ Owner = "err"
    /\ IF k = "esc" THEN Closes({"err"}) ELSE UNCHANGED open
    /\ UNCHANGED <<keyVars, listVars, tableFocused, posted>>

(* switchClusterSelectFocusMode *)
ClusterKey(k) ==
    /\ Owner = "cluster"
    /\ IF k \in {"esc", "enter"}
       THEN Closes({"cluster"}) /\ rosa' = FALSE /\ tableFocused' = TRUE
       ELSE UNCHANGED <<open, rosa, tableFocused>>
    /\ UNCHANGED <<prompt, tagging, backToIncident, source, answered, listVars,
                   posted>>

(* switchMergeFocusMode: a chosen target asks for a confirmation on top.   *)
LeaveMergeOpen ==   \* mutant: forgets to leave the mode
    UNCHANGED open /\ source' = FALSE /\ tableFocused' = TRUE
LeaveMerge ==
    Closes({"merge"}) /\ source' = FALSE /\ tableFocused' = TRUE
MergeKey(k) ==
    /\ Owner = "merge"
    /\ CASE k = "esc" -> LeaveMerge /\ UNCHANGED prompt
         [] k = "enter" -> /\ \/ Opens({"confirm"}) /\ prompt' = "merge"
                              \/ UNCHANGED <<open, prompt>>   \* no row
                           /\ UNCHANGED <<source, tableFocused>>
         [] OTHER -> UNCHANGED <<open, source, tableFocused, prompt>>
    /\ UNCHANGED <<tagging, backToIncident, rosa, answered, listVars, posted>>

(* switchLogFocusMode *)
LogKey(k) ==
    /\ Owner = "log"
    /\ IF k = "esc" THEN Closes({"log"}) /\ tableFocused' = TRUE
                    ELSE UNCHANGED <<open, tableFocused>>
    /\ UNCHANGED <<keyVars, listVars, posted>>

(* switchDocsFocusMode: leaving returns to the incident it was opened on.  *)
DocsKey(k) ==
    /\ Owner = "docs"
    /\ IF k \in {"esc", "docs"}
       THEN /\ open' = (open \ {"docs"}) \cup
                       IF backToIncident THEN {"incident"} ELSE {}
            /\ backToIncident' = FALSE
            /\ tableFocused' = TRUE
       ELSE UNCHANGED <<open, backToIncident, tableFocused>>
    /\ IF k = "tab" THEN Posts({"renderDocs"}) ELSE UNCHANGED posted
    /\ UNCHANGED <<prompt, tagging, rosa, source, answered, listVars>>

(* switchIncidentFocusMode: esc selects the highlighted row again.         *)
IncidentKey(k) ==
    /\ Owner = "incident"
    /\ CASE k = "esc" ->
              /\ Closes({"incident", "confirm", "cluster"})
              /\ selected' = rows /\ tableFocused' = TRUE
              /\ UNCHANGED <<prompt, backToIncident, posted>>
         [] k = "act" /\ selected ->     \* silence and re-escalate ask, ack acts
              /\ \/ Opens({"confirm"}) /\ prompt' = "act" /\ UNCHANGED posted
                 \/ Posts({"clearSelected"}) /\ UNCHANGED <<open, prompt>>
              /\ UNCHANGED <<selected, tableFocused, backToIncident>>
         [] k = "login" /\ selected ->
              /\ posted' \in {posted, posted \cup {"login"}}
              /\ UNCHANGED <<open, prompt, selected, tableFocused, backToIncident>>
         [] k = "docs" ->
              /\ open' = (open \ {"incident"}) \cup {"docs"}
              /\ backToIncident' = TRUE
              /\ Posts({"renderDocs"})
              /\ UNCHANGED <<prompt, selected, tableFocused>>
         [] k \in {"tab", "refresh"} ->
              /\ Posts({"renderIncident"})
              /\ UNCHANGED <<open, prompt, selected, tableFocused, backToIncident>>
         [] OTHER ->
              UNCHANGED <<open, prompt, selected, tableFocused, backToIncident, posted>>
    /\ UNCHANGED <<tagging, rosa, source, answered, rows>>

(* switchApprovalsFocusMode: accepting the last ask closes the pane.       *)
ApprovalsKey(k) ==
    /\ Owner = "approvals"
    /\ IF k = "esc" THEN Closes({"approvals"})
       ELSE IF k \in {"enter", "text"} THEN open' \in {open, open \ {"approvals"}}
       ELSE UNCHANGED open
    /\ UNCHANGED <<keyVars, listVars, tableFocused, posted>>

(* switchTableFocusMode: keys that act on an incident select the           *)
(* highlighted row first.                                                  *)
FocusedTableKey(k) ==
    CASE k = "enter" /\ rows ->
           /\ open' = (open \ {"confirm"}) \cup {"incident"}
           /\ selected' = TRUE
           /\ Posts({"renderIncident"})
           /\ UNCHANGED <<keyVars, rows>>
      [] k = "act" /\ rows ->
           /\ selected' = TRUE
           /\ \/ Opens({"confirm"}) /\ prompt' = "act" /\ UNCHANGED posted
              \/ Posts({"clearSelected"}) /\ UNCHANGED <<open, prompt>>
           /\ UNCHANGED <<tagging, backToIncident, rosa, source, answered, rows>>
      [] k = "merge" /\ rows ->
           /\ Opens({"merge"}) /\ source' = TRUE /\ selected' = TRUE
           /\ UNCHANGED <<prompt, tagging, backToIncident, rosa, answered,
                          rows, posted>>
      [] k = "login" /\ rows ->
           /\ selected' = TRUE
           /\ posted' \in {posted, posted \cup {"login"}}
           /\ UNCHANGED <<open, keyVars, rows>>
      [] k = "refresh" ->
           ClearSelectedIncident /\ UNCHANGED <<keyVars, rows, posted>>
      [] k = "log" ->
           Posts({"logFileContent"}) /\ UNCHANGED <<open, keyVars, listVars>>
      [] k = "docs" ->
           /\ Opens({"docs"}) /\ backToIncident' = FALSE
           /\ Posts({"renderDocs"})
           /\ UNCHANGED <<prompt, tagging, rosa, source, answered, listVars>>
      [] OTHER -> UNCHANGED <<open, keyVars, listVars, posted>>

(* The bindings tried before the table, and the table if it has the focus. *)
TableKey(k) ==
    /\ Owner = "table"
    /\ CASE k = "input" ->
              Opens({"input"}) /\ UNCHANGED <<keyVars, listVars, posted>>
         [] k = "approvals" ->
              /\ open' \in {open, open \cup {"approvals"}}
              /\ UNCHANGED <<keyVars, listVars, posted>>
         [] OTHER -> IF tableFocused THEN FocusedTableKey(k)
                     ELSE UNCHANGED <<open, keyVars, listVars, posted>>
    /\ UNCHANGED tableFocused

Quits(k) == k = "quit" /\ Owner # "chord"

(* keyMsgHandler *)
PressKey(k) ==
    /\ running /\ pressed' = ~pressed
    /\ IF Quits(k)
       THEN /\ running' = FALSE
            /\ UNCHANGED <<open, keyVars, listVars, tableFocused, posted>>
       ELSE /\ \/ ConfirmKey(k) \/ ChatKey(k) \/ ChordKey(k) \/ InputKey(k)
               \/ GlobalKey(k)
               \/ /\ k \notin GlobalKeys
                  /\ \/ TourKey(k) \/ FormKey(k) \/ ErrorKey(k) \/ ClusterKey(k)
                     \/ MergeKey(k) \/ LogKey(k) \/ DocsKey(k) \/ IncidentKey(k)
                     \/ ApprovalsKey(k) \/ TableKey(k)
            /\ UNCHANGED running

-----------------------------------------------------------------------------
(* Messages.  Receive(m) takes m off; each handler says the rest.          *)
Receive(m) == running /\ m \in posted /\ posted' = posted \ {m}
Answer(m, reply) ==
    running /\ m \in posted /\ posted' \in {posted \ {m}, (posted \ {m}) \cup {reply}}

LogFileContent ==
    /\ Receive("logFileContent") /\ Opens({"log"})
    /\ UNCHANGED <<keyVars, listVars, tableFocused, running>>

RenderDocs ==
    /\ running /\ "renderDocs" \in posted
    /\ posted' = (posted \ {"renderDocs"}) \cup {"renderedDocs"}
    /\ UNCHANGED <<open, keyVars, listVars, tableFocused, running>>

RenderedDocs ==
    /\ Answer("renderedDocs", "errMsg")
    /\ IF "errMsg" \in posted' \ posted THEN UNCHANGED open ELSE Opens({"docs"})
    /\ UNCHANGED <<keyVars, listVars, tableFocused, running>>

RenderIncident ==
    /\ running /\ "renderIncident" \in posted
    /\ IF selected
       THEN /\ posted' = (posted \ {"renderIncident"}) \cup {"renderedIncident"}
            /\ UNCHANGED open
       ELSE Receive("renderIncident") /\ Closes({"incident"})
    /\ UNCHANGED <<keyVars, listVars, tableFocused, running>>

RenderedIncident ==
    /\ Answer("renderedIncident", "errMsg")
    /\ IF selected /\ "errMsg" \notin posted' \ posted
       THEN Opens({"incident"}) ELSE UNCHANGED open
    /\ UNCHANGED <<keyVars, listVars, tableFocused, running>>

ErrMsg ==
    /\ Receive("errMsg") /\ Opens({"err"})
    /\ UNCHANGED <<keyVars, listVars, tableFocused, running>>

ClearSelectedIncidents ==
    /\ Receive("clearSelected") /\ ClearSelectedIncident
    /\ UNCHANGED <<keyVars, rows, tableFocused, running>>

FetchedTeams ==   \* with an error or no team, only a status is set
    /\ Receive("fetchedTeams")
    /\ open' \in {open, open \cup {"team"}}
    /\ answered' = answered \ (open' \cap {"team"})
    /\ UNCHANGED <<prompt, tagging, backToIncident, rosa, source, listVars,
                   tableFocused, running>>

ConfigWizardReady ==
    /\ Receive("configWizardReady") /\ Opens({"config"})
    /\ UNCHANGED <<keyVars, listVars, tableFocused, running>>

ConfigSaved ==
    /\ Receive("configSaved") /\ Closes({"config"}) /\ tableFocused' = TRUE
    /\ UNCHANGED <<keyVars, listVars, running>>

EnterBulkSilence ==
    /\ Receive("enterBulkSilence")
    /\ IF rows THEN Opens({"bulk"}) /\ answered' = answered \ {"bulk"}
               ELSE UNCHANGED <<open, answered>>
    /\ UNCHANGED <<prompt, tagging, backToIncident, rosa, source, listVars,
                   tableFocused, running>>

(* One cluster logs in at once, several open the selection, and with no    *)
(* alerts yet the message is sent again.                                   *)
Login ==
    /\ \/ running /\ "login" \in posted /\ selected /\ UNCHANGED <<posted, open>>
       \/ Receive("login")
          /\ open' \in IF selected THEN {open, open \cup {"cluster"}} ELSE {open}
    /\ UNCHANGED <<keyVars, listVars, tableFocused, running>>

RosaLogin ==
    /\ Receive("rosaLogin")
    /\ \/ selected /\ Opens({"cluster"}) /\ rosa' = TRUE
       \/ UNCHANGED <<open, rosa>>
    /\ UNCHANGED <<prompt, tagging, backToIncident, source, answered, listVars,
                   tableFocused, running>>

MergeIncident ==
    /\ Receive("mergeIncident")
    /\ IF source THEN LeaveMerge ELSE UNCHANGED <<open, source, tableFocused>>
    /\ UNCHANGED <<prompt, tagging, backToIncident, rosa, answered, listVars,
                   running>>

ListFlags ==
    /\ Receive("listFlags") /\ Opens({"incident"}) /\ tableFocused' = FALSE
    /\ UNCHANGED <<keyVars, listVars, running>>

(* huh answers a key with messages to itself.  Update hands what it does   *)
(* not know to the config form and to the team form, nothing to the bulk   *)
(* silence form.  The last group of the config form ends it at once.       *)
FormAdvances(form) == form \in open \ {"bulk"}
Huh ==
    /\ Receive("huh")
    /\ \/ /\ FormAdvances("config")
          /\ Closes({"config"}) /\ tableFocused' = TRUE
          /\ UNCHANGED answered
       \/ /\ answered' = answered \cup {f \in {"bulk", "team"} : FormAdvances(f)}
          /\ UNCHANGED <<open, tableFocused>>
    /\ UNCHANGED <<prompt, tagging, backToIncident, rosa, source, listVars,
                   running>>

(* What was not asked for by a key: an error of a background fetch, the    *)
(* end of the wizard's write, a resize, a poll that changes the rows (and  *)
(* with them the selection), a failed fetch of the open incident.          *)
Post(m) ==
    /\ running /\ m \in {"errMsg", "configSaved", "renderIncident"}
    /\ m = "renderIncident" => "incident" \in open
    /\ Posts({m})
    /\ UNCHANGED <<open, keyVars, listVars, tableFocused, running>>

Poll ==
    /\ running /\ rows' \in BOOLEAN /\ selected' = rows'
    /\ UNCHANGED <<open, keyVars, tableFocused, posted, running>>

FetchFails ==
    /\ running /\ selected' = FALSE /\ Closes({"incident"}) /\ Posts({"errMsg"})
    /\ UNCHANGED <<keyVars, rows, tableFocused, running>>

-----------------------------------------------------------------------------
Bounded == Cardinality(open') <= MaxOpen /\ Cardinality(posted') <= MaxPosted

Key == \E k \in Keys : PressKey(k)
Message ==
    \/ LogFileContent \/ RenderDocs \/ RenderedDocs \/ RenderIncident
    \/ RenderedIncident \/ ErrMsg \/ ClearSelectedIncidents \/ FetchedTeams
    \/ ConfigWizardReady \/ ConfigSaved \/ EnterBulkSilence \/ Login \/ RosaLogin
    \/ MergeIncident \/ ListFlags \/ Huh
Background == (\E m \in Messages : Post(m)) \/ Poll \/ FetchFails

Next ==
    /\ \/ Key
       \/ (Message \/ Background) /\ UNCHANGED pressed
    /\ Bounded

Spec == Init /\ [][Next]_vars

-----------------------------------------------------------------------------
(* View and the merge table read mergeSourceIncident without a check       *)
(* (views.go, merge.go): while merge mode is on there is a source.         *)
MergeHasSource == "merge" \in open => source

(* There is always a way out.  Esc leaves whatever owns the keys, except   *)
(* the huh forms, and brings no more than the incident the docs were       *)
(* opened on; the quit keys end the program except as the second key of a  *)
(* chord.                                                                  *)
WayOut ==
    [][/\ PressKey("esc") /\ Owner \notin {"config", "bulk", "team", "table"} =>
             /\ Owner \notin open'
             /\ open' \ open \subseteq (IF Owner = "docs" THEN {"incident"} ELSE {})
       /\ PressKey("quit") =>
             ~running' \/ (Owner = "chord" /\ "chord" \notin open')]_vars

(* The texts of the bulk silence and of the team form offer ESC "to        *)
(* cancel" and "to skip" (tui.go).  The code does not keep this: no form   *)
(* binds the key.  Nor can the bulk silence form be answered, as none of   *)
(* the messages huh sends itself reaches it (Huh).                         *)
EscCancels ==
    [][PressKey("esc") /\ Owner \in {"bulk", "team"} => Owner \notin open']_vars
=============================================================================
