# Verification of srepd

srepd is a terminal program (Go, bubbletea) with which an on-call engineer works
through PagerDuty incidents. It keeps one Claude CLI process per incident, streams
answers of language models, enriches incidents with cluster data, and changes
incidents in PagerDuty. This directory holds TLA+ models of the parts of it where
goroutines, processes, files, messages and keys meet, the TLC runs that check them, and
TLAPS proofs of every safety property that the runs check. Every definition of a model names the code it
stands for in `PROJECT.json` ("map").

Contents: [inventory](#inventory) · [modules](#modules) · [runs](#runs-and-bounds) ·
[fairness](#fairness) · [proofs](#proofs) · [where code and documents disagree](#where-code-and-documents-disagree) ·
[limits](#only-model-checked-and-not-modelled)

## Inventory

| Component | State | Operations | Talks to | What is hard, and what makes it correct |
|---|---|---|---|---|
| Session manager `pkg/agent/session.go` | `sessions`, LRU slice `order`, `evicted` and its order, `ctx` | GetOrCreate, markEvicted, CloseAll | TUI prompt chain, sessions, index | eviction, dead sessions and quitting during a spawn; the books agree, at most `agent_max_sessions` live children, nothing alive after quitting, a known conversation is resumed |
| Session `pkg/agent/session.go` | `spawned`, `closed`, `closing`, `resumed`, `events`, `done`, mutex | Send, spawn, writeLoop, readLoop, Close | child process, event reader in `claude.go` | five goroutines and a child; no answer is lost in silence, `Done()` is last, closing and death end what waits |
| Session index `pkg/agent/index.go` | file, `established` | load, compact, record, has | readLoops, other srepd processes | crashes, torn appends, compaction; nothing invented, one line each, nothing forgotten but a torn line |
| Chat and agent dispatch `pkg/tui/claude.go` | `claudeQuerying`, stream handles | handleClaudePrompt, startAgentSession, readAgentSessionCmd, streamAgentCmd | manager, sessions, watcher pane | one query at a time, end of every query |
| Watcher streaming `pkg/tui/stream.go` | two channels, watchdog, `watcherStreamCh` | streamWatcherCmd, readStreamCmd, handlers | AI provider | cancellation, time-out, a newer stream; the text shown has no gap and is whole when called so |
| Watcher pane `watcher.go`, `tui.go`, `delta.go` | buffer, typewriter, `seen`, `watcherAnalyzing` | detectors, IsNew, Append, SetLast, advanceTypewriter | list refresh, AI, agent | many writers and one last line; a superseded one is silent, a flag has a query behind it |
| PagerDuty retry `pkg/pd/ratelimit.go` | token bucket | withRetry | PagerDuty | retries of several requests; an effect is repeated only after an error mistaken for a rate limit, every request ends |
| Log writer `cmd/asyncwriter.go` | buffer, `dropped`, `closed` | Write, drain, Close | every logger | send against close, drops; no panic, flush on close, no blocked UI |
| Incident table and actions `pkg/tui/{tui,msgHandlers,model,commands,chords}.go` | `incidentList`, cursor, `selectedIncident`, view, `pendingConfirmation`, forms | list refresh, navigation, ack, silence, re-escalate, bulk silence, auto-ack | PagerDuty | refreshes and late results between the keys; an action hits what the user was told |
| Incident details `tui.go`, `commands.go`, `model.go` | cache, what is loaded of the selection | getIncident, pickNextEnrichment, the handlers of its answers, login, note editor | PagerDuty | late, failing and stale answers; loaded parts belong to the selection, a stale entry is not shown for good |
| Cluster enrichment `tui.go`, `ocm_enrichment.go`, `prior_alerts.go` | in-flight marks, failure counts, pending weeks, caches | enrichClusters, getClusterInfo, the detail queries, fetchPriorAlertsWeek | OCM, backplane, PagerDuty | log-in at any time, failures, departures; nobody is forgotten but whom only a refresh mapped, no week twice, no eternal "loading" for the others |
| Approvals `approvals.go`, `incidentRegistry` in `model.go` | asks, strip, registry | Publish, Lookup, Add, Accept, Dismiss | investigation, watcher | an ask accepted many polls later acts on what set it off |
| Keys and views `msgHandlers.go`, `chords.go`, `keymap.go`, `merge.go`, `docs.go`, `tour.go` | a Boolean per view, prompt, form and input | keyMsgHandler and the handlers it dispatches to | everything | late messages open and close views; every view lets go of the keys, the forms do not |
| Configuration `pkg/config`, `cmd/root.go`, `cmd/config.go`, wizard in the TUI | the file, its backup, the form | judge, seed, merge, write, migrate | presets, tour, team choice | several writers, crashes, values from the environment; a backup exists, what was confirmed is saved, with named exceptions |
| Investigation, self-update, flags, tags, change log, alert parsing, PagerDuty and OCM clients, AI providers, launcher | none shared | | | not modelled, see below |

The pieces interact in one place: `Update`, the event loop of the TUI. It is a single
goroutine, so a handler is atomic; every `tea.Cmd` it returns runs on a goroutine of its
own and its message comes back in any order. Around that loop run the goroutines of
sessions, streams and the log writer.

## Modules

| Module | Models | Notes |
|---|---|---|
| `SessionManager` | manager with the prompt chain of one TUI | a step per handler or critical section; a Session is numbered by the prompt that made it |
| `AgentSession` | one session from the inside | a step per channel operation, select or critical section |
| `SessionLife` | abstract: what the owner of a session sees | implemented by `AgentSession` |
| `SessionIndex` | the file, its readers and writers | a line stands for its incident; files are numbered so that a rename leaves old descriptors alone |
| `RecordedSessions` | abstract: what the index promises | implemented by `SessionIndex` |
| `AsyncWriter` | log writer | a step per channel operation or critical section |
| `ProviderStream` | one watcher stream with provider, producer and reader | |
| `RetryClient` | withRetry for several requests and one bucket | the PagerDuty answer is nondeterministic |
| `Enrichment` | cluster lookups, details, history chains, tabs | |
| `IncidentActions` | table, selection, prompt, actions | a step per message or key; `net` is the set of commands under way |
| `IncidentDetails` | cache, fetches, what is taken over for the selection | a version stands for a `LastStatusChangeAt` |
| `KeyModes` | who gets a key; what opens and closes | one set `open` for the Booleans, `posted` for messages on their way |
| `Approvals` | from investigation to approved action | |
| `WatcherFeed` | prompts, streams, typewriter, detectors and their buffer | a text is represented by its writer |
| `ConfigFile` | the configuration file, wizard and writers | a content is what the YAML says of a few keys |
| `Background` | bench: `RetryClient`, `Enrichment`, `SessionManager` | |
| `Services` | bench: `AsyncWriter`, `ProviderStream`, `SessionIndex` | |
| `Desk` | bench: `KeyModes`, `Approvals`, `WatcherFeed`, `ConfigFile` | |
| `MC*` | model values, symmetry | |
| `SeqFacts` | lemmas on sequences used by the proofs | |
| `*Proofs` | theorems | |

A bench puts modules that share no state into one run: its initial state picks one of them, only
that one takes steps, and the others rest in one initial state. It is a union of the modules'
behaviours, not a product, and it asserts no interaction that the code does not have. The proofs
about these modules are about the benches, so that the theorems name what the runs check.

**SessionManager.** `chain` is the one prompt under way (`claudeQuerying` admits one): `get`
(GetOrCreate), `evict` (its loop, one victim per step because `Close` waits for the victim's
mutex), `send`, `spawn` (waiting for the first byte, holding the mutex), `write`, `reading`.
`sess` keeps every Session made, with its child: `up`, `signalled` (cancelled, not yet
reaped) or `gone`. `cliKnown` is the Claude CLI's own store, which decides whether a
`--session-id` is rejected. `lastUsed` is history, for `OldestFirst`.

**AgentSession.** `Send`, `writeLoop`, `readLoop` (with its deferred calls in their order),
the two selects of `readAgentSessionCmd`, `Close`, `CloseAll` and the child. Where Go selects
among ready cases the model has one disjunct per case. "second" means the reader goroutine
has found the buffer empty and is not yet parked in its second select. The child has no
descendants that hold its stdout open; a child that closes stdout and lives on is included,
as is a line too long for the scanner. Texts are abstracted to text, answer and error.

**SessionIndex.** `Start` is `newSessionIndex` with `load`; when oversized, `compact` follows in
two outcomes (`Rename`, `CompactFails`). `record` is two halves because the code drops the lock
between them. `WriteTorn` writes a prefix with no newline, perhaps a whole entry short of
only that; `AppendLine` lets the next append continue such a line.

**AsyncWriter.** Program counters of the callers, the buffer, the drain goroutine
(`receive`, `write`, `check`, `final`, `done`).

**ProviderStream.** The token channel (`ai` side), the event channel (UI side), the watchdog, the
provider's goroutine and result, and whether a newer stream has replaced this one.

**RetryClient.** Per request: calls made, last answer, where it is; the bucket with refills
bounded by `MaxRefills`. `IsRateLimitError` classifies by what a client can see: an error whose text
happens to contain 429 (`failed429`) passes for a rate limit, although its request may have taken
effect. `mistaken` counts those.

**Enrichment.** The OCM client is authenticating, absent or ready. `GotAlerts` is the second half of
the alerts handler: it marks and looks up new clusters and starts a history chain for each cluster
without one; `Week` is one answer of a chain, which asks for the week before. `List` is a refresh of
the incident list: it drops what departing incidents held alone, chains under way included, whose later
answers still arrive (`cut` remembers those clusters), and it maps a row without clusters to those of its
cached alerts (`Refilled`, tui.go:1168). Nobody looks these up, so `unasked` remembers the incident
until its alerts arrive while it is selected, or the log-in ends. The tabs are computed as `views.go` does (`TabText`).

**IncidentActions.** A list snapshot is the incidents listed and those the user still has to
acknowledge. The table shows them in a fixed order: the row of an incident counts it and the listed
ones before it (`RowOf`). `net` holds message chains
(`tea.Sequence`), the head of any of which may come next. An action message carries the
incidents or, as in the code, nothing, meaning the selected one; `from` and `named` are
history: who asked, and what they were told. A prefetch may or may not follow a change of
selection; the cache is the subject of `IncidentDetails`. That huh completes a form with what is
ticked in it is taken as given.

**IncidentDetails.** `fetches` holds queries, that for the incident itself with the version it will
bring, fixed when it is sent. An answer goes to the cache and, if it is of the selection or
nothing is selected, is taken over (`Taken`); `owner` is history, whose notes and alerts were taken
over. `Poll` drops entries (`Dropped`), `LazyEnrich` is one round of the job that refetches the row nearest to
the cursor, `Expire` lets an entry grow old: it keeps what it has loaded, and counts again as one to be
fetched.

**KeyModes.** `Owner` is the dispatch order of `keyMsgHandler` as a sequence; each `*Key` action is the
handler of one view. Messages that open, close or change a view are in `posted`; those that
always may come (a poll, a resize, a fetch that fails, huh's own messages) are steps of their own.

**Approvals.** Every change of list or selection publishes into `registry`. An investigation
carries the incidents that set it off; an ask names one of them, an approved ask runs at some later
step (`PostNote`, `Escalate`) and looks it up then.

**WatcherFeed.** A job is a command that runs or a message under way, with its kind and number. `feed` is
the ring buffer; its last entry is what `SetLast` rewrites. `RunDetectors` computes service
storms, cluster storms and urgency shifts from the list before and after, as a set of new observations
(they are shown as one kind of text, so only their number matters to the buffer); `seen` is the
deduplication.

**ConfigFile.** `file` and `backup` are absent, valid, broken or torn; `Truncate` and `Filled` are the two halves of
a write, `Die` may come between any two steps. The wizard reads, seeds, asks, computes changes and
merges them into the file as it is by then. Other writers: tour, team choice, migration.
Each start has an environment of its own, and `SREPD_*` values win over the file (`Known`); the wizard takes
them for what the user has (`Existing`) but nothing writes them. `Merge` writes no empty login command
and no mappings that were all cleared (`Dropped`). `Olds` are the two policies of the old format. An
empty or commented-out new key may start the migration as well (`Migrations`).

## Runs and bounds

| Run | Shows | Bounds, and why they are enough |
|---|---|---|
| `manager_safety` | type, process bound, agreement of map, slice and flags, nothing alive after quitting | 3 incidents, 2 slots, 1 flag, 4 prompts: every path of eviction and of dropping a flag at the cap occurs, and each with a touch, a death and a quit around it; symmetric in the incidents |
| `background` | calls: repeated effects are explained, requests end. Enrichment: nobody forgotten, weeks once, loading ends. Sessions: known is resumed, quitting completes | calls: 2 requests, 2 retries, burst 2, 3 refills, every kind of answer, so that the bucket runs dry in a retry and a request is mistaken twice. Enrichment: 2 incidents that may share the one cluster, 2 weeks, 2 answers with alerts: a lookup fails and is tried again, before and after the log-in, and a refresh maps what arrived for an incident that was not selected. The cap of three failures is not reached; a cluster past it behaves as one that failed and is not named again. Sessions: 2 incidents, 1 slot, 3 prompts, room for both flags: with fewer flags than evicted conversations the flag of one whose system/init comes late can be dropped first |
| `services` | log: no send on closed, flush, drops reported, calls return. Stream: shown is told, silence ends. Index: one line each, the promise kept | log: 2 loggers, 2 closers, buffer 2, 6 writes, a report every 2 drops. Stream: channels of 2, 4 tokens, so that both fill. Index: 1 process at a time, 3 starts, 2 torn appends, up to 2 lines at first, threshold 1: torn lines meet later appends and compaction |
| `session` | answers or errors arrive, Done() last, implements `SessionLife`, closing and death end | event buffer of 1 with 1 text and an answer per turn, so that it fills; 2 turns, so that one turn's leftovers meet the next |
| `details` | mix-ups only without a selection; the selection catches up | 2 incidents with alerts, 1 change or resolution, 1 failure, keys while at most 2 queries are under way: an answer of the old version, of another incident or of nothing meets every state of cache and selection. Notes behave as alerts do |
| `actions` | bulk silence and auto-ack sweep, selection under refresh | 2 incidents, any list at first, 1 change, 2 inputs (timed refreshes and keys that start something; refreshes that actions cause and answers to a prompt or form are not counted): a row vanishes or appears above the cursor between any two steps |
| `desk` | keys: a way out. Approvals: act on the origin. Feed: superseded is silent, analyzing has a query. Config: backed up, confirmed is saved | keys: 3 open at once, 1 message under way. Approvals: 3 incidents, 2 investigations, 2 polls. Feed: 3 incidents that make a cluster storm, parts of a service storm and an urgency shift, buffer of 2, 2 queries. Config: every file over 3 keys, both old policies among them, a preset with or without a login command, teams from the environment or not, 2 starts, so that what the first start saved (new mappings, say) is read, kept or cleared by the second |
| `resume_unknown` | violation, see below | 1 incident, 2 prompts |
| `index_torn_line` | violation | an empty file, one torn append |
| `session_spawn_returns` | violation | as `session` |
| `confirmed_target` | violation | as `actions` |
| `agent_query_stuck` | violation | as the feed of `desk` |

A deadlock is an error in `manager_safety` and `resume_unknown`, whose program ends in an
explicit stuttering step. The others set `CHECK_DEADLOCK FALSE`: a closed writer, a finished
stream or session, spent bounds, and a user with no key left really do stop.

## Fairness

Safety runs (`manager_safety`, `actions`, `desk`) use the plain specification. The others assume weak
fairness of what the Go runtime and the operating system do: a runnable goroutine runs, a timer
fires, a killed child is reaped, a read of a non-empty pipe returns. `Enrichment` assumes that a query that was
sent is answered (each has a deadline in the code), `IncidentDetails` also that the two
scheduled jobs, poll and lazy refetch, keep running. `AsyncWriter` assumes strong fairness of its lock: a
Go mutex hands itself to a waiter that starves. Nothing forces the user to press a key, a child or
provider to speak, answer or exit, the browser log-in to end, PagerDuty to refill the bucket
in time, or the underlying log writer to return (`CallsReturn` asks of Close only that it returns
when that writer is not stuck for good; of Write it asks it always).

## Proofs

All hold for any set of incidents, requests, loggers or keys of the kind the named assumption of the
module allows, and for every value of the bounds. Every safety property that a passing run checks is
stated by a theorem, some of them under a condition the theorem names (`RoomForFlags`, `OneProcess`,
see below). Each proof has the same shape: an inductive
invariant stronger than the property, a lemma per action or group of actions, and one temporal step.

**SessionManager** (`SessionManagerProofs`, lemmas in `SeqFacts`): `TypeOK`, `MapAgreesWithOrder`,
`FlagsAgree`, `OldestFirst` (together `Bookkeeping`), `NoChildAfterQuit`, `LiveBound`. None of these is
inductive by itself. `IInv` adds: a map entry names a Session of its incident (`MapSound`); a
Session that left the map is closed (`OpenIsMapped`) and a closed one has no unsignalled child
and is not being spawned (`ClosedIsQuiet`); only the Session whose mutex the chain holds
is in detection (`DetectingIsLocked`); where the chain is and what it has in hand
(`ChainSound`); and that sessions and accesses are numbered by prompts handled
(`Numbered`), which makes a new access the youngest. There is one lemma per group of actions
and one step per action in it; `LeaveMap` is shared by death and eviction. `LiveBound` follows
without induction: live children map injectively (through `OpenIsMapped`) into the slice,
whose length the cap bounds. Assumption: `BoundsAssumption`.

`KnownIsResumed` is proved for `RoomForFlags`: as many flags as incidents, and the code has 256
(session.go:529). Without room it is false: the flag of an incident can be dropped before the child of its
closed session reports system/init. The invariant adds that an incident which ever had a
Session has one in the map or is flagged (`FlaggedOrMapped`), and that a Session that starts
afresh is the only one its incident ever had (`FreshIsFirst`), so nobody else could have recorded it.

**AgentSession** (`AgentSessionProofs`): `TypeOK`, `NoSilentLoss`, `DoneIsLast`, and that a session
implements `SessionLife` (`LivesSessionLife`). The invariant has three parts: `TypeInv`; `LifeInv`, which
ties the program counters of the loops to `spawned`, `closed` and `done` (no reader after
`done`, so nothing is pushed then); `LossInv`, which says where a printed result is at each point of the
read loop: in the pipe, in hand, pushed, or about to be reported as an error. Assumption:
`AgentAssumption`.

**Services** (`ServicesProofs`), three invariants, one per part; assumptions `WriterAssumption`,
`ServicesAssumption`.

- Log writer: `NoSendOnClosed` (the mutex covers check and send),
  `FlushedOnClose` (accepted = written, in hand and buffered, in that order) and
  `NothingUnreported` (the last notice carries the total; needs monotone integer division,
  proved as `QuotientMonotone` and `SameMultiple`).
- Stream: `ShownIsTold`. `StreamInv` follows the text through both channels: the tokens waiting
  are the last the provider sent, and what was shown, what waits for the reader, what is in the producer's
  hand and what waits for the producer add up to it (`InOrder`); the terminal event is last
  (`DoneLast`); a stream that ends well has forwarded everything (`OkIsAll`).
- Index: for any number of processes, that neither memory nor a complete line names an incident
  nobody recorded (`NothingInvented`, by `IndexSafe`). For one process at a time (`OneProcess`),
  `WrittenOnce` and the refinement `KeepsPromise`: every step of the file is a step or a stutter of
  `RecordedSessions`. `IndexAlone` says that the path names the newest file, that an incident that was not in
  the file at first has at most one line, and so has one whose line lost its newline, that a running process knows every
  line that loads, that a compaction has a snapshot of exactly those, and that a line on its way is not
  stored yet. With two processes both fail, as TLC shows (see below), so the hypothesis is needed; it is
  the case of a user with one srepd.

**Background** (`BackgroundProofs`); assumptions `RetryAssumption`, `BackgroundAssumption`.

- Retries: `CallsBounded`, `RateBounded`, `TruthfulResult` and `RepeatsExplained`, for every kind of answer.
  Until a request is done, it has taken effect no more often than it was mistaken for rate limited (`RequestSound`).
- Enrichment: `NobodyForgotten` is inductive with the types; its exception, the incidents in `unasked`,
  is what a refresh may add. `WeeksOnce` needs `OneChain`: every
  week merged so far is younger than the one its chain asks for, and what is left is counted from there.
- Sessions: `KnownIsResumed` of the bench, from the theorem about `SessionManager`; the lemmas
  `Same*` show that both instances of that module are the same.

**Desk** (`DeskProofs`); assumption `DeskAssumption`.

- Keys: `WayOut`, as an action property that needs no invariant: each
  handler of ESC is looked at under the owner of the keys it requires. And `MergeHasSource`, which the
  merge view reads without a check: inductive together with the types, one lemma per group of views
  and messages. No bound on what is open or under way is used.
- Approvals: `ActsOnOrigin`. An ask keeps naming one of the incidents of its investigation in the
  strip, while it runs and once it is done (`AsksOnOrigin`); polls and selection do not enter into it.
- Feed: `AnalyzingIsQuery` and `SupersededSilent`. `FeedInv` bounds generation and pending ticks
  by the queries started (`CountOK`), says of each job which number and setting it can have (`JobOK`), and
  that a typewriter runs only for its own generation.
- Config: `BackedUp` and `ConfirmedIsSaved`. `WritersOK` says who may write at the same time: a save of the
  wizard or of the teams excludes every other but the tour's. `BackupOK` follows the steps of a save.
  `SaveOK`: until a save has read the file, each confirmed value is among its changes or in the
  file already, also in what the tour is about to write; then it is in what will be written. `FormOK` ties the
  form to the file and the environment it was made from. The theorem is about what can be kept
  (`Durable`): not cleared mappings, not values of the environment in a file that exists, not the login command in a new
  file. Without these exceptions it is false (`SummaryIsSaved`, `PresetIsSaved`, below).

**IncidentDetails** (`IncidentDetailsProofs`): `TypeOK` with the owner of whatever counts as
loaded, and `MixedOnlyUnselected`. `IInv` adds that versions do not outrun the changes made.

**IncidentActions** (`IncidentActionsProofs`): `TypeOK`, `HitsNamed` and `RefreshKeepsSelection`. The
invariant is about the messages: every
action in `net` and the one in the prompt that comes from the form or the sweep carries exactly
what it named (`Good`), and stays that way while it waits. The selection rests on `RowsDiffer`: two listed
incidents have different rows, so the row a cursor is restored to is that of its incident.
Assumption: `ActionsAssumption`.

`SeqFacts` has what these proofs share: removing the first match of a slice, appending, reslicing, the
length of a slice without duplicates, and that the members of a finite set of positions have
ranks of their own (`RankFacts`), which makes a filtered or sorted slice a bijection without induction.

## Where code and documents disagree

Checked by a run each:

- `ResumeOnlyKnown`: a child that dies before system/init is followed by `--resume` of a
  conversation that does not exist (session.go:613; plan 412, line 26).
- `CompletedSurvives`: an append after a torn line is lost with it (index.go:243).
- `SpawnReturns`: a child that closes stdout and lives on holds the session mutex for ever
  (session.go:382; comment at 336).
- `ConfirmedTarget`: a prompt names one incident and acts on the one selected when `y` is
  handled (msgHandlers.go:657; plan 015).
- `QueryingIsQuery`: an agent stream that fails to start after an earlier one leaves
  `claudeQuerying` set, and every further prompt is refused (tui.go:1909; model.go:251).

Met while modelling, without a run of their own. The named properties are stated in their modules
and TLC refutes them there:

- `QueryEnds` (SessionManager): no bound on the wait for an answer (docs/ai-agents.md:239).
- Two processes on one index (`SessionIndex` with two `Procs`): both may write one incident's
  line (`WrittenOnce`), and compaction renames over another's line (`KeepsPromise`, index.go:119).
- `QuietClose` (AgentSession): CloseAll cancels before it marks sessions as closing
  (session.go:181).
- `ResultNotDiscarded` (AgentSession): the second select may still prefer Done()
  (claude.go:430 and 457).
- `ProducerExits`, `NotSwallowed`, `NotTruncated` (ProviderStream): a superseded producer stuck on
  its last send (stream.go:106); a watchdog firing with the first token (plan 394, line 111;
  stream_test.go:83).
- `OnlyRateLimitRetried` (RetryClient): any error text with 429 in it is retried (ratelimit.go:69), while
  the comment at line 63 says "returns true if the error indicates a PagerDuty 429 rate limit response". So a request that
  took effect may be repeated; `RepeatsExplained` bounds how often.
- `SummaryIsSaved` (ConfigFile): what the user confirms under "Save changes?" is not all saved. Mappings that were
  cleared stay in the file, because no map is made of them (msgHandlers.go:421, config.go:436).
  Values from `SREPD_*` look unchanged (commands.go:1611-1618) and are not written into a file that exists, so they
  are gone with the environment; and what is typed over one is written but shadowed by it at the next start (root.go:609).
- The migration asks whether the text names `default_silent_escalation_policy` (root.go:204), which a commented-out
  or empty key does too. The old block is then commented out and its silent default is lost (`ConfigFile`, `Migrations`).
- `EscCancels` (KeyModes): "esc to cancel" (tui.go:1797) and "esc to skip" (tui.go:257), but no form binds ESC. The bulk silence
  form cannot be completed either: Update hands the messages huh sends itself to the config and the team form only (tui.go:2147-2165).
  It is left with the quit keys, which end the program. (`IncidentActions` takes its completion as given, so that what
  follows it is checked as well.)
- A list refresh maps the clusters of alerts that arrived for an incident that was not selected (tui.go:1168-1179) and looks
  none of them up, while the comment at tui.go:943 wants every cluster marked or left for the sweep after the log-in. With a client
  that is ready no sweep follows: the cluster tab of that incident says "loading" until its alerts come again while it is selected. `NobodyForgotten` and
  `LoadingEnds` except these incidents (`Enrichment`, `unasked`) and hold for all others.
- index.go:15 says that "an incident revisited many times accumulates a line each session", as does
  docs/plans/422-hotfixes-n1-n2-n4.md:328. It does not: record skips what is known, and `WrittenOnce`
  (SessionIndex) shows that with one process at a time an incident gets at most one line, however often it is resumed.
- `PresetIsSaved` (ConfigFile): the login command of a preset is not written into a new file
  (preset.go, `ForcePresetChanges`; plan 370, line 41).
- `WizardRepairs` (ConfigFile): the wizard cannot repair a file with broken YAML, because it merges into it
  (cmd/root.go, comment at the broken file).
- The end of the tour and the migration rewrite the configuration without a backup, and the tour's and the
  wizard's read-modify-writes do not exclude each other (`ConfigFile`).
- Alerts taken over while nothing is selected stay with the incident selected next (`IncidentDetails`,
  `Mixed`; tui.go:914), and a note goes to what is selected when the editor is left (tui.go:1271).
- A rendered view that arrives late reopens a view that was closed, because a row is selected again
  (`KeyModes`, `RenderedIncident`; tui.go:1603).
- Writers of different kinds rewrite each other's last line in the watcher buffer
  (`WatcherFeed`; tui.go:624 says that chunks grow the stream's own entry in place).
- Quit and toggle keys are taken before text fields of forms (`KeyModes`, `GlobalKey`).
- A cluster that failed three times leaves its tab loading (`Enrichment`, `ClusterText`).
- A departing incident may cut the history chain of a cluster that returns with it (`Enrichment`, `cut`).

## Only model-checked, and not modelled

TLC only: liveness, which is out of the prover's reach (`CallsReturn`, `StartupEnds`, `RequestsEnd`,
`LoadingEnds`, `QuitCompletes`, `CloseEnds`, `DeathEndsQuery`, `CatchesUp`), and the five
violations. Not proved because false: `KnownIsResumed` with fewer flags than incidents, `WrittenOnce` and
`KeepsPromise` with two processes, and `NobodyForgotten`, `LoadingEnds` and `ConfirmedIsSaved` without their exceptions.

Abstracted everywhere: the text of messages, logging, times (only that a timer fires).

Modelled in part:

- Of the table, flags, tags and titles are left out; filters and the team view only choose rows.
- Of the agent dispatch, the goroutine inside `streamAgentCmd`, which has the shape of `streamWatcherCmd`.
- Of the configuration, which values are recovered from broken YAML is nondeterministic; the editor goes the way of the terminal,
  the agent command is left out, and the environment sets only the keys in `Supplied`.
- Of presets, download and trust are outcomes. Of views, only what the tabs of an incident say.
- Of merging, the choice of candidates. Of docs and tour, the pages.

Not modelled: alert parsing, flags and tags (string parsing without shared state); the PagerDuty, OCM and
backplane clients and AI providers (calls behind commands that the models let succeed or fail);
event parsing and command lines of the agent; the launcher; the change log; the tools and policy of an
investigation (one goroutine, read-only, its outcomes are steps of `Approvals` and `WatcherFeed`);
self-update (a straight line of I/O); fixtures and mocks.
