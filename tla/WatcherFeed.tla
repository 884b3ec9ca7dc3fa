---------------------------- MODULE WatcherFeed ----------------------------
(***************************************************************************)
(* The watcher pane: one buffer, many writers (pkg/tui/watcher.go, tui.go, *)
(* claude.go, stream.go, commands.go).                                     *)
(*                                                                         *)
(* A prompt to the watcher or to the agent, and an observation that the    *)
(* detectors make on a changed incident list, start commands.  A command   *)
(* ends in one message, and handling it may start the next command.  Every *)
(* answer ends up in the same buffer: streams and the typewriter rewrite   *)
(* its last entry, observations and tool lines are appended.               *)
(*                                                                         *)
(* A command that runs, or a message on its way, is a job.  A text is      *)
(* represented by who wrote it.                                            *)
(***************************************************************************)
EXTENDS Naturals, SequencesExt

CONSTANTS Incidents,     \* the incidents a poll may return
          ServiceOf,     \* [Incidents -> services]
          ClustersOf,    \* [Incidents -> sets of clusters]
          Urgent,        \* the incidents of high urgency
          Capacity,      \* watcherBufferCapacity
          Words,         \* typewriter steps of the longest answer
          MaxQueries     \* bound on prompts and observations that are asked

FeedAssumption ==
    /\ {Capacity, Words, MaxQueries} \subseteq Nat \ {0}
    /\ IsFiniteSet(Incidents) /\ \A i \in Incidents : IsFiniteSet(ClustersOf[i])

Kinds == {"watcher", "agent"}

VARIABLES
    setup,      \* the configured provider and agent command, fixed
    feed,       \* watcherBuffer.entries: the writer of each
    current,    \* the stream whose channel is watcherStreamCh / agentStreamCh
    typewriter, \* the gen and the words left of the live typewriter
    gen,        \* typewriterGen
    jobs,       \* commands and messages under way
    analyzing,  \* watcherAnalyzing
    querying,   \* claudeQuerying
    down,       \* aiHealth is aiHealthError
    seen,       \* watcherDedup.seen
    list,       \* incidentList
    queries     \* queries asked so far; numbers the streams

vars == <<setup, feed, current, typewriter, gen, jobs, analyzing, querying,
          down, seen, list, queries>>

Idle == [gen |-> 0, left |-> 0]

Job(type, kind, n) == [type |-> type, kind |-> kind, n |-> n]

(* Writers of an entry: a stream, a typewriter run, or neither.            *)
Stream(kind, n) == <<"stream", kind, n>>
Typed(g) == <<"typed", "none", g>>
Other == <<"other", "none", 0>>

TypeOK ==
    /\ setup \in [streams : BOOLEAN, tools : BOOLEAN,
                  agent : {"session", "stream", "blocking"}]
    /\ Len(feed) <= Capacity
    /\ current \in [Kinds -> 0..MaxQueries]
    /\ typewriter \in [gen : 0..MaxQueries, left : 0..Words]
    /\ gen \in 0..MaxQueries
    /\ {analyzing, querying, down} \subseteq BOOLEAN
    /\ list \subseteq Incidents
    /\ queries \in 0..MaxQueries

Init ==
    /\ setup \in [streams : BOOLEAN, tools : BOOLEAN,
                  agent : {"session", "stream", "blocking"}]
    /\ feed = <<>> /\ current = [k \in Kinds |-> 0]
    /\ typewriter = Idle /\ gen = 0 /\ jobs = {}
    /\ analyzing = FALSE /\ querying = FALSE /\ down = FALSE
    /\ seen = {} /\ list = {} /\ queries = 0

-----------------------------------------------------------------------------
(* watcherBuffer.  The oldest entries make room.                           *)
Newest(f) ==
    IF Len(f) > Capacity THEN SubSeq(f, Len(f) - Capacity + 1, Len(f)) ELSE f
Append1(f, w) == Newest(Append(f, w))
SetLast(f, w) == IF f = <<>> THEN <<w>> ELSE ReplaceAt(f, Len(f), w)

(* startTypewriter: an empty text starts nothing and leaves a running      *)
(* typewriter alone.                                                       *)
StartTypewriter(others) ==
    \/ /\ gen' = gen + 1
       /\ \E n \in 1..Words : typewriter' = [gen |-> gen', left |-> n]
       /\ jobs' = others \cup {Job("tick", "none", gen')}
    \/ jobs' = others /\ UNCHANGED <<typewriter, gen>>

NoTypewriter(others) == jobs' = others /\ UNCHANGED <<typewriter, gen>>

Own(j) == typewriter # Idle /\ typewriter.gen = j.n

(* advanceTypewriter *)
Tick(j) ==
    /\ j \in jobs /\ j.type = "tick"
    /\ IF Own(j)
       THEN /\ feed' = SetLast(feed, Typed(typewriter.gen))
            /\ typewriter' = IF typewriter.left = 1 THEN Idle
                             ELSE [typewriter EXCEPT !.left = @ - 1]
            /\ jobs' = IF typewriter.left = 1 THEN jobs \ {j} ELSE jobs
       ELSE jobs' = jobs \ {j} /\ UNCHANGED <<feed, typewriter>>
    /\ UNCHANGED <<setup, current, gen, analyzing, querying, down, seen, list,
                   queries>>

-----------------------------------------------------------------------------
(* A prompt to the watcher.  A provider that can be probed is not asked    *)
(* while it is down; one with tools cannot be probed.                      *)
PromptWatcher ==
    /\ queries < MaxQueries
    /\ ~down \/ setup.tools
    /\ queries' = queries + 1
    /\ analyzing' = TRUE
    /\ jobs' = jobs \cup {Job(IF setup.streams THEN "start" ELSE "query",
                              "watcher", queries')}
    /\ UNCHANGED <<setup, feed, current, typewriter, gen, querying, down, seen,
                   list>>

(* handleClaudePrompt, past its checks of the configured command.          *)
PromptAgent ==
    /\ queries < MaxQueries
    /\ ~querying
    /\ queries' = queries + 1
    /\ querying' = TRUE
    /\ jobs' = jobs \cup {Job(CASE setup.agent = "stream" -> "start"
                                [] setup.agent = "blocking" -> "query"
                                [] OTHER -> "session", "agent", queries')}
    /\ UNCHANGED <<setup, feed, current, typewriter, gen, analyzing, down, seen,
                   list>>

(* streamWatcherCmd always starts; streamAgentCmd may fail, and its message *)
(* then names no channel.                                                   *)
\* mutant: keeps the first channel
FollowsFirst(j) ==
    current' = [current EXCEPT ![j.kind] = IF @ = 0 THEN j.n ELSE @]
Follows(j) == current' = [current EXCEPT ![j.kind] = j.n]

StreamStarted(j) ==
    /\ j \in jobs /\ j.type = "start"
    /\ Follows(j)
    /\ feed' = Append1(feed, Stream(j.kind, j.n))
    /\ jobs' = (jobs \ {j}) \cup {Job("read", j.kind, j.n)}
    /\ UNCHANGED <<setup, typewriter, gen, analyzing, querying, down, seen, list,
                   queries>>

\* mutant: the handlers do not compare channels
IsCurrentAny(j) == TRUE
IsCurrent(j) == j.n = current[j.kind]

StreamChunk(j) ==
    /\ j \in jobs /\ j.type = "read"
    /\ IF IsCurrent(j)
       THEN /\ feed' = SetLast(feed, Stream(j.kind, j.n))
            /\ down' = (IF j.kind = "watcher" THEN FALSE ELSE down)
            /\ UNCHANGED jobs
       ELSE jobs' = jobs \ {j} /\ UNCHANGED <<feed, down>>
    /\ UNCHANGED <<setup, current, typewriter, gen, analyzing, querying, seen,
                   list, queries>>

(* The flag of a kind of query is cleared.                                 *)
Ends(kind) ==
    /\ analyzing' = (analyzing /\ kind # "watcher")
    /\ querying' = (querying /\ kind # "agent")

(* A stream is over, with or without an error.                             *)
StreamDone(j) ==
    /\ j \in jobs /\ j.type = "read"
    /\ jobs' = jobs \ {j}
    /\ IF IsCurrent(j)
       THEN /\ Ends(j.kind)
            /\ down' \in IF j.kind = "watcher" THEN BOOLEAN ELSE {down}
       ELSE UNCHANGED <<analyzing, querying, down>>
    /\ UNCHANGED <<setup, feed, current, typewriter, gen, seen, list, queries>>

AgentStartFails(j) ==
    /\ j \in jobs /\ j.type = "start" /\ j.kind = "agent"
    /\ jobs' = jobs \ {j}
    /\ IF current["agent"] = 0 THEN Ends("agent")
                               ELSE UNCHANGED <<analyzing, querying>>
    /\ UNCHANGED <<setup, feed, current, typewriter, gen, down, seen, list,
                   queries>>

(* watcherResponseMsg and handleClaudeResponse: an answer is typed out, an *)
(* error is shown elsewhere.                                               *)
Results == {"answer", "error"}

Answered(j) ==
    /\ j \in jobs /\ j.type = "query"
    /\ Ends(j.kind)
    /\ \E result \in Results :
         /\ down' = (IF j.kind = "watcher" THEN result = "error" ELSE down)
         /\ IF result = "error" THEN NoTypewriter(jobs \ {j}) /\ UNCHANGED feed
            ELSE feed' = Append1(feed, Other) /\ StartTypewriter(jobs \ {j})
    /\ UNCHANGED <<setup, current, seen, list, queries>>

(* handleAgentSessionEvent and agentSessionDoneMsg: a session is read      *)
(* until its result; Send may fail before.                                 *)
SessionEvent(j) ==
    /\ j \in jobs /\ j.type = "session"
    /\ \/ /\ feed' \in {Append1(feed, Stream("agent", j.n)),    \* Init
                        Append1(feed, Other),                   \* ToolUse
                        SetLast(feed, Stream("agent", j.n))}    \* TextDelta
          /\ UNCHANGED <<jobs, analyzing, querying>>
       \/ /\ feed' \in {feed, SetLast(feed, Stream("agent", j.n))}  \* Result
          /\ jobs' = jobs \ {j}
          /\ Ends("agent")
    /\ UNCHANGED <<setup, current, typewriter, gen, down, seen, list, queries>>

-----------------------------------------------------------------------------
(* The detectors.  An observation is what it is about and how many; the    *)
(* deduplication knows it by no more than that (the summary text).         *)
Storms(about, of, atLeast, l) ==
    LET Count(s) == Cardinality({i \in l : s \in of[i]})
    IN  {<<about, s, Count(s)>> :
            s \in {x \in UNION {of[i] : i \in l} : Count(x) >= atLeast}}

DetectServiceStorm(l) ==
    Storms("service", [i \in Incidents |-> {ServiceOf[i]}], 3, l)
DetectClusterStorm(l) == Storms("cluster", ClustersOf, 2, l)
DetectUrgencyShift(l) ==   \* the summary names the length of the list too
    IF Cardinality(l \cap Urgent) >= 3
    THEN {<<"urgent", Cardinality(l), Cardinality(l \cap Urgent)>>} ELSE {}

DetectAll(l) ==
    DetectServiceStorm(l) \cup DetectClusterStorm(l) \cup DetectUrgencyShift(l)

(* runDetectors: the first new observation goes to the provider if that is *)
(* free and healthy, the others straight into the buffer, where nothing    *)
(* tells one from another.                                                 *)
RunDetectors(l) ==
    LET all == IF Cardinality(l) < 2 \/ l = list THEN {} ELSE DetectAll(l)
        new == all \ seen
        asks == new # {} /\ ~down /\ ~analyzing
        shown == IF asks THEN Cardinality(new) - 1 ELSE Cardinality(new)
    IN  /\ seen' = seen \cup new
        /\ analyzing' = (analyzing \/ asks)
        /\ queries' = IF asks THEN queries + 1 ELSE queries
        /\ jobs' = IF asks THEN jobs \cup {Job(IF setup.tools THEN "investigate"
                                               ELSE "synthesize", "watcher", queries')}
                   ELSE jobs
        /\ feed' = Newest(feed \o [n \in 1..shown |-> Other])

(* A poll brings a list; the tail of its handler runs the detectors.       *)
Poll(l) ==
    /\ queries < MaxQueries
    /\ list' = l
    /\ RunDetectors(l)
    /\ UNCHANGED <<setup, current, typewriter, gen, querying, down>>

(* The cooldown of an observation is over.                                 *)
Forget(o) ==
    /\ o \in seen /\ seen' = seen \ {o}
    /\ UNCHANGED <<setup, feed, current, typewriter, gen, jobs, analyzing,
                   querying, down, list, queries>>

(* watcherSynthesisMsg: with an error the plain observation is shown.      *)
Synthesis == {"answer", "error"}

Synthesized(j) ==
    /\ j \in jobs /\ j.type = "synthesize"
    /\ Ends("watcher")
    /\ feed' = Append1(feed, Other)
    /\ \E result \in Synthesis :
         /\ down' = (result = "error")
         /\ IF result = "error" THEN NoTypewriter(jobs \ {j})
            ELSE StartTypewriter(jobs \ {j})
    /\ UNCHANGED <<setup, current, seen, list, queries>>

(* investigationMsg: as above, but a verdict may be silent, and the health *)
(* of the provider is left alone.                                          *)
Investigated(j) ==
    /\ j \in jobs /\ j.type = "investigate"
    /\ Ends("watcher")
    /\ \/ feed' \in {feed, Append1(feed, Other)} /\ NoTypewriter(jobs \ {j})
       \/ feed' = Append1(feed, Other) /\ StartTypewriter(jobs \ {j})
    /\ UNCHANGED <<setup, current, down, seen, list, queries>>

(* The probe of a provider that can be probed.                             *)
HealthCheck ==
    /\ ~setup.tools /\ down' \in BOOLEAN
    /\ UNCHANGED <<setup, feed, current, typewriter, gen, jobs, analyzing,
                   querying, seen, list, queries>>

-----------------------------------------------------------------------------
Message(j) ==
    \/ Tick(j) \/ Answered(j) \/ SessionEvent(j)
    \/ StreamStarted(j) \/ AgentStartFails(j) \/ StreamChunk(j) \/ StreamDone(j)
    \/ Synthesized(j) \/ Investigated(j)

Next ==
    \/ PromptWatcher \/ PromptAgent \/ HealthCheck
    \/ \E l \in SUBSET Incidents : Poll(l)
    \/ \E o \in seen : Forget(o)
    \/ \E j \in jobs : Message(j)

Spec == Init /\ [][Next]_vars

-----------------------------------------------------------------------------
(* Only a live stream or typewriter rewrites the buffer: once a newer one  *)
(* of its kind has begun, a superseded writer is silent.  (plan 422: every *)
(* message must carry enough identity to be routed even when superseded.)  *)
SupersededSilent ==
    [][feed' # feed => LET w == feed'[Len(feed')] IN
         /\ w[1] = "stream" /\ (w[2] = "watcher" \/ setup.agent = "stream") =>
                current'[w[2]] = w[3]
         /\ w[1] = "typed" => w[3] = gen]_vars

(* The watcher says that it is analyzing only while something is under way *)
(* that will end it, however prompts and observations supersede each other *)
(* and fail: a query, or a stream whose messages are listened to.          *)
AnalyzingIsQuery ==
    analyzing => \E j \in jobs :
        j.kind = "watcher" /\ (j.type = "read" => IsCurrent(j))

(* claudeQuerying is true while a Claude CLI query is in progress          *)
(* (model.go): an agent that refuses prompts is busy with one.             *)
QueryingIsQuery == querying => \E j \in jobs : j.kind = "agent"
=============================================================================
