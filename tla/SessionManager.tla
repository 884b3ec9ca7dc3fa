--------------------------- MODULE SessionManager ---------------------------
(***************************************************************************)
(* The per-incident agent sessions of pkg/agent/session.go, driven by the  *)
(* one command chain of pkg/tui/claude.go: handleClaudePrompt refuses a    *)
(* prompt while claudeQuerying holds, so at most one goroutine is inside   *)
(* GetOrCreate, Send or the event reader.  Concurrently with that chain    *)
(* run the child processes, the readLoop of every session, and CloseAll,   *)
(* which main calls when the program quits.                                *)
(*                                                                         *)
(* A Session value is named by the number of the prompt that created it:   *)
(* the program makes a new Session for an incident, it never reuses one.   *)
(* What the queries and the answers carry is the subject of AgentSession.  *)
(***************************************************************************)
EXTENDS Integers, FiniteSets, SequencesExt

CONSTANTS
    Incidents,   \* incident ids, the keys of the manager's map
    NoIncident,  \* the chain serves no prompt
    MaxLive,     \* SessionManager.maxLive: agent_max_sessions, 3 when unset
    MaxEvicted,  \* maxEvictedEntries, the cap of the evicted set
    MaxPrompts   \* bound of the model: how many prompts one run handles

ASSUME BoundsAssumption ==
    /\ NoIncident \notin Incidents
    /\ MaxLive \in Nat \ {0}
    /\ MaxEvicted \in Nat \ {0}
    /\ MaxPrompts \in Nat

VARIABLES
    sessions,      \* the map from incident to Session (NoSession: no entry)
    order,         \* LRU order of the map's keys, oldest first
    evicted,       \* incidents flagged to be resumed on their next access
    evictedOrder,  \* the same flags in insertion order
    established,   \* sessionIndex.established: incidents with a recorded session
    sess,          \* every Session made so far, by creation number
    cliKnown,      \* external: conversations that exist in the CLI's own store
    chain,         \* the prompt being served: pc, its incident, its Session
    mode,          \* "running", "closing" (inside CloseAll) or "exited"
    prompts,       \* number of prompts handled so far
    lastUsed       \* history: the prompt that last accessed each incident

managerVars == <<sessions, order, evicted, evictedOrder>>
vars == <<sessions, order, evicted, evictedOrder, established, sess, cliKnown,
          chain, mode, prompts, lastUsed>>

SessionIds == 1..MaxPrompts
NoSession == 0
Idle == [pc |-> "idle", inc |-> NoIncident, obj |-> NoSession]

(***************************************************************************)
(* A Session: whether it spawns with --resume, how far its spawn got, its  *)
(* closed flag, whether Done() is closed, and its child process, which is  *)
(* "signalled" while its context is cancelled and it is not gone yet.      *)
(***************************************************************************)
Phases == {"unspawned", "detecting", "spawned"}
ChildStates == {"none", "up", "signalled", "gone"}
Running == {"up", "signalled"}
Session == [inc : Incidents, resumed : BOOLEAN, phase : Phases,
            closed : BOOLEAN, done : BOOLEAN, child : ChildStates]

Pcs == {"idle", "get", "evict", "send", "spawn", "write", "reading"}
Chain == [pc : Pcs, inc : Incidents \cup {NoIncident},
          obj : SessionIds \cup {NoSession}]

TypeOK ==
    /\ sessions \in [Incidents -> SessionIds \cup {NoSession}]
    /\ order \in Seq(Incidents)
    /\ evicted \subseteq Incidents
    /\ evictedOrder \in Seq(Incidents)
    /\ established \subseteq Incidents
    /\ DOMAIN sess \subseteq SessionIds
    /\ sess \in [DOMAIN sess -> Session]
    /\ cliKnown \subseteq Incidents
    /\ chain \in Chain
    /\ chain.pc = "idle" => chain = Idle
    /\ mode \in {"running", "closing", "exited"}
    /\ prompts \in 0..MaxPrompts
    /\ lastUsed \in [Incidents -> 0..MaxPrompts]

-----------------------------------------------------------------------------
(* NewSessionManager and newSessionIndex: nothing is live; the index holds *)
(* what an earlier run recorded, a part of what the CLI itself stores.     *)
Init ==
    /\ sessions = [i \in Incidents |-> NoSession]
    /\ order = <<>>
    /\ evicted = {}
    /\ evictedOrder = <<>>
    /\ cliKnown \in SUBSET Incidents
    /\ established \in SUBSET cliKnown
    /\ sess = <<>>
    /\ chain = Idle
    /\ mode = "running"
    /\ prompts = 0
    /\ lastUsed = [i \in Incidents |-> 0]

Goto(pc) == chain' = [chain EXCEPT !.pc = pc]
Current == sess[chain.obj]

LockedUntilResult(o) ==
    chain.pc \in {"spawn", "write", "reading"} /\ chain.obj = o

(* The mutex of a Session is held across steps only by a Send that is      *)
(* inside spawn's detection of a rejected session id.                      *)
Locked(o) == chain.pc = "spawn" /\ chain.obj = o

-----------------------------------------------------------------------------
(* handleClaudePrompt on the session path.                                 *)
HandlePrompt(i) ==
    /\ mode = "running"
    /\ chain.pc = "idle"
    /\ prompts < MaxPrompts
    /\ chain' = [pc |-> "get", inc |-> i, obj |-> NoSession]
    /\ prompts' = prompts + 1
    /\ UNCHANGED <<managerVars, established, sess, cliKnown, mode, lastUsed>>

(* touch: move an incident to the young end of the LRU order.              *)
Touched(i) == Append(RemoveFirst(order, i), i)

(* GetOrCreate finds a live session.                                       *)
Touch ==
    /\ mode = "running" /\ chain.pc = "get"
    /\ sessions[chain.inc] # NoSession
    /\ ~sess[sessions[chain.inc]].closed
    /\ order' = Touched(chain.inc)
    /\ lastUsed' = [lastUsed EXCEPT ![chain.inc] = prompts]
    /\ chain' = [chain EXCEPT !.pc = "send", !.obj = sessions[chain.inc]]
    /\ UNCHANGED <<sessions, evicted, evictedOrder, established, sess,
                   cliKnown, mode, prompts>>

(* markEvicted: flag an incident once, dropping the oldest flag at the cap. *)
MarkEvicted(i) ==
    IF i \in evicted
    THEN UNCHANGED <<evicted, evictedOrder>>
    ELSE IF Len(evictedOrder) < MaxEvicted
         THEN /\ evictedOrder' = Append(evictedOrder, i)
              /\ evicted' = evicted \cup {i}
         ELSE /\ evictedOrder' = Tail(Append(evictedOrder, i))
              /\ evicted' = (evicted \cup {i})
                                \ {Head(Append(evictedOrder, i))}

DroppedNothing(i) == order
Dropped(i) == RemoveFirst(order, i)

(* GetOrCreate finds no session, or one whose readLoop has ended: that one *)
(* leaves the map, flagged.  From here to CreateSession the manager's own  *)
(* mutex stays held.                                                       *)
MissOrDead ==
    /\ mode = "running" /\ chain.pc = "get"
    /\ \/ /\ sessions[chain.inc] = NoSession
          /\ UNCHANGED managerVars
       \/ /\ sessions[chain.inc] # NoSession
          /\ sess[sessions[chain.inc]].closed
          /\ sessions' = [sessions EXCEPT ![chain.inc] = NoSession]
          /\ order' = Dropped(chain.inc)
          /\ MarkEvicted(chain.inc)
    /\ Goto("evict")
    /\ UNCHANGED <<established, sess, cliKnown, mode, prompts, lastUsed>>

(* Session.Close: closing and closed are set, the context is cancelled and *)
(* stdin closed; Done() closes here only when no readLoop ever started.    *)
ClosedWithoutCancel(s) == [s EXCEPT !.closed = TRUE]

ClosedSession(s) ==
    [s EXCEPT !.closed = TRUE,
              !.done = @ \/ s.phase = "unspawned",
              !.child = IF @ = "up" THEN "signalled" ELSE @]

(* The least recently used key, the loop's victim.                         *)
Victim == Head(order)

(* One turn of GetOrCreate's eviction loop.                                *)
EvictOldest ==
    /\ chain.pc = "evict"
    /\ Len(order) >= MaxLive
    /\ LET oldest == Victim IN
         /\ order' = RemoveFirst(order, oldest)
         /\ sess' = [sess EXCEPT ![sessions[oldest]] = ClosedSession(@)]
         /\ sessions' = [sessions EXCEPT ![oldest] = NoSession]
         /\ MarkEvicted(oldest)
    /\ UNCHANGED <<established, cliKnown, chain, mode, prompts, lastUsed>>

(* The end of GetOrCreate: a new Session, resumed when the incident is     *)
(* flagged or indexed; the flag is consumed.                               *)
ResumesFlagged(i) == i \in evicted
Resumes(i) == i \in evicted \/ i \in established

CreateSession ==
    /\ chain.pc = "evict"
    /\ Len(order) < MaxLive
    /\ LET i == chain.inc
           new == [inc |-> i, resumed |-> Resumes(i), phase |-> "unspawned",
                   closed |-> FALSE, done |-> FALSE, child |-> "none"]
       IN
         /\ sess' = [o \in DOMAIN sess \cup {prompts} |->
                       IF o = prompts THEN new ELSE sess[o]]
         /\ sessions' = [sessions EXCEPT ![i] = prompts]
         /\ order' = Append(order, i)
         /\ evicted' = evicted \ {i}
         /\ evictedOrder' = RemoveFirst(evictedOrder, i)
         /\ lastUsed' = [lastUsed EXCEPT ![i] = prompts]
         /\ chain' = [chain EXCEPT !.pc = "send", !.obj = prompts]
    /\ UNCHANGED <<established, cliKnown, mode, prompts>>

-----------------------------------------------------------------------------
FailKeepsSession == Goto("idle")

(* Send fails: agentSessionDoneMsg ends the query.                         *)
Fail == chain' = Idle

SendOnClosed ==
    /\ chain.pc = "send" /\ Current.closed
    /\ Fail
    /\ UNCHANGED <<managerVars, established, sess, cliKnown, mode, prompts,
                   lastUsed>>

SendOnSpawned ==
    /\ chain.pc = "send" /\ ~Current.closed /\ Current.phase = "spawned"
    /\ Goto("write")
    /\ UNCHANGED <<managerVars, established, sess, cliKnown, mode, prompts,
                   lastUsed>>

(* spawn's exec.Start succeeds.  With --resume the session counts as       *)
(* spawned at once; with --session-id the duplicate-id detection follows.  *)
(* Start refuses a context CloseAll has already cancelled.                 *)
Spawn ==
    /\ mode = "running"
    /\ chain.pc = "send" /\ ~Current.closed /\ Current.phase = "unspawned"
    /\ LET fresh == ~Current.resumed IN
         /\ sess' = [sess EXCEPT
                       ![chain.obj].child = "up",
                       ![chain.obj].phase = IF fresh THEN "detecting"
                                                     ELSE "spawned"]
         /\ Goto(IF fresh THEN "spawn" ELSE "write")
    /\ UNCHANGED <<managerVars, established, cliKnown, mode, prompts, lastUsed>>

(* exec.Start fails: no such binary, or the manager's context is done.     *)
SpawnFails ==
    /\ chain.pc = "send" /\ ~Current.closed /\ Current.phase = "unspawned"
    /\ Fail
    /\ UNCHANGED <<managerVars, established, sess, cliKnown, mode, prompts,
                   lastUsed>>

(* The first byte of stdout arrives before the child exits.                *)
FirstByte ==
    /\ chain.pc = "spawn" /\ Current.child \in Running
    /\ chain.inc \notin cliKnown
    /\ cliKnown' = cliKnown \cup {chain.inc}
    /\ sess' = [sess EXCEPT ![chain.obj].phase = "spawned"]
    /\ Goto("write")
    /\ UNCHANGED <<managerVars, established, mode, prompts, lastUsed>>

(* The CLI rejects an id it already holds; retryAsResume starts the child  *)
(* again with --resume, which fails when the context is already cancelled. *)
RetryAsResume ==
    /\ chain.pc = "spawn" /\ Current.child \in Running
    /\ chain.inc \in cliKnown
    /\ \/ /\ mode = "running"
          /\ sess' = [sess EXCEPT ![chain.obj].resumed = TRUE,
                                  ![chain.obj].phase = "spawned"]
          /\ Goto("write")
       \/ /\ sess' = [sess EXCEPT ![chain.obj].resumed = TRUE,
                                  ![chain.obj].phase = "unspawned",
                                  ![chain.obj].child = "gone"]
          /\ Fail
    /\ UNCHANGED <<managerVars, established, cliKnown, mode, prompts, lastUsed>>

(* The child exits without the in-use marker: spawn still starts the loops *)
(* and leaves the readLoop to report the exit.  It may have created its    *)
(* conversation before it died.                                            *)
ExitBeforeOutput ==
    /\ chain.pc = "spawn"
    /\ \/ UNCHANGED cliKnown
       \/ cliKnown' = cliKnown \cup {chain.inc}
    /\ sess' = [sess EXCEPT ![chain.obj].child = "gone",
                            ![chain.obj].phase = "spawned"]
    /\ Goto("write")
    /\ UNCHANGED <<managerVars, established, mode, prompts, lastUsed>>

Deadline == chain.pc = "spawn"

(* No output within 30 seconds: the child is cancelled and the Session     *)
(* stays unspawned and usable.                                             *)
SpawnTimeout ==
    /\ Deadline
    /\ sess' = [sess EXCEPT ![chain.obj].child = "signalled",
                            ![chain.obj].phase = "unspawned"]
    /\ Fail
    /\ UNCHANGED <<managerVars, established, cliKnown, mode, prompts, lastUsed>>

(* writeLoop hands the turn to the child.                                  *)
WriteTurn ==
    /\ chain.pc = "write" /\ Current.child \in Running
    /\ Goto("reading")
    /\ UNCHANGED <<managerVars, established, sess, cliKnown, mode, prompts,
                   lastUsed>>

(* A broken pipe, the session's own context, or Send's 30 second deadline. *)
WriteFails ==
    /\ chain.pc = "write"
    /\ Fail
    /\ UNCHANGED <<managerVars, established, sess, cliKnown, mode, prompts,
                   lastUsed>>

-----------------------------------------------------------------------------
(* The child prints system/init: readLoop records the session in the       *)
(* index, which ignores an incident it has.  --resume of a conversation    *)
(* the CLI does not have never gets here.                                  *)
ChildInit(o) ==
    /\ sess[o].phase = "spawned" /\ sess[o].child \in Running
    /\ sess[o].inc \in cliKnown \ established
    /\ established' = established \cup {sess[o].inc}
    /\ UNCHANGED <<managerVars, sess, cliKnown, chain, mode, prompts, lastUsed>>

(* The turn's result line reaches the TUI, which stops reading.            *)
ReadResult ==
    /\ chain.pc = "reading" /\ ~Current.done
    /\ chain.inc \in established
    /\ chain' = Idle
    /\ UNCHANGED <<managerVars, established, sess, cliKnown, mode, prompts,
                   lastUsed>>

(* A child ends by itself, or because its context was cancelled.           *)
ChildExit(o) ==
    /\ sess[o].child \in Running /\ ~Locked(o)
    /\ sess' = [sess EXCEPT ![o].child = "gone"]
    /\ UNCHANGED <<managerVars, established, cliKnown, chain, mode, prompts,
                   lastUsed>>

(* readLoop returns from wait and runs its deferred calls, one of which    *)
(* takes the session's mutex.                                              *)
ReadLoopEnds(o) ==
    /\ ~Locked(o)
    /\ sess[o].phase = "spawned" /\ sess[o].child = "gone" /\ ~sess[o].done
    /\ sess' = [sess EXCEPT ![o].closed = TRUE, ![o].done = TRUE]
    /\ UNCHANGED <<managerVars, established, cliKnown, chain, mode, prompts,
                   lastUsed>>

(* readAgentSessionCmd sees an Error event or Done().                      *)
ReadDone ==
    /\ chain.pc = "reading" /\ Current.done
    /\ chain' = Idle
    /\ UNCHANGED <<managerVars, established, sess, cliKnown, mode, prompts,
                   lastUsed>>

-----------------------------------------------------------------------------
UncancelledChild(c) == c
CancelledChild(c) == IF c = "up" THEN "signalled" ELSE c

(* CloseAll takes the manager's mutex and first cancels the context every  *)
(* child derives from.                                                     *)
CloseAll ==
    /\ mode = "running" /\ chain.pc # "evict"
    /\ mode' = "closing"
    /\ sess' = [o \in DOMAIN sess |->
                  [sess[o] EXCEPT !.child = CancelledChild(@)]]
    /\ UNCHANGED <<managerVars, established, cliKnown, chain, prompts, lastUsed>>

(* ... then closes the sessions of the map, waiting for each one's mutex.  *)
CloseOne(i) ==
    /\ mode = "closing"
    /\ sessions[i] # NoSession
    /\ ~sess[sessions[i]].closed /\ ~Locked(sessions[i])
    /\ sess' = [sess EXCEPT ![sessions[i]] = ClosedSession(@)]
    /\ UNCHANGED <<managerVars, established, cliKnown, chain, mode, prompts,
                   lastUsed>>

AllClosed == \A i \in Incidents :
                sessions[i] # NoSession => sess[sessions[i]].closed

Exit ==
    /\ mode = "closing" /\ AllClosed
    /\ mode' = "exited"
    /\ UNCHANGED <<managerVars, established, sess, cliKnown, chain, prompts,
                   lastUsed>>

(* The program has returned from CloseAll and is gone.                     *)
Terminated == mode = "exited" /\ UNCHANGED vars

-----------------------------------------------------------------------------
GetOrCreate == Touch \/ MissOrDead \/ EvictOldest \/ CreateSession

SpawnOutcome == \/ FirstByte \/ RetryAsResume
                \/ ExitBeforeOutput \/ SpawnTimeout

Send == \/ SendOnClosed \/ SendOnSpawned \/ Spawn \/ SpawnFails
        \/ SpawnOutcome \/ WriteTurn \/ WriteFails

Next ==
    \/ \E i \in Incidents : HandlePrompt(i) \/ CloseOne(i)
    \/ GetOrCreate
    \/ Send
    \/ ReadResult \/ ReadDone
    \/ \E o \in DOMAIN sess : ChildInit(o) \/ ChildExit(o) \/ ReadLoopEnds(o)
    \/ CloseAll \/ Exit \/ Terminated

Spec == Init /\ [][Next]_vars

(* The Go scheduler runs every goroutine that can move, the 30 second      *)
(* deadlines fire, and a cancelled child is killed.  Nothing forces the    *)
(* user to prompt or quit, or a running child to speak, answer or exit.    *)
(* (A child that closes its stdout and lives on is AgentSession's subject.) *)
Fairness ==
    /\ WF_vars(GetOrCreate)
    /\ WF_vars(SendOnClosed \/ SendOnSpawned \/ Spawn \/ SpawnFails)
    /\ WF_vars(SpawnTimeout)
    /\ WF_vars(/\ chain.pc = "spawn" /\ Current.child = "signalled"
               /\ ExitBeforeOutput)
    /\ WF_vars(WriteTurn \/ WriteFails)
    /\ WF_vars(ReadDone)
    /\ WF_vars(Exit)
    /\ \A i \in Incidents : WF_vars(CloseOne(i))
    /\ \A o \in SessionIds :
         /\ WF_vars(/\ o \in DOMAIN sess /\ sess[o].child = "signalled"
                    /\ ChildExit(o))
         /\ WF_vars(o \in DOMAIN sess /\ ReadLoopEnds(o))

FairSpec == Spec /\ Fairness

-----------------------------------------------------------------------------
LiveChildren == {o \in DOMAIN sess : sess[o].child = "up"}

(* At most agent_max_sessions child processes are running and not told to  *)
(* stop, whatever order of evictions, crashes and spawn retries            *)
(* (docs/ai-agents.md: "LRU process management").                          *)
LiveBound == Cardinality(LiveChildren) <= MaxLive

(* The map and the LRU slice are updated separately in GetOrCreate: they   *)
(* always hold the same incidents, each once, and no more than the cap.    *)
MapAgreesWithOrder ==
    /\ ToSet(order) = {i \in Incidents : sessions[i] # NoSession}
    /\ IsInjective(order)
    /\ Len(order) <= MaxLive

(* The evicted map and its insertion order agree and stay within the cap,  *)
(* and no flag outlives the successor session that consumed it.            *)
FlagsAgree ==
    /\ evicted = ToSet(evictedOrder)
    /\ IsInjective(evictedOrder)
    /\ Len(evictedOrder) <= MaxEvicted
    /\ \A i \in evicted : sessions[i] = NoSession

(* The slice really is in order of last access, so the loop's victim is    *)
(* the least recently used session.                                        *)
OldestFirst ==
    \A a, b \in DOMAIN order : a < b => lastUsed[order[a]] < lastUsed[order[b]]

(* The three books GetOrCreate keeps side by side tell one story.          *)
Bookkeeping == MapAgreesWithOrder /\ FlagsAgree /\ OldestFirst

(* A conversation the index knows is never started again under a fresh     *)
(* id, as long as no flag had to be dropped at the cap: the child of a     *)
(* closed session may still report its init to the index then.             *)
KnownIsResumed ==
    \A o \in DOMAIN sess :
        /\ ~sess[o].resumed /\ ~sess[o].closed
        /\ sess[o].phase = "unspawned"
        => sess[o].inc \notin established

(* Once CloseAll has started no child is left running unsignalled, and     *)
(* a spawn racing with it cannot start one.                                *)
NoChildAfterQuit == mode # "running" => LiveChildren = {}

(* CloseAll returns, even when the chain is inside a spawn that holds the  *)
(* session's mutex, and every child has been stopped in the end.           *)
QuitCompletes ==
    mode = "closing" ~>
        /\ mode = "exited"
        /\ \A o \in DOMAIN sess : sess[o].child \notin Running

-----------------------------------------------------------------------------
(* The strengthening that makes the invariants above inductive.            *)

(* A map entry names a Session made for that incident ...                  *)
MapSound ==
    \A i \in Incidents : sessions[i] # NoSession =>
        /\ sessions[i] \in DOMAIN sess
        /\ sess[sessions[i]].inc = i

(* ... and a Session that left the map is closed, ...                      *)
OpenIsMapped ==
    \A o \in DOMAIN sess : ~sess[o].closed => sessions[sess[o].inc] = o

(* ... so that it neither runs nor is being spawned.                       *)
ClosedIsQuiet ==
    \A o \in DOMAIN sess :
        sess[o].closed => sess[o].child # "up" /\ sess[o].phase # "detecting"

(* Only the Session whose mutex the chain holds is inside the detection.   *)
DetectingIsLocked ==
    \A o \in DOMAIN sess : sess[o].phase = "detecting" => Locked(o)

(* Where the chain is, and what it has in hand there.                      *)
ChainSound ==
    /\ chain.pc # "idle" => chain.inc \in Incidents
    /\ chain.pc \in {"get", "evict"} =>
         /\ prompts \in SessionIds \ DOMAIN sess
         /\ \A i \in Incidents : lastUsed[i] < prompts
    /\ chain.pc = "evict" => mode = "running" /\ sessions[chain.inc] = NoSession
    /\ chain.pc \in {"send", "spawn", "write", "reading"} =>
         /\ chain.obj \in DOMAIN sess
         /\ sess[chain.obj].inc = chain.inc
    /\ chain.pc = "spawn" => sess[chain.obj].phase = "detecting"

(* Sessions and accesses carry numbers of prompts already handled.         *)
Numbered ==
    /\ \A o \in DOMAIN sess : o <= prompts
    /\ \A i \in Incidents : lastUsed[i] <= prompts

IInv ==
    /\ TypeOK
    /\ MapAgreesWithOrder /\ FlagsAgree /\ OldestFirst
    /\ MapSound /\ OpenIsMapped /\ ClosedIsQuiet /\ DetectingIsLocked
    /\ ChainSound /\ Numbered /\ NoChildAfterQuit

(* With room for every flag, an incident that ever had a Session has one   *)
(* or is flagged, so that only its first Session may start it afresh; and  *)
(* nobody else's child records the incident before that Session runs.      *)
RoomForFlags == IsFiniteSet(Incidents) /\ Cardinality(Incidents) <= MaxEvicted

FlaggedOrMapped ==
    \A o \in DOMAIN sess :
        sessions[sess[o].inc] # NoSession \/ sess[o].inc \in evicted

FreshIsFirst ==
    \A o \in DOMAIN sess : ~sess[o].resumed /\ ~sess[o].closed =>
        /\ \A p \in DOMAIN sess : sess[p].inc = sess[o].inc => p = o
        /\ sess[o].phase # "spawned" => sess[o].inc \notin established

-----------------------------------------------------------------------------
(* docs/plans/412-session-persistence.md: a crash before system/init is    *)
(* followed by a fresh --session-id, never a --resume of a conversation    *)
(* that does not exist.                                                    *)
ResumeOnlyKnown ==
    \A o \in DOMAIN sess : sess[o].resumed => sess[o].inc \in cliKnown

(* docs/ai-agents.md: a CLI agent query times out after 60 seconds.        *)
QueryEnds == chain.pc = "reading" ~> chain.pc = "idle" \/ mode # "running"
=============================================================================
