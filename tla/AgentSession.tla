---------------------------- MODULE AgentSession ----------------------------
(***************************************************************************)
(* One agent Session of pkg/agent/session.go in detail: Send and spawn     *)
(* (which hold the session's mutex), the wait and peek goroutines of a     *)
(* fresh spawn, writeLoop, readLoop, Close, CloseAll's cancellation, the   *)
(* child process, and the reader of pkg/tui/claude.go that drains Events() *)
(* one message at a time.                                                  *)
(*                                                                         *)
(* Turns are numbered; the child answers the turns it reads in order.      *)
(***************************************************************************)
EXTENDS Integers, Sequences

CONSTANTS
    EventCap,   \* eventChanBuffer
    MaxTurns,   \* bound of the model: prompts for this incident
    MaxText     \* bound of the model: lines the child prints besides results

ASSUME AgentAssumption == EventCap \in Nat \ {0} /\ MaxTurns \in Nat /\ MaxText \in Nat

VARIABLES
    s,        \* the fields of Session that its mutex guards
    ctxDone,  \* spawnCtx is cancelled
    quit,     \* CloseAll: "no", "cancelled" (lifecycleCtx) or "closed"
    chain,    \* the prompt being served: Send's and the reader's progress
    ack,      \* errCh of the current Send
    writer,   \* writeLoop
    reader,   \* readLoop, with the event in its hand
    events,   \* the buffered channel Events()
    child,    \* the process, its stdout and the wait goroutine's result
    pipe,     \* lines printed and not read
    stdin,    \* turns written and not read by the child
    texts,    \* number of text lines printed so far
    seen      \* history: results printed and pushed, errors pushed, results dropped

vars == <<s, ctxDone, quit, chain, ack, writer, reader, events, child, pipe,
          stdin, texts, seen>>

Turns == 1..MaxTurns
Text == 0        \* an event that is not a result; turn n's result is n
Error == -1      \* an Error event
Event == Error..MaxTurns

ChainPcs == {"idle", "detect", "awaitExit", "offer", "ack", "first", "second"}

TypeOK ==
    /\ s \in [spawned : BOOLEAN, resumed : BOOLEAN, closing : BOOLEAN,
              closed : BOOLEAN, done : BOOLEAN]
    /\ ctxDone \in BOOLEAN
    /\ quit \in {"no", "cancelled", "closed"}
    /\ chain \in [pc : ChainPcs, turn : 0..MaxTurns]
    /\ ack \in {"none", "ok", "failed"}
    /\ writer \in [pc : {"none", "ready", "writing", "gone"}, turn : 0..MaxTurns]
    /\ reader \in [pc : {"none", "scan", "emit", "scanErr", "wait", "exitErr",
                         "ending", "finishing", "gone"}, line : Event]
    /\ events \in Seq(Event) /\ Len(events) <= EventCap
    /\ child \in [st : {"none", "up", "ok", "failed"}, rejected : BOOLEAN,
                  outOpen : BOOLEAN, reaped : BOOLEAN, cut : BOOLEAN,
                  killed : BOOLEAN]
    /\ pipe \in Seq(0..MaxTurns)
    /\ stdin \in Seq(Turns)
    /\ texts \in 0..MaxText
    /\ seen \in [printed : SUBSET Turns, pushed : SUBSET Turns, reported : BOOLEAN,
                 killedError : BOOLEAN, discarded : BOOLEAN]

NoChild == [st |-> "none", rejected |-> FALSE, outOpen |-> FALSE,
            reaped |-> FALSE, cut |-> FALSE, killed |-> FALSE]

(* NewSession; resumed when GetOrCreate said so.                           *)
Init ==
    /\ s \in [spawned : {FALSE}, resumed : BOOLEAN, closing : {FALSE},
              closed : {FALSE}, done : {FALSE}]
    /\ ctxDone = FALSE
    /\ quit = "no"
    /\ chain = [pc |-> "idle", turn |-> 0]
    /\ ack = "none"
    /\ writer = [pc |-> "none", turn |-> 0]
    /\ reader = [pc |-> "none", line |-> Text]
    /\ events = <<>>
    /\ child = NoChild
    /\ pipe = <<>>
    /\ stdin = <<>>
    /\ texts = 0
    /\ seen = [printed |-> {}, pushed |-> {}, reported |-> FALSE,
               killedError |-> FALSE, discarded |-> FALSE]

Goto(pc) == chain' = [chain EXCEPT !.pc = pc]
Gone == child.st \in {"ok", "failed"}

(* The mutex is held across steps only by a Send inside spawn.             *)
MutexFree == chain.pc \notin {"detect", "awaitExit"}

(* Nothing more can be read from stdout, by its end or because Wait or     *)
(* spawn closed the reading side.                                          *)
EndOfOutput == pipe = <<>> /\ (Gone \/ ~child.outOpen)

-----------------------------------------------------------------------------
(* Send: a closed session refuses the prompt.                              *)
SendOnClosed ==
    /\ chain.pc = "idle" /\ chain.turn < MaxTurns /\ s.closed
    /\ chain' = [pc |-> "idle", turn |-> chain.turn + 1]
    /\ UNCHANGED <<s, ctxDone, quit, ack, writer, reader, events, child, pipe,
                   stdin, texts, seen>>

SendOnSpawned ==
    /\ chain.pc = "idle" /\ chain.turn < MaxTurns /\ ~s.closed /\ s.spawned
    /\ chain' = [pc |-> "offer", turn |-> chain.turn + 1]
    /\ ack' = "none"
    /\ UNCHANGED <<s, ctxDone, quit, writer, reader, events, child, pipe, stdin,
                   texts, seen>>

Started == [NoChild EXCEPT !.st = "up", !.outOpen = TRUE]

(* The end of spawn: the loops start.                                      *)
StartLoops ==
    /\ writer' = [pc |-> "ready", turn |-> 0]
    /\ reader' = [pc |-> "scan", line |-> Text]

(* spawn: exec.Start, which a cancelled lifecycle context refuses.         *)
SpawnFails ==
    /\ chain.pc = "idle" /\ chain.turn < MaxTurns /\ ~s.closed /\ ~s.spawned
    /\ chain' = [pc |-> "idle", turn |-> chain.turn + 1]
    /\ UNCHANGED <<s, ctxDone, quit, ack, writer, reader, events, child, pipe,
                   stdin, texts, seen>>

Spawn ==
    /\ chain.pc = "idle" /\ chain.turn < MaxTurns /\ ~s.closed /\ ~s.spawned
    /\ quit = "no"
    /\ child' = Started
    /\ ctxDone' = FALSE
    /\ ack' = "none"
    /\ pipe' = <<>> /\ stdin' = <<>>
    /\ IF s.resumed
       THEN /\ s' = [s EXCEPT !.spawned = TRUE]
            /\ chain' = [pc |-> "offer", turn |-> chain.turn + 1]
            /\ StartLoops
       ELSE /\ chain' = [pc |-> "detect", turn |-> chain.turn + 1]
            /\ UNCHANGED <<s, writer, reader>>
    /\ UNCHANGED <<quit, events, texts, seen>>

(* The end of a fresh spawn: the session counts as spawned, the loops run, *)
(* and the rest of Send's critical section follows.                        *)
Spawned ==
    /\ s' = [s EXCEPT !.spawned = TRUE]
    /\ Goto("offer")
    /\ StartLoops

(* The select of spawn: the first byte of output is there ...              *)
FirstByte ==
    /\ chain.pc = "detect" /\ pipe # <<>> /\ ~child.cut
    /\ Spawned
    /\ UNCHANGED <<ctxDone, quit, ack, events, child, pipe, stdin, texts, seen>>

(* ... or the child is known to have exited: with an error, its stdout is  *)
(* closed (as Wait already did) and the marker on stderr decides whether   *)
(* to retry ...                                                            *)
ExitNoticed ==
    /\ chain.pc = "detect" /\ child.reaped
    /\ ~child.rejected
    /\ Spawned
    /\ UNCHANGED <<ctxDone, quit, ack, events, child, pipe, stdin, texts, seen>>

(* ... or there will be no output: spawn waits for the exit, and only for  *)
(* the exit ...                                                            *)
NoOutput ==
    /\ chain.pc = "detect" /\ EndOfOutput
    /\ Goto("awaitExit")
    /\ UNCHANGED <<s, ctxDone, quit, ack, writer, reader, events, child, pipe,
                   stdin, texts, seen>>

ExitAwaited ==
    /\ chain.pc = "awaitExit" /\ child.reaped /\ ~child.rejected
    /\ Spawned
    /\ UNCHANGED <<ctxDone, quit, ack, events, child, pipe, stdin, texts, seen>>

(* retryAsResume: spawn again with --resume, which a cancelled lifecycle   *)
(* context refuses.                                                        *)
RetryAsResume ==
    /\ chain.pc \in {"detect", "awaitExit"} /\ child.reaped /\ child.rejected
    /\ IF quit = "no"
       THEN /\ child' = Started
            /\ s' = [s EXCEPT !.resumed = TRUE, !.spawned = TRUE]
            /\ Goto("offer")
            /\ StartLoops
            /\ UNCHANGED ctxDone
       ELSE /\ s' = [s EXCEPT !.resumed = TRUE]
            /\ Goto("idle")
            /\ ctxDone' = TRUE
            /\ UNCHANGED <<child, writer, reader>>
    /\ UNCHANGED <<quit, ack, events, pipe, stdin, texts, seen>>

(* ... or Send's context or the timer, both of 30 seconds, fires.          *)
SpawnTimeout ==
    /\ chain.pc = "detect"
    /\ Goto("idle")
    /\ ctxDone' = TRUE
    /\ child' = [child EXCEPT !.cut = TRUE]
    /\ UNCHANGED <<s, quit, ack, writer, reader, events, pipe, stdin, texts, seen>>

(* Send hands the turn to writeLoop ...                                    *)
Offer ==
    /\ chain.pc = "offer" /\ writer.pc = "ready"
    /\ writer' = [pc |-> "writing", turn |-> chain.turn]
    /\ Goto("ack")
    /\ UNCHANGED <<s, ctxDone, quit, ack, reader, events, child, pipe, stdin,
                   texts, seen>>

(* ... and waits for the outcome; it gives up when its own context or the  *)
(* session's is done.  The deadline can only pass while it is waiting.     *)
GiveUp ==
    /\ chain.pc \in {"offer", "ack"}
    /\ Goto("idle")
    /\ UNCHANGED <<s, ctxDone, quit, ack, writer, reader, events, child, pipe,
                   stdin, texts, seen>>

SendReturns ==
    /\ chain.pc = "ack" /\ ack # "none"
    /\ Goto(IF ack = "ok" THEN "first" ELSE "idle")
    /\ UNCHANGED <<s, ctxDone, quit, ack, writer, reader, events, child, pipe,
                   stdin, texts, seen>>

-----------------------------------------------------------------------------
(* writeLoop: errCh has room for the outcome, so an abandoned request does *)
(* not hold it up.                                                         *)
Acked(outcome) ==
    IF chain.pc = "ack" /\ chain.turn = writer.turn
    THEN ack' = outcome ELSE UNCHANGED ack

(* The write completes once the child leaves room in the pipe.             *)
WriteDone ==
    /\ writer.pc = "writing" /\ child.st = "up" /\ ~s.closed
    /\ stdin' = Append(stdin, writer.turn)
    /\ Acked("ok")
    /\ writer' = [writer EXCEPT !.pc = "ready"]
    /\ UNCHANGED <<s, ctxDone, quit, chain, reader, events, child, pipe, texts, seen>>

WriteFails ==
    /\ writer.pc = "writing" /\ (Gone \/ s.closed)
    /\ Acked("failed")
    /\ writer' = [writer EXCEPT !.pc = "ready"]
    /\ UNCHANGED <<s, ctxDone, quit, chain, reader, events, child, pipe, stdin,
                   texts, seen>>

WriteLoopEnds ==
    /\ writer.pc = "ready" /\ ctxDone
    /\ writer' = [writer EXCEPT !.pc = "gone"]
    /\ UNCHANGED <<s, ctxDone, quit, chain, ack, reader, events, child, pipe,
                   stdin, texts, seen>>

-----------------------------------------------------------------------------
(* readLoop.  A line is taken from stdout; at its end the loop goes on to  *)
(* wait(), and a stdout closed under the scanner is an error to report.    *)
Read(pc) == reader' = [reader EXCEPT !.pc = pc]

ScanOutcomeQuiet == "wait"
ScanOutcome == IF child.cut THEN "scanErr" ELSE "wait"

Scan ==
    /\ reader.pc = "scan"
    /\ \/ /\ pipe # <<>>
          /\ reader' = [pc |-> "emit", line |-> Head(pipe)]
          /\ pipe' = Tail(pipe)
       \/ /\ pipe # <<>>   \* a line over stdoutScannerBuffer
          /\ Read("scanErr")
          /\ UNCHANGED pipe
       \/ /\ pipe = <<>> /\ (EndOfOutput \/ child.cut)
          /\ Read(ScanOutcome)
          /\ UNCHANGED pipe
    /\ UNCHANGED <<s, ctxDone, quit, chain, ack, writer, events, child, stdin,
                   texts, seen>>

HasRoomOffByOne == Len(events) <= EventCap
HasRoom == Len(events) < EventCap

InterruptedNever == FALSE
Interrupted == ctxDone

(* The select around every send on Events(): the event, or a cancelled     *)
(* spawnCtx; when both are ready either may be chosen.                     *)
Emit ==
    /\ reader.pc = "emit"
    /\ \/ /\ HasRoom
          /\ events' = Append(events, reader.line)
          /\ seen' = [seen EXCEPT !.pushed = @ \cup ({reader.line} \cap Turns)]
          /\ Read("scan")
       \/ /\ Interrupted
          /\ Read("wait")
          /\ UNCHANGED <<events, seen>>
    /\ UNCHANGED <<s, ctxDone, quit, chain, ack, writer, child, pipe, stdin, texts>>

EmitError ==
    /\ reader.pc \in {"scanErr", "exitErr"}
    /\ Read(IF reader.pc = "scanErr" THEN "wait" ELSE "ending")
    /\ \/ /\ HasRoom
          /\ events' = Append(events, Error)
          /\ seen' = [seen EXCEPT
                        !.reported = TRUE,
                        !.killedError = @ \/ (reader.pc = "exitErr" /\ child.killed)]
       \/ /\ Interrupted
          /\ UNCHANGED <<events, seen>>
    /\ UNCHANGED <<s, ctxDone, quit, chain, ack, writer, child, pipe, stdin, texts>>

AfterWait == IF child.st = "failed" /\ ~s.closing THEN "exitErr" ELSE "ending"

(* The first deferred call: wait() is the goroutine's result in a fresh    *)
(* spawn and cmd.Wait itself in a resumed one.                             *)
WaitedAndDone ==
    /\ reader.pc = "wait" /\ Gone /\ (s.resumed \/ child.reaped)
    /\ Read(AfterWait)
    /\ s' = [s EXCEPT !.done = TRUE]
    /\ UNCHANGED <<ctxDone, quit, chain, ack, writer, events, child, pipe, stdin,
                   texts, seen>>

Waited ==
    /\ reader.pc = "wait" /\ Gone /\ (s.resumed \/ child.reaped)
    /\ Read(AfterWait)
    /\ UNCHANGED <<s, ctxDone, quit, chain, ack, writer, events, child, pipe, stdin,
                   texts, seen>>

(* The second and the third: closed, then Done().                          *)
EndingDoneFirst ==
    /\ reader.pc = "ending"
    /\ s' = [s EXCEPT !.done = TRUE]
    /\ Read("finishing")
    /\ UNCHANGED <<ctxDone, quit, chain, ack, writer, events, child, pipe, stdin,
                   texts, seen>>

Ending ==
    /\ reader.pc = "ending"
    /\ s' = [s EXCEPT !.closed = TRUE]
    /\ Read("finishing")
    /\ UNCHANGED <<ctxDone, quit, chain, ack, writer, events, child, pipe, stdin,
                   texts, seen>>

FinishingOnFailure ==
    /\ reader.pc = "finishing"
    /\ s' = [s EXCEPT !.done = (child.st = "failed")]
    /\ Read("gone")
    /\ UNCHANGED <<ctxDone, quit, chain, ack, writer, events, child, pipe, stdin,
                   texts, seen>>

Finishing ==
    /\ reader.pc = "finishing"
    /\ s' = [s EXCEPT !.done = TRUE]
    /\ Read("gone")
    /\ UNCHANGED <<ctxDone, quit, chain, ack, writer, events, child, pipe, stdin,
                   texts, seen>>

-----------------------------------------------------------------------------
(* readAgentSessionCmd: a buffered event first ...                         *)
Received ==
    /\ events # <<>>
    /\ events' = Tail(events)
    /\ Goto(IF Head(events) = Text THEN "first" ELSE "idle")

FirstSelect ==
    /\ chain.pc = "first"
    /\ \/ Received
       \/ events = <<>> /\ Goto("second") /\ UNCHANGED events
    /\ UNCHANGED <<s, ctxDone, quit, ack, writer, reader, child, pipe, stdin, texts,
                   seen>>

(* ... then whichever comes, an event or the end of the session.           *)
SecondSelect ==
    /\ chain.pc = "second"
    /\ \/ Received /\ UNCHANGED seen
       \/ /\ s.done
          /\ Goto("idle")
          /\ seen' = [seen EXCEPT
                !.discarded = @ \/ \E k \in DOMAIN events : events[k] \in Turns]
          /\ UNCHANGED events
    /\ UNCHANGED <<s, ctxDone, quit, ack, writer, reader, child, pipe, stdin, texts>>

-----------------------------------------------------------------------------
(* Close, by an eviction: the evicted incident has no query running.       *)
Closed == [s EXCEPT !.closing = TRUE, !.closed = TRUE,
                    !.done = @ \/ ~s.spawned]

Close ==
    /\ MutexFree /\ chain.pc = "idle" /\ quit = "no" /\ ~s.closing
    /\ s' = Closed
    /\ ctxDone' = (ctxDone \/ s.spawned)
    /\ UNCHANGED <<quit, chain, ack, writer, reader, events, child, pipe, stdin,
                   texts, seen>>

(* CloseAll cancels every context and then closes the sessions one by one, *)
(* waiting for their mutexes.                                              *)
CancelAll ==
    /\ quit = "no"
    /\ quit' = "cancelled"
    /\ ctxDone' = TRUE
    /\ UNCHANGED <<s, chain, ack, writer, reader, events, child, pipe, stdin, texts,
                   seen>>

CloseOnQuit ==
    /\ quit = "cancelled" /\ MutexFree
    /\ quit' = "closed"
    /\ s' = Closed
    /\ UNCHANGED <<ctxDone, chain, ack, writer, reader, events, child, pipe, stdin,
                   texts, seen>>

-----------------------------------------------------------------------------
(* The child process.                                                      *)
Say ==
    /\ child.st = "up" /\ child.outOpen /\ ~child.cut /\ texts < MaxText
    /\ pipe' = Append(pipe, Text)
    /\ texts' = texts + 1
    /\ UNCHANGED <<s, ctxDone, quit, chain, ack, writer, reader, events, child,
                   stdin, seen>>

Answer ==
    /\ child.st = "up" /\ child.outOpen /\ ~child.cut /\ stdin # <<>>
    /\ pipe' = Append(pipe, Head(stdin))
    /\ stdin' = Tail(stdin)
    /\ seen' = [seen EXCEPT !.printed = @ \cup {Head(stdin)}]
    /\ UNCHANGED <<s, ctxDone, quit, chain, ack, writer, reader, events, child, texts>>

Silent ==
    /\ child.st = "up" /\ child.outOpen
    /\ child' = [child EXCEPT !.outOpen = FALSE]
    /\ UNCHANGED <<s, ctxDone, quit, chain, ack, writer, reader, events, pipe, stdin,
                   texts, seen>>

(* It ends by itself, rejects a session id that is in use, or is killed    *)
(* because its context is done.                                            *)
ChildExits ==
    /\ child.st = "up"
    /\ \/ \E st \in {"ok", "failed"} : child' = [child EXCEPT !.st = st]
       \/ /\ ~s.resumed /\ chain.pc \in {"detect", "awaitExit"} /\ pipe = <<>>
          /\ child' = [child EXCEPT !.st = "failed", !.rejected = TRUE]
    /\ UNCHANGED <<s, ctxDone, quit, chain, ack, writer, reader, events, pipe, stdin,
                   texts, seen>>

Killed ==
    /\ child.st = "up" /\ ctxDone
    /\ child' = [child EXCEPT !.st = "failed", !.killed = TRUE]
    /\ UNCHANGED <<s, ctxDone, quit, chain, ack, writer, reader, events, pipe, stdin,
                   texts, seen>>

(* The goroutine of a fresh spawn calls cmd.Wait, which closes the reading *)
(* end: what the scanner had not taken from the pipe by then is lost.      *)
Reap ==
    /\ Gone /\ ~child.reaped /\ ~s.resumed
    /\ child' = [child EXCEPT !.reaped = TRUE, !.cut = TRUE]
    /\ \E kept \in IF reader.pc = "none" THEN {0} ELSE 0..Len(pipe) :
          pipe' = SubSeq(pipe, 1, kept)
    /\ UNCHANGED <<s, ctxDone, quit, chain, ack, writer, reader, events, stdin, texts,
                   seen>>

-----------------------------------------------------------------------------
Send == SendOnClosed \/ SendOnSpawned \/ SpawnFails \/ Spawn

SpawnSelect ==
    \/ FirstByte \/ ExitNoticed \/ NoOutput \/ ExitAwaited \/ RetryAsResume

WriteLoop == WriteDone \/ WriteFails \/ WriteLoopEnds
ReadLoop == Scan \/ Emit \/ EmitError \/ Waited \/ Ending \/ Finishing
Consumer == FirstSelect \/ SecondSelect
Child == Say \/ Answer \/ Silent \/ ChildExits

Next ==
    \/ Send \/ SpawnSelect \/ SpawnTimeout \/ Offer \/ GiveUp \/ SendReturns
    \/ WriteLoop \/ ReadLoop \/ Consumer
    \/ Close \/ CancelAll \/ CloseOnQuit
    \/ Child \/ Killed \/ Reap

Spec == Init /\ [][Next]_vars

(* Goroutines are scheduled, timers fire, a killed process dies and is     *)
(* reaped.  Nothing is assumed of what the child does by itself, nor that  *)
(* anyone asks, evicts or quits.                                           *)
Fairness ==
    /\ WF_vars(SpawnSelect) /\ WF_vars(SpawnTimeout)
    /\ WF_vars(Offer) /\ WF_vars(GiveUp) /\ WF_vars(SendReturns)
    /\ WF_vars(WriteLoop) /\ WF_vars(ReadLoop) /\ WF_vars(Consumer)
    /\ WF_vars(CloseOnQuit) /\ WF_vars(Killed) /\ WF_vars(Reap)

FairSpec == Spec /\ Fairness

-----------------------------------------------------------------------------
Life == INSTANCE SessionLife WITH spawned <- s.spawned, closed <- s.closed,
                                  done <- s.done

(* The Session that GetOrCreate, Send and the event reader see lives the   *)
(* life they count on, whatever its goroutines and its child do.           *)
LivesSessionLife == Life!LifeSpec

(* Once Done() is closed nothing is put on Events() any more, so a reader  *)
(* that drains before it looks at Done() has seen everything.              *)
DoneIsLast == [][s.done => Len(events') <= Len(events)]_vars

(* A session that ended by itself either delivered every result the child  *)
(* printed or reported an error: the tail that cmd.Wait cuts off a fresh   *)
(* session's stdout is never lost silently.                                *)
NoSilentLoss ==
    s.done /\ ~ctxDone => seen.printed \subseteq seen.pushed \/ seen.reported

(* A closed session comes to its end although nobody reads its events and  *)
(* its buffer may be full.                                                 *)
CloseEnds == s.closing ~> s.done

(* Once the child is gone its query ends: by an event or by Done().        *)
DeathEndsQuery == chain.pc \in {"first", "second"} /\ Gone ~> chain.pc = "idle"

-----------------------------------------------------------------------------
(* pkg/tui/claude.go: "a final Result that arrives simultaneously with     *)
(* process exit is never discarded by Go's random select".                 *)
ResultNotDiscarded == ~seen.discarded

(* pkg/agent/session.go: closing is "set by Close() before killing child,  *)
(* suppresses exit error".                                                 *)
QuietClose == ~seen.killedError

(* pkg/agent/session.go: "a hung child ... cannot block spawn              *)
(* indefinitely".                                                          *)
SpawnReturns == chain.pc \in {"detect", "awaitExit"} ~> chain.pc \notin {"detect", "awaitExit"}
=============================================================================
