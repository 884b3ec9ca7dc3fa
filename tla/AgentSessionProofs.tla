------------------------- MODULE AgentSessionProofs -------------------------
(***************************************************************************)
(* Proofs about AgentSession, for any buffer, number of prompts and of     *)
(* printed lines.                                                          *)
(*                                                                         *)
(* LifeInv says who may be where: the loops run exactly when the session   *)
(* counts as spawned, a Send inside spawn works on a session that nobody   *)
(* closed meanwhile, and Done() comes when the readLoop has nothing left   *)
(* to do.  From it follow that the session implements SessionLife and that *)
(* nothing is put on Events() after Done().  LossInv follows a printed     *)
(* result from the pipe through the hand of the readLoop onto Events(); it *)
(* holds until an error is reported or the context is cancelled.           *)
(***************************************************************************)
EXTENDS AgentSession, TLAPS

LifeInv ==
    /\ reader.pc # "none" <=> s.spawned
    /\ writer.pc # "none" => s.spawned
    /\ chain.pc \in {"detect", "awaitExit"} => ~s.spawned /\ ~s.closed
    /\ reader.pc \in {"finishing", "gone"} => s.closed
    /\ s.done => s.closed /\ reader.pc \in {"none", "gone"}

After == {"wait", "exitErr", "ending", "finishing", "gone"}
Within(t, q) == \E n \in 1..Len(q) : q[n] = t

(* Where a printed result is while the readLoop scans.                     *)
Kept(t) ==
    t \in seen.pushed \/ Within(t, pipe) \/ (reader.pc = "emit" /\ t = reader.line)

LossInv ==
    /\ ~s.spawned => seen.printed = {} /\ stdin = <<>>
    /\ ~ctxDone /\ ~seen.reported =>
          /\ reader.pc \in {"scan", "emit"} /\ ~child.cut =>
                \A t \in seen.printed : Kept(t)
          /\ reader.pc \in After =>
                /\ seen.printed \subseteq seen.pushed
                /\ ~(child.st = "up" /\ child.outOpen)

(* The types of the records, by their names.                               *)
Sessions == [spawned : BOOLEAN, resumed : BOOLEAN, closing : BOOLEAN,
             closed : BOOLEAN, done : BOOLEAN]
Children == [st : {"none", "up", "ok", "failed"}, rejected : BOOLEAN,
             outOpen : BOOLEAN, reaped : BOOLEAN, cut : BOOLEAN, killed : BOOLEAN]
ReaderPcs == {"none", "scan", "emit", "scanErr", "wait", "exitErr", "ending",
              "finishing", "gone"}
Readers == [pc : ReaderPcs, line : Event]
Writers ==
    {w \in [pc : {"none", "ready", "writing", "gone"}, turn : 0..MaxTurns] :
        w.pc = "writing" => w.turn \in Turns}
Chains == {c \in [pc : ChainPcs, turn : 0..MaxTurns] : c.pc # "idle" => c.turn \in Turns}
Histories == [printed : SUBSET Turns, pushed : SUBSET Turns, reported : BOOLEAN,
              killedError : BOOLEAN, discarded : BOOLEAN]

TypeInv ==
      /\ s \in Sessions /\ ctxDone \in BOOLEAN /\ quit \in {"no", "cancelled", "closed"}
      /\ chain \in Chains /\ ack \in {"none", "ok", "failed"} /\ writer \in Writers
      /\ reader \in Readers /\ events \in Seq(Event) /\ Len(events) <= EventCap
      /\ child \in Children /\ pipe \in Seq(0..MaxTurns) /\ stdin \in Seq(Turns)
      /\ texts \in 0..MaxText /\ seen \in Histories

IInv == TypeInv /\ LifeInv /\ LossInv

LEMMA Types == TypeInv => TypeOK
BY DEF TypeInv, TypeOK, Sessions, Chains, Writers, Readers, ReaderPcs, Children, Histories

LEMMA Numbers ==
    /\ Text \in 0..MaxTurns /\ Text \in Event /\ Error \in Event
    /\ 0..MaxTurns \subseteq Event /\ Turns \subseteq 0..MaxTurns /\ 0 \in 0..MaxTurns
BY AgentAssumption DEF Text, Error, Event, Turns

(* Sequences: what is taken off and what is left.                          *)
LEMMA Queues ==
    ASSUME NEW S, NEW q \in Seq(S), q # <<>>
    PROVE  Head(q) \in S /\ Tail(q) \in Seq(S) /\ Len(Tail(q)) = Len(q) - 1
OBVIOUS

LEMMA Put ==
    ASSUME NEW S, NEW q \in Seq(S), NEW e \in S
    PROVE  Append(q, e) \in Seq(S) /\ Len(Append(q, e)) = Len(q) + 1
OBVIOUS

LEMMA Front ==
    ASSUME NEW S, NEW q \in Seq(S), NEW n \in 0..Len(q)
    PROVE  SubSeq(q, 1, n) \in Seq(S)
OBVIOUS

LEMMA GotoType ==
    ASSUME chain \in Chains, NEW pc \in ChainPcs, Goto(pc), chain.pc # "idle" \/ pc = "idle"
    PROVE  chain' \in Chains
BY DEF Goto, Chains

LEMMA ReadType ==
    ASSUME reader \in Readers, NEW pc \in ReaderPcs, Read(pc) PROVE reader' \in Readers
BY DEF Read, Readers

LEMMA LoopsType ==
    ASSUME StartLoops PROVE writer' \in Writers /\ reader' \in Readers
BY AgentAssumption, Numbers DEF StartLoops, Writers, Readers, ReaderPcs

LEMMA SpawnedType ==
    ASSUME s \in Sessions, chain \in Chains, Spawned, chain.pc # "idle"
    PROVE  s' \in Sessions /\ chain' \in Chains /\ writer' \in Writers /\ reader' \in Readers
BY LoopsType, GotoType DEF Spawned, Sessions, ChainPcs

LEMMA StartedType == Started \in Children /\ NoChild \in Children
BY DEF Started, NoChild, Children

LEMMA ClosedType == ASSUME s \in Sessions PROVE Closed \in Sessions
BY DEF Closed, Sessions

LEMMA NextTurn ==
    ASSUME chain \in Chains, chain.turn < MaxTurns, NEW pc \in ChainPcs,
           chain' = [pc |-> pc, turn |-> chain.turn + 1]
    PROVE  chain' \in Chains
BY AgentAssumption DEF Chains, Turns

-----------------------------------------------------------------------------
(* Types.                                                                  *)
LEMMA SendTypes ==
    ASSUME TypeInv,
           Send \/ FirstByte \/ ExitNoticed \/ NoOutput \/ ExitAwaited \/ RetryAsResume
             \/ SpawnTimeout \/ Offer \/ GiveUp \/ SendReturns
    PROVE  TypeInv'
<1> USE DEF TypeInv
<1>0. {"idle", "detect", "awaitExit", "offer", "ack", "first"} \subseteq ChainPcs
  BY DEF ChainPcs
<1>1. CASE SendOnClosed BY <1>0, <1>1, NextTurn DEF SendOnClosed
<1>2. CASE SendOnSpawned BY <1>0, <1>2, NextTurn DEF SendOnSpawned
<1>3. CASE SpawnFails BY <1>0, <1>3, NextTurn DEF SpawnFails
<1>4. CASE Spawn
  <2>1. chain' \in Chains BY <1>0, <1>4, NextTurn DEF Spawn
  <2>2. s' \in Sessions BY <1>4 DEF Spawn, Sessions
  <2>3. writer' \in Writers /\ reader' \in Readers BY <1>4, LoopsType DEF Spawn
  <2>4. /\ child' \in Children /\ ctxDone' \in BOOLEAN /\ ack' \in {"none", "ok", "failed"}
    BY <1>4, StartedType DEF Spawn
  <2>6. pipe' \in Seq(0..MaxTurns) /\ stdin' \in Seq(Turns)
    <3>1. pipe' = <<>> /\ stdin' = <<>> BY <1>4 DEF Spawn
    <3> QED BY ONLY <3>1
  <2>5. UNCHANGED <<quit, events, texts, seen>> BY <1>4 DEF Spawn
  <2> QED BY <2>1, <2>2, <2>3, <2>4, <2>5, <2>6
<1>5. CASE FirstByte BY <1>5, SpawnedType DEF FirstByte
<1>6. CASE ExitNoticed BY <1>6, SpawnedType DEF ExitNoticed
<1>7. CASE NoOutput BY <1>0, <1>7, GotoType DEF NoOutput
<1>8. CASE ExitAwaited BY <1>8, SpawnedType DEF ExitAwaited
<1>9. CASE RetryAsResume
  <2>1. chain' \in Chains BY <1>0, <1>9, GotoType DEF RetryAsResume
  <2>2. s' \in Sessions BY <1>9 DEF RetryAsResume, Sessions
  <2>3. writer' \in Writers /\ reader' \in Readers BY <1>9, LoopsType DEF RetryAsResume
  <2>4. child' \in Children /\ ctxDone' \in BOOLEAN
    BY <1>9, StartedType DEF RetryAsResume
  <2> QED BY <1>9, <2>1, <2>2, <2>3, <2>4 DEF RetryAsResume
<1>10. CASE SpawnTimeout
  <2>1. child' \in Children BY <1>10 DEF SpawnTimeout, Children
  <2> QED BY <1>0, <1>10, <2>1, GotoType DEF SpawnTimeout
<1>11. CASE Offer
  <2>1. writer' \in Writers BY <1>11 DEF Offer, Writers, Chains
  <2> QED BY <1>0, <1>11, <2>1, GotoType DEF Offer
<1>12. CASE GiveUp BY <1>0, <1>12, GotoType DEF GiveUp
<1>13. CASE SendReturns BY <1>0, <1>13, GotoType DEF SendReturns
<1> QED
    BY <1>1, <1>2, <1>3, <1>4, <1>5, <1>6, <1>7, <1>8, <1>9, <1>10, <1>11,
       <1>12, <1>13 DEF Send

LEMMA LoopTypes ==
    ASSUME TypeInv, WriteLoop \/ ReadLoop PROVE TypeInv'
<1> USE DEF TypeInv
<1>0. {"scan", "emit", "scanErr", "wait", "exitErr", "ending", "finishing", "gone"}
        \subseteq ReaderPcs
  BY DEF ReaderPcs
<1>1. CASE WriteDone
  <2>1. writer' \in Writers /\ ack' \in {"none", "ok", "failed"}
    BY <1>1 DEF WriteDone, Writers, Acked
  <2>2. writer.turn \in Turns BY <1>1 DEF WriteDone, Writers
  <2> QED BY <1>1, <2>1, <2>2 DEF WriteDone
<1>2. CASE WriteFails
  <2>1. writer' \in Writers /\ ack' \in {"none", "ok", "failed"}
    BY <1>2 DEF WriteFails, Writers, Acked
  <2> QED BY <1>2, <2>1 DEF WriteFails
<1>3. CASE WriteLoopEnds
  <2>1. writer' \in Writers BY <1>3 DEF WriteLoopEnds, Writers
  <2> QED BY <1>3, <2>1 DEF WriteLoopEnds
<1>4. CASE Scan
  <2>1. pipe' \in Seq(0..MaxTurns)
    BY <1>4, Queues DEF Scan
  <2>2. reader' \in Readers
    <3>1. pipe # <<>> => Head(pipe) \in Event BY Numbers, Queues
    <3>2. ScanOutcome \in ReaderPcs BY <1>0 DEF ScanOutcome
    <3> QED BY <1>0, <1>4, <3>1, <3>2, ReadType DEF Scan, Readers
  <2> QED BY <1>4, <2>1, <2>2 DEF Scan
<1>5. CASE Emit
  <2>1. reader' \in Readers BY <1>0, <1>5, ReadType DEF Emit
  <2>2. reader.line \in Event BY DEF Readers
  <2>3. events' \in Seq(Event) /\ Len(events') <= EventCap
    <3>1. \/ events' = events
          \/ Len(events) < EventCap /\ events' = Append(events, reader.line)
      BY <1>5 DEF Emit, HasRoom
    <3>2. /\ Append(events, reader.line) \in Seq(Event)
          /\ Len(Append(events, reader.line)) = Len(events) + 1
      BY <2>2, Put
    <3>3. events \in Seq(Event) /\ Len(events) \in Nat /\ Len(events) <= EventCap
      OBVIOUS
    <3> QED BY ONLY <3>1, <3>2, <3>3, AgentAssumption
  <2>4. seen' \in Histories BY <1>5 DEF Emit, Histories
  <2> QED BY <1>5, <2>1, <2>3, <2>4 DEF Emit
<1>6. CASE EmitError
  <2>1. reader' \in Readers BY <1>0, <1>6, ReadType DEF EmitError
  <2>3. events' \in Seq(Event) /\ Len(events') <= EventCap
    <3>1. events' = events \/ (Len(events) < EventCap /\ events' = Append(events, Error))
      BY <1>6 DEF EmitError, HasRoom
    <3>2. /\ Append(events, Error) \in Seq(Event)
          /\ Len(Append(events, Error)) = Len(events) + 1
      BY Numbers, Put
    <3>3. events \in Seq(Event) /\ Len(events) \in Nat /\ Len(events) <= EventCap
      OBVIOUS
    <3> QED BY ONLY <3>1, <3>2, <3>3, AgentAssumption
  <2>4. seen' \in Histories BY <1>6 DEF EmitError, Histories, Children
  <2> QED BY <1>6, <2>1, <2>3, <2>4 DEF EmitError
<1>7. CASE Waited
  <2>1. reader' \in Readers BY <1>0, <1>7, ReadType DEF Waited, AfterWait
  <2> QED BY <1>7, <2>1 DEF Waited
<1>8. CASE Ending
  <2>1. reader' \in Readers BY <1>0, <1>8, ReadType DEF Ending
  <2>2. s' \in Sessions BY <1>8 DEF Ending, Sessions
  <2> QED BY <1>8, <2>1, <2>2 DEF Ending
<1>9. CASE Finishing
  <2>1. reader' \in Readers BY <1>0, <1>9, ReadType DEF Finishing
  <2>2. s' \in Sessions BY <1>9 DEF Finishing, Sessions
  <2> QED BY <1>9, <2>1, <2>2 DEF Finishing
<1> QED
    BY <1>1, <1>2, <1>3, <1>4, <1>5, <1>6, <1>7, <1>8, <1>9 DEF WriteLoop, ReadLoop

LEMMA OtherTypes ==
    ASSUME TypeInv,
           Consumer \/ Close \/ CancelAll \/ CloseOnQuit \/ Child \/ Killed \/ Reap
    PROVE  TypeInv'
<1> USE DEF TypeInv
<1>0. {"idle", "first", "second"} \subseteq ChainPcs BY DEF ChainPcs
<1>1. CASE Consumer
  <2>1. chain' \in Chains
    BY <1>0, <1>1, GotoType DEF Consumer, FirstSelect, SecondSelect, Received
  <2>2. events' \in Seq(Event) /\ Len(events') <= EventCap
    <3>1. events' = events \/ (events # <<>> /\ events' = Tail(events))
      BY <1>1 DEF Consumer, FirstSelect, SecondSelect, Received
    <3>2. events \in Seq(Event) /\ Len(events) \in Nat /\ Len(events) <= EventCap
      OBVIOUS
    <3> QED BY ONLY <3>1, <3>2, Queues, AgentAssumption
  <2>3. seen' \in Histories
    BY <1>1 DEF Consumer, FirstSelect, SecondSelect, Histories
  <2> QED BY <1>1, <2>1, <2>2, <2>3 DEF Consumer, FirstSelect, SecondSelect
<1>2. CASE Close \/ CloseOnQuit
  BY <1>2, ClosedType DEF Close, CloseOnQuit
<1>3. CASE CancelAll BY <1>3 DEF CancelAll
<1>4. CASE Say
  <2>1. pipe' \in Seq(0..MaxTurns) BY <1>4, Numbers DEF Say
  <2>2. texts' \in 0..MaxText BY <1>4, AgentAssumption DEF Say
  <2> QED BY <1>4, <2>1, <2>2 DEF Say
<1>5. CASE Answer
  <2>1. Head(stdin) \in Turns /\ stdin' \in Seq(Turns) BY <1>5 DEF Answer
  <2>2. pipe' \in Seq(0..MaxTurns) BY <1>5, <2>1, Numbers DEF Answer
  <2>3. seen' \in Histories BY <1>5, <2>1 DEF Answer, Histories
  <2> QED BY <1>5, <2>1, <2>2, <2>3 DEF Answer
<1>6. CASE Silent \/ ChildExits \/ Killed
  <2>1. child' \in Children
    BY <1>6 DEF Silent, ChildExits, Killed, Children
  <2> QED BY <1>6, <2>1 DEF Silent, ChildExits, Killed
<1>7. CASE Reap
  <2>1. child' \in Children BY <1>7 DEF Reap, Children
  <2>2. PICK kept \in 0..Len(pipe) : pipe' = SubSeq(pipe, 1, kept) BY <1>7 DEF Reap
  <2>3. pipe' \in Seq(0..MaxTurns) BY <2>2, Front
  <2> QED BY <1>7, <2>1, <2>3 DEF Reap
<1> QED
    BY <1>1, <1>2, <1>3, <1>4, <1>5, <1>6, <1>7 DEF Child

LEMMA NextTypes == ASSUME TypeInv, [Next]_vars PROVE TypeInv'
<1>1. ASSUME UNCHANGED vars PROVE TypeInv' BY <1>1 DEF vars, TypeInv
<1> QED BY <1>1, SendTypes, LoopTypes, OtherTypes DEF Next, SpawnSelect

-----------------------------------------------------------------------------
(* Who may be where.                                                       *)
LEMMA NextLife == ASSUME TypeInv, LifeInv, [Next]_vars PROVE LifeInv'
<1> USE DEF TypeInv, LifeInv
<1>1. CASE Send
  BY <1>1 DEF Send, SendOnClosed, SendOnSpawned, SpawnFails, Spawn, StartLoops,
              Sessions, Readers, Writers
<1>2. CASE SpawnSelect
  <2> USE DEF Goto, Sessions, Chains
  <2>1. CASE FirstByte \/ ExitNoticed \/ ExitAwaited
    <3>1. /\ s' = [s EXCEPT !.spawned = TRUE] /\ chain' = [chain EXCEPT !.pc = "offer"]
          /\ writer'.pc = "ready" /\ reader'.pc = "scan"
          /\ chain.pc \in {"detect", "awaitExit"}
      BY <2>1 DEF FirstByte, ExitNoticed, ExitAwaited, Spawned, StartLoops
    <3> QED BY <3>1
  <2>2. CASE NoOutput BY <2>2 DEF NoOutput
  <2>3. CASE RetryAsResume
    <3>1. chain.pc \in {"detect", "awaitExit"} BY <2>3 DEF RetryAsResume
    <3>2. CASE quit = "no"
      <4>1. /\ s' = [s EXCEPT !.resumed = TRUE, !.spawned = TRUE]
            /\ chain' = [chain EXCEPT !.pc = "offer"]
            /\ writer'.pc = "ready" /\ reader'.pc = "scan"
        BY <2>3, <3>2 DEF RetryAsResume, StartLoops
      <4> QED BY <3>1, <4>1
    <3>3. CASE quit # "no" BY <2>3, <3>1, <3>3 DEF RetryAsResume
    <3> QED BY <3>2, <3>3
  <2> QED BY <1>2, <2>1, <2>2, <2>3 DEF SpawnSelect
<1>3. CASE SpawnTimeout \/ Offer \/ GiveUp \/ SendReturns
  BY <1>3 DEF SpawnTimeout, Offer, GiveUp, SendReturns, Goto, Chains
<1>4. CASE WriteLoop
  BY <1>4 DEF WriteLoop, WriteDone, WriteFails, WriteLoopEnds, Writers
<1>5. CASE ReadLoop
  <2> USE DEF Read, Readers
  <2>1. CASE Scan \/ Emit \/ EmitError \/ Waited
    <3>1. /\ reader.pc \notin {"none", "finishing", "gone"}
          /\ reader'.pc \notin {"none", "finishing", "gone"}
      BY <2>1 DEF Scan, Emit, EmitError, Waited, ScanOutcome, AfterWait
    <3>2. UNCHANGED <<s, chain, writer>> BY <2>1 DEF Scan, Emit, EmitError, Waited
    <3> QED BY <3>1, <3>2
  <2>2. CASE Ending BY <2>2 DEF Ending, Sessions
  <2>3. CASE Finishing BY <2>3 DEF Finishing, Sessions
  <2> QED BY <1>5, <2>1, <2>2, <2>3 DEF ReadLoop
<1>6. CASE Consumer
  BY <1>6 DEF Consumer, FirstSelect, SecondSelect, Received, Goto, Chains
<1>7. CASE Close \/ CancelAll \/ CloseOnQuit
  BY <1>7 DEF Close, CancelAll, CloseOnQuit, Closed, MutexFree, Sessions
<1>8. CASE Child \/ Killed \/ Reap
  BY <1>8 DEF Child, Say, Answer, Silent, ChildExits, Killed, Reap
<1>9. CASE UNCHANGED vars BY <1>9 DEF vars
<1> QED
    BY <1>1, <1>2, <1>3, <1>4, <1>5, <1>6, <1>7, <1>8, <1>9 DEF Next

-----------------------------------------------------------------------------
(* Where the results are.                                                  *)
LEMMA LossOfSend ==
    ASSUME IInv, Send \/ SpawnSelect \/ SpawnTimeout \/ Offer \/ GiveUp \/ SendReturns
    PROVE  LossInv'
<1> USE DEF IInv, TypeInv, LifeInv, LossInv
<1>1. CASE UNCHANGED <<s, ctxDone, reader, child, pipe, stdin, seen>>
  BY <1>1 DEF Kept, Within
<1>2. CASE ~s.spawned /\ seen' = seen /\ (stdin' = stdin \/ stdin' = <<>>)
           /\ (reader' = reader \/ reader'.pc = "scan")
  BY <1>2 DEF After, Kept
<1>3. Send => \/ UNCHANGED <<s, ctxDone, reader, child, pipe, stdin, seen>>
              \/ ~s.spawned /\ seen' = seen /\ (stdin' = stdin \/ stdin' = <<>>)
                   /\ (reader' = reader \/ reader'.pc = "scan")
  BY DEF Send, SendOnClosed, SendOnSpawned, SpawnFails, Spawn, StartLoops
<1>4. SpawnSelect => ~s.spawned /\ seen' = seen /\ stdin' = stdin
                      /\ (reader' = reader \/ reader'.pc = "scan")
  BY DEF SpawnSelect, FirstByte, ExitNoticed, NoOutput, ExitAwaited, RetryAsResume,
         Spawned, StartLoops
<1>5. CASE SpawnTimeout
  BY <1>2, <1>5 DEF SpawnTimeout
<1>6. CASE Offer \/ GiveUp \/ SendReturns
  BY <1>1, <1>6 DEF Offer, GiveUp, SendReturns
<1> QED BY <1>1, <1>2, <1>3, <1>4, <1>5, <1>6

LEMMA LossOfLoops ==
    ASSUME IInv, WriteLoop \/ ReadLoop
    PROVE  LossInv'
<1> USE DEF IInv, TypeInv, LifeInv, LossInv
<1>1. CASE WriteLoop
  <2>1. UNCHANGED <<s, ctxDone, reader, child, pipe, seen>>
    BY <1>1 DEF WriteLoop, WriteDone, WriteFails, WriteLoopEnds
  <2>2. stdin' # stdin => writer.pc # "none"
    BY <1>1 DEF WriteLoop, WriteDone, WriteFails, WriteLoopEnds
  <2> QED BY <2>1, <2>2 DEF Kept, Within
<1>2. CASE ReadLoop
  <2>1. UNCHANGED <<ctxDone, child, stdin>> /\ seen'.printed = seen.printed
        /\ s'.spawned = s.spawned
    BY <1>2 DEF ReadLoop, Scan, Emit, EmitError, Waited, Ending, Finishing, Sessions,
                Histories
  <2>2. SUFFICES ASSUME ~ctxDone, ~seen'.reported
                 PROVE  /\ reader'.pc \in {"scan", "emit"} /\ ~child.cut =>
                             \A t \in seen.printed : Kept(t)'
                        /\ reader'.pc \in After =>
                             /\ seen.printed \subseteq seen'.pushed
                             /\ ~(child.st = "up" /\ child.outOpen)
    BY <2>1
  <2>3. CASE Scan
    <3>1. seen' = seen BY <2>3 DEF Scan
    <3>2. CASE pipe # <<>> /\ reader' = [pc |-> "emit", line |-> Head(pipe)]
                /\ pipe' = Tail(pipe)
      <4>1. ASSUME NEW t, Within(t, pipe) PROVE t = Head(pipe) \/ Within(t, pipe')
        <5>1. PICK n \in 1..Len(pipe) : pipe[n] = t BY <4>1 DEF Within
        <5>2. CASE n = 1 BY <3>2, <5>1, <5>2
        <5>3. CASE n # 1
          <6>1. /\ n - 1 \in 1..Len(Tail(pipe)) /\ Tail(pipe)[n - 1] = pipe[n]
            BY <3>2, <5>3
          <6> QED BY <3>2, <5>1, <6>1 DEF Within
        <5> QED BY <5>2, <5>3
      <4> QED BY <2>2, <2>3, <3>1, <3>2, <4>1 DEF Scan, Kept, After
    <3>3. CASE reader'.pc = "scanErr" BY <3>3 DEF After
    <3>4. CASE pipe = <<>> /\ EndOfOutput /\ ~child.cut /\ reader'.pc = "wait"
      BY <2>2, <2>3, <3>1, <3>4 DEF Scan, Kept, Within, After, EndOfOutput, Gone
    <3>5. pipe = <<>> /\ (EndOfOutput \/ child.cut) /\ Read(ScanOutcome) =>
             \/ reader'.pc = "scanErr"
             \/ pipe = <<>> /\ EndOfOutput /\ ~child.cut /\ reader'.pc = "wait"
      BY DEF Read, ScanOutcome, Readers
    <3>6. Read("scanErr") => reader'.pc = "scanErr" BY DEF Read, Readers
    <3> QED BY <2>3, <3>2, <3>3, <3>4, <3>5, <3>6 DEF Scan
  <2>4. CASE Emit
    <3>1. /\ reader.pc = "emit" /\ ~Interrupted /\ reader'.pc = "scan" /\ pipe' = pipe
          /\ seen' = [seen EXCEPT !.pushed = seen.pushed \cup ({reader.line} \cap Turns)]
      BY <2>2, <2>4 DEF Emit, Interrupted, Read, Readers
    <3>2. seen'.pushed = seen.pushed \cup ({reader.line} \cap Turns)
          /\ seen'.reported = seen.reported
      BY <3>1 DEF Histories
    <3>3. seen.printed \subseteq Turns BY DEF Histories
    <3> QED BY <2>2, <3>1, <3>2, <3>3 DEF Kept, Within, After
  <2>5. CASE EmitError
    <3>1. seen'.reported BY <2>2, <2>5 DEF EmitError, Interrupted, Histories
    <3> QED BY <2>2, <3>1
  <2>6. CASE Waited \/ Ending \/ Finishing
    <3>1. reader.pc \in After /\ reader'.pc \in After /\ seen' = seen
      BY <2>6 DEF Waited, Ending, Finishing, Read, Readers, AfterWait, After
    <3>2. reader'.pc \notin {"scan", "emit"} BY <3>1 DEF After
    <3> QED BY <2>2, <3>1, <3>2
  <2> QED BY <1>2, <2>3, <2>4, <2>5, <2>6 DEF ReadLoop
<1> QED BY <1>1, <1>2

LEMMA LossOfOthers ==
    ASSUME IInv, Consumer \/ Close \/ CancelAll \/ CloseOnQuit \/ Child \/ Killed \/ Reap
    PROVE  LossInv'
<1> USE DEF IInv, TypeInv, LifeInv, LossInv
<1>1. CASE Consumer
  <2>1. /\ UNCHANGED <<s, ctxDone, reader, child, pipe, stdin>>
        /\ seen'.printed = seen.printed /\ seen'.pushed = seen.pushed
        /\ seen'.reported = seen.reported
    BY <1>1 DEF Consumer, FirstSelect, SecondSelect, Histories
  <2> QED BY <2>1 DEF Kept, Within
<1>2. CASE Close \/ CancelAll \/ CloseOnQuit
  <2>1. /\ UNCHANGED <<reader, child, pipe, stdin, seen>> /\ (ctxDone => ctxDone')
        /\ s'.spawned = s.spawned
    BY <1>2 DEF Close, CancelAll, CloseOnQuit, Closed, Sessions
  <2> QED BY <2>1 DEF Kept, Within
<1>3. CASE Say
  <2>1. pipe' = Append(pipe, Text) /\ Text \in 0..MaxTurns BY <1>3, Numbers DEF Say
  <2>2. \A t : Within(t, pipe) => Within(t, pipe') BY <2>1 DEF Within
  <2>3. UNCHANGED <<s, ctxDone, reader, child, stdin, seen>> BY <1>3 DEF Say
  <2> QED BY <2>2, <2>3 DEF Kept
<1>4. CASE Answer
  <2>1. /\ pipe' = Append(pipe, Head(stdin)) /\ stdin # <<>> /\ Head(stdin) \in Turns
        /\ Head(stdin) \in 0..MaxTurns
    BY <1>4, Queues, Numbers DEF Answer
  <2>2. \A t : Within(t, pipe) => Within(t, pipe') BY <2>1 DEF Within
  <2>3. Within(Head(stdin), pipe')
    <3>1. Len(pipe') = Len(pipe) + 1 /\ pipe'[Len(pipe) + 1] = Head(stdin)
      BY <2>1
    <3> QED BY <3>1 DEF Within
  <2>4. /\ seen'.printed = seen.printed \cup {Head(stdin)} /\ seen'.pushed = seen.pushed
        /\ seen'.reported = seen.reported
    BY <1>4 DEF Answer, Histories
  <2>5. UNCHANGED <<s, ctxDone, reader, child>> BY <1>4 DEF Answer
  <2>6. s.spawned /\ child.st = "up" /\ child.outOpen BY <1>4, <2>1 DEF Answer
  <2> QED BY <2>2, <2>3, <2>4, <2>5, <2>6 DEF Kept
<1>5. CASE Silent \/ ChildExits \/ Killed
  <2>1. UNCHANGED <<s, ctxDone, reader, pipe, stdin, seen>>
    BY <1>5 DEF Silent, ChildExits, Killed
  <2>2. /\ child'.cut = child.cut
        /\ child'.st = "up" /\ child'.outOpen => child.st = "up" /\ child.outOpen
    BY <1>5 DEF Silent, ChildExits, Killed, Children
  <2> QED BY <2>1, <2>2 DEF Kept, Within
<1>6. CASE Reap
  <2>1. UNCHANGED <<s, ctxDone, reader, stdin, seen>> BY <1>6 DEF Reap
  <2>2. child'.cut /\ child'.st = child.st /\ child'.outOpen = child.outOpen
    BY <1>6 DEF Reap, Children
  <2> QED BY <2>1, <2>2
<1> QED BY <1>1, <1>2, <1>3, <1>4, <1>5, <1>6 DEF Child

-----------------------------------------------------------------------------
(* Together: what holds in every reachable state.                          *)
THEOREM Inductive == Spec => []IInv
<1>1. Init => IInv
  <2> SUFFICES ASSUME Init PROVE IInv OBVIOUS
  <2>1. s \in Sessions /\ ~s.spawned /\ ~s.closed /\ ~s.done
    BY DEF Init, Sessions
  <2>2. /\ chain \in Chains /\ writer \in Writers /\ reader \in Readers
        /\ child \in Children /\ seen \in Histories
    BY AgentAssumption, Numbers, StartedType
       DEF Init, Chains, ChainPcs, Writers, Readers, ReaderPcs, Histories
  <2>3. /\ events \in Seq(Event) /\ Len(events) <= EventCap /\ pipe \in Seq(0..MaxTurns)
        /\ stdin \in Seq(Turns)
    <3>1. events = <<>> /\ pipe = <<>> /\ stdin = <<>> BY DEF Init
    <3> QED BY ONLY <3>1, AgentAssumption
  <2>4. /\ ctxDone \in BOOLEAN /\ quit \in {"no", "cancelled", "closed"}
        /\ ack \in {"none", "ok", "failed"} /\ texts \in 0..MaxText
    <3>1. ctxDone = FALSE /\ quit = "no" /\ ack = "none" /\ texts = 0 BY DEF Init
    <3>2. texts \in 0..MaxText BY ONLY <3>1, AgentAssumption
    <3> QED BY ONLY <3>1, <3>2
  <2>5. TypeInv BY <2>1, <2>2, <2>3, <2>4 DEF TypeInv
  <2> QED BY <2>1, <2>5 DEF Init, IInv, LifeInv, LossInv, After
<1>2. IInv /\ [Next]_vars => IInv'
  <2> SUFFICES ASSUME IInv, [Next]_vars PROVE IInv' OBVIOUS
  <2>1. TypeInv' /\ LifeInv' BY NextTypes, NextLife DEF IInv
  <2>2. ASSUME UNCHANGED vars PROVE LossInv'
    BY <2>2 DEF vars, IInv, LossInv, Kept, Within
  <2>3. LossInv' BY <2>2, LossOfSend, LossOfLoops, LossOfOthers DEF Next
  <2> QED BY <2>1, <2>3 DEF IInv
<1> QED BY <1>1, <1>2, PTL DEF Spec

(* Every field, channel and history keeps its type.                        *)
THEOREM TypeCorrect == Spec => []TypeOK
<1>1. IInv => TypeOK BY Types DEF IInv
<1> QED BY Inductive, <1>1, PTL

(* A session that ends by itself delivered every printed result, or        *)
(* reported an error.                                                      *)
THEOREM NothingLostSilently == Spec => []NoSilentLoss
<1>1. IInv => NoSilentLoss
  BY DEF IInv, LifeInv, LossInv, NoSilentLoss, After
<1> QED BY Inductive, <1>1, PTL

(* Nothing is put on Events() once Done() is closed.                       *)
THEOREM NothingAfterDone == Spec => DoneIsLast
<1>1. IInv /\ [Next]_vars => [s.done => Len(events') <= Len(events)]_vars
  <2> SUFFICES ASSUME IInv, Next, s.done PROVE Len(events') <= Len(events) OBVIOUS
  <2>1. ~Emit /\ ~EmitError BY DEF IInv, LifeInv, Emit, EmitError
  <2>2. events' = events \/ (events # <<>> /\ events' = Tail(events))
    BY <2>1 DEF Next, Send, SendOnClosed, SendOnSpawned, SpawnFails, Spawn, SpawnSelect,
       FirstByte, ExitNoticed, NoOutput, ExitAwaited, RetryAsResume, SpawnTimeout, Offer,
       GiveUp, SendReturns, WriteLoop, WriteDone, WriteFails, WriteLoopEnds, ReadLoop,
       Scan, Waited, Ending, Finishing, Consumer, FirstSelect, SecondSelect, Received,
       Close, CancelAll, CloseOnQuit, Child, Say, Answer, Silent, ChildExits, Killed, Reap
  <2>3. events \in Seq(Event) /\ Len(events) \in Nat BY DEF IInv, TypeInv
  <2> QED BY ONLY <2>2, <2>3, Queues
<1> QED BY Inductive, <1>1, PTL DEF Spec, DoneIsLast

(* The session implements SessionLife: it spawns once and never when       *)
(* closed, and Done() comes after closed.                                  *)
THEOREM ImplementsSessionLife == Spec => LivesSessionLife
<1>1. Init => Life!LifeInit BY DEF Init, Life!LifeInit
<1>2. IInv /\ [Next]_vars => [Life!LifeNext]_(Life!lifeVars)
  <2> SUFFICES ASSUME IInv, [Next]_vars PROVE [Life!LifeNext]_(Life!lifeVars) OBVIOUS
  <2> USE DEF IInv, TypeInv, LifeInv, Life!LifeNext, Life!lifeVars
  <2>1. CASE Spawn \/ FirstByte \/ ExitNoticed \/ ExitAwaited \/ RetryAsResume
    <3>1. /\ ~s.spawned /\ ~s.closed
          /\ s'.closed = s.closed /\ s'.done = s.done /\ s'.spawned \in BOOLEAN
      BY <2>1 DEF Spawn, FirstByte, ExitNoticed, ExitAwaited, RetryAsResume, Spawned,
                  Sessions
    <3> QED BY <3>1 DEF Life!LifeSpawn, Sessions
  <2>2. CASE Ending
    <3>1. s.spawned /\ s' = [s EXCEPT !.closed = TRUE] BY <2>2 DEF Ending
    <3> QED BY <3>1 DEF Life!LifeClose, Sessions
  <2>3. CASE Finishing
    <3>1. s.spawned /\ s.closed /\ s' = [s EXCEPT !.done = TRUE] BY <2>3 DEF Finishing
    <3> QED BY <3>1 DEF Life!LifeEnd, Sessions
  <2>4. CASE Close \/ CloseOnQuit
    BY <2>4 DEF Close, CloseOnQuit, Closed, Life!LifeClose, Sessions
  <2>5. \/ s' = s
        \/ Spawn \/ FirstByte \/ ExitNoticed \/ ExitAwaited \/ RetryAsResume
        \/ Ending \/ Finishing \/ Close \/ CloseOnQuit
    BY DEF Next, vars, Send, SendOnClosed, SendOnSpawned, SpawnFails, SpawnSelect, NoOutput,
       SpawnTimeout, Offer, GiveUp, SendReturns, WriteLoop, WriteDone, WriteFails,
       WriteLoopEnds, ReadLoop, Scan, Emit, EmitError, Waited, Consumer, FirstSelect,
       SecondSelect, CancelAll, Child, Say, Answer, Silent, ChildExits, Killed, Reap
  <2> QED BY <2>1, <2>2, <2>3, <2>4, <2>5
<1> QED BY Inductive, <1>1, <1>2, PTL DEF Spec, LivesSessionLife, Life!LifeSpec
=============================================================================
