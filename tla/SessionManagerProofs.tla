------------------------ MODULE SessionManagerProofs ------------------------
(***************************************************************************)
(* Proofs that SessionManager keeps its bookkeeping and its process bound  *)
(* for every set of incidents, every cap and every number of prompts.      *)
(***************************************************************************)
EXTENDS SessionManager, SeqFacts

USE BoundsAssumption DEF SessionIds, NoSession

LEMMA InitIInv == Init => IInv
<1> SUFFICES ASSUME Init PROVE IInv
  OBVIOUS
<1>1. ToSet(<<>>) = {} /\ IsInjective(<<>>) /\ Len(<<>>) = 0 /\ DOMAIN <<>> = {}
  BY DEF ToSet, IsInjective
<1>2. TypeOK
  BY <1>1 DEF Init, TypeOK, Chain, Pcs, Idle
<1>3. MapAgreesWithOrder /\ FlagsAgree /\ OldestFirst
  BY <1>1 DEF Init, MapAgreesWithOrder, FlagsAgree, OldestFirst
<1>4. MapSound /\ OpenIsMapped /\ ClosedIsQuiet /\ DetectingIsLocked
  BY <1>1 DEF Init, MapSound, OpenIsMapped, ClosedIsQuiet, DetectingIsLocked
<1>5. ChainSound /\ Numbered
  BY <1>1 DEF Init, ChainSound, Numbered, Idle
<1>6. NoChildAfterQuit
  BY <1>1 DEF Init, NoChildAfterQuit
<1> QED BY <1>2, <1>3, <1>4, <1>5, <1>6 DEF IInv

(* markEvicted keeps the flag set and its order in step and within the cap. *)
LEMMA MarkEvictedFacts ==
  ASSUME TypeOK, FlagsAgree, NEW i \in Incidents, MarkEvicted(i)
  PROVE  /\ evictedOrder' \in Seq(Incidents)
         /\ evicted' \subseteq evicted \cup {i}
         /\ evicted' = ToSet(evictedOrder')
         /\ IsInjective(evictedOrder')
         /\ Len(evictedOrder') <= MaxEvicted
<1> DEFINE grown == Append(evictedOrder, i)
<1>0. evictedOrder \in Seq(Incidents) /\ Len(evictedOrder) \in Nat
  BY LenProperties DEF TypeOK
<1>1. CASE i \in evicted
  BY <1>1, <1>0 DEF MarkEvicted, FlagsAgree
<1>2. CASE i \notin evicted
  <2>1. /\ grown \in Seq(Incidents) /\ IsInjective(grown)
        /\ ToSet(grown) = ToSet(evictedOrder) \cup {i}
        /\ Len(grown) = Len(evictedOrder) + 1
    BY <1>2, <1>0, AppendFacts DEF FlagsAgree
  <2>2. CASE Len(evictedOrder) < MaxEvicted
    <3>1. evictedOrder' = grown /\ evicted' = evicted \cup {i}
      BY <1>2, <2>2 DEF MarkEvicted
    <3>2. Len(grown) <= MaxEvicted
      BY <2>1, <2>2, <1>0
    <3> HIDE DEF grown
    <3> QED BY <2>1, <3>1, <3>2 DEF FlagsAgree
  <2>3. CASE ~(Len(evictedOrder) < MaxEvicted)
    <3>1. grown # <<>>
      BY <2>1, <1>0
    <3>2. /\ Tail(grown) \in Seq(Incidents) /\ IsInjective(Tail(grown))
          /\ ToSet(Tail(grown)) = ToSet(grown) \ {Head(grown)}
          /\ Len(Tail(grown)) = Len(grown) - 1
      BY <2>1, <3>1, TailFacts
    <3>3. /\ evictedOrder' = Tail(grown)
          /\ evicted' = (evicted \cup {i}) \ {Head(grown)}
      BY <1>2, <2>3 DEF MarkEvicted
    <3>4. Len(evictedOrder') <= MaxEvicted
      BY <2>1, <3>2, <3>3, <1>0 DEF FlagsAgree
    <3> HIDE DEF grown
    <3> QED BY <2>1, <3>2, <3>3, <3>4 DEF FlagsAgree
  <2> QED BY <2>2, <2>3
<1> QED BY <1>1, <1>2

(* Forgetting an incident in the LRU slice keeps the slice's invariants.   *)
LEMMA DroppedFacts ==
  ASSUME TypeOK, MapAgreesWithOrder, OldestFirst, NEW i \in Incidents
  PROVE  /\ Dropped(i) \in Seq(Incidents)
         /\ IsInjective(Dropped(i))
         /\ ToSet(Dropped(i)) = ToSet(order) \ {i}
         /\ Len(Dropped(i)) <= Len(order)
         /\ i \in ToSet(order) => Len(Dropped(i)) = Len(order) - 1
         /\ \A a, b \in DOMAIN Dropped(i) : a < b =>
               lastUsed[Dropped(i)[a]] < lastUsed[Dropped(i)[b]]
<1>1. /\ Dropped(i) \in Seq(Incidents)
      /\ IsInjective(Dropped(i))
      /\ ToSet(Dropped(i)) = ToSet(order) \ {i}
      /\ Len(Dropped(i)) <= Len(order)
      /\ i \in ToSet(order) => Len(Dropped(i)) = Len(order) - 1
      /\ \A a, b \in DOMAIN Dropped(i) : a < b =>
           \E m, n \in DOMAIN order : /\ m < n
                                      /\ Dropped(i)[a] = order[m]
                                      /\ Dropped(i)[b] = order[n]
  <2>1. order \in Seq(Incidents) /\ IsInjective(order)
    BY DEF TypeOK, MapAgreesWithOrder
  <2> DEFINE r == RemoveFirst(order, i)
  <2>2. /\ r \in Seq(Incidents) /\ IsInjective(r)
        /\ ToSet(r) = ToSet(order) \ {i}
        /\ Len(r) <= Len(order)
        /\ i \in ToSet(order) => Len(r) = Len(order) - 1
        /\ \A a, b \in DOMAIN r : a < b =>
             \E m, n \in DOMAIN order : m < n /\ r[a] = order[m] /\ r[b] = order[n]
    BY <2>1, RemoveFirstFacts
  <2>3. Dropped(i) = r
    BY DEF Dropped
  <2> HIDE DEF r
  <2> QED BY <2>2, <2>3
<1>2. \A a, b \in DOMAIN Dropped(i) : a < b =>
        lastUsed[Dropped(i)[a]] < lastUsed[Dropped(i)[b]]
  <2> TAKE a, b \in DOMAIN Dropped(i)
  <2> HAVE a < b
  <2>1. PICK m \in DOMAIN order, n \in DOMAIN order :
            m < n /\ Dropped(i)[a] = order[m] /\ Dropped(i)[b] = order[n]
    BY <1>1
  <2> QED BY <2>1 DEF OldestFirst
<1> QED BY <1>1, <1>2

(* Using an incident that is not in the slice puts it at the young end.    *)
LEMMA YoungestFacts ==
  ASSUME NEW q \in Seq(Incidents), IsInjective(q), NEW i \in Incidents,
         i \notin ToSet(q), prompts \in Nat, lastUsed \in [Incidents -> Nat],
         \A j \in Incidents : lastUsed[j] < prompts,
         \A a, b \in DOMAIN q : a < b => lastUsed[q[a]] < lastUsed[q[b]]
  PROVE  LET r == Append(q, i)
             used == [lastUsed EXCEPT ![i] = prompts]
         IN \A a, b \in DOMAIN r : a < b => used[r[a]] < used[r[b]]
<1> DEFINE r == Append(q, i)
           used == [lastUsed EXCEPT ![i] = prompts]
<1>1. /\ Len(q) \in Nat /\ DOMAIN q = 1..Len(q) /\ DOMAIN r = 1..(Len(q)+1)
      /\ \A n \in 1..Len(q) : r[n] = q[n] /\ q[n] \in Incidents /\ q[n] # i
      /\ r[Len(q)+1] = i
  BY ElementOfSeq DEF ToSet
<1> HIDE DEF r
<1>2. used[i] = prompts /\ \A j \in Incidents : j # i => used[j] = lastUsed[j]
  OBVIOUS
<1> HIDE DEF used
<1>3. ASSUME NEW a \in DOMAIN r, NEW b \in DOMAIN r, a < b
      PROVE  used[r[a]] < used[r[b]]
  <2>1. a \in 1..Len(q) /\ r[a] = q[a] /\ used[r[a]] = lastUsed[q[a]]
    BY <1>1, <1>2, <1>3
  <2>2. CASE b = Len(q) + 1
    BY <2>1, <2>2, <1>1, <1>2
  <2>3. CASE b # Len(q) + 1
    <3>1. b \in 1..Len(q) /\ r[b] = q[b] /\ used[r[b]] = lastUsed[q[b]]
      BY <2>3, <1>1, <1>2
    <3> QED BY <2>1, <3>1, <1>1, <1>3
  <2> QED BY <2>2, <2>3
<1> QED BY <1>3 DEF r, used
-----------------------------------------------------------------------------
(* Changes of one Session that keep everything that relates Sessions to    *)
(* the manager: the incident stays, a child comes up or a detection starts *)
(* only in an open Session, and closing implies being quiet.               *)
LEMMA SessionStep ==
  ASSUME IInv, NEW o \in DOMAIN sess, NEW s \in Session,
         sess' = [sess EXCEPT ![o] = s],
         s.inc = sess[o].inc, sess[o].closed => s.closed,
         s.closed => s.child # "up" /\ s.phase # "detecting",
         s.child = "up" => mode' = "running",
         UNCHANGED sessions
  PROVE  /\ DOMAIN sess' = DOMAIN sess
         /\ sess' \in [DOMAIN sess' -> Session]
         /\ MapSound' /\ OpenIsMapped' /\ ClosedIsQuiet'
<1>1. sess \in [DOMAIN sess -> Session] /\ DOMAIN sess \subseteq SessionIds
  BY DEF IInv, TypeOK
<1>2. /\ DOMAIN sess' = DOMAIN sess
      /\ sess'[o] = s
      /\ \A p \in DOMAIN sess : p # o => sess'[p] = sess[p]
      /\ sess' \in [DOMAIN sess' -> Session]
  BY <1>1
<1>3. MapSound'
  BY <1>2 DEF IInv, MapSound
<1>4. OpenIsMapped'
  BY <1>2 DEF IInv, OpenIsMapped
<1>5. ClosedIsQuiet'
  BY <1>2 DEF IInv, ClosedIsQuiet
<1> QED BY <1>2, <1>3, <1>4, <1>5

(* Steps that touch neither the map, the slices nor the access history.    *)
LEMMA ManagerFrame ==
  ASSUME IInv, UNCHANGED <<managerVars, lastUsed>>
  PROVE  MapAgreesWithOrder' /\ FlagsAgree' /\ OldestFirst'
  BY DEF IInv, MapAgreesWithOrder, FlagsAgree, OldestFirst, managerVars

(* handleClaudePrompt.                                                     *)
LEMMA HandlePromptStep ==
  ASSUME IInv, NEW i \in Incidents, HandlePrompt(i)
  PROVE  IInv'
<1>1. MapAgreesWithOrder' /\ FlagsAgree' /\ OldestFirst'
  BY ManagerFrame DEF HandlePrompt
<1>2. /\ chain.pc = "idle" /\ prompts < MaxPrompts /\ prompts' = prompts + 1
      /\ chain'.pc = "get" /\ chain'.inc = i /\ chain' \in Chain
      /\ UNCHANGED <<managerVars, established, sess, cliKnown, mode, lastUsed>>
      /\ prompts \in 0..MaxPrompts
  BY DEF HandlePrompt, Chain, Pcs, IInv, TypeOK
<1>3. TypeOK'
  BY <1>2 DEF IInv, TypeOK, managerVars
<1>4. MapSound' /\ OpenIsMapped' /\ ClosedIsQuiet' /\ NoChildAfterQuit'
  BY <1>2 DEF IInv, MapSound, OpenIsMapped, ClosedIsQuiet, NoChildAfterQuit,
              LiveChildren, managerVars
<1>5. DetectingIsLocked'
  BY <1>2 DEF IInv, DetectingIsLocked, Locked
<1>6. Numbered' /\ ChainSound'
  <2>1. /\ \A o \in DOMAIN sess : o \in Int /\ o <= prompts
        /\ \A j \in Incidents : lastUsed[j] \in Int /\ lastUsed[j] <= prompts
    BY DEF IInv, TypeOK, Numbered
  <2>2. prompts' \in SessionIds \ DOMAIN sess
    BY <1>2, <2>1
  <2>3. Numbered'
    BY <1>2, <2>1 DEF Numbered
  <2>4. \A j \in Incidents : lastUsed[j] < prompts'
    BY <1>2, <2>1
  <2> QED BY <1>2, <2>2, <2>3, <2>4 DEF ChainSound
<1> QED BY <1>1, <1>3, <1>4, <1>5, <1>6 DEF IInv

(* Steps of the chain that leave every Session as it is: the chain ends,   *)
(* or moves on with the Session it holds.                                  *)
LEMMA ChainStep ==
  ASSUME IInv, UNCHANGED <<managerVars, established, sess, cliKnown, mode,
                           prompts, lastUsed>>,
         chain.pc \in {"send", "write", "reading"},
         \/ chain' = Idle
         \/ chain' = [chain EXCEPT !.pc = "write"]
         \/ chain' = [chain EXCEPT !.pc = "reading"]
  PROVE  IInv'
<1>1. MapAgreesWithOrder' /\ FlagsAgree' /\ OldestFirst'
  BY ManagerFrame
<1>2. chain \in Chain
  BY DEF IInv, TypeOK
<1>3. /\ chain' \in Chain
      /\ chain'.pc \in {"idle", "write", "reading"}
      /\ chain'.pc # "idle" => chain'.inc = chain.inc /\ chain'.obj = chain.obj
      /\ chain'.pc = "idle" => chain' = Idle
  BY <1>2 DEF Chain, Pcs, Idle
<1>4. TypeOK'
  BY <1>3 DEF IInv, TypeOK, managerVars
<1>5. MapSound' /\ OpenIsMapped' /\ ClosedIsQuiet' /\ NoChildAfterQuit'
  BY DEF IInv, MapSound, OpenIsMapped, ClosedIsQuiet, NoChildAfterQuit,
         LiveChildren, managerVars
<1>6. DetectingIsLocked'
  BY DEF IInv, DetectingIsLocked, Locked
<1>7. ChainSound'
  BY <1>3 DEF IInv, ChainSound
<1>8. Numbered'
  BY DEF IInv, Numbered
<1> QED BY <1>1, <1>4, <1>5, <1>6, <1>7, <1>8 DEF IInv

(* Steps that change one Session in the ways allowed above.                *)
LEMMA OneSessionStep ==
  ASSUME IInv, NEW o \in DOMAIN sess, NEW s \in Session,
         sess' = [sess EXCEPT ![o] = s],
         s.inc = sess[o].inc, sess[o].closed => s.closed,
         s.closed => s.child # "up" /\ s.phase # "detecting",
         s.child = "up" => mode = "running",
         UNCHANGED <<managerVars, mode, prompts, lastUsed>>,
         established' \subseteq Incidents, cliKnown' \subseteq Incidents,
         \/ /\ UNCHANGED chain
            /\ s.phase = sess[o].phase
         \/ /\ chain.pc \in {"send", "spawn"} /\ chain.obj = o
            /\ \/ chain' = Idle /\ s.phase = "unspawned"
               \/ chain' = [chain EXCEPT !.pc = "write"] /\ s.phase = "spawned"
               \/ chain' = [chain EXCEPT !.pc = "spawn"] /\ s.phase = "detecting"
  PROVE  IInv'
<1>1. MapAgreesWithOrder' /\ FlagsAgree' /\ OldestFirst'
  BY ManagerFrame
<1>2. /\ DOMAIN sess' = DOMAIN sess
      /\ sess' \in [DOMAIN sess' -> Session]
      /\ MapSound' /\ OpenIsMapped' /\ ClosedIsQuiet'
  BY SessionStep DEF managerVars
<1>3. /\ sess'[o] = s
      /\ \A p \in DOMAIN sess : p # o => sess'[p] = sess[p]
  BY DEF IInv, TypeOK
<1>4. chain \in Chain
  BY DEF IInv, TypeOK
<1>5. chain' \in Chain /\ (chain'.pc = "idle" => chain' = Idle)
  <2>1. CASE UNCHANGED chain
    BY <2>1, <1>4 DEF IInv, TypeOK
  <2>2. CASE chain' = Idle
    BY <2>2 DEF Chain, Pcs, Idle
  <2>3. CASE \E pc \in {"write", "spawn"} : chain' = [chain EXCEPT !.pc = pc]
    BY <2>3, <1>4 DEF Chain, Pcs
  <2> QED BY <2>1, <2>2, <2>3
<1>6. TypeOK'
  BY <1>2, <1>5 DEF IInv, TypeOK, managerVars
<1>7. NoChildAfterQuit'
  BY <1>2, <1>3 DEF IInv, NoChildAfterQuit, LiveChildren
<1>8. DetectingIsLocked'
  <2> SUFFICES ASSUME NEW p \in DOMAIN sess, sess'[p].phase = "detecting"
               PROVE  Locked(p)'
    BY <1>2 DEF DetectingIsLocked
  <2>1. CASE p = o
    BY <2>1, <1>3, <1>4 DEF IInv, DetectingIsLocked, Locked, Chain
  <2>2. CASE p # o
    <3>1. chain.pc = "spawn" /\ chain.obj = p
      BY <2>2, <1>3 DEF IInv, DetectingIsLocked, Locked
    <3> QED BY <3>1, <2>2 DEF Locked
  <2> QED BY <2>1, <2>2
<1>9. ChainSound'
  <2>1. CASE UNCHANGED chain
    <3>1. \A p \in DOMAIN sess : sess'[p].inc = sess[p].inc
      BY <1>3
    <3>2. chain.pc = "spawn" => sess'[chain.obj].phase = "detecting"
      <4>1. chain.pc = "spawn" => chain.obj \in DOMAIN sess
        BY DEF IInv, ChainSound
      <4>2. CASE s.phase = sess[o].phase
        BY <4>1, <4>2, <1>3 DEF IInv, ChainSound
      <4>3. CASE s.phase # sess[o].phase
        BY <4>3, <2>1, <1>4 DEF Chain, Idle
      <4> QED BY <4>2, <4>3
    <3> QED BY <2>1, <3>1, <3>2, <1>2 DEF IInv, ChainSound, managerVars
  <2>2. CASE chain' = Idle
    BY <2>2 DEF ChainSound, Idle
  <2>3. CASE ~UNCHANGED chain /\ chain' # Idle
    <3>1. /\ chain'.pc \in {"write", "spawn"}
          /\ chain'.inc = chain.inc /\ chain'.obj = o
          /\ chain'.pc = "spawn" => s.phase = "detecting"
          /\ chain.inc \in Incidents /\ sess[o].inc = chain.inc
      BY <2>3, <1>4 DEF IInv, ChainSound, Chain
    <3> QED BY <3>1, <1>2, <1>3 DEF ChainSound
  <2> QED BY <2>1, <2>2, <2>3
<1>10. Numbered'
  BY <1>2 DEF IInv, Numbered
<1> QED BY <1>1, <1>2, <1>6, <1>7, <1>8, <1>9, <1>10 DEF IInv

(* Send and the event reader.                                              *)
LEMMA SendStep ==
  ASSUME IInv, Send \/ ReadResult \/ ReadDone
  PROVE  IInv'
<1>0. /\ chain \in Chain /\ DOMAIN sess \subseteq SessionIds
      /\ sess \in [DOMAIN sess -> Session]
      /\ established \subseteq Incidents /\ cliKnown \subseteq Incidents
  BY DEF IInv, TypeOK
<1>1. ASSUME chain.pc \in {"send", "spawn", "write", "reading"}
      PROVE  /\ chain.obj \in DOMAIN sess /\ Current \in Session
             /\ Current.inc = chain.inc /\ chain.inc \in Incidents
             /\ Current.closed => Current.child # "up" /\ Current.phase # "detecting"
             /\ chain.pc = "spawn" => Current.phase = "detecting"
             /\ Current.child = "up" => mode = "running"
  BY <1>0, <1>1 DEF IInv, ChainSound, Current, ClosedIsQuiet, NoChildAfterQuit,
                    LiveChildren
<1> DEFINE With(s) == sess' = [sess EXCEPT ![chain.obj] = s]
<1>2. CASE SendOnClosed \/ SpawnFails \/ WriteFails \/ ReadResult \/ ReadDone
  BY <1>2, ChainStep DEF SendOnClosed, SpawnFails, WriteFails, ReadResult,
                         ReadDone, Fail
<1>3. CASE SendOnSpawned \/ WriteTurn
  BY <1>3, ChainStep DEF SendOnSpawned, WriteTurn, Goto
<1>4. CASE Spawn
  <2> DEFINE s == [Current EXCEPT !.child = "up",
                      !.phase = IF ~Current.resumed THEN "detecting" ELSE "spawned"]
  <2>1. chain.pc = "send" /\ ~Current.closed /\ mode = "running"
    BY <1>4 DEF Spawn
  <2>2. s \in Session /\ s.inc = Current.inc /\ ~s.closed
    BY <1>1, <2>1 DEF Session, Phases, ChildStates
  <2>3. sess' = [sess EXCEPT ![chain.obj] = s]
    BY <1>0, <1>1, <1>4, <2>1 DEF Spawn, Current
  <2>4. \/ chain' = [chain EXCEPT !.pc = "write"] /\ s.phase = "spawned"
        \/ chain' = [chain EXCEPT !.pc = "spawn"] /\ s.phase = "detecting"
    BY <1>1, <1>4, <2>1 DEF Spawn, Goto, Session
  <2>5. UNCHANGED <<managerVars, established, cliKnown, mode, prompts, lastUsed>>
    BY <1>4 DEF Spawn
  <2> HIDE DEF s
  <2> QED BY <1>0, <1>1, <2>1, <2>2, <2>3, <2>4, <2>5, OneSessionStep DEF Current
<1>5. CASE FirstByte
  <2> DEFINE s == [Current EXCEPT !.phase = "spawned"]
  <2>1. /\ chain.pc = "spawn" /\ cliKnown' = cliKnown \cup {chain.inc}
        /\ chain' = [chain EXCEPT !.pc = "write"]
        /\ UNCHANGED <<managerVars, established, mode, prompts, lastUsed>>
    BY <1>5 DEF FirstByte, Goto
  <2>2. /\ s \in Session /\ s.inc = Current.inc /\ s.phase = "spawned"
        /\ s.closed = Current.closed /\ s.child = Current.child
    BY <1>1, <2>1 DEF Session, Phases
  <2>3. sess' = [sess EXCEPT ![chain.obj] = s]
    BY <1>0, <1>1, <1>5, <2>1 DEF FirstByte, Current
  <2> HIDE DEF s
  <2> QED BY <1>0, <1>1, <2>1, <2>2, <2>3, OneSessionStep DEF Current
<1>6. CASE RetryAsResume
  <2>1. /\ chain.pc = "spawn"
        /\ UNCHANGED <<managerVars, established, cliKnown, mode, prompts, lastUsed>>
    BY <1>6 DEF RetryAsResume
  <2>2. CASE /\ mode = "running"
             /\ sess' = [sess EXCEPT ![chain.obj].resumed = TRUE,
                                     ![chain.obj].phase = "spawned"]
             /\ Goto("write")
    <3> DEFINE s == [Current EXCEPT !.resumed = TRUE, !.phase = "spawned"]
    <3>1. /\ s \in Session /\ s.inc = Current.inc /\ s.phase = "spawned"
          /\ s.closed = Current.closed /\ s.child = Current.child
      BY <1>1, <2>1 DEF Session, Phases
    <3>2. sess' = [sess EXCEPT ![chain.obj] = s]
      BY <1>0, <1>1, <2>1, <2>2 DEF Current
    <3>3. chain' = [chain EXCEPT !.pc = "write"]
      BY <2>2 DEF Goto
    <3> HIDE DEF s
    <3> QED BY <1>0, <1>1, <2>1, <3>1, <3>2, <3>3, OneSessionStep DEF Current
  <2>3. CASE /\ sess' = [sess EXCEPT ![chain.obj].resumed = TRUE,
                                     ![chain.obj].phase = "unspawned",
                                     ![chain.obj].child = "gone"]
             /\ Fail
    <3> DEFINE s == [Current EXCEPT !.resumed = TRUE, !.phase = "unspawned",
                                    !.child = "gone"]
    <3>1. /\ s \in Session /\ s.inc = Current.inc /\ s.phase = "unspawned"
          /\ s.closed = Current.closed /\ s.child = "gone"
      BY <1>1, <2>1 DEF Session, Phases, ChildStates
    <3>2. sess' = [sess EXCEPT ![chain.obj] = s]
      BY <1>0, <1>1, <2>1, <2>3 DEF Current
    <3>3. chain' = Idle
      BY <2>3 DEF Fail
    <3> HIDE DEF s
    <3> QED BY <1>0, <1>1, <2>1, <3>1, <3>2, <3>3, OneSessionStep DEF Current
  <2> QED BY <1>6, <2>2, <2>3 DEF RetryAsResume
<1>7. CASE ExitBeforeOutput
  <2> DEFINE s == [Current EXCEPT !.child = "gone", !.phase = "spawned"]
  <2>1. /\ chain.pc = "spawn" /\ chain' = [chain EXCEPT !.pc = "write"]
        /\ UNCHANGED <<managerVars, established, mode, prompts, lastUsed>>
    BY <1>7 DEF ExitBeforeOutput, Goto
  <2>2. cliKnown' \subseteq Incidents
    BY <1>0, <1>1, <1>7, <2>1 DEF ExitBeforeOutput
  <2>3. /\ s \in Session /\ s.inc = Current.inc /\ s.phase = "spawned"
        /\ s.closed = Current.closed /\ s.child = "gone"
    BY <1>1, <2>1 DEF Session, Phases, ChildStates
  <2>4. sess' = [sess EXCEPT ![chain.obj] = s]
    BY <1>0, <1>1, <1>7, <2>1 DEF ExitBeforeOutput, Current
  <2> HIDE DEF s
  <2> QED BY <1>0, <1>1, <2>1, <2>2, <2>3, <2>4, OneSessionStep DEF Current
<1>8. CASE SpawnTimeout
  <2> DEFINE s == [Current EXCEPT !.child = "signalled", !.phase = "unspawned"]
  <2>1. /\ chain.pc = "spawn" /\ chain' = Idle
        /\ UNCHANGED <<managerVars, established, cliKnown, mode, prompts, lastUsed>>
    BY <1>8 DEF SpawnTimeout, Deadline, Fail
  <2>2. /\ s \in Session /\ s.inc = Current.inc /\ s.phase = "unspawned"
        /\ s.closed = Current.closed /\ s.child = "signalled"
    BY <1>1, <2>1 DEF Session, Phases, ChildStates
  <2>3. sess' = [sess EXCEPT ![chain.obj] = s]
    BY <1>0, <1>1, <1>8, <2>1 DEF SpawnTimeout, Current
  <2> HIDE DEF s
  <2> QED BY <1>0, <1>1, <2>1, <2>2, <2>3, OneSessionStep DEF Current
<1> QED BY <1>2, <1>3, <1>4, <1>5, <1>6, <1>7, <1>8 DEF Send, SpawnOutcome

(* The child processes, the readLoops and CloseAll's Close of one session. *)
LEMMA ChildStep ==
  ASSUME IInv, NEW o \in DOMAIN sess,
         \/ ChildInit(o) \/ ChildExit(o) \/ ReadLoopEnds(o)
         \/ \E i \in Incidents : CloseOne(i) /\ sessions[i] = o
  PROVE  IInv'
<1>0. /\ sess \in [DOMAIN sess -> Session] /\ sess[o] \in Session
      /\ established \subseteq Incidents /\ cliKnown \subseteq Incidents
      /\ sess[o].closed => sess[o].child # "up" /\ sess[o].phase # "detecting"
      /\ sess[o].phase = "detecting" => Locked(o)
      /\ sess[o].child = "up" => mode = "running"
  BY DEF IInv, TypeOK, ClosedIsQuiet, DetectingIsLocked, NoChildAfterQuit,
         LiveChildren
<1>1. CASE ChildInit(o)
  <2>1. /\ sess' = [sess EXCEPT ![o] = sess[o]]
        /\ established' \subseteq Incidents
        /\ UNCHANGED <<managerVars, cliKnown, chain, mode, prompts, lastUsed>>
    BY <1>0, <1>1 DEF ChildInit
  <2> QED BY <1>0, <2>1, OneSessionStep
<1>2. CASE ChildExit(o)
  <2> DEFINE s == [sess[o] EXCEPT !.child = "gone"]
  <2>1. /\ s \in Session /\ s.inc = sess[o].inc /\ s.phase = sess[o].phase
        /\ s.closed = sess[o].closed /\ s.child = "gone"
    BY <1>0 DEF Session, ChildStates
  <2>2. /\ sess' = [sess EXCEPT ![o] = s]
        /\ UNCHANGED <<managerVars, established, cliKnown, chain, mode, prompts,
                       lastUsed>>
    BY <1>0, <1>2 DEF ChildExit
  <2> HIDE DEF s
  <2> QED BY <1>0, <2>1, <2>2, OneSessionStep
<1>3. CASE ReadLoopEnds(o)
  <2> DEFINE s == [sess[o] EXCEPT !.closed = TRUE, !.done = TRUE]
  <2>1. /\ s \in Session /\ s.inc = sess[o].inc /\ s.phase = sess[o].phase
        /\ s.closed /\ s.child = "gone" /\ s.phase = "spawned"
    BY <1>0, <1>3 DEF Session, ReadLoopEnds
  <2>2. /\ sess' = [sess EXCEPT ![o] = s]
        /\ UNCHANGED <<managerVars, established, cliKnown, chain, mode, prompts,
                       lastUsed>>
    BY <1>0, <1>3 DEF ReadLoopEnds
  <2> HIDE DEF s
  <2> QED BY <1>0, <2>1, <2>2, OneSessionStep
<1>4. CASE \E i \in Incidents : CloseOne(i) /\ sessions[i] = o
  <2> DEFINE s == ClosedSession(sess[o])
  <2>1. /\ ~Locked(o)
        /\ sess' = [sess EXCEPT ![o] = s]
        /\ UNCHANGED <<managerVars, established, cliKnown, chain, mode, prompts,
                       lastUsed>>
    BY <1>4 DEF CloseOne
  <2>2. /\ s \in Session /\ s.inc = sess[o].inc /\ s.phase = sess[o].phase
        /\ s.closed /\ s.child # "up"
    BY <1>0 DEF ClosedSession, Session, ChildStates
  <2> HIDE DEF s
  <2> QED BY <1>0, <2>1, <2>2, OneSessionStep
<1> QED BY <1>1, <1>2, <1>3, <1>4

(* CloseAll's cancellation of every child, and the program's end.          *)
LEMMA QuitStep ==
  ASSUME IInv, CloseAll \/ Exit
  PROVE  IInv'
<1>0. sess \in [DOMAIN sess -> Session]
  BY DEF IInv, TypeOK
<1>1. /\ UNCHANGED <<managerVars, established, cliKnown, chain, prompts, lastUsed>>
      /\ mode' \in {"closing", "exited"} /\ chain.pc # "evict"
  BY DEF CloseAll, Exit, IInv, ChainSound
<1>2. /\ DOMAIN sess' = DOMAIN sess
      /\ sess' \in [DOMAIN sess -> Session]
      /\ \A o \in DOMAIN sess : /\ sess'[o].inc = sess[o].inc
                               /\ sess'[o].phase = sess[o].phase
                               /\ sess'[o].closed = sess[o].closed
                               /\ sess'[o].child # "up"
  <2>1. CASE CloseAll
    <3>1. sess' = [o \in DOMAIN sess |->
                     [sess[o] EXCEPT !.child = CancelledChild(@)]]
      BY <2>1 DEF CloseAll
    <3>2. \A o \in DOMAIN sess :
             /\ CancelledChild(sess[o].child) \in ChildStates \ {"up"}
             /\ sess'[o] = [sess[o] EXCEPT !.child = CancelledChild(@)]
      BY <1>0, <3>1 DEF CancelledChild, Session, ChildStates
    <3> QED BY <1>0, <3>1, <3>2 DEF Session
  <2>2. CASE Exit
    BY <1>0, <2>2 DEF Exit, IInv, NoChildAfterQuit, LiveChildren
  <2> QED BY <2>1, <2>2
<1>3. MapAgreesWithOrder' /\ FlagsAgree' /\ OldestFirst'
  BY <1>1, ManagerFrame
<1>4. TypeOK'
  BY <1>1, <1>2 DEF IInv, TypeOK, managerVars
<1>5. MapSound' /\ OpenIsMapped' /\ ClosedIsQuiet' /\ NoChildAfterQuit'
  BY <1>1, <1>2 DEF IInv, MapSound, OpenIsMapped, ClosedIsQuiet,
                    NoChildAfterQuit, LiveChildren, managerVars
<1>6. DetectingIsLocked' /\ ChainSound' /\ Numbered'
  BY <1>1, <1>2 DEF IInv, DetectingIsLocked, Locked, ChainSound, Numbered,
                    managerVars
<1> QED BY <1>3, <1>4, <1>5, <1>6 DEF IInv
-----------------------------------------------------------------------------
(* GetOrCreate holds the chain in "get" or "evict", where no Session is    *)
(* inside its detection.                                                   *)
LEMMA NothingDetecting ==
  ASSUME IInv, chain.pc \in {"get", "evict"}
  PROVE  \A o \in DOMAIN sess : sess[o].phase # "detecting"
  BY DEF IInv, DetectingIsLocked, Locked

(* GetOrCreate finds a live session: only the LRU order changes.           *)
LEMMA TouchStep ==
  ASSUME IInv, Touch
  PROVE  IInv'
<1> DEFINE i == chain.inc
           rest == Dropped(i)
<1>0. /\ chain.pc = "get" /\ i \in Incidents
      /\ sessions[i] # NoSession /\ ~sess[sessions[i]].closed
      /\ order' = Append(rest, i)
      /\ lastUsed' = [lastUsed EXCEPT ![i] = prompts]
      /\ chain' = [chain EXCEPT !.pc = "send", !.obj = sessions[i]]
      /\ UNCHANGED <<sessions, evicted, evictedOrder, established, sess,
                     cliKnown, mode, prompts>>
  BY DEF Touch, Touched, Dropped, IInv, ChainSound
<1>1. /\ TypeOK /\ MapAgreesWithOrder /\ OldestFirst
      /\ prompts \in SessionIds /\ \A j \in Incidents : lastUsed[j] < prompts
  BY <1>0 DEF IInv, ChainSound
<1>2. /\ rest \in Seq(Incidents) /\ IsInjective(rest)
      /\ ToSet(rest) = ToSet(order) \ {i}
      /\ i \in ToSet(order) => Len(rest) = Len(order) - 1
      /\ \A a, b \in DOMAIN rest : a < b => lastUsed[rest[a]] < lastUsed[rest[b]]
  BY <1>0, <1>1, DroppedFacts
<1> HIDE DEF rest
<1>3. i \in ToSet(order)
  BY <1>0, <1>1 DEF MapAgreesWithOrder
<1>4. /\ order' \in Seq(Incidents) /\ IsInjective(order')
      /\ ToSet(order') = ToSet(rest) \cup {i}
      /\ Len(order') = Len(rest) + 1
  BY <1>0, <1>2, AppendFacts
<1>5. MapAgreesWithOrder'
  <2>1. ToSet(order') = ToSet(order)
    BY <1>2, <1>3, <1>4
  <2>2. Len(order) \in Nat /\ Len(order') = Len(order)
    BY <1>1, <1>2, <1>3, <1>4, LenProperties DEF TypeOK
  <2> QED BY <1>0, <1>1, <1>4, <2>1, <2>2 DEF MapAgreesWithOrder
<1>6. OldestFirst'
  <2>1. prompts \in Nat /\ lastUsed \in [Incidents -> Nat]
    BY <1>1 DEF TypeOK
  <2>2. \A a, b \in DOMAIN order' : a < b => lastUsed'[order'[a]] < lastUsed'[order'[b]]
    BY <1>0, <1>1, <1>2, <2>1, YoungestFacts
  <2> QED BY <2>2 DEF OldestFirst
<1>7. /\ chain' \in Chain /\ chain'.pc = "send" /\ chain'.inc = i
      /\ chain'.obj = sessions[i]
  BY <1>0, <1>1 DEF TypeOK, Chain, Pcs
<1>8. TypeOK'
  BY <1>0, <1>1, <1>4, <1>7 DEF TypeOK
<1>9. /\ FlagsAgree' /\ MapSound' /\ OpenIsMapped' /\ ClosedIsQuiet'
      /\ NoChildAfterQuit'
  BY <1>0 DEF IInv, FlagsAgree, MapSound, OpenIsMapped, ClosedIsQuiet,
              NoChildAfterQuit, LiveChildren
<1>10. DetectingIsLocked'
  BY <1>0, NothingDetecting DEF DetectingIsLocked
<1>11. ChainSound'
  BY <1>0, <1>7 DEF IInv, MapSound, ChainSound
<1>12. Numbered'
  BY <1>0, <1>1 DEF IInv, Numbered, TypeOK
<1> QED BY <1>5, <1>6, <1>8, <1>9, <1>10, <1>11, <1>12 DEF IInv

(* An incident leaves the map and the slice and is flagged.                *)
LEMMA LeaveMap ==
  ASSUME IInv, NEW i \in Incidents, sessions[i] # NoSession,
         sessions' = [sessions EXCEPT ![i] = NoSession],
         order' = Dropped(i), MarkEvicted(i), UNCHANGED lastUsed
  PROVE  /\ MapAgreesWithOrder' /\ FlagsAgree' /\ OldestFirst'
         /\ sessions' \in [Incidents -> SessionIds \cup {NoSession}]
         /\ order' \in Seq(Incidents) /\ evictedOrder' \in Seq(Incidents)
         /\ evicted' \subseteq Incidents
<1>1. /\ TypeOK /\ MapAgreesWithOrder /\ FlagsAgree /\ OldestFirst
      /\ sessions \in [Incidents -> SessionIds \cup {NoSession}]
  BY DEF IInv, TypeOK
<1>2. /\ order' \in Seq(Incidents) /\ IsInjective(order')
      /\ ToSet(order') = ToSet(order) \ {i}
      /\ Len(order') <= Len(order)
      /\ \A a, b \in DOMAIN order' : a < b =>
            lastUsed[order'[a]] < lastUsed[order'[b]]
  BY <1>1, DroppedFacts
<1>3. /\ evictedOrder' \in Seq(Incidents)
      /\ evicted' \subseteq evicted \cup {i}
      /\ evicted' = ToSet(evictedOrder')
      /\ IsInjective(evictedOrder')
      /\ Len(evictedOrder') <= MaxEvicted
  BY <1>1, MarkEvictedFacts
<1>4. /\ sessions' \in [Incidents -> SessionIds \cup {NoSession}]
      /\ sessions'[i] = NoSession
      /\ \A j \in Incidents : j # i => sessions'[j] = sessions[j]
  BY <1>1
<1>5. MapAgreesWithOrder'
  <2>1. Len(order) \in Nat /\ Len(order') \in Nat
    BY <1>1, <1>2, LenProperties DEF TypeOK
  <2>2. Len(order') <= MaxLive
    BY <1>1, <1>2, <2>1 DEF MapAgreesWithOrder
  <2>3. ToSet(order') = {j \in Incidents : sessions'[j] # NoSession}
    BY <1>1, <1>2, <1>4 DEF MapAgreesWithOrder
  <2> QED BY <1>2, <2>2, <2>3 DEF MapAgreesWithOrder
<1>6. FlagsAgree'
  BY <1>1, <1>3, <1>4 DEF FlagsAgree
<1>7. OldestFirst'
  BY <1>2 DEF OldestFirst
<1>8. evicted' \subseteq Incidents
  BY <1>1, <1>3 DEF TypeOK
<1> QED BY <1>2, <1>3, <1>4, <1>5, <1>6, <1>7, <1>8

(* GetOrCreate finds no session, or drops a dead one.                      *)
LEMMA MissOrDeadStep ==
  ASSUME IInv, MissOrDead
  PROVE  IInv'
<1> DEFINE i == chain.inc
<1>0. /\ mode = "running" /\ chain.pc = "get" /\ i \in Incidents
      /\ chain' = [chain EXCEPT !.pc = "evict"]
      /\ UNCHANGED <<established, sess, cliKnown, mode, prompts, lastUsed>>
  BY DEF MissOrDead, Goto, IInv, ChainSound
<1>1. /\ MapAgreesWithOrder' /\ FlagsAgree' /\ OldestFirst'
      /\ sessions' \in [Incidents -> SessionIds \cup {NoSession}]
      /\ order' \in Seq(Incidents) /\ evictedOrder' \in Seq(Incidents)
      /\ evicted' \subseteq Incidents
  <2>1. CASE sessions[i] = NoSession
    <3>1. UNCHANGED managerVars
      BY <2>1 DEF MissOrDead
    <3> QED BY <1>0, <3>1, ManagerFrame DEF IInv, TypeOK, managerVars
  <2>2. CASE sessions[i] # NoSession
    <3>1. /\ sessions' = [sessions EXCEPT ![i] = NoSession]
          /\ order' = Dropped(i) /\ MarkEvicted(i)
      BY <2>2 DEF MissOrDead
    <3> QED BY <1>0, <2>2, <3>1, LeaveMap
  <2> QED BY <2>1, <2>2
<1>2. /\ sessions'[i] = NoSession
      /\ sessions[i] # NoSession => sess[sessions[i]].closed
      /\ \A j \in Incidents : j # i => sessions'[j] = sessions[j]
  BY <1>0 DEF MissOrDead, managerVars, IInv, TypeOK
<1>3. /\ chain' \in Chain /\ chain'.pc = "evict" /\ chain'.inc = i
  BY <1>0 DEF IInv, TypeOK, Chain, Pcs
<1>4. TypeOK'
  BY <1>0, <1>1, <1>3 DEF IInv, TypeOK
<1>5. MapSound'
  BY <1>0, <1>2 DEF IInv, MapSound
<1>6. OpenIsMapped'
  <2> SUFFICES ASSUME NEW o \in DOMAIN sess, ~sess[o].closed
               PROVE  sessions'[sess[o].inc] = o
    BY <1>0 DEF OpenIsMapped
  <2>1. sessions[sess[o].inc] = o /\ sess[o].inc \in Incidents /\ o # NoSession
    BY DEF IInv, OpenIsMapped, TypeOK, Session
  <2> QED BY <2>1, <1>2
<1>7. ClosedIsQuiet' /\ NoChildAfterQuit' /\ Numbered'
  BY <1>0 DEF IInv, ClosedIsQuiet, NoChildAfterQuit, LiveChildren, Numbered
<1>8. DetectingIsLocked'
  BY <1>0, NothingDetecting DEF DetectingIsLocked
<1>9. ChainSound'
  BY <1>0, <1>2, <1>3 DEF IInv, ChainSound
<1> QED BY <1>1, <1>4, <1>5, <1>6, <1>7, <1>8, <1>9 DEF IInv

(* One turn of the eviction loop.                                          *)
LEMMA EvictOldestStep ==
  ASSUME IInv, EvictOldest
  PROVE  IInv'
<1> DEFINE i == Victim
           o == sessions[i]
           s == ClosedSession(sess[o])
<1>0. /\ chain.pc = "evict" /\ Len(order) >= MaxLive
      /\ order' = Dropped(i)
      /\ sessions' = [sessions EXCEPT ![i] = NoSession]
      /\ sess' = [sess EXCEPT ![o] = s]
      /\ MarkEvicted(i)
      /\ UNCHANGED <<established, cliKnown, chain, mode, prompts, lastUsed>>
  BY DEF EvictOldest, Dropped
<1>1. /\ i \in Incidents /\ o # NoSession
      /\ o \in DOMAIN sess /\ sess[o] \in Session /\ sess[o].inc = i
  <2>1. order \in Seq(Incidents) /\ Len(order) \in Nat \ {0}
    BY <1>0, LenProperties DEF IInv, TypeOK
  <2>2. i = order[1] /\ 1 \in DOMAIN order
    BY <2>1 DEF Victim
  <2>3. i \in ToSet(order)
    BY <2>2 DEF ToSet
  <2>4. i \in Incidents /\ o # NoSession
    BY <2>3 DEF IInv, MapAgreesWithOrder
  <2> QED BY <2>4 DEF IInv, MapSound, TypeOK
<1>2. /\ s \in Session /\ s.inc = i /\ s.phase = sess[o].phase
      /\ s.closed /\ s.child # "up"
  BY <1>1 DEF ClosedSession, Session, ChildStates
<1>3. \A p \in DOMAIN sess : sess[p].phase # "detecting"
  BY <1>0, NothingDetecting
<1> HIDE DEF s
<1>4. /\ DOMAIN sess' = DOMAIN sess
      /\ sess' \in [DOMAIN sess' -> Session]
      /\ sess'[o] = s
      /\ \A p \in DOMAIN sess : p # o => sess'[p] = sess[p]
  BY <1>0, <1>1, <1>2 DEF IInv, TypeOK
<1>5. /\ MapAgreesWithOrder' /\ FlagsAgree' /\ OldestFirst'
      /\ sessions' \in [Incidents -> SessionIds \cup {NoSession}]
      /\ order' \in Seq(Incidents) /\ evictedOrder' \in Seq(Incidents)
      /\ evicted' \subseteq Incidents
  BY <1>0, <1>1, LeaveMap
<1>6. /\ sessions'[i] = NoSession
      /\ \A j \in Incidents : j # i => sessions'[j] = sessions[j]
  BY <1>0, <1>1 DEF IInv, TypeOK
<1>7. TypeOK'
  BY <1>0, <1>4, <1>5 DEF IInv, TypeOK
<1>8. MapSound'
  BY <1>1, <1>2, <1>4, <1>6 DEF IInv, MapSound
<1>9. OpenIsMapped'
  <2> SUFFICES ASSUME NEW p \in DOMAIN sess, ~sess'[p].closed
               PROVE  sessions'[sess'[p].inc] = p
    BY <1>4 DEF OpenIsMapped
  <2>1. p # o /\ sess'[p] = sess[p]
    BY <1>2, <1>4
  <2>2. sess[p].inc \in Incidents /\ sessions[sess[p].inc] = p
    BY <2>1 DEF IInv, OpenIsMapped, TypeOK, Session
  <2> QED BY <2>1, <2>2, <1>6
<1>10. ClosedIsQuiet' /\ DetectingIsLocked'
  BY <1>2, <1>3, <1>4 DEF IInv, ClosedIsQuiet, DetectingIsLocked
<1>11. NoChildAfterQuit'
  BY <1>0, <1>2, <1>4 DEF IInv, NoChildAfterQuit, LiveChildren
<1>12. ChainSound' /\ Numbered'
  <2>1. sessions'[chain.inc] = NoSession /\ chain.inc \in Incidents
    BY <1>0, <1>6 DEF IInv, ChainSound
  <2> QED BY <1>0, <1>4, <2>1 DEF IInv, ChainSound, Numbered
<1> QED BY <1>5, <1>7, <1>8, <1>9, <1>10, <1>11, <1>12 DEF IInv

(* GetOrCreate makes a new Session and consumes the incident's flag.       *)
LEMMA CreateSessionStep ==
  ASSUME IInv, CreateSession
  PROVE  IInv'
<1> DEFINE i == chain.inc
           new == [inc |-> i, resumed |-> Resumes(i), phase |-> "unspawned",
                   closed |-> FALSE, done |-> FALSE, child |-> "none"]
           unflagged == RemoveFirst(evictedOrder, i)
<1>0. /\ chain.pc = "evict" /\ Len(order) < MaxLive
      /\ sess' = [o \in DOMAIN sess \cup {prompts} |->
                    IF o = prompts THEN new ELSE sess[o]]
      /\ sessions' = [sessions EXCEPT ![i] = prompts]
      /\ order' = Append(order, i)
      /\ evicted' = evicted \ {i}
      /\ evictedOrder' = unflagged
      /\ lastUsed' = [lastUsed EXCEPT ![i] = prompts]
      /\ chain' = [chain EXCEPT !.pc = "send", !.obj = prompts]
      /\ UNCHANGED <<established, cliKnown, mode, prompts>>
  BY DEF CreateSession
<1>1. /\ i \in Incidents /\ sessions[i] = NoSession
      /\ prompts \in SessionIds \ DOMAIN sess
      /\ \A j \in Incidents : lastUsed[j] < prompts
      /\ chain \in Chain
      /\ \A o \in DOMAIN sess : sess[o].phase # "detecting"
  BY <1>0, NothingDetecting DEF IInv, ChainSound, TypeOK
<1>2. new \in Session /\ new.inc = i /\ ~new.closed /\ new.child = "none"
      /\ new.phase = "unspawned"
  BY <1>1 DEF Session, Phases, ChildStates, Resumes
<1> HIDE DEF new
<1>3. /\ DOMAIN sess' = DOMAIN sess \cup {prompts}
      /\ sess'[prompts] = new
      /\ \A o \in DOMAIN sess : o # prompts /\ sess'[o] = sess[o]
      /\ sess' \in [DOMAIN sess' -> Session]
  BY <1>0, <1>1, <1>2 DEF IInv, TypeOK
<1>4. /\ sessions' \in [Incidents -> SessionIds \cup {NoSession}]
      /\ sessions'[i] = prompts /\ prompts # NoSession
      /\ \A j \in Incidents : j # i => sessions'[j] = sessions[j]
  BY <1>0, <1>1 DEF IInv, TypeOK
<1>5. /\ order \in Seq(Incidents) /\ IsInjective(order) /\ i \notin ToSet(order)
      /\ Len(order) \in Nat
  BY <1>1, LenProperties DEF IInv, TypeOK, MapAgreesWithOrder
<1>6. /\ order' \in Seq(Incidents) /\ IsInjective(order')
      /\ ToSet(order') = ToSet(order) \cup {i}
      /\ Len(order') = Len(order) + 1
  BY <1>0, <1>1, <1>5, AppendFacts
<1>7. MapAgreesWithOrder'
  <2>1. Len(order') <= MaxLive
    BY <1>0, <1>5, <1>6
  <2>2. ToSet(order') = {j \in Incidents : sessions'[j] # NoSession}
    BY <1>1, <1>4, <1>6 DEF IInv, MapAgreesWithOrder
  <2> QED BY <1>6, <2>1, <2>2 DEF MapAgreesWithOrder
<1>8. /\ evictedOrder' \in Seq(Incidents)
      /\ IsInjective(evictedOrder')
      /\ ToSet(evictedOrder') = ToSet(evictedOrder) \ {i}
      /\ Len(evictedOrder') <= Len(evictedOrder)
  <2>1. evictedOrder \in Seq(Incidents) /\ IsInjective(evictedOrder)
    BY DEF IInv, TypeOK, FlagsAgree
  <2>2. /\ unflagged \in Seq(Incidents) /\ IsInjective(unflagged)
        /\ ToSet(unflagged) = ToSet(evictedOrder) \ {i}
        /\ Len(unflagged) <= Len(evictedOrder)
    BY <2>1, RemoveFirstFacts
  <2> HIDE DEF unflagged
  <2> QED BY <1>0, <2>2
<1> HIDE DEF unflagged
<1>9. FlagsAgree'
  <2>1. Len(evictedOrder) \in Nat /\ Len(evictedOrder') \in Nat
    BY <1>8, LenProperties DEF IInv, TypeOK
  <2>2. Len(evictedOrder') <= MaxEvicted
    BY <1>8, <2>1 DEF IInv, FlagsAgree
  <2>3. evicted' = ToSet(evictedOrder')
    BY <1>0, <1>8 DEF IInv, FlagsAgree
  <2>4. \A j \in evicted' : sessions'[j] = NoSession
    BY <1>0, <1>4 DEF IInv, TypeOK, FlagsAgree
  <2> QED BY <1>8, <2>2, <2>3, <2>4 DEF FlagsAgree
<1>10. OldestFirst'
  <2>1. prompts \in Nat /\ lastUsed \in [Incidents -> Nat]
    BY <1>1 DEF IInv, TypeOK
  <2>2. \A a, b \in DOMAIN order : a < b => lastUsed[order[a]] < lastUsed[order[b]]
    BY DEF IInv, OldestFirst
  <2>3. \A a, b \in DOMAIN order' : a < b =>
          lastUsed'[order'[a]] < lastUsed'[order'[b]]
    BY <1>0, <1>1, <1>5, <2>1, <2>2, YoungestFacts
  <2> QED BY <2>3 DEF OldestFirst
<1>11. /\ chain' \in Chain /\ chain'.pc = "send" /\ chain'.inc = i
       /\ chain'.obj = prompts
  BY <1>0, <1>1 DEF Chain, Pcs
<1>12. TypeOK'
  <2>1. evicted' \subseteq Incidents /\ lastUsed' \in [Incidents -> 0..MaxPrompts]
        /\ DOMAIN sess' \subseteq SessionIds
    BY <1>0, <1>1, <1>3 DEF IInv, TypeOK
  <2> QED BY <1>0, <1>3, <1>4, <1>6, <1>8, <1>11, <2>1 DEF IInv, TypeOK
<1>13. MapSound'
  BY <1>2, <1>3, <1>4 DEF IInv, MapSound
<1>14. OpenIsMapped'
  <2> SUFFICES ASSUME NEW o \in DOMAIN sess', ~sess'[o].closed
               PROVE  sessions'[sess'[o].inc] = o
    BY DEF OpenIsMapped
  <2>1. CASE o = prompts
    BY <2>1, <1>2, <1>3, <1>4
  <2>2. CASE o \in DOMAIN sess
    <3>1. /\ sess[o].inc \in Incidents /\ sessions[sess[o].inc] = o
          /\ o # NoSession
      BY <2>2, <1>3 DEF IInv, OpenIsMapped, TypeOK, Session
    <3> QED BY <3>1, <2>2, <1>1, <1>3, <1>4
  <2> QED BY <2>1, <2>2, <1>3
<1>15. ClosedIsQuiet' /\ DetectingIsLocked'
  BY <1>1, <1>2, <1>3 DEF IInv, ClosedIsQuiet, DetectingIsLocked
<1>16. NoChildAfterQuit'
  BY <1>0, <1>2, <1>3 DEF IInv, NoChildAfterQuit, LiveChildren
<1>17. ChainSound'
  BY <1>1, <1>2, <1>3, <1>11 DEF ChainSound
<1>18. Numbered'
  BY <1>0, <1>1, <1>3 DEF IInv, Numbered, TypeOK
<1> QED BY <1>7, <1>9, <1>10, <1>12, <1>13, <1>14, <1>15, <1>16, <1>17, <1>18
        DEF IInv

(* Every step keeps the inductive invariant.                               *)
LEMMA NextIInv == IInv /\ [Next]_vars => IInv'
<1> SUFFICES ASSUME IInv, [Next]_vars PROVE IInv'
  OBVIOUS
<1>1. CASE GetOrCreate
  BY <1>1, TouchStep, MissOrDeadStep, EvictOldestStep, CreateSessionStep
     DEF GetOrCreate
<1>2. CASE Send \/ ReadResult \/ ReadDone
  BY <1>2, SendStep
<1>3. ASSUME NEW i \in Incidents, HandlePrompt(i) PROVE IInv'
  BY <1>3, HandlePromptStep
<1>4. ASSUME NEW i \in Incidents, CloseOne(i) PROVE IInv'
  <2>1. sessions[i] \in DOMAIN sess
    BY <1>4 DEF CloseOne, IInv, MapSound
  <2> QED BY <1>4, <2>1, ChildStep
<1>5. ASSUME NEW o \in DOMAIN sess, ChildInit(o) \/ ChildExit(o) \/ ReadLoopEnds(o)
      PROVE IInv'
  BY <1>5, ChildStep
<1>6. CASE CloseAll \/ Exit
  BY <1>6, QuitStep
<1>7. CASE UNCHANGED vars
  BY <1>7 DEF vars, managerVars, IInv, TypeOK, MapAgreesWithOrder, FlagsAgree,
     OldestFirst, MapSound, OpenIsMapped, ClosedIsQuiet, DetectingIsLocked, Locked,
     ChainSound, Numbered, NoChildAfterQuit, LiveChildren
<1> QED BY <1>1, <1>2, <1>3, <1>4, <1>5, <1>6, <1>7 DEF Next, Terminated
-----------------------------------------------------------------------------
(* The bookkeeping of the manager is sound in every reachable state, for   *)
(* any incidents, caps and number of prompts.                              *)
THEOREM Inductive == Spec => []IInv
<1>1. IInv /\ [Next]_vars => IInv'
  BY NextIInv
<1> QED BY InitIInv, <1>1, PTL DEF Spec

(* The variables keep their types.                                         *)
THEOREM TypeCorrect == Spec => []TypeOK
<1>1. IInv => TypeOK
  BY DEF IInv
<1> QED BY Inductive, <1>1, PTL

(* GetOrCreate's map and LRU slice hold the same incidents, within the cap. *)
THEOREM MapAndOrderAgree == Spec => []MapAgreesWithOrder
<1>1. IInv => MapAgreesWithOrder
  BY DEF IInv
<1> QED BY Inductive, <1>1, PTL

(* markEvicted and clearEvicted keep the flags, their order and the cap,   *)
(* and no flag survives the session that consumed it.                      *)
THEOREM EvictedFlagsAgree == Spec => []FlagsAgree
<1>1. IInv => FlagsAgree
  BY DEF IInv
<1> QED BY Inductive, <1>1, PTL

(* The head of the LRU slice is always the least recently used session.    *)
THEOREM LeastRecentFirst == Spec => []OldestFirst
<1>1. IInv => OldestFirst
  BY DEF IInv
<1> QED BY Inductive, <1>1, PTL

(* The three books tell one story.                                         *)
THEOREM BooksAgree == Spec => []Bookkeeping
<1>1. IInv => Bookkeeping
  BY DEF IInv, Bookkeeping
<1> QED BY Inductive, <1>1, PTL

(* No child is left unsignalled once CloseAll has begun.                   *)
THEOREM QuitLeavesNoChild == Spec => []NoChildAfterQuit
<1>1. IInv => NoChildAfterQuit
  BY DEF IInv
<1> QED BY Inductive, <1>1, PTL

(* A running, unsignalled child belongs to an open Session, an open        *)
(* Session is the one its incident maps to, and the map is within the cap. *)
LEMMA ChildrenWithinCap == IInv => LiveBound
<1> SUFFICES ASSUME IInv PROVE LiveBound
  OBVIOUS
<1> DEFINE owner == [o \in LiveChildren |-> sess[o].inc]
<1>1. \A o \in LiveChildren : /\ sess[o].inc \in Incidents
                             /\ sessions[sess[o].inc] = o /\ o # NoSession
  BY DEF IInv, TypeOK, Session, LiveChildren, ClosedIsQuiet, OpenIsMapped
<1>2. owner \in Injection(LiveChildren, ToSet(order))
  <2>1. \A o \in LiveChildren : sess[o].inc \in ToSet(order)
    BY <1>1 DEF IInv, MapAgreesWithOrder
  <2>2. \A o, p \in LiveChildren : owner[o] = owner[p] => o = p
    BY <1>1
  <2>3. owner \in [LiveChildren -> ToSet(order)] /\ IsInjective(owner)
    BY <2>1, <2>2 DEF IsInjective
  <2> QED BY <2>3 DEF Injection
<1>3. /\ IsFiniteSet(ToSet(order))
      /\ Cardinality(ToSet(order)) <= Len(order)
      /\ Len(order) <= MaxLive /\ Len(order) \in Nat
  BY ToSetBound, LenProperties DEF IInv, TypeOK, MapAgreesWithOrder
<1>4. /\ IsFiniteSet(LiveChildren)
      /\ Cardinality(LiveChildren) <= Cardinality(ToSet(order))
  BY <1>2, <1>3, FS_Injection
<1>5. Cardinality(LiveChildren) \in Nat /\ Cardinality(ToSet(order)) \in Nat
  BY <1>3, <1>4, FS_CardinalityType
<1> QED BY <1>3, <1>4, <1>5 DEF LiveBound

(* At most maxLive children run that nobody has told to stop.              *)
THEOREM ProcessBound == Spec => []LiveBound
<1>1. IInv => LiveBound
  BY ChildrenWithinCap
<1> QED BY Inductive, <1>1, PTL
-----------------------------------------------------------------------------
(* With room for every flag, none is dropped.                              *)
LEMMA FlagAdded ==
  ASSUME RoomForFlags, TypeOK, FlagsAgree, NEW i \in Incidents, MarkEvicted(i)
  PROVE  evicted' = evicted \cup {i}
<1> SUFFICES ASSUME i \notin evicted PROVE Len(evictedOrder) < MaxEvicted
  BY DEF MarkEvicted
<1> DEFINE n == Len(evictedOrder)
<1>1. /\ evictedOrder \in Seq(Incidents) /\ n \in Nat /\ DOMAIN evictedOrder = 1..n
      /\ evicted = ToSet(evictedOrder)
      /\ \A x, y \in 1..n : evictedOrder[x] = evictedOrder[y] => x = y
  BY LenProperties DEF TypeOK, FlagsAgree, IsInjective
<1>2. evictedOrder \in [1..n -> evicted]
  BY <1>1 DEF ToSet
<1>3. evictedOrder \in Injection(1..n, evicted)
  BY <1>1, <1>2 DEF Injection, IsInjective
<1>4. /\ IsFiniteSet(evicted) /\ IsFiniteSet(Incidents)
      /\ Cardinality(evicted) <= Cardinality(Incidents)
      /\ Cardinality(evicted) # Cardinality(Incidents)
  BY FS_Subset DEF RoomForFlags, TypeOK
<1>5. Cardinality(1..n) <= Cardinality(evicted)
  BY <1>3, <1>4, FS_Injection
<1>6. Cardinality(1..n) = n
  <2>1. 1 \in Int /\ n \in Int BY <1>1
  <2>2. Cardinality(1..n) = IF 1 > n THEN 0 ELSE n - 1 + 1
    BY <2>1, FS_Interval
  <2> QED BY <1>1, <2>2
<1>7. Cardinality(evicted) \in Nat /\ Cardinality(Incidents) \in Nat
  BY <1>4, FS_CardinalityType
<1> QED BY <1>1, <1>4, <1>5, <1>6, <1>7 DEF RoomForFlags

ResumeInv == FlaggedOrMapped /\ FreshIsFirst

(* Steps in the life of a Session: it stays with its incident, is closed   *)
(* or resumed for good, and once spawned goes back only to be resumed.     *)
LEMMA LivesOn ==
  ASSUME ResumeInv, UNCHANGED <<sessions, evicted, established>>,
         DOMAIN sess' = DOMAIN sess,
         \A o \in DOMAIN sess :
            /\ sess'[o].inc = sess[o].inc
            /\ ~sess'[o].closed => ~sess[o].closed
            /\ ~sess'[o].resumed => ~sess[o].resumed
            /\ ~sess'[o].resumed /\ sess'[o].phase # "spawned" => sess[o].phase # "spawned"
  PROVE  ResumeInv'
<1>1. FlaggedOrMapped' BY DEF ResumeInv, FlaggedOrMapped
<1>2. FreshIsFirst' BY DEF ResumeInv, FreshIsFirst
<1> QED BY <1>1, <1>2 DEF ResumeInv

(* An incident leaves the map and is flagged.                              *)
LEMMA FlaggedOnLeaving ==
  ASSUME RoomForFlags, IInv, ResumeInv, NEW i \in Incidents, MarkEvicted(i),
         sessions' = [sessions EXCEPT ![i] = NoSession], UNCHANGED established,
         DOMAIN sess' = DOMAIN sess,
         \A o \in DOMAIN sess :
            /\ sess'[o].inc = sess[o].inc /\ sess'[o].resumed = sess[o].resumed
            /\ ~sess'[o].closed => ~sess[o].closed
            /\ sess'[o].phase = sess[o].phase
  PROVE  ResumeInv'
<1>1. evicted' = evicted \cup {i} BY FlagAdded DEF IInv
<1>2. \A o \in DOMAIN sess : sess[o].inc \in Incidents
  BY DEF IInv, TypeOK, Session
<1>3. sessions \in [Incidents -> SessionIds \cup {NoSession}]
  BY DEF IInv, TypeOK
<1>4. FlaggedOrMapped'
  BY <1>1, <1>2, <1>3 DEF ResumeInv, FlaggedOrMapped
<1>5. FreshIsFirst' BY DEF ResumeInv, FreshIsFirst
<1> QED BY <1>4, <1>5 DEF ResumeInv

LEMMA ResumeCreate ==
  ASSUME RoomForFlags, IInv, ResumeInv, CreateSession
  PROVE  ResumeInv'
<1> DEFINE i == chain.inc
           new == [inc |-> i, resumed |-> Resumes(i), phase |-> "unspawned",
                   closed |-> FALSE, done |-> FALSE, child |-> "none"]
<1>1. /\ sess' = [o \in DOMAIN sess \cup {prompts} |-> IF o = prompts THEN new ELSE sess[o]]
      /\ sessions' = [sessions EXCEPT ![i] = prompts]
      /\ evicted' = evicted \ {i} /\ UNCHANGED established
  BY DEF CreateSession
<1>2. /\ i \in Incidents /\ sessions[i] = NoSession
      /\ prompts \in SessionIds \ DOMAIN sess
      /\ sessions \in [Incidents -> SessionIds \cup {NoSession}]
      /\ \A o \in DOMAIN sess : sess[o].inc \in Incidents
      /\ \A o \in DOMAIN sess : ~sess[o].closed => sessions[sess[o].inc] = o
      /\ prompts # NoSession /\ \A o \in DOMAIN sess : o # NoSession
  BY DEF CreateSession, IInv, ChainSound, TypeOK, Session, OpenIsMapped
<1>3. /\ DOMAIN sess' = DOMAIN sess \cup {prompts} /\ sess'[prompts] = new
      /\ \A o \in DOMAIN sess : sess'[o] = sess[o]
      /\ sessions'[i] = prompts /\ \A j \in Incidents : j # i => sessions'[j] = sessions[j]
  BY <1>1, <1>2
<1>4. new.inc = i /\ new.resumed = Resumes(i) /\ new.phase = "unspawned"
  OBVIOUS
<1> HIDE DEF new
<1>5. FlaggedOrMapped'
  BY <1>1, <1>2, <1>3, <1>4 DEF ResumeInv, FlaggedOrMapped
<1>6. FreshIsFirst'
  <2> SUFFICES ASSUME NEW o \in DOMAIN sess', ~sess'[o].resumed, ~sess'[o].closed
               PROVE  /\ \A p \in DOMAIN sess' : sess'[p].inc = sess'[o].inc => p = o
                      /\ sess'[o].phase # "spawned" => sess'[o].inc \notin established'
    BY DEF FreshIsFirst
  <2>1. CASE o = prompts
    <3>1. i \notin evicted /\ i \notin established
      BY <1>3, <1>4, <2>1 DEF Resumes
    <3>2. \A p \in DOMAIN sess : sess[p].inc # i
      BY <1>2, <3>1 DEF ResumeInv, FlaggedOrMapped
    <3> QED BY <1>1, <1>3, <1>4, <2>1, <3>1, <3>2
  <2>2. CASE o \in DOMAIN sess
    <3>1. sess[o].inc # i
      BY <1>2, <1>3, <2>2
    <3> QED BY <1>1, <1>2, <1>3, <1>4, <2>2, <3>1 DEF ResumeInv, FreshIsFirst
  <2> QED BY <1>3, <2>1, <2>2
<1> QED BY <1>5, <1>6 DEF ResumeInv

LEMMA ResumeManager ==
  ASSUME RoomForFlags, IInv, ResumeInv, MissOrDead \/ EvictOldest
  PROVE  ResumeInv'
<1>1. CASE MissOrDead
  <2>1. chain.inc \in Incidents /\ UNCHANGED <<sess, established>>
    BY <1>1 DEF MissOrDead, IInv, ChainSound
  <2>2. CASE UNCHANGED managerVars
    BY <2>1, <2>2, LivesOn DEF managerVars
  <2>3. CASE sessions' = [sessions EXCEPT ![chain.inc] = NoSession] /\ MarkEvicted(chain.inc)
    BY <2>1, <2>3, FlaggedOnLeaving
  <2> QED BY <1>1, <2>2, <2>3 DEF MissOrDead
<1>2. CASE EvictOldest
  <2> DEFINE i == Head(order)
             o == sessions[i]
  <2>1. i \in ToSet(order)
    <3>1. order \in Seq(Incidents) /\ Len(order) >= 1
      BY <1>2 DEF EvictOldest, IInv, TypeOK
    <3> QED BY <3>1 DEF ToSet
  <2>2. /\ i \in Incidents /\ o \in DOMAIN sess
    BY <2>1 DEF IInv, MapAgreesWithOrder, MapSound
  <2>3. /\ sess' = [sess EXCEPT ![o] = ClosedSession(sess[o])]
        /\ sessions' = [sessions EXCEPT ![i] = NoSession]
        /\ MarkEvicted(i) /\ UNCHANGED established
    BY <1>2 DEF EvictOldest, Victim
  <2>4. sess \in [DOMAIN sess -> Session] BY DEF IInv, TypeOK
  <2> HIDE DEF i, o
  <2>5. /\ DOMAIN sess' = DOMAIN sess
        /\ \A p \in DOMAIN sess :
              /\ sess'[p].inc = sess[p].inc /\ sess'[p].resumed = sess[p].resumed
              /\ ~sess'[p].closed => ~sess[p].closed
              /\ sess'[p].phase = sess[p].phase
    BY <2>2, <2>3, <2>4 DEF ClosedSession, Session
  <2> QED BY <2>2, <2>3, <2>5, FlaggedOnLeaving
<1> QED BY <1>1, <1>2

LEMMA ResumeSpawn ==
  ASSUME IInv, ResumeInv, Send
  PROVE  ResumeInv'
<1>1. sess \in [DOMAIN sess -> Session] BY DEF IInv, TypeOK
<1>2. UNCHANGED <<sessions, evicted, established>>
  BY DEF Send, SendOnClosed, SendOnSpawned, Spawn, SpawnFails, SpawnOutcome, WriteTurn,
     WriteFails, FirstByte, RetryAsResume, ExitBeforeOutput, SpawnTimeout, Fail, Goto,
     managerVars
<1>3. CASE UNCHANGED sess
  BY <1>2, <1>3, LivesOn
<1>4. CASE ~UNCHANGED sess
  <2> DEFINE o == chain.obj
  <2>1. /\ o \in DOMAIN sess
        /\ chain.pc = "spawn" => sess[o].phase = "detecting"
    BY <1>4 DEF Send, SendOnClosed, SendOnSpawned, Spawn, SpawnFails, SpawnOutcome, WriteTurn,
       WriteFails, FirstByte, RetryAsResume, ExitBeforeOutput, SpawnTimeout, Deadline, IInv,
       ChainSound
  <2>2. \/ Spawn \/ FirstByte \/ RetryAsResume \/ ExitBeforeOutput \/ SpawnTimeout
    BY <1>4 DEF Send, SendOnClosed, SendOnSpawned, SpawnFails, SpawnOutcome, WriteTurn,
       WriteFails
  <2>3. /\ DOMAIN sess' = DOMAIN sess
        /\ \A p \in DOMAIN sess : p # o => sess'[p] = sess[p]
        /\ sess'[o].inc = sess[o].inc /\ sess'[o].closed = sess[o].closed
    BY <1>1, <2>1, <2>2 DEF Spawn, FirstByte, RetryAsResume, ExitBeforeOutput, SpawnTimeout,
       Session
  <2>4. /\ ~sess'[o].resumed => ~sess[o].resumed
        /\ ~sess'[o].resumed /\ sess'[o].phase # "spawned" => sess[o].phase # "spawned"
    <3>1. CASE Spawn BY <1>1, <2>1, <3>1 DEF Spawn, Session, Current
    <3>2. CASE FirstByte BY <1>1, <2>1, <3>2 DEF FirstByte, Session
    <3>3. CASE RetryAsResume BY <1>1, <2>1, <3>3 DEF RetryAsResume, Session
    <3>4. CASE ExitBeforeOutput BY <1>1, <2>1, <3>4 DEF ExitBeforeOutput, Session
    <3>5. CASE SpawnTimeout BY <1>1, <2>1, <3>5 DEF SpawnTimeout, Deadline, Session
    <3> QED BY <2>2, <3>1, <3>2, <3>3, <3>4, <3>5
  <2> QED BY <1>2, <2>3, <2>4, LivesOn
<1> QED BY <1>3, <1>4

LEMMA ResumeChild ==
  ASSUME IInv, ResumeInv, NEW o \in DOMAIN sess,
         ChildInit(o) \/ ChildExit(o) \/ ReadLoopEnds(o)
  PROVE  ResumeInv'
<1>1. sess \in [DOMAIN sess -> Session] BY DEF IInv, TypeOK
<1>2. CASE ChildInit(o)
  <2>1. /\ sess[o].phase = "spawned" /\ established' = established \cup {sess[o].inc}
        /\ UNCHANGED <<sessions, evicted, sess>>
    BY <1>2 DEF ChildInit, managerVars
  <2>2. FlaggedOrMapped' BY <2>1 DEF ResumeInv, FlaggedOrMapped
  <2>3. FreshIsFirst' BY <2>1 DEF ResumeInv, FreshIsFirst
  <2> QED BY <2>2, <2>3 DEF ResumeInv
<1>3. CASE ChildExit(o) \/ ReadLoopEnds(o)
  <2>1. UNCHANGED <<sessions, evicted, established>>
    BY <1>3 DEF ChildExit, ReadLoopEnds, managerVars
  <2>2. /\ DOMAIN sess' = DOMAIN sess
        /\ \A p \in DOMAIN sess :
              /\ sess'[p].inc = sess[p].inc /\ sess'[p].resumed = sess[p].resumed
              /\ ~sess'[p].closed => ~sess[p].closed
              /\ sess'[p].phase = sess[p].phase
    BY <1>1, <1>3 DEF ChildExit, ReadLoopEnds, Session
  <2> QED BY <2>1, <2>2, LivesOn
<1> QED BY <1>2, <1>3

LEMMA ResumeQuit ==
  ASSUME IInv, ResumeInv, CloseAll \/ (\E i \in Incidents : CloseOne(i))
  PROVE  ResumeInv'
<1>1. sess \in [DOMAIN sess -> Session] BY DEF IInv, TypeOK
<1>2. UNCHANGED <<sessions, evicted, established>>
  BY DEF CloseAll, CloseOne, managerVars
<1>3. /\ DOMAIN sess' = DOMAIN sess
      /\ \A p \in DOMAIN sess :
            /\ sess'[p].inc = sess[p].inc /\ sess'[p].resumed = sess[p].resumed
            /\ ~sess'[p].closed => ~sess[p].closed
            /\ sess'[p].phase = sess[p].phase
  <2>1. CASE CloseAll BY <1>1, <2>1 DEF CloseAll, Session
  <2>2. CASE \E i \in Incidents : CloseOne(i)
    <3>1. PICK i \in Incidents : CloseOne(i) BY <2>2
    <3>2. sessions[i] \in DOMAIN sess BY <3>1 DEF CloseOne, IInv, MapSound
    <3> DEFINE o == sessions[i]
               s == ClosedSession(sess[o])
    <3>3. sess' = [sess EXCEPT ![o] = s]
      BY <3>1 DEF CloseOne
    <3>4. /\ s.inc = sess[o].inc /\ s.resumed = sess[o].resumed
          /\ s.phase = sess[o].phase /\ s.closed
      BY <1>1, <3>2 DEF ClosedSession, Session
    <3> HIDE DEF o, s
    <3>5. o \in DOMAIN sess BY <3>2 DEF o
    <3> QED BY <1>1, <3>3, <3>4, <3>5
  <2> QED BY <2>1, <2>2
<1> QED BY <1>2, <1>3, LivesOn

LEMMA ResumeStep == RoomForFlags /\ IInv /\ ResumeInv /\ [Next]_vars => ResumeInv'
<1> SUFFICES ASSUME RoomForFlags, IInv, ResumeInv, [Next]_vars PROVE ResumeInv'
  OBVIOUS
<1>1. ASSUME UNCHANGED <<sess, sessions, evicted, established>> PROVE ResumeInv'
  BY <1>1, LivesOn
<1>2. CASE MissOrDead \/ EvictOldest BY <1>2, ResumeManager
<1>3. CASE CreateSession BY <1>3, ResumeCreate
<1>4. CASE Send BY <1>4, ResumeSpawn
<1>5. CASE CloseAll \/ (\E i \in Incidents : CloseOne(i)) BY <1>5, ResumeQuit
<1>6. ASSUME NEW o \in DOMAIN sess, ChildInit(o) \/ ChildExit(o) \/ ReadLoopEnds(o)
      PROVE  ResumeInv'
  BY <1>6, ResumeChild
<1>7. CASE \/ (\E i \in Incidents : HandlePrompt(i)) \/ Touch \/ ReadResult \/ ReadDone
           \/ Exit \/ UNCHANGED vars
  BY <1>1, <1>7 DEF HandlePrompt, Touch, ReadResult, ReadDone, Exit, vars, managerVars
<1> QED BY <1>2, <1>3, <1>4, <1>5, <1>6, <1>7 DEF Next, GetOrCreate, Terminated

(* With room for every flag (256 in the code), --session-id never names a  *)
(* conversation that the index knows (GetOrCreate, markEvicted).           *)
THEOREM KnownStaysResumed == RoomForFlags => (Spec => []KnownIsResumed)
<1> SUFFICES ASSUME RoomForFlags PROVE Spec => []KnownIsResumed
  OBVIOUS
<1>1. Init => ResumeInv
  BY DEF Init, ResumeInv, FlaggedOrMapped, FreshIsFirst
<1>2. IInv /\ ResumeInv /\ [Next]_vars => IInv' /\ ResumeInv'
  BY NextIInv, ResumeStep
<1>3. ResumeInv => KnownIsResumed
  BY DEF ResumeInv, FreshIsFirst, KnownIsResumed
<1> QED BY <1>1, <1>2, <1>3, InitIInv, PTL DEF Spec
=============================================================================
