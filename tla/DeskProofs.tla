----------------------------- MODULE DeskProofs -----------------------------
(***************************************************************************)
(* Proofs about the four parts of the desk (Desk.tla), for any incidents,  *)
(* teams, buffers and bounds.                                              *)
(*                                                                         *)
(* Approvals: an ask in the strip, under way or carried out is about one   *)
(* of the incidents that set off its investigation.  Feed: every command   *)
(* under way is counted, and at most one of them is the current stream or  *)
(* the current typewriter.  Config: who may write at the same time, what   *)
(* the backup holds at each step of a save, and that what the user         *)
(* confirmed is either among the changes to be written or in the file      *)
(* already.  Keys: one fact for each handler, and the source of a merge.   *)
(* Each part has an inductive invariant of its own; a step of the bench is *)
(* a step or a stutter of each.                                            *)
(***************************************************************************)
EXTENDS Desk, SeqFacts

(* A step of the bench is a step of one of its parts, for each of them.    *)
LEMMA BenchParts ==
    BenchNext \/ UNCHANGED benchVars =>
        /\ [Next]_vars
        /\ [Approval!Next]_(Approval!vars)
        /\ [Feed!Next]_(Feed!vars)
        /\ [Config!Next]_(Config!vars)
BY Zenon DEF BenchNext, benchVars, KeyStep, ApprovalStep, FeedStep, ConfigStep, approvalVars,
   feedVars, configVars, Approval!vars, Feed!vars, Config!vars

-----------------------------------------------------------------------------
(* Approvals.                                                              *)
(* The asks in the strip, under way and carried out.                       *)
AsksOnOrigin ==
    /\ \A r \in runs : r.ids # <<>>
    /\ \A n \in 1..Len(strip) : strip[n].incident \in strip[n].origin
    /\ \A a \in approved : a.incident \in a.origin
    /\ Approval!ActsOnOrigin

ApprovalInv == Approval!TypeOK /\ AsksOnOrigin

(* The library operators, as the instance names them. *)
LEMMA ApprovalsOps ==
    /\ \A q, n : Approval!RemoveAt(q, n) = RemoveAt(q, n)
    /\ \A q : Approval!ToSet(q) = ToSet(q)
    /\ \A S : Approval!Cardinality(S) = Cardinality(S)
    /\ \A S : Approval!SetToSeqs(S) = SetToSeqs(S)
    /\ \A S : Approval!IsFiniteSet(S) = IsFiniteSet(S)
<1>1. \A q, n : Approval!RemoveAt(q, n) = RemoveAt(q, n)
  BY DEF RemoveAt, Approval!RemoveAt
<1>2. \A q : Approval!ToSet(q) = ToSet(q)
  BY DEF ToSet, Approval!ToSet
<1>3. \A S : Approval!Cardinality(S) = Cardinality(S)
  BY DEF Cardinality, Approval!Cardinality
<1>4. \A S : Approval!SetToSeqs(S) = SetToSeqs(S)
  BY <1>3, Zenon DEF SetToSeqs, Approval!SetToSeqs
<1>5. \A S : Approval!IsFiniteSet(S) = IsFiniteSet(S)
  BY DEF IsFiniteSet, Approval!IsFiniteSet
<1> QED BY <1>1, <1>2, <1>3, <1>4, <1>5

LEMMA ApprovalsFinite == Approval!ApprovalsAssumption
BY DeskAssumption

(* Taking an ask out of the strip leaves the others as they are. *)
LEMMA TakeOutKeeps ==
    ASSUME ApprovalInv, Approval!TakeOut, approved' \subseteq approved \cup {strip[pointer + 1]}
    PROVE  ApprovalInv'
<1> USE DEF ApprovalInv, AsksOnOrigin, Approval!TypeOK
<1> DEFINE n == pointer + 1
<1>1. n \in 1..Len(strip) /\ strip[n] \in Approval!Asks /\ Len(strip) \in Nat
  BY DEF Approval!TakeOut
<1>2. /\ strip' \in Seq(Approval!Asks) /\ Len(strip') = Len(strip) - 1
      /\ \A m \in 1..(Len(strip) - 1) :
           strip'[m] = IF m < n THEN strip[m] ELSE strip[m + 1]
  <2>1. strip \in Seq(Approval!Asks) /\ strip' = RemoveAt(strip, n)
    BY ApprovalsOps DEF Approval!TakeOut
  <2> HIDE DEF n
  <2> QED BY <1>1, <2>1, RemoveAtFacts
<1>3. \A m \in 1..Len(strip') : strip'[m].incident \in strip'[m].origin
  BY <1>1, <1>2
<1>4. /\ pointer' \in 0..Len(strip')
      /\ strip' # <<>> => pointer' < Len(strip')
  BY <1>1, <1>2 DEF Approval!TakeOut, Approval!Clamped
<1>5. approved' \subseteq Approval!Asks /\ \A a \in approved' : a.incident \in a.origin
  BY <1>1
<1>6. UNCHANGED <<queue, current, registry, runs, acted, polls, made>>
      /\ expanded' \in BOOLEAN
  BY DEF Approval!TakeOut
<1> QED BY <1>2, <1>3, <1>4, <1>5, <1>6 DEF Approval!ActsOnOrigin, Approval!Asks

LEMMA ApprovalsStep ==
    ApprovalInv /\ [Approval!Next]_(Approval!vars) => ApprovalInv'
<1> SUFFICES ASSUME ApprovalInv, [Approval!Next]_(Approval!vars) PROVE ApprovalInv'
  OBVIOUS
<1> USE DEF ApprovalInv, AsksOnOrigin, Approval!TypeOK, Approval!ActsOnOrigin
<1>1. ASSUME NEW l \in SUBSET Incidents, Approval!Poll(l) PROVE ApprovalInv'
  <2>1. runs' = runs \/ \E ids \in SetToSeqs(l) : ids \in Seq(Incidents) /\ ids # <<>> /\ runs' = runs \cup {[ids |-> ids]}
    <3>1. CASE UNCHANGED runs BY <3>1
    <3>2. CASE ~UNCHANGED runs
      <4>1. Cardinality(l) >= 2 /\ \E ids \in SetToSeqs(l) : runs' = runs \cup {[ids |-> ids]}
        <5>1. IF Cardinality(l) >= 2 /\ made < MaxRuns
              THEN \E ids \in SetToSeqs(l) : runs' = runs \cup {[ids |-> ids]}
              ELSE UNCHANGED runs
          BY <1>1, ApprovalsOps DEF Approval!Poll
        <5> QED BY <5>1, <3>2
      <4>2. PICK ids \in SetToSeqs(l) : runs' = runs \cup {[ids |-> ids]}
        BY <4>1
      <4>3. IsFiniteSet(l) /\ Cardinality(l) \in Nat
        <5>1. IsFiniteSet(Incidents)
          BY ApprovalsFinite, ApprovalsOps DEF Approval!ApprovalsAssumption
        <5> QED BY <5>1, FS_Subset, FS_CardinalityType
      <4>4. ids \in [1..Cardinality(l) -> l]
        BY <4>2 DEF SetToSeqs
      <4>5. ids \in Seq(Incidents) /\ Len(ids) = Cardinality(l)
        <5> DEFINE n == Cardinality(l)
        <5>1. n \in Nat /\ ids \in [1..n -> l] BY <4>3, <4>4
        <5> HIDE DEF n
        <5>2. ids \in [1..n -> Incidents] BY ONLY <5>1, l \in SUBSET Incidents
        <5>3. ids \in Seq(Incidents) BY ONLY <5>1, <5>2
        <5>4. DOMAIN ids = 1..n BY ONLY <5>2
        <5>5. DOMAIN ids = 1..Len(ids) /\ Len(ids) \in Nat BY ONLY <5>3, LenProperties
        <5>6. Len(ids) = n BY ONLY <5>1, <5>4, <5>5
        <5> QED BY <5>3, <5>6 DEF n
      <4>6. ids # <<>> BY <4>1, <4>3, <4>5
      <4> QED BY <4>2, <4>5, <4>6
    <3> QED BY <3>1, <3>2
  <2>2. /\ queue' \subseteq Incidents /\ current' \in Incidents \cup {None}
        /\ registry' = [list |-> queue', selected |-> current']
        /\ polls' \in 0..MaxPolls /\ made' \in 0..MaxRuns
        /\ UNCHANGED <<strip, pointer, expanded, approved, acted>>
    BY <1>1, ApprovalsFinite DEF Approval!Poll, Approval!Sync, Approval!Publish, Approval!ApprovalsAssumption
  <2>3. \A r \in runs' : r.ids \in Seq(Incidents) /\ r.ids # <<>>
    BY <2>1
  <2> QED BY <2>2, <2>3 DEF Approval!Asks
<1>2. ASSUME NEW s \in Incidents, Approval!Move(s) PROVE ApprovalInv'
  BY <1>2 DEF Approval!Move, Approval!Sync, Approval!Publish
<1>3. ASSUME NEW run \in runs, Approval!Verdict(run) PROVE ApprovalInv'
  <2>1. /\ runs' = runs \ {run}
        /\ UNCHANGED <<queue, current, pointer, expanded, approved, acted, polls, made>>
    BY <1>3 DEF Approval!Verdict
  <2>2. CASE UNCHANGED <<strip, registry>>
    BY <2>1, <2>2
  <2>3. ASSUME NEW kind \in Approval!Actions,
               strip' = Append(strip, Approval!BuildAsk(kind, run.ids)),
               Approval!Publish(queue, current)
        PROVE  ApprovalInv'
    <3> DEFINE ask == Approval!BuildAsk(kind, run.ids)
    <3>1. /\ run.ids \in Seq(Incidents) /\ run.ids # <<>>
          /\ Head(run.ids) \in ToSet(run.ids) /\ ToSet(run.ids) \subseteq Incidents
      BY DEF ToSet
    <3>2. ask \in Approval!Asks /\ ask.incident \in ask.origin
      <4>1. ask = [kind |-> kind, incident |-> Head(run.ids), origin |-> ToSet(run.ids)]
        BY <3>1, ApprovalsOps DEF Approval!BuildAsk, Approval!Target
      <4> HIDE DEF ask
      <4> QED BY <3>1, <4>1 DEF Approval!Asks
    <3>0. strip' = Append(strip, ask) BY <2>3
    <3> HIDE DEF ask
    <3>3. /\ strip' \in Seq(Approval!Asks) /\ Len(strip') = Len(strip) + 1 /\ Len(strip) \in Nat
          /\ \A n \in 1..Len(strip') : strip'[n] = IF n = Len(strip) + 1 THEN ask ELSE strip[n]
      BY <3>0, <3>2
    <3>4. pointer' \in 0..Len(strip') /\ pointer' < Len(strip')
      BY <2>1, <3>3
    <3>5. \A n \in 1..Len(strip') : strip'[n].incident \in strip'[n].origin
      BY <3>2, <3>3
    <3>6. registry' = [list |-> queue, selected |-> current]
      BY <2>3 DEF Approval!Publish
    <3> QED BY <2>1, <3>3, <3>4, <3>5, <3>6 DEF Approval!Asks
  <2> QED BY <1>3, <2>2, <2>3 DEF Approval!Verdict, Approval!Suggests
<1>4. ASSUME NEW ask \in approved, Approval!PostNote(ask) PROVE ApprovalInv'
  BY <1>4 DEF Approval!PostNote, Approval!Asks
<1>5. ASSUME NEW ask \in approved, Approval!Escalate(ask) PROVE ApprovalInv'
  BY <1>5, ApprovalsFinite DEF Approval!Escalate, Approval!Lookup, Approval!Asks, Approval!ApprovalsAssumption
<1>6. CASE Approval!Clear BY <1>6 DEF Approval!Clear
<1>7. CASE Approval!Open BY <1>7 DEF Approval!Open
<1>8. CASE Approval!Close BY <1>8 DEF Approval!Close
<1>9. CASE Approval!MoveUp BY <1>9 DEF Approval!MoveUp
<1>10. CASE Approval!MoveDown BY <1>10 DEF Approval!MoveDown
<1>11. CASE Approval!Accept BY <1>11, TakeOutKeeps DEF Approval!Accept
<1>12. CASE Approval!Dismiss BY <1>12, TakeOutKeeps DEF Approval!Dismiss
<1>13. CASE UNCHANGED Approval!vars BY <1>13 DEF Approval!vars
<1> QED BY <1>1, <1>2, <1>3, <1>4, <1>5, <1>6, <1>7, <1>8, <1>9, <1>10, <1>11,
           <1>12, <1>13 DEF Approval!Next

LEMMA ApprovalsStart == Approval!Init => ApprovalInv
<1> SUFFICES ASSUME Approval!Init PROVE ApprovalInv
  OBVIOUS
<1>1. strip = <<>> /\ runs = {} /\ approved = {} /\ acted = {}
  BY DEF Approval!Init
<1>2. strip \in Seq(Approval!Asks)
  BY <1>1
<1>3. registry = [list |-> queue, selected |-> current]
  BY DEF Approval!Init
<1>4. MaxRuns \in Nat /\ MaxPolls \in Nat
  BY ApprovalsFinite DEF Approval!ApprovalsAssumption
<1>5. pointer \in 0..Len(strip) /\ (strip # <<>> => pointer < Len(strip))
  BY <1>1 DEF Approval!Init
<1>6. registry \in [list : SUBSET Incidents, selected : Incidents \cup {None}]
  BY DEF Approval!Init
<1>7. queue \subseteq Incidents /\ current \in Incidents \cup {None}
  BY DEF Approval!Init
<1>8. expanded \in BOOLEAN /\ polls \in 0..MaxPolls /\ made \in 0..MaxRuns
  <2>1. expanded \in BOOLEAN BY Zenon DEF Approval!Init
  <2>2. polls \in 0..MaxPolls /\ made \in 0..MaxRuns BY <1>4 DEF Approval!Init
  <2> QED BY <2>1, <2>2
<1>9. Approval!TypeOK
  BY <1>1, <1>2, <1>5, <1>6, <1>7, <1>8, Zenon DEF Approval!TypeOK
<1>10. Len(strip) = 0
  BY <1>1
<1> QED BY <1>1, <1>9, <1>10 DEF ApprovalInv, AsksOnOrigin, Approval!ActsOnOrigin

(* An approved note or re-escalation goes to one of the incidents whose    *)
(* storm set off its investigation (approvals.go).                         *)
THEOREM OriginKept == Approval!Spec => []Approval!ActsOnOrigin
<1>1. ApprovalInv => Approval!ActsOnOrigin
  BY DEF ApprovalInv, AsksOnOrigin
<1> QED BY <1>1, ApprovalsStart, ApprovalsStep, PTL DEF Approval!Spec

-----------------------------------------------------------------------------
(* The watcher feed.                                                       *)
FeedOps ==
    /\ \A q, n, e : Feed!ReplaceAt(q, n, e) = ReplaceAt(q, n, e)
    /\ \A S : Feed!Cardinality(S) = Cardinality(S)
    /\ \A S : Feed!IsFiniteSet(S) = IsFiniteSet(S)

LEMMA FeedOpsHold == FeedOps
<1>1. \A q, n, e : Feed!ReplaceAt(q, n, e) = ReplaceAt(q, n, e)
  BY DEF ReplaceAt, Feed!ReplaceAt
<1>2. \A S : Feed!Cardinality(S) = Cardinality(S)
  BY DEF Cardinality, Feed!Cardinality
<1>3. \A S : Feed!IsFiniteSet(S) = IsFiniteSet(S)
  BY DEF IsFiniteSet, Feed!IsFiniteSet
<1> QED BY <1>1, <1>2, <1>3 DEF FeedOps

LEMMA FeedBounds ==
    /\ Capacity \in Nat \ {0} /\ Words \in Nat \ {0} /\ MaxQueries \in Nat \ {0}
    /\ IsFiniteSet(Incidents) /\ \A x \in Incidents : IsFiniteSet(ClustersOf[x])
<1>1. \A S : Feed!IsFiniteSet(S) = IsFiniteSet(S)
  BY FeedOpsHold DEF FeedOps
<1> QED BY <1>1, DeskAssumption DEF Feed!FeedAssumption

Writers == {"stream", "typed", "other"} \X {"watcher", "agent", "none"} \X Nat

JobTypes == {"tick", "start", "query", "session", "read", "synthesize", "investigate"}

(* The commands that may still start a typewriter. *)
Typing(S) == {w \in S : w.type \in {"query", "synthesize", "investigate"}}

JobOK(w, s) ==
    /\ w \in [type : JobTypes, kind : {"watcher", "agent", "none"}, n : 0..MaxQueries]
    /\ w.type = "tick" <=> w.kind = "none"
    /\ w.type = "session" => w.kind = "agent" /\ s.agent = "session"
    /\ w.type \in {"synthesize", "investigate"} => w.kind = "watcher"

(* At most one command more or less, and at most one that types.           *)
LEMMA TypingFacts ==
    ASSUME NEW S, IsFiniteSet(S)
    PROVE  /\ Cardinality(Typing(S)) \in Nat
           /\ \A T \in SUBSET S :
                IsFiniteSet(T) /\ Cardinality(Typing(T)) <= Cardinality(Typing(S))
           /\ \A w : /\ IsFiniteSet(S \cup {w})
                     /\ Cardinality(Typing(S \cup {w})) <= Cardinality(Typing(S)) + 1
                     /\ w.type \notin {"query", "synthesize", "investigate"} =>
                          Typing(S \cup {w}) = Typing(S)
           /\ \A w \in Typing(S) :
                Cardinality(Typing(S \ {w})) = Cardinality(Typing(S)) - 1
<1>1. /\ IsFiniteSet(Typing(S)) /\ Cardinality(Typing(S)) \in Nat
  BY FS_Subset, FS_CardinalityType DEF Typing
<1>2. ASSUME NEW T \in SUBSET S
      PROVE  IsFiniteSet(T) /\ Cardinality(Typing(T)) <= Cardinality(Typing(S))
  <2>1. Typing(T) \in SUBSET Typing(S) BY DEF Typing
  <2>2. IsFiniteSet(T) BY FS_Subset
  <2> QED BY <1>1, <2>1, <2>2, FS_Subset
<1>3. ASSUME NEW w
      PROVE  /\ IsFiniteSet(S \cup {w})
             /\ Cardinality(Typing(S \cup {w})) <= Cardinality(Typing(S)) + 1
             /\ w.type \notin {"query", "synthesize", "investigate"} =>
                  Typing(S \cup {w}) = Typing(S)
  <2>1. IsFiniteSet(S \cup {w}) BY FS_AddElement
  <2>2. Typing(S \cup {w}) = Typing(S) \/ Typing(S \cup {w}) = Typing(S) \cup {w}
    BY DEF Typing
  <2>3. Cardinality(Typing(S) \cup {w}) <= Cardinality(Typing(S)) + 1
    <3>1. Cardinality(Typing(S) \cup {w}) =
            IF w \in Typing(S) THEN Cardinality(Typing(S)) ELSE Cardinality(Typing(S)) + 1
      BY <1>1, FS_AddElement
    <3> QED BY <1>1, <3>1
  <2>4. w.type \notin {"query", "synthesize", "investigate"} =>
          Typing(S \cup {w}) = Typing(S)
    BY DEF Typing
  <2>5. Cardinality(Typing(S \cup {w})) <= Cardinality(Typing(S)) + 1
    <3>1. CASE Typing(S \cup {w}) = Typing(S)
      <4>1. Cardinality(Typing(S)) <= Cardinality(Typing(S)) + 1 BY <1>1
      <4> QED BY <3>1, <4>1, Zenon
    <3>2. CASE Typing(S \cup {w}) = Typing(S) \cup {w}
      BY <2>3, <3>2, Zenon
    <3> QED BY <2>2, <3>1, <3>2
  <2> QED BY <2>1, <2>4, <2>5
<1>4. ASSUME NEW w \in Typing(S)
      PROVE  Cardinality(Typing(S \ {w})) = Cardinality(Typing(S)) - 1
  <2>1. Typing(S \ {w}) = Typing(S) \ {w} BY DEF Typing
  <2>2. Cardinality(Typing(S) \ {w}) =
          IF w \in Typing(S) THEN Cardinality(Typing(S)) - 1 ELSE Cardinality(Typing(S))
    BY <1>1, FS_RemoveElement
  <2> QED BY <2>1, <2>2
<1> QED BY <1>1, <1>2, <1>3, <1>4

BufferOK(f) == f \in Seq(Writers) /\ Len(f) <= Capacity
LastIs(f, w) == Len(f) \in Nat \ {0} /\ f[Len(f)] = w

LEMMA NewestFacts ==
    ASSUME NEW f \in Seq(Writers)
    PROVE  /\ BufferOK(Feed!Newest(f))
           /\ Len(f) <= Capacity => Feed!Newest(f) = f
           /\ \A w : LastIs(f, w) => LastIs(Feed!Newest(f), w)
<1>1. Len(f) \in Nat /\ \A n \in 1..Len(f) : f[n] \in Writers
  BY LenProperties, ElementOfSeq
<1>2. CASE Len(f) <= Capacity
  BY <1>1, <1>2, FeedBounds DEF Feed!Newest, BufferOK
<1>3. CASE Len(f) > Capacity
  <2> DEFINE m == Len(f) - Capacity + 1
             g == SubSeq(f, m, Len(f))
  <2>1. /\ m \in Int /\ Len(f) \in Int /\ m \in 1..Len(f)
        /\ \A n \in m..Len(f) : f[n] \in Writers
    BY <1>1, <1>3, FeedBounds
  <2>2. /\ g \in Seq(Writers)
        /\ Len(g) = IF m <= Len(f) THEN Len(f) - m + 1 ELSE 0
        /\ \A n \in 1..(Len(f) - m + 1) : g[n] = f[m + n - 1]
    BY <2>1, SubSeqProperties
  <2>3. Len(g) = Capacity /\ g[Len(g)] = f[Len(f)]
    BY <1>1, <1>3, <2>1, <2>2, FeedBounds
  <2>4. Feed!Newest(f) = g BY <1>3, FeedBounds DEF Feed!Newest
  <2> HIDE DEF g, m
  <2> QED BY <1>1, <1>3, <2>2, <2>3, <2>4, FeedBounds DEF BufferOK, LastIs
<1> QED BY <1>1, <1>2, <1>3, FeedBounds

LEMMA Appended ==
    ASSUME NEW f, BufferOK(f), NEW w \in Writers
    PROVE  BufferOK(Feed!Append1(f, w)) /\ LastIs(Feed!Append1(f, w), w)
<1>1. Append(f, w) \in Seq(Writers) /\ LastIs(Append(f, w), w)
  BY DEF BufferOK, LastIs
<1> QED BY <1>1, NewestFacts DEF Feed!Append1

LEMMA Rewritten ==
    ASSUME NEW f, BufferOK(f), NEW w \in Writers
    PROVE  BufferOK(Feed!SetLast(f, w)) /\ LastIs(Feed!SetLast(f, w), w)
<1>1. CASE f = <<>>
  BY <1>1, FeedBounds DEF Feed!SetLast, BufferOK, LastIs
<1>2. CASE f # <<>>
  <2>1. Feed!SetLast(f, w) = [f EXCEPT ![Len(f)] = w]
    BY <1>2, FeedOpsHold DEF FeedOps, Feed!SetLast, ReplaceAt
  <2>2. Len(f) \in Nat \ {0} BY <1>2 DEF BufferOK
  <2> QED BY <2>1, <2>2, ExceptSeq DEF BufferOK, LastIs
<1> QED BY <1>1, <1>2

LEMMA Others ==
    ASSUME NEW f, BufferOK(f), NEW n \in Nat
    PROVE  LET g == Feed!Newest(f \o [m \in 1..n |-> Feed!Other]) IN
           /\ BufferOK(g)
           /\ g = f \/ LastIs(g, Feed!Other)
<1> DEFINE o == [m \in 1..n |-> Feed!Other]
<1>1. o \in Seq(Writers) /\ Len(o) = n /\ \A m \in 1..n : o[m] = Feed!Other
  <2>1. Feed!Other \in Writers BY DEF Feed!Other, Writers
  <2> QED BY <2>1
<1> HIDE DEF o
<1>2. /\ f \o o \in Seq(Writers) /\ Len(f \o o) = Len(f) + n /\ Len(f) \in Nat
      /\ \A m \in 1..(Len(f) + n) : (f \o o)[m] = IF m <= Len(f) THEN f[m] ELSE o[m - Len(f)]
  BY <1>1, ConcatProperties, LenProperties DEF BufferOK
<1>3. CASE n = 0
  <2>1. f \o o = f BY <1>1, <1>3 DEF BufferOK
  <2> QED BY <2>1, NewestFacts DEF BufferOK, o
<1>4. CASE n > 0
  <2>1. LastIs(f \o o, Feed!Other) BY <1>1, <1>2, <1>4 DEF LastIs
  <2> QED BY <1>2, <2>1, NewestFacts DEF o
<1> QED BY <1>3, <1>4

-----------------------------------------------------------------------------
FlagsOK ==
    /\ setup \in [streams : BOOLEAN, tools : BOOLEAN,
                  agent : {"session", "stream", "blocking"}]
    /\ streaming \in [Feed!Kinds -> 0..MaxQueries]
    /\ {analyzing, querying, down} \subseteq BOOLEAN
    /\ polled \subseteq Incidents /\ queries \in 0..MaxQueries

TypewriterOK ==
    /\ gen \in 0..MaxQueries
    /\ typewriter = Feed!Idle \/
         (typewriter \in [gen : {gen}, left : 1..Words])

CountOK == gen + Cardinality(Typing(commands)) <= queries

JobsOK == IsFiniteSet(commands) /\ \A w \in commands : JobOK(w, setup)

FeedInv ==
    /\ FlagsOK /\ BufferOK(feed) /\ TypewriterOK /\ JobsOK /\ CountOK
    /\ Feed!AnalyzingIsQuery

LEMMA FeedTyped == FeedInv => Feed!TypeOK
<1> SUFFICES ASSUME FeedInv PROVE Feed!TypeOK
  OBVIOUS
<1>1. typewriter \in [gen : 0..MaxQueries, left : 0..Words]
  BY FeedBounds DEF FeedInv, TypewriterOK, Feed!Idle
<1> QED BY <1>1 DEF FeedInv, FlagsOK, BufferOK, TypewriterOK, Feed!TypeOK

LEMMA FeedStarts == Feed!Init => FeedInv
<1> SUFFICES ASSUME Feed!Init PROVE FeedInv
  OBVIOUS
<1>1. FlagsOK
  <2>1. {analyzing, querying, down} = {FALSE} BY DEF Feed!Init
  <2>2. 0 \in 0..MaxQueries BY FeedBounds
  <2> QED BY <2>1, <2>2 DEF Feed!Init, FlagsOK
<1>2. BufferOK(feed) BY FeedBounds DEF Feed!Init, BufferOK
<1>3. TypewriterOK BY FeedBounds DEF Feed!Init, TypewriterOK
<1>4. JobsOK BY FS_EmptySet DEF Feed!Init, JobsOK
<1>5. CountOK
  <2>1. Typing(commands) = {} BY DEF Feed!Init, Typing
  <2>2. Cardinality(Typing(commands)) = 0 BY <2>1, FS_EmptySet
  <2> QED BY <2>2 DEF Feed!Init, CountOK
<1>6. Feed!AnalyzingIsQuery BY DEF Feed!Init, Feed!AnalyzingIsQuery
<1> QED BY <1>1, <1>2, <1>3, <1>4, <1>5, <1>6 DEF FeedInv

(* A command that ends and starts none. *)
LEMMA OneLess ==
    ASSUME FeedInv, NEW w, commands' = commands \ {w}, UNCHANGED <<setup, queries, gen>>
    PROVE  JobsOK' /\ CountOK'
<1>1. JobsOK'
  BY TypingFacts DEF FeedInv, JobsOK, JobOK
<1>2. /\ Cardinality(Typing(commands)) \in Nat
      /\ Cardinality(Typing(commands')) \in Nat
      /\ Cardinality(Typing(commands')) <= Cardinality(Typing(commands))
  BY <1>1, TypingFacts DEF FeedInv, JobsOK
<1> QED BY <1>1, <1>2 DEF FeedInv, CountOK, FlagsOK, TypewriterOK

(* A query that is asked. *)
LEMMA OneMore ==
    ASSUME FeedInv, NEW w, JobOK(w, setup), queries < MaxQueries,
           commands' = commands \cup {w}, queries' = queries + 1, UNCHANGED <<setup, gen>>
    PROVE  JobsOK' /\ CountOK'
<1>1. JobsOK'
  BY TypingFacts DEF FeedInv, JobsOK, JobOK
<1>2. /\ Cardinality(Typing(commands)) \in Nat
      /\ Cardinality(Typing(commands')) \in Nat
      /\ Cardinality(Typing(commands')) <= Cardinality(Typing(commands)) + 1
  BY <1>1, TypingFacts DEF FeedInv, JobsOK
<1> QED BY <1>1, <1>2 DEF FeedInv, CountOK, FlagsOK, TypewriterOK

(* An answer, typed out or not. *)
LEMMA AnswerTyped ==
    ASSUME FeedInv, NEW w \in Typing(commands), UNCHANGED <<setup, queries>>,
           Feed!StartTypewriter(commands \ {w}) \/ Feed!NoTypewriter(commands \ {w})
    PROVE  JobsOK' /\ CountOK' /\ TypewriterOK'
<1> DEFINE rest == commands \ {w}
<1>1. /\ IsFiniteSet(commands) /\ IsFiniteSet(rest)
      /\ Cardinality(Typing(commands)) \in Nat
      /\ Cardinality(Typing(rest)) = Cardinality(Typing(commands)) - 1
      /\ Cardinality(Typing(rest)) \in Nat
  BY TypingFacts DEF FeedInv, JobsOK
<1>2. gen \in Nat /\ queries \in 0..MaxQueries /\ gen + Cardinality(Typing(commands)) <= queries
  BY DEF FeedInv, CountOK, FlagsOK, TypewriterOK
<1>3. \A v \in rest : JobOK(v, setup')
  BY DEF FeedInv, JobsOK, JobOK
<1>4. CASE Feed!NoTypewriter(rest)
  <2>1. commands' = rest /\ UNCHANGED <<typewriter, gen>>
    BY <1>4 DEF Feed!NoTypewriter
  <2>2. TypewriterOK' BY <2>1 DEF FeedInv, TypewriterOK
  <2>3. CountOK'
    <3>1. Cardinality(Typing(commands')) = Cardinality(Typing(commands)) - 1 BY <1>1, <2>1
    <3> QED BY <1>1, <1>2, <2>1, <3>1 DEF CountOK
  <2> QED BY <1>1, <1>3, <2>1, <2>2, <2>3 DEF JobsOK
<1>5. CASE Feed!StartTypewriter(rest) /\ ~Feed!NoTypewriter(rest)
  <2> DEFINE tick == Feed!Job("tick", "none", gen')
  <2>1. /\ gen' = gen + 1 /\ commands' = rest \cup {tick}
        /\ typewriter' \in [gen : {gen'}, left : 1..Words]
    BY <1>5 DEF Feed!StartTypewriter, Feed!NoTypewriter
  <2>2. gen' \in 0..MaxQueries
    BY <1>1, <1>2, <2>1, FeedBounds
  <2>3. JobOK(tick, setup')
    BY <2>2 DEF JobOK, JobTypes, Feed!Job
  <2>4. /\ IsFiniteSet(commands')
        /\ Typing(commands') = Typing(rest)
    <3>1. tick.type \notin {"query", "synthesize", "investigate"} BY DEF Feed!Job
    <3> HIDE DEF tick, rest
    <3> QED BY <1>1, <2>1, <3>1, TypingFacts
  <2>5. CountOK'
    <3>1. Cardinality(Typing(commands')) = Cardinality(Typing(commands)) - 1 BY <1>1, <2>4
    <3> QED BY <1>1, <1>2, <2>1, <3>1 DEF CountOK
  <2>6. JobsOK' BY <1>3, <2>1, <2>3, <2>4 DEF JobsOK
  <2> QED BY <2>1, <2>2, <2>5, <2>6 DEF TypewriterOK
<1> QED BY <1>4, <1>5

(* What a job is, and what is finite about a list of observations.         *)
LEMMA Listed ==
    ASSUME FeedInv, NEW w \in commands
    PROVE  /\ JobOK(w, setup)
           /\ w.type \notin {"tick"} => w.kind \in Feed!Kinds
           /\ w.n \in Nat
  BY DEF FeedInv, JobsOK, JobOK, Feed!Kinds

LEMMA ObservationsFinite ==
    ASSUME NEW l \in SUBSET Incidents
    PROVE  IsFiniteSet(Feed!DetectAll(l))
<1> DEFINE services == [x \in Incidents |-> {ServiceOf[x]}]
<1>1. IsFiniteSet(l) BY FeedBounds, FS_Subset
<1>2. ASSUME NEW about, NEW of, NEW n, \A x \in l : IsFiniteSet(of[x])
      PROVE  IsFiniteSet(Feed!Storms(about, of, n, l))
  <2> DEFINE S == UNION {of[x] : x \in l}
             Count(y) == Feed!Cardinality({x \in l : y \in of[x]})
             big == {y \in S : Count(y) >= n}
             f == [y \in big |-> <<about, y, Count(y)>>]
  <2>1. IsFiniteSet({of[x] : x \in l})
    <3> DEFINE g == [x \in l |-> of[x]]
    <3>1. g \in Surjection(l, {of[x] : x \in l}) BY DEF Surjection
    <3> QED BY <1>1, <3>1, FS_Surjection
  <2>2. IsFiniteSet(S) BY <1>2, <2>1, FS_UNION
  <2>3. IsFiniteSet(big) BY <2>2, FS_Subset
  <2>4. Feed!Storms(about, of, n, l) = {<<about, y, Count(y)>> : y \in big}
    BY DEF Feed!Storms
  <2>5. f \in Surjection(big, {<<about, y, Count(y)>> : y \in big}) BY DEF Surjection
  <2> QED BY <2>3, <2>4, <2>5, FS_Surjection
<1>3. IsFiniteSet(Feed!DetectServiceStorm(l))
  <2>1. \A x \in l : IsFiniteSet(services[x]) BY FS_Singleton
  <2> QED BY <1>2, <2>1 DEF Feed!DetectServiceStorm
<1>4. IsFiniteSet(Feed!DetectClusterStorm(l))
  <2>1. \A x \in l : IsFiniteSet(ClustersOf[x]) BY FeedBounds
  <2> QED BY <1>2, <2>1 DEF Feed!DetectClusterStorm
<1>5. IsFiniteSet(Feed!DetectUrgencyShift(l))
  BY FS_EmptySet, FS_Singleton DEF Feed!DetectUrgencyShift
<1> QED BY <1>3, <1>4, <1>5, FS_Union DEF Feed!DetectAll

(* What a step may do to the last entry of the buffer. *)
Speaks(w) ==
    /\ w[1] = "stream" /\ (w[2] = "watcher" \/ setup.agent = "stream") =>
         streaming'[w[2]] = w[3]
    /\ w[1] = "typed" => w[3] = gen

StepOK ==
    /\ FeedInv'
    /\ feed' = feed \/ \E w : LastIs(feed', w) /\ Speaks(w)

LEMMA TickStep ==
    ASSUME FeedInv, NEW w \in commands, Feed!Tick(w)
    PROVE  StepOK
<1> USE DEF FeedInv
<1>0. /\ w \in commands /\ w.type = "tick" /\ w.kind = "none"
      /\ UNCHANGED <<setup, streaming, gen, analyzing, querying, down, seen, polled, queries>>
      /\ commands' = commands \/ commands' = commands \ {w}
  BY Listed DEF Feed!Tick, JobOK
<1>1. FlagsOK' BY <1>0 DEF FlagsOK
<1>2. /\ TypewriterOK'
      /\ feed' = feed \/ feed' = Feed!SetLast(feed, Feed!Typed(gen))
  <2>1. CASE ~Feed!Own(w) BY <1>0, <2>1 DEF Feed!Tick, TypewriterOK
  <2>2. CASE Feed!Own(w)
    <3>1. typewriter \in [gen : {gen}, left : 1..Words] /\ typewriter.gen = gen
      BY <2>2 DEF Feed!Own, TypewriterOK
    <3>2. /\ feed' = Feed!SetLast(feed, Feed!Typed(gen))
          /\ typewriter' = IF typewriter.left = 1 THEN Feed!Idle
                           ELSE [typewriter EXCEPT !.left = @ - 1]
      BY <2>2, <3>1 DEF Feed!Tick
    <3> QED BY <1>0, <3>1, <3>2, FeedBounds DEF TypewriterOK
  <2> QED BY <2>1, <2>2
<1>3. JobsOK' /\ CountOK'
  <2>1. CASE commands' = commands BY <1>0, <2>1 DEF JobsOK, CountOK, JobOK
  <2>2. CASE commands' = commands \ {w} BY <1>0, <2>2, OneLess
  <2> QED BY <1>0, <2>1, <2>2
<1>4. Feed!AnalyzingIsQuery' BY <1>0 DEF Feed!AnalyzingIsQuery, Feed!IsCurrent
<1>5. BufferOK(feed') /\ (feed' = feed \/ LastIs(feed', Feed!Typed(gen)))
  <2>1. Feed!Typed(gen) \in Writers BY DEF Feed!Typed, Writers, TypewriterOK
  <2> QED BY <1>2, <2>1, Rewritten
<1>6. Speaks(Feed!Typed(gen)) BY DEF Speaks, Feed!Typed
<1> QED BY <1>1, <1>2, <1>3, <1>4, <1>5, <1>6 DEF StepOK, BufferOK

LEMMA PromptStep ==
    ASSUME FeedInv, Feed!PromptWatcher \/ Feed!PromptAgent
    PROVE  StepOK
<1> USE DEF FeedInv
<1>1. PICK w : /\ JobOK(w, setup) /\ commands' = commands \cup {w}
               /\ Feed!PromptWatcher => w.kind = "watcher" /\ w.type # "read"
  <2>1. queries < MaxQueries /\ queries + 1 \in 0..MaxQueries
    BY FeedBounds DEF Feed!PromptWatcher, Feed!PromptAgent, FlagsOK
  <2>2. CASE Feed!PromptWatcher
    <3> DEFINE w == Feed!Job(IF setup.streams THEN "start" ELSE "query", "watcher", queries')
    <3>1. commands' = commands \cup {w} /\ queries' = queries + 1
      BY <2>2 DEF Feed!PromptWatcher
    <3>2. JobOK(w, setup) /\ w.kind = "watcher" /\ w.type # "read"
      BY <2>1, <3>1 DEF JobOK, JobTypes, Feed!Job
    <3> QED BY <3>1, <3>2
  <2>3. CASE Feed!PromptAgent /\ ~Feed!PromptWatcher
    <3> DEFINE t == CASE setup.agent = "stream" -> "start"
                      [] setup.agent = "blocking" -> "query" [] OTHER -> "session"
               w == Feed!Job(t, "agent", queries')
    <3>1. commands' = commands \cup {w} /\ queries' = queries + 1
      BY <2>3 DEF Feed!PromptAgent
    <3>2. /\ t \in {"start", "query", "session"}
          /\ t = "session" => setup.agent = "session"
      BY DEF FlagsOK
    <3> HIDE DEF t
    <3>3. JobOK(w, setup)
      BY <2>1, <3>1, <3>2 DEF JobOK, JobTypes, Feed!Job
    <3> QED BY <2>3, <3>1, <3>3
  <2> QED BY <2>2, <2>3
<1>2. /\ queries < MaxQueries /\ queries' = queries + 1 /\ querying' \in BOOLEAN
      /\ UNCHANGED <<setup, feed, streaming, typewriter, gen, down, seen, polled>>
      /\ analyzing' \in BOOLEAN /\ (analyzing' => analyzing \/ Feed!PromptWatcher)
  <2>1. {analyzing, querying} \subseteq BOOLEAN BY DEF FlagsOK
  <2>2. CASE Feed!PromptWatcher
    <3>1. /\ queries < MaxQueries /\ queries' = queries + 1 /\ UNCHANGED querying
          /\ UNCHANGED <<setup, feed, streaming, typewriter, gen, down, seen, polled>>
          /\ analyzing' = TRUE
      BY <2>2 DEF Feed!PromptWatcher
    <3> QED BY <2>1, <2>2, <3>1, Zenon
  <2>3. CASE Feed!PromptAgent
    <3>1. /\ queries < MaxQueries /\ queries' = queries + 1 /\ querying' = TRUE
          /\ UNCHANGED <<setup, feed, streaming, typewriter, gen, down, seen, polled>>
          /\ UNCHANGED analyzing
      BY <2>3 DEF Feed!PromptAgent
    <3> QED BY <2>1, <3>1, Zenon
  <2> QED BY <2>2, <2>3
<1>3. JobsOK' /\ CountOK' BY <1>1, <1>2, OneMore
<1>4. FlagsOK' BY <1>2, FeedBounds DEF FlagsOK
<1>5. TypewriterOK' BY <1>2 DEF TypewriterOK
<1>6. Feed!AnalyzingIsQuery' BY <1>1, <1>2 DEF Feed!AnalyzingIsQuery, Feed!IsCurrent
<1> QED BY <1>2, <1>3, <1>4, <1>5, <1>6 DEF StepOK

LEMMA StartedStep ==
    ASSUME FeedInv, NEW w \in commands, Feed!StreamStarted(w)
    PROVE  StepOK
<1> USE DEF FeedInv
<1> DEFINE read == Feed!Job("read", w.kind, w.n)
<1>0. /\ JobOK(w, setup) /\ w.kind \in Feed!Kinds /\ w.type = "start" /\ w.n \in 0..MaxQueries
      /\ commands' = (commands \ {w}) \cup {read}
      /\ streaming' = [streaming EXCEPT ![w.kind] = w.n]
      /\ feed' = Feed!Append1(feed, Feed!Stream(w.kind, w.n))
      /\ UNCHANGED <<setup, typewriter, gen, analyzing, querying, down, seen, polled, queries>>
  BY Listed DEF Feed!StreamStarted, Feed!Follows, JobOK
<1>1. FlagsOK' /\ streaming'[w.kind] = w.n BY <1>0 DEF FlagsOK
<1>2. TypewriterOK' BY <1>0 DEF TypewriterOK
<1>3. JobOK(read, setup) /\ read.kind = w.kind /\ read.n = w.n /\ read.type = "read"
  BY <1>0 DEF JobOK, JobTypes, Feed!Job, Feed!Kinds
<1> HIDE DEF read
<1>4. JobsOK' BY <1>0, <1>3, TypingFacts DEF JobsOK
<1>5. CountOK'
  <2>1. /\ IsFiniteSet(commands \ {w})
        /\ Cardinality(Typing(commands \ {w})) <= Cardinality(Typing(commands))
        /\ Cardinality(Typing(commands)) \in Nat
    BY TypingFacts DEF JobsOK
  <2>2. Typing(commands') = Typing(commands \ {w}) /\ Cardinality(Typing(commands')) \in Nat
    BY <1>0, <1>3, <2>1, TypingFacts
  <2> QED BY <1>0, <2>1, <2>2 DEF CountOK, FlagsOK, TypewriterOK
<1>6. Feed!AnalyzingIsQuery'
  BY <1>0, <1>1, <1>3 DEF Feed!AnalyzingIsQuery, Feed!IsCurrent, Feed!Kinds, FlagsOK
<1>7. BufferOK(feed') /\ LastIs(feed', Feed!Stream(w.kind, w.n))
  <2>1. Feed!Stream(w.kind, w.n) \in Writers BY <1>0 DEF Feed!Stream, Writers, Feed!Kinds
  <2> QED BY <1>0, <2>1, Appended
<1>8. Speaks(Feed!Stream(w.kind, w.n)) BY <1>1 DEF Speaks, Feed!Stream
<1> QED BY <1>1, <1>2, <1>4, <1>5, <1>6, <1>7, <1>8 DEF StepOK

(* A step that ends a job, or none, and writes at most one entry. *)
LEMMA Ended ==
    ASSUME FeedInv, NEW w \in commands,
           commands' = commands \/ commands' = commands \ {w},
           UNCHANGED <<setup, streaming, typewriter, gen, polled, queries>>,
           {analyzing', querying', down'} \subseteq BOOLEAN,
           analyzing' => /\ analyzing
                         /\ commands' = commands \/ w.kind # "watcher"
                              \/ (w.type = "read" /\ ~Feed!IsCurrent(w))
    PROVE  FlagsOK' /\ TypewriterOK' /\ JobsOK' /\ CountOK' /\ Feed!AnalyzingIsQuery'
<1> USE DEF FeedInv
<1>1. FlagsOK' BY DEF FlagsOK
<1>2. TypewriterOK' BY DEF TypewriterOK
<1>3. JobsOK' /\ CountOK'
  <2>1. CASE commands' = commands BY <2>1 DEF JobsOK, CountOK, JobOK
  <2>2. CASE commands' = commands \ {w} BY <2>2, OneLess
  <2> QED BY <2>1, <2>2
<1>4. Feed!AnalyzingIsQuery'
  BY DEF Feed!AnalyzingIsQuery, Feed!IsCurrent
<1> QED BY <1>1, <1>2, <1>3, <1>4

LEMMA StreamStep ==
    ASSUME FeedInv, NEW w \in commands,
           Feed!StreamChunk(w) \/ Feed!StreamDone(w) \/ Feed!AgentStartFails(w)
    PROVE  StepOK
<1> USE DEF FeedInv
<1>0. /\ JobOK(w, setup) /\ w.kind \in {"watcher", "agent"} /\ w.n \in Nat
      /\ {analyzing, querying, down} \subseteq BOOLEAN
  BY Listed DEF Feed!StreamChunk, Feed!StreamDone, Feed!AgentStartFails, Feed!Kinds, FlagsOK
<1>1. /\ UNCHANGED <<setup, streaming, typewriter, gen, polled, queries>>
      /\ commands' = commands \/ commands' = commands \ {w}
  BY DEF Feed!StreamChunk, Feed!StreamDone, Feed!AgentStartFails
<1>2. {analyzing', querying', down'} \subseteq BOOLEAN
  <2>1. CASE Feed!StreamChunk(w)
    <3>1. UNCHANGED <<analyzing, querying>> /\ (down' = FALSE \/ down' = down)
      BY <2>1 DEF Feed!StreamChunk
    <3> QED BY <1>0, <3>1
  <2>2. CASE Feed!StreamDone(w)
    <3>1. /\ Feed!Ends(w.kind) \/ UNCHANGED <<analyzing, querying>>
          /\ down' \in BOOLEAN \/ down' = down
      BY <2>2 DEF Feed!StreamDone
    <3> QED BY <1>0, <3>1 DEF Feed!Ends
  <2>3. CASE Feed!AgentStartFails(w)
    <3>1. /\ Feed!Ends("agent") \/ UNCHANGED <<analyzing, querying>>
          /\ down' = down
      BY <2>3 DEF Feed!AgentStartFails
    <3> QED BY <1>0, <3>1 DEF Feed!Ends
  <2> QED BY <2>1, <2>2, <2>3
<1>3. analyzing' => /\ analyzing
                    /\ commands' = commands \/ w.kind # "watcher"
                         \/ (w.type = "read" /\ ~Feed!IsCurrent(w))
  <2>1. CASE Feed!StreamChunk(w) BY <2>1 DEF Feed!StreamChunk
  <2>2. CASE Feed!StreamDone(w) BY <2>2 DEF Feed!StreamDone, Feed!Ends
  <2>3. CASE Feed!AgentStartFails(w) BY <2>3 DEF Feed!AgentStartFails, Feed!Ends
  <2> QED BY <2>1, <2>2, <2>3
<1>4. FlagsOK' /\ TypewriterOK' /\ JobsOK' /\ CountOK' /\ Feed!AnalyzingIsQuery'
  BY <1>1, <1>2, <1>3, Ended
<1>5. CASE feed' = feed BY <1>4, <1>5 DEF StepOK, BufferOK
<1>6. CASE feed' # feed
  <2> DEFINE e == Feed!Stream(w.kind, w.n)
  <2>1. /\ Feed!IsCurrent(w) /\ feed' = Feed!SetLast(feed, e) /\ UNCHANGED streaming
    BY <1>6 DEF Feed!StreamChunk, Feed!StreamDone, Feed!AgentStartFails
  <2>2. e \in Writers BY <1>0 DEF Feed!Stream, Writers
  <2>3. Speaks(e) BY <1>0, <2>1 DEF Speaks, Feed!Stream, Feed!IsCurrent
  <2> HIDE DEF e
  <2>4. BufferOK(feed') /\ LastIs(feed', e) BY <2>1, <2>2, Rewritten
  <2> QED BY <1>4, <2>3, <2>4 DEF StepOK, BufferOK
<1> QED BY <1>5, <1>6

LEMMA SessionStep ==
    ASSUME FeedInv, NEW w \in commands, Feed!SessionEvent(w)
    PROVE  StepOK
<1> USE DEF FeedInv
<1>0. /\ JobOK(w, setup) /\ w.kind = "agent" /\ w.n \in Nat
      /\ setup.agent = "session"
      /\ {analyzing, querying, down} \subseteq BOOLEAN
  BY Listed DEF Feed!SessionEvent, JobOK, FlagsOK
<1>1. /\ UNCHANGED <<setup, streaming, typewriter, gen, polled, queries, down>>
      /\ commands' = commands \/ commands' = commands \ {w}
      /\ Feed!Ends("agent") \/ UNCHANGED <<analyzing, querying>>
  BY DEF Feed!SessionEvent
<1>2. {analyzing', querying', down'} \subseteq BOOLEAN /\ (analyzing' => analyzing)
  <2>1. CASE Feed!Ends("agent")
    <3>1. analyzing' \in BOOLEAN /\ querying' \in BOOLEAN BY <2>1 DEF Feed!Ends
    <3>2. down' \in BOOLEAN BY <1>0, <1>1
    <3>3. analyzing' => analyzing BY <2>1 DEF Feed!Ends
    <3> QED BY <3>1, <3>2, <3>3
  <2>2. CASE UNCHANGED <<analyzing, querying>> BY <1>0, <1>1, <2>2
  <2> QED BY <1>1, <2>1, <2>2
<1>3. FlagsOK' /\ TypewriterOK' /\ JobsOK' /\ CountOK' /\ Feed!AnalyzingIsQuery'
  BY <1>0, <1>1, <1>2, Ended
<1>4. PICK e \in {Feed!Other, Feed!Stream("agent", w.n)} :
        feed' \in {feed, Feed!Append1(feed, e), Feed!SetLast(feed, e)}
  BY Zenon DEF Feed!SessionEvent
<1>5. e \in Writers BY <1>0 DEF Feed!Stream, Feed!Other, Writers
<1>6. Speaks(e) BY <1>0 DEF Speaks, Feed!Stream, Feed!Other
<1>7. BufferOK(feed') /\ (feed' = feed \/ LastIs(feed', e))
  BY <1>4, <1>5, Appended, Rewritten
<1> QED BY <1>3, <1>6, <1>7 DEF StepOK, BufferOK

(* The three kinds of answers that may be typed out. *)
LEMMA AnswerStep ==
    ASSUME FeedInv, NEW w \in commands,
           Feed!Answered(w) \/ Feed!Synthesized(w) \/ Feed!Investigated(w)
    PROVE  StepOK
<1> USE DEF FeedInv
<1>0. /\ JobOK(w, setup) /\ w.kind \in {"watcher", "agent"} /\ w \in Typing(commands)
      /\ {analyzing, querying, down} \subseteq BOOLEAN
  BY Listed DEF Feed!Answered, Feed!Synthesized, Feed!Investigated, Typing, Feed!Kinds, FlagsOK
<1>1. /\ UNCHANGED <<setup, streaming, polled, queries>>
      /\ Feed!StartTypewriter(commands \ {w}) \/ Feed!NoTypewriter(commands \ {w})
      /\ feed' = feed \/ feed' = Feed!Append1(feed, Feed!Other)
      /\ Feed!Ends(w.kind)
      /\ down' \in {TRUE, FALSE, down}
  <2>1. CASE Feed!Answered(w)
    <3>1. PICK r \in Feed!Results :
           /\ down' = (IF w.kind = "watcher" THEN r = "error" ELSE down)
           /\ IF r = "error" THEN Feed!NoTypewriter(commands \ {w}) /\ UNCHANGED feed
              ELSE feed' = Feed!Append1(feed, Feed!Other) /\ Feed!StartTypewriter(commands \ {w})
      BY <2>1 DEF Feed!Answered
    <3>2. down' \in {TRUE, FALSE, down} BY <3>1
    <3>3. /\ Feed!StartTypewriter(commands \ {w}) \/ Feed!NoTypewriter(commands \ {w})
          /\ feed' = feed \/ feed' = Feed!Append1(feed, Feed!Other)
      BY <3>1
    <3> QED BY <2>1, <3>2, <3>3 DEF Feed!Answered
  <2>2. CASE Feed!Synthesized(w)
    <3>1. PICK r \in Feed!Synthesis :
           /\ down' = (r = "error")
           /\ IF r = "error" THEN Feed!NoTypewriter(commands \ {w})
              ELSE Feed!StartTypewriter(commands \ {w})
      BY <2>2 DEF Feed!Synthesized
    <3>2. down' \in {TRUE, FALSE, down} BY <3>1
    <3>3. Feed!StartTypewriter(commands \ {w}) \/ Feed!NoTypewriter(commands \ {w})
      BY <3>1
    <3>4. w.kind = "watcher" BY <1>0, <2>2 DEF Feed!Synthesized, JobOK
    <3> QED BY <2>2, <3>2, <3>3, <3>4 DEF Feed!Synthesized
  <2>3. CASE Feed!Investigated(w)
    <3>1. w.kind = "watcher" BY <1>0, <2>3 DEF Feed!Investigated, JobOK
    <3> QED BY <2>3, <3>1 DEF Feed!Investigated
  <2> QED BY <2>1, <2>2, <2>3
<1>2. JobsOK' /\ CountOK' /\ TypewriterOK' BY <1>0, <1>1, AnswerTyped
<1>3. FlagsOK'
  <2>1. {analyzing', querying', down'} \subseteq BOOLEAN BY <1>0, <1>1 DEF Feed!Ends
  <2> QED BY <1>1, <2>1 DEF FlagsOK
<1>4. Feed!AnalyzingIsQuery'
  <2>1. commands \ {w} \subseteq commands'
    BY <1>1 DEF Feed!StartTypewriter, Feed!NoTypewriter
  <2>2. analyzing' => analyzing /\ w.kind # "watcher" BY <1>1 DEF Feed!Ends
  <2> QED BY <1>1, <2>1, <2>2 DEF Feed!AnalyzingIsQuery, Feed!IsCurrent
<1>5. BufferOK(feed') /\ (feed' = feed \/ LastIs(feed', Feed!Other))
  <2>1. Feed!Other \in Writers BY DEF Feed!Other, Writers
  <2> QED BY <1>1, <2>1, Appended
<1>6. Speaks(Feed!Other) BY DEF Speaks, Feed!Other
<1> QED BY <1>2, <1>3, <1>4, <1>5, <1>6 DEF StepOK, BufferOK

LEMMA PollStep ==
    ASSUME FeedInv, NEW l \in SUBSET Incidents, Feed!Poll(l)
    PROVE  StepOK
<1> USE DEF FeedInv
<1> DEFINE all == IF Feed!Cardinality(l) < 2 \/ l = polled THEN {} ELSE Feed!DetectAll(l)
           new == all \ seen
           asks == new # {} /\ ~down /\ ~analyzing
           count == Feed!Cardinality(new)
           shown == IF asks THEN count - 1 ELSE count
           job == Feed!Job(IF setup.tools THEN "investigate" ELSE "synthesize",
                           "watcher", queries')
<1>0. /\ queries < MaxQueries /\ polled' = l
      /\ UNCHANGED <<setup, streaming, typewriter, gen, querying, down>>
  BY DEF Feed!Poll
<1>1. /\ analyzing' = (analyzing \/ asks)
      /\ queries' = IF asks THEN queries + 1 ELSE queries
      /\ commands' = IF asks THEN commands \cup {job} ELSE commands
      /\ feed' = Feed!Newest(feed \o [n \in 1..shown |-> Feed!Other])
  BY DEF Feed!Poll, Feed!RunDetectors
<1>2. shown \in Nat
  <2>1. IsFiniteSet(all) BY ObservationsFinite, FS_EmptySet
  <2> HIDE DEF all
  <2>2. IsFiniteSet(new) BY <2>1, FS_Subset
  <2>3. count = Cardinality(new) BY FeedOpsHold DEF FeedOps
  <2> HIDE DEF new
  <2>4. count \in Nat /\ (new # {} => count # 0)
    BY <2>2, <2>3, FS_CardinalityType, FS_EmptySet
  <2> HIDE DEF count
  <2> QED BY <2>4
<1> HIDE DEF asks, shown
<1>3. asks \in BOOLEAN BY DEF asks
<1>4. {analyzing, querying, down} \subseteq BOOLEAN /\ queries \in 0..MaxQueries
  BY DEF FlagsOK
<1>5. FlagsOK'
  <2>1. analyzing' \in BOOLEAN BY <1>1
  <2>2. {analyzing', querying', down'} \subseteq BOOLEAN BY <1>0, <1>4, <2>1
  <2>3. queries' \in 0..MaxQueries BY <1>0, <1>1, <1>4, FeedBounds
  <2> QED BY <1>0, <2>2, <2>3 DEF FlagsOK
<1>6. TypewriterOK' BY <1>0 DEF TypewriterOK
<1>7. asks => JobOK(job, setup) /\ job.kind = "watcher" /\ job.type # "read"
  BY <1>0, <1>1, <1>4, FeedBounds DEF JobOK, JobTypes, Feed!Job
<1> HIDE DEF job
<1>8. JobsOK' /\ CountOK'
  <2>1. CASE asks BY <1>0, <1>1, <1>7, <2>1, OneMore
  <2>2. CASE ~asks BY <1>0, <1>1, <2>2 DEF JobsOK, CountOK
  <2> QED BY <2>1, <2>2
<1>9. Feed!AnalyzingIsQuery'
  BY <1>0, <1>1, <1>7 DEF Feed!AnalyzingIsQuery, Feed!IsCurrent
<1>10. BufferOK(feed') /\ (feed' = feed \/ LastIs(feed', Feed!Other))
  BY <1>1, <1>2, Others
<1>11. Speaks(Feed!Other) BY DEF Speaks, Feed!Other
<1> QED BY <1>5, <1>6, <1>8, <1>9, <1>10, <1>11 DEF StepOK, BufferOK

LEMMA QuietStep ==
    ASSUME FeedInv,
           Feed!HealthCheck \/ (\E o \in seen : Feed!Forget(o)) \/ UNCHANGED Feed!vars
    PROVE  StepOK
<1> USE DEF FeedInv
<1>1. /\ UNCHANGED <<setup, feed, streaming, typewriter, gen, commands, analyzing,
                    querying, polled, queries>>
      /\ down' \in BOOLEAN \/ down' = down
  BY DEF Feed!HealthCheck, Feed!Forget, Feed!vars
<1>2. FlagsOK'
  <2>1. {analyzing', querying', down'} \subseteq BOOLEAN BY <1>1 DEF FlagsOK
  <2> QED BY <1>1, <2>1 DEF FlagsOK
<1> QED BY <1>1, <1>2 DEF StepOK, BufferOK, TypewriterOK, JobsOK, CountOK,
           Feed!AnalyzingIsQuery, Feed!IsCurrent

LEMMA FeedPreserved == FeedInv /\ [Feed!Next]_(Feed!vars) => StepOK
<1> SUFFICES ASSUME FeedInv, [Feed!Next]_(Feed!vars) PROVE StepOK
  OBVIOUS
<1>1. CASE Feed!PromptWatcher \/ Feed!PromptAgent BY <1>1, PromptStep
<1>2. CASE Feed!HealthCheck \/ (\E o \in seen : Feed!Forget(o)) \/ UNCHANGED Feed!vars
  BY <1>2, QuietStep
<1>3. ASSUME NEW l \in SUBSET Incidents, Feed!Poll(l) PROVE StepOK
  BY <1>3, PollStep
<1>4. ASSUME NEW w \in commands, Feed!Message(w) PROVE StepOK
  BY <1>4, TickStep, AnswerStep, SessionStep, StartedStep, StreamStep DEF Feed!Message
<1> QED BY <1>1, <1>2, <1>3, <1>4 DEF Feed!Next

LEMMA SilentStep ==
    ASSUME StepOK, feed' # feed
    PROVE  LET w == feed'[Len(feed')] IN
             /\ w[1] = "stream" /\ (w[2] = "watcher" \/ setup.agent = "stream") =>
                  streaming'[w[2]] = w[3]
             /\ w[1] = "typed" => w[3] = gen
  BY DEF StepOK, LastIs, Speaks

(* A word comes only from the current stream or typewriter (stream.go).    *)
THEOREM SupersededIsSilent == Feed!Spec => Feed!SupersededSilent
<1>1. FeedInv /\ [Feed!Next]_(Feed!vars) =>
        /\ FeedInv'
        /\ feed' # feed => LET w == feed'[Len(feed')] IN
             /\ w[1] = "stream" /\ (w[2] = "watcher" \/ setup.agent = "stream") =>
                  streaming'[w[2]] = w[3]
             /\ w[1] = "typed" => w[3] = gen
  BY FeedPreserved, SilentStep DEF StepOK
<1> QED BY <1>1, FeedStarts, PTL DEF Feed!Spec, Feed!SupersededSilent

-----------------------------------------------------------------------------
(* The configuration file.                                                 *)
(* Merged into at, the changes of v leave what has to be saved of it. *)
Covers(v, at) ==
    \A key \in Config!Durable(v) :
        key \in v.changes \ Config!Dropped(v.final) \/ at[key] = v.final[key]

(* Who may write at the same time. *)
WritersOK ==
    /\ mode \in {"down", "wizard", "form", "failed"} => jobs = {}
    /\ \A v \in jobs : v.kind \in {"wizard", "teams"} =>
         /\ \A w \in jobs : w = v \/ w.kind = "tour"
         /\ v.kind = "wizard" => mode = "table"
         /\ v.kind = "teams" => mode = "dev" /\ viper["teams"] # Config!Unset
    /\ \A v \in jobs : v.kind = "migrate" => mode = "table"

BackupOK ==
    \A v \in jobs :
        /\ v.step \in {"saveBackup", "fillBackup"} => Config!Backs(v)
        /\ Config!Backs(v) /\ v.step \in {"save", "fill"} => backup = v.read
        /\ v.kind = "tour" => v.final \in [Config!Keys -> Config!Values] /\ v.changes = {"tour_seen"} /\ ~v.isNew

FormOK ==
    /\ mode \in {"wizard", "form"} => viper = Config!Known(file, env)
    /\ mode = "form" =>
         form = [existing |-> Config!Seeded(Config!Existing),
                 applied |-> Config!Applied(Config!Existing),
                 old |-> Config!OldSilent \/ Config!OldMappings,
                 isNew |-> file.state = "absent"]

SaveOK ==
    \A v \in jobs : v.kind = "wizard" =>
        /\ v.isNew => v.final["terminal"] # Config!Unset
        /\ v.step = "read" /\ ~v.isNew =>
             /\ file.state = "valid" => Covers(v, file.at)
             /\ \A w \in jobs : w.kind = "tour" /\ w.step # "read" => Covers(v, w.data.at)
        /\ v.step # "read" =>
             \A key \in Config!Durable(v) : v.data.at[key] = v.final[key]

ConfigInv == Config!TypeOK /\ WritersOK /\ BackupOK /\ FormOK /\ SaveOK

-----------------------------------------------------------------------------
Contents == [Config!Keys -> Config!Values]

LEMMA PresetBounds ==
    /\ Present \subseteq Config!Keys /\ Seeds \subseteq Config!Keys
    /\ Supplied \subseteq Config!Keys
    /\ Seeds \cap (Config!Olds \cup {"token", "tour_seen"}) = {}
    /\ Supplied \cap (Config!Olds \cup {"tour_seen"}) = {}
    /\ MaxStarts \in Nat
  BY DeskAssumption DEF Config!ConfigAssumption

(* What a merge writes, key by key. *)
LEMMA MergeWrites ==
    ASSUME NEW at \in Contents, NEW final \in Contents, NEW changes \in SUBSET Config!Keys
    PROVE  /\ Config!Merge(at, final, changes) \in Contents
           /\ \A key \in Config!Keys \ Config!Olds :
                Config!Merge(at, final, changes)[key] =
                  IF key \in changes \ Config!Dropped(final) THEN final[key] ELSE at[key]
<1> DEFINE written == changes \ Config!Dropped(final)
           upserted == [key \in Config!Keys |->
                          IF key \in written \ {"teams"} THEN final[key] ELSE at[key]]
           merged == IF "teams" \in written THEN [upserted EXCEPT !["teams"] = final["teams"]]
                     ELSE upserted
           all == IF {"silent", "mappings"} \cap changes # {}
                  THEN [key \in Config!Keys |->
                          IF key \in Config!Olds THEN Config!Unset ELSE merged[key]]
                  ELSE merged
<1>1. Config!Merge(at, final, changes) = all
  BY DEF Config!Merge, Config!UpsertScalars, Config!UpdateTeams, Config!CommentOutOldPolicies
<1>2. "teams" \in Config!Keys /\ Config!Unset \in Config!Values
  BY DEF Config!Keys, Config!Values
<1> HIDE DEF written
<1>3. /\ upserted \in Contents
      /\ \A key \in Config!Keys :
           upserted[key] = IF key \in written \ {"teams"} THEN final[key] ELSE at[key]
  BY DEF Contents
<1> HIDE DEF upserted
<1>4. /\ merged \in Contents
      /\ \A key \in Config!Keys : merged[key] =
           IF key = "teams" /\ "teams" \in written THEN final[key] ELSE upserted[key]
  BY <1>2, <1>3 DEF Contents
<1> HIDE DEF merged
<1>5. /\ all \in Contents
      /\ \A key \in Config!Keys \ Config!Olds : all[key] = merged[key]
  BY <1>2, <1>4 DEF Contents
<1> HIDE DEF all
<1>6. \A key \in Config!Keys \ Config!Olds :
        merged[key] = IF key \in written THEN final[key] ELSE at[key]
  BY <1>2, <1>3, <1>4
<1> QED BY <1>1, <1>5, <1>6 DEF written

LEMMA DurableKeys ==
    ASSUME NEW v
    PROVE  /\ Config!Durable(v) \subseteq Config!Keys \ (Config!Olds \cup {"tour_seen"})
           /\ "cluster_login" \in Config!Durable(v) => ~v.isNew
  BY DEF Config!Durable, Config!Keys, Config!Olds, Config!Asked

LEMMA ConfigStarts == Config!Init => ConfigInv
<1> SUFFICES ASSUME Config!Init PROVE ConfigInv
  OBVIOUS
<1>1. \A S \in SUBSET Config!Keys, x \in Config!Values : Config!Some(S, x) \in Contents
  BY DEF Config!Some, Contents, Config!Values
<1>2. file \in Config!Contents
  <2>1. CASE file = Config!Absent
    BY <2>1 DEF Config!Contents, Config!Absent, Config!Nothing, Config!Values
  <2>2. CASE \E S \in SUBSET Present : file = Config!Valid(Config!Some(S, "file"))
    <3>1. PICK S \in SUBSET Present : file = Config!Valid(Config!Some(S, "file")) BY <2>2
    <3>2. Config!Some(S, "file") \in Contents BY <1>1, PresetBounds DEF Config!Values
    <3> QED BY <3>1, <3>2 DEF Config!Contents, Config!Valid, Contents
  <2>3. CASE \E S \in SUBSET {"token"} : file = Config!Broken(Config!Some(S, "file"))
    <3>1. PICK S \in SUBSET {"token"} : file = Config!Broken(Config!Some(S, "file")) BY <2>3
    <3>2. Config!Some(S, "file") \in Contents BY <1>1 DEF Config!Values, Config!Keys
    <3> QED BY <3>1, <3>2 DEF Config!Contents, Config!Broken, Contents
  <2> QED BY <2>1, <2>2, <2>3 DEF Config!Init
<1>3. preset \in [Config!Keys -> {Config!Unset, "preset"}]
  BY DEF Config!Init, Config!Presets, Config!Some
<1>4. env \in [Config!Keys -> {Config!Unset, "env"}]
  BY DEF Config!Init, Config!Nothing
<1>5. Config!TypeOK
  BY <1>2, <1>3, <1>4, PresetBounds DEF Config!Init, Config!TypeOK, Config!Contents, Config!Absent,
     Config!Nothing, Config!Values, Config!Forms, Config!NoForm
<1> QED BY <1>5 DEF Config!Init, ConfigInv, WritersOK, BackupOK, FormOK, SaveOK

(* Steps that leave no writer. *)
LEMMA NoWriters ==
    ASSUME jobs' = {}
    PROVE  WritersOK' /\ BackupOK' /\ SaveOK'
  BY DEF WritersOK, BackupOK, SaveOK

LEMMA Typed ==
    ASSUME Config!TypeOK
    PROVE  /\ file \in Config!Contents /\ file.at \in Contents
           /\ backup \in Config!Contents
           /\ \A v \in jobs : v \in Config!Jobs
           /\ viper \in Contents /\ Config!Unset \in Config!Values
           /\ Config!Nothing \in Contents /\ Config!Torn \in Config!Contents
           /\ Config!Absent \in Config!Contents
  BY DEF Config!TypeOK, Config!Contents, Contents, Config!Values, Config!Nothing, Config!Torn,
     Config!Absent, Config!Broken

LEMMA KnownTyped ==
    ASSUME NEW f \in Config!Contents, NEW e \in Contents
    PROVE  Config!Known(f, e) \in Contents
<1>1. f.at \in Contents BY DEF Config!Contents, Contents
<1> QED BY <1>1 DEF Config!Known, Contents

LEMMA EnvTyped ==
    ASSUME NEW e \in Config!Envs
    PROVE  e \in [Config!Keys -> {Config!Unset, "env"}] /\ e \in Contents
  BY DEF Config!Envs, Config!Some, Contents, Config!Values

LEMMA BeginStep ==
    ASSUME ConfigInv, NEW e \in Config!Envs, Config!Begin(e)
    PROVE  /\ mode = "down" /\ starts' \in 0..MaxStarts
           /\ env' = e /\ env' \in [Config!Keys -> {Config!Unset, "env"}]
           /\ viper' = Config!Known(file, e) /\ viper' \in Contents
           /\ UNCHANGED <<file, backup, preset, form>>
<1> USE DEF ConfigInv
<1>1. file \in Config!Contents BY Typed
<1> QED BY <1>1, PresetBounds, EnvTyped, KnownTyped DEF Config!Begin, Config!TypeOK

LEMMA StartStep ==
    ASSUME ConfigInv, NEW e \in Config!Envs, NEW dev \in BOOLEAN, Config!Start(e, dev)
    PROVE  ConfigInv'
<1> USE DEF ConfigInv
<1>1. /\ Config!Begin(e) /\ mode' \in {"dev", "table", "wizard"}
      /\ mode' # "table" => jobs' = {}
      /\ mode' = "table" => jobs' \in Config!Migrations(file)
  BY DEF Config!Start
<1> DEFINE job == Config!Migration(file)
<1>2. job \in Config!Jobs /\ job.kind = "migrate" /\ job.step = "save"
  <2>1. Config!CommentOutOldPolicies(file.at) \in Contents
    BY Typed DEF Config!CommentOutOldPolicies, Contents
  <2> QED BY <2>1, Typed DEF Config!Migration, Config!Job, Config!Jobs, Config!Valid,
             Config!Contents, Config!Steps, Config!Keys, Contents
<1>3. jobs' = {} \/ (mode' = "table" /\ jobs' = {job})
  BY <1>1 DEF Config!Migrations
<1> HIDE DEF job
<1>4. Config!TypeOK'
  BY <1>1, <1>2, <1>3, BeginStep, Typed DEF Config!TypeOK, Contents
<1>5. WritersOK' /\ BackupOK' /\ SaveOK'
  <2>1. CASE jobs' = {} BY <2>1, NoWriters
  <2>2. CASE mode' = "table" /\ jobs' = {job}
    BY <1>2, <2>2 DEF WritersOK, BackupOK, SaveOK, Config!Backs
  <2> QED BY <1>3, <2>1, <2>2
<1>6. FormOK' BY <1>1, BeginStep DEF FormOK
<1> QED BY <1>4, <1>5, <1>6

LEMMA ExistingTyped ==
    ASSUME Config!TypeOK
    PROVE  /\ Config!Existing \in Contents /\ Config!Seeded(Config!Existing) \in Contents
           /\ Config!Applied(Config!Existing) \subseteq Config!Keys
<1>1. {"old_silent", "old_mappings"} \subseteq Config!Keys BY DEF Config!Keys
<1>2. Config!Existing \in Contents
  <2>1. env \in Contents BY DEF Config!TypeOK, Contents, Config!Values
  <2>2. \A key \in Config!Keys :
          (CASE key = "silent" /\ Config!OldSilent -> viper["old_silent"]
             [] key = "mappings" /\ Config!OldMappings -> viper["old_mappings"]
             [] key \in Config!Executable /\ file.state # "valid" -> env[key]
             [] OTHER -> viper[key]) \in Config!Values
    BY <1>1, <2>1, Typed DEF Contents, Config!Executable
  <2> QED BY <2>2 DEF Config!Existing, Contents
<1>3. Config!Seeded(Config!Existing) \in Contents
  BY <1>2 DEF Config!Seeded, Contents, Config!TypeOK, Config!Values
<1>4. Config!Applied(Config!Existing) \subseteq Config!Keys
  BY PresetBounds DEF Config!Applied
<1> QED BY <1>2, <1>3, <1>4

LEMMA StartConfigStep ==
    ASSUME ConfigInv, NEW e \in Config!Envs, Config!StartConfig(e)
    PROVE  ConfigInv'
<1> USE DEF ConfigInv
<1>1. Config!Begin(e) /\ mode' = "wizard" /\ UNCHANGED jobs BY DEF Config!StartConfig
<1>2. jobs' = {} BY <1>1, BeginStep DEF WritersOK
<1>3. WritersOK' /\ BackupOK' /\ SaveOK' BY <1>2, NoWriters
<1>4. Config!TypeOK' BY <1>1, <1>2, BeginStep DEF Config!TypeOK, Contents
<1>5. FormOK' BY <1>1, BeginStep DEF FormOK
<1> QED BY <1>3, <1>4, <1>5

LEMMA WizardStep ==
    ASSUME ConfigInv,
           Config!OpenWizard \/ Config!PresetFails \/ Config!Abort \/ Config!Die
    PROVE  ConfigInv'
<1> USE DEF ConfigInv
<1>1. /\ UNCHANGED <<file, backup, preset, starts>> /\ jobs' = {}
      /\ mode' \in {"down", "form", "table", "failed"}
      /\ viper' \in Contents /\ env' \in {env, Config!Nothing}
      /\ form' \in {form, Config!NoForm} \/ Config!OpenWizard
  BY Typed DEF Config!OpenWizard, Config!PresetFails, Config!Abort, Config!Die, WritersOK
<1>2. WritersOK' /\ BackupOK' /\ SaveOK' BY <1>1, NoWriters
<1>3. form' \in Config!Forms
  <2>1. CASE Config!OpenWizard
    BY <2>1, ExistingTyped DEF Config!OpenWizard, Config!Forms, Contents
  <2>2. CASE form' = form
    BY <2>2 DEF Config!TypeOK
  <2>3. CASE form' = Config!NoForm
    BY <2>3, Typed DEF Config!NoForm, Config!Forms, Contents
  <2> QED BY <1>1, <2>1, <2>2, <2>3
<1>4. env' \in [Config!Keys -> {Config!Unset, "env"}]
  BY <1>1 DEF Config!TypeOK, Config!Nothing
<1>5. Config!TypeOK' BY <1>1, <1>3, <1>4 DEF Config!TypeOK, Contents
<1>6. FormOK'
  <2>1. CASE Config!OpenWizard
    <3>1. UNCHANGED <<file, preset, env, viper>> BY <2>1 DEF Config!OpenWizard
    <3>2. /\ Config!OldSilent' = Config!OldSilent /\ Config!OldMappings' = Config!OldMappings
          /\ Config!Existing' = Config!Existing
      BY <3>1 DEF Config!OldSilent, Config!OldMappings, Config!Existing
    <3>3. /\ Config!Applied(Config!Existing)' = Config!Applied(Config!Existing)
          /\ Config!Seeded(Config!Existing)' = Config!Seeded(Config!Existing)
      BY <3>1, <3>2 DEF Config!Seeded, Config!Applied
    <3> QED BY <2>1, <3>1, <3>2, <3>3 DEF Config!OpenWizard, FormOK
  <2>2. CASE Config!PresetFails \/ Config!Abort \/ Config!Die
    BY <2>2 DEF Config!PresetFails, Config!Abort, Config!Die, FormOK
  <2> QED BY <2>1, <2>2
<1> QED BY <1>2, <1>5, <1>6

-----------------------------------------------------------------------------
(* What a step of a writer keeps: who the writers are, and what they want. *)
Goes(v, w) ==
    v.kind = w.kind /\ v.final = w.final /\ v.changes = w.changes /\ v.isNew = w.isNew

LEMMA WritersKept ==
    ASSUME ConfigInv, NEW j \in jobs, NEW new \in Config!Jobs, Goes(new, j),
           jobs' = jobs \ {j} \/ jobs' = (jobs \ {j}) \cup {new},
           UNCHANGED <<preset, env, mode, viper, form, starts>>,
           file' \in Config!Contents, backup' \in Config!Contents
    PROVE  Config!TypeOK' /\ WritersOK' /\ FormOK'
<1> USE DEF ConfigInv
<1>1. Config!TypeOK' BY DEF Config!TypeOK
<1>2. mode' \notin {"down", "wizard", "form", "failed"} BY DEF WritersOK
<1>3. ASSUME NEW v \in jobs', v.kind \in {"wizard", "teams"}
      PROVE  /\ \A w \in jobs' : w = v \/ w.kind = "tour"
             /\ v.kind = "wizard" => mode' = "table"
             /\ v.kind = "teams" => mode' = "dev" /\ viper'["teams"] # Config!Unset
  <2>1. CASE v \in jobs /\ v # j
    BY <1>3, <2>1 DEF WritersOK, Goes
  <2>2. CASE v = new
    BY <1>3, <2>2 DEF WritersOK, Goes
  <2> QED BY <2>1, <2>2
<1>4. \A v \in jobs' : v.kind = "migrate" => mode' = "table"
  BY DEF WritersOK, Goes
<1>5. WritersOK' BY <1>2, <1>3, <1>4 DEF WritersOK
<1>6. FormOK' BY <1>2 DEF FormOK
<1> QED BY <1>1, <1>5, <1>6

(* A tour's write leaves whatever the user confirmed elsewhere. *)
LEMMA TourCovers ==
    ASSUME NEW v, NEW at \in Contents, NEW final \in Contents, Covers(v, at)
    PROVE  Covers(v, Config!Merge(at, final, {"tour_seen"}))
<1>1. {"tour_seen"} \in SUBSET Config!Keys BY DEF Config!Keys
<1>2. \A key \in Config!Durable(v) :
        Config!Merge(at, final, {"tour_seen"})[key] = at[key]
  BY <1>1, MergeWrites, DurableKeys
<1> QED BY <1>2 DEF Covers

(* The wizard's write leaves what the user confirmed. *)
LEMMA WizardWrites ==
    ASSUME NEW v \in Config!Jobs, NEW at \in Contents,
           IF v.isNew THEN v.final["terminal"] # Config!Unset ELSE Covers(v, at)
    PROVE  LET base == IF v.isNew THEN Config!Template ELSE at
               changes == IF v.isNew THEN Config!NewFileChanges(v.final) ELSE v.changes
           IN  \A key \in Config!Durable(v) :
                  Config!Merge(base, v.final, changes)[key] = v.final[key]
<1>1. v.final \in Contents /\ v.changes \subseteq Config!Keys
  BY DEF Config!Jobs, Contents
<1>2. CASE ~v.isNew
  <2>1. \A key \in Config!Durable(v) :
          Config!Merge(at, v.final, v.changes)[key] =
            IF key \in v.changes \ Config!Dropped(v.final) THEN v.final[key] ELSE at[key]
    BY <1>1, MergeWrites, DurableKeys
  <2> QED BY <1>2, <2>1 DEF Covers
<1>3. CASE v.isNew
  <2> DEFINE changes == Config!NewFileChanges(v.final)
  <2>1. Config!Template \in Contents /\ Config!Template["silent"] = Config!Unset
    BY DEF Config!Template, Config!Nothing, Contents, Config!Values, Config!Keys
  <2>2. /\ changes \subseteq Config!Keys /\ {"token", "teams", "terminal"} \subseteq changes
        /\ "silent" \in changes <=> v.final["silent"] # Config!Unset
        /\ "mappings" \in changes <=> v.final["mappings"] # Config!Unset
    BY <1>3 DEF Config!NewFileChanges, Config!Keys
  <2> HIDE DEF changes
  <2>3. \A key \in Config!Durable(v) :
          Config!Merge(Config!Template, v.final, changes)[key] =
            IF key \in changes \ Config!Dropped(v.final) THEN v.final[key]
            ELSE Config!Template[key]
    BY <1>1, <2>1, <2>2, MergeWrites, DurableKeys
  <2>4. \A key \in Config!Durable(v) :
          /\ key \in {"token", "teams", "silent", "mappings", "terminal"}
          /\ key = "mappings" => v.final["mappings"] # Config!Unset
    BY <1>3 DEF Config!Durable, Config!Asked
  <2>5. \A key \in Config!Durable(v) :
          key \in changes \ Config!Dropped(v.final) \/ v.final[key] = Config!Template[key]
    BY <2>1, <2>2, <2>4 DEF Config!Dropped
  <2>6. \A key \in Config!Durable(v) :
          Config!Merge(Config!Template, v.final, changes)[key] = v.final[key]
    BY <2>3, <2>5
  <2> QED BY <1>3, <2>6 DEF changes
<1>4. v.isNew \in BOOLEAN BY DEF Config!Jobs
<1> QED BY <1>2, <1>3, <1>4

LEMMA ReadStep ==
    ASSUME ConfigInv, NEW j \in jobs, Config!Read(j)
    PROVE  ConfigInv'
<1> USE DEF ConfigInv
<1> DEFINE base == IF j.isNew THEN Config!Valid(Config!Template) ELSE file
           changes == IF j.isNew THEN Config!NewFileChanges(j.final) ELSE j.changes
           data == Config!Valid(Config!Merge(base.at, j.final, changes))
           new == [j EXCEPT !.step = Config!First(j), !.read = file, !.data = data]
<1>1. /\ j.step = "read" /\ UNCHANGED <<file, backup, preset, env, mode, viper, form, starts>>
      /\ \/ Config!Mergeable(base) /\ jobs' = (jobs \ {j}) \cup {new}
         \/ jobs' = jobs \ {j}
  BY DEF Config!Read
<1>2. j \in Config!Jobs /\ j.final \in Contents /\ j.changes \subseteq Config!Keys
      /\ file.at \in Contents /\ j.isNew \in BOOLEAN
  BY Typed DEF Config!Jobs, Contents
<1>3. base.at = (IF j.isNew THEN Config!Template ELSE file.at) /\ base.at \in Contents
      /\ changes \in SUBSET Config!Keys
  BY <1>2 DEF Config!Valid, Config!Template, Config!Nothing, Contents, Config!Values,
     Config!Keys, Config!NewFileChanges
<1>4. data \in Config!Contents /\ data.at = Config!Merge(base.at, j.final, changes)
  <2>1. Config!Merge(base.at, j.final, changes) \in Contents
    BY <1>2, <1>3, MergeWrites
  <2> HIDE DEF base, changes
  <2> QED BY <2>1 DEF Config!Valid, Config!Contents, Contents
<1> HIDE DEF data, changes
<1>5. new \in Config!Jobs /\ Goes(new, j)
  BY <1>2, <1>4, Typed DEF Config!Jobs, Config!First, Config!Steps, Goes
<1>6. new.step = Config!First(new) /\ new.data = data
  BY <1>2 DEF Config!Jobs, Config!First, Config!Backs
<1> HIDE DEF new
<1>7. Config!TypeOK' /\ WritersOK' /\ FormOK'
  BY <1>1, <1>5, Typed, WritersKept
<1>8. BackupOK'
  BY <1>1, <1>5, <1>6 DEF BackupOK, Config!First, Config!Backs, Goes
<1>9. SaveOK'
  <2>1. CASE jobs' = jobs \ {j}
    BY <1>1, <2>1 DEF SaveOK
  <2>2. CASE Config!Mergeable(base) /\ jobs' = (jobs \ {j}) \cup {new}
    <3> SUFFICES ASSUME NEW v \in jobs', v.kind = "wizard"
                 PROVE /\ v.isNew => v.final["terminal"] # Config!Unset
                       /\ v.step = "read" /\ ~v.isNew =>
                            /\ file'.state = "valid" => Covers(v, file'.at)
                            /\ \A w \in jobs' : w.kind = "tour" /\ w.step # "read" => Covers(v, w.data.at)
                       /\ v.step # "read" =>
                            \A key \in Config!Durable(v) : v.data.at[key] = v.final[key]
      BY DEF SaveOK
    <3>1. ~j.isNew => file.state = "valid"
      BY <2>2 DEF Config!Mergeable
    <3>2. CASE v \in jobs /\ v # j
      <4>1. j.kind = "tour" BY <3>2 DEF WritersOK
      <4>2. ~j.isNew /\ j.changes = {"tour_seen"} BY <4>1 DEF BackupOK
      <4>3. data.at = Config!Merge(file.at, j.final, {"tour_seen"})
        BY <1>3, <1>4, <4>2 DEF changes
      <4>4. Covers(v, file.at) => Covers(v, data.at)
        BY <1>2, <4>3, TourCovers
      <4> QED BY <1>1, <1>6, <3>1, <3>2, <4>2, <4>4 DEF SaveOK
    <3>3. CASE v = new
      <4>1. j.kind = "wizard" BY <1>5, <3>3 DEF Goes
      <4>2. j.isNew => j.final["terminal"] # Config!Unset
        BY <4>1 DEF SaveOK
      <4>3. ~j.isNew => Covers(j, file.at)
        BY <1>1, <3>1, <4>1 DEF SaveOK
      <4>4. \A key \in Config!Durable(j) : data.at[key] = j.final[key]
        BY <1>2, <1>3, <1>4, <4>2, <4>3, WizardWrites DEF changes
      <4>5. Config!Durable(new) = Config!Durable(j)
        BY <1>5 DEF Config!Durable, Goes
      <4>6. new.step # "read"
        BY <1>6 DEF Config!First
      <4> QED BY <1>5, <1>6, <3>3, <4>2, <4>4, <4>5, <4>6 DEF Goes
    <3> QED BY <2>2, <3>2, <3>3
  <2> QED BY <1>1, <2>1, <2>2
<1> QED BY <1>7, <1>8, <1>9

LEMMA WriteStep ==
    ASSUME ConfigInv, NEW j \in jobs, Config!BackUp(j) \/ Config!Truncate(j)
    PROVE  ConfigInv'
<1> USE DEF ConfigInv
<1>1. PICK to \in {"fillBackup", "save", "fill"} :
        /\ jobs' = (jobs \ {j}) \cup {[j EXCEPT !.step = to]}
        /\ UNCHANGED <<preset, env, mode, viper, form, starts>>
        /\ \/ j.step = "saveBackup" /\ to = "fillBackup" /\ UNCHANGED file /\ backup' = Config!Torn
           \/ j.step = "fillBackup" /\ to = "save" /\ UNCHANGED file /\ backup' = j.read
           \/ j.step = "save" /\ to = "fill" /\ file' = Config!Torn /\ UNCHANGED backup
  BY DEF Config!BackUp, Config!Truncate, Config!Write
<1> DEFINE new == [j EXCEPT !.step = to]
<1>2. j \in Config!Jobs BY Typed
<1>3. /\ new \in Config!Jobs /\ Goes(new, j)
      /\ new.step = to /\ new.read = j.read /\ new.data = j.data
  BY <1>1, <1>2 DEF Config!Jobs, Config!Steps, Goes
<1>4. jobs' = (jobs \ {j}) \cup {new} BY <1>1
<1> HIDE DEF new
<1>5. file' \in Config!Contents /\ backup' \in Config!Contents
  BY <1>1, <1>2, Typed DEF Config!Jobs
<1>6. Config!TypeOK' /\ WritersOK' /\ FormOK'
  BY <1>1, <1>3, <1>4, <1>5, WritersKept
<1>7. BackupOK'
  <2> SUFFICES ASSUME NEW v \in jobs'
               PROVE /\ v.step \in {"saveBackup", "fillBackup"} => Config!Backs(v)
                     /\ Config!Backs(v) /\ v.step \in {"save", "fill"} => backup' = v.read
                     /\ v.kind = "tour" => v.final \in [Config!Keys -> Config!Values] /\ v.changes = {"tour_seen"} /\ ~v.isNew
    BY DEF BackupOK
  <2>1. CASE v = new
    BY <1>1, <1>3, <2>1 DEF BackupOK, Goes, Config!Backs
  <2>2. CASE v \in jobs /\ v # j
    <3>1. Config!Backs(j) \/ UNCHANGED backup BY <1>1 DEF BackupOK
    <3>2. Config!Backs(j) => ~Config!Backs(v) BY <2>2 DEF WritersOK, Config!Backs
    <3> QED BY <2>2, <3>1, <3>2 DEF BackupOK
  <2> QED BY <1>4, <2>1, <2>2
<1>8. SaveOK'
  <2> SUFFICES ASSUME NEW v \in jobs', v.kind = "wizard"
               PROVE /\ v.isNew => v.final["terminal"] # Config!Unset
                     /\ v.step = "read" /\ ~v.isNew =>
                          /\ file'.state = "valid" => Covers(v, file'.at)
                          /\ \A w \in jobs' : w.kind = "tour" /\ w.step # "read" => Covers(v, w.data.at)
                     /\ v.step # "read" =>
                          \A key \in Config!Durable(v) : v.data.at[key] = v.final[key]
    BY DEF SaveOK
  <2>1. file' = file \/ file'.state # "valid"
    BY <1>1 DEF Config!Torn, Config!Broken
  <2>2. j.step # "read" BY <1>1
  <2>3. CASE v = new
    <3>1. Config!Durable(new) = Config!Durable(j) BY <1>3 DEF Config!Durable, Goes
    <3> QED BY <1>1, <1>3, <2>2, <2>3, <3>1 DEF SaveOK, Goes
  <2>4. CASE v \in jobs /\ v # j
    BY <1>3, <1>4, <2>1, <2>2, <2>4 DEF SaveOK, Goes
  <2> QED BY <1>4, <2>3, <2>4
<1> QED BY <1>6, <1>7, <1>8

LEMMA FillStep ==
    ASSUME ConfigInv, NEW j \in jobs, Config!Filled(j)
    PROVE  ConfigInv'
<1> USE DEF ConfigInv
<1>1. /\ j.step = "fill" /\ file' = j.data /\ jobs' = jobs \ {j}
      /\ UNCHANGED <<backup, preset, env, mode, viper, form, starts>>
  BY DEF Config!Filled
<1>2. j \in Config!Jobs /\ Goes(j, j) BY Typed DEF Goes
<1>3. file' \in Config!Contents /\ backup' \in Config!Contents
  BY <1>1, <1>2, Typed DEF Config!Jobs
<1>4. Config!TypeOK' /\ WritersOK' /\ FormOK'
  BY <1>1, <1>2, <1>3, WritersKept
<1>5. BackupOK' BY <1>1 DEF BackupOK
<1>6. \A v \in jobs' : v.kind = "wizard" => j.kind = "tour"
  BY <1>1 DEF WritersOK
<1>7. SaveOK' BY <1>1, <1>6 DEF SaveOK
<1> QED BY <1>4, <1>5, <1>7

(* The end of the tour and the choice of teams add a writer.               *)
LEMMA TourStep ==
    ASSUME ConfigInv, Config!EndTour \/ Config!SelectTeams
    PROVE  ConfigInv'
<1> USE DEF ConfigInv
<1>1. PICK job :
        /\ jobs' = jobs \cup {job}
        /\ UNCHANGED <<file, backup, preset, env, mode, form, starts>>
        /\ \/ /\ mode \in {"table", "dev"} /\ viper' = [viper EXCEPT !["tour_seen"] = "true"]
              /\ job = Config!Job("tour", Config!Some({"tour_seen"}, "true"), {"tour_seen"}, FALSE)
           \/ /\ mode = "dev" /\ viper["teams"] = Config!Unset
              /\ viper' = [viper EXCEPT !["teams"] = "input"]
              /\ job = Config!Job("teams", Config!Some({"teams"}, "input"), {"teams"}, FALSE)
  BY DEF Config!EndTour, Config!SelectTeams
<1>2. /\ {"tour_seen", "teams"} \subseteq Config!Keys /\ "teams" # "tour_seen"
      /\ {"true", "input", Config!Unset} \subseteq Config!Values /\ "input" # Config!Unset
  BY DEF Config!Keys, Config!Values, Config!Unset
<1>3. viper' \in Contents /\ (viper["teams"] # Config!Unset => viper'["teams"] # Config!Unset)
  BY <1>1, <1>2, Typed DEF Contents
<1>4. \A S \in SUBSET Config!Keys, x \in Config!Values : Config!Some(S, x) \in Contents
  BY <1>2 DEF Config!Some, Contents
<1>5. /\ job \in Config!Jobs /\ job.kind \in {"tour", "teams"} /\ job.step = "read" /\ ~job.isNew
      /\ job.kind = "tour" => job.changes = {"tour_seen"}
      /\ job.kind = "teams" => mode = "dev" /\ viper["teams"] = Config!Unset /\ viper'["teams"] = "input"
  <2>1. Config!Some({"tour_seen"}, "true") \in Contents /\ Config!Some({"teams"}, "input") \in Contents
    BY <1>2, <1>4
  <2>2. viper \in Contents BY Typed
  <2>3. Config!Absent \in Config!Contents BY Typed
  <2>4. CASE job = Config!Job("tour", Config!Some({"tour_seen"}, "true"), {"tour_seen"}, FALSE)
    <3>1. job.kind = "tour" /\ job.changes = {"tour_seen"} /\ job.step = "read" /\ ~job.isNew
      BY <2>4 DEF Config!Job
    <3>2. job \in Config!Jobs
      BY <1>2, <2>1, <2>3, <2>4 DEF Config!Job, Config!Jobs, Config!Steps, Contents
    <3> QED BY <3>1, <3>2
  <2>5. CASE /\ mode = "dev" /\ viper["teams"] = Config!Unset
             /\ viper' = [viper EXCEPT !["teams"] = "input"]
             /\ job = Config!Job("teams", Config!Some({"teams"}, "input"), {"teams"}, FALSE)
    <3>1. job.kind = "teams" /\ job.step = "read" /\ ~job.isNew
      BY <2>5 DEF Config!Job
    <3>2. job \in Config!Jobs
      BY <1>2, <2>1, <2>3, <2>5 DEF Config!Job, Config!Jobs, Config!Steps, Contents
    <3>3. viper'["teams"] = "input"
      BY <1>2, <2>2, <2>5 DEF Contents
    <3> QED BY <2>5, <3>1, <3>2, <3>3
  <2> QED BY <1>1, <2>4, <2>5
<1>6. Config!TypeOK'
  BY <1>1, <1>3, <1>5 DEF Config!TypeOK, Contents
<1>7. mode' \notin {"down", "wizard", "form", "failed"}
  BY <1>1
<1>8. WritersOK'
  <2> SUFFICES ASSUME NEW v \in jobs'
               PROVE /\ v.kind \in {"wizard", "teams"} =>
                          /\ \A w \in jobs' : w = v \/ w.kind = "tour"
                          /\ v.kind = "wizard" => mode' = "table"
                          /\ v.kind = "teams" => mode' = "dev" /\ viper'["teams"] # Config!Unset
                     /\ v.kind = "migrate" => mode' = "table"
    BY <1>7 DEF WritersOK
  <2>1. CASE job.kind = "tour"
    BY <1>1, <1>3, <1>5, <2>1 DEF WritersOK
  <2>2. CASE job.kind = "teams"
    <3>1. \A w \in jobs : w.kind = "tour"
      <4> SUFFICES ASSUME NEW w \in jobs PROVE w.kind = "tour"
        OBVIOUS
      <4>1. w.kind \in {"wizard", "teams", "tour", "migrate"} BY Typed DEF Config!Jobs
      <4> QED BY <1>5, <2>2, <4>1 DEF WritersOK
    <3> QED BY <1>1, <1>2, <1>5, <2>2, <3>1
  <2> QED BY <1>5, <2>1, <2>2
<1>9. BackupOK'
  BY <1>1, <1>5 DEF BackupOK, Config!Jobs
<1>10. FormOK' BY <1>7 DEF FormOK
<1>11. SaveOK'
  BY <1>1, <1>5 DEF SaveOK
<1> QED BY <1>6, <1>8, <1>9, <1>10, <1>11

(* What the wizard is about to save covers the file it was opened on.      *)
LEMMA FormCovers ==
    ASSUME ConfigInv, mode = "form", NEW a \in Config!Answers, NEW v,
           v.final = Config!Final(a), v.changes = Config!Changes(Config!Final(a)),
           v.isNew = form.isNew, ~v.isNew, file.state = "valid"
    PROVE  Covers(v, file.at)
<1> USE DEF ConfigInv
<1> DEFINE final == Config!Final(a)
           e == form.existing
<1>1. /\ viper = Config!Known(file, env) /\ file.at \in Contents
      /\ e = Config!Seeded(Config!Existing) /\ e \in Contents
      /\ form.applied = Config!Applied(Config!Existing)
      /\ form.old = (Config!OldSilent \/ Config!OldMappings)
  BY Typed, ExistingTyped DEF FormOK
<1>2. /\ {k \in Config!Asked : final[k] # e[k]} \subseteq v.changes
      /\ form.applied \subseteq v.changes
      /\ \A k \in {"silent", "mappings"} :
           form.old /\ final[k] # Config!Unset => k \in v.changes
  BY DEF Config!Changes, Config!Detected
<1>3. final["cluster_login"] = e["cluster_login"]
  BY <1>1 DEF Config!Final, Contents, Config!Keys, Config!Asked
<1>4. \A k \in Config!Keys :
        /\ k \notin form.applied => e[k] = Config!Existing[k]
        /\ k \in form.applied => e[k] # Config!Unset
  BY <1>1 DEF Config!Seeded, Config!Applied
<1>5. \A k \in Config!Keys : viper[k] = IF env[k] = Config!Unset THEN file.at[k] ELSE env[k]
  BY <1>1 DEF Config!Known
<1>6. \A k \in Config!Keys : env[k] \in {Config!Unset, "env"} BY DEF Config!TypeOK
<1>7. \A k \in Config!Keys :
        Config!Existing[k] =
          CASE k = "silent" /\ Config!OldSilent -> viper["old_silent"]
            [] k = "mappings" /\ Config!OldMappings -> viper["old_mappings"]
            [] OTHER -> viper[k]
  BY DEF Config!Existing
<1> HIDE DEF final, e
<1>8. ASSUME NEW key \in Config!Durable(v)
      PROVE  key \in v.changes \ Config!Dropped(v.final) \/ file.at[key] = v.final[key]
  <2>1. /\ key \in Config!Keys /\ v.final = final
        /\ key \in Config!Asked \cup {"cluster_login"}
        /\ key = "mappings" => final[key] # Config!Unset
        /\ final[key] # "env"
    BY DurableKeys DEF Config!Durable, final
  <2>2. CASE key \in Config!Dropped(final)
    <3>1. key = "cluster_login" /\ final[key] = Config!Unset
      BY <2>1, <2>2 DEF Config!Dropped
    <3>2. key \notin form.applied /\ Config!Existing[key] = Config!Unset
      BY <1>3, <1>4, <2>1, <3>1
    <3>3. viper[key] = Config!Unset BY <1>7, <2>1, <3>1, <3>2
    <3>4. file.at[key] = Config!Unset BY <1>5, <2>1, <3>3
    <3> QED BY <2>1, <3>1, <3>4
  <2>3. CASE key \notin Config!Dropped(final)
    <3> SUFFICES ASSUME key \notin v.changes PROVE file.at[key] = final[key]
      BY <2>1, <2>3
    <3>1. final[key] = e[key] /\ key \notin form.applied
      BY <1>2, <1>3, <2>1
    <3>2. final[key] = Config!Existing[key] BY <1>4, <2>1, <3>1
    <3>3. ~(key = "silent" /\ Config!OldSilent) /\ ~(key = "mappings" /\ Config!OldMappings)
      BY <1>1, <1>2, <1>7, <2>1, <3>2 DEF Config!OldSilent, Config!OldMappings
    <3>4. final[key] = viper[key] BY <1>7, <2>1, <3>2, <3>3
    <3> QED BY <1>5, <1>6, <2>1, <3>4
  <2> QED BY <2>2, <2>3
<1> QED BY <1>8 DEF Covers

LEMMA CompleteStep ==
    ASSUME ConfigInv, Config!Complete
    PROVE  ConfigInv'
<1> USE DEF ConfigInv
<1>1. /\ mode = "form" /\ mode' = "table" /\ form' = Config!NoForm
      /\ UNCHANGED <<file, backup, preset, env, viper, starts>>
  BY DEF Config!Complete
<1>2. PICK a \in Config!Answers :
        \/ jobs' = jobs
        \/ jobs' = jobs \cup {Config!Job("wizard", Config!Final(a),
                                        Config!Changes(Config!Final(a)), form.isNew)}
  BY DEF Config!Complete
<1> DEFINE final == Config!Final(a)
           changes == Config!Changes(final)
           job == Config!Job("wizard", final, changes, form.isNew)
<1>3. jobs' = {} \/ jobs' = {job} BY <1>1, <1>2 DEF WritersOK
<1>4. form.existing \in Contents /\ form.isNew \in BOOLEAN
      /\ form.applied \subseteq Config!Keys
  BY DEF Config!TypeOK, Config!Forms, Contents
<1>5. /\ \A k \in Config!Asked : a[k] \in {"keep", Config!Unset, "input"}
      /\ a["terminal"] # Config!Unset
      /\ a["terminal"] = "keep" => form.existing["terminal"] # Config!Unset
  BY DEF Config!Answers, Config!ValidTerminal, Config!Kept
<1>6. final \in Contents
  <2>1. {Config!Unset, "input"} \subseteq Config!Values BY DEF Config!Values
  <2> QED BY <1>4, <1>5, <2>1 DEF Config!Final, Contents
<1>7. final["terminal"] # Config!Unset
  <2>1. "terminal" \in Config!Keys /\ "terminal" \in Config!Asked
    BY DEF Config!Keys, Config!Asked
  <2> QED BY <1>5, <2>1 DEF Config!Final
<1>8. changes \subseteq Config!Keys
  BY <1>4 DEF Config!Changes, Config!Detected, Config!NewFileChanges, Config!Keys, Config!Asked
<1>9. /\ job.kind = "wizard" /\ job.final = final /\ job.changes = changes
      /\ job.isNew = form.isNew /\ job.step = "read"
  BY DEF Config!Job
<1>10. job \in Config!Jobs
  <2> HIDE DEF final, changes
  <2> QED BY <1>4, <1>6, <1>8, Typed DEF Config!Job, Config!Jobs, Config!Steps, Contents
<1>11. ~job.isNew /\ file.state = "valid" => Covers(job, file.at)
  BY <1>1, <1>9, FormCovers
<1> HIDE DEF job, final, changes
<1>12. form' \in Config!Forms
  BY <1>1, Typed DEF Config!NoForm, Config!Forms, Contents
<1>13. Config!TypeOK' BY <1>1, <1>3, <1>10, <1>12 DEF Config!TypeOK
<1>14. FormOK' BY <1>1 DEF FormOK
<1>15. WritersOK' /\ BackupOK' /\ SaveOK'
  <2>1. CASE jobs' = {} BY <2>1, NoWriters
  <2>2. CASE jobs' = {job}
    BY <1>1, <1>7, <1>9, <1>11, <2>2 DEF WritersOK, BackupOK, SaveOK
  <2> QED BY <1>3, <2>1, <2>2
<1> QED BY <1>13, <1>14, <1>15

LEMMA ConfigPreserved == ConfigInv /\ [Config!Next]_(Config!vars) => ConfigInv'
<1> SUFFICES ASSUME ConfigInv, [Config!Next]_(Config!vars) PROVE ConfigInv'
  OBVIOUS
<1>1. CASE UNCHANGED Config!vars
  <2>1. UNCHANGED <<file, backup, preset, env, mode, viper, form, jobs, starts>>
    BY <1>1 DEF Config!vars
  <2>2. Config!TypeOK' BY <2>1 DEF ConfigInv, Config!TypeOK
  <2>3. WritersOK' BY <2>1 DEF ConfigInv, WritersOK
  <2>4. BackupOK' BY <2>1 DEF ConfigInv, BackupOK
  <2>5. SaveOK' BY <2>1 DEF ConfigInv, SaveOK
  <2>6. FormOK' BY <2>1 DEF ConfigInv, FormOK, Config!Seeded, Config!Applied, Config!Existing,
     Config!OldSilent, Config!OldMappings
  <2> QED BY <2>2, <2>3, <2>4, <2>5, <2>6 DEF ConfigInv
<1>2. CASE Config!Next
  BY <1>2, StartStep, StartConfigStep, WizardStep, TourStep, CompleteStep, ReadStep, WriteStep, FillStep
     DEF Config!Next
<1> QED BY <1>1, <1>2

(* A step takes a wizard's save away only when it fills the file.          *)
LEMMA SaveLands ==
    ConfigInv /\ [Config!Next]_(Config!vars) =>
        \A j \in jobs : j.kind = "wizard" /\ j.step = "fill" /\ j \notin jobs' /\ mode' # "down" =>
            \A key \in Config!Durable(j) : file'.at[key] = j.final[key]
<1> SUFFICES ASSUME ConfigInv, [Config!Next]_(Config!vars),
                    NEW j \in jobs, j.kind = "wizard", j.step = "fill", j \notin jobs', mode' # "down"
             PROVE  Config!Filled(j)
  BY DEF ConfigInv, SaveOK, Config!Filled
<1>1. CASE UNCHANGED Config!vars BY <1>1 DEF Config!vars
<1>2. jobs # {} BY DEF ConfigInv
<1>3. mode \notin {"down", "wizard", "form", "failed"}
  BY <1>2 DEF ConfigInv, WritersOK
<1>4. ~Config!OpenWizard /\ ~Config!PresetFails /\ ~Config!Abort
  BY <1>3 DEF Config!OpenWizard, Config!PresetFails, Config!Abort
<1>5. \A e \in Config!Envs, dev \in BOOLEAN : ~Config!Start(e, dev) /\ ~Config!StartConfig(e)
  BY <1>3 DEF Config!Start, Config!StartConfig, Config!Begin
<1>6. ~Config!Complete
  BY <1>3 DEF Config!Complete
<1>7. ~Config!EndTour /\ ~Config!SelectTeams /\ ~Config!Die
  BY DEF Config!EndTour, Config!SelectTeams, Config!Die
<1>8. \A w \in jobs : Config!Read(w) \/ Config!BackUp(w) \/ Config!Truncate(w) => FALSE
  BY DEF Config!Read, Config!BackUp, Config!Truncate, Config!Write
<1>9. \A w \in jobs : Config!Filled(w) => w = j
  BY DEF Config!Filled
<1> QED BY <1>1, <1>4, <1>5, <1>6, <1>7, <1>8, <1>9 DEF Config!Next

(* Before a save with a backup truncates the file, the backup holds what   *)
(* the save read, and nobody else writes it (config.go, WriteConfig).      *)
THEOREM BackupKept == Config!Spec => []Config!BackedUp
<1>1. ConfigInv => Config!BackedUp
  BY DEF ConfigInv, BackupOK, Config!BackedUp
<1> QED BY <1>1, ConfigStarts, ConfigPreserved, PTL DEF Config!Spec

(* A save of the wizard that is over leaves in the file what the user      *)
(* confirmed and Durable names: what did not change was in the file, and   *)
(* stays there.                                                            *)
THEOREM ConfirmedIsKept == Config!Spec => Config!ConfirmedIsSaved
<1>1. ConfigInv /\ [Config!Next]_(Config!vars) =>
        [Config!SavedByWizard(Config!Durable)]_(Config!vars)
  BY SaveLands DEF Config!SavedByWizard, Config!Saved
<1> QED BY <1>1, ConfigStarts, ConfigPreserved, PTL DEF Config!Spec, Config!ConfirmedIsSaved

-----------------------------------------------------------------------------
(* Keys.                                                                   *)
Kept == {"config", "bulk", "team", "table"}   \* not left with esc

(* What esc may bring back: the incident the docs were opened on.          *)
Returned == IF Owner = "docs" THEN {"incident"} ELSE {}

(* Esc closes the view that has the keys (the switch...FocusMode handlers  *)
(* of msgHandlers.go, merge.go, docs.go and tour.go).                      *)
LEMMA EscLeaves ==
    ASSUME PressKey("esc"), Owner \notin Kept
    PROVE  Owner \notin open' /\ open' \ open \subseteq Returned
<1> DEFINE Left == Owner \notin open' /\ open' \ open \subseteq Returned
<1>1. ~Quits("esc") BY DEF Quits
<1>2. "esc" \notin GlobalKeys BY DEF GlobalKeys
<1>3. CASE ConfirmKey("esc") BY <1>3 DEF ConfirmKey, Closes
<1>4. CASE ChatKey("esc") BY <1>4 DEF ChatKey, Closes
<1>5. CASE ChordKey("esc") BY <1>5 DEF ChordKey, Closes
<1>6. CASE InputKey("esc") BY <1>6 DEF InputKey
<1>7. CASE GlobalKey("esc") BY <1>2, <1>7 DEF GlobalKey
<1>8. CASE TourKey("esc") BY <1>8 DEF TourKey, Closes
<1>9. CASE FormKey("esc") BY <1>9 DEF FormKey, Kept
<1>10. CASE ErrorKey("esc") BY <1>10 DEF ErrorKey, Closes
<1>11. CASE ClusterKey("esc") BY <1>11 DEF ClusterKey, Closes
<1>12. CASE MergeKey("esc") BY <1>12 DEF MergeKey, LeaveMerge, Closes
<1>13. CASE LogKey("esc") BY <1>13 DEF LogKey, Closes
<1>14. CASE DocsKey("esc") BY <1>14 DEF DocsKey, Returned
<1>15. CASE IncidentKey("esc") BY <1>15 DEF IncidentKey, Closes
<1>16. CASE ApprovalsKey("esc") BY <1>16 DEF ApprovalsKey, Closes
<1>17. CASE TableKey("esc") BY <1>17 DEF TableKey, Kept
<1> QED
    BY <1>1, <1>3, <1>4, <1>5, <1>6, <1>7, <1>8, <1>9, <1>10, <1>11, <1>12,
       <1>13, <1>14, <1>15, <1>16, <1>17 DEF PressKey

(* A quit key ends the program, unless it is the second key of a chord,    *)
(* which it then ends (keyMsgHandler).                                     *)
LEMMA QuitQuits ==
    ASSUME PressKey("quit")
    PROVE  ~running' \/ (Owner = "chord" /\ "chord" \notin open')
<1>1. CASE Quits("quit") BY <1>1 DEF PressKey
<1>2. CASE ~Quits("quit")
  <2>1. Owner = "chord" BY <1>2 DEF Quits
  <2>2. ChordKey("quit")
    BY <1>2, <2>1 DEF PressKey, ConfirmKey, ChatKey, InputKey, GlobalKey, TourKey,
       FormKey, ErrorKey, ClusterKey, MergeKey, LogKey, DocsKey, IncidentKey,
       ApprovalsKey, TableKey
  <2> QED BY <2>1, <2>2 DEF ChordKey, Closes
<1> QED BY <1>1, <1>2

(* There is always a way out: whatever else is open, esc leaves the view   *)
(* that has the keys and a quit key quits.                                 *)
THEOREM KeysLetGo == Spec => WayOut
<1>1. PressKey("esc") /\ Owner \notin Kept =>
        Owner \notin open' /\ open' \ open \subseteq Returned
  BY EscLeaves
<1>2. PressKey("quit") => ~running' \/ (Owner = "chord" /\ "chord" \notin open')
  BY QuitQuits
<1>3. /\ PressKey("esc") /\ Owner \notin {"config", "bulk", "team", "table"} =>
             /\ Owner \notin open'
             /\ open' \ open \subseteq (IF Owner = "docs" THEN {"incident"} ELSE {})
      /\ PressKey("quit") =>
             ~running' \/ (Owner = "chord" /\ "chord" \notin open')
  BY <1>1, <1>2 DEF Kept, Returned
<1> QED BY <1>3, PTL DEF WayOut

-----------------------------------------------------------------------------
(* The invariant: the types, and a source for a merge.                     *)
KeyInv == TypeOK /\ MergeHasSource

(* What a handler of a key leaves true.                                    *)
KeyKept ==
    /\ open' \subseteq Modes /\ posted' \subseteq Messages
    /\ prompt' \in {"act", "merge"} /\ answered' \subseteq {"bulk", "team"}
    /\ {tableFocused', rows', selected', tagging', backToIncident', rosa', source'}
         \subseteq BOOLEAN
    /\ "merge" \in open' => source'

USE DEF KeyInv, TypeOK, MergeHasSource, KeyKept, Modes, Messages, keyVars, listVars,
        Opens, Closes, Posts

LEMMA ViewKeys ==
    ASSUME KeyInv, NEW k \in Keys,
           TourKey(k) \/ ErrorKey(k) \/ ClusterKey(k) \/ MergeKey(k) \/ LogKey(k)
             \/ DocsKey(k) \/ ApprovalsKey(k)
    PROVE  KeyKept
<1>1. CASE TourKey(k) BY <1>1 DEF TourKey
<1>2. CASE ErrorKey(k) BY <1>2 DEF ErrorKey
<1>3. CASE ClusterKey(k) BY <1>3 DEF ClusterKey
<1>4. CASE MergeKey(k) BY <1>4 DEF MergeKey, LeaveMerge
<1>5. CASE LogKey(k) BY <1>5 DEF LogKey
<1>6. CASE DocsKey(k) BY <1>6 DEF DocsKey
<1>7. CASE ApprovalsKey(k) BY <1>7 DEF ApprovalsKey
<1> QED BY <1>1, <1>2, <1>3, <1>4, <1>5, <1>6, <1>7

LEMMA OwnKeys ==
    ASSUME KeyInv, NEW k \in Keys,
           ConfirmKey(k) \/ ChatKey(k) \/ ChordKey(k) \/ InputKey(k) \/ GlobalKey(k)
             \/ FormKey(k)
    PROVE  KeyKept
<1>1. CASE ConfirmKey(k) BY <1>1 DEF ConfirmKey
<1>2. CASE ChatKey(k) BY <1>2 DEF ChatKey
<1>3. CASE ChordKey(k) BY <1>3 DEF ChordKey
<1>4. CASE InputKey(k)
  <2>1. CASE k \notin {"esc", "enter"} BY <1>4, <2>1 DEF InputKey
  <2>2. CASE k \in {"esc", "enter"}
    <3>1. PICK c : /\ open' = (open \ {"input"}) \cup
                          CASE c = "agent" -> {"chat"} [] c = "tour" -> {"tour"}
                            [] OTHER -> {}
                   /\ tableFocused' = (c # "tour")
                   /\ tagging' = FALSE
                   /\ posted' \in {posted, posted \cup {"listFlags"}}
                   /\ UNCHANGED <<prompt, backToIncident, rosa, source, answered,
                                  listVars>>
      BY <1>4, <2>2 DEF InputKey
    <3>2. open' \subseteq open \cup {"chat", "tour"} BY <3>1
    <3> QED BY <3>1, <3>2
  <2> QED BY <2>1, <2>2
<1>5. CASE GlobalKey(k) BY <1>5 DEF GlobalKey
<1>6. CASE FormKey(k)
  <2> DEFINE own == Owner
  <2>1. /\ UNCHANGED <<tagging, backToIncident, rosa, source, listVars>>
        /\ own \in {"config", "bulk", "team"}
    BY <1>6 DEF FormKey
  <2>2. CASE own \in answered
    <3>1. /\ tableFocused' = TRUE /\ answered' = answered \ {own} /\ UNCHANGED posted
          /\ \/ prompt' = "act" /\ open' = (open \ {"bulk"}) \cup {"confirm"}
             \/ open' = open \ {own} /\ UNCHANGED prompt
      BY <1>6, <2>2 DEF FormKey
    <3> HIDE DEF own
    <3> QED BY <2>1, <3>1
  <2>3. CASE own \notin answered
    <3>1. /\ UNCHANGED <<open, tableFocused, answered, prompt>>
          /\ posted' = posted \cup {"huh"} \/ posted' = posted
      BY <1>6, <2>3 DEF FormKey
    <3> HIDE DEF own
    <3> QED BY <2>1, <3>1
  <2> QED BY <2>2, <2>3
<1> QED BY <1>1, <1>2, <1>3, <1>4, <1>5, <1>6

LEMMA IncidentKeys ==
    ASSUME KeyInv, NEW k \in Keys, IncidentKey(k) \/ TableKey(k)
    PROVE  KeyKept
<1>1. CASE IncidentKey(k)
  <2>1. UNCHANGED <<tagging, rosa, source, answered, rows>>
    BY <1>1 DEF IncidentKey
  <2>2. /\ open' \subseteq open \cup {"confirm", "docs"}
        /\ posted' \subseteq posted \cup {"clearSelected", "login", "renderDocs",
                                         "renderIncident"}
    BY <1>1 DEF IncidentKey
  <2>3. /\ prompt' \in {"act", "merge"} /\ backToIncident' \in BOOLEAN
        /\ selected' \in BOOLEAN /\ tableFocused' \in BOOLEAN
    BY <1>1 DEF IncidentKey
  <2> QED BY <2>1, <2>2, <2>3
<1>2. CASE TableKey(k)
  <2>1. UNCHANGED tableFocused BY <1>2 DEF TableKey
  <2>2. CASE k \in {"input", "approvals"} BY <1>2, <2>2 DEF TableKey
  <2>3. CASE ~tableFocused /\ k \notin {"input", "approvals"}
    BY <1>2, <2>3 DEF TableKey
  <2>4. CASE FocusedTableKey(k)
    <3>1. /\ open' \subseteq open \cup {"incident", "confirm", "merge", "docs"}
          /\ "merge" \in open' => source' \/ ("merge" \in open /\ source' = source)
      BY <2>4 DEF FocusedTableKey, ClearSelectedIncident
    <3>2. posted' \subseteq posted \cup {"renderIncident", "clearSelected", "login",
                                         "logFileContent", "renderDocs"}
      BY <2>4 DEF FocusedTableKey
    <3>3. /\ prompt' \in {"act", "merge"} /\ answered' = answered
          /\ rows' = rows /\ tagging' = tagging /\ rosa' = rosa
      BY <2>4 DEF FocusedTableKey
    <3>4. source' \in BOOLEAN /\ backToIncident' \in BOOLEAN
      BY <2>4 DEF FocusedTableKey
    <3>5. selected' \in BOOLEAN
      BY <2>4 DEF FocusedTableKey, ClearSelectedIncident
    <3> QED BY <2>1, <3>1, <3>2, <3>3, <3>4, <3>5
  <2> QED BY <1>2, <2>2, <2>3, <2>4 DEF TableKey
<1> QED BY <1>1, <1>2

(* A key is handled by one of the handlers, or quits.                      *)
LEMMA KeyKeeps ==
    ASSUME KeyInv, NEW k \in Keys, PressKey(k)
    PROVE  KeyInv'
<1>1. running' \in BOOLEAN /\ pressed' \in BOOLEAN BY DEF PressKey
<1>2. CASE Quits(k)
  <2>1. UNCHANGED <<open, keyVars, listVars, tableFocused, posted>>
    BY <1>2 DEF PressKey
  <2> QED BY <1>1, <2>1
<1>3. CASE ~Quits(k)
  <2>1. KeyKept
    <3>1. \/ ConfirmKey(k) \/ ChatKey(k) \/ ChordKey(k) \/ InputKey(k) \/ GlobalKey(k)
          \/ FormKey(k) \/ IncidentKey(k) \/ TableKey(k) \/ TourKey(k) \/ ErrorKey(k)
          \/ ClusterKey(k) \/ MergeKey(k) \/ LogKey(k) \/ DocsKey(k) \/ ApprovalsKey(k)
      BY ONLY <1>3, PressKey(k) DEF PressKey
    <3> QED BY ONLY <3>1, KeyInv, k \in Keys, ViewKeys, OwnKeys, IncidentKeys
  <2> QED BY <1>1, <2>1
<1> QED BY <1>2, <1>3

(* A message only opens views and posts replies of the declared kinds; the *)
(* merge confirmation, the one that takes a source away, leaves its mode.  *)
LEMMA MessageKeeps ==
    ASSUME KeyInv, Message, UNCHANGED pressed
    PROVE  KeyInv'
<1> USE DEF Receive, Answer
<1>1. CASE LogFileContent BY <1>1 DEF LogFileContent
<1>2. CASE RenderDocs BY <1>2 DEF RenderDocs
<1>3. CASE RenderedDocs
  <2>1. open' \subseteq open \cup {"docs"} /\ posted' \subseteq posted \cup {"errMsg"}
    BY <1>3 DEF RenderedDocs
  <2>2. UNCHANGED <<keyVars, listVars, tableFocused, running>> BY <1>3 DEF RenderedDocs
  <2> QED BY <2>1, <2>2
<1>4. CASE RenderIncident BY <1>4 DEF RenderIncident
<1>5. CASE RenderedIncident
  <2>1. /\ open' \subseteq open \cup {"incident"}
        /\ posted' \subseteq posted \cup {"errMsg"}
    BY <1>5 DEF RenderedIncident
  <2>2. UNCHANGED <<keyVars, listVars, tableFocused, running>>
    BY <1>5 DEF RenderedIncident
  <2> QED BY <2>1, <2>2
<1>6. CASE ErrMsg BY <1>6 DEF ErrMsg
<1>7. CASE ClearSelectedIncidents
  BY <1>7 DEF ClearSelectedIncidents, ClearSelectedIncident
<1>8. CASE FetchedTeams BY <1>8 DEF FetchedTeams
<1>9. CASE ConfigWizardReady BY <1>9 DEF ConfigWizardReady
<1>10. CASE ConfigSaved BY <1>10 DEF ConfigSaved
<1>11. CASE EnterBulkSilence BY <1>11 DEF EnterBulkSilence
<1>12. CASE Login
  <2>1. open' \subseteq open \cup {"cluster"} /\ posted' \subseteq posted
    BY <1>12 DEF Login
  <2>2. UNCHANGED <<keyVars, listVars, tableFocused, running>> BY <1>12 DEF Login
  <2> QED BY <2>1, <2>2
<1>13. CASE RosaLogin
  <2>1. open' \subseteq open \cup {"cluster"} /\ posted' \subseteq posted
    BY <1>13 DEF RosaLogin
  <2>2. rosa' \in BOOLEAN BY <1>13 DEF RosaLogin
  <2>3. UNCHANGED <<prompt, tagging, backToIncident, source, answered, listVars,
                    tableFocused, running>>
    BY <1>13 DEF RosaLogin
  <2> QED BY <2>1, <2>2, <2>3
<1>14. CASE MergeIncident BY <1>14 DEF MergeIncident, LeaveMerge
<1>15. CASE ListFlags BY <1>15 DEF ListFlags
<1>16. CASE Huh BY <1>16 DEF Huh
<1> QED
    BY <1>1, <1>2, <1>3, <1>4, <1>5, <1>6, <1>7, <1>8, <1>9, <1>10, <1>11,
       <1>12, <1>13, <1>14, <1>15, <1>16 DEF Message

LEMMA BackgroundKeeps ==
    ASSUME KeyInv, Background, UNCHANGED pressed
    PROVE  KeyInv'
<1>1. ASSUME NEW m \in Messages, Post(m) PROVE KeyInv' BY <1>1 DEF Post
<1>2. CASE Poll BY <1>2 DEF Poll
<1>3. CASE FetchFails BY <1>3 DEF FetchFails
<1> QED BY <1>1, <1>2, <1>3 DEF Background

(* The types and the source of a merge, in every reachable state, however  *)
(* much is open or on its way.                                             *)
THEOREM KeysInductive == Spec => []KeyInv
<1>1. Init => KeyInv BY DEF Init
<1>2. KeyInv /\ [Next]_vars => KeyInv'
  <2> SUFFICES ASSUME KeyInv, [Next]_vars PROVE KeyInv' OBVIOUS
  <2>1. CASE Key BY <2>1, KeyKeeps DEF Key
  <2>2. CASE Message /\ UNCHANGED pressed BY <2>2, MessageKeeps
  <2>3. CASE Background /\ UNCHANGED pressed BY <2>3, BackgroundKeeps
  <2>4. CASE UNCHANGED vars BY <2>4 DEF vars
  <2> QED BY ONLY <2>1, <2>2, <2>3, <2>4, [Next]_vars DEF Next
<1> QED BY <1>1, <1>2, PTL DEF Spec

(* View never meets a merge without the incident it merges from.           *)
THEOREM MergeKeepsItsSource == Spec => []MergeHasSource
<1>1. KeyInv => MergeHasSource OBVIOUS
<1> QED BY KeysInductive, <1>1, PTL

HIDE DEF KeyInv, TypeOK, MergeHasSource, KeyKept, Modes, Messages, keyVars, listVars,
         Opens, Closes, Posts

-----------------------------------------------------------------------------
(* The bench, for every value of the constants.                            *)

(* An approved note or re-escalation hits what set off its investigation   *)
(* (approvals.go, acceptApproval).                                         *)
THEOREM ActsOnItsOrigin == BenchSpec => []ActsOnOrigin
<1>1. BenchInit => Approval!Init
  BY DEF BenchInit
<1>2. [BenchNext]_benchVars => [Approval!Next]_(Approval!vars)
  BY BenchParts
<1>3. ApprovalInv => ActsOnOrigin
  BY DEF ApprovalInv, AsksOnOrigin, ActsOnOrigin
<1> QED BY <1>1, <1>2, <1>3, ApprovalsStart, ApprovalsStep, PTL DEF BenchSpec

(* The pane shows the watcher as analyzing only while a query of the       *)
(* watcher, its stream or its typewriter is still to come (watcher.go).    *)
THEOREM AnalyzingEnds == BenchSpec => []AnalyzingIsQuery
<1>1. BenchInit => Feed!Init
  BY DEF BenchInit
<1>2. [BenchNext]_benchVars => [Feed!Next]_(Feed!vars)
  BY BenchParts
<1>3. FeedInv => AnalyzingIsQuery
  BY DEF FeedInv, AnalyzingIsQuery
<1>4. FeedInv /\ [Feed!Next]_(Feed!vars) => FeedInv'
  BY FeedPreserved DEF StepOK
<1> QED BY <1>1, <1>2, <1>3, <1>4, FeedStarts, PTL DEF BenchSpec

(* A stream or a typewriter that a newer one has superseded adds no word   *)
(* to the watcher pane (stream.go, typewriterTick).                        *)
THEOREM SupersededStaysSilent == BenchSpec => SupersededSilent
<1>1. BenchInit => Feed!Init
  BY DEF BenchInit
<1>2. BenchSpec => Feed!Spec
  BY <1>1, BenchParts, PTL DEF BenchSpec, Feed!Spec
<1> QED BY <1>2, SupersededIsSilent DEF SupersededSilent

(* While a save that backs up may leave the file torn, the backup is whole *)
(* and holds what the save read (config.go).                               *)
THEOREM BackupBehindSave == BenchSpec => []BackedUp
<1>1. BenchInit => Config!Init
  BY DEF BenchInit
<1>2. BenchSpec => Config!Spec
  BY <1>1, BenchParts, PTL DEF BenchSpec, Config!Spec
<1>3. Config!BackedUp <=> BackedUp
  BY DEF BackedUp
<1> QED BY <1>2, <1>3, BackupKept, PTL

(* Whatever the file, the environment and the preset held, and whoever     *)
(* else writes, a save that is over leaves in the file what the user       *)
(* confirmed, but for cleared mappings, for values of the environment in a *)
(* file that exists, and for the login command in a new one.               *)
THEOREM SavedAsConfirmed == BenchSpec => ConfirmedIsSaved
<1>1. BenchInit => Config!Init
  BY DEF BenchInit
<1>2. BenchSpec => Config!Spec
  BY <1>1, BenchParts, PTL DEF BenchSpec, Config!Spec
<1> QED BY <1>2, ConfirmedIsKept DEF ConfirmedIsSaved

(* The variables of all four parts keep their types.                       *)
THEOREM TypesKept == BenchSpec => []TypesOK
<1>1. BenchInit => Init /\ Approval!Init /\ Feed!Init /\ Config!Init
  BY DEF BenchInit
<1>2. BenchSpec => Spec
  BY <1>1, BenchParts, PTL DEF BenchSpec, Spec
<1>3. BenchSpec => [](ApprovalInv /\ FeedInv /\ ConfigInv)
  <2>1. FeedInv /\ [Feed!Next]_(Feed!vars) => FeedInv'
    BY FeedPreserved DEF StepOK
  <2> QED BY <1>1, <2>1, BenchParts, ApprovalsStart, ApprovalsStep, FeedStarts, ConfigStarts,
             ConfigPreserved, PTL DEF BenchSpec
<1>4. KeyInv /\ ApprovalInv /\ FeedInv /\ ConfigInv => TypesOK
  BY FeedTyped DEF KeyInv, ApprovalInv, ConfigInv, TypesOK
<1> QED BY <1>2, <1>3, <1>4, KeysInductive, PTL
=============================================================================
