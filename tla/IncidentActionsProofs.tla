----------------------- MODULE IncidentActionsProofs -----------------------
(***************************************************************************)
(* Proofs about the incident table and its actions, for any incidents in   *)
(* any order, and any number of changes and inputs: that a bulk silence    *)
(* and a swept acknowledgement hit no incident that was not named for      *)
(* them, and that a refresh leaves the selection on its incident.          *)
(*                                                                         *)
(* The invariant says of every message under way what the last of the      *)
(* steps from the form or the poll to the call relies on: a request that   *)
(* names its incidents carries them, and no step in between replaces them  *)
(* by what is selected.  The second property rests on rows being distinct. *)
(***************************************************************************)
EXTENDS IncidentActions, FiniteSetTheorems, TLAPS

Acts == {"ack", "silence", "reescalate", "bulk"}

(* What a message of each kind has to carry.                               *)
Named(a) == a.from \in {"form", "sweep"} =>
                /\ a.of # None /\ a.of \subseteq a.named
Good(a) ==
    /\ a.m \in Acts => /\ Named(a)
                       /\ a.of \in Maybe(SUBSET Incidents)
                       /\ a.named \subseteq Incidents
    /\ a.m = "updatedIncidentList" => a.got \in Snapshots
    /\ a.m \in {"checkOnCall", "acted"} => a.ids \subseteq Incidents
    /\ a.m = "gotIncident" => a.id \in Incidents

(* A chain has one or two messages.                                        *)
GoodChain(c) ==
    \/ c = <<c[1]>> /\ Good(c[1])
    \/ c = <<c[1], c[2]>> /\ Good(c[1]) /\ Good(c[2])

NetOK == \A c \in net : GoodChain(c)

IInv ==
    /\ TypeOK
    /\ NetOK
    /\ prompt # None => Good(prompt)
    /\ HitsNamed

-----------------------------------------------------------------------------
(* Listed incidents have rows of their own, so the one in the row of a     *)
(* listed incident is that incident.                                       *)
LEMMA RowsDiffer ==
    ASSUME NEW l \in Snapshots, NEW i \in l.all, NEW j \in l.all,
           RowOf(l, i) = RowOf(l, j)
    PROVE  i = j
<1> DEFINE upTo(x) == {y \in l.all : Order[y] <= Order[x]}
<1>1. l.all \in SUBSET Incidents /\ IsFiniteSet(l.all)
  <2>1. l.all \in SUBSET Incidents BY DEF Snapshots
  <2> QED BY <2>1, ActionsAssumption, FS_Subset
<1>2. \A x \in l.all : Order[x] \in Nat BY <1>1, ActionsAssumption
<1>3. ASSUME NEW x \in l.all, NEW y \in l.all, Order[x] < Order[y]
      PROVE  Cardinality(upTo(x)) # Cardinality(upTo(y))
  <2>1. upTo(x) \in SUBSET upTo(y) BY <1>2, <1>3
  <2>2. y \in upTo(y) /\ y \notin upTo(x) BY <1>2, <1>3
  <2>3. IsFiniteSet(upTo(y)) BY <1>1, FS_Subset
  <2> HIDE DEF upTo
  <2> QED BY <2>1, <2>2, <2>3, FS_Subset
<1>4. Order[i] = Order[j]
  <2>1. Cardinality(upTo(i)) = Cardinality(upTo(j)) BY DEF RowOf
  <2> HIDE DEF upTo
  <2> QED BY <2>1, <1>2, <1>3
<1> QED BY <1>1, <1>4, ActionsAssumption

LEMMA RowFacts ==
    ASSUME NEW l \in Snapshots
    PROVE  /\ Rows(l) \in Nat
           /\ \A i \in l.all : RowOf(l, i) \in 1..Rows(l) /\ RowIn(l, RowOf(l, i)) = i
           /\ \A k : RowIn(l, k) \in Maybe(l.all)
<1>1. l.all \in SUBSET Incidents /\ IsFiniteSet(l.all)
  <2>1. l.all \in SUBSET Incidents BY DEF Snapshots
  <2> QED BY <2>1, ActionsAssumption, FS_Subset
<1>2. Rows(l) \in Nat BY <1>1, FS_CardinalityType DEF Rows
<1>3. ASSUME NEW i \in l.all PROVE RowOf(l, i) \in 1..Rows(l)
  <2> DEFINE F == {y \in l.all : Order[y] <= Order[i]}
  <2>1. F \in SUBSET l.all OBVIOUS
  <2>2. i \in F BY <1>1, ActionsAssumption
  <2>3. RowOf(l, i) = Cardinality(F) BY DEF RowOf
  <2> HIDE DEF F
  <2>4. IsFiniteSet(F) /\ Cardinality(F) <= Cardinality(l.all)
    BY <1>1, <2>1, FS_Subset
  <2>5. Cardinality(F) \in Nat /\ Cardinality(F) # 0
    BY <2>2, <2>4, FS_CardinalityType, FS_EmptySet
  <2> QED BY <1>2, <2>3, <2>4, <2>5 DEF Rows
<1>4. ASSUME NEW i \in l.all PROVE RowIn(l, RowOf(l, i)) = i
  <2>1. \A j \in l.all : RowOf(l, j) = RowOf(l, i) => j = i BY RowsDiffer
  <2> QED BY <2>1 DEF RowIn
<1>5. ASSUME NEW k PROVE RowIn(l, k) \in Maybe(l.all)
  BY DEF RowIn, Maybe
<1> QED BY <1>2, <1>3, <1>4, <1>5

-----------------------------------------------------------------------------
LEMMA Single == ASSUME NEW a, Good(a) PROVE GoodChain(<<a>>)
BY DEF GoodChain

LEMMA Double == ASSUME NEW a, NEW b, Good(a), Good(b) PROVE GoodChain(<<a, b>>)
BY DEF GoodChain

(* Messages that name nothing.                                             *)
LEMMA Plain ==
    /\ \A i \in Incidents : Good(Fetched(i))
    /\ Good(Clear) /\ Good(Render) /\ Good(Rendered)
    /\ \A l \in Snapshots : Good(Listed(l))
    /\ \A ids \in SUBSET Incidents : Good(OnCallCheck(ids)) /\ Good(Acted(ids))
BY DEF Good, Acts, Fetched, Acted, Clear, Render, Rendered, Listed, OnCallCheck

LEMMA PlainChains ==
    /\ \A i \in Incidents : GoodChain(<<Fetched(i)>>) /\ GoodChain(<<Render, Fetched(i)>>)
    /\ GoodChain(<<Clear>>) /\ GoodChain(<<Render>>) /\ GoodChain(<<Rendered>>)
    /\ \A l \in Snapshots : GoodChain(<<Listed(l)>>)
    /\ \A ids \in SUBSET Incidents :
          GoodChain(<<OnCallCheck(ids)>>) /\ GoodChain(<<Acted(ids), Clear>>)
BY Plain, Single, Double

(* The head of a chain is good, and so is what is left of it.              *)
LEMMA Heads ==
    ASSUME NEW c, GoodChain(c)
    PROVE  Good(Head(c)) /\ (Len(c) > 1 => GoodChain(Tail(c)))
<1>1. CASE c = <<c[1]>> /\ Good(c[1])
  <2> DEFINE one == c[1]
  <2>1. c = <<one>> /\ Good(one) BY ONLY <1>1
  <2> HIDE DEF one
  <2>2. Head(<<one>>) = one /\ Len(<<one>>) = 1 OBVIOUS
  <2>3. ~(Len(<<one>>) > 1) BY ONLY <2>2
  <2>4. Head(c) = one /\ ~(Len(c) > 1) BY ONLY <2>1, <2>2, <2>3, Zenon
  <2> QED BY ONLY <2>1, <2>4, Zenon
<1>2. CASE c = <<c[1], c[2]>> /\ Good(c[1]) /\ Good(c[2])
  <2>1. /\ Head(<<c[1], c[2]>>) = c[1] /\ Tail(<<c[1], c[2]>>) = <<c[2]>>
    OBVIOUS
  <2>2. GoodChain(<<c[2]>>) BY <1>2, Single
  <2> QED BY <1>2, <2>1, <2>2
<1> QED BY <1>1, <1>2 DEF GoodChain

(* No chain is empty.                                                      *)
LEMMA ChainsAreLong == \A c : GoodChain(c) => c # <<>>
<1> SUFFICES ASSUME NEW c, GoodChain(c) PROVE c # <<>> OBVIOUS
<1>1. <<c[1]>> # <<>> /\ <<c[1], c[2]>> # <<>> OBVIOUS
<1> QED BY ONLY GoodChain(c), <1>1 DEF GoodChain

(* Taking a chain off the net and putting good ones on it keeps it good.   *)
LEMMA TakeKeeps ==
    ASSUME NetOK, NEW c \in net, NEW chains, Take(c, chains),
           \A d \in chains : GoodChain(d)
    PROVE  NetOK'
<1> SUFFICES ASSUME NEW d \in net' PROVE GoodChain(d) BY DEF NetOK
<1>1. d \in net \/ d \in chains \/ (Len(c) > 1 /\ d = Tail(c)) BY DEF Take
<1>2. GoodChain(c) BY DEF NetOK
<1>3. Len(c) > 1 => GoodChain(Tail(c)) BY ONLY <1>2, Heads
<1> QED BY <1>1, <1>3 DEF NetOK

LEMMA SendKeeps ==
    ASSUME NetOK, NEW chains, Send(chains), \A d \in chains : GoodChain(d)
    PROVE  NetOK'
<1>1. \A d \in net' : d \in net \/ d \in chains BY DEF Send
<1> QED BY <1>1 DEF NetOK

LEMMA Prefetched ==
    ASSUME NEW i, NEW fetch \in Prefetch(i) PROVE \A d \in fetch : GoodChain(d)
<1>1. fetch = {} \/ (i \in Incidents /\ fetch = {<<Fetched(i)>>}) BY DEF Prefetch
<1>2. i \in Incidents => GoodChain(<<Fetched(i)>>) BY PlainChains
<1> QED BY ONLY <1>1, <1>2

(* What rows the list has, and what is highlighted in it.                  *)
LEMMA Shown ==
    ASSUME TypeOK
    PROVE  /\ \A l \in Snapshots : l.all \in SUBSET Incidents /\ l.todo \in SUBSET Incidents
           /\ Rows(list) \in Nat
           /\ \A l \in Snapshots : \A k : RowIn(l, k) \in Maybe(Incidents)
           /\ Highlighted \in Maybe(Incidents)
<1>1. \A l \in Snapshots : l.all \in SUBSET Incidents /\ l.todo \in SUBSET Incidents
  BY DEF Snapshots
<1>2. list \in Snapshots BY DEF TypeOK
<1>3. \A l \in Snapshots : \A k : RowIn(l, k) \in Maybe(l.all) BY RowFacts
<1>4. \A l \in Snapshots : \A k : RowIn(l, k) \in Maybe(Incidents) BY <1>1, <1>3 DEF Maybe
<1>5. Rows(list) \in Nat BY <1>2, RowFacts
<1> QED BY <1>1, <1>2, <1>4, <1>5 DEF Highlighted

-----------------------------------------------------------------------------
(* Messages.  Each lemma takes the handlers of one kind.                   *)
LEMMA ListKeeps ==
    ASSUME IInv, NEW c \in net, ListArrives(c) PROVE IInv'
<1> DEFINE l == Head(c).got
           k == Restored(Highlighted, l)
<1>1. Good(Head(c)) /\ Head(c).m = "updatedIncidentList"
  BY Heads DEF IInv, NetOK, ListArrives, Is
<1>2. l \in Snapshots BY <1>1 DEF Good
<1>3. /\ list' = l /\ cursor' = k /\ selected' = RowIn(l, k)
      /\ UNCHANGED <<server, viewing, prompt, form, changes, inputs, last>>
  BY DEF ListArrives, bounds
<1>4. PICK fetch \in Prefetch(IF selected' = selected THEN None ELSE selected'),
           sweep \in {{}, Sweep(l)} : Take(c, fetch \cup sweep)
  BY DEF ListArrives
<1>5. \A d \in fetch : GoodChain(d) BY Prefetched
<1>6. \A d \in sweep : GoodChain(d)
  <2>1. l.todo \in SUBSET Incidents BY <1>2 DEF Snapshots
  <2>2. GoodChain(<<OnCallCheck(l.todo)>>) BY <2>1, PlainChains
  <2> HIDE DEF l
  <2> QED BY <2>2 DEF Sweep
<1>7. NetOK' BY <1>4, <1>5, <1>6, TakeKeeps DEF IInv
<1>8. k \in 0..Rows(l) \cup {1}
  <2>1. Rows(l) \in Nat /\ \A i \in l.all : RowOf(l, i) \in 1..Rows(l) BY <1>2, RowFacts
  <2>2. cursor \in Nat
    <3>1. cursor \in 0..Rows(list) \cup {1} /\ Rows(list) \in Nat BY Shown DEF IInv, TypeOK
    <3> QED BY <3>1
  <2>3. Clamped(cursor, Rows(l)) \in 0..Rows(l) BY <2>1, <2>2 DEF Clamped
  <2> QED BY <2>1, <2>3 DEF Restored
<1>9. selected' \in Maybe(Incidents) BY <1>2, <1>3, Shown DEF IInv
<1>10. TypeOK' BY <1>2, <1>3, <1>7, <1>8, <1>9, ChainsAreLong DEF NetOK, IInv, TypeOK
<1> QED BY <1>3, <1>7, <1>10 DEF IInv, HitsNamed

LEMMA CheckKeeps ==
    ASSUME IInv, NEW c \in net, OnCallChecked(c) PROVE IInv'
<1>1. Good(Head(c)) /\ Head(c).m = "checkOnCall"
  BY Heads DEF IInv, NetOK, OnCallChecked, Is
<1>2. Head(c).ids \in SUBSET Incidents BY <1>1 DEF Good
<1>3. Good(Ask("ack", Head(c).ids, "sweep", Head(c).ids))
  BY <1>2, ActionsAssumption DEF Good, Acts, Ask, Named, Maybe
<1>4. GoodChain(<<Ask("ack", Head(c).ids, "sweep", Head(c).ids)>>) BY <1>3, Single
<1>5. NetOK'
  <2>1. PICK chains \in {{<<Ask("ack", Head(c).ids, "sweep", Head(c).ids)>>}, {}} :
             Take(c, chains)
    BY DEF OnCallChecked, OffCall
  <2> QED BY <1>4, <2>1, TakeKeeps DEF IInv
<1>6. UNCHANGED <<server, ui, changes, inputs, last>> BY DEF OnCallChecked, bounds
<1>7. TypeOK' BY <1>5, <1>6, ChainsAreLong DEF NetOK, IInv, TypeOK, ui
<1> QED BY <1>5, <1>6, <1>7 DEF IInv, HitsNamed, ui

LEMMA ShowKeeps ==
    ASSUME IInv, NEW c \in net,
           Cleared(c) \/ GotIncident(c) \/ RenderIncident(c) \/ RenderedIncident(c)
    PROVE  IInv'
<1>1. PICK chains \in {{}, {<<Render>>}, {<<Rendered>>}} : Take(c, chains)
  BY DEF Cleared, GotIncident, RenderIncident, RenderedIncident
<1>2. NetOK' BY <1>1, PlainChains, TakeKeeps DEF IInv
<1>3. /\ UNCHANGED <<server, list, cursor, form, changes, inputs, last>>
      /\ prompt' \in {None, prompt}
  BY DEF Cleared, ClearSelected, GotIncident, RenderIncident, RenderedIncident, bounds
<1>4. viewing' \in BOOLEAN
  BY DEF Cleared, ClearSelected, GotIncident, RenderIncident, RenderedIncident, IInv, TypeOK
<1>5. selected' \in Maybe(Incidents)
  <2>1. CASE GotIncident(c)
    <3>1. Head(c).m = "gotIncident" /\ Good(Head(c))
      BY <2>1, Heads DEF IInv, NetOK, GotIncident, Is
    <3>2. Head(c).id \in Incidents BY <3>1 DEF Good
    <3>3. selected' \in {selected, Head(c).id, None} BY <2>1 DEF GotIncident
    <3> QED BY <3>2, <3>3 DEF IInv, TypeOK, Maybe
  <2>2. CASE ~GotIncident(c)
    BY <2>2 DEF Cleared, ClearSelected, RenderIncident, RenderedIncident, IInv, TypeOK, Maybe
  <2> QED BY <2>1, <2>2
<1>6. prompt' # None => prompt' = prompt BY <1>3
<1>7. TypeOK'
  BY <1>2, <1>3, <1>4, <1>5, ChainsAreLong DEF NetOK, IInv, TypeOK, Maybe
<1> QED BY <1>2, <1>3, <1>7 DEF IInv, HitsNamed

(* A request from the form or the sweep hits what it carries.              *)
LEMMA ActKeeps ==
    ASSUME IInv, NEW c \in net, Act(c) PROVE IInv'
<1> DEFINE a == Head(c)
           hit == Target(a.of)
<1>1. /\ a.m \in Acts /\ Named(a)
      /\ a.of \in Maybe(SUBSET Incidents) /\ a.named \subseteq Incidents
  BY Heads DEF IInv, NetOK, Act, Acts, Good
<1>2. UNCHANGED <<server, ui, changes, inputs>> BY DEF Act, bounds
<1>3. a.from \in {"form", "sweep"} => hit \subseteq a.named
  BY <1>1 DEF Named, Target
<1>4. hit \in SUBSET Incidents
  BY <1>1 DEF Target, IInv, TypeOK, Maybe
<1>5. HitsNamed' /\ last'.hit \subseteq Incidents /\ last'.named \subseteq Incidents
  <2>1. \/ last' = last
        \/ /\ a.from \in {"form", "sweep"}
           /\ last' = [from |-> a.from, hit |-> hit, named |-> a.named]
    BY DEF Act
  <2> QED BY <1>1, <1>3, <1>4, <2>1 DEF IInv, HitsNamed, TypeOK
<1>6. NetOK'
  <2>1. PICK chains \in {{}, Calls(a.m, hit)} : Take(c, chains) BY DEF Act
  <2>2. \A i \in hit : {i} \in SUBSET Incidents BY <1>4
  <2>3. \A d \in Calls(a.m, hit) : GoodChain(d)
    <3>1. GoodChain(<<Acted(hit), Clear>>) /\ GoodChain(<<Clear>>)
          /\ \A i \in hit : GoodChain(<<Acted({i}), Clear>>)
      BY <1>4, <2>2, PlainChains
    <3> HIDE DEF hit, a
    <3> QED BY <1>1, <3>1 DEF Calls, Acts
  <2> QED BY <2>1, <2>3, TakeKeeps DEF IInv
<1>7. TypeOK' BY <1>2, <1>5, <1>6, ChainsAreLong DEF NetOK, IInv, TypeOK, ui
<1> QED BY <1>2, <1>5, <1>6, <1>7 DEF IInv, ui

LEMMA CallKeeps ==
    ASSUME IInv, NEW c \in net, CallReturns(c) PROVE IInv'
<1>1. server' \in Snapshots
  BY DEF CallReturns, IInv, TypeOK, Snapshots
<1>2. PICK chains \in {{<<Listed(server')>>}, {}} : Take(c, chains)
  BY DEF CallReturns
<1>3. NetOK' BY <1>1, <1>2, PlainChains, TakeKeeps DEF IInv
<1>4. UNCHANGED <<ui, changes, inputs, last>> BY DEF CallReturns, bounds
<1>5. TypeOK' BY <1>1, <1>3, <1>4, ChainsAreLong DEF NetOK, IInv, TypeOK, ui
<1> QED BY <1>3, <1>4, <1>5 DEF IInv, HitsNamed, ui

-----------------------------------------------------------------------------
(* Keys and what PagerDuty does by itself.                                 *)
LEMMA ServerKeeps ==
    ASSUME IInv, ServerChanges \/ Poll PROVE IInv'
<1>1. changes' \in 0..MaxChanges /\ inputs' \in 0..MaxInputs
  BY ActionsAssumption DEF ServerChanges, Poll, IInv, TypeOK
<1>2. UNCHANGED <<ui, last>> BY DEF ServerChanges, Poll
<1>3. server' \in Snapshots BY DEF ServerChanges, Poll, IInv, TypeOK, Snapshots
<1>4. NetOK'
  <2>1. CASE ServerChanges BY <2>1 DEF ServerChanges, IInv, NetOK
  <2>2. CASE Poll
    <3>1. GoodChain(<<Listed(server)>>) BY PlainChains DEF IInv, TypeOK
    <3> QED BY <2>2, <3>1, SendKeeps DEF Poll, IInv
  <2> QED BY <2>1, <2>2
<1>5. TypeOK' BY <1>1, <1>2, <1>3, <1>4, ChainsAreLong DEF NetOK, IInv, TypeOK, ui
<1> QED BY <1>2, <1>4, <1>5 DEF IInv, HitsNamed, ui

(* A key counts as an input.                                               *)
LEMMA KeyCounts ==
    ASSUME IInv, Key
    PROVE  inputs' \in 0..MaxInputs /\ UNCHANGED <<server, list, changes, last>>
BY ActionsAssumption DEF Key, IInv, TypeOK

(* Keys that ask for data only, or for an acknowledgement by hand.         *)
LEMMA MoveKeeps ==
    ASSUME IInv,
           MoveTo \/ Refresh \/ Enter \/ Back \/ AckFromTable \/ AckFromView
    PROVE  IInv'
<1>1. /\ inputs' \in 0..MaxInputs /\ UNCHANGED <<server, list, changes, last>>
      /\ form' = form /\ prompt' \in {None, prompt}
  BY KeyCounts
  DEF MoveTo, Refresh, Enter, Back, AckFromTable, AckFromView, ClearSelected,
      TableKey, ViewKey
<1>2. NetOK'
  <2>1. CASE MoveTo
    <3>1. PICK fetch \in Prefetch(IF selected' = selected THEN None ELSE selected') :
               Send(fetch)
      BY <2>1 DEF MoveTo
    <3> QED BY <3>1, Prefetched, SendKeeps DEF IInv
  <2>2. CASE Refresh
    <3>1. GoodChain(<<Listed(server)>>) BY PlainChains DEF IInv, TypeOK
    <3> QED BY <2>2, <3>1, SendKeeps DEF Refresh, IInv
  <2>3. CASE Enter
    <3>1. Highlighted \in Incidents BY <2>3, Shown DEF Enter, IInv, Maybe
    <3>2. GoodChain(<<Render, Fetched(Highlighted)>>) BY <3>1, PlainChains
    <3> QED BY <2>3, <3>2, SendKeeps DEF Enter, IInv
  <2>4. CASE Back
    <3>1. PICK fetch \in Prefetch(Highlighted) : Send(fetch) BY <2>4 DEF Back
    <3> QED BY <3>1, Prefetched, SendKeeps DEF IInv
  <2>5. CASE AckFromTable \/ AckFromView
    <3>1. Good(Ask("ack", None, "key", {})) BY DEF Good, Ask, Named, Maybe
    <3>2. GoodChain(<<Ask("ack", None, "key", {})>>) BY <3>1, Single
    <3>3. Send({<<Ask("ack", None, "key", {})>>})
      BY <2>5 DEF AckFromTable, AckFromView
    <3> QED BY <3>2, <3>3, SendKeeps DEF IInv
  <2> QED BY <2>1, <2>2, <2>3, <2>4, <2>5
<1>3. cursor' \in 0..Rows(list) \cup {1}
  <2>1. cursor' = cursor \/ cursor' \in 1..Rows(list)
    BY DEF MoveTo, Refresh, Enter, Back, AckFromTable, AckFromView
  <2> QED BY <2>1, Shown DEF IInv, TypeOK
<1>4. selected' \in Maybe(Incidents)
  <2>1. selected' \in {selected, None} \/ \E k : selected' = RowIn(list, k)
    BY DEF MoveTo, Refresh, ClearSelected, Enter, Back, AckFromTable, AckFromView,
           Highlighted, Sync
  <2>2. \A k : RowIn(list, k) \in Maybe(Incidents) BY Shown DEF IInv, TypeOK
  <2> QED BY <2>1, <2>2 DEF IInv, TypeOK, Maybe
<1>5. viewing' \in BOOLEAN
  BY DEF MoveTo, Refresh, ClearSelected, Enter, Back, AckFromTable, AckFromView, IInv, TypeOK
<1>6. TypeOK'
  BY <1>1, <1>2, <1>3, <1>4, <1>5, ChainsAreLong DEF NetOK, IInv, TypeOK, Maybe, Rows
<1> QED BY <1>1, <1>2, <1>6 DEF IInv, HitsNamed

(* Keys that open, answer or drop a prompt.                                *)
LEMMA PromptKeeps ==
    ASSUME IInv,
           AskFromTable \/ AskFromView \/ EnterBulkSilence \/ Yes \/ No
    PROVE  IInv'
<1>1. CASE AskFromTable \/ AskFromView
  <2>1. PICK m \in {"silence", "reescalate"}, i \in {Highlighted, selected} \ {None} :
             prompt' = Ask(m, None, "prompt", {i})
    BY <1>1 DEF AskFromTable, AskFromView, Confirm
  <2>2. i \in Incidents BY Shown DEF IInv, TypeOK, Maybe
  <2>3. Good(prompt')
    BY <2>1, <2>2 DEF Good, Ask, Named, Acts, Maybe
  <2>4. prompt' \in [m : {"silence", "reescalate", "bulk"},
                     of : Maybe(SUBSET Incidents), from : {"prompt", "form"},
                     named : SUBSET Incidents]
    BY <2>1, <2>2 DEF Ask, Maybe
  <2>5. inputs' \in 0..MaxInputs /\ UNCHANGED <<server, list, changes, last>>
    BY <1>1, KeyCounts DEF AskFromTable, AskFromView, TableKey, ViewKey
  <2>6. UNCHANGED <<cursor, viewing, form, net>>
    BY <1>1 DEF AskFromTable, AskFromView
  <2>7. selected' \in Maybe(Incidents)
    <3>1. selected' = selected \/ selected' = RowIn(list, cursor)
      BY <1>1 DEF AskFromTable, AskFromView, Sync
    <3> QED BY <3>1, Shown DEF IInv, TypeOK
  <2>8. TypeOK' BY <2>4, <2>5, <2>6, <2>7 DEF IInv, TypeOK, Maybe, Rows
  <2> QED BY <2>3, <2>5, <2>6, <2>8 DEF IInv, HitsNamed, NetOK
<1>2. CASE EnterBulkSilence
  <2>1. inputs' \in 0..MaxInputs /\ UNCHANGED <<server, list, changes, last>>
    BY <1>2, KeyCounts DEF EnterBulkSilence
  <2>2. form' = list /\ UNCHANGED <<cursor, selected, viewing, prompt, net>>
    BY <1>2 DEF EnterBulkSilence
  <2>3. TypeOK' BY <2>1, <2>2 DEF IInv, TypeOK, Maybe, Rows
  <2> QED BY <2>1, <2>2, <2>3 DEF IInv, HitsNamed, NetOK
<1>3. CASE Yes \/ No
  <2>1. /\ prompt' = None
        /\ UNCHANGED <<server, list, cursor, selected, viewing, form, bounds, last>>
    BY <1>3 DEF Yes, No
  <2>2. NetOK'
    <3>1. CASE No BY <3>1 DEF No, IInv, NetOK
    <3>2. CASE Yes
      <4>1. GoodChain(<<prompt>>) BY <3>2, Single DEF Yes, IInv
      <4> QED BY <3>2, <4>1, SendKeeps DEF Yes, IInv
    <3> QED BY <1>3, <3>1, <3>2
  <2>3. TypeOK' BY <2>1, <2>2, ChainsAreLong DEF NetOK, IInv, TypeOK, Maybe, bounds, Rows
  <2> QED BY <2>1, <2>2, <2>3 DEF IInv, HitsNamed
<1> QED BY <1>1, <1>2, <1>3

(* The form names the chosen incidents and asks for those still listed.    *)
LEMMA FormKeeps ==
    ASSUME IInv, FormDone PROVE IInv'
<1>1. PICK chosen \in SUBSET form.all :
           prompt' = IF chosen = {} THEN None
                     ELSE Ask("bulk", Picked(chosen), "form", chosen)
  BY DEF FormDone
<1>2. chosen \in SUBSET Incidents
  BY DEF FormDone, IInv, TypeOK, Maybe, Snapshots
<1>3. Picked(chosen) \subseteq chosen /\ Picked(chosen) \in SUBSET Incidents
  BY <1>2 DEF Picked
<1>4. Good(Ask("bulk", Picked(chosen), "form", chosen))
  BY <1>2, <1>3, ActionsAssumption DEF Good, Ask, Named, Maybe
<1>5. prompt' \in Maybe([m : {"silence", "reescalate", "bulk"},
                         of : Maybe(SUBSET Incidents), from : {"prompt", "form"},
                         named : SUBSET Incidents])
  BY <1>1, <1>2, <1>3 DEF Ask, Maybe
<1>6. /\ form' = None
      /\ UNCHANGED <<server, list, cursor, selected, viewing, net, bounds, last>>
  BY DEF FormDone
<1>7. TypeOK' BY <1>5, <1>6 DEF IInv, TypeOK, Maybe, bounds, Rows
<1> QED BY <1>1, <1>4, <1>6, <1>7 DEF IInv, HitsNamed, NetOK

-----------------------------------------------------------------------------
(* Messages carry what they named, and every variable keeps its type.      *)
LEMMA InitHolds == Init => IInv
<1> SUFFICES ASSUME Init PROVE IInv OBVIOUS
<1>1. server \in Snapshots /\ list \in Snapshots BY DEF Init, Snapshots
<1>2. NetOK BY <1>1, PlainChains DEF Init, NetOK
<1>3. \A c \in net : c # <<>> BY <1>2, ChainsAreLong DEF NetOK
<1>4. cursor = 1 /\ changes \in 0..MaxChanges /\ inputs \in 0..MaxInputs
  BY ActionsAssumption DEF Init
<1>5. prompt = None /\ form = None /\ selected = None /\ viewing = FALSE BY DEF Init
<1>6. TypeOK BY <1>1, <1>3, <1>4, <1>5 DEF Init, TypeOK, Maybe
<1> QED BY <1>2, <1>6 DEF Init, IInv, HitsNamed

LEMMA NextKeeps == IInv /\ [Next]_vars => IInv'
<1> SUFFICES ASSUME IInv, [Next]_vars PROVE IInv' OBVIOUS
<1>1. CASE UNCHANGED vars
  BY <1>1 DEF vars, ui, bounds, IInv, TypeOK, HitsNamed, NetOK, Rows
<1>2. ASSUME NEW c \in net, Deliver(c) PROVE IInv'
  BY <1>2, ListKeeps, CheckKeeps, ShowKeeps, ActKeeps, CallKeeps DEF Deliver
<1> QED BY <1>1, <1>2, ServerKeeps, MoveKeeps, PromptKeeps, FormKeeps DEF Next

(* The strengthening behind the theorems below holds in every state.       *)
THEOREM Inductive == Spec => []IInv
BY InitHolds, NextKeeps, PTL DEF Spec

(* Every variable of the table and its actions keeps its type.             *)
THEOREM TypeCorrect == Spec => []TypeOK
<1>1. IInv => TypeOK BY DEF IInv
<1> QED BY Inductive, <1>1, PTL

(* Nobody is silenced or acknowledged by the form or the sweep who was not *)
(* named for it.                                                           *)
THEOREM OnlyNamedAreHit == Spec => []HitsNamed
<1>1. IInv => HitsNamed BY DEF IInv
<1> QED BY Inductive, <1>1, PTL

(* A refresh that still lists the highlighted and selected incident leaves *)
(* cursor and selection on it, in any order and however many rows move.    *)
THEOREM SelectionSurvives == Spec => RefreshKeepsSelection
<1>1. ASSUME IInv, [Next]_vars, list' # list, Highlighted # None,
             selected = Highlighted, Highlighted \in list'.all
      PROVE  selected' = selected /\ Highlighted' = Highlighted
  <2>1. ASSUME NEW c \in net, ListArrives(c)
        PROVE  selected' = selected /\ Highlighted' = Highlighted
    <3> DEFINE l == Head(c).got
    <3>1. l \in Snapshots
      BY <2>1, <1>1, Heads DEF IInv, NetOK, ListArrives, Is, Good
    <3>2. /\ list' = l /\ cursor' = Restored(Highlighted, l)
          /\ selected' = RowIn(l, Restored(Highlighted, l))
      BY <2>1 DEF ListArrives
    <3>3. RowIn(l, Restored(Highlighted, l)) = Highlighted
      <4>1. Highlighted \in l.all BY <1>1, <3>2
      <4> QED BY <3>1, <4>1, RowFacts DEF Restored
    <3>4. Highlighted' = RowIn(list', cursor') BY DEF Highlighted
    <3> QED BY <1>1, <3>2, <3>3, <3>4
  <2>2. CASE UNCHANGED list BY <1>1, <2>2
  <2>3. \A c \in net : Deliver(c) => ListArrives(c) \/ UNCHANGED list
    BY DEF Deliver, OnCallChecked, Cleared, GotIncident, RenderIncident,
           RenderedIncident, Act, CallReturns, ui
  <2>4. Next => (\E c \in net : Deliver(c)) \/ UNCHANGED list
    BY DEF Next, ServerChanges, Poll, MoveTo, Refresh, Enter, Back, AskFromTable,
           AskFromView, AckFromTable, AckFromView, EnterBulkSilence, FormDone, Yes, No,
           TableKey, ViewKey, Key, ui
  <2>5. UNCHANGED vars => UNCHANGED list BY DEF vars, ui
  <2> QED BY <1>1, <2>1, <2>2, <2>3, <2>4, <2>5
<1>2. IInv /\ [Next]_vars =>
        [/\ list' # list
         /\ Highlighted # None /\ selected = Highlighted
         /\ Highlighted \in list'.all
         => selected' = selected /\ Highlighted' = Highlighted]_vars
  BY <1>1
<1> QED BY Inductive, <1>2, PTL DEF Spec, RefreshKeepsSelection
=============================================================================
