--------------------------- MODULE ServicesProofs ---------------------------
(***************************************************************************)
(* The safety of the log writer for every number of callers, buffer size   *)
(* and report interval; of a streamed answer for every channel size and    *)
(* length; of the session index for every incident set, file and threshold;*)
(* and what the bench checks of the three, from these.                     *)
(***************************************************************************)
EXTENDS Services, SeqFacts

-----------------------------------------------------------------------------
(*                           The log writer                                *)

(* Two numbers in the same interval: if the larger is the interval's       *)
(* multiple, they are equal.                                               *)
LEMMA SameMultiple ==
    ASSUME NEW a \in Nat, NEW b \in Nat, NEW n \in Nat \ {0},
           b <= a, a \div n = b \div n, a % n = 0
    PROVE  a = b
<1> DEFINE q == a \div n
<1>1. a = n * q + (a % n) /\ b = n * (b \div n) + (b % n)
  OBVIOUS
<1>2. (b % n) \in Nat /\ q \in Int /\ b \div n = q
  OBVIOUS
<1>3. n * q \in Int
  BY <1>2
<1> HIDE DEF q
<1>4. a = n * q + 0 /\ b = n * q + (b % n)
  BY <1>1, <1>2
<1> QED BY <1>2, <1>3, <1>4

(* Division by the interval is monotone.                                   *)
LEMMA QuotientMonotone ==
    ASSUME NEW a \in Nat, NEW b \in Nat, NEW n \in Nat \ {0}, b <= a
    PROVE  b \div n <= a \div n
<1> DEFINE p == b \div n
           q == a \div n
<1>1. a = n * q + (a % n) /\ b = n * p + (b % n)
  OBVIOUS
<1>2. (a % n) \in 0..(n - 1) /\ (b % n) \in 0..(n - 1) /\ p \in Int /\ q \in Int
  OBVIOUS
<1> HIDE DEF p, q
<1>3. SUFFICES ASSUME q + 1 <= p PROVE FALSE
  BY <1>2 DEF p, q
<1>4. n * (q + 1) <= n * p
  BY <1>2, <1>3
<1>5. n * (q + 1) = n * q + n
  BY <1>2
<1>6. n * q \in Int /\ n * p \in Int
  BY <1>2
<1> QED BY <1>1, <1>2, <1>4, <1>5, <1>6

(* The initial state satisfies the inductive invariant.                    *)
LEMMA InitIInv == Init => IInv
<1> SUFFICES ASSUME Init PROVE IInv OBVIOUS
<1>1. out = <<>> /\ Len(out) = 0 /\ out \in Seq(Nat)
  BY DEF Init
<1>2. TypeOK
  <2>1. Len(out) <= Buffer
    BY <1>1, WriterAssumption
  <2>2. /\ mu \in Writers \cup Closers \cup {NoOne} /\ drain = "receive"
        /\ writer \in [Writers -> {"idle", "lock", "send"}]
        /\ closer \in [Closers -> {"idle", "lock", "wait", "returned"}]
    BY DEF Init
  <2>3. /\ closed \in BOOLEAN /\ outClosed \in BOOLEAN
        /\ accepted \in Nat /\ dropped \in Nat /\ calls \in Nat
        /\ lastReported \in Nat /\ written \in Nat /\ noticed \in Nat
    BY DEF Init
  <2> QED BY <1>1, <2>1, <2>2, <2>3 DEF TypeOK
<1>3. NoSendOnClosed /\ MutexSound
  BY WriterAssumption DEF Init, NoSendOnClosed, MutexSound
<1>4. FlushedOnClose /\ Conserved /\ Ended
  BY <1>1 DEF Init, FlushedOnClose, Conserved, Ended
<1>5. ReportedSoFar
  BY DEF Init, ReportedSoFar, LooksAgain
<1> QED BY <1>2, <1>3, <1>4, <1>5 DEF IInv

(* What no step of a caller that leaves the channel alone can disturb.     *)
LEMMA CallerStep ==
    ASSUME IInv, UNCHANGED <<out, accepted, dropped, drain, lastReported,
                             written, noticed>>,
           closed' \in BOOLEAN, outClosed => outClosed', outClosed' \in BOOLEAN
    PROVE  /\ FlushedOnClose' /\ Conserved' /\ ReportedSoFar' /\ Ended'
           /\ (out \in Seq(Nat) /\ Len(out) <= Buffer)'
<1>1. FlushedOnClose'
  BY DEF IInv, FlushedOnClose
<1>2. Conserved' /\ Ended'
  BY DEF IInv, Conserved, Ended
<1>3. ReportedSoFar'
  BY DEF IInv, ReportedSoFar, LooksAgain
<1> QED BY <1>1, <1>2, <1>3 DEF IInv, TypeOK

LEMMA CallIInv == ASSUME IInv, NEW w \in Writers, Call(w) PROVE IInv'
<1> USE DEF IInv, Call
<1>1. FlushedOnClose' /\ Conserved' /\ ReportedSoFar' /\ Ended'
  BY CallerStep DEF TypeOK
<1>2. TypeOK'
  BY DEF TypeOK
<1>3. NoSendOnClosed' /\ MutexSound'
  BY DEF NoSendOnClosed, MutexSound, TypeOK
<1> QED BY <1>1, <1>2, <1>3

LEMMA LockIInv == ASSUME IInv, NEW w \in Writers, Lock(w) PROVE IInv'
<1> USE DEF IInv, Lock
<1>1. FlushedOnClose' /\ Conserved' /\ ReportedSoFar' /\ Ended'
  BY CallerStep DEF TypeOK
<1>2. TypeOK'
  BY DEF TypeOK
<1>3. NoSendOnClosed' /\ MutexSound'
  BY WriterAssumption DEF NoSendOnClosed, MutexSound, TypeOK, MutexFree
<1> QED BY <1>1, <1>2, <1>3

LEMMA CallCloseIInv == ASSUME IInv, NEW c \in Closers, CallClose(c) PROVE IInv'
<1> USE DEF IInv, CallClose
<1>1. FlushedOnClose' /\ Conserved' /\ ReportedSoFar' /\ Ended'
  BY CallerStep DEF TypeOK
<1>2. TypeOK'
  BY DEF TypeOK
<1>3. NoSendOnClosed' /\ MutexSound'
  BY DEF NoSendOnClosed, MutexSound, TypeOK
<1> QED BY <1>1, <1>2, <1>3

LEMMA LockAndCloseIInv == ASSUME IInv, NEW c \in Closers, LockAndClose(c) PROVE IInv'
<1> USE DEF IInv, LockAndClose, ChannelClosed
<1>1. FlushedOnClose' /\ Conserved' /\ ReportedSoFar' /\ Ended'
  BY CallerStep DEF TypeOK
<1>2. TypeOK'
  BY DEF TypeOK
<1>3. NoSendOnClosed' /\ MutexSound'
  BY WriterAssumption DEF NoSendOnClosed, MutexSound, TypeOK, MutexFree
<1> QED BY <1>1, <1>2, <1>3

LEMMA CloseReturnIInv == ASSUME IInv, NEW c \in Closers, CloseReturn(c) PROVE IInv'
<1> USE DEF IInv, CloseReturn
<1>1. FlushedOnClose' /\ Conserved' /\ ReportedSoFar' /\ Ended'
  BY CallerStep DEF TypeOK
<1>2. TypeOK'
  BY DEF TypeOK
<1>3. NoSendOnClosed' /\ MutexSound'
  BY DEF NoSendOnClosed, MutexSound, TypeOK
<1> QED BY <1>1, <1>2, <1>3

(* Write's send: the number of an accepted message continues the queue,    *)
(* and a dropped one finds the queue full, so the goroutine looks again.   *)
LEMMA SendIInv == ASSUME IInv, NEW w \in Writers, Send(w) PROVE IInv'
<1> USE DEF IInv
<1>0. /\ mu = w /\ ~outClosed /\ drain # "done"
      /\ out \in Seq(Nat) /\ Len(out) \in Nat
  BY DEF Send, NoSendOnClosed, MutexSound, Ended, TypeOK
<1>1. NoSendOnClosed' /\ MutexSound'
  <2>1. \A v \in Writers \ {w} : writer[v] # "send" /\ writer'[v] = writer[v]
    BY <1>0 DEF Send, MutexSound, TypeOK
  <2>2. writer'[w] = "idle" /\ mu' = NoOne /\ NoOne \notin Writers
    BY WriterAssumption DEF Send, TypeOK
  <2> QED BY <2>1, <2>2, <1>0 DEF Send, NoSendOnClosed, MutexSound
<1>2. CASE Room /\ out' = Append(out, accepted + 1) /\ accepted' = accepted + 1
           /\ UNCHANGED dropped
  <2>1. /\ out' \in Seq(Nat) /\ Len(out') = Len(out) + 1
        /\ \A k \in DOMAIN out : out'[k] = out[k]
        /\ out'[Len(out) + 1] = accepted + 1
        /\ DOMAIN out' = 1..(Len(out) + 1) /\ DOMAIN out = 1..Len(out)
    BY <1>0, <1>2 DEF TypeOK
  <2> DEFINE hand == IF drain = "write" THEN 1 ELSE 0
  <2>a. /\ UNCHANGED <<closed, outClosed, closer, drain, lastReported, written,
                       noticed, calls>>
        /\ writer' = [writer EXCEPT ![w] = "idle"] /\ mu' = NoOne
        /\ accepted \in Nat /\ written \in Nat /\ hand \in Nat
        /\ accepted = written + hand + Len(out)
    BY DEF Send, TypeOK, Conserved
  <2>b. Len(out') <= Buffer /\ accepted' \in Nat
    BY <2>1, <2>a, <1>0, <1>2, WriterAssumption DEF Room
  <2>2. TypeOK'
    BY <2>1, <2>a, <2>b, <1>2 DEF TypeOK
  <2>c. hand' = hand /\ written' = written
    BY <2>a
  <2>d. \A k \in DOMAIN out : out[k] = written + hand + k
    BY DEF FlushedOnClose
  <2> HIDE DEF hand
  <2>e. \A k \in DOMAIN out' : out'[k] = written + hand + k
    <3>1. written + hand + (Len(out) + 1) = accepted + 1
      BY <2>a, <1>0
    <3>2. TAKE k \in DOMAIN out'
    <3>3. k \in DOMAIN out \/ k = Len(out) + 1
      BY <2>1, <1>0
    <3> QED BY <2>1, <2>d, <3>1, <3>3
  <2>f. accepted' = written' + hand' + Len(out')
    BY <2>1, <2>a, <2>c, <1>0, <1>2
  <2>3. FlushedOnClose'
    BY <2>a, <2>c, <2>e, <1>0 DEF FlushedOnClose, hand
  <2>4. Conserved'
    BY <2>f DEF Conserved, hand
  <2>5. ReportedSoFar' /\ Ended'
    <3>1. out' # <<>>
      BY <2>1, <1>0
    <3> QED BY <3>1, <1>0, <1>2 DEF Send, ReportedSoFar, LooksAgain, Ended
  <2> QED BY <1>1, <2>2, <2>3, <2>4, <2>5
<1>3. CASE Drops /\ dropped' = dropped + 1 /\ UNCHANGED <<out, accepted>>
  <2>1. out # <<>>
    BY <1>0, <1>3, WriterAssumption DEF Drops, Room
  <2>2. TypeOK'
    BY <1>3, WriterAssumption DEF Send, TypeOK
  <2>3. FlushedOnClose' /\ Conserved' /\ Ended'
    BY <1>3 DEF Send, FlushedOnClose, Conserved, Ended
  <2>4. ReportedSoFar'
    BY <2>1, <1>0, <1>3 DEF Send, ReportedSoFar, LooksAgain, TypeOK
  <2> QED BY <1>1, <2>2, <2>3, <2>4
<1> QED BY <1>2, <1>3 DEF Send

LEMMA ReceiveIInv == ASSUME IInv, Receive PROVE IInv'
<1> USE DEF IInv
<1>1. /\ out \in Seq(Nat) /\ out' \in Seq(Nat) /\ Len(out) \in Nat \ {0}
      /\ Len(out') = Len(out) - 1
      /\ DOMAIN out' = 1..(Len(out) - 1) /\ DOMAIN out = 1..Len(out)
      /\ \A k \in DOMAIN out' : out'[k] = out[k + 1]
  BY DEF Receive, TypeOK
<1>2. TypeOK'
  BY <1>1, WriterAssumption DEF Receive, TypeOK
<1>3. NoSendOnClosed' /\ MutexSound' /\ Ended'
  BY DEF Receive, NoSendOnClosed, MutexSound, Ended
<1>4. FlushedOnClose'
  <2>1. \A k \in DOMAIN out' : k + 1 \in DOMAIN out /\ k \in Int
    <3> DEFINE l == Len(out)
    <3>1. /\ l \in Nat \ {0} /\ DOMAIN out' = 1..(l - 1) /\ DOMAIN out = 1..l
      BY <1>1
    <3> HIDE DEF l
    <3> QED BY ONLY <3>1
  <2>2. \A k \in DOMAIN out : out[k] = written + 0 + k
    BY DEF Receive, FlushedOnClose
  <2> QED BY <1>1, <2>1, <2>2 DEF Receive, TypeOK, FlushedOnClose
<1>5. Conserved'
  BY <1>1 DEF Receive, TypeOK, Conserved
<1>6. ReportedSoFar'
  BY DEF Receive, ReportedSoFar, LooksAgain
<1> QED BY <1>2, <1>3, <1>4, <1>5, <1>6

LEMMA WriteOutIInv == ASSUME IInv, WriteOut PROVE IInv'
<1> USE DEF IInv, WriteOut
<1>1. TypeOK'
  BY DEF TypeOK
<1>2. NoSendOnClosed' /\ MutexSound' /\ Ended'
  BY DEF NoSendOnClosed, MutexSound, Ended
<1>3. Conserved'
  BY DEF TypeOK, Conserved
<1>4. FlushedOnClose'
  BY DEF TypeOK, FlushedOnClose
<1>5. ReportedSoFar'
  BY DEF ReportedSoFar, LooksAgain
<1> QED BY <1>1, <1>2, <1>3, <1>4, <1>5

(* The look at the counter leaves no crossed multiple unreported.          *)
LEMMA CheckIInv == ASSUME IInv, Check PROVE IInv'
<1> USE DEF IInv, Check
<1>1. TypeOK'
  BY DEF TypeOK
<1>2. NoSendOnClosed' /\ MutexSound' /\ Ended' /\ Conserved' /\ FlushedOnClose'
  BY DEF NoSendOnClosed, MutexSound, Ended, Conserved, FlushedOnClose
<1>3. ReportedSoFar'
  <2>1. /\ dropped \in Nat /\ lastReported \in Nat /\ lastReported <= dropped
        /\ noticed = lastReported
    BY DEF TypeOK, ReportedSoFar
  <2>2. CASE dropped \div Interval > lastReported \div Interval
    BY <2>1, <2>2 DEF ReportedSoFar, LooksAgain
  <2>3. CASE ~(dropped \div Interval > lastReported \div Interval)
    <3>1. lastReported \div Interval <= dropped \div Interval
      BY <2>1, QuotientMonotone, WriterAssumption
    <3>2. dropped \div Interval \in Int /\ lastReported \div Interval \in Int
      BY <2>1, WriterAssumption
    <3>3. dropped \div Interval = lastReported \div Interval
      BY <2>3, <3>1, <3>2
    <3> QED BY <2>1, <2>3, <3>3 DEF ReportedSoFar, LooksAgain
  <2> QED BY <2>2, <2>3
<1> QED BY <1>1, <1>2, <1>3

(* The final notice: what it skips is an exact multiple of the interval,   *)
(* and that one was reported by the periodic notice.                       *)
LEMMA FinishIInv == ASSUME IInv, Finish PROVE IInv'
<1> USE DEF IInv, Finish, RangeEnds
<1>1. TypeOK'
  BY DEF TypeOK
<1>2. NoSendOnClosed' /\ MutexSound' /\ Ended'
  BY DEF NoSendOnClosed, MutexSound, Ended
<1>3. Conserved'
  BY DEF Conserved
<1>4. FlushedOnClose'
  BY DEF FlushedOnClose, Conserved, TypeOK
<1>5. ReportedSoFar'
  <2>1. /\ dropped \in Nat /\ lastReported \in Nat /\ lastReported <= dropped
        /\ noticed = lastReported
        /\ dropped \div Interval = lastReported \div Interval
    BY DEF TypeOK, ReportedSoFar, LooksAgain
  <2>2. ~FinalNotice => dropped = lastReported
    BY <2>1, SameMultiple, WriterAssumption DEF FinalNotice
  <2>3. noticed' = dropped
    BY <2>1, <2>2
  <2> QED BY <2>1, <2>3 DEF ReportedSoFar, LooksAgain
<1> QED BY <1>1, <1>2, <1>3, <1>4, <1>5

LEMMA StutterIInv == ASSUME IInv, UNCHANGED vars PROVE IInv'
<1> USE DEF IInv, vars
<1>1. TypeOK' BY DEF TypeOK
<1>2. NoSendOnClosed' /\ MutexSound' /\ Ended'
  BY DEF NoSendOnClosed, MutexSound, Ended
<1>3. FlushedOnClose' /\ Conserved' BY DEF FlushedOnClose, Conserved
<1>4. ReportedSoFar' BY DEF ReportedSoFar, LooksAgain
<1> QED BY <1>1, <1>2, <1>3, <1>4

(* Every step preserves the inductive invariant.                           *)
LEMMA NextIInv == ASSUME IInv, [Next]_vars PROVE IInv'
<1>1. CASE UNCHANGED vars BY <1>1, StutterIInv
<1>2. ASSUME NEW w \in Writers, WriterStep(w) PROVE IInv'
  BY <1>2, CallIInv, LockIInv, SendIInv DEF WriterStep
<1>3. ASSUME NEW c \in Closers, CloserStep(c) PROVE IInv'
  BY <1>3, CallCloseIInv, LockAndCloseIInv, CloseReturnIInv DEF CloserStep
<1>4. CASE Drain
  BY <1>4, ReceiveIInv, WriteOutIInv, CheckIInv, FinishIInv DEF Drain
<1> QED BY <1>1, <1>2, <1>3, <1>4 DEF Next

(* The invariant behind the safety of the log writer holds always.         *)
THEOREM WriterInductive == Spec => []IInv
<1>1. Init => IInv BY InitIInv
<1>2. IInv /\ [Next]_vars => IInv' BY NextIInv
<1> QED BY <1>1, <1>2, PTL DEF Spec

(* Write never sends on the channel that Close has closed.                 *)
THEOREM SendIsSafe == Spec => []NoSendOnClosed
<1>1. IInv => NoSendOnClosed BY DEF IInv
<1> QED BY WriterInductive, <1>1, PTL

(* Whatever the channel accepted is written, in order, before Close        *)
(* returns.                                                                *)
THEOREM CloseFlushes == Spec => []FlushedOnClose
<1>1. IInv => FlushedOnClose BY DEF IInv
<1> QED BY WriterInductive, <1>1, PTL

(* Every drop is accounted for by the last notice, for every interval.     *)
THEOREM DropsAreReported == Spec => []NothingUnreported
<1>1. IInv => NothingUnreported BY DEF IInv, ReportedSoFar, NothingUnreported
<1> QED BY WriterInductive, <1>1, PTL

-----------------------------------------------------------------------------
(*                         The streamed answer                             *)

(* The tokens come in order, and until the producer ends, those the shown  *)
(* answer lacks are all in the channels and in the producer's hand.        *)
Held == IF producer.pc = "select" THEN 1 ELSE 0

InOrder ==
    /\ \A k \in 1..Len(tokens) : tokens[k] = provider.sent - Len(tokens) + k
    /\ producer.pc = "select" =>
         producer.tok \in Stream!Token /\ producer.tok = provider.sent - Len(tokens)
    /\ producer.pc \in {"range", "select"} /\ reader.pc = "reading" =>
         reader.got + Len(ch) + Held + Len(tokens) = provider.sent

(* The terminal event is the last one, and is there until it is read.      *)
DoneLast ==
    /\ \A k \in 1..Len(ch) : ch[k].done # "no" =>
         k = Len(ch) /\ producer.pc = "closed" /\ ch[k].done = producer.err
    /\ producer.pc = "closed" /\ reader.pc = "reading" =>
         Len(ch) > 0 /\ ch[Len(ch)].done # "no"

(* A producer that ends well has forwarded everything.                     *)
Ends == IF producer.pc = "closed" THEN 1 ELSE 0

OkIsAll ==
    /\ producer.pc \in {"last", "closed"} /\ producer.err = "nil" =>
         /\ provider.result = "nil" /\ tokens = <<>>
         /\ reader.pc = "reading" => reader.got + Len(ch) - Ends = provider.sent
    /\ reader.outcome = "nil" => provider.result = "nil" /\ reader.got = provider.sent
    /\ reader.outcome # "none" => reader.pc = "finished"

StreamInv == Stream!TypeOK /\ Stream!NoGap /\ InOrder /\ DoneLast /\ OkIsAll

LEMMA StreamBounds == ChanCap \in Nat \ {0} /\ MaxTokens \in Nat
  BY ServicesAssumption DEF Stream!StreamAssumption

LEMMA StreamStarts == Stream!Init => StreamInv
<1> SUFFICES ASSUME Stream!Init PROVE StreamInv OBVIOUS
<1>0. tokens = <<>> /\ ch = <<>> /\ Len(tokens) = 0 /\ Len(ch) = 0
  BY DEF Stream!Init
<1>1. Stream!TypeOK
  <2>1. ctxDone \in BOOLEAN /\ timedOut \in BOOLEAN BY Zenon DEF Stream!Init
  <2>2. /\ tokens \in Seq(Stream!Token) /\ Len(tokens) <= ChanCap
        /\ ch \in Seq(Stream!Event) /\ Len(ch) <= ChanCap
    BY <1>0, StreamBounds
  <2>3. /\ provider \in [result : {"running"} \cup Stream!Errors, sent : 0..MaxTokens]
        /\ producer \in [pc : {"range", "select", "drain", "last", "closed"},
                         tok : 0..MaxTokens, err : Stream!Errors]
        /\ reader \in [pc : {"reading", "stale", "finished"}, got : 0..MaxTokens,
                       outcome : Stream!Errors \cup {"none"}]
        /\ watchdog \in {"armed", "fired", "cancelled", "stopped"}
    BY StreamBounds DEF Stream!Init, Stream!Errors
  <2> QED BY <2>1, <2>2, <2>3 DEF Stream!TypeOK
<1>2. Stream!NoGap BY <1>0 DEF Stream!NoGap
<1>3. InOrder BY <1>0 DEF Stream!Init, InOrder, Held
<1>4. DoneLast BY <1>0 DEF Stream!Init, DoneLast
<1>5. OkIsAll BY DEF Stream!Init, OkIsAll
<1> QED BY <1>1, <1>2, <1>3, <1>4, <1>5 DEF StreamInv

(* What the types say of the numbers and of the events.                    *)
Sizes ==
    /\ provider.sent \in 0..MaxTokens /\ reader.got \in 0..MaxTokens
    /\ Len(tokens) \in Nat /\ Len(ch) \in Nat
    /\ DOMAIN tokens = 1..Len(tokens) /\ DOMAIN ch = 1..Len(ch)

LEMMA StreamTyped == Stream!TypeOK => Sizes
<1> SUFFICES ASSUME Stream!TypeOK PROVE Sizes OBVIOUS
<1>1. tokens \in Seq(Stream!Token) /\ ch \in Seq(Stream!Event)
  BY DEF Stream!TypeOK
<1>2. /\ Len(tokens) \in Nat /\ Len(ch) \in Nat
      /\ DOMAIN tokens = 1..Len(tokens) /\ DOMAIN ch = 1..Len(ch)
  BY <1>1, LenProperties
<1>3. provider.sent \in 0..MaxTokens /\ reader.got \in 0..MaxTokens
  BY DEF Stream!TypeOK
<1> QED BY <1>1, <1>2, <1>3 DEF Sizes

(* A channel that grows at its end, and one that loses its first element.  *)
LEMMA Grown ==
  ASSUME NEW S, NEW q \in Seq(S), NEW e \in S
  PROVE  /\ Append(q, e) \in Seq(S) /\ Len(Append(q, e)) = Len(q) + 1
         /\ DOMAIN Append(q, e) = 1..(Len(q) + 1)
         /\ \A k \in 1..Len(q) : Append(q, e)[k] = q[k]
         /\ Append(q, e)[Len(q) + 1] = e
  OBVIOUS

LEMMA Shrunk ==
  ASSUME NEW S, NEW q \in Seq(S), q # <<>>
  PROVE  /\ Len(q) > 0 /\ Head(q) = q[1] /\ q[1] \in S
         /\ Tail(q) \in Seq(S) /\ Len(Tail(q)) = Len(q) - 1
         /\ DOMAIN Tail(q) = 1..(Len(q) - 1)
         /\ \A k \in 1..(Len(q) - 1) : Tail(q)[k] = q[k + 1]
  OBVIOUS

LEMMA Channels ==
  Stream!TypeOK => tokens \in Seq(Stream!Token) /\ ch \in Seq(Stream!Event)
  BY DEF Stream!TypeOK

(* The place of a token when the channel is one longer or one shorter.     *)
LEMMA Shifted ==
  \A sent, l, k \in Nat :
    /\ (sent + 1) - (l + 1) + k = sent - l + k
    /\ sent - (l - 1) + k = sent - l + (k + 1)
  OBVIOUS

(* The provider's side.                                                    *)
LEMMA ProviderStep ==
  ASSUME StreamInv,
         Stream!ProviderSends \/ Stream!ProviderEnds \/ Stream!ProviderAborts
  PROVE  StreamInv'
<1>i. Stream!TypeOK /\ Stream!NoGap /\ InOrder /\ DoneLast /\ OkIsAll BY DEF StreamInv
<1>t. Sizes BY <1>i, StreamTyped
<1>n. reader.got \in Nat /\ provider.sent \in Nat /\ Len(ch) \in Nat /\ Len(tokens) \in Nat
  BY <1>t, StreamBounds DEF Sizes
<1> USE StreamBounds, <1>i, <1>t DEF Sizes
<1>1. CASE Stream!ProviderSends
  <2> DEFINE n == provider.sent + 1
  <2>1. /\ provider.result = "running" /\ n \in 1..MaxTokens
        /\ provider' = [provider EXCEPT !.sent = n] /\ tokens' = Append(tokens, n)
        /\ Len(tokens) < ChanCap
        /\ UNCHANGED <<ctxDone, watchdog, timedOut, producer, ch, reader>>
    BY <1>1 DEF Stream!ProviderSends, Stream!TypeOK
  <2>2. /\ provider'.sent = n /\ provider'.result = "running"
        /\ provider' \in [result : {"running"} \cup Stream!Errors, sent : 0..MaxTokens]
    BY <2>1 DEF Stream!TypeOK
  <2>s. tokens' \in Seq(Stream!Token)
    BY <2>1, Channels, Grown DEF Stream!Token
  <2>3. /\ Len(tokens') = Len(tokens) + 1
        /\ \A k \in 1..Len(tokens) : tokens'[k] = tokens[k]
        /\ tokens'[Len(tokens) + 1] = n /\ DOMAIN tokens' = 1..(Len(tokens) + 1)
    BY <2>1, Channels, Grown DEF Stream!Token
  <2> HIDE DEF n
  <2>4. Stream!TypeOK' BY <2>1, <2>2, <2>s, <2>3 DEF Stream!TypeOK
  <2>5. Stream!NoGap' BY <2>1 DEF Stream!NoGap
  <2>6. InOrder'
    <3>1. n = provider.sent + 1 BY DEF n
    <3>2. \A k \in 1..Len(tokens') : tokens'[k] = provider'.sent - Len(tokens') + k
      <4> SUFFICES ASSUME NEW k \in 1..(Len(tokens) + 1)
                   PROVE  tokens'[k] = n - (Len(tokens) + 1) + k
        BY <2>2, <2>3
      <4>1. CASE k \in 1..Len(tokens)
        <5>1. tokens[k] = provider.sent - Len(tokens) + k BY <4>1 DEF InOrder
        <5>2. tokens'[k] = tokens[k] BY <2>3, <4>1
        <5>3. k \in Nat OBVIOUS
        <5>4. provider.sent - Len(tokens) + k = (provider.sent + 1) - (Len(tokens) + 1) + k
          BY ONLY <1>n, <5>3, Shifted, Zenon
        <5> QED BY ONLY <3>1, <5>1, <5>2, <5>4, Zenon
      <4>2. CASE k = Len(tokens) + 1
        <5>1. tokens'[k] = n BY <2>3, <4>2
        <5> QED BY <3>1, <4>2, <5>1
      <4> QED BY <4>1, <4>2
    <3>3. (producer.pc = "select" =>
             producer.tok \in Stream!Token /\ producer.tok = provider.sent - Len(tokens))'
      BY <2>1, <2>2, <2>3, <3>1 DEF InOrder, Stream!Token
    <3>4. Held' = Held BY <2>1 DEF Held
    <3>5. Held \in Nat BY DEF Held
    <3>6. (producer.pc \in {"range", "select"} /\ reader.pc = "reading" =>
             reader.got + Len(ch) + Held + Len(tokens) = provider.sent)'
      BY <2>1, <2>2, <2>3, <3>1, <3>4, <3>5 DEF InOrder
    <3> QED BY <3>2, <3>3, <3>6 DEF InOrder
  <2>7. DoneLast' BY <2>1 DEF DoneLast
  <2>8. OkIsAll' BY <2>1, <2>2 DEF OkIsAll
  <2> QED BY <2>4, <2>5, <2>6, <2>7, <2>8 DEF StreamInv
<1>2. CASE Stream!ProviderEnds \/ Stream!ProviderAborts
  <2>1. /\ provider.result = "running"
        /\ \E err \in Stream!Errors : provider' = [provider EXCEPT !.result = err]
        /\ UNCHANGED <<tokens, ctxDone, watchdog, timedOut, producer, ch, reader>>
    BY <1>2 DEF Stream!ProviderEnds, Stream!ProviderAborts, Stream!Errors
  <2>2. /\ provider'.sent = provider.sent
        /\ provider' \in [result : {"running"} \cup Stream!Errors, sent : 0..MaxTokens]
    BY <2>1 DEF Stream!TypeOK
  <2>3. Stream!TypeOK' BY <2>1, <2>2 DEF Stream!TypeOK
  <2>4. Stream!NoGap' BY <2>1 DEF Stream!NoGap
  <2>5. InOrder' BY <2>1, <2>2 DEF InOrder, Held
  <2>6. DoneLast' BY <2>1 DEF DoneLast
  <2>7. OkIsAll' BY <2>1, <2>2 DEF OkIsAll, Ends
  <2> QED BY <2>3, <2>4, <2>5, <2>6, <2>7 DEF StreamInv
<1> QED BY <1>1, <1>2

(* The producer takes a token, or gives the one it holds away.             *)
LEMMA TakeStep == ASSUME StreamInv, Stream!TakeToken PROVE StreamInv'
<1>i. Stream!TypeOK /\ Stream!NoGap /\ InOrder /\ DoneLast /\ OkIsAll BY DEF StreamInv
<1>t. Sizes BY <1>i, StreamTyped
<1>n. reader.got \in Nat /\ provider.sent \in Nat /\ Len(ch) \in Nat /\ Len(tokens) \in Nat
  BY <1>t, StreamBounds DEF Sizes
<1> USE StreamBounds, <1>i, <1>t DEF Sizes
<1>1. /\ producer.pc = "range" /\ tokens # <<>> /\ tokens' = Tail(tokens)
      /\ producer' = [producer EXCEPT !.pc = "select", !.tok = Head(tokens)]
      /\ watchdog' \in {watchdog, "stopped"}
      /\ UNCHANGED <<provider, ctxDone, timedOut, ch, reader>>
  BY DEF Stream!TakeToken, Stream!Stopped
<1>s. tokens' \in Seq(Stream!Token) /\ Head(tokens) \in Stream!Token
  BY <1>1, Channels, Shrunk
<1>2. /\ Len(tokens) > 0 /\ Head(tokens) = tokens[1]
      /\ Len(tokens') = Len(tokens) - 1 /\ DOMAIN tokens' = 1..(Len(tokens) - 1)
      /\ \A k \in 1..(Len(tokens) - 1) : tokens'[k] = tokens[k + 1]
  BY <1>1, Channels, Shrunk
<1>3. Head(tokens) \in Stream!Token /\ Head(tokens) = provider.sent - Len(tokens) + 1
  BY <1>s, <1>2 DEF InOrder
<1>4. /\ producer'.pc = "select" /\ producer'.tok = Head(tokens)
      /\ producer' \in [pc : {"range", "select", "drain", "last", "closed"},
                        tok : 0..MaxTokens, err : Stream!Errors]
  <2> DEFINE h == Head(tokens)
  <2>1. h \in 0..MaxTokens BY <1>s DEF Stream!Token
  <2>2. producer' = [producer EXCEPT !.pc = "select", !.tok = h] BY <1>1
  <2>3. producer \in [pc : {"range", "select", "drain", "last", "closed"},
                      tok : 0..MaxTokens, err : Stream!Errors]
    BY DEF Stream!TypeOK
  <2> HIDE DEF h
  <2>4. /\ producer'.pc = "select" /\ producer'.tok = h
        /\ producer' \in [pc : {"range", "select", "drain", "last", "closed"},
                          tok : 0..MaxTokens, err : Stream!Errors]
    BY ONLY <2>1, <2>2, <2>3
  <2> QED BY <2>4 DEF h
<1>5. Stream!TypeOK'
  <2>1. Len(tokens') <= ChanCap BY <1>2 DEF Stream!TypeOK
  <2> QED BY <1>1, <1>s, <1>4, <2>1 DEF Stream!TypeOK
<1>6. Stream!NoGap' BY <1>1 DEF Stream!NoGap
<1>7. InOrder'
  <2>1. \A k \in 1..Len(tokens') : tokens'[k] = provider'.sent - Len(tokens') + k
    <3> SUFFICES ASSUME NEW k \in 1..(Len(tokens) - 1)
                 PROVE  tokens'[k] = provider.sent - (Len(tokens) - 1) + k
      BY <1>1, <1>2
    <3>1. tokens'[k] = tokens[k + 1] /\ k + 1 \in 1..Len(tokens) BY <1>2
    <3>2. tokens[k + 1] = provider.sent - Len(tokens) + (k + 1) BY <3>1 DEF InOrder
    <3>3. k \in Nat OBVIOUS
    <3>4. provider.sent - (Len(tokens) - 1) + k = provider.sent - Len(tokens) + (k + 1)
      BY ONLY <1>n, <3>3, Shifted, Zenon
    <3> QED BY ONLY <3>1, <3>2, <3>4, Zenon
  <2>2. producer'.tok \in Stream!Token' /\ producer'.tok = provider'.sent - Len(tokens')
    BY <1>1, <1>2, <1>3, <1>4 DEF Stream!Token
  <2>3. reader.pc = "reading" => reader.got + Len(ch) + 1 + Len(tokens') = provider.sent
    BY <1>1, <1>2 DEF InOrder, Held
  <2>4. Held' = 1 BY <1>4 DEF Held
  <2> QED BY <1>1, <1>4, <2>1, <2>2, <2>3, <2>4 DEF InOrder
<1>8. DoneLast' BY <1>1, <1>4 DEF DoneLast
<1>9. OkIsAll' BY <1>1, <1>4 DEF OkIsAll
<1> QED BY <1>5, <1>6, <1>7, <1>8, <1>9 DEF StreamInv

(* An event is appended to the event channel.                              *)
LEMMA EventSent ==
  ASSUME Stream!TypeOK, NEW e \in Stream!Event, Stream!Room, ch' = Append(ch, e)
  PROVE  /\ ch' \in Seq(Stream!Event) /\ Len(ch') = Len(ch) + 1 /\ Len(ch') <= ChanCap
         /\ DOMAIN ch' = 1..(Len(ch) + 1) /\ ch'[Len(ch) + 1] = e
         /\ \A k \in 1..Len(ch) : ch'[k] = ch[k]
<1>1. /\ ch' \in Seq(Stream!Event) /\ Len(ch') = Len(ch) + 1
      /\ DOMAIN ch' = 1..(Len(ch) + 1) /\ ch'[Len(ch) + 1] = e
      /\ \A k \in 1..Len(ch) : ch'[k] = ch[k]
  BY Channels, Grown
<1>2. Len(ch') <= ChanCap
  BY <1>1, StreamBounds, StreamTyped DEF Stream!Room, Sizes
<1> QED BY <1>1, <1>2

LEMMA ForwardStep == ASSUME StreamInv, Stream!Forward PROVE StreamInv'
<1>i. Stream!TypeOK /\ Stream!NoGap /\ InOrder /\ DoneLast /\ OkIsAll BY DEF StreamInv
<1>t. Sizes BY <1>i, StreamTyped
<1>n. reader.got \in Nat /\ provider.sent \in Nat /\ Len(ch) \in Nat /\ Len(tokens) \in Nat
  BY <1>t, StreamBounds DEF Sizes
<1> USE StreamBounds, <1>i, <1>t DEF Sizes
<1>1. /\ producer.pc = "select"
      /\ UNCHANGED <<provider, tokens, ctxDone, watchdog, timedOut, reader>>
  BY DEF Stream!Forward
<1>2. CASE /\ Stream!Room /\ ch' = Append(ch, Stream!TokenEvent(producer.tok))
           /\ producer' = [producer EXCEPT !.pc = "range"]
  <2> DEFINE e == Stream!TokenEvent(producer.tok)
  <2>1. e \in Stream!Event /\ e.done = "no" /\ e.tok = producer.tok
    BY <1>1 DEF InOrder, Stream!TokenEvent, Stream!Event
  <2> HIDE DEF e
  <2>s. ch' \in Seq(Stream!Event) /\ Len(ch') <= ChanCap
    BY <1>2, <2>1, EventSent DEF e
  <2>2. /\ Len(ch') = Len(ch) + 1
        /\ DOMAIN ch' = 1..(Len(ch) + 1) /\ ch'[Len(ch) + 1] = e
        /\ \A k \in 1..Len(ch) : ch'[k] = ch[k]
    BY <1>2, <2>1, EventSent DEF e
  <2>3. /\ producer'.pc = "range" /\ producer'.err = producer.err
        /\ producer' \in [pc : {"range", "select", "drain", "last", "closed"},
                          tok : 0..MaxTokens, err : Stream!Errors]
    BY <1>2 DEF Stream!TypeOK
  <2>4. Stream!TypeOK' BY <1>1, <2>s, <2>3 DEF Stream!TypeOK
  <2>5. Held = 1 /\ Held' = 0 BY <1>1, <2>3 DEF Held
  <2>6. Stream!NoGap'
    <3> SUFFICES ASSUME NEW k \in 1..(Len(ch) + 1), reader.pc = "reading", ch'[k].done = "no"
                 PROVE  ch'[k].tok = reader.got + k
      BY <1>1, <2>2 DEF Stream!NoGap
    <3>1. CASE k \in 1..Len(ch)
      <4>1. ch'[k] = ch[k] BY <2>2, <3>1
      <4> QED BY <3>1, <4>1 DEF Stream!NoGap
    <3>2. CASE k = Len(ch) + 1
      <4>1. producer.tok = reader.got + Len(ch) + 1 BY <1>1, <2>5 DEF InOrder
      <4>2. ch'[k] = e BY <2>2, <3>2
      <4>3. ch'[k].tok = producer.tok BY ONLY <2>1, <4>2, Zenon
      <4>4. reader.got + k = reader.got + Len(ch) + 1 BY ONLY <1>n, <3>2
      <4> QED BY ONLY <4>1, <4>3, <4>4, Zenon
    <3> QED BY <3>1, <3>2
  <2>7. InOrder'
    <3>1. Len(ch') = Len(ch) + 1 BY <2>2
    <3>2. (\A k \in 1..Len(tokens) : tokens[k] = provider.sent - Len(tokens) + k)'
      BY ONLY <1>i, <1>1 DEF InOrder
    <3>3. reader.pc = "reading" => reader.got + Len(ch) + 1 + Len(tokens) = provider.sent
      BY ONLY <1>i, <1>1, <2>5 DEF InOrder
    <3> QED BY ONLY <1>1, <1>n, <2>3, <2>5, <3>1, <3>2, <3>3 DEF InOrder
  <2>8. DoneLast'
    <3>1. \A k \in 1..Len(ch) : ch[k].done = "no" BY <1>1 DEF DoneLast
    <3>2. \A k \in 1..(Len(ch) + 1) : ch'[k].done = "no"
      <4> SUFFICES ASSUME NEW k \in 1..(Len(ch) + 1) PROVE ch'[k].done = "no" OBVIOUS
      <4>1. CASE k \in 1..Len(ch)
        <5>1. ch'[k] = ch[k] BY <2>2, <4>1
        <5> QED BY <3>1, <4>1, <5>1
      <4>2. CASE k = Len(ch) + 1
        <5>1. ch'[k] = e BY <2>2, <4>2
        <5> QED BY <2>1, <5>1
      <4> QED BY <4>1, <4>2
    <3>3. Len(ch') = Len(ch) + 1 BY <2>2
    <3> QED BY ONLY <2>3, <3>2, <3>3 DEF DoneLast
  <2>9. OkIsAll' BY <1>1, <2>3 DEF OkIsAll
  <2> QED BY <2>4, <2>6, <2>7, <2>8, <2>9 DEF StreamInv
<1>3. CASE producer' = [producer EXCEPT !.pc = "drain"] /\ UNCHANGED ch
  <2>1. /\ producer'.pc = "drain"
        /\ producer' \in [pc : {"range", "select", "drain", "last", "closed"},
                          tok : 0..MaxTokens, err : Stream!Errors]
    BY <1>3 DEF Stream!TypeOK
  <2>2. Stream!TypeOK' BY <1>1, <1>3, <2>1 DEF Stream!TypeOK
  <2>3. Stream!NoGap' BY <1>1, <1>3 DEF Stream!NoGap
  <2>4. InOrder' BY <1>1, <2>1 DEF InOrder
  <2>5. DoneLast' BY <1>1, <1>3, <2>1 DEF DoneLast
  <2>6. OkIsAll' BY <1>1, <2>1 DEF OkIsAll
  <2> QED BY <2>2, <2>3, <2>4, <2>5, <2>6 DEF StreamInv
<1> QED BY <1>2, <1>3 DEF Stream!Forward, Stream!OnCancel

(* A cancelled producer empties the token channel; one that was not takes  *)
(* the result of the provider when all tokens are forwarded.               *)
LEMMA EndStep ==
  ASSUME StreamInv, Stream!DrainTokens \/ Stream!Collect PROVE StreamInv'
<1>i. Stream!TypeOK /\ Stream!NoGap /\ InOrder /\ DoneLast /\ OkIsAll BY DEF StreamInv
<1>t. Sizes BY <1>i, StreamTyped
<1>n. reader.got \in Nat /\ provider.sent \in Nat /\ Len(ch) \in Nat /\ Len(tokens) \in Nat
  BY <1>t, StreamBounds DEF Sizes
<1> USE StreamBounds, <1>i, <1>t DEF Sizes
<1>0. /\ producer.pc \in {"drain", "range"}
      /\ UNCHANGED <<provider, ctxDone, watchdog, timedOut, ch, reader>>
  BY DEF Stream!DrainTokens, Stream!Collect
<1>1. CASE /\ producer.pc = "drain" /\ tokens # <<>> /\ tokens' = Tail(tokens)
           /\ UNCHANGED producer
  <2>s. tokens' \in Seq(Stream!Token)
    BY <1>1, Channels, Shrunk
  <2>1. /\ Len(tokens) > 0
        /\ Len(tokens') = Len(tokens) - 1 /\ DOMAIN tokens' = 1..(Len(tokens) - 1)
        /\ \A k \in 1..(Len(tokens) - 1) : tokens'[k] = tokens[k + 1]
    BY <1>1, Channels, Shrunk
  <2>2. Stream!TypeOK'
    <3>1. Len(tokens') <= ChanCap BY <2>1 DEF Stream!TypeOK
    <3> QED BY <1>0, <1>1, <2>s, <3>1 DEF Stream!TypeOK
  <2>3. Stream!NoGap' BY <1>0 DEF Stream!NoGap
  <2>4. InOrder'
    <3> SUFFICES ASSUME NEW k \in 1..(Len(tokens) - 1)
                 PROVE  tokens'[k] = provider.sent - (Len(tokens) - 1) + k
      BY <1>0, <1>1, <2>1 DEF InOrder
    <3>1. tokens'[k] = tokens[k + 1] /\ k + 1 \in 1..Len(tokens) BY <2>1
    <3>2. tokens[k + 1] = provider.sent - Len(tokens) + (k + 1) BY <3>1 DEF InOrder
    <3>3. k \in Nat OBVIOUS
    <3>4. provider.sent - (Len(tokens) - 1) + k = provider.sent - Len(tokens) + (k + 1)
      BY ONLY <1>n, <3>3, Shifted, Zenon
    <3> QED BY ONLY <3>1, <3>2, <3>4, Zenon
  <2>5. DoneLast' BY ONLY <1>i, <1>0, <1>1 DEF DoneLast
  <2>6. OkIsAll' BY <1>0, <1>1 DEF OkIsAll
  <2> QED BY <2>2, <2>3, <2>4, <2>5, <2>6 DEF StreamInv
<1>2. ASSUME NEW err \in Stream!Errors, Stream!TokensClosed, tokens' = tokens,
             producer' = [producer EXCEPT !.pc = "last", !.err = err],
             err = "nil" => producer.pc = "range" /\ provider.result = "nil"
      PROVE  StreamInv'
  <2>1. /\ producer'.pc = "last"
        /\ producer'.err = "nil" => producer.pc = "range" /\ provider.result = "nil"
        /\ producer' \in [pc : {"range", "select", "drain", "last", "closed"},
                          tok : 0..MaxTokens, err : Stream!Errors]
    BY <1>2 DEF Stream!TypeOK
  <2>2. Stream!TypeOK' BY <1>0, <1>2, <2>1 DEF Stream!TypeOK
  <2>3. Stream!NoGap' BY <1>0 DEF Stream!NoGap
  <2>4. InOrder' BY <1>0, <1>2, <2>1 DEF InOrder
  <2>5. DoneLast'
    <3>1. \A k \in 1..Len(ch) : ch[k].done = "no" BY ONLY <1>i, <1>0 DEF DoneLast
    <3> QED BY ONLY <1>0, <2>1, <3>1 DEF DoneLast
  <2>6. OkIsAll'
    <3>1. tokens = <<>> /\ Len(tokens) = 0 BY <1>2 DEF Stream!TokensClosed
    <3>2. Ends' = 0 BY <2>1 DEF Ends
    <3>3. producer.pc = "range" /\ reader.pc = "reading" => reader.got + Len(ch) = provider.sent
      BY <3>1 DEF InOrder, Held
    <3> QED BY <1>0, <1>2, <2>1, <3>1, <3>2, <3>3 DEF OkIsAll
  <2> QED BY <2>2, <2>3, <2>4, <2>5, <2>6 DEF StreamInv
<1>3. CASE Stream!DrainTokens
  <2>1. "canceled" \in Stream!Errors /\ "canceled" # "nil" BY DEF Stream!Errors
  <2>2. \/ /\ producer.pc = "drain" /\ tokens # <<>> /\ tokens' = Tail(tokens)
           /\ UNCHANGED producer
        \/ /\ Stream!TokensClosed /\ UNCHANGED tokens
           /\ producer' = [producer EXCEPT !.pc = "last", !.err = "canceled"]
    BY <1>3 DEF Stream!DrainTokens, Stream!CtxErr
  <2> QED BY <1>1, <1>2, <2>1, <2>2, Zenon
<1>4. CASE Stream!Collect
  <2> DEFINE err == IF timedOut THEN "timeout" ELSE provider.result
  <2>1. err \in Stream!Errors /\ (err = "nil" => provider.result = "nil")
    BY <1>4 DEF Stream!Collect, Stream!TokensClosed, Stream!TypeOK, Stream!Errors
  <2>2. /\ Stream!TokensClosed /\ UNCHANGED tokens /\ producer.pc = "range"
        /\ producer' = [producer EXCEPT !.pc = "last", !.err = err]
    BY <1>4 DEF Stream!Collect
  <2> HIDE DEF err
  <2> QED BY <1>2, <2>1, <2>2, Zenon
<1> QED BY <1>3, <1>4

LEMMA DoneStep == ASSUME StreamInv, Stream!SendDone PROVE StreamInv'
<1>i. Stream!TypeOK /\ Stream!NoGap /\ InOrder /\ DoneLast /\ OkIsAll BY DEF StreamInv
<1>t. Sizes BY <1>i, StreamTyped
<1>n. reader.got \in Nat /\ provider.sent \in Nat /\ Len(ch) \in Nat /\ Len(tokens) \in Nat
  BY <1>t, StreamBounds DEF Sizes
<1> USE StreamBounds, <1>i, <1>t DEF Sizes
<1> DEFINE e == Stream!DoneEvent(producer.err)
<1>1. /\ producer.pc = "last" /\ Stream!Room /\ ch' = Append(ch, e)
      /\ producer' = [producer EXCEPT !.pc = "closed"] /\ ctxDone' = TRUE
      /\ watchdog' \in {watchdog, "stopped"}
      /\ UNCHANGED <<provider, tokens, timedOut, reader>>
  BY DEF Stream!SendDone, Stream!Stopped
<1>2. e \in Stream!Event /\ e.done = producer.err /\ e.done # "no"
  BY DEF Stream!DoneEvent, Stream!Event, Stream!TypeOK, Stream!Errors
<1> HIDE DEF e
<1>s. ch' \in Seq(Stream!Event) /\ Len(ch') <= ChanCap
  BY <1>1, <1>2, EventSent
<1>3. /\ Len(ch') = Len(ch) + 1
      /\ DOMAIN ch' = 1..(Len(ch) + 1) /\ ch'[Len(ch) + 1] = e
      /\ \A k \in 1..Len(ch) : ch'[k] = ch[k]
  BY <1>1, <1>2, EventSent
<1>4. /\ producer'.pc = "closed" /\ producer'.err = producer.err
      /\ producer' \in [pc : {"range", "select", "drain", "last", "closed"},
                        tok : 0..MaxTokens, err : Stream!Errors]
  BY <1>1 DEF Stream!TypeOK
<1>5. Stream!TypeOK'
  <2>1. ctxDone' \in BOOLEAN BY <1>1
  <2> QED BY <1>1, <1>s, <1>4, <2>1 DEF Stream!TypeOK
<1>6. Stream!NoGap'
  <2> SUFFICES ASSUME NEW k \in 1..(Len(ch) + 1), reader.pc = "reading", ch'[k].done = "no"
               PROVE  ch'[k].tok = reader.got + k
    BY <1>1, <1>3 DEF Stream!NoGap
  <2>1. k \in 1..Len(ch) BY <1>2, <1>3
  <2> QED BY <1>3, <2>1 DEF Stream!NoGap
<1>7. InOrder' BY <1>1, <1>4 DEF InOrder
<1>8. DoneLast'
  <2>1. \A k \in 1..Len(ch) : ch[k].done = "no" BY <1>1 DEF DoneLast
  <2>2. ASSUME NEW k \in 1..(Len(ch) + 1), ch'[k].done # "no"
        PROVE  k = Len(ch) + 1 /\ ch'[k].done = producer.err
    <3>1. CASE k \in 1..Len(ch)
      <4>1. ch'[k] = ch[k] BY <1>3, <3>1
      <4> QED BY <2>1, <2>2, <3>1, <4>1
    <3>2. CASE k = Len(ch) + 1
      <4>1. ch'[k] = e BY <1>3, <3>2
      <4> QED BY <1>2, <3>2, <4>1
    <3> QED BY <3>1, <3>2
  <2>3. Len(ch') = Len(ch) + 1 /\ ch'[Len(ch) + 1] = e BY <1>3
  <2> QED BY ONLY <1>2, <1>4, <1>n, <2>2, <2>3 DEF DoneLast
<1>9. OkIsAll' BY <1>1, <1>3, <1>4 DEF OkIsAll, Ends
<1> QED BY <1>5, <1>6, <1>7, <1>8, <1>9 DEF StreamInv

(* The Update loop shows the oldest event.                                 *)
LEMMA ReadStep == ASSUME StreamInv, Stream!ReadEvent PROVE StreamInv'
<1>i. Stream!TypeOK /\ Stream!NoGap /\ InOrder /\ DoneLast /\ OkIsAll BY DEF StreamInv
<1>t. Sizes BY <1>i, StreamTyped
<1>n. reader.got \in Nat /\ provider.sent \in Nat /\ Len(ch) \in Nat /\ Len(tokens) \in Nat
  BY <1>t, StreamBounds DEF Sizes
<1> USE StreamBounds, <1>i, <1>t DEF Sizes
<1>1. /\ ch # <<>> /\ ch' = Tail(ch)
      /\ UNCHANGED <<provider, tokens, ctxDone, watchdog, timedOut, producer>>
  BY DEF Stream!ReadEvent
<1>s. ch' \in Seq(Stream!Event) /\ ch[1] \in Stream!Event
  BY <1>1, Channels, Shrunk
<1>2. /\ Len(ch) > 0 /\ Head(ch) = ch[1]
      /\ Len(ch') = Len(ch) - 1 /\ DOMAIN ch' = 1..(Len(ch) - 1)
      /\ \A k \in 1..(Len(ch) - 1) : ch'[k] = ch[k + 1]
  BY <1>1, Channels, Shrunk
<1>3. Len(ch') <= ChanCap BY <1>2 DEF Stream!TypeOK
<1>4. CASE reader.pc = "reading" /\ ch[1].done = "no"
           /\ reader' = [reader EXCEPT !.got = ch[1].tok]
  <2>1. ch[1].tok = reader.got + 1 /\ ch[1].tok \in 1..MaxTokens
    <3>1. ch[1].tok = reader.got + 1 BY <1>2, <1>4 DEF Stream!NoGap
    <3>2. ch[1] \in [tok : Stream!Token, done : {"no"}]
      BY <1>s, <1>4 DEF Stream!Event, Stream!Errors
    <3> QED BY <3>1, <3>2 DEF Stream!Token
  <2>2. /\ reader'.pc = "reading" /\ reader'.got = reader.got + 1
        /\ reader'.outcome = reader.outcome
        /\ reader' \in [pc : {"reading", "stale", "finished"}, got : 0..MaxTokens,
                        outcome : Stream!Errors \cup {"none"}]
    BY <1>4, <2>1 DEF Stream!TypeOK
  <2>3. Stream!TypeOK' BY <1>1, <1>s, <1>3, <2>2 DEF Stream!TypeOK
  <2>4. Stream!NoGap'
    <3> SUFFICES ASSUME NEW k \in 1..(Len(ch) - 1), ch'[k].done = "no"
                 PROVE  ch'[k].tok = reader.got + 1 + k
      BY <1>2, <2>2 DEF Stream!NoGap
    <3>1. k + 1 \in 1..Len(ch) /\ ch[k + 1].done = "no" BY <1>2
    <3>2. ch[k + 1].tok = reader.got + (k + 1) BY <1>4, <3>1 DEF Stream!NoGap
    <3>3. ch'[k] = ch[k + 1] BY <1>2
    <3>4. ch[k + 1].tok = reader.got + 1 + k BY ONLY <1>n, <3>2
    <3> QED BY <3>3, <3>4, Zenon
  <2>5. InOrder'
    <3>1. Held' = Held /\ Held \in Nat BY <1>1 DEF Held
    <3> QED BY <1>1, <1>2, <1>4, <2>2, <3>1 DEF InOrder
  <2>6. DoneLast'
    <3>0. \A k \in 1..Len(ch) : ch[k].done # "no" =>
            k = Len(ch) /\ producer.pc = "closed" /\ ch[k].done = producer.err
      BY <1>i, Zenon DEF DoneLast
    <3>1. ASSUME NEW k \in 1..(Len(ch) - 1), ch'[k].done # "no"
          PROVE  k = Len(ch) - 1 /\ producer.pc = "closed" /\ ch'[k].done = producer.err
      <4>0. ch'[k] = ch[k + 1] BY <1>2
      <4>1. k + 1 \in 1..Len(ch) /\ ch[k + 1].done # "no" BY <3>1, <4>0
      <4>2. k + 1 = Len(ch) /\ producer.pc = "closed" /\ ch[k + 1].done = producer.err
        BY <3>0, <4>1, Zenon
      <4>3. k = Len(ch) - 1 BY ONLY <1>n, <4>2
      <4> QED BY ONLY <4>0, <4>2, <4>3, Zenon
    <3>2. ASSUME producer.pc = "closed"
          PROVE  Len(ch) - 1 > 0 /\ ch'[Len(ch) - 1].done # "no"
      <4>1. ch[Len(ch)].done # "no" /\ Len(ch) # 1 BY <1>4, <3>2 DEF DoneLast
      <4>2. Len(ch) - 1 \in 1..(Len(ch) - 1) BY <1>2, <4>1
      <4>3. ch'[Len(ch) - 1] = ch[Len(ch)] BY <1>2, <4>2
      <4> QED BY <4>1, <4>2, <4>3
    <3>3. Len(ch') = Len(ch) - 1 /\ producer' = producer BY <1>1, <1>2
    <3>4. \A k \in 1..Len(ch') : ch'[k].done # "no" =>
            k = Len(ch') /\ producer'.pc = "closed" /\ ch'[k].done = producer'.err
      BY ONLY <3>1, <3>3, Zenon
    <3>5. producer'.pc = "closed" => Len(ch') > 0 /\ ch'[Len(ch')].done # "no"
      BY ONLY <3>2, <3>3, Zenon
    <3> QED BY ONLY <3>4, <3>5, Zenon DEF DoneLast
  <2>7. OkIsAll'
    <3>1. Ends' = Ends /\ Ends \in Nat BY <1>1 DEF Ends
    <3>2. reader.outcome = "none" BY <1>4 DEF OkIsAll
    <3>3. Len(ch') = Len(ch) - 1 BY <1>2
    <3> QED BY <1>1, <1>4, <2>2, <3>1, <3>2, <3>3 DEF OkIsAll
  <2> QED BY <2>3, <2>4, <2>5, <2>6, <2>7 DEF StreamInv
<1>5. CASE /\ reader'.pc = "finished" /\ reader'.got = reader.got
           /\ reader' \in [pc : {"reading", "stale", "finished"}, got : 0..MaxTokens,
                           outcome : Stream!Errors \cup {"none"}]
           /\ \/ reader'.outcome = reader.outcome
              \/ reader.pc = "reading" /\ ch[1].done # "no" /\ reader'.outcome = ch[1].done
  <2>1. Stream!TypeOK' BY <1>1, <1>s, <1>3, <1>5 DEF Stream!TypeOK
  <2>2. Stream!NoGap' BY <1>5 DEF Stream!NoGap
  <2>3. InOrder' BY <1>1, <1>5 DEF InOrder
  <2>4. DoneLast'
    <3>0. \A k \in 1..Len(ch) : ch[k].done # "no" =>
            k = Len(ch) /\ producer.pc = "closed" /\ ch[k].done = producer.err
      BY <1>i, Zenon DEF DoneLast
    <3>1. ASSUME NEW k \in 1..(Len(ch) - 1), ch'[k].done # "no"
          PROVE  k = Len(ch) - 1 /\ producer.pc = "closed" /\ ch'[k].done = producer.err
      <4>0. ch'[k] = ch[k + 1] BY <1>2
      <4>1. k + 1 \in 1..Len(ch) /\ ch[k + 1].done # "no" BY <3>1, <4>0
      <4>2. k + 1 = Len(ch) /\ producer.pc = "closed" /\ ch[k + 1].done = producer.err
        BY <3>0, <4>1, Zenon
      <4>3. k = Len(ch) - 1 BY ONLY <1>n, <4>2
      <4> QED BY ONLY <4>0, <4>2, <4>3, Zenon
    <3>2. /\ Len(ch') = Len(ch) - 1 /\ producer' = producer
          /\ reader'.pc # "reading"
      BY <1>1, <1>2, <1>5
    <3>3. \A k \in 1..Len(ch') : ch'[k].done # "no" =>
            k = Len(ch') /\ producer'.pc = "closed" /\ ch'[k].done = producer'.err
      BY ONLY <3>1, <3>2, Zenon
    <3> QED BY ONLY <3>2, <3>3, Zenon DEF DoneLast
  <2>5. ASSUME reader.pc = "reading", ch[1].done = "nil"
        PROVE  provider.result = "nil" /\ reader.got = provider.sent
    <3>1. 1 = Len(ch) /\ producer.pc = "closed" /\ producer.err = "nil"
      <4>1. 1 \in 1..Len(ch) BY <1>2
      <4> QED BY ONLY <1>i, <2>5, <4>1 DEF DoneLast
    <3>2. Ends = 1 BY <3>1 DEF Ends
    <3>3. provider.result = "nil" /\ reader.got + Len(ch) - Ends = provider.sent
      BY ONLY <1>i, <2>5, <3>1 DEF OkIsAll
    <3>4. Len(ch) - Ends = 0 BY ONLY <3>1, <3>2
    <3> DEFINE l == Len(ch)
    <3>5. l \in Nat /\ l - Ends = 0 /\ reader.got + l - Ends = provider.sent
      BY <1>n, <3>3, <3>4
    <3> HIDE DEF l
    <3>6. reader.got = provider.sent BY ONLY <1>n, <3>2, <3>5
    <3> QED BY <3>3, <3>6
  <2>6. OkIsAll' BY <1>1, <1>5, <2>5 DEF OkIsAll
  <2> QED BY <2>1, <2>2, <2>3, <2>4, <2>6 DEF StreamInv
<1>6. CASE reader.pc = "stale" /\ reader' = [reader EXCEPT !.pc = "finished"]
  BY <1>5, <1>6 DEF Stream!TypeOK
<1>7. CASE /\ reader.pc = "reading" /\ ch[1].done # "no"
           /\ reader' = [reader EXCEPT !.pc = "finished", !.outcome = ch[1].done]
  <2>1. ch[1].done \in Stream!Errors BY <1>s, <1>7 DEF Stream!Event
  <2> QED BY <1>5, <1>7, <2>1 DEF Stream!TypeOK
<1> QED BY <1>2, <1>4, <1>6, <1>7 DEF Stream!ReadEvent

LEMMA CancelStep ==
  ASSUME StreamInv, Stream!Watchdog \/ Stream!Supersede PROVE StreamInv'
<1> USE DEF StreamInv
<1>1. /\ UNCHANGED <<provider, tokens, producer, ch>>
      /\ watchdog' \in {"armed", "fired", "cancelled", "stopped"}
      /\ ctxDone' \in BOOLEAN /\ timedOut' \in BOOLEAN
  BY DEF Stream!Watchdog, Stream!WatchdogFires, Stream!WatchdogCancels, Stream!Supersede,
     Stream!TypeOK
<1>2. \/ UNCHANGED reader
      \/ reader.pc = "reading" /\ reader' = [reader EXCEPT !.pc = "stale"]
  BY DEF Stream!Watchdog, Stream!WatchdogFires, Stream!WatchdogCancels, Stream!Supersede
<1>3. /\ reader' \in [pc : {"reading", "stale", "finished"}, got : 0..MaxTokens,
                      outcome : Stream!Errors \cup {"none"}]
      /\ reader'.got = reader.got /\ reader'.outcome = reader.outcome
      /\ reader'.pc = "reading" => reader.pc = "reading"
      /\ reader.pc = "finished" => reader'.pc = "finished"
  BY <1>2 DEF Stream!TypeOK
<1>4. Stream!TypeOK' BY <1>1, <1>3 DEF Stream!TypeOK
<1>5. Stream!NoGap' BY <1>1, <1>3 DEF Stream!NoGap
<1>6. InOrder' BY <1>1, <1>3 DEF InOrder, Held
<1>7. DoneLast' BY <1>1, <1>3 DEF DoneLast
<1>8. OkIsAll' BY <1>1, <1>3 DEF OkIsAll, Ends
<1> QED BY <1>4, <1>5, <1>6, <1>7, <1>8

LEMMA StreamPreserved == StreamInv /\ [Stream!Next]_(Stream!vars) => StreamInv'
<1> SUFFICES ASSUME StreamInv, [Stream!Next]_(Stream!vars) PROVE StreamInv' OBVIOUS
<1>1. CASE UNCHANGED Stream!vars
  <2> USE DEF StreamInv, Stream!vars
  <2>1. Stream!TypeOK' BY <1>1 DEF Stream!TypeOK
  <2>2. Stream!NoGap' BY <1>1 DEF Stream!NoGap
  <2>3. InOrder' BY <1>1 DEF InOrder, Held
  <2>4. DoneLast' BY <1>1 DEF DoneLast
  <2>5. OkIsAll' BY <1>1 DEF OkIsAll, Ends
  <2> QED BY <2>1, <2>2, <2>3, <2>4, <2>5
<1> QED BY <1>1, ProviderStep, TakeStep, ForwardStep, EndStep, DoneStep, ReadStep,
           CancelStep DEF Stream!Next, Stream!Producer

-----------------------------------------------------------------------------
(*                          The session index                              *)

LEMMA IndexBounds ==
    /\ Corrupt \notin Incidents
    /\ Threshold \in Nat /\ MaxStarts \in Nat /\ MaxTorn \in Nat /\ InitLines \in Nat
  BY ServicesAssumption DEF Index!IndexAssumption

LEMMA SameLibrary ==
    /\ \A S : Index!Cardinality(S) = Cardinality(S)
    /\ \A s : Index!ToSet(s) = ToSet(s)
    /\ \A s : Index!Last(s) = Last(s)
    /\ \A s : Index!Front(s) = Front(s)
  BY DEF Index!Cardinality, Cardinality, Index!ToSet, ToSet, Index!Last, Last,
     Index!Front, Front, Index!IsFiniteSet, IsFiniteSet

(* load() keeps every incident once and nothing else.                      *)
LEMMA FirstSeenFacts ==
  ASSUME NEW lines \in Seq(Index!Lines)
  PROVE  /\ Index!FirstSeenOrder(lines) \in Seq(Incidents)
         /\ IsInjective(Index!FirstSeenOrder(lines))
         /\ ToSet(Index!FirstSeenOrder(lines)) = Index!Loadable(lines)
<1> DEFINE isFirst(k) == lines[k] # Corrupt /\ \A j \in 1..(k-1) : lines[j] # lines[k]
           F == {k \in DOMAIN lines : isFirst(k)}
           m == Cardinality(F)
           at(n) == CHOOSE k \in F : Cardinality(Below(F, k)) = n - 1
           r == [n \in 1..m |-> lines[at(n)]]
<1>1. /\ Len(lines) \in Nat /\ DOMAIN lines = 1..Len(lines)
      /\ \A k \in 1..Len(lines) : lines[k] \in Index!Lines
  BY LenProperties, ElementOfSeq
<1>2. F \in SUBSET Nat /\ IsFiniteSet(F)
  <2>1. F \in SUBSET (1..Len(lines)) BY <1>1
  <2>2. IsFiniteSet(1..Len(lines)) BY <1>1, FS_Interval
  <2> QED BY <2>1, <2>2, <1>1, FS_Subset
<1>3. Index!FirstSeenOrder(lines) = r
  BY DEF Index!FirstSeenOrder, Index!Cardinality, Cardinality, Index!IsFiniteSet,
     IsFiniteSet, Below
<1>4. \A k \in F : k \in DOMAIN lines /\ lines[k] \in Incidents
  <2>1. \A k \in F : k \in DOMAIN lines /\ lines[k] # Corrupt OBVIOUS
  <2> HIDE DEF F
  <2> QED BY <1>1, <2>1 DEF Index!Lines
<1>5. ASSUME NEW k \in F, NEW l \in F, lines[k] = lines[l] PROVE k = l
  <2>1. k \in Nat /\ l \in Nat /\ k \in 1..Len(lines) /\ l \in 1..Len(lines) BY <1>1
  <2>2. CASE k < l
    <3>1. k \in 1..(l - 1) BY <2>1, <2>2
    <3> QED BY <1>5, <3>1
  <2>3. CASE l < k
    <3>1. l \in 1..(k - 1) BY <2>1, <2>3
    <3> QED BY <1>5, <3>1
  <2> QED BY <2>1, <2>2, <2>3
<1>6. ASSUME NEW x \in Index!Loadable(lines) PROVE \E k \in F : lines[k] = x
  <2> DEFINE P == {k \in DOMAIN lines : lines[k] = x}
  <2>1. x \in Incidents /\ P # {}
    BY SameLibrary DEF Index!Loadable, ToSet
  <2>2. P \in SUBSET Nat /\ IsFiniteSet(P)
    <3>1. P \in SUBSET (1..Len(lines)) BY <1>1
    <3>2. IsFiniteSet(1..Len(lines)) BY <1>1, FS_Interval
    <3> QED BY <3>1, <3>2, <1>1, FS_Subset
  <2> HIDE DEF P
  <2>3. PICK k \in P : \A j \in P : k <= j BY <2>1, <2>2, FirstPosition
  <2>4. k \in 1..Len(lines) /\ lines[k] = x /\ k \in DOMAIN lines BY <1>1 DEF P
  <2>5. ASSUME NEW j \in 1..(k - 1), lines[j] = x PROVE FALSE
    <3>1. j \in 1..Len(lines) /\ j < k BY <1>1, <2>4
    <3>2. j \in P BY <1>1, <2>5, <3>1 DEF P
    <3>3. k <= j BY <2>3, <3>2
    <3> QED BY <2>4, <3>1, <3>3
  <2>6. isFirst(k) BY <2>1, <2>4, <2>5, IndexBounds
  <2> QED BY <2>4, <2>6
<1> HIDE DEF F
<1>7. /\ m \in Nat
      /\ \A n \in 1..m : at(n) \in F /\ Cardinality(Below(F, at(n))) = n - 1
      /\ \A k \in F : Cardinality(Below(F, k)) + 1 \in 1..m
                      /\ at(Cardinality(Below(F, k)) + 1) = k
  <2>1. m \in Nat BY <1>2, RankFacts
  <2>2. ASSUME NEW n \in 1..m
        PROVE  at(n) \in F /\ Cardinality(Below(F, at(n))) = n - 1
    <3>1. n - 1 \in 0..(m - 1) BY <2>1
    <3>2. \E k \in F : Cardinality(Below(F, k)) = n - 1 BY <1>2, <3>1, RankFacts
    <3> QED BY <3>2
  <2>3. ASSUME NEW k \in F
        PROVE  /\ Cardinality(Below(F, k)) + 1 \in 1..m
               /\ at(Cardinality(Below(F, k)) + 1) = k
    <3> DEFINE d == Cardinality(Below(F, k))
    <3>1. d \in 0..(m - 1) BY <1>2, RankFacts
    <3> HIDE DEF m
    <3>2. d + 1 \in 1..m /\ (d + 1) - 1 = d BY <2>1, <3>1
    <3>3. at(d + 1) \in F /\ Cardinality(Below(F, at(d + 1))) = d BY <2>2, <3>2
    <3>4. at(d + 1) = k BY <1>2, <3>3, RankFacts
    <3> QED BY <3>2, <3>4
  <2> QED BY <2>1, <2>2, <2>3
<1> HIDE DEF at, m
<1>8. r \in Seq(Incidents) /\ DOMAIN r = 1..m
  <2>1. \A n \in 1..m : lines[at(n)] \in Incidents BY <1>4, <1>7
  <2>2. m \in Nat BY <1>7
  <2> QED BY <2>1, <2>2
<1>9. IsInjective(r)
  <2> SUFFICES ASSUME NEW n \in 1..m, NEW o \in 1..m, r[n] = r[o] PROVE n = o
    BY <1>8 DEF IsInjective
  <2>1. at(n) = at(o) BY <1>5, <1>7
  <2>2. n - 1 = o - 1 BY <1>7, <2>1
  <2> QED BY <1>7, <2>2
<1>10. ToSet(r) = Index!Loadable(lines)
  <2>1. ASSUME NEW n \in 1..m PROVE r[n] \in Index!Loadable(lines)
    <3>1. at(n) \in DOMAIN lines /\ lines[at(n)] \in Incidents BY <1>4, <1>7
    <3> QED BY <3>1, SameLibrary DEF Index!Loadable, ToSet
  <2>2. ASSUME NEW x \in Index!Loadable(lines) PROVE \E n \in 1..m : r[n] = x
    <3>1. PICK k \in F : lines[k] = x BY <1>6
    <3> DEFINE d == Cardinality(Below(F, k)) + 1
    <3>2. d \in 1..m /\ at(d) = k BY <1>7
    <3> HIDE DEF d
    <3> QED BY <3>1, <3>2
  <2> HIDE DEF r
  <2> QED BY <1>8, <2>1, <2>2 DEF ToSet
<1> QED BY <1>3, <1>8, <1>9, <1>10

(* A line appended whole, and one that continues an unterminated one.      *)
OneLine(c, i) == \A m, n \in 1..Len(c) : c[m] = i /\ c[n] = i => m = n

LEMMA LineAppended ==
  ASSUME NEW c \in Seq(Index!Lines), NEW x \in Index!Lines
  PROVE  /\ Append(c, x) \in Seq(Index!Lines) /\ Append(c, x) # <<>>
         /\ Last(Append(c, x)) = x
         /\ Index!Loadable(Append(c, x)) = Index!Loadable(c) \cup ({x} \cap Incidents)
         /\ \A i : i # x /\ OneLine(c, i) => OneLine(Append(c, x), i)
         /\ x \in Incidents \ Index!Loadable(c) => OneLine(Append(c, x), x)
<1> DEFINE l == Len(c)
           d == Append(c, x)
<1>1. /\ l \in Nat /\ DOMAIN c = 1..l /\ DOMAIN d = 1..(l + 1) /\ Len(d) = l + 1
      /\ d \in Seq(Index!Lines)
      /\ \A k \in 1..l : d[k] = c[k]
      /\ d[l + 1] = x
  OBVIOUS
<1> HIDE DEF l, d
<1>2. d # <<>> /\ Last(d) = x BY <1>1 DEF Last
<1>3. ToSet(d) = ToSet(c) \cup {x}
  <2>1. \A k \in 1..(l + 1) : d[k] \in ToSet(c) \cup {x}
    <3> SUFFICES ASSUME NEW k \in 1..(l + 1) PROVE d[k] \in ToSet(c) \cup {x} OBVIOUS
    <3>1. k \in 1..l \/ k = l + 1 BY <1>1
    <3> QED BY <1>1, <3>1 DEF ToSet
  <2>2. \A k \in 1..l : c[k] \in ToSet(d)
    <3> SUFFICES ASSUME NEW k \in 1..l PROVE c[k] \in ToSet(d) OBVIOUS
    <3>1. k \in 1..(l + 1) BY <1>1
    <3> QED BY <1>1, <3>1 DEF ToSet
  <2>3. x \in ToSet(d)
    <3>1. l + 1 \in 1..(l + 1) BY <1>1
    <3> QED BY <1>1, <3>1 DEF ToSet
  <2> QED BY <1>1, <2>1, <2>2, <2>3 DEF ToSet
<1>4. Index!Loadable(d) = Index!Loadable(c) \cup ({x} \cap Incidents)
  BY <1>3, SameLibrary DEF Index!Loadable
<1>5. ASSUME NEW i, i # x, OneLine(c, i) PROVE OneLine(d, i)
  <2> SUFFICES ASSUME NEW m \in 1..(l + 1), NEW n \in 1..(l + 1), d[m] = i, d[n] = i
               PROVE  m = n
    BY <1>1 DEF OneLine
  <2>1. m \in 1..l /\ n \in 1..l BY <1>1, <1>5
  <2> QED BY <1>1, <1>5, <2>1 DEF OneLine, l
<1>6. ASSUME x \in Incidents \ Index!Loadable(c) PROVE OneLine(d, x)
  <2>1. \A k \in 1..l : c[k] # x BY <1>1, <1>6, SameLibrary DEF Index!Loadable, ToSet
  <2> SUFFICES ASSUME NEW m \in 1..(l + 1), NEW n \in 1..(l + 1), d[m] = x, d[n] = x
               PROVE  m = n
    BY <1>1 DEF OneLine
  <2>2. m \notin 1..l /\ n \notin 1..l BY <1>1, <2>1
  <2> QED BY <1>1, <2>2
<1> QED BY <1>1, <1>2, <1>4, <1>5, <1>6 DEF d

LEMMA LineMerged ==
  ASSUME NEW c \in Seq(Index!Lines), c # <<>>
  PROVE  LET d == Append(Front(c), Corrupt) IN
         /\ d \in Seq(Index!Lines) /\ d # <<>> /\ Last(d) = Corrupt
         /\ Index!Loadable(d) \subseteq Index!Loadable(c)
         /\ Last(c) \notin Incidents => Index!Loadable(d) = Index!Loadable(c)
         /\ Last(c) \in Incidents /\ OneLine(c, Last(c)) =>
              Index!Loadable(d) = Index!Loadable(c) \ {Last(c)}
         /\ \A i \in Incidents : OneLine(c, i) => OneLine(d, i)
<1> DEFINE l == Len(c)
           d == Append(Front(c), Corrupt)
<1>0. Corrupt \notin Incidents /\ Corrupt \in Index!Lines
  BY IndexBounds DEF Index!Lines
<1>1. l \in Nat /\ l > 0 /\ DOMAIN c = 1..l /\ \A k \in 1..l : c[k] \in Index!Lines
  <2>1. l \in Nat /\ DOMAIN c = 1..l /\ \A k \in 1..l : c[k] \in Index!Lines
    BY LenProperties, ElementOfSeq
  <2>2. l # 0 BY EmptySeq
  <2> QED BY <2>1, <2>2
<1>2. /\ Front(c) \in Seq(Index!Lines) /\ Len(Front(c)) = l - 1
      /\ \A k \in 1..(l - 1) : Front(c)[k] = c[k]
  <2> DEFINE e == SubSeq(c, 1, l - 1)
  <2>1. 1 \in Int /\ l - 1 \in Int /\ \A k \in 1..(l - 1) : c[k] \in Index!Lines
    BY <1>1
  <2>2. /\ e \in Seq(Index!Lines) /\ Len(e) = IF 1 <= l - 1 THEN (l - 1) - 1 + 1 ELSE 0
        /\ \A k \in 1..((l - 1) - 1 + 1) : e[k] = c[1 + k - 1]
    BY <2>1, SubSeqProperties
  <2> HIDE DEF e, l
  <2>3. Len(e) = l - 1 BY <1>1, <2>2
  <2>4. ASSUME NEW k \in 1..(l - 1) PROVE e[k] = c[k]
    <3>1. k \in 1..((l - 1) - 1 + 1) /\ 1 + k - 1 = k BY <1>1
    <3> QED BY <2>2, <3>1
  <2> QED BY <2>2, <2>3, <2>4 DEF e, l, Front
<1> DEFINE f == Front(c)
<1> HIDE DEF f
<1>3. /\ d \in Seq(Index!Lines) /\ Len(d) = l /\ DOMAIN d = 1..l
      /\ \A k \in 1..(l - 1) : d[k] = c[k]
      /\ d[l] = Corrupt
  <2>1. f \in Seq(Index!Lines) /\ Len(f) = l - 1 /\ \A k \in 1..(l - 1) : f[k] = c[k]
    BY <1>2 DEF f
  <2>2. /\ Append(f, Corrupt) \in Seq(Index!Lines) /\ Len(Append(f, Corrupt)) = Len(f) + 1
        /\ DOMAIN Append(f, Corrupt) = 1..(Len(f) + 1)
        /\ \A k \in 1..Len(f) : Append(f, Corrupt)[k] = f[k]
        /\ Append(f, Corrupt)[Len(f) + 1] = Corrupt
    BY <2>1, <1>0
  <2>3. Len(f) + 1 = l BY <2>1, <1>1
  <2> QED BY <2>1, <2>2, <2>3 DEF f
<1> HIDE DEF l, d
<1>4. d # <<>> /\ Last(d) = Corrupt BY <1>1, <1>3 DEF Last
<1>5. Last(c) = c[l] BY DEF Last, l
<1>6. \A k \in 1..l : k \in 1..(l - 1) \/ k = l BY <1>1
<1>7. Index!Loadable(d) \subseteq Index!Loadable(c)
  <2> SUFFICES ASSUME NEW k \in 1..l, d[k] \in Incidents PROVE d[k] \in ToSet(c)
    BY <1>3, SameLibrary DEF Index!Loadable, ToSet
  <2>1. k \in 1..(l - 1) BY <1>0, <1>3, <1>6
  <2> QED BY <1>1, <1>3, <2>1 DEF ToSet
<1>8. ASSUME NEW x \in Index!Loadable(c), x # Last(c) PROVE x \in Index!Loadable(d)
  <2>1. PICK k \in 1..l : c[k] = x BY <1>1, SameLibrary DEF Index!Loadable, ToSet
  <2>2. k \in 1..(l - 1) BY <1>5, <1>6, <1>8, <2>1
  <2>3. d[k] = x BY <1>3, <2>1, <2>2
  <2>4. x \in ToSet(d) BY <1>3, <2>1, <2>3 DEF ToSet
  <2> QED BY <2>4, SameLibrary DEF Index!Loadable
<1>9. ASSUME Last(c) \in Incidents, OneLine(c, Last(c))
      PROVE  Last(c) \notin Index!Loadable(d)
  <2> SUFFICES ASSUME NEW k \in 1..l, d[k] = c[l] PROVE FALSE
    BY <1>3, <1>5, SameLibrary DEF Index!Loadable, ToSet
  <2>1. k \in 1..(l - 1) BY <1>0, <1>3, <1>5, <1>6, <1>9
  <2>2. c[k] = c[l] /\ l \in 1..l BY <1>1, <1>3, <2>1
  <2>3. k = l BY <1>5, <1>9, <2>2 DEF OneLine, l
  <2> QED BY <1>1, <2>1, <2>3
<1>10. ASSUME NEW i \in Incidents, OneLine(c, i) PROVE OneLine(d, i)
  <2> SUFFICES ASSUME NEW m \in 1..l, NEW n \in 1..l, d[m] = i, d[n] = i PROVE m = n
    BY <1>3 DEF OneLine
  <2>1. m \in 1..(l - 1) /\ n \in 1..(l - 1) BY <1>0, <1>3, <1>6
  <2>2. c[m] = i /\ c[n] = i BY <1>3, <2>1
  <2> QED BY <1>10, <2>2 DEF OneLine, l
<1>11. Last(c) \notin Incidents => \A x \in Index!Loadable(c) : x # Last(c)
  BY DEF Index!Loadable
<1>a. Last(c) \notin Incidents => Index!Loadable(d) = Index!Loadable(c)
  BY <1>7, <1>8, <1>11
<1>b. Last(c) \in Incidents /\ OneLine(c, Last(c)) =>
        Index!Loadable(d) = Index!Loadable(c) \ {Last(c)}
  BY <1>7, <1>8, <1>9
<1> QED BY <1>3, <1>4, <1>7, <1>10, <1>a, <1>b DEF d

(* For any number of processes: nothing is loadable that was not there at  *)
(* first or established since, whatever happens to the file.               *)
Known == found \cup recorded

IndexSafe ==
    /\ Index!TypeOK
    /\ \A f \in torn : files[f] # <<>>
    /\ \A f \in 1..Len(files) : Index!Loadable(files[f]) \subseteq Known
    /\ \A q \in Procs :
        /\ mem[q] \subseteq Known /\ ToSet(snapshot[q]) \subseteq Known
        /\ \A i \in Incidents : pending[q][i] # Index!Nothing => i \in recorded

LEMMA EmptyLoads ==
  /\ <<>> \in Seq(Index!Lines) /\ Index!Loadable(<<>>) = {}
  /\ <<>> \in Seq(Incidents) /\ ToSet(<<>>) = {}
  BY SameLibrary DEF Index!Loadable, ToSet

LEMMA IndexTyped ==
  ASSUME Index!TypeOK
  PROVE  /\ Len(files) \in Nat /\ DOMAIN files = 1..Len(files) /\ path \in 0..Len(files)
         /\ \A f \in 1..Len(files) : files[f] \in Seq(Index!Lines)
         /\ Index!Content(path) \in Seq(Index!Lines)
         /\ Index!Stored \subseteq Incidents
<1>1. files \in Seq(Seq(Index!Lines)) /\ path \in 0..Len(files) BY DEF Index!TypeOK
<1>2. /\ Len(files) \in Nat /\ DOMAIN files = 1..Len(files)
      /\ \A f \in 1..Len(files) : files[f] \in Seq(Index!Lines)
  BY <1>1, LenProperties, ElementOfSeq
<1>3. Index!Content(path) \in Seq(Index!Lines)
  <2>1. path = 0 \/ path \in 1..Len(files) BY <1>1, <1>2
  <2> QED BY <1>2, <2>1, EmptyLoads DEF Index!Content, Index!NoFile
<1> QED BY <1>1, <1>2, <1>3 DEF Index!Stored, Index!Loadable

LEMMA StoredKnown == IndexSafe => Index!Stored \subseteq Known
<1> SUFFICES ASSUME IndexSafe PROVE Index!Stored \subseteq Known OBVIOUS
<1>1. path = 0 \/ path \in 1..Len(files) BY IndexTyped DEF IndexSafe
<1>2. CASE path = 0
  BY <1>2, EmptyLoads DEF Index!Stored, Index!Content, Index!NoFile
<1>3. CASE path \in 1..Len(files)
  <2>1. path # 0 BY <1>3
  <2> QED BY <1>3, <2>1 DEF IndexSafe, Index!Stored, Index!Content, Index!NoFile
<1> QED BY <1>1, <1>2, <1>3

LEMMA PendingSet ==
  ASSUME NEW S, pending \in [Procs -> [Incidents -> S]],
         NEW q \in Procs, NEW i \in Incidents, NEW v \in S,
         pending' = [pending EXCEPT ![q][i] = v]
  PROVE  /\ pending' \in [Procs -> [Incidents -> S]] /\ pending'[q][i] = v
         /\ \A r \in Procs, j \in Incidents :
              r # q \/ j # i => pending'[r][j] = pending[r][j]
  OBVIOUS

LEMMA FileAdded ==
  ASSUME Index!TypeOK, NEW c \in Seq(Index!Lines), files' = Append(files, c)
  PROVE  /\ files' \in Seq(Seq(Index!Lines)) /\ Len(files') = Len(files) + 1
         /\ files'[Len(files) + 1] = c
         /\ \A f \in 1..Len(files) : files'[f] = files[f]
<1>1. files \in Seq(Seq(Index!Lines)) BY DEF Index!TypeOK
<1> QED BY <1>1

LEMMA FileWritten ==
  ASSUME Index!TypeOK, \A f \in torn : files[f] # <<>>,
         NEW f \in 1..Len(files), NEW x \in Index!Lines, files' = Index!AppendLine(f, x)
  PROVE  /\ files' \in Seq(Seq(Index!Lines)) /\ Len(files') = Len(files)
         /\ \A g \in 1..Len(files) : g # f => files'[g] = files[g]
         /\ files'[f] # <<>>
         /\ f \in torn => files[f] # <<>> /\ files'[f] = Append(Front(files[f]), Corrupt)
         /\ f \notin torn => files'[f] = Append(files[f], x)
<1> DEFINE c == IF f \in torn THEN Append(Front(files[f]), Corrupt) ELSE Append(files[f], x)
<1>1. /\ files \in Seq(Seq(Index!Lines)) /\ files[f] \in Seq(Index!Lines)
      /\ Len(files) \in Nat /\ DOMAIN files = 1..Len(files)
  BY IndexTyped DEF Index!TypeOK
<1>2. c \in Seq(Index!Lines) /\ c # <<>>
  <2>1. CASE f \in torn
    <3> DEFINE d == Append(Front(files[f]), Corrupt)
    <3>1. d \in Seq(Index!Lines) /\ d # <<>> BY <1>1, <2>1, LineMerged
    <3> QED BY <2>1, <3>1
  <2>2. CASE f \notin torn
    <3>1. Append(files[f], x) \in Seq(Index!Lines) /\ Append(files[f], x) # <<>>
      BY <1>1, LineAppended
    <3> QED BY <2>2, <3>1
  <2> QED BY <2>1, <2>2
<1>3. files' = [files EXCEPT ![f] = c]
  BY SameLibrary DEF Index!AppendLine
<1>4. f \in torn => files[f] # <<>> OBVIOUS
<1>5. (f \in torn => c = Append(Front(files[f]), Corrupt))
      /\ (f \notin torn => c = Append(files[f], x))
  OBVIOUS
<1> HIDE DEF c
<1>6. /\ files' \in Seq(Seq(Index!Lines)) /\ Len(files') = Len(files)
      /\ \A g \in 1..Len(files) : files'[g] = IF g = f THEN c ELSE files[g]
  BY <1>1, <1>2, <1>3, ExceptSeq
<1> QED BY <1>2, <1>4, <1>5, <1>6

LEMMA FoundFile ==
  ASSUME NEW c \in Index!SeqOf(Index!Lines, InitLines)
  PROVE  c \in Seq(Index!Lines)
<1>1. PICK m \in 0..InitLines : c \in [1..m -> Index!Lines]
  BY DEF Index!SeqOf
<1>2. m \in Nat BY IndexBounds
<1> QED BY <1>1, <1>2

LEMMA IndexStarts == Index!Init => IndexSafe
<1> SUFFICES ASSUME Index!Init PROVE IndexSafe OBVIOUS
<1>1. /\ torn = {} /\ found = Index!Stored /\ durable = Index!Stored /\ recorded = {}
      /\ mem = [q \in Procs |-> {}] /\ snapshot = [q \in Procs |-> <<>>]
      /\ pending = [q \in Procs |-> [i \in Incidents |-> Index!Nothing]]
      /\ proc = [q \in Procs |-> "down"] /\ starts = 0 /\ tears = 0
  BY DEF Index!Init
<1>2. /\ files \in Seq(Seq(Index!Lines)) /\ path \in 0..Len(files) /\ Len(files) \in Nat
      /\ \A f \in 1..Len(files) : f = path
  <2>1. CASE files = <<>> /\ path = Index!NoFile
    BY <2>1 DEF Index!NoFile
  <2>2. ASSUME NEW c \in Index!SeqOf(Index!Lines, InitLines), files = <<c>>, path = 1
        PROVE  <1>2
    <3>1. c \in Seq(Index!Lines) BY FoundFile
    <3> QED BY <2>2, <3>1
  <2> QED BY <2>1, <2>2 DEF Index!Init
<1>3. Index!Stored \subseteq Incidents BY DEF Index!Stored, Index!Loadable
<1>4. Index!TypeOK
  <2>1. /\ starts \in 0..MaxStarts /\ tears \in 0..MaxTorn BY <1>1, IndexBounds
  <2>2. snapshot \in [Procs -> Seq(Incidents)] BY <1>1, EmptyLoads
  <2>3. pending \in [Procs -> [Incidents -> Index!Nothing..Len(files)]]
    <3>1. Index!Nothing \in Index!Nothing..Len(files) BY <1>2 DEF Index!Nothing
    <3> QED BY <1>1, <3>1
  <2>4. /\ proc \in [Procs -> {"down", "compacting", "up"}]
        /\ mem \in [Procs -> SUBSET Incidents]
    BY <1>1
  <2> QED BY <1>1, <1>2, <1>3, <2>1, <2>2, <2>3, <2>4 DEF Index!TypeOK
<1>5. \A f \in 1..Len(files) : Index!Loadable(files[f]) \subseteq Known
  <2> SUFFICES ASSUME NEW f \in 1..Len(files)
               PROVE  Index!Loadable(files[f]) \subseteq Index!Stored
    BY <1>1 DEF Known
  <2>1. f = path /\ path # 0 BY <1>2
  <2> QED BY <2>1 DEF Index!Stored, Index!Content, Index!NoFile
<1>6. \A q \in Procs :
        /\ mem[q] \subseteq Known /\ ToSet(snapshot[q]) \subseteq Known
        /\ \A i \in Incidents : pending[q][i] # Index!Nothing => i \in recorded
  BY <1>1, EmptyLoads
<1> QED BY <1>1, <1>4, <1>5, <1>6 DEF IndexSafe

LEMMA StartSafe == ASSUME IndexSafe, NEW q \in Procs, Index!Start(q) PROVE IndexSafe'
<1>1. /\ starts < MaxStarts /\ starts' = starts + 1
      /\ mem' = [mem EXCEPT ![q] = Index!Stored]
      /\ \E new \in {"compacting", "up"} : proc' = [proc EXCEPT ![q] = new]
      /\ \/ snapshot' = [snapshot EXCEPT ![q] = Index!FirstSeenOrder(Index!Content(path))]
         \/ snapshot' = snapshot
      /\ UNCHANGED <<files, path, torn, pending, tears, found, durable, recorded>>
  BY DEF Index!Start, Index!fileVars, Index!history
<1> DEFINE s == Index!FirstSeenOrder(Index!Content(path))
<1>2. s \in Seq(Incidents) /\ ToSet(s) = Index!Stored
  BY IndexTyped, FirstSeenFacts DEF IndexSafe, Index!Stored
<1>3. Index!Stored \subseteq Incidents /\ Index!Stored \subseteq Known
  BY IndexTyped, StoredKnown DEF IndexSafe
<1> HIDE DEF s
<1>4. /\ snapshot' \in [Procs -> Seq(Incidents)]
      /\ \A r \in Procs : snapshot'[r] = snapshot[r] \/ (r = q /\ snapshot'[r] = s)
  <2>1. snapshot \in [Procs -> Seq(Incidents)] BY DEF IndexSafe, Index!TypeOK
  <2>2. snapshot' = [snapshot EXCEPT ![q] = s] \/ snapshot' = snapshot BY <1>1 DEF s
  <2> QED BY ONLY <1>2, <2>1, <2>2
<1>5. /\ mem' \in [Procs -> SUBSET Incidents]
      /\ \A r \in Procs : mem'[r] = mem[r] \/ mem'[r] = Index!Stored
  <2>1. mem \in [Procs -> SUBSET Incidents] BY DEF IndexSafe, Index!TypeOK
  <2> QED BY <1>1, <1>3, <2>1
<1>6. Index!TypeOK'
  <2>1. starts' \in 0..MaxStarts BY <1>1, IndexBounds DEF IndexSafe, Index!TypeOK
  <2>2. proc' \in [Procs -> {"down", "compacting", "up"}]
    BY <1>1 DEF IndexSafe, Index!TypeOK
  <2> QED BY <1>1, <1>4, <1>5, <2>1, <2>2 DEF IndexSafe, Index!TypeOK
<1>7. Known' = Known BY <1>1 DEF Known
<1>8. \A r \in Procs : mem'[r] \subseteq Known /\ ToSet(snapshot'[r]) \subseteq Known
  BY <1>2, <1>3, <1>4, <1>5 DEF IndexSafe
<1>9. (\A f \in 1..Len(files) : Index!Loadable(files[f]) \subseteq Known)'
  BY <1>1, <1>7 DEF IndexSafe, Index!Loadable
<1> QED BY <1>1, <1>6, <1>7, <1>8, <1>9 DEF IndexSafe

LEMMA StopSafe ==
  ASSUME IndexSafe, NEW q \in Procs, Index!Stop(q) \/ Index!CompactFails(q)
  PROVE  IndexSafe'
<1> DEFINE none == [i \in Incidents |-> Index!Nothing]
<1>1. /\ \E new \in {"down", "up"} : proc' = [proc EXCEPT ![q] = new]
      /\ mem' = [mem EXCEPT ![q] = {}] \/ mem' = mem
      /\ snapshot' = [snapshot EXCEPT ![q] = <<>>]
      /\ pending' = [pending EXCEPT ![q] = none] \/ pending' = pending
      /\ UNCHANGED <<files, path, torn, starts, tears, found, durable, recorded>>
  BY DEF Index!Stop, Index!CompactFails, Index!fileVars, Index!history
<1>2. none \in [Incidents -> Index!Nothing..Len(files)]
  <2>1. Index!Nothing \in Index!Nothing..Len(files)
    BY IndexTyped DEF Index!Nothing, IndexSafe
  <2> QED BY <2>1
<1>3. \A i \in Incidents : none[i] = Index!Nothing OBVIOUS
<1> HIDE DEF none
<1>4. /\ snapshot' \in [Procs -> Seq(Incidents)]
      /\ \A r \in Procs : snapshot'[r] = snapshot[r] \/ snapshot'[r] = <<>>
  BY <1>1, EmptyLoads DEF IndexSafe, Index!TypeOK
<1>5. /\ mem' \in [Procs -> SUBSET Incidents]
      /\ \A r \in Procs : mem'[r] = mem[r] \/ mem'[r] = {}
  BY <1>1 DEF IndexSafe, Index!TypeOK
<1>6. /\ pending' \in [Procs -> [Incidents -> Index!Nothing..Len(files)]]
      /\ \A r \in Procs : pending'[r] = pending[r] \/ pending'[r] = none
  BY <1>1, <1>2 DEF IndexSafe, Index!TypeOK
<1>7. Index!TypeOK'
  <2>1. proc' \in [Procs -> {"down", "compacting", "up"}]
    BY <1>1 DEF IndexSafe, Index!TypeOK
  <2> QED BY <1>1, <1>4, <1>5, <1>6, <2>1 DEF IndexSafe, Index!TypeOK
<1>8. Known' = Known BY <1>1 DEF Known
<1>9. \A r \in Procs : mem'[r] \subseteq Known /\ ToSet(snapshot'[r]) \subseteq Known
  BY <1>4, <1>5, EmptyLoads DEF IndexSafe
<1>10. \A r \in Procs, i \in Incidents : pending'[r][i] # Index!Nothing => i \in recorded
  BY <1>3, <1>6 DEF IndexSafe
<1>11. (\A f \in 1..Len(files) : Index!Loadable(files[f]) \subseteq Known)'
  BY <1>1, <1>8 DEF IndexSafe, Index!Loadable
<1> QED BY <1>1, <1>7, <1>8, <1>9, <1>10, <1>11 DEF IndexSafe

(* A file more, and the incidents it holds are known.                      *)
LEMMA AddedSafe ==
  ASSUME IndexSafe, NEW c \in Seq(Index!Lines), Index!Loadable(c) \subseteq Known,
         files' = Append(files, c), UNCHANGED <<torn, found, recorded>>
  PROVE  /\ files' \in Seq(Seq(Index!Lines)) /\ Len(files') = Len(files) + 1
         /\ torn' \subseteq 1..Len(files')
         /\ (\A f \in torn : files[f] # <<>>)'
         /\ (\A f \in 1..Len(files) : Index!Loadable(files[f]) \subseteq Known)'
<1>1. /\ files' \in Seq(Seq(Index!Lines)) /\ Len(files') = Len(files) + 1
      /\ files'[Len(files) + 1] = c
      /\ \A f \in 1..Len(files) : files'[f] = files[f]
  BY FileAdded DEF IndexSafe
<1>2. Len(files) \in Nat BY IndexTyped DEF IndexSafe
<1>3. torn \subseteq 1..Len(files) BY DEF IndexSafe, Index!TypeOK
<1>4. torn' \subseteq 1..Len(files')
  BY ONLY <1>2, <1>3, torn' = torn, Len(files') = Len(files) + 1, <1>1
<1>5. (\A f \in torn : files[f] # <<>>)'
  BY <1>1, <1>3 DEF IndexSafe
<1>6. ASSUME NEW f \in 1..(Len(files) + 1)
      PROVE  Index!Loadable(files'[f]) \subseteq Known
  <2>1. f \in 1..Len(files) \/ f = Len(files) + 1 BY <1>2
  <2> QED BY <1>1, <2>1 DEF IndexSafe
<1>7. Known' = Known BY DEF Known
<1> QED BY <1>1, <1>4, <1>5, <1>6, <1>7 DEF Index!Loadable

LEMMA PendingGrows ==
  ASSUME Index!TypeOK, Len(files) <= Len(files'), Len(files') \in Nat
  PROVE  pending \in [Procs -> [Incidents -> Index!Nothing..Len(files')]]
<1>1. Index!Nothing..Len(files) \subseteq Index!Nothing..Len(files')
  BY IndexTyped DEF Index!Nothing
<1> QED BY <1>1 DEF Index!TypeOK

LEMMA RenameSafe == ASSUME IndexSafe, NEW q \in Procs, Index!Rename(q) PROVE IndexSafe'
<1> DEFINE c == snapshot[q]
<1>1. /\ files' = Append(files, c) /\ path' = Len(files')
      /\ proc' = [proc EXCEPT ![q] = "up"]
      /\ snapshot' = [snapshot EXCEPT ![q] = <<>>]
      /\ UNCHANGED <<torn, mem, pending, starts, tears, found, durable, recorded>>
  BY DEF Index!Rename, Index!Compacted, Index!history
<1>2. c \in Seq(Index!Lines) /\ Index!Loadable(c) \subseteq Known
  <2>1. c \in Seq(Incidents) /\ ToSet(c) \subseteq Known BY DEF IndexSafe, Index!TypeOK
  <2>2. Incidents \subseteq Index!Lines BY DEF Index!Lines
  <2>3. c \in Seq(Index!Lines)
    <3>1. c \in [1..Len(c) -> Incidents] /\ Len(c) \in Nat BY <2>1, LenProperties
    <3>2. c \in [1..Len(c) -> Index!Lines] BY <2>2, <3>1
    <3> QED BY <3>1, <3>2
  <2> QED BY <2>1, <2>3, SameLibrary DEF Index!Loadable
<1> HIDE DEF c
<1>3. /\ files' \in Seq(Seq(Index!Lines)) /\ Len(files') = Len(files) + 1
      /\ torn' \subseteq 1..Len(files')
      /\ (\A f \in torn : files[f] # <<>>)'
      /\ (\A f \in 1..Len(files) : Index!Loadable(files[f]) \subseteq Known)'
  BY <1>1, <1>2, AddedSafe
<1>4. Len(files) <= Len(files') /\ Len(files') \in Nat /\ Len(files') \in 0..Len(files')
  BY <1>3, IndexTyped DEF IndexSafe
<1>5. /\ snapshot' \in [Procs -> Seq(Incidents)]
      /\ \A r \in Procs : snapshot'[r] = snapshot[r] \/ snapshot'[r] = <<>>
  BY <1>1, EmptyLoads DEF IndexSafe, Index!TypeOK
<1>6. pending \in [Procs -> [Incidents -> Index!Nothing..Len(files')]]
  BY <1>4, PendingGrows DEF IndexSafe
<1>7. Index!TypeOK'
  <2>1. proc' \in [Procs -> {"down", "compacting", "up"}]
    BY <1>1 DEF IndexSafe, Index!TypeOK
  <2> QED BY <1>1, <1>3, <1>4, <1>5, <1>6, <2>1 DEF IndexSafe, Index!TypeOK
<1>8. Known' = Known BY <1>1 DEF Known
<1>9. \A r \in Procs :
        /\ mem'[r] \subseteq Known /\ ToSet(snapshot'[r]) \subseteq Known
        /\ \A i \in Incidents : pending'[r][i] # Index!Nothing => i \in recorded
  BY <1>1, <1>5, EmptyLoads DEF IndexSafe
<1> QED BY <1>1, <1>3, <1>7, <1>8, <1>9 DEF IndexSafe

LEMMA RecordSafe ==
  ASSUME IndexSafe, NEW q \in Procs, NEW i \in Incidents, Index!Record(q, i)
  PROVE  IndexSafe'
<1>1. /\ mem' = [mem EXCEPT ![q] = @ \cup {i}]
      /\ pending' = [pending EXCEPT ![q][i] = 0]
      /\ recorded' = recorded \cup {i}
      /\ UNCHANGED <<files, path, torn, proc, snapshot, starts, tears, found, durable>>
  BY DEF Index!Record, Index!fileVars, Index!InMemory
<1>2. 0 \in Index!Nothing..Len(files)
  BY IndexTyped DEF IndexSafe, Index!Nothing
<1>3. /\ pending' \in [Procs -> [Incidents -> Index!Nothing..Len(files)]]
      /\ \A r \in Procs, j \in Incidents : r # q \/ j # i => pending'[r][j] = pending[r][j]
  BY <1>1, <1>2, PendingSet DEF IndexSafe, Index!TypeOK
<1>4. /\ mem' \in [Procs -> SUBSET Incidents]
      /\ \A r \in Procs : mem'[r] \subseteq mem[r] \cup {i}
  BY <1>1 DEF IndexSafe, Index!TypeOK
<1>5. Index!TypeOK'
  BY <1>1, <1>3, <1>4 DEF IndexSafe, Index!TypeOK
<1>6. Known' = Known \cup {i} BY <1>1 DEF Known
<1>7. (\A f \in 1..Len(files) : Index!Loadable(files[f]) \subseteq Known)'
  BY <1>1, <1>6 DEF IndexSafe, Index!Loadable
<1>8. \A r \in Procs : mem'[r] \subseteq Known' /\ ToSet(snapshot'[r]) \subseteq Known'
  BY <1>1, <1>4, <1>6 DEF IndexSafe
<1>9. \A r \in Procs, j \in Incidents : pending'[r][j] # Index!Nothing => j \in recorded'
  BY <1>1, <1>3 DEF IndexSafe
<1> QED BY <1>1, <1>5, <1>7, <1>8, <1>9 DEF IndexSafe

LEMMA OpenSafe ==
  ASSUME IndexSafe, NEW q \in Procs, NEW i \in Incidents,
         Index!Open(q, i) \/ Index!OpenFails(q, i)
  PROVE  IndexSafe'
<1>1. /\ pending[q][i] = 0
      /\ UNCHANGED <<torn, proc, mem, snapshot, starts, tears, found, durable, recorded>>
      /\ pending' = [pending EXCEPT ![q][i] = path'] \/
         pending' = [pending EXCEPT ![q][i] = Index!Nothing]
      /\ \/ files' = Append(files, <<>>) /\ path' = Len(files')
         \/ UNCHANGED <<files, path>>
  BY DEF Index!Open, Index!OpenFails, Index!fileVars, Index!history, Index!InMemory
<1>2. /\ files' \in Seq(Seq(Index!Lines)) /\ Len(files') \in Nat /\ Len(files) <= Len(files')
      /\ path' \in 0..Len(files') /\ torn' \subseteq 1..Len(files')
      /\ (\A f \in torn : files[f] # <<>>)'
      /\ (\A f \in 1..Len(files) : Index!Loadable(files[f]) \subseteq Known)'
  <2>1. CASE UNCHANGED <<files, path>>
    BY <1>1, <2>1, IndexTyped DEF IndexSafe, Index!TypeOK, Known, Index!Loadable
  <2>2. CASE files' = Append(files, <<>>) /\ path' = Len(files')
    <3>1. /\ files' \in Seq(Seq(Index!Lines)) /\ Len(files') = Len(files) + 1
          /\ torn' \subseteq 1..Len(files')
          /\ (\A f \in torn : files[f] # <<>>)'
          /\ (\A f \in 1..Len(files) : Index!Loadable(files[f]) \subseteq Known)'
      BY <1>1, <2>2, EmptyLoads, AddedSafe
    <3>2. Len(files') \in Nat /\ Len(files) <= Len(files') /\ path' \in 0..Len(files')
      BY <2>2, <3>1, IndexTyped DEF IndexSafe
    <3> QED BY <3>1, <3>2
  <2> QED BY <1>1, <2>1, <2>2
<1>3. /\ path' \in Index!Nothing..Len(files')
      /\ Index!Nothing \in Index!Nothing..Len(files')
  BY <1>2 DEF Index!Nothing
<1>4. pending \in [Procs -> [Incidents -> Index!Nothing..Len(files')]]
  BY <1>2, PendingGrows DEF IndexSafe
<1>5. /\ pending' \in [Procs -> [Incidents -> Index!Nothing..Len(files')]]
      /\ \A r \in Procs, j \in Incidents : r # q \/ j # i => pending'[r][j] = pending[r][j]
  <2>1. PICK v \in {path', Index!Nothing} : pending' = [pending EXCEPT ![q][i] = v]
    BY <1>1
  <2>2. v \in Index!Nothing..Len(files') BY <1>3
  <2> QED BY <1>4, <2>1, <2>2, PendingSet
<1>6. Index!TypeOK' BY <1>1, <1>2, <1>5 DEF IndexSafe, Index!TypeOK
<1>7. i \in recorded
  <2>1. 0 # Index!Nothing BY DEF Index!Nothing
  <2> QED BY <1>1, <2>1 DEF IndexSafe
<1>8. \A r \in Procs, j \in Incidents : pending'[r][j] # Index!Nothing => j \in recorded
  BY <1>5, <1>7 DEF IndexSafe
<1>9. Known' = Known BY <1>1 DEF Known
<1> QED BY <1>1, <1>2, <1>6, <1>8, <1>9 DEF IndexSafe

LEMMA WriteSafe ==
  ASSUME IndexSafe, NEW q \in Procs, NEW i \in Incidents,
         Index!WriteLine(q, i) \/ Index!WriteTorn(q, i)
  PROVE  IndexSafe'
<1> DEFINE f == pending[q][i]
<1>1. /\ f \in 1..Len(files)
      /\ \E x \in {i, Corrupt} : files' = Index!AppendLine(f, x)
      /\ torn' \subseteq torn \cup {f}
      /\ pending' = [pending EXCEPT ![q][i] = Index!Nothing]
      /\ durable' \subseteq durable \cup {i} /\ tears' \in {tears, tears + 1}
      /\ tears' = tears \/ tears < MaxTorn
      /\ UNCHANGED <<path, proc, mem, snapshot, starts, found, recorded>>
  BY IndexTyped DEF IndexSafe, Index!WriteLine, Index!WriteTorn, Index!history
<1>2. i \in recorded
  <2>1. f # Index!Nothing BY <1>1 DEF Index!Nothing
  <2> QED BY <2>1 DEF IndexSafe
<1>3. PICK x \in {i, Corrupt} : files' = Index!AppendLine(f, x) BY <1>1
<1>4. x \in Index!Lines /\ {x} \cap Incidents \subseteq Known
  BY <1>2, IndexBounds DEF Index!Lines, Known
<1> HIDE DEF f
<1>6. /\ files' \in Seq(Seq(Index!Lines)) /\ Len(files') = Len(files)
      /\ \A g \in 1..Len(files) : g # f => files'[g] = files[g]
      /\ files'[f] # <<>>
      /\ f \in torn => files[f] # <<>> /\ files'[f] = Append(Front(files[f]), Corrupt)
      /\ f \notin torn => files'[f] = Append(files[f], x)
  <2>1. Index!TypeOK /\ \A g \in torn : files[g] # <<>> BY DEF IndexSafe
  <2> QED BY <1>1, <1>3, <1>4, <2>1, FileWritten
<1>7. Index!Loadable(files'[f]) \subseteq Known
  <2>0. files[f] \in Seq(Index!Lines) /\ Index!Loadable(files[f]) \subseteq Known
    BY <1>1, IndexTyped DEF IndexSafe
  <2>1. CASE f \in torn
    <3>1. Index!Loadable(Append(Front(files[f]), Corrupt)) \subseteq Index!Loadable(files[f])
      BY <1>6, <2>0, <2>1, LineMerged
    <3> QED BY <1>6, <2>0, <2>1, <3>1
  <2>2. CASE f \notin torn
    <3>1. Index!Loadable(Append(files[f], x))
            = Index!Loadable(files[f]) \cup ({x} \cap Incidents)
      BY <1>4, <2>0, LineAppended
    <3> QED BY <1>4, <1>6, <2>0, <2>2, <3>1
  <2> QED BY <2>1, <2>2
<1>8. Known' = Known BY <1>1 DEF Known
<1>9. (\A g \in 1..Len(files) : Index!Loadable(files[g]) \subseteq Known)'
  <2> SUFFICES ASSUME NEW g \in 1..Len(files)
               PROVE  Index!Loadable(files'[g]) \subseteq Known
    BY <1>6, <1>8 DEF Index!Loadable
  <2>1. CASE g = f BY <1>7, <2>1
  <2>2. CASE g # f BY <1>6, <2>2 DEF IndexSafe
  <2> QED BY <2>1, <2>2
<1>10. torn \subseteq 1..Len(files) BY DEF IndexSafe, Index!TypeOK
<1>11. (\A g \in torn : files[g] # <<>>)'
  <2> SUFFICES ASSUME NEW g \in torn' PROVE files'[g] # <<>> OBVIOUS
  <2>1. g = f \/ (g \in torn /\ g \in 1..Len(files)) BY <1>1, <1>10
  <2> QED BY <1>6, <2>1 DEF IndexSafe
<1>12. /\ pending' \in [Procs -> [Incidents -> Index!Nothing..Len(files)]]
       /\ \A r \in Procs, j \in Incidents : r # q \/ j # i => pending'[r][j] = pending[r][j]
       /\ pending'[q][i] = Index!Nothing
  <2>1. Index!Nothing \in Index!Nothing..Len(files)
    BY IndexTyped DEF IndexSafe, Index!Nothing
  <2> QED BY <1>1, <2>1, PendingSet DEF IndexSafe, Index!TypeOK
<1>13. \A r \in Procs, j \in Incidents : pending'[r][j] # Index!Nothing => j \in recorded
  BY <1>12 DEF IndexSafe
<1>14. Index!TypeOK'
  <2>1. tears' \in 0..MaxTorn BY <1>1, IndexBounds DEF IndexSafe, Index!TypeOK
  <2>2. torn' \subseteq 1..Len(files) BY <1>1, <1>10
  <2>3. found' \cup durable' \subseteq Incidents BY <1>1 DEF IndexSafe, Index!TypeOK
  <2>4. path' \in 0..Len(files') BY <1>1, <1>6 DEF IndexSafe, Index!TypeOK
  <2> QED BY <1>1, <1>6, <1>12, <2>1, <2>2, <2>3, <2>4 DEF IndexSafe, Index!TypeOK
<1> QED BY <1>1, <1>8, <1>9, <1>11, <1>13, <1>14 DEF IndexSafe

LEMMA IndexPreserved == IndexSafe /\ [Index!Next]_(Index!vars) => IndexSafe'
<1> SUFFICES ASSUME IndexSafe, [Index!Next]_(Index!vars) PROVE IndexSafe' OBVIOUS
<1>1. CASE UNCHANGED Index!vars
  BY <1>1 DEF IndexSafe, Index!vars, Index!TypeOK, Known, Index!Loadable
<1>2. CASE Index!Next
  BY <1>2, StartSafe, StopSafe, RenameSafe, RecordSafe, OpenSafe, WriteSafe DEF Index!Next
<1> QED BY <1>1, <1>2

-----------------------------------------------------------------------------
(* One process has the file.  (Of two, each appends what the other never   *)
(* reads again, and a compaction drops the lines written in between.)      *)
OneProcess == \A q, r \in Procs : q = r

IndexAlone ==
    /\ path = Len(files)
    /\ \A i \in Incidents :
         i \notin found \/ i \in Index!Shaky => OneLine(Index!Content(path), i)
    /\ \A q \in Procs :
        /\ proc[q] = "down" => mem[q] = {}
        /\ proc[q] # "up" => \A i \in Incidents : pending[q][i] = Index!Nothing
        /\ proc[q] # "down" => Index!Stored \subseteq mem[q]
        /\ proc[q] = "compacting" =>
             IsInjective(snapshot[q]) /\ ToSet(snapshot[q]) = Index!Stored
        /\ \A i \in Incidents : pending[q][i] # Index!Nothing =>
             i \in mem[q] /\ i \notin Index!Stored /\ pending[q][i] \in {0, path}

IndexInv == IndexSafe /\ IndexAlone

LEMMA ShakyLine ==
    Index!Shaky = {i \in Incidents : path \in torn /\ Last(Index!Content(path)) = i}
  BY SameLibrary DEF Index!Shaky

LEMMA SameFile ==
  ASSUME UNCHANGED <<files, path, torn>>
  PROVE  /\ Index!Content(path)' = Index!Content(path)
         /\ Index!Stored' = Index!Stored /\ Index!Shaky' = Index!Shaky
  BY DEF Index!Content, Index!Stored, Index!Loadable, Index!Shaky

(* What a step of a process has to do to what the abstract index shows.    *)
Keeps ==
    \/ Index!Promise!PromiseNext
    \/ UNCHANGED <<mem, Index!Stored, Index!Shaky>>

LEMMA AloneStarts ==
  Index!Init => IndexAlone /\ Index!Promise!PromiseInit
<1> SUFFICES ASSUME Index!Init PROVE IndexAlone /\ Index!Promise!PromiseInit OBVIOUS
<1>1. /\ torn = {} /\ found = Index!Stored
      /\ mem = [q \in Procs |-> {}]
      /\ pending = [q \in Procs |-> [i \in Incidents |-> Index!Nothing]]
      /\ proc = [q \in Procs |-> "down"]
  BY DEF Index!Init
<1>2. path = Len(files)
  <2>1. Len(<<>>) = 0 /\ \A c : Len(<<c>>) = 1 OBVIOUS
  <2>2. \/ files = <<>> /\ path = 0
        \/ \E c : files = <<c>> /\ path = 1
    BY DEF Index!Init, Index!NoFile
  <2> QED BY <2>1, <2>2
<1>3. Index!Content(path) \in Seq(Index!Lines)
  BY IndexStarts, IndexTyped DEF IndexSafe
<1>4. Index!Shaky = {} BY <1>1 DEF Index!Shaky
<1>5. ASSUME NEW i \in Incidents, i \notin found PROVE OneLine(Index!Content(path), i)
  <2> DEFINE c == Index!Content(path)
  <2>1. i \notin ToSet(c) BY <1>1, <1>5, SameLibrary DEF Index!Stored, Index!Loadable
  <2>2. DOMAIN c = 1..Len(c) BY <1>3, LenProperties
  <2> HIDE DEF c
  <2>3. \A k \in 1..Len(c) : c[k] # i BY <2>1, <2>2 DEF ToSet
  <2> QED BY <2>3 DEF OneLine, c
<1>6. IndexAlone BY <1>1, <1>2, <1>4, <1>5 DEF IndexAlone
<1>7. Index!Stored \in SUBSET Incidents BY DEF Index!Stored, Index!Loadable
<1> QED BY <1>1, <1>4, <1>6, <1>7 DEF Index!Promise!PromiseInit

LEMMA StartAlone ==
  ASSUME OneProcess, IndexInv, NEW q \in Procs, Index!Start(q)
  PROVE  IndexAlone' /\ Keeps
<1>i. IndexSafe /\ IndexAlone BY DEF IndexInv
<1>1. /\ proc[q] = "down"
      /\ mem' = [mem EXCEPT ![q] = Index!Stored]
      /\ UNCHANGED <<files, path, torn, pending, found>>
  BY DEF Index!Start, Index!fileVars, Index!history
<1>2. \/ /\ proc' = [proc EXCEPT ![q] = "compacting"]
         /\ snapshot' = [snapshot EXCEPT ![q] = Index!FirstSeenOrder(Index!Content(path))]
      \/ proc' = [proc EXCEPT ![q] = "up"]
  BY DEF Index!Start
<1>3. /\ IsInjective(Index!FirstSeenOrder(Index!Content(path)))
      /\ ToSet(Index!FirstSeenOrder(Index!Content(path))) = Index!Stored
  BY <1>i, IndexTyped, FirstSeenFacts DEF IndexSafe, Index!Stored
<1>4. /\ Index!Content(path)' = Index!Content(path)
      /\ Index!Stored' = Index!Stored /\ Index!Shaky' = Index!Shaky
  BY <1>1, SameFile
<1>5. /\ mem \in [Procs -> SUBSET Incidents] /\ snapshot \in [Procs -> Seq(Incidents)]
      /\ proc \in [Procs -> {"down", "compacting", "up"}]
  BY <1>i DEF IndexSafe, Index!TypeOK
<1>6. /\ mem'[q] = Index!Stored /\ proc'[q] # "down"
      /\ proc'[q] = "compacting" =>
           snapshot'[q] = Index!FirstSeenOrder(Index!Content(path))
  BY <1>1, <1>2, <1>5
<1>7. \A i \in Incidents : pending[q][i] = Index!Nothing BY <1>i, <1>1 DEF IndexAlone
<1>8. Index!Promise!Learn(q) BY <1>1, <1>4 DEF Index!Promise!Learn
<1>9. /\ path' = Len(files')
      /\ (\A i \in Incidents :
            i \notin found \/ i \in Index!Shaky => OneLine(Index!Content(path), i))'
  BY <1>i, <1>1, <1>4 DEF IndexAlone, OneLine
<1>10. \A r \in Procs : r = q BY DEF OneProcess
<1>11. (\A r \in Procs :
        /\ proc[r] = "down" => mem[r] = {}
        /\ proc[r] # "up" => \A i \in Incidents : pending[r][i] = Index!Nothing
        /\ proc[r] # "down" => Index!Stored \subseteq mem[r]
        /\ proc[r] = "compacting" =>
             IsInjective(snapshot[r]) /\ ToSet(snapshot[r]) = Index!Stored
        /\ \A i \in Incidents : pending[r][i] # Index!Nothing =>
             i \in mem[r] /\ i \notin Index!Stored /\ pending[r][i] \in {0, path})'
  BY <1>1, <1>3, <1>4, <1>6, <1>7, <1>10
<1> QED BY <1>8, <1>9, <1>11 DEF IndexAlone, Keeps, Index!Promise!PromiseNext

LEMMA RenameAlone ==
  ASSUME OneProcess, IndexInv, NEW q \in Procs, Index!Rename(q)
  PROVE  IndexAlone' /\ Keeps
<1>i. IndexSafe /\ IndexAlone BY DEF IndexInv
<1> DEFINE c == snapshot[q]
<1>1. /\ proc[q] = "compacting" /\ proc' = [proc EXCEPT ![q] = "up"]
      /\ files' = Append(files, c) /\ path' = Len(files')
      /\ UNCHANGED <<torn, mem, pending, found>>
  BY DEF Index!Rename, Index!Compacted, Index!history
<1>2. IsInjective(c) /\ ToSet(c) = Index!Stored BY <1>i, <1>1 DEF IndexAlone
<1>3. c \in Seq(Incidents) /\ Len(c) \in Nat /\ DOMAIN c = 1..Len(c)
  BY <1>i, LenProperties DEF IndexSafe, Index!TypeOK
<1>4. c \in Seq(Index!Lines)
  <2>1. c \in [1..Len(c) -> Incidents] BY <1>3, LenProperties
  <2>2. c \in [1..Len(c) -> Index!Lines] BY <2>1 DEF Index!Lines
  <2> QED BY <1>3, <2>2
<1> HIDE DEF c
<1>5. /\ Len(files') = Len(files) + 1 /\ files'[Len(files) + 1] = c
      /\ Len(files) \in Nat /\ torn \subseteq 1..Len(files)
  BY <1>i, <1>1, <1>4, FileAdded, IndexTyped DEF IndexSafe, Index!TypeOK
<1>6. Index!Content(path)' = c
  <2>1. path' = Len(files) + 1 /\ path' # 0 BY <1>1, <1>5
  <2> QED BY <1>5, <2>1 DEF Index!Content, Index!NoFile
<1>7. Index!Stored' = Index!Stored
  <2>1. Index!Stored' = ToSet(c) \cap Incidents
    BY <1>6, SameLibrary DEF Index!Stored, Index!Loadable
  <2>2. Index!Stored \subseteq Incidents BY DEF Index!Stored, Index!Loadable
  <2> QED BY <1>2, <2>1, <2>2
<1>8. Index!Shaky' = {}
  <2>1. path' \notin torn' BY <1>1, <1>5
  <2> QED BY <2>1 DEF Index!Shaky
<1>9. Index!Promise!Settle BY <1>1, <1>7, <1>8 DEF Index!Promise!Settle
<1>10. \A i \in Incidents : OneLine(c, i)
  BY <1>2, <1>3 DEF OneLine, IsInjective
<1>11. (\A i \in Incidents :
          i \notin found \/ i \in Index!Shaky => OneLine(Index!Content(path), i))'
  BY <1>6, <1>10 DEF OneLine
<1>12. /\ proc'[q] = "up"
       /\ Index!Stored \subseteq mem[q]
       /\ \A i \in Incidents : pending[q][i] = Index!Nothing
  BY <1>i, <1>1 DEF IndexAlone, IndexSafe, Index!TypeOK
<1>13. \A r \in Procs : r = q BY DEF OneProcess
<1>14. (\A r \in Procs :
        /\ proc[r] = "down" => mem[r] = {}
        /\ proc[r] # "up" => \A i \in Incidents : pending[r][i] = Index!Nothing
        /\ proc[r] # "down" => Index!Stored \subseteq mem[r]
        /\ proc[r] = "compacting" =>
             IsInjective(snapshot[r]) /\ ToSet(snapshot[r]) = Index!Stored
        /\ \A i \in Incidents : pending[r][i] # Index!Nothing =>
             i \in mem[r] /\ i \notin Index!Stored /\ pending[r][i] \in {0, path})'
  BY <1>1, <1>7, <1>12, <1>13
<1> QED BY <1>1, <1>9, <1>11, <1>14 DEF IndexAlone, Keeps, Index!Promise!PromiseNext

LEMMA StopAlone ==
  ASSUME OneProcess, IndexInv, NEW q \in Procs, Index!Stop(q) \/ Index!CompactFails(q)
  PROVE  IndexAlone' /\ Keeps
<1>i. IndexSafe /\ IndexAlone BY DEF IndexInv
<1>1. UNCHANGED <<files, path, torn, found>>
  BY DEF Index!Stop, Index!CompactFails, Index!fileVars, Index!history
<1>2. /\ Index!Content(path)' = Index!Content(path)
      /\ Index!Stored' = Index!Stored /\ Index!Shaky' = Index!Shaky
  BY <1>1, SameFile
<1>3. /\ path' = Len(files')
      /\ (\A i \in Incidents :
            i \notin found \/ i \in Index!Shaky => OneLine(Index!Content(path), i))'
  BY <1>i, <1>1, <1>2 DEF IndexAlone, OneLine
<1>4. /\ mem \in [Procs -> SUBSET Incidents]
      /\ pending \in [Procs -> [Incidents -> Index!Nothing..Len(files)]]
      /\ proc \in [Procs -> {"down", "compacting", "up"}]
  BY <1>i DEF IndexSafe, Index!TypeOK
<1>5. \A r \in Procs : r = q BY DEF OneProcess
<1>6. CASE Index!Stop(q)
  <2> DEFINE none == [i \in Incidents |-> Index!Nothing]
  <2>1. /\ proc' = [proc EXCEPT ![q] = "down"] /\ mem' = [mem EXCEPT ![q] = {}]
        /\ pending' = [pending EXCEPT ![q] = none]
    BY <1>6 DEF Index!Stop
  <2>2. \A i \in Incidents : none[i] = Index!Nothing OBVIOUS
  <2> HIDE DEF none
  <2>3. proc'[q] = "down" /\ mem'[q] = {} /\ pending'[q] = none BY <1>4, <2>1
  <2>4. Index!Promise!Forget(q) BY <1>2, <2>1 DEF Index!Promise!Forget
  <2> QED BY <1>3, <1>5, <2>2, <2>3, <2>4 DEF IndexAlone, Keeps, Index!Promise!PromiseNext
<1>7. CASE Index!CompactFails(q)
  <2>1. /\ proc[q] = "compacting" /\ proc' = [proc EXCEPT ![q] = "up"]
        /\ UNCHANGED <<mem, pending>>
    BY <1>7 DEF Index!CompactFails
  <2>2. proc'[q] = "up" BY <1>4, <2>1
  <2>3. Index!Stored \subseteq mem[q] /\ \A i \in Incidents : pending[q][i] = Index!Nothing
    BY <1>i, <2>1 DEF IndexAlone
  <2> QED BY <1>2, <1>3, <1>5, <2>1, <2>2, <2>3 DEF IndexAlone, Keeps
<1> QED BY <1>6, <1>7

LEMMA RecordAlone ==
  ASSUME OneProcess, IndexInv, NEW q \in Procs, NEW i \in Incidents, Index!Record(q, i)
  PROVE  IndexAlone' /\ Keeps
<1>i. IndexSafe /\ IndexAlone BY DEF IndexInv
<1>1. /\ proc[q] = "up" /\ i \notin mem[q]
      /\ mem' = [mem EXCEPT ![q] = @ \cup {i}]
      /\ pending' = [pending EXCEPT ![q][i] = 0]
      /\ UNCHANGED <<files, path, torn, proc, found>>
  BY DEF Index!Record, Index!Unknown, Index!fileVars, Index!InMemory
<1>2. /\ Index!Content(path)' = Index!Content(path)
      /\ Index!Stored' = Index!Stored /\ Index!Shaky' = Index!Shaky
  BY <1>1, SameFile
<1>3. /\ path' = Len(files')
      /\ (\A j \in Incidents :
            j \notin found \/ j \in Index!Shaky => OneLine(Index!Content(path), j))'
  BY <1>i, <1>1, <1>2 DEF IndexAlone, OneLine
<1>4. mem'[q] = mem[q] \cup {i} BY <1>i, <1>1 DEF IndexSafe, Index!TypeOK
<1>5. pending'[q][i] = 0 /\ \A j \in Incidents : j # i => pending'[q][j] = pending[q][j]
  <2>1. 0 \in Index!Nothing..Len(files) BY <1>i, IndexTyped DEF IndexSafe, Index!Nothing
  <2> QED BY <1>i, <1>1, <2>1, PendingSet DEF IndexSafe, Index!TypeOK
<1>6. \A r \in Procs : r = q BY DEF OneProcess
<1>7. Index!Stored \subseteq mem[q] BY <1>i, <1>1 DEF IndexAlone
<1>8. \A j \in Incidents : pending'[q][j] # Index!Nothing =>
        j \in mem'[q] /\ j \notin Index!Stored /\ pending'[q][j] \in {0, path}
  BY <1>i, <1>1, <1>4, <1>5, <1>7 DEF IndexAlone
<1>9. Index!Promise!Establish(q, i) BY <1>1, <1>2 DEF Index!Promise!Establish
<1> QED BY <1>1, <1>2, <1>3, <1>4, <1>6, <1>7, <1>8, <1>9
       DEF IndexAlone, Keeps, Index!Promise!PromiseNext

LEMMA OpenAlone ==
  ASSUME OneProcess, IndexInv, NEW q \in Procs, NEW i \in Incidents,
         Index!Open(q, i) \/ Index!OpenFails(q, i)
  PROVE  IndexAlone' /\ Keeps
<1>i. IndexSafe /\ IndexAlone BY DEF IndexInv
<1>1. /\ pending[q][i] = 0 /\ 0 # Index!Nothing
      /\ UNCHANGED <<torn, proc, mem, snapshot, found>>
      /\ \E v \in {path', Index!Nothing} : pending' = [pending EXCEPT ![q][i] = v]
      /\ \/ path = 0 /\ files' = Append(files, <<>>) /\ path' = Len(files')
         \/ UNCHANGED <<files, path>>
  BY DEF Index!Open, Index!OpenFails, Index!fileVars, Index!history, Index!InMemory,
     Index!NoFile, Index!Nothing
<1>2. /\ Index!Stored' = Index!Stored /\ Index!Shaky' = Index!Shaky
      /\ \A j : OneLine(Index!Content(path), j) => OneLine(Index!Content(path)', j)
      /\ path' = Len(files') /\ path' \in Index!Nothing..Len(files')
      /\ Len(files') \in Nat /\ Len(files) <= Len(files')
      /\ path = path' \/ path = 0
  <2>1. CASE UNCHANGED <<files, path>>
    <3>1. path' = Len(files') BY <1>i, <2>1 DEF IndexAlone
    <3>2. path' \in Index!Nothing..Len(files') /\ Len(files') \in Nat /\ Len(files) <= Len(files')
      BY <1>i, <2>1, IndexTyped DEF IndexSafe, Index!Nothing
    <3>3. /\ Index!Content(path)' = Index!Content(path)
          /\ Index!Stored' = Index!Stored /\ Index!Shaky' = Index!Shaky
      BY <1>1, <2>1, SameFile
    <3>4. \A j : OneLine(Index!Content(path), j) => OneLine(Index!Content(path)', j)
      BY <3>3 DEF OneLine
    <3> QED BY <2>1, <3>1, <3>2, <3>3, <3>4
  <2>2. CASE path = 0 /\ files' = Append(files, <<>>) /\ path' = Len(files')
    <3>1. /\ Len(files') = Len(files) + 1 /\ files'[Len(files) + 1] = <<>>
          /\ Len(files) \in Nat /\ torn \subseteq 1..Len(files)
      BY <1>i, <2>2, EmptyLoads, FileAdded, IndexTyped DEF IndexSafe, Index!TypeOK
    <3>2. path' = Len(files) + 1 /\ path' # 0 /\ path' \notin torn' /\ path \notin torn
      BY <1>1, <2>2, <3>1
    <3>3. Index!Content(path)' = <<>> /\ Index!Content(path) = <<>>
      BY <2>2, <3>1, <3>2 DEF Index!Content, Index!NoFile
    <3>4. Index!Stored' = Index!Stored
      BY <3>3 DEF Index!Stored, Index!Loadable
    <3>5. Index!Shaky' = {} /\ Index!Shaky = {} BY <3>2 DEF Index!Shaky
    <3>6. \A j : OneLine(Index!Content(path), j) => OneLine(Index!Content(path)', j)
      BY <3>3 DEF OneLine
    <3>7. path' \in Index!Nothing..Len(files') /\ Len(files') \in Nat /\ Len(files) <= Len(files')
      BY <2>2, <3>1 DEF Index!Nothing
    <3> QED BY <2>2, <3>4, <3>5, <3>6, <3>7
  <2> QED BY <1>1, <2>1, <2>2
<1>3. pending \in [Procs -> [Incidents -> Index!Nothing..Len(files')]]
  BY <1>i, <1>2, PendingGrows DEF IndexSafe
<1>4. PICK v \in {path', Index!Nothing} : pending' = [pending EXCEPT ![q][i] = v] BY <1>1
<1>5. /\ pending'[q][i] = v /\ \A j \in Incidents : j # i => pending'[q][j] = pending[q][j]
  <2>1. v \in Index!Nothing..Len(files') BY <1>2, <1>4 DEF Index!Nothing
  <2> QED BY <1>3, <1>4, <2>1, PendingSet
<1>6. \A r \in Procs : r = q BY DEF OneProcess
<1>7. /\ proc[q] = "up" /\ Index!Stored \subseteq mem[q]
      /\ i \in mem[q] /\ i \notin Index!Stored
  <2>1. proc[q] \in {"down", "compacting", "up"} BY <1>i DEF IndexSafe, Index!TypeOK
  <2> QED BY <1>i, <1>1, <2>1 DEF IndexAlone
<1>8. \A j \in Incidents : pending'[q][j] # Index!Nothing =>
        j \in mem[q] /\ j \notin Index!Stored /\ pending'[q][j] \in {0, path'}
  <2> SUFFICES ASSUME NEW j \in Incidents, pending'[q][j] # Index!Nothing
               PROVE  j \in mem[q] /\ j \notin Index!Stored /\ pending'[q][j] \in {0, path'}
    OBVIOUS
  <2>1. CASE j = i BY <1>4, <1>5, <1>7, <2>1
  <2>2. CASE j # i
    <3>1. pending'[q][j] = pending[q][j] BY <1>5, <2>2
    <3>2. j \in mem[q] /\ j \notin Index!Stored /\ pending[q][j] \in {0, path}
      BY <1>i, <3>1 DEF IndexAlone
    <3> QED BY <1>2, <3>1, <3>2
  <2> QED BY <2>1, <2>2
<1>9. (\A j \in Incidents :
         j \notin found \/ j \in Index!Shaky => OneLine(Index!Content(path), j))'
  <2> SUFFICES ASSUME NEW j \in Incidents, j \notin found \/ j \in Index!Shaky
               PROVE  OneLine(Index!Content(path)', j)
    BY <1>1, <1>2 DEF OneLine
  <2> QED BY <1>i, <1>2 DEF IndexAlone
<1> QED BY <1>1, <1>2, <1>6, <1>7, <1>8, <1>9 DEF IndexAlone, Keeps

(* The write of a line, in full or cut short.                              *)
LEMMA WriteAlone ==
  ASSUME OneProcess, IndexInv, NEW q \in Procs, NEW i \in Incidents,
         Index!WriteLine(q, i) \/ Index!WriteTorn(q, i)
  PROVE  IndexAlone' /\ Keeps
<1>i. IndexSafe /\ IndexAlone BY DEF IndexInv
<1> DEFINE c == Index!Content(path)
           d == Index!Content(path)'
<1>1. /\ pending[q][i] \in 1..Len(files)
      /\ pending' = [pending EXCEPT ![q][i] = Index!Nothing]
      /\ UNCHANGED <<path, proc, mem, snapshot, found>>
      /\ \E x \in {i, Corrupt} :
           /\ files' = Index!AppendLine(pending[q][i], x)
           /\ torn' = torn \cup {pending[q][i]}
              \/ (torn' = torn \ {pending[q][i]} /\ x = i)
  BY <1>i, IndexTyped DEF IndexSafe, Index!WriteLine, Index!WriteTorn, Index!history
<1>2. /\ pending[q][i] = path /\ path \in 1..Len(files) /\ path # 0
      /\ i \in mem[q] /\ i \notin Index!Stored
      /\ proc[q] = "up" /\ Index!Stored \subseteq mem[q]
  <2>1. pending[q][i] # Index!Nothing /\ pending[q][i] # 0 BY <1>1 DEF Index!Nothing
  <2>2. proc[q] \in {"down", "compacting", "up"} BY <1>i DEF IndexSafe, Index!TypeOK
  <2>3. pending[q][i] = path BY <1>i, <2>1 DEF IndexAlone
  <2> QED BY <1>i, <1>1, <2>1, <2>2, <2>3 DEF IndexAlone
<1>3. PICK x \in {i, Corrupt} :
        /\ files' = Index!AppendLine(path, x)
        /\ torn' = torn \cup {path} \/ (torn' = torn \ {path} /\ x = i)
  BY <1>1, <1>2
<1>4. x \in Index!Lines /\ Corrupt \notin Incidents BY IndexBounds DEF Index!Lines
<1>5. /\ Index!TypeOK /\ \A g \in torn : files[g] # <<>>
  BY <1>i DEF IndexSafe
<1>6. /\ c \in Seq(Index!Lines) /\ c = files[path] /\ d = files'[path]
      /\ Len(files') = Len(files)
      /\ path \in torn => c # <<>> /\ d = Append(Front(c), Corrupt)
      /\ path \notin torn => d = Append(c, x)
  <2>1. Index!TypeOK BY <1>5
  <2>2. \A g \in torn : files[g] # <<>> BY <1>5
  <2>3. /\ Len(files') = Len(files)
        /\ path \in torn => files[path] # <<>> /\ files'[path] = Append(Front(files[path]), Corrupt)
        /\ path \notin torn => files'[path] = Append(files[path], x)
    BY <1>2, <1>3, <1>4, <2>1, <2>2, FileWritten
  <2>4. c = files[path] /\ d = files'[path]
    BY <1>1, <1>2 DEF Index!Content, Index!NoFile
  <2> QED BY <2>1, <2>3, <2>4, IndexTyped
<1>7. Index!Stored = Index!Loadable(c) /\ Index!Stored' = Index!Loadable(d)
  BY DEF Index!Stored, Index!Loadable
<1>8. Index!Shaky = {j \in Incidents : path \in torn /\ Last(c) = j}
  BY ShakyLine
<1>9. Index!Shaky' = {j \in Incidents : path \in torn' /\ Last(d) = j}
  BY <1>1, SameLibrary DEF Index!Shaky
<1>10. \A j \in Incidents : j \notin found \/ j \in Index!Shaky => OneLine(c, j)
  BY <1>i DEF IndexAlone
<1> HIDE DEF c, d
<1>11. /\ Keeps
       /\ Index!Stored' \subseteq Index!Stored \cup {i}
       /\ \A j \in Incidents : j \notin found \/ j \in Index!Shaky' => OneLine(d, j)
  <2>1. CASE path \in torn
    <3> DEFINE e == Append(Front(c), Corrupt)
    <3>1. d = e /\ c # <<>> BY <1>6, <2>1
    <3>2. /\ Last(e) = Corrupt
          /\ Index!Loadable(e) \subseteq Index!Loadable(c)
          /\ Last(c) \notin Incidents => Index!Loadable(e) = Index!Loadable(c)
          /\ Last(c) \in Incidents /\ OneLine(c, Last(c)) =>
              Index!Loadable(e) = Index!Loadable(c) \ {Last(c)}
          /\ \A j \in Incidents : OneLine(c, j) => OneLine(e, j)
      BY <1>6, <3>1, LineMerged
    <3> HIDE DEF e
    <3>3. Index!Shaky' = {} BY <1>4, <1>9, <3>1, <3>2
    <3>4. Index!Stored' = Index!Stored \ Index!Shaky
      <4>1. CASE Last(c) \in Incidents
        <5>1. Index!Shaky = {Last(c)} BY <1>8, <2>1, <4>1
        <5>2. OneLine(c, Last(c)) BY <1>10, <4>1, <5>1
        <5> QED BY <1>7, <3>1, <3>2, <4>1, <5>1, <5>2
      <4>2. CASE Last(c) \notin Incidents
        <5>1. Index!Shaky = {} BY <1>8, <4>2
        <5> QED BY <1>7, <3>1, <3>2, <4>2, <5>1
      <4> QED BY <4>1, <4>2
    <3>5. Index!Promise!Lose BY <1>1, <3>3, <3>4 DEF Index!Promise!Lose
    <3>6. \A j \in Incidents : j \notin found \/ j \in Index!Shaky' => OneLine(d, j)
      BY <1>10, <3>1, <3>2, <3>3
    <3> QED BY <3>4, <3>5, <3>6 DEF Keeps, Index!Promise!PromiseNext
  <2>2. CASE path \notin torn
    <3> DEFINE e == Append(c, x)
    <3>1. d = e BY <1>6, <2>2
    <3>2. /\ Last(e) = x
          /\ Index!Loadable(e) = Index!Loadable(c) \cup ({x} \cap Incidents)
          /\ \A j : j # x /\ OneLine(c, j) => OneLine(e, j)
          /\ x \in Incidents \ Index!Loadable(c) => OneLine(e, x)
      BY <1>4, <1>6, LineAppended
    <3> HIDE DEF e
    <3>3. Index!Shaky = {} BY <1>8, <2>2
    <3>4. Index!Stored' = Index!Stored \cup ({x} \cap Incidents) BY <1>7, <3>1, <3>2
    <3>5. Index!Shaky' \subseteq {x} \cap Incidents BY <1>9, <3>1, <3>2
    <3>6. \A j \in Incidents : j \notin found \/ j \in Index!Shaky' => OneLine(d, j)
      <4> SUFFICES ASSUME NEW j \in Incidents, j \notin found \/ j \in Index!Shaky'
                   PROVE  OneLine(e, j)
        BY <3>1
      <4>1. CASE j = x BY <1>2, <1>4, <1>7, <3>2, <4>1
      <4>2. CASE j # x BY <1>10, <3>2, <3>5, <4>2
      <4> QED BY <4>1, <4>2
    <3>7. CASE x = i
      <4>1. Index!Stored' = Index!Stored \cup {i} BY <3>4, <3>7
      <4>2. Index!Shaky' \in {{}, {i}} BY <3>5, <3>7
      <4>3. Index!Promise!Store(q, i)
        BY <1>1, <1>2, <3>3, <4>1, <4>2 DEF Index!Promise!Store
      <4> QED BY <3>6, <4>1, <4>3 DEF Keeps, Index!Promise!PromiseNext
    <3>8. CASE x = Corrupt
      <4>1. Index!Stored' = Index!Stored /\ Index!Shaky' = Index!Shaky
        BY <1>4, <3>3, <3>4, <3>5, <3>8
      <4> QED BY <1>1, <3>6, <4>1 DEF Keeps
    <3> QED BY <3>7, <3>8
  <2> QED BY <2>1, <2>2
<1>12. /\ pending'[q][i] = Index!Nothing
       /\ \A j \in Incidents : j # i => pending'[q][j] = pending[q][j]
  <2>1. Index!Nothing \in Index!Nothing..Len(files)
    BY <1>5, IndexTyped DEF Index!Nothing
  <2> QED BY <1>1, <1>5, <2>1, PendingSet DEF Index!TypeOK
<1>13. \A j \in Incidents : pending'[q][j] # Index!Nothing =>
         j \in mem[q] /\ j \notin Index!Stored' /\ pending'[q][j] \in {0, path}
  <2> SUFFICES ASSUME NEW j \in Incidents, pending'[q][j] # Index!Nothing
               PROVE  j \in mem[q] /\ j \notin Index!Stored' /\ pending'[q][j] \in {0, path}
    OBVIOUS
  <2>1. j # i /\ pending'[q][j] = pending[q][j] BY <1>12
  <2>2. j \in mem[q] /\ j \notin Index!Stored /\ pending[q][j] \in {0, path}
    BY <1>i, <2>1 DEF IndexAlone
  <2> QED BY <1>11, <2>1, <2>2
<1>14. Index!Stored' \subseteq mem[q] BY <1>2, <1>11
<1>15. \A r \in Procs : r = q BY DEF OneProcess
<1>16. path' = Len(files') BY <1>i, <1>1, <1>6 DEF IndexAlone
<1>17. (\A j \in Incidents :
          j \notin found \/ j \in Index!Shaky => OneLine(Index!Content(path), j))'
  BY <1>1, <1>11 DEF d, OneLine
<1> QED BY <1>1, <1>2, <1>11, <1>13, <1>14, <1>15, <1>16, <1>17 DEF IndexAlone

LEMMA AlonePreserved ==
  ASSUME OneProcess, IndexInv, [Index!Next]_(Index!vars)
  PROVE  IndexAlone' /\ Keeps
<1>1. CASE UNCHANGED Index!vars
  <2>1. /\ Index!Content(path)' = Index!Content(path)
        /\ Index!Stored' = Index!Stored /\ Index!Shaky' = Index!Shaky
    BY <1>1, SameFile DEF Index!vars
  <2>2. UNCHANGED <<files, path, found, proc, mem, pending, snapshot>>
    BY <1>1 DEF Index!vars
  <2> QED BY <2>1, <2>2 DEF IndexInv, IndexAlone, Keeps, OneLine
<1>2. CASE Index!Next
  BY <1>2, StartAlone, RenameAlone, StopAlone, RecordAlone, OpenAlone, WriteAlone
     DEF Index!Next
<1> QED BY <1>1, <1>2

(* At most one line is ever on disk or on its way for an incident that the *)
(* file did not name at first.                                             *)
LEMMA AloneWritesOnce == OneProcess /\ IndexInv => Index!WrittenOnce
<1> SUFFICES ASSUME OneProcess, IndexInv, NEW i \in Incidents \ found
             PROVE  Index!LinesFor(i) <= 1
  BY DEF Index!WrittenOnce
<1>i. IndexSafe /\ IndexAlone BY DEF IndexInv
<1> DEFINE c == Index!Content(path)
           K == {k \in DOMAIN c : c[k] = i}
           P == {q \in Procs : pending[q][i] # Index!Nothing}
<1>1. Index!LinesFor(i) = Cardinality(K) + Cardinality(P)
  BY SameLibrary DEF Index!LinesFor
<1>2. OneLine(c, i) BY <1>i DEF IndexAlone
<1>3. DOMAIN c = 1..Len(c) /\ Len(c) \in Nat
  BY <1>i, IndexTyped, LenProperties DEF IndexSafe
<1>4. Cardinality({}) = 0 /\ \A e : Cardinality({e}) = 1
  BY FS_EmptySet, FS_Singleton
<1>5. K = {} \/ \E k : K = {k}
  <2> SUFFICES ASSUME K # {} PROVE \E k : K = {k} OBVIOUS
  <2>1. PICK k \in DOMAIN c : c[k] = i OBVIOUS
  <2>2. \A m \in DOMAIN c : c[m] = i => m = k BY <1>2, <1>3, <2>1 DEF OneLine
  <2>3. K = {k} BY <2>1, <2>2
  <2> QED BY <2>3
<1>6. P = {} \/ \E q : P = {q}
  BY DEF OneProcess
<1>7. P # {} => K = {}
  <2> SUFFICES ASSUME P # {} PROVE K = {} OBVIOUS
  <2>1. i \notin Index!Stored BY <1>i DEF IndexAlone
  <2>2. i \notin ToSet(c)
    BY <2>1, SameLibrary DEF Index!Stored, Index!Loadable
  <2> HIDE DEF c
  <2> QED BY <2>2 DEF ToSet
<1> HIDE DEF K, P
<1>8. CASE P = {}
  <2>1. Cardinality(P) = 0 BY <1>4, <1>8
  <2>2. Cardinality(K) \in {0, 1} BY <1>4, <1>5
  <2> QED BY <1>1, <2>1, <2>2
<1>9. CASE P # {}
  <2>1. Cardinality(P) = 1 BY <1>4, <1>6, <1>9
  <2>2. Cardinality(K) = 0 BY <1>4, <1>7, <1>9
  <2> QED BY <1>1, <2>1, <2>2
<1> QED BY <1>8, <1>9

-----------------------------------------------------------------------------
(*                    What the bench checks of the three                   *)

LEMMA BenchParts ==
    [BenchNext]_benchVars =>
        /\ [Next]_vars
        /\ [Stream!Next]_(Stream!vars)
        /\ [Index!Next]_(Index!vars)
  BY DEF BenchNext, benchVars, LogStep, StreamStep, IndexStep, streamVars, indexVars,
         Stream!vars, Index!vars

(* Every variable of the three services keeps its type.                    *)
THEOREM TypesKept == BenchSpec => []TypesOK
<1> DEFINE All == IInv /\ StreamInv /\ IndexSafe
<1>1. BenchInit => All BY InitIInv, StreamStarts, IndexStarts DEF BenchInit
<1>2. All /\ [BenchNext]_benchVars => All'
  BY BenchParts, NextIInv, StreamPreserved, IndexPreserved
<1>3. All => TypesOK BY DEF IInv, StreamInv, IndexSafe, TypesOK
<1> QED BY <1>1, <1>2, <1>3, PTL DEF BenchSpec

(* The shown answer is a gapless prefix of what the provider said, and all *)
(* of it when it is reported as complete (streamFromProvider and the       *)
(* handlers of its events), for every channel size and answer length.      *)
THEOREM ShownAsTold == BenchSpec => []ShownIsTold
<1>1. BenchInit => StreamInv BY StreamStarts DEF BenchInit
<1>2. StreamInv /\ [BenchNext]_benchVars => StreamInv' BY BenchParts, StreamPreserved
<1>3. StreamInv => ShownIsTold
  BY DEF StreamInv, OkIsAll, ShownIsTold, Stream!CompleteWhenOk
<1> QED BY <1>1, <1>2, <1>3, PTL DEF BenchSpec

(* No torn or merged line, compaction or crash makes a load report an      *)
(* incident that was neither in the first file nor established since       *)
(* (load, compact and record), for any number of processes.                *)
THEOREM NothingIsInvented == BenchSpec => []Index!NothingInvented
<1>1. BenchInit => IndexSafe BY IndexStarts DEF BenchInit
<1>2. IndexSafe /\ [BenchNext]_benchVars => IndexSafe' BY BenchParts, IndexPreserved
<1>3. IndexSafe => Index!NothingInvented
  BY StoredKnown DEF IndexSafe, Known, Index!NothingInvented
<1> QED BY <1>1, <1>2, <1>3, PTL DEF BenchSpec

(* While one process has the file, what it keeps is inductive.             *)
LEMMA IndexInductive ==
  ASSUME OneProcess
  PROVE  /\ BenchInit => IndexInv
         /\ IndexInv /\ [BenchNext]_benchVars => IndexInv' /\ Keeps
<1>1. BenchInit => IndexInv BY IndexStarts, AloneStarts DEF BenchInit, IndexInv
<1>2. ASSUME IndexInv, [BenchNext]_benchVars PROVE IndexInv' /\ Keeps
  <2>1. [Index!Next]_(Index!vars) BY <1>2, BenchParts
  <2>2. IndexSafe' BY <1>2, <2>1, IndexPreserved DEF IndexInv
  <2>3. IndexAlone' /\ Keeps BY <1>2, <2>1, AlonePreserved
  <2> QED BY <2>2, <2>3 DEF IndexInv
<1> QED BY <1>1, <1>2

(* A process never writes a second line for an incident, whatever torn     *)
(* lines, crashes and compactions it meets (record and compact).           *)
THEOREM LinesAreWrittenOnce == OneProcess => (BenchSpec => []WrittenOnce)
<1> SUFFICES ASSUME OneProcess PROVE BenchSpec => []WrittenOnce OBVIOUS
<1>1. BenchInit => IndexInv BY IndexInductive
<1>2. IndexInv /\ [BenchNext]_benchVars => IndexInv' BY IndexInductive
<1>3. IndexInv => WrittenOnce BY AloneWritesOnce DEF WrittenOnce
<1> QED BY <1>1, <1>2, <1>3, PTL DEF BenchSpec

(* The index implements its promise: what is stored stays stored, but for  *)
(* the incident whose line lost just its newline.                          *)
THEOREM PromiseIsKept == OneProcess => (BenchSpec => KeepsPromise)
<1> SUFFICES ASSUME OneProcess PROVE BenchSpec => KeepsPromise OBVIOUS
<1>1. BenchInit => IndexInv /\ Index!Promise!PromiseInit
  BY IndexInductive, AloneStarts DEF BenchInit
<1>2. IndexInv /\ [BenchNext]_benchVars =>
        IndexInv' /\ [Index!Promise!PromiseNext]_(Index!Promise!promiseVars)
  BY IndexInductive DEF Keeps, Index!Promise!promiseVars
<1> QED BY <1>1, <1>2, PTL
       DEF BenchSpec, KeepsPromise, Index!KeepsPromise, Index!Promise!PromiseSpec
=============================================================================
