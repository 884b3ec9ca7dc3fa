---------------------------- MODULE AsyncWriter ----------------------------
(***************************************************************************)
(* The log writer of cmd/asyncwriter.go: Write puts a message on a bounded *)
(* channel or drops it, one goroutine drains the channel to the underlying *)
(* writer and reports the drops, Close shuts the channel and waits.        *)
(* Messages are numbered in the order in which the channel accepts them.   *)
(***************************************************************************)
EXTENDS Integers, Sequences

CONSTANTS
    Writers,    \* goroutines that log
    Closers,    \* callers of Close
    Buffer,     \* bufferSize
    Interval,   \* dropReportInterval
    MaxWrites   \* bound of the model: calls of Write

(* asyncWriterBufferSize and dropReportInterval are positive; nobody holds *)
(* the mutex when its holder is NoOne.                                     *)
CONSTANT NoOne

ASSUME WriterAssumption ==
    /\ Buffer \in Nat \ {0} /\ Interval \in Nat \ {0} /\ MaxWrites \in Nat
    /\ NoOne \notin Writers \cup Closers

VARIABLES
    mu,            \* holder of the mutex
    closed,        \* the flag Write checks
    outClosed,     \* close(aw.out) was called
    out,           \* the channel
    accepted,      \* number of messages the channel accepted
    dropped,       \* the atomic counter
    writer,        \* progress of each caller of Write
    closer,        \* progress of each caller of Close
    drain,         \* progress of the goroutine
    lastReported,  \* its local of that name
    written,       \* number of messages the underlying writer got
    noticed,       \* history: the count in the latest drop notice
    calls          \* history: calls of Write that got past the closed check

vars == <<mu, closed, outClosed, out, accepted, dropped, writer, closer, drain,
          lastReported, written, noticed, calls>>

TypeOK ==
    /\ mu \in Writers \cup Closers \cup {NoOne}
    /\ closed \in BOOLEAN /\ outClosed \in BOOLEAN
    /\ out \in Seq(Nat) /\ Len(out) <= Buffer
    /\ accepted \in Nat /\ dropped \in Nat /\ calls \in Nat
    /\ writer \in [Writers -> {"idle", "lock", "send"}]
    /\ closer \in [Closers -> {"idle", "lock", "wait", "returned"}]
    /\ drain \in {"receive", "write", "check", "done"}
    /\ lastReported \in Nat /\ written \in Nat /\ noticed \in Nat

(* newAsyncWriter.                                                         *)
Init ==
    /\ mu = NoOne /\ closed = FALSE /\ outClosed = FALSE
    /\ out = <<>> /\ accepted = 0 /\ dropped = 0 /\ calls = 0
    /\ writer = [w \in Writers |-> "idle"]
    /\ closer = [c \in Closers |-> "idle"]
    /\ drain = "receive" /\ lastReported = 0 /\ written = 0 /\ noticed = 0

MutexIgnored == TRUE
MutexFree == mu = NoOne

-----------------------------------------------------------------------------
(* Write: lock and check closed ...                                        *)
Call(w) ==
    /\ writer[w] = "idle" /\ calls < MaxWrites
    /\ writer' = [writer EXCEPT ![w] = "lock"]
    /\ calls' = calls + 1
    /\ UNCHANGED <<mu, closed, outClosed, out, accepted, dropped, closer, drain,
                   lastReported, written, noticed>>

Lock(w) ==
    /\ writer[w] = "lock" /\ MutexFree
    /\ IF closed
       THEN writer' = [writer EXCEPT ![w] = "idle"] /\ UNCHANGED mu
       ELSE writer' = [writer EXCEPT ![w] = "send"] /\ mu' = w
    /\ UNCHANGED <<closed, outClosed, out, accepted, dropped, closer, drain,
                   lastReported, written, noticed, calls>>

RoomOffByOne == Len(out) <= Buffer
Room == Len(out) < Buffer

DropsNever == FALSE
Drops == ~Room

(* ... and send without blocking, still under the lock.                    *)
Send(w) ==
    /\ writer[w] = "send"
    /\ \/ /\ Room
          /\ out' = Append(out, accepted + 1)
          /\ accepted' = accepted + 1
          /\ UNCHANGED dropped
       \/ /\ Drops
          /\ dropped' = dropped + 1
          /\ UNCHANGED <<out, accepted>>
    /\ writer' = [writer EXCEPT ![w] = "idle"]
    /\ mu' = NoOne
    /\ UNCHANGED <<closed, outClosed, closer, drain, lastReported, written,
                   noticed, calls>>

-----------------------------------------------------------------------------
(* Close: the first caller closes the channel and waits for the goroutine, *)
(* every other one returns at once.                                        *)
CallClose(c) ==
    /\ closer[c] = "idle"
    /\ closer' = [closer EXCEPT ![c] = "lock"]
    /\ UNCHANGED <<mu, closed, outClosed, out, accepted, dropped, writer, drain,
                   lastReported, written, noticed, calls>>

ChannelClosed == TRUE

LockAndClose(c) ==
    /\ closer[c] = "lock" /\ MutexFree
    /\ closer' = [closer EXCEPT ![c] = IF closed THEN "returned" ELSE "wait"]
    /\ closed' = TRUE
    /\ outClosed' = (outClosed \/ ChannelClosed)
    /\ UNCHANGED <<mu, out, accepted, dropped, writer, drain, lastReported,
                   written, noticed, calls>>

CloseReturn(c) ==
    /\ closer[c] = "wait" /\ drain = "done"
    /\ closer' = [closer EXCEPT ![c] = "returned"]
    /\ UNCHANGED <<mu, closed, outClosed, out, accepted, dropped, writer, drain,
                   lastReported, written, noticed, calls>>

-----------------------------------------------------------------------------
(* The goroutine: range over the channel, ...                              *)
Receive ==
    /\ drain = "receive" /\ out # <<>>
    /\ out' = Tail(out)
    /\ drain' = "write"
    /\ UNCHANGED <<mu, closed, outClosed, accepted, dropped, writer, closer,
                   lastReported, written, noticed, calls>>

WriteOut ==
    /\ drain = "write"
    /\ written' = written + 1
    /\ drain' = "check"
    /\ UNCHANGED <<mu, closed, outClosed, out, accepted, dropped, writer, closer,
                   lastReported, noticed, calls>>

(* ... a notice when the count of drops crossed a multiple of Interval, ...*)
Check ==
    /\ drain = "check"
    /\ IF dropped \div Interval > lastReported \div Interval
       THEN lastReported' = dropped /\ noticed' = dropped
       ELSE UNCHANGED <<lastReported, noticed>>
    /\ drain' = "receive"
    /\ UNCHANGED <<mu, closed, outClosed, out, accepted, dropped, writer, closer,
                   written, calls>>

FinalNoticeIfCrossed == dropped \div Interval > lastReported \div Interval
FinalNotice == dropped % Interval # 0

RangeEndsAtClose == outClosed
RangeEnds == outClosed /\ out = <<>>

(* ... and the final count unless it is itself a multiple.                 *)
Finish ==
    /\ drain = "receive" /\ RangeEnds
    /\ noticed' = IF FinalNotice THEN dropped ELSE noticed
    /\ drain' = "done"
    /\ UNCHANGED <<mu, closed, outClosed, out, accepted, dropped, writer, closer,
                   lastReported, written, calls>>

-----------------------------------------------------------------------------
WriterStep(w) == Call(w) \/ Lock(w) \/ Send(w)
CloserStep(c) == CallClose(c) \/ LockAndClose(c) \/ CloseReturn(c)
Drain == Receive \/ WriteOut \/ Check \/ Finish

Next ==
    \/ \E w \in Writers : WriterStep(w)
    \/ \E c \in Closers : CloserStep(c)
    \/ Drain

Spec == Init /\ [][Next]_vars

(* A Go mutex hands itself to a starving waiter, and goroutines run.  The  *)
(* underlying writer may hang: nothing is assumed of WriteOut.             *)
Fairness ==
    /\ \A w \in Writers : SF_vars(Lock(w)) /\ WF_vars(Send(w))
    /\ \A c \in Closers : SF_vars(LockAndClose(c)) /\ WF_vars(CloseReturn(c))
    /\ WF_vars(Receive) /\ WF_vars(Check) /\ WF_vars(Finish)

FairSpec == Spec /\ Fairness

-----------------------------------------------------------------------------
(* Write's closed check and its send are two operations: no close of the   *)
(* channel comes between them, which would panic.                          *)
NoSendOnClosed ==
    \A w \in Writers : writer[w] = "send" => ~outClosed

(* When Close has waited, every message the channel accepted has reached   *)
(* the underlying writer, in the order of acceptance.                      *)
FlushedOnClose ==
    /\ \A k \in DOMAIN out :
         out[k] = written + (IF drain = "write" THEN 1 ELSE 0) + k
    /\ drain = "done" => written = accepted

(* No drop goes unreported: the last notice before the end, periodic or    *)
(* final, carries the total, although the final one is skipped when the    *)
(* total is a multiple of the interval.                                    *)
NothingUnreported == drain = "done" => noticed = dropped

(* Logging never blocks its caller, not even when the underlying writer    *)
(* hangs for good, ...                                                     *)
WriteReturns == \A w \in Writers : writer[w] = "lock" ~> writer[w] = "idle"

(* ... and Close, which waits for that writer, returns unless it hangs.    *)
CloseReturns ==
    []<>(drain # "write") =>
        \A c \in Closers : closer[c] = "lock" ~> closer[c] = "returned"

-----------------------------------------------------------------------------
(* The strengthening that makes the safety properties inductive.           *)
MutexSound ==
    /\ \A w \in Writers : writer[w] = "send" <=> mu = w
    /\ outClosed <=> closed

(* Accepted messages are written, in the goroutine's hand or queued.       *)
Conserved ==
    accepted = written + (IF drain = "write" THEN 1 ELSE 0) + Len(out)

(* A drop finds the channel full, so the goroutine will look at the count  *)
(* again; once it no longer will, a multiple of the interval was reported. *)
LooksAgain == out # <<>> \/ drain \in {"write", "check"}

ReportedSoFar ==
    /\ lastReported <= dropped /\ noticed = (IF drain = "done" THEN dropped ELSE lastReported)
    /\ ~LooksAgain => dropped \div Interval = lastReported \div Interval

Ended == drain = "done" => outClosed /\ out = <<>>

IInv ==
    /\ TypeOK /\ NoSendOnClosed /\ FlushedOnClose
    /\ MutexSound /\ Conserved /\ ReportedSoFar /\ Ended
=============================================================================
