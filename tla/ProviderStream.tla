--------------------------- MODULE ProviderStream ---------------------------
(***************************************************************************)
(* One streamed :watcher answer (pkg/tui/stream.go): the provider puts     *)
(* tokens on a channel and closes it, a producer forwards them to the      *)
(* event channel, a watchdog cancels a provider that does not start, and   *)
(* the Update loop reads one event at a time until the end, or until a     *)
(* newer stream takes its place.  Tokens are numbered by the provider.     *)
(***************************************************************************)
EXTENDS Integers, Sequences

CONSTANTS
    ChanCap,    \* streamChanBuffer, of both channels
    MaxTokens   \* bound of the model: tokens of the answer

StreamAssumption == ChanCap \in Nat \ {0} /\ MaxTokens \in Nat

VARIABLES
    provider,  \* StreamQuery: running or its result, and the tokens it sent
    tokens,    \* the channel StreamQuery writes
    ctxDone,   \* the stream's context is cancelled
    watchdog,  \* time.AfterFunc
    timedOut,  \* the flag the watchdog sets
    producer,  \* the goroutine between the channels, with what it holds
    ch,        \* the event channel
    reader     \* the Update loop's side

vars == <<provider, tokens, ctxDone, watchdog, timedOut, producer, ch, reader>>

Token == 1..MaxTokens
Errors == {"nil", "failed", "canceled", "timeout"}
Event == [tok : Token, done : {"no"}] \cup [tok : {0}, done : Errors]
TokenEvent(n) == [tok |-> n, done |-> "no"]
DoneEvent(err) == [tok |-> 0, done |-> err]

TypeOK ==
    /\ provider \in [result : {"running"} \cup Errors, sent : 0..MaxTokens]
    /\ tokens \in Seq(Token) /\ Len(tokens) <= ChanCap
    /\ ctxDone \in BOOLEAN /\ timedOut \in BOOLEAN
    /\ watchdog \in {"armed", "fired", "cancelled", "stopped"}
    /\ producer \in [pc : {"range", "select", "drain", "last", "closed"},
                     tok : 0..MaxTokens, err : Errors]
    /\ ch \in Seq(Event) /\ Len(ch) <= ChanCap
    /\ reader \in [pc : {"reading", "stale", "finished"}, got : 0..MaxTokens,
                   outcome : Errors \cup {"none"}]

(* streamWatcherCmd has started the goroutines and the Update loop has     *)
(* taken the stream for its current one.                                   *)
Init ==
    /\ provider = [result |-> "running", sent |-> 0]
    /\ tokens = <<>> /\ ch = <<>>
    /\ ctxDone = FALSE /\ timedOut = FALSE
    /\ watchdog = "armed"
    /\ producer = [pc |-> "range", tok |-> 0, err |-> "nil"]
    /\ reader = [pc |-> "reading", got |-> 0, outcome |-> "none"]

-----------------------------------------------------------------------------
(* StreamQuery: tokens, then its result and the closed channel; a select   *)
(* on the context guards every send.                                       *)
ProviderSends ==
    /\ provider.result = "running" /\ provider.sent < MaxTokens
    /\ Len(tokens) < ChanCap
    /\ tokens' = Append(tokens, provider.sent + 1)
    /\ provider' = [provider EXCEPT !.sent = @ + 1]
    /\ UNCHANGED <<ctxDone, watchdog, timedOut, producer, ch, reader>>

ProviderEnds ==
    /\ provider.result = "running"
    /\ \E err \in {"nil", "failed"} : provider' = [provider EXCEPT !.result = err]
    /\ UNCHANGED <<tokens, ctxDone, watchdog, timedOut, producer, ch, reader>>

ProviderAborts ==
    /\ provider.result = "running" /\ ctxDone
    /\ provider' = [provider EXCEPT !.result = "canceled"]
    /\ UNCHANGED <<tokens, ctxDone, watchdog, timedOut, producer, ch, reader>>

TokensClosed == provider.result # "running" /\ tokens = <<>>

-----------------------------------------------------------------------------
(* The watchdog sets its flag and then cancels.                            *)
WatchdogFires ==
    /\ watchdog = "armed"
    /\ watchdog' = "fired"
    /\ timedOut' = TRUE
    /\ UNCHANGED <<provider, tokens, ctxDone, producer, ch, reader>>

WatchdogForgets ==
    /\ watchdog = "fired"
    /\ watchdog' = "cancelled"
    /\ UNCHANGED <<provider, tokens, ctxDone, timedOut, producer, ch, reader>>

WatchdogCancels ==
    /\ watchdog = "fired"
    /\ watchdog' = "cancelled"
    /\ ctxDone' = TRUE
    /\ UNCHANGED <<provider, tokens, timedOut, producer, ch, reader>>

-----------------------------------------------------------------------------
(* The producer: the first token disarms the watchdog, unless it fired.    *)
Stopped == IF watchdog = "armed" THEN "stopped" ELSE watchdog

TakeToken ==
    /\ producer.pc = "range" /\ tokens # <<>>
    /\ producer' = [producer EXCEPT !.pc = "select", !.tok = Head(tokens)]
    /\ tokens' = Tail(tokens)
    /\ watchdog' = IF Head(tokens) = 1 THEN Stopped ELSE watchdog
    /\ UNCHANGED <<provider, ctxDone, timedOut, ch, reader>>

Room == Len(ch) < ChanCap

SkipToken == "range"
OnCancel == "drain"

(* select: the token goes out or the context is done; either, if both.     *)
Forward ==
    /\ producer.pc = "select"
    /\ \/ /\ Room
          /\ ch' = Append(ch, TokenEvent(producer.tok))
          /\ producer' = [producer EXCEPT !.pc = "range"]
       \/ /\ ctxDone
          /\ producer' = [producer EXCEPT !.pc = OnCancel]
          /\ UNCHANGED ch
    /\ UNCHANGED <<provider, tokens, ctxDone, watchdog, timedOut, reader>>

CtxErr == "canceled"

(* A cancelled producer empties the token channel so that the provider can *)
(* end, and reports ctx.Err().                                             *)
DrainTokens ==
    /\ producer.pc = "drain"
    /\ \/ /\ tokens # <<>>
          /\ tokens' = Tail(tokens)
          /\ UNCHANGED producer
       \/ /\ TokensClosed
          /\ producer' = [producer EXCEPT !.pc = "last", !.err = CtxErr]
          /\ UNCHANGED tokens
    /\ UNCHANGED <<provider, ctxDone, watchdog, timedOut, ch, reader>>

(* At the end of the tokens it takes StreamQuery's result, which the flag  *)
(* of the watchdog replaces by a timeout.                                  *)
Collect ==
    /\ producer.pc = "range" /\ TokensClosed
    /\ producer' = [producer EXCEPT
         !.pc = "last", !.err = IF timedOut THEN "timeout" ELSE provider.result]
    /\ UNCHANGED <<provider, tokens, ctxDone, watchdog, timedOut, ch, reader>>

(* The terminal event, sent without a select, and the deferred cancel.     *)
SendDone ==
    /\ producer.pc = "last" /\ Room
    /\ ch' = Append(ch, DoneEvent(producer.err))
    /\ producer' = [producer EXCEPT !.pc = "closed"]
    /\ ctxDone' = TRUE
    /\ watchdog' = Stopped
    /\ UNCHANGED <<provider, tokens, timedOut, reader>>

-----------------------------------------------------------------------------
(* readStreamCmd and the handlers: a chunk grows the answer and asks for   *)
(* the next event, Done ends it; a stale event is dropped and not followed *)
(* by another read.                                                        *)
ReadEvent ==
    /\ reader.pc \in {"reading", "stale"} /\ ch # <<>>
    /\ ch' = Tail(ch)
    /\ reader' =
         IF reader.pc = "stale" THEN [reader EXCEPT !.pc = "finished"]
         ELSE IF Head(ch).done = "no" THEN [reader EXCEPT !.got = Head(ch).tok]
         ELSE [reader EXCEPT !.pc = "finished", !.outcome = Head(ch).done]
    /\ UNCHANGED <<provider, tokens, ctxDone, watchdog, timedOut, producer>>

(* A newer stream has started: the handler cancels this one.               *)
Supersede ==
    /\ reader.pc = "reading"
    /\ reader' = [reader EXCEPT !.pc = "stale"]
    /\ ctxDone' = TRUE
    /\ UNCHANGED <<provider, tokens, watchdog, timedOut, producer, ch>>

-----------------------------------------------------------------------------
Watchdog == WatchdogFires \/ WatchdogCancels
Producer == TakeToken \/ Forward \/ DrainTokens \/ Collect \/ SendDone

Next ==
    \/ ProviderSends \/ ProviderEnds \/ ProviderAborts
    \/ Watchdog \/ Producer \/ ReadEvent \/ Supersede

Spec == Init /\ [][Next]_vars

(* Timers fire, goroutines are scheduled, the Update loop runs commands    *)
(* and a provider notices its cancelled context; it may be silent for ever *)
(* otherwise.                                                              *)
Fairness ==
    /\ WF_vars(Watchdog) /\ WF_vars(Producer) /\ WF_vars(ReadEvent)
    /\ WF_vars(ProviderAborts)

FairSpec == Spec /\ Fairness

-----------------------------------------------------------------------------
(* The answer on the screen is always a gapless prefix of what the         *)
(* provider said: no race with a cancellation drops a token in the middle. *)
NoGap ==
    \A k \in DOMAIN ch :
        reader.pc = "reading" /\ ch[k].done = "no" => ch[k].tok = reader.got + k

(* An answer reported as complete is complete.                             *)
CompleteWhenOk ==
    reader.outcome = "nil" => reader.got = provider.sent

(* A provider that never says anything does not hold its query: the        *)
(* watchdog ends it.                                                       *)
StartupEnds ==
    reader.pc = "reading" /\ reader.got = 0
        ~> reader.got > 0 \/ reader.pc # "reading"

-----------------------------------------------------------------------------
(* docs/plans/394: watchdog cancellation is told from the consumer's, so a *)
(* startup timeout is not "swallowed as the superseded-stream              *)
(* context.Canceled case".                                                 *)
NotSwallowed == reader.outcome # "canceled"

(* pkg/tui: "a stream that started responding must never be truncated by   *)
(* the startup timeout".                                                   *)
NotTruncated == reader.outcome = "timeout" => reader.got = 0

(* pkg/tui/stream.go: a cancelled producer drains the tokens, "then exit". *)
ProducerExits == ctxDone ~> producer.pc = "closed"
=============================================================================
