---------------------------- MODULE RetryClient ----------------------------
(***************************************************************************)
(* RateLimitedClient.withRetry of pkg/pd/ratelimit.go, through which every *)
(* PagerDuty call goes: concurrent requests share one token bucket, wait   *)
(* for a token before each attempt, and retry after a 429 with a backoff.  *)
(***************************************************************************)
EXTENDS Integers

CONSTANTS
    Requests,   \* calls of withRetry, each made once
    MaxRetries, \* opts.MaxRetries
    Burst,      \* opts.BurstSize
    Replies,    \* how PagerDuty may answer
    MaxRefills  \* bound of the model: tokens that time adds

(* "failed" is an error that is not a rate limit; "failed429" is one whose *)
(* text happens to contain 429 (an incident id in the URL, say).  The only *)
(* options in use are the defaults: three retries and a burst of twenty.   *)
Reply == {"ok", "limited", "failed", "failed429"}

ASSUME RetryAssumption ==
    /\ MaxRetries \in Nat \ {0} /\ Burst \in Nat \ {0} /\ MaxRefills \in Nat
    /\ Replies \subseteq Reply

VARIABLES
    req,      \* progress, retries, last reply and result of each request
    tokens,   \* the limiter's bucket
    refills,  \* history: tokens that time added
    calls,    \* history: calls of the inner client
    effects,  \* history: how often the request took effect at PagerDuty
    mistaken  \* history: its errors that only look like a rate limit

vars == <<req, tokens, refills, calls, effects, mistaken>>

TypeOK ==
    /\ req \in [Requests ->
                 [pc : {"idle", "wait", "call", "backoff", "done"},
                  attempt : 0..MaxRetries,
                  made : Nat,
                  reply : Reply \cup {"none"},
                  result : {"none", "nil", "error"}]]
    /\ tokens \in 0..Burst
    /\ refills \in 0..MaxRefills
    /\ calls \in Nat
    /\ effects \in [Requests -> Nat] /\ mistaken \in [Requests -> Nat]

Init ==
    /\ req = [r \in Requests |-> [pc |-> "idle", attempt |-> 0, made |-> 0,
                                  reply |-> "none", result |-> "none"]]
    /\ tokens = Burst
    /\ refills = 0 /\ calls = 0
    /\ effects = [r \in Requests |-> 0] /\ mistaken = [r \in Requests |-> 0]

Begin(r) ==
    /\ req[r].pc = "idle"
    /\ req' = [req EXCEPT ![r].pc = "wait"]
    /\ UNCHANGED <<tokens, refills, calls, effects, mistaken>>

(* limiter.Wait returns: this request has a token and makes its call.      *)
TokenTaken == tokens - 1

Acquire(r) ==
    /\ req[r].pc = "wait" /\ tokens > 0
    /\ tokens' = TokenTaken
    /\ req' = [req EXCEPT ![r].pc = "call", ![r].made = @ + 1]
    /\ calls' = calls + 1
    /\ UNCHANGED <<refills, effects, mistaken>>

Refill ==
    /\ tokens < Burst /\ refills < MaxRefills
    /\ tokens' = tokens + 1
    /\ refills' = refills + 1
    /\ UNCHANGED <<req, calls, effects, mistaken>>

IsAnyError(reply) == reply # "ok"
IsRateLimitError(reply) == reply \in {"limited", "failed429"}

Exhausted == "error"

Counted(n) == n + 1

RetriesOffByOne(r) == req[r].attempt <= MaxRetries
RetriesLeft(r) == req[r].attempt < MaxRetries

(* The call returns.  A request took effect if PagerDuty says so, and may  *)
(* have if the error came from anywhere but its rate limit.                *)
Return(r) ==
    /\ req[r].pc = "call"
    /\ \E reply \in Replies :
         /\ \E effect \in IF reply = "ok" THEN {1}
                          ELSE IF reply = "limited" THEN {0} ELSE {0, 1} :
              effects' = [effects EXCEPT ![r] = @ + effect]
         /\ mistaken' = [mistaken EXCEPT ![r] = @ + IF reply = "failed429" THEN 1 ELSE 0]
         /\ req' = [req EXCEPT
              ![r].reply = reply,
              ![r].pc = IF IsRateLimitError(reply) /\ RetriesLeft(r)
                        THEN "backoff" ELSE "done",
              ![r].attempt = IF IsRateLimitError(reply) /\ RetriesLeft(r)
                             THEN Counted(@) ELSE @,
              ![r].result = IF reply = "ok" THEN "nil"
                            ELSE IF ~IsRateLimitError(reply) THEN "error"
                            ELSE IF RetriesLeft(r) THEN "none"
                            ELSE Exhausted]
    /\ UNCHANGED <<tokens, refills, calls>>

BackoffElapses(r) ==
    /\ req[r].pc = "backoff"
    /\ req' = [req EXCEPT ![r].pc = "wait"]
    /\ UNCHANGED <<tokens, refills, calls, effects, mistaken>>

DeadlineInBackoff == {"backoff"}
DeadlineChecked == {"wait", "backoff"}

(* The context of contextWithTimeout ends a wait for a token and a backoff.*)
Deadline(r) ==
    /\ req[r].pc \in DeadlineChecked
    /\ req' = [req EXCEPT ![r].pc = "done", ![r].result = "error"]
    /\ UNCHANGED <<tokens, refills, calls, effects, mistaken>>

Step(r) == Begin(r) \/ Acquire(r) \/ Return(r) \/ BackoffElapses(r) \/ Deadline(r)

Next == Refill \/ \E r \in Requests : Step(r)

Spec == Init /\ [][Next]_vars

(* The inner client answers (its HTTP call carries the same context), the  *)
(* timers fire.  Nothing promises a token.                                 *)
Fairness ==
    \A r \in Requests :
        WF_vars(Return(r)) /\ WF_vars(BackoffElapses(r)) /\ WF_vars(Deadline(r))

FairSpec == Spec /\ Fairness

-----------------------------------------------------------------------------
(* One request makes at most 1 + MaxRetries calls.                         *)
CallsBounded == \A r \in Requests : req[r].made <= 1 + MaxRetries

(* Whatever requests run side by side, first attempts and retries together *)
(* stay within the burst and what time added.                              *)
RateBounded == calls + tokens <= Burst + refills

(* Success is reported only when the last answer was one.                  *)
TruthfulResult ==
    \A r \in Requests : req[r].result = "nil" => req[r].reply = "ok"

(* A retry repeats what PagerDuty may already have done, a note say, only  *)
(* after an error that looks like a rate limit and is none: once per such  *)
(* error, never after a success, a true rate limit or another failure.     *)
RepeatsExplained == \A r \in Requests : effects[r] <= 1 + mistaken[r]

(* A request ends even if its turn in the bucket never comes.              *)
RequestsEnd == \A r \in Requests : req[r].pc = "wait" ~> req[r].pc = "done"

-----------------------------------------------------------------------------
(* The strengthening that makes the safety properties inductive: calls are *)
(* counted attempts, and before the last answer nothing took effect but    *)
(* what an error mistaken for a rate limit hid.                            *)
RequestSound ==
    \A r \in Requests :
        /\ req[r].made <= 1 + req[r].attempt
        /\ req[r].pc \in {"idle", "wait", "backoff"} => req[r].made <= req[r].attempt
        /\ req[r].pc # "done" => req[r].result = "none"
        /\ effects[r] <= mistaken[r] + IF req[r].pc = "done" THEN 1 ELSE 0

IInv == TypeOK /\ RateBounded /\ TruthfulResult /\ RequestSound

-----------------------------------------------------------------------------
(* pkg/pd/ratelimit.go: isRateLimitError "returns true if the error        *)
(* indicates a PagerDuty 429 rate limit response"; only those are retried. *)
(* The code does not keep this: it looks for "429" anywhere in the text.   *)
OnlyRateLimitRetried ==
    \A r \in Requests : req[r].pc = "backoff" => req[r].reply = "limited"
=============================================================================
