------------------------------ MODULE Services ------------------------------
(***************************************************************************)
(* Three services that do not talk to each other, checked on one bench:    *)
(* the log writer, one streamed answer and the session index.  A behaviour *)
(* picks one of them and leaves the others in their initial state.         *)
(***************************************************************************)
EXTENDS AsyncWriter

CONSTANTS ChanCap, MaxTokens
CONSTANTS Incidents, Corrupt, Procs, Threshold, MaxStarts, MaxTorn, InitLines

VARIABLES provider, tokens, ctxDone, watchdog, timedOut, producer, ch, reader
VARIABLES files, path, torn, proc, mem, snapshot, pending, starts, tears,
          found, durable, recorded
VARIABLE service   \* the one that runs

Stream == INSTANCE ProviderStream
Index == INSTANCE SessionIndex

ASSUME ServicesAssumption == Stream!StreamAssumption /\ Index!IndexAssumption

streamVars == <<provider, tokens, ctxDone, watchdog, timedOut, producer, ch,
                reader>>
indexVars == <<files, path, torn, proc, mem, snapshot, pending, starts, tears,
               found, durable, recorded>>
benchVars == <<service, vars, streamVars, indexVars>>

BenchInit ==
    /\ Init /\ Stream!Init /\ Index!Init
    /\ service \in {"log", "stream", "index"}
    /\ service # "index" => files = <<>>

LogStep ==
    service = "log" /\ Next /\ UNCHANGED <<service, streamVars, indexVars>>
StreamStep ==
    service = "stream" /\ Stream!Next /\ UNCHANGED <<service, vars, indexVars>>
IndexStep ==
    service = "index" /\ Index!Next /\ UNCHANGED <<service, vars, streamVars>>

BenchNext == LogStep \/ StreamStep \/ IndexStep

BenchSpec ==
    /\ BenchInit /\ [][BenchNext]_benchVars
    /\ service = "log" => Fairness
    /\ service = "stream" => Stream!Fairness

-----------------------------------------------------------------------------
(* Every variable of the three services keeps its type.                    *)
TypesOK == TypeOK /\ Stream!TypeOK /\ Index!TypeOK

(* Logging never blocks its caller, and Close returns unless the           *)
(* underlying writer hangs for good.                                       *)
CallsReturn == service = "log" => WriteReturns /\ CloseReturns

(* The shown answer is a gapless prefix of what the provider said, and     *)
(* all of it when it is reported as complete.                              *)
ShownIsTold == Stream!NoGap /\ Stream!CompleteWhenOk

(* A provider that never says anything does not hold its query.            *)
StartupEnds == service = "stream" => Stream!StartupEnds

(* At most one line is ever on disk or on its way for an incident.         *)
WrittenOnce == Index!WrittenOnce

(* Torn appends, crashes and compaction keep the abstract promise of the   *)
(* index, so a load never reports an incident nobody recorded either.      *)
KeepsPromise == Index!KeepsPromise
=============================================================================
