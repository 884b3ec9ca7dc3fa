-------------------------------- MODULE Desk --------------------------------
(***************************************************************************)
(* What the person at the desk drives, on one bench: which view has the    *)
(* keys, the strip of approvals, the watcher pane, and the configuration   *)
(* wizard.  A behaviour picks one of them and leaves the others in one     *)
(* initial state.                                                          *)
(***************************************************************************)
EXTENDS KeyModes

CONSTANTS Incidents, None, MaxRuns, MaxPolls
CONSTANTS Urgent, ServiceOf, ClustersOf, Capacity, Words, MaxQueries
CONSTANTS Present, Seeds, Supplied, MaxStarts

VARIABLES queue, current, registry, runs, strip, pointer, expanded, approved,
          acted, polls, made
VARIABLES setup, feed, streaming, typewriter, gen, commands, analyzing,
          querying, down, seen, polled, queries
VARIABLES file, backup, preset, env, mode, viper, form, jobs, starts
VARIABLE part   \* the one that runs

Approval == INSTANCE Approvals WITH
    list <- queue, selected <- current, cursor <- pointer
Feed == INSTANCE WatcherFeed WITH
    list <- polled, current <- streaming, jobs <- commands
Config == INSTANCE ConfigFile

ASSUME DeskAssumption ==
    /\ Approval!ApprovalsAssumption
    /\ Feed!FeedAssumption
    /\ Config!ConfigAssumption

approvalVars == <<queue, current, registry, runs, strip, pointer, expanded,
                  approved, acted, polls, made>>
feedVars == <<setup, feed, streaming, typewriter, gen, commands, analyzing,
              querying, down, seen, polled, queries>>
configVars == <<file, backup, preset, env, mode, viper, form, jobs, starts>>
benchVars == <<part, vars, approvalVars, feedVars, configVars>>

(* Of what is not picked, one initial state is enough.                     *)
BenchInit ==
    /\ Init /\ Approval!Init /\ Feed!Init /\ Config!Init
    /\ part \in {"keys", "approvals", "feed", "config"}
    /\ part # "keys" => posted = {}
    /\ part # "feed" => setup = [streams |-> TRUE, tools |-> TRUE, agent |-> "session"]
    /\ part # "config" => file = Config!Absent /\ preset = Config!Nothing

KeyStep ==
    /\ part = "keys" /\ Next
    /\ UNCHANGED <<part, approvalVars, feedVars, configVars>>
ApprovalStep ==
    /\ part = "approvals" /\ Approval!Next
    /\ UNCHANGED <<part, vars, feedVars, configVars>>
FeedStep ==
    /\ part = "feed" /\ Feed!Next
    /\ UNCHANGED <<part, vars, approvalVars, configVars>>
ConfigStep ==
    /\ part = "config" /\ Config!Next
    /\ UNCHANGED <<part, vars, approvalVars, feedVars>>

BenchNext == KeyStep \/ ApprovalStep \/ FeedStep \/ ConfigStep

BenchSpec == BenchInit /\ [][BenchNext]_benchVars

-----------------------------------------------------------------------------
(* Every variable of the four parts keeps its type.                        *)
TypesOK == TypeOK /\ Approval!TypeOK /\ Feed!TypeOK /\ Config!TypeOK

(* An approved note or re-escalation hits what set off its investigation.  *)
ActsOnOrigin == Approval!ActsOnOrigin

(* A superseded stream or typewriter writes no more.                       *)
SupersededSilent == Feed!SupersededSilent

(* The watcher is analyzing only while something will end it.              *)
AnalyzingIsQuery == Feed!AnalyzingIsQuery

(* While a save may leave the file torn, a whole backup of it exists.      *)
BackedUp == Config!BackedUp

(* A completed save leaves in the file what the user confirmed, with the   *)
(* exceptions that ConfigFile names (Durable).                             *)
ConfirmedIsSaved == Config!ConfirmedIsSaved
=============================================================================
