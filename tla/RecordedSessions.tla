-------------------------- MODULE RecordedSessions --------------------------
(***************************************************************************)
(* What the session index promises to SessionManager: every srepd process  *)
(* starts out knowing all stored incidents and learns its own, and what is *)
(* stored stays stored, but for the one incident whose append was cut      *)
(* short of its newline: the next append may cost it.  How the file is     *)
(* laid out, appended to and compacted is invisible here.                  *)
(***************************************************************************)
CONSTANTS
    Incidents,  \* incident ids
    Procs       \* srepd processes over time

VARIABLES
    known,      \* per process: incidents its has() answers for
    stored,     \* incidents a process started now would know
    shaky       \* the stored ones that the next append destroys

promiseVars == <<known, stored, shaky>>

PromiseInit ==
    /\ known = [p \in Procs |-> {}]
    /\ stored \in SUBSET Incidents
    /\ shaky = {}

Learn(p) ==
    /\ known' = [known EXCEPT ![p] = stored]
    /\ UNCHANGED <<stored, shaky>>

Establish(p, i) ==
    /\ known' = [known EXCEPT ![p] = @ \cup {i}]
    /\ UNCHANGED <<stored, shaky>>

Store(p, i) ==
    /\ i \in known[p] /\ shaky = {}
    /\ stored' = stored \cup {i}
    /\ shaky' \in {{}, {i}}
    /\ UNCHANGED known

Lose ==
    /\ stored' = stored \ shaky
    /\ shaky' = {}
    /\ UNCHANGED known

(* A compaction rewrites the shaky line in full.                           *)
Settle ==
    /\ shaky' = {}
    /\ UNCHANGED <<known, stored>>

Forget(p) ==
    /\ known' = [known EXCEPT ![p] = {}]
    /\ UNCHANGED <<stored, shaky>>

PromiseNext ==
    \/ Lose \/ Settle
    \/ \E p \in Procs :
        \/ Learn(p) \/ Forget(p)
        \/ \E i \in Incidents : Establish(p, i) \/ Store(p, i)

PromiseSpec == PromiseInit /\ [][PromiseNext]_promiseVars
=============================================================================
