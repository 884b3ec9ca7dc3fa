----------------------------- MODULE SessionLife -----------------------------
(***************************************************************************)
(* The life of one agent Session as its owner sees it.  GetOrCreate reads  *)
(* closed, Send reads closed and spawned, and the event reader waits for   *)
(* Done(): a Session spawns at most once, a closed one never spawns, and   *)
(* Done() comes after closed, so whoever saw Done() finds a dead session.  *)
(***************************************************************************)
VARIABLES spawned, closed, done

lifeVars == <<spawned, closed, done>>

LifeInit == ~spawned /\ ~closed /\ ~done

LifeSpawn ==
    /\ ~spawned /\ ~closed
    /\ spawned' = TRUE
    /\ UNCHANGED <<closed, done>>

(* Close or, once spawned, the end of the readLoop.                        *)
LifeClose ==
    /\ closed' = TRUE
    /\ done' = (done \/ ~spawned)
    /\ UNCHANGED spawned

LifeEnd ==
    /\ spawned /\ closed
    /\ done' = TRUE
    /\ UNCHANGED <<spawned, closed>>

LifeNext == LifeSpawn \/ LifeClose \/ LifeEnd

LifeSpec == LifeInit /\ [][LifeNext]_lifeVars
=============================================================================
