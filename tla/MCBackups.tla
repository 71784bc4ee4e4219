------------------------------- MODULE MCBackups -------------------------------
(* Backups and transfers, a part per scene: rows and bundles, with a       *)
(* request and a command line; the files of a restore or clone; an output  *)
(* moved between a leader and two followers; the operation rows of a       *)
(* backup and of a timer, of which any write may be lost; the applies of a *)
(* request and of auto-size.                                               *)
EXTENDS Backups, TLC

CONSTANTS request, cli, backup, timer, Cleaner, first, second

People  == {request, cli}
Service == {request}
Taken   == {first, second}
Alike   == Permutations(Taken)

VARIABLES scene
VARIABLES pc, rec, verdict, opTask, level, depth, work, late, holder, server,
          cleaner, seen, attempts, restarts
VARIABLES config, marker, live, loaded, owner, writer, session, applyPast, used

opVars == <<pc, rec, verdict, opTask, level, depth, work, late, holder, server,
            cleaner, seen, attempts, restarts>>
applyVars == <<config, marker, live, loaded, owner, writer, session, applyPast, used>>

Rows == INSTANCE HostMutation WITH
    Ops <- {backup, timer}, ServerOps <- {backup}, UiOps <- {backup}, UpdateOps <- {},
    Deferring <- {timer}, DeferredOps <- {backup}, BackupOps <- {backup},
    CallerOps <- {timer}, AutoSizeOps <- {timer}, DbErrors <- TRUE, LateProgress <- FALSE,
    MaxAttempts <- 1, MaxRestarts <- 2, task <- opTask

Applies == INSTANCE HostApply WITH
    Sessions <- {request, timer}, Deferred <- {request, timer}, Ticks <- {timer},
    Slices <- {"nginx", "cluster_followers"}, Values <- {"old", "new"},
    Mixed <- "Mixed", None <- "None",
    Edits <- [s \in {request, timer} |-> {[x \in {"nginx", "cluster_followers"} |-> "new"]}],
    MaxFaults <- 1, MaxStops <- 1, MaxUpgrades <- 1,
    db <- config, task <- session, past <- applyPast

scenes == <<scene, vars, restoreVars, transferVars, opVars, applyVars>>

ScenesInit ==
    /\ scene \in {"bundles", "restore", "transfer", "rows", "applies"}
    /\ Init /\ R!Init /\ T!Init /\ Rows!Init /\ Applies!Init
    /\ scene # "restore" => ~clone /\ ~up /\ \A m \in DOMAIN target : target[m] = 0
    /\ scene # "transfer" => applied = {Leader} /\ ready = {} /\ joining = {}
    /\ scene # "applies" => config["nginx"] = "old" /\ marker = Applies!NoRun

(* Two faults and a write in one job, or one of these in two jobs.         *)
OneFaultOfTwo == transfers' = 2 => transferFaults' + writes' <= 1

ScenesNext ==
    /\ scene' = scene
    /\ \/ scene = "bundles" /\ Next /\ UNCHANGED <<restoreVars, transferVars, opVars, applyVars>>
       \/ scene = "restore" /\ R!Next /\ UNCHANGED <<vars, transferVars, opVars, applyVars>>
       \/ scene = "transfer" /\ T!Next /\ OneFaultOfTwo
          /\ UNCHANGED <<vars, restoreVars, opVars, applyVars>>
       \/ scene = "rows" /\ Rows!Next /\ UNCHANGED <<vars, restoreVars, transferVars, applyVars>>
       \/ scene = "applies" /\ Applies!Next /\ UNCHANGED <<vars, restoreVars, transferVars, opVars>>

ScenesSpec == ScenesInit /\ [][ScenesNext]_scenes

(* The inductive invariants of the five components: no lost row write and  *)
(* no second crash breaks that of HostMutation, no overlap of applies that *)
(* of HostApply, no fault of a way back those of restores and transfers.   *)
BackupsTypeOK ==
    /\ scene = "bundles" => IInv
    /\ scene = "restore" => R!IInv
    /\ scene = "transfer" => T!IInv
    /\ scene = "rows" => Rows!IInv
    /\ scene = "applies" => Applies!IInv
=============================================================================
