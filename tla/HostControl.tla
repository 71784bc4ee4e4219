----------------------------- MODULE HostControl -----------------------------
(***************************************************************************)
(* Host mutations and control-plane updates together.                      *)
(*                                                                         *)
(* host_mutation_operation() asks _active_update_run_blocker() before it   *)
(* takes the lock, which reconciles every pending UpdateRun on the way;    *)
(* run_update() is itself a host mutation, but the updater it launches     *)
(* outlives its section, and restarts the server that launched it.         *)
(***************************************************************************)
EXTENDS Naturals, FiniteSets

CONSTANTS
    Ops, ServerOps, UpdateOps, Deferring, DbErrors, MaxAttempts, MaxRestarts,
    NoOne, Cleaner,
    Pollers,      \* status requests of the dashboard, tasks of the server
    MaxRuns, LookupAttempts, MaxFaults

ASSUME ControlAssumption ==
    /\ IsFiniteSet(Ops) /\ UpdateOps \subseteq ServerOps /\ ServerOps \subseteq Ops
    /\ NoOne \notin Ops /\ Cleaner \notin Ops /\ NoOne # Cleaner
    /\ Pollers \cap Ops = {}
    /\ DbErrors \in BOOLEAN
    /\ {MaxAttempts, MaxRestarts, MaxRuns, LookupAttempts, MaxFaults} \subseteq Nat

VARIABLES pc, rec, verdict, task, level, depth, work, late, holder, server,
          cleaner, seen, attempts, restarts
VARIABLES status, failures, unit, updater, log, look, launch, faults, early

hostState == <<pc, rec, verdict, task, level, depth, work, late, holder, server,
               cleaner, seen, attempts, restarts>>
runState  == <<status, failures, unit, updater, log, look, launch, faults, early>>
vars      == <<hostState, runState>>

Host == INSTANCE HostMutation
          WITH UiOps <- {}, DeferredOps <- {}, BackupOps <- {}, CallerOps <- {},
               AutoSizeOps <- {}, LateProgress <- FALSE
Update == INSTANCE UpdateRuns
          WITH Observers <- Ops \cup Pollers, Launchers <- UpdateOps

Init == Host!Init /\ Update!Init

-----------------------------------------------------------------------------
(* What happens to the host alone, the update rows left as they are.       *)
HostOnly(o) ==
    /\ UNCHANGED runState
    /\ \/ Host!Request(o) \/ Host!Acquire(o) \/ Host!Busy(o)
       \/ look[o].at = "idle" /\ Host!Abort(o)
       \/ (o \notin UpdateOps \/ pc[o] # "refused") /\ Host!Report(o)
       \/ (o \notin UpdateOps /\ Host!MarkRunning(o))
       \/ \E c \in Ops : Host!EnterNested(c, o)
       \/ \E outcome \in Host!Terminal \ {"partial"} :
            o \notin UpdateOps /\ Host!Finish(o, outcome)
       \/ Host!Leave(o)

AsksForUpdates(o) ==
    o \notin UpdateOps /\ pc[o] \in {"requested", "busy"} /\ Host!Running(o)

(* _active_update_run_blocker finds no pending row, or no database.        *)
BlockerNone(o) ==
    /\ AsksForUpdates(o) /\ look[o].at = "idle"
    /\ DbErrors \/ \A r \in Update!Runs : status[r] \notin Update!Pending
    /\ UNCHANGED runState
    /\ Host!SeeNoUpdate(o)

(* It finds one and reconciles it ...                                      *)
BlockerLoads(o) ==
    /\ AsksForUpdates(o)
    /\ \E r \in Update!Runs : Update!LookBegin(o, r)
    /\ UNCHANGED hostState

BlockerLooks(o) ==
    /\ AsksForUpdates(o)
    /\ \/ Update!LookShow(o)
       \/ \E retryable, recent \in BOOLEAN : Update!LookShowFails(o, retryable, recent)
    /\ UNCHANGED hostState

(* ... and refuses if it is still pending, or goes on to the next row.     *)
BlockerDecides(o) ==
    LET r == look[o].run IN
    /\ AsksForUpdates(o)
    /\ Update!LookWrite(o)
    /\ IF status'[r] \in Update!Pending
       THEN Host!SeeUpdate(o)
       ELSE \/ /\ \A s \in Update!Runs : status[s] \in Update!Pending => s >= r
               /\ Host!SeeNoUpdate(o)
            \/ /\ \E s \in Update!Runs : s # r /\ status[s] \in Update!Pending
               /\ UNCHANGED hostState

-----------------------------------------------------------------------------
(* run_update in its section.                                              *)
InLaunch(o) == o \in UpdateOps /\ pc[o] = "section" /\ Host!Running(o)

UpdateEnters(o) ==
    /\ o \in UpdateOps
    /\ Update!LaunchBegin(o) /\ Host!MarkRunning(o)

UpdateProceeds(o) ==
    /\ InLaunch(o)
    /\ \/ launch[o].at = "reconciling"
          /\ \/ Update!LookShow(o)
             \/ \E retryable, recent \in BOOLEAN :
                   Update!LookShowFails(o, retryable, recent)
       \/ Update!LaunchReconciled(o) \/ Update!QueueRow(o) \/ Update!LaunchUnit(o)
    /\ UNCHANGED hostState

(* An exception leaves the section with a failed operation.                *)
UpdateRaises(o) ==
    /\ InLaunch(o)
    /\ Update!LaunchRejected(o) \/ Update!LaunchBreaks(o)
    /\ Host!Finish(o, "failed")

(* Mutant: the launch leaves the section without completing its operation. *)
UpdateVanishes(o) ==
    /\ InLaunch(o) /\ launch[o].at = "idle"
    /\ UNCHANGED runState
    /\ pc' = [pc EXCEPT ![o] = "done"] /\ holder' = NoOne
    /\ UNCHANGED <<rec, verdict, task, level, depth, work, late, server,
                   cleaner, seen, attempts, restarts>>

UpdateReturns(o) ==
    /\ InLaunch(o) /\ launch[o].at = "idle"
    /\ UNCHANGED runState
    /\ Host!Finish(o, "success")

(* The exception handlers of run_update, after the section.                *)
UpdateRecordsFailure(o) ==
    /\ o \in UpdateOps
    /\ \/ /\ pc[o] = "done" /\ Host!Running(o)
          /\ Update!RecordBroken(o) /\ UNCHANGED hostState
       \/ /\ pc[o] = "refused"
          /\ Update!RecordBlocked(o) /\ Host!Report(o)

-----------------------------------------------------------------------------
(* Pollers and processes.                                                  *)
Poll(p) ==
    /\ server = "serving"
    /\ Update!LookStep(p)
    /\ UNCHANGED hostState

InServer == ServerOps \cup Pollers

RunsUnchangedBut == UNCHANGED <<status, failures, unit, updater, log, faults, early>>

CrashProcess(t) ==
    /\ Update!Forget({o \in Ops \ ServerOps : task[o] = t})
    /\ RunsUnchangedBut
    /\ Host!CrashProcess(t)

CrashServer ==
    /\ Update!Forget(InServer)
    /\ RunsUnchangedBut
    /\ Host!CrashServer

(* The updater restarts the service and waits for it to be ready.          *)
UpdaterRestarts(r) ==
    /\ Update!RestartService(r, InServer)
    /\ Host!CrashServer

Updater(r) ==
    /\ \/ Update!UnitStarts(r) \/ Update!TakeUpdateLock(r)
       \/ server = "serving" /\ Update!UpdaterCompletes(r)
       \/ Update!UpdaterFails(r) \/ Update!UpdaterKilled(r)
       \/ Update!UnitExits(r) \/ Update!UnitCollected(r)
    /\ UNCHANGED hostState

Next ==
    \/ \E o \in Ops :
        \/ HostOnly(o)
        \/ BlockerNone(o) \/ BlockerLoads(o) \/ BlockerLooks(o) \/ BlockerDecides(o)
        \/ UpdateEnters(o) \/ UpdateProceeds(o) \/ UpdateRaises(o)
        \/ UpdateReturns(o) \/ UpdateRecordsFailure(o)
        \/ CrashProcess(o)
    \/ \E p \in Pollers : Poll(p)
    \/ \E r \in Update!Runs : UpdaterRestarts(r) \/ Updater(r)
    \/ CrashServer
    \/ UNCHANGED runState /\ (Host!StartServer \/ Host!CleanupStep)

Spec == Init /\ [][Next]_vars

-----------------------------------------------------------------------------
TypeOK == Host!TypeOK /\ Update!TypeOK

(* The composed system is a HostMutation system: what holds of every       *)
(* environment of the section holds of this one.                           *)
HostMutationSpec == Host!Spec

(* And an UpdateRuns system, whose environment it is: run_update has its   *)
(* section to itself, a restart of the service forgets every launch.       *)
UpdateRunsSpec == Update!OpenSpec

(* An updater is launched only when no other change of the host is under   *)
(* way: run_update takes the same lock as every mutation.                  *)
LaunchFindsHostIdle ==
    [][\A r \in Update!Runs :
        unit[r] = "absent" /\ unit'[r] = "enqueued"
            => \A o \in Ops \ UpdateOps : pc[o] \notin Host!Inside]_vars

(* No change of the host is made while an updater replaces the release.    *)
UpdateRunsAlone ==
    \A r \in Update!Runs, o \in Ops \ UpdateOps :
        Update!Installing(r) => pc[o] # "section"

-----------------------------------------------------------------------------
(* Why they hold: run_update is never nested, nests nothing and launches   *)
(* in its section, which the lock makes exclusive (Host!HostExclusion).    *)
Nested ==
    /\ \A o \in Ops : task[o] \in UpdateOps <=> o \in UpdateOps
    /\ \A o \in UpdateOps : task[o] = o
LaunchInv ==
    /\ Nested
    /\ \A o \in UpdateOps : Update!InSection(o) => pc[o] = "section"

(* The inductive invariant of HostControl.                                 *)
IInv == LaunchInv /\ Update!IInv
=============================================================================
