---------------------------- MODULE HostMutation ----------------------------
(***************************************************************************)
(* The host-mutation section of CNC: app/services/operations.py and the    *)
(* interrupted-work cleanup app/main.py runs at startup.                   *)
(*                                                                         *)
(* Every change of the host runs inside host_mutation_operation(), which   *)
(* keeps one Operation row per request and takes a non-blocking flock that *)
(* the admin server shares with the CLI and timer processes.  Nested       *)
(* sections of one task (a transfer that runs an apply) count _LOCK_DEPTH  *)
(* and leave the lock to the outermost one.  When the server starts, a     *)
(* cleanup settles the rows a dead process left behind, under the same     *)
(* lock; if the lock is busy the server serves and retries later.          *)
(***************************************************************************)
EXTENDS Naturals, FiniteSets

CONSTANTS
    Ops,          \* requests, each runs at most once
    ServerOps,    \* those handled by the admin server; the rest own a process
    UiOps,        \* those whose route asks active_host_mutation_blocker first
    UpdateOps,    \* kind "update_control_plane"
    Deferring,    \* defer_on_update_blocker=True
    DeferredOps,  \* with_deferred_db_updates(): the UI task reports the outcome
    BackupOps,    \* backup_backend: the BackendBackup row precedes the section
    CallerOps,    \* commit_on_success=False: the caller commits and completes
    AutoSizeOps,  \* those of them of kind auto_size: an ApplyRun row is committed
    DbErrors,     \* may an SQLAlchemyError drop a row write?
    LateProgress, \* may a progress write of a worker thread be outstanding?
    MaxAttempts,  \* cleanup retries before it is abandoned (720 in main.py)
    MaxRestarts,  \* bound on server crashes
    NoOne, Cleaner

ASSUME OpsAssumption ==
    /\ IsFiniteSet(Ops)
    /\ UiOps \subseteq ServerOps /\ DeferredOps \subseteq ServerOps
    /\ ServerOps \subseteq Ops /\ UpdateOps \subseteq Ops
    /\ BackupOps \cup CallerOps \subseteq Ops /\ AutoSizeOps \subseteq CallerOps
    /\ CallerOps \cap (DeferredOps \cup BackupOps \cup UpdateOps) = {}
    /\ NoOne \notin Ops /\ Cleaner \notin Ops /\ NoOne # Cleaner
ASSUME BoundsAssumption ==
    /\ DbErrors \in BOOLEAN /\ LateProgress \in BOOLEAN
    /\ MaxAttempts \in Nat /\ MaxRestarts \in Nat

VARIABLES
    pc,       \* where each request's handler is
    rec,      \* status of its Operation row
    verdict,  \* the terminal status its handler is about to write
    task,     \* the request whose task this one runs in (itself when outermost)
    level,    \* _LOCK_DEPTH right after it entered (0: never entered)
    depth,    \* _LOCK_DEPTH of each task
    work,     \* status of the BackendBackup or ApplyRun row linked to it
    late,     \* is a progress update of it still scheduled on the loop?
    holder,   \* who holds the flock
    server,   \* "down", "starting", "serving"
    cleaner,  \* where the startup cleanup is
    seen,     \* what the cleanup read of each active row
    attempts, \* retries of the deferred cleanup
    restarts  \* server crashes so far

opVars   == <<pc, rec, verdict, task, level, depth, work, late>>
hostVars == <<server, cleaner, seen, attempts, restarts>>
vars     == <<opVars, holder, hostVars>>

Active   == {"queued", "running"}
Terminal == {"success", "partial", "failed", "cancelled"}
Inside   == {"entered", "section", "leaving"}
Waiting  == {"admitted", "announcing", "requested", "checked", "busy",
             "refused", "committing", "reporting"}
Live     == Inside \cup Waiting \cup {"probing"}

(* The cleanup has the lock from a successful try to its release.          *)
Sweeping == {"holding", "read", "swept", "ending", "failing"}

Init ==
    /\ pc = [o \in Ops |-> "idle"]
    /\ rec = [o \in Ops |-> "none"]
    /\ verdict = [o \in Ops |-> "none"]
    /\ task = [o \in Ops |-> o]
    /\ level = [o \in Ops |-> 0]
    /\ depth = [o \in Ops |-> 0]
    /\ work = [o \in Ops |-> "none"]
    /\ late = [o \in Ops |-> FALSE]
    /\ holder = NoOne
    /\ server = "starting" /\ cleaner = "try"
    /\ seen = [o \in Ops |-> "none"]
    /\ attempts = 0 /\ restarts = 0

-----------------------------------------------------------------------------
(* A row without a status was never created: OperationHandle.id is None.   *)
Recorded(o) == rec[o] # "none"

(* flock and unlock of the probe happen without an await in between, so    *)
(* the event loop runs no other server code while a probe holds the lock.  *)
LoopFree == \A o \in Ops : pc[o] # "probing"

(* The process of o can take a step.                                       *)
Running(o) == o \in ServerOps => server = "serving" /\ LoopFree

(* The innermost open section of its task is the one that runs.            *)
Current(o) == depth[task[o]] = level[o]

Goto(o, where) == pc' = [pc EXCEPT ![o] = where]

(* OperationHandle.update with finished=True: three attempts, then the row *)
(* keeps its old status.                                                   *)
Write(o, status) ==
    \/ rec' = [rec EXCEPT ![o] = IF Recorded(o) THEN status ELSE @]
    \/ DbErrors /\ rec' = rec

(* The status an update blocker leaves: partial (deferred) or failed.      *)
Refusal(o) == IF o \in Deferring THEN "partial" ELSE "failed"

-----------------------------------------------------------------------------
(* active_host_mutation_blocker: an active row, a pending update run (not   *)
(* part of this module) or a busy lock refuses the request; otherwise the  *)
(* flock is probed by taking and dropping it, and an OS process other than *)
(* the server may try the lock between the two.                            *)
GateBlocked(o) ==
    /\ o \in UiOps /\ pc[o] = "idle" /\ Running(o)
    /\ Goto(o, "done")
    /\ UNCHANGED <<rec, verdict, task, level, depth, work, late, holder, hostVars>>

Probe(o) ==
    /\ o \in UiOps /\ pc[o] = "idle" /\ Running(o)
    /\ \/ \A p \in Ops : rec[p] \notin Active
       \/ DbErrors
    /\ holder = NoOne
    /\ holder' = o
    /\ Goto(o, "probing")
    /\ UNCHANGED <<rec, verdict, task, level, depth, work, late, hostVars>>

ProbeRelease(o) ==
    /\ pc[o] = "probing"
    /\ holder' = NoOne
    /\ Goto(o, "admitted")
    /\ UNCHANGED <<rec, verdict, task, level, depth, work, late, hostVars>>

(* create_operation commits the row before anything else; on a database    *)
(* error the request goes on without one.  create_backend_backup has       *)
(* committed its own "running" row by then.                                *)
Request(o) ==
    /\ pc[o] = IF o \in UiOps THEN "admitted" ELSE "idle"
    /\ Running(o)
    /\ \/ rec' = [rec EXCEPT ![o] = "queued"]
       \/ DbErrors /\ rec' = rec
    /\ work' = [work EXCEPT ![o] = IF o \in BackupOps THEN "running" ELSE @]
    /\ Goto(o, IF o \in DeferredOps THEN "announcing" ELSE "requested")
    /\ UNCHANGED <<verdict, task, level, depth, late, holder, hostVars>>

(* A UI task that keeps the row to itself marks it running at once.        *)
Announce(o) ==
    /\ pc[o] = "announcing" /\ Running(o)
    /\ Write(o, "running")
    /\ Goto(o, "requested")
    /\ UNCHANGED <<verdict, task, level, depth, work, late, holder, hostVars>>

(* _active_update_run_blocker before the lock and again after a busy lock. *)
SeeUpdate(o) ==
    /\ pc[o] \in {"requested", "busy"} /\ o \notin UpdateOps
    /\ Running(o)
    /\ verdict' = [verdict EXCEPT ![o] = Refusal(o)]
    /\ Goto(o, "refused")
    /\ UNCHANGED <<rec, task, level, depth, work, late, holder, hostVars>>

SeeNoUpdate(o) ==
    /\ pc[o] \in {"requested", "busy"} /\ o \notin UpdateOps
    /\ Running(o)
    /\ IF pc[o] = "requested"
       THEN Goto(o, "checked") /\ verdict' = verdict
       ELSE Goto(o, "refused") /\ verdict' = [verdict EXCEPT ![o] = "failed"]
    /\ UNCHANGED <<rec, task, level, depth, work, late, holder, hostVars>>

AtLock(o) ==
    /\ pc[o] = IF o \in UpdateOps THEN "requested" ELSE "checked"
    /\ Running(o)

(* Mutant: the flock is shared (LOCK_SH).                                   *)
AcquireShared(o) ==
    /\ AtLock(o)
    /\ holder' = o
    /\ depth' = [depth EXCEPT ![o] = 1] /\ level' = [level EXCEPT ![o] = 1]
    /\ Goto(o, "entered")
    /\ UNCHANGED <<rec, verdict, task, work, late, hostVars>>

Acquire(o) ==
    /\ AtLock(o) /\ holder = NoOne
    /\ holder' = o
    /\ depth' = [depth EXCEPT ![o] = 1]
    /\ level' = [level EXCEPT ![o] = 1]
    /\ Goto(o, "entered")
    /\ UNCHANGED <<rec, verdict, task, work, late, hostVars>>

Busy(o) ==
    /\ AtLock(o) /\ holder # NoOne
    /\ IF o \in UpdateOps
       THEN Goto(o, "refused") /\ verdict' = [verdict EXCEPT ![o] = "failed"]
       ELSE Goto(o, "busy") /\ verdict' = verdict
    /\ UNCHANGED <<rec, task, level, depth, work, late, holder, hostVars>>

(* Cancellation while the handler awaits, before it has the lock.          *)
Abort(o) ==
    /\ pc[o] \in {"requested", "busy"} /\ Running(o)
    /\ verdict' = [verdict EXCEPT ![o] = "cancelled"]
    /\ Goto(o, "refused")
    /\ UNCHANGED <<rec, task, level, depth, work, late, holder, hostVars>>

(* The outcome of a refused request, or of one whose caller reports it     *)
(* after the section: complete() by the task that owns the row.            *)
Report(o) ==
    /\ pc[o] \in {"refused", "reporting"} /\ Running(o)
    /\ Write(o, verdict[o])
    /\ work' = [work EXCEPT ![o] =
                  IF @ = "running" /\ verdict[o] = "failed" THEN "error" ELSE @]
    /\ verdict' = [verdict EXCEPT ![o] = "none"]
    /\ Goto(o, "done")
    /\ UNCHANGED <<task, level, depth, late, holder, hostVars>>

-----------------------------------------------------------------------------
(* A nested host_mutation_operation of the same task: no update check and  *)
(* no lock, one more level.  It may share its caller's row (no row of its  *)
(* own) or keep one.                                                       *)
EnterNested(c, o) ==
    /\ c \in Ops \ (UiOps \cup UpdateOps \cup DeferredOps \cup BackupOps \cup CallerOps)
    /\ pc[c] = "idle" /\ c # o /\ (c \in ServerOps <=> o \in ServerOps)
    /\ pc[o] = "section" /\ o \notin UpdateOps /\ Current(o) /\ Running(o)
    /\ task' = [task EXCEPT ![c] = task[o]]
    /\ level' = [level EXCEPT ![c] = depth[task[o]] + 1]
    /\ depth' = [depth EXCEPT ![task[o]] = @ + 1]
    /\ \E status \in {"none", "queued"} : rec' = [rec EXCEPT ![c] = status]
    /\ Goto(c, "entered")
    /\ UNCHANGED <<verdict, work, late, holder, hostVars>>

(* operation.update(status="running"): one attempt that never waits for    *)
(* the caller's own write transaction.                                     *)
MarkRunning(o) ==
    /\ pc[o] = "entered" /\ Current(o) /\ Running(o)
    /\ IF o \in DeferredOps THEN rec' = rec ELSE Write(o, "running")
    /\ Goto(o, "section")
    /\ UNCHANGED <<verdict, task, level, depth, work, late, holder, hostVars>>

(* The linked row of a backup commits before the operation row is          *)
(* completed.                                                              *)
CommitWork(o) ==
    /\ o \in BackupOps
    /\ pc[o] = "section" /\ Current(o) /\ Running(o)
    /\ work[o] # "success"
    /\ work' = [work EXCEPT ![o] = "success"]
    /\ UNCHANGED <<pc, rec, verdict, task, level, depth, late, holder, hostVars>>

(* A worker thread schedules a progress update on the loop; the update     *)
(* loads the row and sets it to running whenever the loop gets to it.      *)
ScheduleProgress(o) ==
    /\ LateProgress /\ o \in DeferredOps /\ ~late[o]
    /\ pc[o] = "section" /\ Running(o) /\ Recorded(o)
    /\ late' = [late EXCEPT ![o] = TRUE]
    /\ UNCHANGED <<pc, rec, verdict, task, level, depth, work, holder, hostVars>>

ProgressLands(o) ==
    /\ late[o] /\ Running(o)
    /\ late' = [late EXCEPT ![o] = FALSE]
    /\ Write(o, "running")
    /\ UNCHANGED <<pc, verdict, task, level, depth, work, holder, hostVars>>

LeftToCaller(o, outcome) == o \in CallerOps /\ outcome = "success"

(* Mutant: an exception leaves the section without completing the row.     *)
FinishSilently(o, outcome) ==
    /\ pc[o] \in {"entered", "section"} /\ Current(o) /\ Running(o)
    /\ verdict' = [verdict EXCEPT ![o] = outcome]
    /\ rec' = IF outcome = "success" THEN [rec EXCEPT ![o] = outcome] ELSE rec
    /\ Goto(o, "leaving")
    /\ UNCHANGED <<task, level, depth, work, late, holder, hostVars>>

(* The body returned, completed its handle, raised or was cancelled; the   *)
(* row is completed while the lock is still held.  A deferred handle only  *)
(* remembers the outcome; so does an apply that leaves the commit to its   *)
(* caller, whose write transaction keeps its own last update out.  A       *)
(* backup succeeds once its row says so.                                   *)
Finish(o, outcome) ==
    /\ pc[o] \in {"entered", "section"} /\ Current(o) /\ Running(o)
    /\ pc[o] = "entered" => outcome \in {"failed", "cancelled"}
    /\ o \in BackupOps => (outcome = "success" <=> work[o] = "success")
                         \/ outcome = "cancelled"
    /\ verdict' = [verdict EXCEPT ![o] = outcome]
    /\ IF o \in DeferredOps \/ LeftToCaller(o, outcome) THEN rec' = rec
                                                        ELSE Write(o, outcome)
    /\ Goto(o, "leaving")
    /\ UNCHANGED <<task, level, depth, work, late, holder, hostVars>>

(* Mutants: every section drops the lock; none does.                       *)
LeaveWith(o, who) ==
    /\ pc[o] = "leaving" /\ Current(o) /\ Running(o)
    /\ depth' = [depth EXCEPT ![task[o]] = level[o] - 1]
    /\ holder' = who
    /\ verdict' = [verdict EXCEPT ![o] = "none"]
    /\ Goto(o, "done")
    /\ UNCHANGED <<rec, task, level, work, late, hostVars>>
LeaveUnlocks(o) == LeaveWith(o, NoOne)
LeaveLocked(o) == LeaveWith(o, holder)

AfterSection(o) == IF o \in CallerOps THEN "committing" ELSE "reporting"

(* finally: _LOCK_DEPTH is reset to the value before this section, and the *)
(* section that took the lock drops it.  A failed backup then marks its    *)
(* own row; a caller has yet to commit what was applied.                   *)
Leave(o) ==
    /\ pc[o] = "leaving" /\ Current(o) /\ Running(o)
    /\ depth' = [depth EXCEPT ![task[o]] = level[o] - 1]
    /\ holder' = IF level[o] = 1 THEN NoOne ELSE holder
    /\ work' = [work EXCEPT ![o] =
                  IF o \in BackupOps /\ verdict[o] = "failed" THEN "error" ELSE @]
    /\ IF o \in DeferredOps \/ LeftToCaller(o, verdict[o])
       THEN Goto(o, AfterSection(o)) /\ verdict' = verdict
       ELSE Goto(o, "done") /\ verdict' = [verdict EXCEPT ![o] = "none"]
    /\ UNCHANGED <<rec, task, level, late, hostVars>>

(* The caller commits its session, without the lock, or cannot; a cleanup  *)
(* that has read the row before does not see the commit.                   *)
CallerCommits(o) ==
    /\ pc[o] = "committing" /\ Running(o)
    /\ \/ /\ work' = [work EXCEPT ![o] = IF o \in AutoSizeOps THEN "success" ELSE @]
          /\ seen' = [seen EXCEPT ![o] = IF @ \in Active THEN "missed" ELSE @]
          /\ verdict' = verdict
       \/ /\ DbErrors /\ verdict' = [verdict EXCEPT ![o] = "partial"]
          /\ UNCHANGED <<work, seen>>
    /\ Goto(o, "reporting")
    /\ UNCHANGED <<rec, task, level, depth, late, holder, server, cleaner, attempts, restarts>>

-----------------------------------------------------------------------------
(* The death of a process ends its handlers where they are, its pending    *)
(* updates with them, and the kernel drops its flock.                      *)
Kill(dying) ==
    /\ pc' = [o \in Ops |-> IF o \in dying /\ pc[o] \in Live THEN "dead" ELSE pc[o]]
    /\ verdict' = [o \in Ops |-> IF o \in dying THEN "none" ELSE verdict[o]]
    /\ late' = [o \in Ops |-> late[o] /\ o \notin dying]
    /\ depth' = [o \in Ops |-> IF o \in dying THEN 0 ELSE depth[o]]

CrashProcess(t) ==
    /\ t \in Ops \ ServerOps /\ task[t] = t /\ pc[t] \in Live
    /\ Kill({o \in Ops \ ServerOps : task[o] = t})
    /\ holder' = IF holder = t THEN NoOne ELSE holder
    /\ UNCHANGED <<rec, task, level, work, hostVars>>

CrashServer ==
    /\ server # "down" /\ restarts < MaxRestarts
    /\ restarts' = restarts + 1
    /\ server' = "down" /\ cleaner' = "off" /\ attempts' = 0
    /\ seen' = [o \in Ops |-> "none"]
    /\ Kill(ServerOps)
    /\ holder' = IF holder \in ServerOps \cup {Cleaner} THEN NoOne ELSE holder
    /\ UNCHANGED <<rec, task, level, work>>

(* systemd restarts cnc-admin (Restart=always).                            *)
StartServer ==
    /\ server = "down"
    /\ server' = "starting" /\ cleaner' = "try"
    /\ UNCHANGED <<opVars, holder, seen, attempts, restarts>>

-----------------------------------------------------------------------------
(* Mutants: the cleanup does not take the lock; it is not retried.         *)
CleanupUnlocked ==
    /\ cleaner = "try" /\ LoopFree
    /\ cleaner' = "holding"
    /\ UNCHANGED <<opVars, holder, server, seen, attempts, restarts>>

CleanupGivesUp ==
    /\ cleaner = "try" /\ LoopFree /\ holder # NoOne
    /\ server' = "serving" /\ cleaner' = "done"
    /\ UNCHANGED <<opVars, holder, seen, attempts, restarts>>

(* _run_interrupted_cleanup_if_unlocked, first inline in the lifespan and  *)
(* then from the retry task.                                               *)
CleanupLock ==
    /\ cleaner = "try" /\ LoopFree /\ holder = NoOne
    /\ holder' = Cleaner /\ cleaner' = "holding"
    /\ UNCHANGED <<opVars, server, seen, attempts, restarts>>

(* An attempt that did not complete: serve, and try again 720 times.       *)
Defer ==
    /\ server' = "serving"
    /\ attempts' = IF server = "serving" THEN attempts + 1 ELSE attempts
    /\ cleaner' = IF attempts' < MaxAttempts THEN "waiting" ELSE "abandoned"

CleanupBusy ==
    /\ cleaner = "try" /\ LoopFree /\ holder # NoOne
    /\ Defer
    /\ UNCHANGED <<opVars, holder, seen, restarts>>

CleanupRetry ==
    /\ cleaner = "waiting"
    /\ cleaner' = "try"
    /\ UNCHANGED <<opVars, holder, server, seen, attempts, restarts>>

(* A database error ends the sweep where it is, its transaction undone.    *)
SweepError == DbErrors /\ cleaner' = "failing" /\ UNCHANGED <<rec, work, seen>>

SweepFrame == UNCHANGED <<pc, verdict, task, level, depth, late, holder, server,
                          attempts, restarts>>

(* fail_interrupted_operations: select the active rows; a running          *)
(* auto-size or backup with a committed successful row has succeeded ...   *)
Judged(o) ==
    IF /\ o \in BackupOps \cup AutoSizeOps
       /\ rec[o] = "running" /\ work[o] = "success"
    THEN "recovered" ELSE rec[o]

SweepRead ==
    /\ cleaner = "holding" /\ LoopFree
    /\ \/ /\ seen' = [o \in Ops |-> IF rec[o] \in Active THEN Judged(o) ELSE "none"]
          /\ cleaner' = "read" /\ UNCHANGED <<rec, work>>
       \/ SweepError
    /\ SweepFrame

(* Mutant: no recovery from the committed row.                             *)
SweepOutcomeFailed(o) == "failed"

(* ... every other row was interrupted ...                                 *)
SweepOutcome(o) == IF seen[o] = "recovered" THEN "success" ELSE "failed"

(* ... and commit them together, over what was written since.              *)
SweepCommit ==
    /\ cleaner = "read" /\ LoopFree
    /\ \/ /\ rec' = [o \in Ops |-> IF seen[o] # "none" THEN SweepOutcome(o) ELSE rec[o]]
          /\ cleaner' = "swept" /\ UNCHANGED <<work, seen>>
       \/ SweepError
    /\ SweepFrame

(* fail_interrupted_backend_backups: every running backup row is an error. *)
SweepWork ==
    /\ cleaner = "swept" /\ LoopFree
    /\ \/ /\ work' = [o \in Ops |-> IF work[o] = "running" THEN "error" ELSE work[o]]
          /\ cleaner' = "ending" /\ UNCHANGED <<rec, seen>>
       \/ SweepError
    /\ SweepFrame

CleanupRelease ==
    /\ cleaner \in {"ending", "failing"} /\ LoopFree
    /\ holder' = NoOne
    /\ seen' = [o \in Ops |-> "none"]
    /\ IF cleaner = "failing"
       THEN Defer
       ELSE server' = "serving" /\ cleaner' = "done" /\ attempts' = attempts
    /\ UNCHANGED <<opVars, restarts>>

-----------------------------------------------------------------------------
Step(o) ==
    \/ GateBlocked(o) \/ Probe(o) \/ ProbeRelease(o)
    \/ Request(o) \/ Announce(o) \/ SeeUpdate(o) \/ SeeNoUpdate(o)
    \/ Acquire(o) \/ Busy(o) \/ Abort(o) \/ Report(o)
    \/ \E c \in Ops : EnterNested(c, o)
    \/ MarkRunning(o) \/ CommitWork(o)
    \/ ScheduleProgress(o) \/ ProgressLands(o)
    \/ \E outcome \in Terminal \ {"partial"} : Finish(o, outcome)
    \/ Leave(o) \/ CallerCommits(o)

CleanupStep ==
    \/ CleanupLock \/ CleanupBusy \/ CleanupRetry \/ SweepRead \/ SweepCommit
    \/ SweepWork \/ CleanupRelease

Next ==
    \/ \E o \in Ops : Step(o) \/ CrashProcess(o)
    \/ CrashServer \/ StartServer
    \/ CleanupStep

Spec == Init /\ [][Next]_vars

(* systemd restarts the server, its tasks are scheduled, and every command *)
(* a handler awaits has a timeout: a handler that is past its request      *)
(* finishes or dies.  New requests are never owed.                         *)
Drive(o) ==
    \/ ProbeRelease(o) \/ (pc[o] = "admitted" /\ Request(o)) \/ Announce(o)
    \/ SeeNoUpdate(o) \/ Acquire(o) \/ Busy(o) \/ Report(o)
    \/ MarkRunning(o) \/ CommitWork(o) \/ Leave(o) \/ CallerCommits(o)
    \/ Finish(o, "success") \/ Finish(o, "failed")

Fairness ==
    /\ WF_vars(StartServer)
    /\ WF_vars(CleanupLock \/ CleanupBusy \/ CleanupRetry \/ SweepRead
               \/ SweepCommit \/ SweepWork \/ CleanupRelease)
    /\ \A o \in Ops : WF_vars(Drive(o)) /\ WF_vars(ProgressLands(o))

FairSpec == Spec /\ Fairness

-----------------------------------------------------------------------------
TypeOK ==
    /\ pc \in [Ops -> Live \cup {"idle", "done", "dead"}]
    /\ rec \in [Ops -> Active \cup Terminal \cup {"none"}]
    /\ verdict \in [Ops -> Terminal \cup {"none"}]
    /\ task \in [Ops -> Ops] /\ level \in [Ops -> Nat] /\ depth \in [Ops -> Nat]
    /\ work \in [Ops -> {"none", "running", "success", "error"}]
    /\ late \in [Ops -> BOOLEAN]
    /\ holder \in Ops \cup {NoOne, Cleaner}
    /\ server \in {"down", "starting", "serving"}
    /\ cleaner \in Sweeping \cup {"off", "try", "waiting", "done", "abandoned"}
    /\ seen \in [Ops -> Active \cup {"none", "recovered", "missed"}]
    /\ attempts \in Nat /\ restarts \in Nat

-----------------------------------------------------------------------------
(* One change of the host at a time: every open section belongs to the     *)
(* task that holds the flock, nested or not, and none is open while the    *)
(* cleanup sweeps (host_mutation_operation, _LOCK_DEPTH).                  *)
HostExclusion ==
    \A o \in Ops : pc[o] \in Inside =>
        /\ holder = task[o]
        /\ cleaner \notin Sweeping
        /\ \A p \in Ops : pc[p] \in Inside => task[p] = task[o]

(* A row that says "running" names an open section, a dead process, a      *)
(* handler whose terminal write the database dropped, or an apply whose    *)
(* caller has yet to report it: any other operation is completed before    *)
(* its lock is dropped, and the sweep never leaves one.                    *)
RunningIsHeld ==
    \A o \in Ops \ DeferredOps :
        rec[o] = "running" =>
            \/ pc[o] \in Inside /\ holder = task[o]
            \/ pc[o] = "dead"
            \/ DbErrors /\ pc[o] = "done"
            \/ o \in CallerOps /\ pc[o] \in {"committing", "reporting"}

(* The outcome recorded of an operation stands: neither a sweep that read  *)
(* its row earlier nor anyone else rewrites it (the cleanup reads and      *)
(* writes under the lock).  But for those that leave it to their callers,  *)
(* which hold no lock: a sweep may settle the row first and the caller     *)
(* rewrites it, or the caller settles it and a sweep that had read it.     *)
OutcomeStands ==
    [][\A o \in Ops \ DeferredOps :
        /\ level[o] > 0 /\ rec[o] \in Terminal
        /\ pc[o] \in {"leaving", "committing", "reporting", "done", "dead"}
        => \/ rec'[o] = rec[o]
           \/ o \in CallerOps /\ (pc[o] = "reporting" \/ seen[o] # "none")]_vars

(* A killed backup or auto-size run whose result is committed is settled   *)
(* as a success, and one whose result is not as an interruption, whenever  *)
(* its row had been marked running (_operation_has_successful_backup,      *)
(* ..._apply_run), unless its caller committed after the sweep had looked. *)
CommittedWorkIsRecovered ==
    [][\A o \in BackupOps \cup AutoSizeOps :
        pc[o] = "dead" /\ rec[o] = "running" /\ rec'[o] # rec[o] /\ seen[o] # "missed"
            => rec'[o] = IF work[o] = "success" THEN "success" ELSE "failed"]_vars

(* Every row of a server process that died is settled by a later start,    *)
(* unless the deferred cleanup ran out of attempts; and the lock this      *)
(* waits for always comes back, whoever crashed while holding it.          *)
InterruptedIsSettled ==
    /\ \A o \in ServerOps :
           []<>(pc[o] = "dead" /\ rec[o] \in Active => cleaner = "abandoned")
    /\ []<>(holder = NoOne)

(* The flock, the depths, the probes and the crashes together keep the     *)
(* promise of HostSection: a probe has the lock but never the host.        *)
Section == INSTANCE HostSection
             WITH owner <- IF holder \in Ops /\ pc[holder] = "probing"
                           THEN NoOne ELSE holder,
                  open <- {o \in Ops : pc[o] \in Inside},
                  over <- {o \in Ops : pc[o] \in {"refused", "committing", "reporting",
                                                   "done", "dead"}},
                  Sweeper <- Cleaner

SectionSpec == Section!Spec

-----------------------------------------------------------------------------
(* Why they hold: the lock has one holder, which is probing, sweeping or   *)
(* the outermost section of its task; _LOCK_DEPTH counts the open sections *)
(* of that task, each of which entered at a level of its own.              *)
Outside == (Waiting \ {"committing", "reporting"}) \cup {"idle", "probing"}

LockInv ==
    /\ \A o \in Ops : pc[o] = "probing" => holder = o /\ o \in UiOps
    /\ holder \in Ops =>
        \/ pc[holder] = "probing"
        \/ pc[holder] \in Inside /\ task[holder] = holder /\ level[holder] = 1
    /\ \A o \in Ops : pc[o] \in Inside =>
        /\ holder = task[o] /\ pc[holder] \in Inside
        /\ level[o] >= 1 /\ level[o] <= depth[task[o]]
    /\ \A o, p \in Ops :
        o # p /\ pc[o] \in Inside /\ pc[p] \in Inside => level[o] # level[p]
    /\ \A o \in Ops : task[o] \in ServerOps <=> o \in ServerOps
    /\ \A o \in Ops : pc[o] \in Outside => task[o] = o /\ level[o] = 0
    /\ cleaner \in Sweeping => holder = Cleaner

(* Rows follow their handlers: only an entered request is marked running,  *)
(* a leaving one has been completed or will be by its caller, what the     *)
(* cleanup read of a section that is over is still so when it commits, the *)
(* row of a dead request it read as queued is not marked running by a late *)
(* update, it takes for recovered what has a committed result, and before  *)
(* its request an operation has none.                                      *)
RecordInv ==
    /\ \A o \in Ops :
        /\ late[o] \/ pc[o] = "announcing" => o \in DeferredOps
        /\ pc[o] = "committing" => o \in CallerOps
        /\ pc[o] = "reporting" => o \in DeferredOps \cup CallerOps
        /\ pc[o] = "dead" => ~late[o]
        /\ pc[o] \in {"idle", "probing", "admitted"} => work[o] = "none"
    /\ \A o \in Ops \ DeferredOps :
        pc[o] = "leaving" =>
            rec[o] # "running" \/ DbErrors \/ LeftToCaller(o, verdict[o])
    /\ \A o \in Ops \ (DeferredOps \cup CallerOps) :
        cleaner = "read" /\ seen[o] # "none" /\ level[o] > 0 => rec[o] \in Active
    /\ \A o \in Ops :
        cleaner = "read" /\ seen[o] = "queued" /\ rec[o] = "running"
            => o \in DeferredOps /\ pc[o] # "dead"
    /\ \A o \in BackupOps \cup AutoSizeOps :
        cleaner = "read" =>
            /\ seen[o] = "recovered" => work[o] = "success"
            /\ seen[o] = "running" => work[o] # "success"

(* The inductive invariant of HostMutation.                                *)
IInv == TypeOK /\ LockInv /\ RunningIsHeld /\ RecordInv
=============================================================================
