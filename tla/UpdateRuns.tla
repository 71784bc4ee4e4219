----------------------------- MODULE UpdateRuns -----------------------------
(***************************************************************************)
(* Control-plane updates: app/services/update_service.py.                  *)
(*                                                                         *)
(* run_update(), inside the host-mutation section, commits an UpdateRun    *)
(* row and asks systemd for a transient unit that runs                     *)
(* scripts/update_from_github.sh; nobody waits for it.  What became of the *)
(* unit is found out by whoever needs to know (status polls, the update    *)
(* blocker of operations.py, the next run_update): reconcile_update_run()  *)
(* reads the row and the updater's log, then asks systemctl, then writes   *)
(* the row.  It takes no lock, so its three steps interleave with those of *)
(* other observers, with the launch and with the updater itself.           *)
(***************************************************************************)
EXTENDS Naturals

CONSTANTS
    MaxRuns,            \* rows created
    Observers,          \* tasks that call reconcile_update_run
    Launchers,          \* tasks of run_update, observers themselves
    LookupAttempts,     \* transient_command_retry_attempts
    MaxFaults           \* bound on failed lookups and on process deaths

ASSUME RunsAssumption ==
    /\ MaxRuns \in Nat /\ LookupAttempts \in Nat /\ MaxFaults \in Nat
    /\ Launchers \subseteq Observers

Runs == 1..MaxRuns

VARIABLES
    status,    \* UpdateRun.status
    failures,  \* details.unit_lookup_failure_count of the row
    unit,      \* the transient unit, as systemd has it
    updater,   \* the script it runs
    log,       \* the last terminal marker in its log
    look,      \* what each observer has read so far
    launch,    \* how far each task of run_update is, and with which row
    faults,    \* failed lookups and process deaths so far
    early      \* runs whose unit was shown before its start job had run

rowVars == <<status, failures>>
sysVars == <<unit, updater, log>>
vars    == <<rowVars, sysVars, look, launch, faults, early>>

Pending   == {"queued", "running"}
Settled   == {"success", "error"}
NotLooking == [at |-> "idle", run |-> 0, was |-> "none", log |-> "none",
               fails |-> 0, next |-> "none"]
NotLaunching == [at |-> "idle", run |-> 0]

Init ==
    /\ status = [r \in Runs |-> "none"]
    /\ failures = [r \in Runs |-> 0]
    /\ unit = [r \in Runs |-> "absent"]
    /\ updater = [r \in Runs |-> "none"]
    /\ log = [r \in Runs |-> "none"]
    /\ look = [c \in Observers |-> NotLooking]
    /\ launch = [l \in Launchers |-> NotLaunching]
    /\ faults = 0
    /\ early = {}

-----------------------------------------------------------------------------
(* The updater script and its unit.                                        *)

Installing(r) == updater[r] \in {"installing", "restarted"}

(* The start job of the transient unit runs: the script is executed.       *)
UnitStarts(r) ==
    /\ unit[r] = "enqueued"
    /\ unit' = [unit EXCEPT ![r] = "active"]
    /\ updater' = [updater EXCEPT ![r] = "started"]
    /\ UNCHANGED <<rowVars, log, look, launch, faults, early>>

(* Mutant: the updater does not take update.lock.                          *)
TakeNoLock(r) ==
    /\ updater[r] = "started"
    /\ updater' = [updater EXCEPT ![r] = "installing"]
    /\ UNCHANGED <<rowVars, unit, log, look, launch, faults, early>>

(* acquire_lock: flock -n on update.lock, or "another update is already    *)
(* running".                                                               *)
TakeUpdateLock(r) ==
    /\ updater[r] = "started"
    /\ IF \E s \in Runs : Installing(s)
       THEN /\ updater' = [updater EXCEPT ![r] = "failed"]
            /\ log' = [log EXCEPT ![r] = "error"]
       ELSE updater' = [updater EXCEPT ![r] = "installing"] /\ log' = log
    /\ UNCHANGED <<rowVars, unit, look, launch, faults, early>>

(* The admin process dies: its observers and its launch are forgotten.     *)
Forget(gone) ==
    /\ look' = [c \in Observers |-> IF c \in gone THEN NotLooking ELSE look[c]]
    /\ launch' = [l \in Launchers |-> IF l \in gone THEN NotLaunching ELSE launch[l]]

(* switch_release: the new release is linked, cnc-admin is restarted.      *)
RestartService(r, gone) ==
    /\ updater[r] = "installing"
    /\ updater' = [updater EXCEPT ![r] = "restarted"]
    /\ Forget(gone)
    /\ UNCHANGED <<rowVars, unit, log, faults, early>>

(* main: the last line of the log is "update complete" ...                 *)
UpdaterCompletes(r) ==
    /\ updater[r] = "restarted"
    /\ updater' = [updater EXCEPT ![r] = "completed"]
    /\ log' = [log EXCEPT ![r] = "success"]
    /\ UNCHANGED <<rowVars, unit, look, launch, faults, early>>

(* ... or fail() and the exit trap log an error.                           *)
UpdaterFails(r) ==
    /\ Installing(r)
    /\ updater' = [updater EXCEPT ![r] = "failed"]
    /\ log' = [log EXCEPT ![r] = "error"]
    /\ UNCHANGED <<rowVars, unit, look, launch, faults, early>>

(* RuntimeMaxSec, a signal or the OOM killer ends it without a last line.  *)
UpdaterKilled(r) ==
    /\ updater[r] = "started" \/ Installing(r)
    /\ updater' = [updater EXCEPT ![r] = "gone"]
    /\ unit' = [unit EXCEPT ![r] = "failed"]
    /\ UNCHANGED <<rowVars, log, look, launch, faults, early>>

(* The process exits: a oneshot unit that succeeded is dead and about to   *)
(* be collected, one that failed stays.                                    *)
UnitExits(r) ==
    /\ unit[r] = "active" /\ updater[r] \in {"completed", "failed"}
    /\ unit' = [unit EXCEPT ![r] =
                  IF updater[r] = "completed" THEN "exited" ELSE "failed"]
    /\ UNCHANGED <<rowVars, updater, log, look, launch, faults, early>>

UnitCollected(r) ==
    /\ unit[r] = "exited"
    /\ unit' = [unit EXCEPT ![r] = "absent"]
    /\ UNCHANGED <<rowVars, updater, log, look, launch, faults, early>>

-----------------------------------------------------------------------------
(* reconcile_update_run.                                                   *)

(* The row is loaded, its log is read ...                                  *)
Load(c, r) ==
    look' = [look EXCEPT ![c] =
               [NotLooking EXCEPT !.at = "loaded", !.run = r, !.was = status[r],
                                  !.log = log[r], !.fails = failures[r]]]

LookBegin(c, r) ==
    /\ look[c].at = "idle"
    /\ status[r] \in Pending
    /\ Load(c, r)
    /\ UNCHANGED <<rowVars, sysVars, launch, faults, early>>

(* Mutants: a unit that is gone has succeeded; it is still running.        *)
AbsentIs(outcome, u, seenLog) ==
    CASE u \in {"enqueued", "exited"} -> "success"
      [] u = "absent" -> IF seenLog = "success" THEN "success" ELSE outcome
      [] u = "active" -> "running"
      [] u = "failed" -> "error"
AbsentSucceeded(u, seenLog) == AbsentIs("success", u, seenLog)
AbsentIsRunning(u, seenLog) == AbsentIs("running", u, seenLog)

(* ... systemctl show is awaited; a unit that has finished without a trace *)
(* is judged by the log read before.  systemd-run --no-block does not wait *)
(* for the start job: until it runs the unit is "inactive, dead, success", *)
(* which is what a completed one shows ...                                 *)
NextStatus(u, seenLog) ==
    CASE u = "absent" -> IF seenLog = "success" THEN "success" ELSE "error"
      [] u = "active" -> "running"
      [] u \in {"enqueued", "exited"} -> "success"
      [] u = "failed" -> "error"

LookShow(c) ==
    /\ look[c].at = "loaded"
    /\ look' = [look EXCEPT ![c] =
                  [@ EXCEPT !.at = "shown", !.fails = 0,
                            !.next = NextStatus(unit[look[c].run], look[c].log)]]
    /\ early' = early \cup {r \in Runs : r = look[c].run /\ unit[r] = "enqueued"}
    /\ UNCHANGED <<rowVars, sysVars, launch, faults>>

(* ... or fails: retried a few times, counted in the row unless the last   *)
(* failure is recent ...                                                   *)
LookShowFails(c, retryable, recent) ==
    /\ look[c].at = "loaded" /\ faults < MaxFaults
    /\ faults' = faults + 1
    /\ recent => retryable /\ look[c].fails > 0
    /\ LET count == IF recent THEN look[c].fails ELSE look[c].fails + 1 IN
       look' = [look EXCEPT ![c] =
                  [@ EXCEPT !.at = "shown", !.fails = count,
                            !.next = IF retryable /\ count <= LookupAttempts
                                     THEN "running" ELSE "error"]]
    /\ UNCHANGED <<rowVars, sysVars, launch, early>>

(* ... and the row is written: the details as a whole, the status only if  *)
(* it differs from the one loaded (the ORM updates changed columns); if    *)
(* nothing is new, not at all.                                             *)
RowWritten(c) ==
    LET seen == look[c] IN
    \/ /\ status' = [status EXCEPT ![seen.run] =
                       IF seen.next # seen.was THEN seen.next ELSE @]
       /\ failures' = [failures EXCEPT ![seen.run] = seen.fails]
    \/ /\ seen.next = seen.was /\ seen.fails = 0
       /\ UNCHANGED rowVars

LookWrite(c) ==
    /\ look[c].at = "shown"
    /\ c \in Launchers => launch[c].at # "reconciling"
    /\ RowWritten(c)
    /\ look' = [look EXCEPT ![c] = NotLooking]
    /\ UNCHANGED <<sysVars, launch, faults, early>>

-----------------------------------------------------------------------------
(* run_update, whose section is exclusive (host_mutation_operation).       *)

(* The latest pending row is reconciled first; without one a row is        *)
(* committed at once.                                                      *)
LatestPending(r) ==
    /\ status[r] \in Pending
    /\ \A s \in Runs : s > r => status[s] \notin Pending

Move(l, where, r) == launch' = [launch EXCEPT ![l] = [at |-> where, run |-> r]]

LaunchBegin(l) ==
    /\ launch[l].at = "idle" /\ look[l].at = "idle"
    /\ \/ \E r \in Runs :
            LatestPending(r) /\ Load(l, r) /\ Move(l, "reconciling", r)
       \/ /\ \A r \in Runs : status[r] \notin Pending
          /\ Move(l, "admitted", 0) /\ look' = look
    /\ UNCHANGED <<rowVars, sysVars, faults, early>>

(* "already_pending" if it still is; else on with the launch.              *)
LaunchReconciled(l) ==
    /\ launch[l].at = "reconciling" /\ look[l].at = "shown"
    /\ RowWritten(l)
    /\ look' = [look EXCEPT ![l] = NotLooking]
    /\ IF status'[launch[l].run] \in Pending
       THEN Move(l, "idle", 0) ELSE Move(l, "admitted", 0)
    /\ UNCHANGED <<sysVars, faults, early>>

(* The version check refuses (UpdateRejectedError): nothing is written.    *)
LaunchRejected(l) ==
    /\ launch[l].at = "admitted"
    /\ Move(l, "idle", 0)
    /\ UNCHANGED <<rowVars, sysVars, look, faults, early>>

(* A new row gets the next id.                                             *)
NewRow(r, st) ==
    /\ status[r] = "none" /\ \A s \in Runs : s < r => status[s] # "none"
    /\ status' = [status EXCEPT ![r] = st]

(* The row, with its unit name, is committed as "queued" ...               *)
QueueRow(l) ==
    /\ launch[l].at = "admitted"
    /\ \E r \in Runs : NewRow(r, "queued") /\ Move(l, "queued", r)
    /\ UNCHANGED <<failures, sysVars, look, faults, early>>

(* ... then systemd-run --no-block enqueues the unit ...                   *)
Enqueue(r) == unit' = [unit EXCEPT ![r] = "enqueued"]

LaunchUnit(l) ==
    /\ launch[l].at = "queued"
    /\ Enqueue(launch[l].run)
    /\ Move(l, "idle", 0)
    /\ UNCHANGED <<rowVars, updater, log, look, faults, early>>

(* ... or fails or times out, when systemd may have been asked already ... *)
LaunchBreaks(l) ==
    /\ launch[l].at = "queued"
    /\ Enqueue(launch[l].run) \/ unit' = unit
    /\ Move(l, "broken", launch[l].run)
    /\ UNCHANGED <<rowVars, updater, log, look, faults, early>>

(* ... and once the section is left, the log is replaced and the row is an *)
(* error.                                                                  *)
RecordBroken(l) ==
    /\ launch[l].at = "broken"
    /\ status' = [status EXCEPT ![launch[l].run] = "error"]
    /\ log' = [log EXCEPT ![launch[l].run] = "error"]
    /\ Move(l, "idle", 0)
    /\ UNCHANGED <<failures, unit, updater, look, faults, early>>

(* Mutant: the message "update blocked" ends up as the status.             *)
RecordBlockedStatus(l) ==
    /\ launch[l].at = "idle"
    /\ \E r \in Runs : NewRow(r, "blocked")
    /\ UNCHANGED <<failures, sysVars, look, launch, faults, early>>

(* HostMutationLockError: the refused request leaves a failed row.         *)
RecordBlocked(l) ==
    /\ launch[l].at = "idle"
    /\ \E r \in Runs : NewRow(r, "error")
    /\ UNCHANGED <<failures, sysVars, look, launch, faults, early>>

Restart ==
    /\ faults < MaxFaults /\ faults' = faults + 1
    /\ Forget(Observers)
    /\ UNCHANGED <<rowVars, sysVars, early>>

-----------------------------------------------------------------------------
UpdaterStep(r) ==
    \/ UnitStarts(r) \/ TakeUpdateLock(r)
    \/ RestartService(r, Observers) \/ UpdaterCompletes(r)
    \/ UpdaterFails(r) \/ UpdaterKilled(r) \/ UnitExits(r) \/ UnitCollected(r)

LookStep(c) ==
    \/ \E r \in Runs : LookBegin(c, r)
    \/ LookShow(c)
    \/ \E retryable, recent \in BOOLEAN : LookShowFails(c, retryable, recent)
    \/ LookWrite(c)

(* The section of run_update is the host lock: one task at a time.         *)
SectionFree == \A l \in Launchers : launch[l].at \in {"idle", "broken"}

LaunchStep(l) ==
    \/ (SectionFree /\ LaunchBegin(l)) \/ LaunchReconciled(l) \/ LaunchRejected(l)
    \/ QueueRow(l) \/ LaunchUnit(l) \/ LaunchBreaks(l) \/ RecordBroken(l)
    \/ RecordBlocked(l)

Next ==
    \/ \E r \in Runs : UpdaterStep(r)
    \/ \E c \in Observers : LookStep(c)
    \/ \E l \in Launchers : LaunchStep(l)
    \/ Restart

Spec == Init /\ [][Next]_vars

(* systemd runs its jobs, the script ends (RuntimeMaxSec), commands have   *)
(* timeouts, and the pollers of each row keep coming back (the dashboard   *)
(* and every request that asks for the update blocker).                    *)
Polling(r) == \E c \in Observers : LookBegin(c, r)
Fairness ==
    /\ \A r \in Runs : WF_vars(UpdaterStep(r)) /\ SF_vars(Polling(r))
    /\ \A c \in Observers : WF_vars(LookShow(c)) /\ WF_vars(LookWrite(c))
    /\ \A l \in Launchers : WF_vars(LaunchReconciled(l) \/ LaunchUnit(l) \/ RecordBroken(l))

FairSpec == Spec /\ Fairness

-----------------------------------------------------------------------------
Look == [at : {"idle", "loaded", "shown"}, run : 0..MaxRuns,
         was : Pending \cup {"none"}, log : {"none", "success", "error"},
         fails : Nat, next : {"none", "running", "success", "error"}]
Launch == [at : {"idle", "reconciling", "admitted", "queued", "broken"},
           run : 0..MaxRuns]

TypeOK ==
    /\ status \in [Runs -> Pending \cup Settled \cup {"none"}]
    /\ failures \in [Runs -> Nat] /\ faults \in Nat
    /\ unit \in [Runs -> {"absent", "enqueued", "active", "exited", "failed"}]
    /\ updater \in [Runs -> {"none", "started", "installing", "restarted",
                             "completed", "failed", "gone"}]
    /\ log \in [Runs -> {"none", "success", "error"}]
    /\ look \in [Observers -> Look] /\ launch \in [Launchers -> Launch]
    /\ early \in SUBSET Runs

-----------------------------------------------------------------------------
(* Whoever looked, and however stale their log: a run recorded as          *)
(* successful had logged its completion, unless somebody asked systemd for *)
(* its unit before the start job had run (reconcile_update_run).           *)
SuccessIsTrue ==
    \A r \in Runs : status[r] = "success" => log[r] = "success" \/ r \in early

(* Even if a row is wrongly settled and a second update is launched, one   *)
(* updater at most changes the release (update.lock).                      *)
OneInstaller == \A r, s \in Runs : Installing(r) /\ Installing(s) => r = s

(* No row stays queued or running for ever, even when a stale observer     *)
(* reopens it, the launch dies half-way or the unit vanishes.              *)
PendingIsSettled == \A r \in Runs : []<>(status[r] \notin Pending)

-----------------------------------------------------------------------------
(* Why they hold.  The unit and the script it runs agree, and the log is   *)
(* "success" from the script's completion on.                              *)
Alive == {"started", "installing", "restarted"}
UnitInv ==
    \A r \in Runs :
        /\ unit[r] = "enqueued" => updater[r] = "none"
        /\ unit[r] = "active"   => updater[r] \in Alive \cup {"completed", "failed"}
        /\ unit[r] = "exited"   => updater[r] = "completed"
        /\ unit[r] = "failed"   => updater[r] \in {"failed", "gone"}
        /\ unit[r] = "absent"   => updater[r] \in {"none", "completed"}
        /\ updater[r] = "completed" <=> log[r] = "success"
        /\ status[r] = "none" => unit[r] = "absent" /\ updater[r] = "none"

(* Who saw a completion in the log saw a true one, and who would record a  *)
(* success saw that, or the unit after the completion or before its start. *)
LookInv ==
    \A c \in Observers : look[c].at # "idle" =>
        LET r == look[c].run IN
        /\ r \in Runs /\ status[r] # "none" /\ look[c].was \in Pending
        /\ look[c].log = "success" => log[r] = "success"
        /\ look[c].at = "shown" =>
              /\ look[c].next # "none"
              /\ look[c].next = "success" => log[r] = "success" \/ r \in early

(* One launch is in the section.  The unit of a new row is not there yet,  *)
(* and the server that still has to record a broken launch was not         *)
(* restarted, so that its updater is not done.                             *)
InSection(l) == launch[l].at \in {"reconciling", "admitted", "queued"}
LaunchInv ==
    /\ \A l, m \in Launchers : InSection(l) /\ InSection(m) => l = m
    /\ \A l \in Launchers :
        LET r == launch[l].run IN
        /\ launch[l].at \in {"queued", "broken"} => r \in Runs /\ status[r] # "none"
        /\ launch[l].at = "queued" => unit[r] = "absent" /\ updater[r] = "none"
        /\ launch[l].at = "broken" => updater[r] \notin {"restarted", "completed"}
        /\ launch[l].at = "reconciling" => r \in Runs

(* The inductive invariant of UpdateRuns.                                  *)
IInv == TypeOK /\ SuccessIsTrue /\ OneInstaller /\ UnitInv /\ LookInv /\ LaunchInv

(* The same rows and updaters in any environment: whoever dies takes its   *)
(* looks and its launch along, a restart of the service every launch.      *)
OpenNext ==
    \/ \E r \in Runs :
        \/ UnitStarts(r) \/ TakeUpdateLock(r) \/ UpdaterCompletes(r)
        \/ UpdaterFails(r) \/ UpdaterKilled(r) \/ UnitExits(r) \/ UnitCollected(r)
        \/ \E gone \in SUBSET Observers : Launchers \subseteq gone /\ RestartService(r, gone)
    \/ \E c \in Observers : LookStep(c)
    \/ \E l \in Launchers : LaunchStep(l)
    \/ \E gone \in SUBSET Observers :
        /\ Forget(gone) /\ faults' \in {faults, faults + 1}
        /\ UNCHANGED <<rowVars, sysVars, early>>

OpenSpec == Init /\ [][OpenNext]_vars
=============================================================================
