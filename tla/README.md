# CNC: specifications

CNC is a control plane for a single host (and a small cluster of them): an admin
server (`app/main.py`, FastAPI on one asyncio loop, worker threads for blocking
commands) that keeps *outputs* (apps in Podman containers under systemd),
*inputs* (routes, Tailscale, Cloudflare) and their desired state in SQLite, and
*applies* it to the host. A CLI (`cnc-admin`) and systemd timers run the same
services in processes of their own, against the same database and the same lock
files. This directory models the parts of that system whose correctness
depends on the order in which processes, tasks and crashes interleave.

## Inventory

Each row: what it keeps, what it does, what is hard about it, what makes it correct.

| Component | State | Operations | Hard | Correct when |
|---|---|---|---|---|
| Host-mutation section (`services/operations.py`, `file_locks.py`) | `Operation` rows, a flock, `_LOCK_DEPTH` per task | create, enter, nest, mark running, complete, leave, gate probe | server tasks, CLI and timers race; nesting; crashes anywhere; a row write may be lost | one change of the host at a time; rows tell the truth; the lock returns |
| Startup cleanup (`main.py`, `fail_interrupted_*`) | retry task, attempts | try the lock, sweep, retry 720 times | runs beside live processes | interrupted work is settled, recorded outcomes stand, committed work counts |
| Update runs (`update_service.py`, `scripts/update_from_github.sh`) | `UpdateRun` rows, transient unit, log | launch, reconcile, lookup retries | the updater outlives the section and restarts the server; reconciliation is not locked | a run's status says what its updater did; it is settled in the end |
| Apply convergence (`apply_service.py`, `apply_state.py`, `mutation_apply.py`) | managed directories, slice hashes, `ApplyRun` | plan, write, swap, reload, roll back, commit | the host changes before the transaction commits | a failed apply leaves the old state; the next one converges |
| Guest commands (`command_jobs.py`, `command_job_files.py`, `guest_exec.py`) | `CommandJob` rows, units in guests, reservation, circuit | submit, observe, cancel, purge | delayed observers, unknown outcomes, replaced containers | a terminal row names a command that is over; one command at a time, one per key |
| UI tasks (`ui/operations/*`, `operation_runtime.py`) | progress snapshots, deferred rows | report progress, complete | worker threads write through the loop | a finished operation stays finished |
| Backups and restore (`backend_backup_service.py`) | bundles, `BackendBackup` rows; stage and rollback paths | create, import, prune, delete, sweep; restore with rollback, clone | deletes and prunes outside the section, crash between file and row, a failure on the way back | no successful row without its bundle; a failed restore restores; no data is lost |
| Cluster nodes and transfer (`cluster_nodes.py`, `cluster_transfer.py`) | nodes, join tokens; placements, readiness rows, rollback copies | join, transfer, set up a replica, save a placement | half-done remote steps, lost ssh answers, an apply in the middle | the data are never lost; an output is where it is placed; a failed transfer changes nothing |
| Notification outbox (`notifications.py`, `notification_state.py`) | spooled intents, deliveries, receipts, the dispatch lock | enqueue, join, dispatch, retry, call off | several senders in several processes, crash after send, lost answers | nothing spooled is lost; handed over once per lapse; an emergency can be called off |
| Alerts (`backend_alerts.py`) | an entry per output, the mark of the running check | look, fix, record, tell, mark | overlapping checks replace each other's entries; sends happen outside the transaction | an outage is announced; a recovery is told only of an announced outage |
| Auto-size, Cloudflare sync | last decisions, remote DNS | decide, apply, sync | stale measurements, remote failures | bounds kept; converges |
| Agent channel, shells (`agent_channel.py`) | exec tasks by id, a terminal with two tasks, the guest guard | exec, cancel, open, write, close, idle expiry, disconnect | tasks of one connection cancel each other across awaits; slow readers | a process keeps its guard; every exec is answered once; nothing outlives the channel |
| Hardening runs (`app_hardening.py`, `hardening_mutations.py`) | run rows with ratings, a clone per test | watch, test on a clone, stop, resume, clean up | threads that outlive stops, deaths of the server, a cleanup beside living runs | verdicts come from tests; clones go; every run is settled |
| History, status cache, logger | rows, caches, queues | various | background refreshes and retention | nothing live pruned, bounded |
| Access, routes, forms, renderers, migrations, installer, web client | none that spans requests | parse, render, dispatch | — | not modelled (see below) |

Interaction: everything that changes the host calls `host_mutation_operation()`;
`run_update()` does too, but hands the work to a systemd unit that lives on; the
other mutations ask `_active_update_run_blocker()` for such a run, which reconciles
it on the way. Status requests reconcile the last run as well. `main.py` runs the
cleanup under the same lock before it serves, or later if the lock is busy.

## Modules

| Module | Models |
|---|---|
| `HostSection` | what the section promises: an owner, the open sections that joined it, requests that are over |
| `HostMutation` | the section, its rows, its lock, the cleanup, every process and its crashes |
| `UpdateRuns` | update rows, transient units, the updater, observers and launches |
| `HostControl` | `HostMutation` and `UpdateRuns` composed |
| `CommandJobs` | background commands in the guest of one output |
| `HostApply` | how a changed configuration reaches the host: slices, the record of the last success, rollback, commit |
| `PushoverOutbox` | notices: the spool, the dispatch lock, the provider, emergency receipts |
| `PushoverDelivery` | what the outbox promises: a spooled notice is handed over, refused or called off, never dropped |
| `BackendAlerts` | the alert state of outputs, overlapping checks, what the operator hears |
| `BackupStore` | rows and bundles of backups: made, imported, pruned, deleted, restored, swept |
| `BackupRestore` | the files, the configuration and the host in a restore or clone, and the way back |
| `ClusterTransfer` | one output moved or copied between nodes, its saved placements, and how failures are undone |
| `AgentChannel` | one agent's connection: its loop, its exec tasks, its terminal, and the guest guard they share |
| `Backups` | `BackupStore`, `BackupRestore` (as `R`) and `ClusterTransfer` (as `T`) side by side, for the run and the proofs |
| `HardeningRuns` | the hardening runs of one output, their clones, and the cleanup of interrupted ones |
| `Outputs` | what is done to an output, side by side: `HostApply` and, as `H`, `HardeningRuns` |
| `HostMutation_proofs`, `UpdateRuns_proofs`, `CommandJobs_proofs`, `PushoverOutbox_proofs`, `Backups_proofs`, `AgentChannel_proofs`, `HostControl_proofs`, `Outputs_proofs` | the theorems about these modules and their proofs |
| `MCHostMutation`, `MCHostControl`, `MCObservers`, `MCCommandJobs`, `MCHostApply`, `MCTransfer` | the instances TLC checks |
| `MCOutputs`, `MCNotices`, `MCBackups`, `MCLiveness` | instances of several components, a *scene* each |

A scene is one component at work while the variables of the others keep their
initial values: `scene` is chosen at the start and never changes, so a run with three
scenes is three independent searches of one state graph, and a behaviour of a scene is a
behaviour of that component's own `Spec`. In `MCLiveness` every fairness condition
is a disjunction of one condition per scene, of which only one can ever be enabled.

Definitions introduced as *Mutant* are variants of the definition after them with
a plausible mistake in it. They are part of no specification; each property was
seen to fail when its variant takes the definition's place.

### HostMutation

`pc[o]` follows `host_mutation_operation()` for one request, from the gate of the
UI (`active_host_mutation_blocker`) through `create_operation`, the look for
updates, the non-blocking flock, `update(status="running")`, the body, the
completion of the row while the lock is held, and `finally`. `rec[o]` is the
status of its row (`"none"`: the insert failed and the handle has no id);
`verdict[o]` what the handler is about to record. Nested sections share the
asyncio task, so `_LOCK_DEPTH` (a context variable) is `depth[task[o]]`, and
`level[o]` is the value `_LOCK_DEPTH.set` put there. UI tasks use
`with_deferred_db_updates()`: their section records nothing, the task itself
reports afterwards (`Report`), and progress is written through the loop by a
worker thread (`ScheduleProgress`, `ProgressLands`). A backup commits its own
`BackendBackup` row before the section and in it (`work[o]`). An apply with
`commit_on_success=False` and no handle of its caller's (auto-size, `commit_and_apply()`; `CallerOps`) leaves
its section with the row "running" and nothing committed (`LeftToCaller`); the caller then commits
what was applied, with the `ApplyRun` (`CallerCommits`), and completes the row (`Report`), neither under the lock.
`HostControl` has no such callers (`CallerOps <- {}`); what they commit is in `HostApply`.

The flock is released by the kernel when a process dies (`Kill`): the server
takes all its requests and the cleanup with it, a CLI or timer process its own.
`FileLock` keeps one handle per object, and the event loop runs nothing else
between the flock and the unlock of a gate probe (`LoopFree`), but other
processes do. The cleanup's select and its commit are two steps, its backup
sweep a third, and each of them may fail (`SweepError`).

What is abstracted: kinds and phases of operations beyond the classes in the
constants; progress details; JSON; three attempts of a terminal write are one
write that may fail; the sweep of hardening runs, which is in `HardeningRuns`; the
update blocker, which may answer yes or no at any time (`HostControl` has the
real one). `SQLAlchemyError` is `DbErrors`.

### UpdateRuns

`reconcile_update_run()` takes no lock and awaits `systemctl show` between reading
the row and the log and writing the row, so an observer is a three-step
process with its own copy (`look[c]`). The write sets the status only if it
differs from the loaded one: SQLAlchemy updates changed columns. `run_update()`
is a launch process: reconcile the pending run, refuse or commit a row, ask
systemd, and on failure record it after the section. The unit goes
absent–enqueued–active–exited–absent, or failed; the script takes `update.lock`,
restarts the service, logs its last line. `failures` is the lookup counter in
the details. The launch does not wait for the start job (`--no-block`), and until it has run
the unit looks like one that has succeeded: `LookShow` takes it for that, as the code does.
`early` is a history variable, the runs somebody looked at in that window.

### HostControl

The same variables; `HostMutation` and `UpdateRuns` are instantiated and their
actions conjoined: the update blocker *is* an observer (`BlockerLoads`, `BlockerLooks`,
`BlockerDecides`), the launch runs in the section of an `update_control_plane`
request, and the updater's restart of the service is the crash of the server.

### CommandJobs

One output: its rows, its container, its reservation file, its exec guard and
circuit. A client (an agent socket, a status request, a command line) is a small
process, `task[c]`: `submit_job()` looks for the key, reconciles the active jobs,
takes `submission_guard` (`host`) and `exec-probe.lock` (`guard`), commits the row,
writes the reservation, launches and marks the row; `get_job()` is the
subroutine `Look`–`Inspect`–`Recheck`–`Settle`–`Release`, entered with `LookAt` and
left with `Resume`; `cancel_job()` looks, asks, takes the maintenance lock, looks
again and stops the unit. What `get_job()` read before its awaits is in the task
(`found`, `saw`), what it reads at the write is the state.

`service[j]` is *starting* while the launch script runs in the guest, before the
unit is known to its systemd; *active*, *stopping*; *failed*, which stays loaded;
*gone*, collected. `result[j]` is the file of `ExecStopPost`: a command that
was stopped has service result "success" and no exit code, which is *killed*.
`boot` is the identity of the container (its id and start time); `podman exec` by
id reaches the job's own boot or nothing, on the understanding that systemd makes
a new container whenever it starts one. A client may die anywhere (`Dies`); its
flocks are released, its script goes on in the guest.

Abstracted: one digest per key; retention of guest artifacts (each job has a token of its own, so a
reused row id changes nothing); the errors a submission ends with are `Refused`, which
may always happen, because other operations and probes hold the same locks and
the output may be disabled; logs and truncation. `Glitches` stands for a result that
cannot be written or read and a container that cannot be inspected.

### HostApply

A configuration is one output: a row with a value for every slice (`db`), of which
`build_desired_state()` renders the slices of the host. `live` is what the host
has, `loaded` what nginx runs with, `marker` what `HostApplyState` and the `ApplyRun` it
names say of the last success: the desired state and the slice hashes, empty after a
change of the slice format (`Upgrade`), `NoRun` when it was invalidated. A slice
is skipped when its recorded hash is the desired one; nginx, shield and tailscale
are compared with the host as well (`Checked`), the other slices are not.

A session is a request, a timer or a command line. `task[s].view` are the rows it
loaded, which stay as loaded in that session; `edit` what it will write, columns that
differ from what it loaded. `Deferred` callers go through `commit_and_apply()`, or are
auto-size: `run_apply()` ends with a flush, the host-mutation section ends, and only
then the caller commits (`LeaveToCaller`, `Commit`, `CommitFails`,
`InvalidateDurably`). A flush takes SQLite's write lock (`writer`), which auto-size
puts off until the end (`Ticks`). `SwapFiles` moves the managed proxy files, a rollback
restores them (`RollBack`, `RestoreFiles`, `ReloadRestored`); a failure after any
slice was touched is partial and forgets the marker (`RecordFailure`).

A fault may hit every step: the host's assets or the precheck, a slice, some followers,
the swap, `nginx -t`, a reload (which may have happened nevertheless), the
verification, the record, the commit, the record of the failure. `Interrupted` is a
kill or a cancellation anywhere, with the half-done outcomes of the step it hits.

`past` is history for the properties only: `served`, the proxy files of the last
verified apply; `torn`, the files may be half swapped; `murky`, a reload was left in
doubt; `lapsed`, something happened after which the record may be false although
the code means it to be true: an interruption, the loss of the record of a failure, a
failed reload of restored files, followers reached by an apply that then calls them
unreached, an apply beside one whose transaction was not yet committed, and the first apply after an
upgrade, which takes a runtime to be live unseen. All but interruptions and lost
records are listed under the disagreements. A full apply ends it.

Abstracted: rendering and hashing (a hash is the value); one output, so one value
per slice; `host_base`, which changes with a release only and is reconciled by full applies;
netdata, which behaves like shield; network isolation, part of runtime; retries within a
command; the operation row, which is `HostMutation`'s.

### PushoverOutbox

A worker is one call of `send_pushover_notification_async()` or
`cancel_pushover_emergency_async()`, in the server, a timer or a command line; the
dispatcher is the server's loop over due intents, oldest first, five at a time. Both
send under the dispatch lock, and under it read the intent again (`Read`), because
another holder may have settled it. The state file has a lock of its own, taken for
each reading and writing and given up after two seconds: `EnqueueFails` (the message is
then sent directly), `StateBusy` (after the send: the intent stays and is sent again),
`RecallBusy`. `taken`, `ringing` and `rung` are the provider's side; an answer may be lost
after the provider took the message, which counts as *transient* like a 5xx
or a refused connection; a 4xx is a rejection for good. A process dies with all its workers
and releases the lock (`Dies`).

`PushoverDelivery` is the promise: `DeliverySpec` holds under every interleaving and
fault of the model. It says nothing about order or single delivery; `HandedOnce`
bounds the repetitions by the lapses (`past.lapses`) that can cause them, and
`StaysCancellable` says which receipts may get lost.

Abstracted: texts, priorities other than the emergency's, the recording of the last delivery
for the dashboard (`Note`), the numbers of attempts, which no code reads.

### BackendAlerts

A check takes the mark in the state file with a lease (`Begin`), looks at all outputs,
calls the emergency off unless all are down (`Recall`), fixes those that are down if
auto-fix is on (`Fix`), replaces the whole table (`Record`), sends the notices that are
due and marks what was sent in the table as it is by then (`Mark`). The mark is
given back with `Record`, before the sends: another check may start, and does overlap.
`since` is `first_unhealthy_at`, `waiting` the one time stamp that the next decision
compares (of the last attempt, or of the last notice once notified). The operator hears
what arrives, in any order (`heard`, `alarm`). The outbox is used only through what
`PushoverDelivery` promises.

The grace and retry periods (300 s unless configured otherwise) do not end while a check is at work
(`Ages`); grace 0 and a server without notifications are not covered. Nor are the fixes
of safe maintenance issues that an output which is up has (`backend_alerts.py:271`).

### BackupStore

The rows of one output's backups and the bundles they name. `create_backend_backup()` and
`import_backend_backup_bundle()` commit a row, enter the section, write a temporary
file, rename it and commit the success; a failed one unlinks its bundle (`Discard`)
and then commits the error (`MarkError`). Deleting and pruning take no section: rows first, then
files (`PruneRead`, `PruneRows`, `Unlink`, `DeleteRow`). A restore verifies the bundle
*before* it enters the section (`Verify`, `EnterRestore`). The sweep of a starting server
reads the running rows, marks them errors in one commit, which fails if one of them was deleted
meanwhile, and removes their bundles (`SweepReads`, `SweepRows`, `SweepFiles`).
Command-line workers live on while a server starts.

`past.bare` are successes whose worker died between unlinking and the commit of the error,
`past.litter` files left by a process that died while it removed something or whose row
had gone. Names and paths are the row's number.

### BackupRestore

`_RestoreBundleTransaction`, entry by entry: everything is staged beside its place, over what
an earlier job of the process left there (`Stage`), then each target is moved to its
rollback path and the staged one moved in; the control directory is written, the
output started, the host converged, the rows committed (`Commit`), the rollback copies
dropped (`Settle`). Any step may fail (`Fails`, `MoveInFails`; `ConvergeFails` leaves the host as it
was, as the bundle says, or with slices of both): a swap that fails
half-way moves its own target back at once (`MoveBack`). Then comes `rollback()`: it reverses the swaps last to
first (`Reverse`) and removes what was staged (`Tidy`). `apply()` calls it on a failure of its own, and the
exception handler once more after it has stopped the output (`StopAgain`); then it rewrites the control
directory and starts the output again (`Rewrite`). Each of these may fail (`MoveBackFails`, `ReverseFails`,
`TidyFails`, `RewriteFails`). `rollback()` empties its lists only at its end, so after a failure in
`apply()`'s own call the handler's goes through all of them again: `job.swapped` is the list, `job.left` what
the call at work has not come to. `Dies` leaves everything where it is; another process has other stage and rollback
paths. `Versions` name what a job brought; a directory whose removal was cut short is `Torn`.
`clone` is an output that comes into being with its first job.

### ClusterTransfer

One output, its guests on the leader and the followers (`guest`: none, a fresh one, or
the data after some writes; `up`), its placement, as columns, and its readiness rows as committed, and
what the last recorded apply placed (`applied`, by which the next one knows what it lost). A job is
`transfer_backend()`, `setup_backend_replica()` (clone or fresh) or a saved placement; each
runs in the host-mutation section, so there is one at a time, and a placement form that was
submitted meanwhile waits (`Ask`, `BeginPlacement`) or is refused (`FormRefused`). A saved placement
is applied in the section (`PlacementApplied`), but committed by its caller when the section is over
(`Save`, `SaveFails`): until then it is flushed, which keeps other writers of the database out
(`Writable`), and another job may begin with the old columns. A session writes the columns it changed
(`Changed`, `Merged`). Failover and live are one mode, `again` is a form that writes the mode or the
order of the nodes besides, and one form is open at a time.

`Begin` archives the source and asks whether the target runs; a command that fails or is not answered
in time says that it does not (`heard`). On a follower one remote script stops, puts aside, moves in and
starts (`RestoreRemote`); it fails and restores by itself, before the move or after it
(`RemoteFails`), or its answer is lost (`RemoteUnheard`; a script whose ssh connection ends is taken
to complete). On the leader these are steps of the server (`RestoreLocalAway`, `RestoreLocalIn`,
`StartLocal`). Then the TCP check (`Verify`) and, for a transfer, the whole `run_apply`: it wants
healthy followers with rows (`Validate`), reconciles the containers of the leader, which removes the
guest of an output that is no longer local (`Reconcile`), writes the ingress and, for a transfer,
commits placement and row together (`ApplyCommits`). What was put aside is dropped (`Discard`), the followers
that were left are cleaned up and their rows deleted (`CleanUp`, `DeleteRows`).

`_restore_target_rollback` (`Undo`) runs after a failed start or verification of a transfer. After
`session.rollback()`, that is for every setup and for a transfer whose apply failed, the
output it is given is expired, and reading its name raises before anything is undone
(`UndoExpired`). `Dies` is the server's death: what was put aside on the leader becomes a
`stray` directory.

`past` is history: the data a transfer set out to move (`moved`), the target as it was (`guest`,
`up`) and whether that was heard (`unseen`), whether the failure is one that is not undone (`excused`), and followers with a row but
without a guest because nobody learned or recorded the end of a cleanup or an undo (`hollow`).

Abstracted: the apply is its phases (its own failures are `HostApply`'s), contract hashes, which
node statuses besides *joining* exclude a follower, the contents of archives, ports.

### AgentChannel

`loop` is the receive loop of `run_agent_channel()`: it receives, or awaits a cancelled task, the
announcement or the end of a terminal, or a write to it; after a disconnect it runs its `finally`
(`CancelAll`, `CloseLast`). `exec[i]` is the task of an exec frame: created, the guard taken
or not (`ExecBegins`), start frame and process (`ExecStarts`, `StartFails`), killed after its timeout,
telling the agent (`Tell`; a slow agent keeps the sender in the send, `draining`), over, and
unregistered by its callback (`Popped`). `Cancelled(i)` is what `task.cancel()` makes of each of
these. A frame without a usable command ends its task without a word (`ExecMalformed`).
A task that was cancelled before its first step, or while it sent a refusal, says nothing; the
loop then does (`CancelReturns`), by `terminal_exec_ids` (`final`).

`shell[s]` is a `PtySession`: its process, `closed`, its descriptor, its pump and its waiter.
`_shutdown()` is entered by the loop (`LoopCloses`) or by the idle pump (`PumpExpires`); up to
its wait for the process it is one step, which cancels the pump, and one that is itself in `_shutdown`
then lets go of everything (`ClosingUnpumped`). The waiter goes on when the process is over.
All of this is about a server that lives: the kernel drops the flock of one that dies.

`past.cut` are execs cancelled while their exit frame drained, `past.malformed` those that had no command,
`past.torn` terminals whose idle pump was cancelled. The process of an exec is the `podman exec` client: a
cancellation signals that client, opens no circuit, and says nothing of what it leaves running in the guest. Abstracted: output frames, resizing, the circuit (one more way to be refused),
a write that does not have to wait, frames that change nothing. Background execs and
operation frames are calls of `CommandJobs`.

### HardeningRuns

`row[r]`, `phase[r]`, `rated[r]` are the row of a run as committed; `stop` and `restart` what its
details and its error say (asked to stop; interrupted by a restart, hence resumable). `work[r]` is
the thread of the server that runs it, with its own copy of the ratings (`mine`), the status it read
before its last commit (`saw`) and whether it was given a clone (`has`). A request looks
whether there is a phase 1, an active phase 2 and one to resume (`AskPhase2`), and creates its row in a
later step (`StartPhase2`). Phase 1 looks for a cancellation when it starts and again at its end; phase 2
only between settings (`Check`) and at its end. `Clones` takes the host-mutation lock, which is not waited
for (`LockBusy`); the clone is on the host before its row is committed, and a call that fails may
leave a row nobody is told of (`CloneFails`). What ends a run (`Finish`, `Cancel`, `Fail`) commits its
status; then the clone's container, network and directories are removed, and its row if that worked.
Each of these commits may fail. The first one of a thread is outside of any try (`BeginFails`), as is the
success of a phase 2 that was left nothing to test; another success that is lost becomes a failure
(`FinishFails`); a handler that cannot write its status leaves the row as it is (`HandlerFails`).

The cleanup (`Cleanup...`) is `fail_interrupted_hardening_runs()` as part of the interrupted cleanup: under
the lock it reads the active rows and their clones, marks the runs in one commit, removes the clones, and
deletes their rows in another. It runs before the server serves, or, when the lock was busy or it failed,
in attempts beside it. `Dies` ends the threads; nothing else stops one.

`past` is history: `taken`, runs that the cleanup took while their thread lived, and those that
resumed them; `forgotten`, clones whose removal or whose creation failed, or that no active row leads
to any more when their thread has gone; `halfway`, guests of a copy that a death cut short; `stranded`,
runs whose threads ended while their rows were queued or running, until the server is restarted.

Abstracted: evidence and ratings but for "skipped, tested, without a clone" (a test without a clone cannot
start a container and calls the setting unsafe or uncertain: `blind`), clone names
(`hardening-<output>-<run>` is taken to name the run), ports, the host-mutation section, which is
`HostMutation`'s and here a lock that others may have.

## Runs

| Run | Bounds | Shows |
|---|---|---|
| `host_sections` | 3 requests (UI backup, server apply, auto-size timer), 1 crash, 1 retry | the invariant `IInv`, `HostExclusion`, `OutcomeStands`, `CommittedWorkIsRecovered`, that `HostSection` is implemented, and, fair, `InterruptedIsSettled` |
| `observers` | 2 update runs, 2 observers, 2 faults, or looks at units before their start (`OneKindOfMishap`) | `SuccessIsTrue`, `OneInstaller` |
| `host_update` | a timer that defers, an update, a poller, 1 crash, 1 fault, or a look at a unit before its start (`OneMishap`) | `HostMutationSpec` (the composition implements `HostMutation`), `LaunchFindsHostIdle` |
| `command_jobs` | 2 clients, 2 keys, 2 jobs; 1 death, 1 stop of the container, an open circuit, lost results and unreadable answers as long as there is one job, which is also the one that is cancelled (`CalmWithSecond`) | `OneCommandAtATime`, `OutcomeIsTrue`, `ObserversKeepOutcomes` |
| `outputs` | apply: a request, a tick, a plain apply; 3 slices, 2 values, two of 2 faults, 1 interruption, 1 upgrade (`TwoMishaps`); hardening: a phase 1, 2 phase 2 runs, 2 settings of which 1 is skipped, 1 retry, 1 crash, 1 fault or section of others, before the third run one of the two (`OneMishapOfThree`) | `MarkerIsTrue`, `SuccessConverges`, `FailureKeepsIngress`; `VerdictsAreTested`, `ClonesAreRemoved` |
| `notices` | outbox: a server request, a timer, the dispatcher, 2 intents of 2 kinds, 1 fault, after which one of the workers meets the dispatcher over both intents (`OneWorkerAfterFault`); alerts: 1 output, 2 checks, 1 lapse | `HandedOnce`, `StaysCancellable`, `DeliverySpec`; `RecoveredIsEarned` |
| `backups` | bundles: a request and a command line, 2 backups, 1 retained, 2 faults; restore: 2 mounts, 2 jobs, 3 faults; transfer: a leader and 2 followers, 2 faults and a write in 1 job, or one of these in 2 jobs (`OneFaultOfTwo`); rows: a UI backup and a timer, any row write may fail, 2 crashes; applies: a request and auto-size, 2 slices, 1 fault, 1 interruption, 1 upgrade | `SuccessHasBundle`, `NoLitter`; `DataSurvivesOneRestore`, `AllOrNothing`; `DataSurvivesTransfer`, `FailedTransferIsUndone`, `PlacedIsThere`; that `IInv` of `HostMutation` needs no row; `IInv` of `HostApply` |
| `liveness` | updates: 1 run, 2 observers, 1 fault; commands: 1 client, 1 job, 1 stop, 1 death; outbox: 1 worker, 1 intent, 1 fault; alerts: 1 output, 1 check, 1 lapse; channel: 2 ids, 2 execs, or 1 exec and 2 terminals (`ServesThree`); hardening: 2 runs, 1 setting, 1 retry, 1 crash, 1 fault | `ScenesTypeOK`; `GuardCoversProcess`, `AnsweredOnce`; `PendingIsSettled`; `ResultIsRecorded`, `CancelSettles`; `IntentsSettle`; `OutageIsAnnounced`; `HangsUp`; `RunsSettle` |
| `update_alone`, `apply_interrupted`, `apply_stale_rows`, `transfer_loses_source` | smallest that shows it | the disagreements below |

Why the bounds suffice: contention for the lock, nesting and a sweep against a
live request each need two requests, a queue behind a nested section three; a
request runs once, so no counter grows with time. The cleanup's 720 attempts are
one, which is enough for "busy, then done" and for "abandoned". Two update runs are
a launch over a run wrongly settled; a third would repeat that. An old job and a new one
are all a reservation can confuse, one stop is all a stale observation can
miss, and the submitter, an observer and a canceller are never more than two at a
point where they matter: the lock excludes the third. Of the apply's slices, runtime is
only known from the record, nginx is compared and rolled back, followers are not
compared and may be missed: the others behave like one of these. Two faults are a failed apply and
a failed way out of it, three sessions an apply after two that overlapped. Two senders and
the dispatcher in two processes are every pair that may send one intent; a second intent is what a
batch, a de-duplication window and a receipt that is replaced need. Two checks overlap,
one output is enough because entries do not depend on each other (the all-down notice, which
needs two, has no property of its own). Two backups with one retained are a
prune of the other one; of two mounts one can be swapped when the other fails; the second
restore meets what the first one left, and three faults are a failed step and two failures
of the way back. Two followers are one that is left and one that is
taken, two jobs a transfer after a form that relied on the old rows or after a job that failed, two faults a failed job and a failed undo
or cleanup. Two ids contend for the guard with each other and with a terminal, one of them used twice is an id used
again, a second terminal one that was opened while the first was ending. Three hardening runs are a watch, a test that is interrupted
and its resumption; of two settings one is skipped and one tested; the one fault is the busy lock that lets
the cleanup run beside a server, or a failure. Clients, request keys, checks and followers are interchangeable, which `SYMMETRY` uses.
`ScenesTypeOK` (in `liveness`) is the inductive invariants of `UpdateRuns`, `CommandJobs`, the outbox, the
channel and the hardening runs, those the proofs below rest on, and the type invariant of the alerts;
`BackupsTypeOK` (in `backups`) the inductive invariants of `BackupStore`, `BackupRestore`, `ClusterTransfer`,
`HostMutation` and `HostApply`. Two runs have a `CONSTRAINT`, each on what the environment does and no
fairness asks for: how many things the channel serves, and when commands meet what goes wrong; four bound what goes wrong in a
scene in their next-state relation (the definitions the table names). The proofs below, where there are any, have none of these bounds. The liveness
properties say that something is so again and again (`[]<>`), which for a condition that only its own end takes
back is that it leads to that end, and which TLC checks several times faster. Deadlock is not
checked: requests end, and a system without requests rightly stops.

Fairness. systemd restarts the server (`Restart=always`), and asyncio runs
what is ready; every awaited command has a timeout, so a handler past its request
finishes or dies (`Drive`, weak fairness per request). Nothing makes anyone send a
request. `ProgressLands` is a callback the loop owes. For updates: systemd runs its
jobs and limits the script's time, commands have timeouts, and somebody keeps
asking for the status of a pending row. That last one is strong fairness, because a launch
or another observer may intermittently be in the way; it is justified by the
dashboard's polling and the blocker lookup of every mutation, and the property
fails without it: no task of the server settles a run nobody asks about. For
commands: a task goes on, a container that was told to stop a unit stops it
(`TimeoutStopSec`), doctor closes the circuit; whoever asked for a cancellation
repeats it, somebody asks for the status, and among infinitely many attempts
one finds the maintenance lock free and the guest answering (strong fairness of
`Maintain` and `Stop`). A job that nobody cancels may stay queued for ever, and with a
lost result cancellation does not settle it before the container restarts, so this run
has no glitches. For the outbox: the dispatcher's loop goes on, its clock runs, and the provider
does not stay out of reach for ever (strong fairness of an answer, since an attempt
may end in a transient failure each time in between); `IntentsSettle` is about callers that stop
coming, because flock promises nobody a turn. For alerts: the timer checks every two minutes,
the periods between two checks end, what is spooled arrives. These are strong fairness where an
overlapping check or the lease of a dead one is intermittently in the way. For the channel: its tasks go on,
and a process that was sent SIGTERM and, 2 s later, SIGKILL ends (`Killed`); nothing makes the program
in a terminal read, write or end. For hardening runs: threads go on (their commands have timeouts), systemd
restarts the server, the cleanup is attempted, and who has the lock gives it back.

## Disagreements with the code's own words

Checked, each by a run that finds it:

- **`UpdateRunsAlone`**: mutations are refused because "a control-plane update is
  already running", but a mutation that looked before the launch and locked after it
  is not: nothing looks again under the lock.
- **`ApplyConverges`**: apply is to "converge all managed runtime state on the server",
  but an apply that was killed or cancelled (output creation cancels it with a
  timeout) leaves the record of the last success, and the next one skips what the
  interrupted one had begun to change.
- **`SuccessIsTheDatabase`**: "Host state converged successfully", but a session that
  loaded its rows before another one committed applies the old values of the columns
  it does not write itself: the database holds both changes, the host one.

- **`FailedTransferKeepsSource`**: a transfer will "switch placement, render routes, then
  stop the source", but the apply in it removes the output from the leader in its first phase,
  before it renders routes and commits; if it fails afterwards the placement says leader,
  which has nothing. The data are on the target, where the undo that would remove them
  never happens, and nothing says so.

Met while modelling sections, updates and commands; the models contain them, and the
properties are stated around them:

- A section completes its row before it gives the lock back, and the startup cleanup relies on that:
  who has the lock finds only rows of dead handlers. But an apply that leaves the commit to its caller is
  "running" until that caller, without the lock, has committed and completed it (`apply_service.py:803`-`835`,
  `mutation_apply.py:92`, `109`, `auto_size.py:289`, `330`). A cleanup in between calls the operation of an
  auto-size that lives "interrupted by CNC restart"; then its caller overwrites that, or the cleanup, which
  had read the row before, overwrites the caller's success (`OutcomeStands` excepts both), also when the result was
  committed after the cleanup had looked for one (`CommittedWorkIsRecovered` excepts it, `"missed"`).
  `RunningIsHeld` names these rows.
- An update's row is visible before its unit exists (`QueueRow`, `LaunchUnit`): a poll in
  between records "update failed" for a launch that goes on.
- "Terminal outcomes are immutable" (`get_job`), but the submitter sets the row
  to running whatever an observer has recorded since the commit (`Mark`).
  `ObserversKeepOutcomes` excepts it.
- "command service is absent and no result was retained" (`cancel_job`), but nothing looks
  for the result again after the unit was looked for (`WriteAbsent`).

Met while modelling applies:

- `_apply_rollback_contract()` calls a failure after a live mutation partial, but when the
  reload of the restored files fails, too, the error raised has no failure mode
  (`RestoredReloadFails`): the failure counts as clean and the marker stays.
- The contract has nginx restored after a failed reload, but `_nginx_rollback_mode()` then
  only puts the files back: a reload that was given up and happens nevertheless leaves
  nginx with the configuration that was taken away (`murky`).
- When some followers were not reached the old hash is kept for all, so going back to
  the old configuration is skipped on those that have the new one.
- After a change of the slice format an enabled output's runtime is taken to be live
  as desired (`LiveSlices`), also when it is what was just edited.
- A swap that fails half-way is clean and "not staged" (`torn`); the next apply repairs the
  files, because they are compared.
- The section ends before the caller commits, so another apply can begin in between, and
  record a state without the change that is being committed.

And of updates and commands again. An updater that logs its completion between an observer's look at the log and its
look at the unit, and is collected, is recorded as failed: `SuccessIsTrue` is about
successes only. A transient unit whose start job has not run yet shows as inactive, dead
and successful, as a finished one does (update_service.py:615-632), and the launch does not
wait for that job (643-661, `--no-block`). A poll in that window records a success before
the updater has done anything, and nothing corrects it if the updater fails afterwards: the
row is not pending any more. `SuccessIsTrue` excepts exactly the runs that were looked at
then (`early`). A cancellation that finds no unit records that
the command "is no longer running", but the launch script of a submitter that died
may start it afterwards; `OneCommandAtATime` excepts exactly that job.

Met while modelling the outbox and the alerts:

- An intent that another holder of the dispatch lock has settled is reported as accepted
  (`notifications.py:396`), also when the provider refused it.
- A 4xx answer, 429 included, is a rejection for good.
- An answer of success whose body is no JSON is a rejection for good, too (`notifications.py:616`), although the
  provider may have taken the message; the model has a rejection only of what the provider did not take.
- The outbox keeps no order, and a second emergency with the same key replaces the receipt of the
  first, which then rings until it expires (`past.overtaken`).
- A host state file that cannot be read is replaced by an empty one.
- The emergency's text says every output is unhealthy; that was computed before the fixes
  (`backend_alerts.py:787`), which may have healed some of them.
- A check that is killed between the recording of "up" and its sends never tells the recovery.

Met while modelling backups:

- A restore verifies the bundle before it enters the section (`backend_backup_service.py:2367`); one
  that is deleted or pruned in between leads to "Backend restore completed." without its files.
- A rollback copy that was kept because the way back failed is removed by the next
  restore of the same process (`past.discarded`).
- `rollback()` keeps its lists when it raises (`backend_backup_service.py:1719-1742`). If that happens in the
  call of `apply()` (1698-1700), over a target that cannot be removed or a staged path (1733), the handler
  calls it again (2593) and it starts over: what the first call put back is removed, and its copy is gone from the
  rollback path already. The only copy of the old data is lost. `past.undone` names these paths;
  `DataSurvivesOneRestore` excepts exactly them, and without that exception the run finds the trace (two
  mounts, a failure in `apply()` after both or one of them was swapped, and a failure of its rollback).
- A failure after the commit puts the old files back, while the configuration stays; a commit that
  fails leaves the host converged to what was not committed, and so does an apply that fails between its phases,
  in part; nobody applies again (`past.hostAhead`).
- An import that finds the section busy leaves its row running until a server starts.
- The sweep marks the running row of a living command-line worker an error, and
  settles nothing if one of the rows it read was deleted before its commit.
- A slow backup may be pruned by a retention that ran meanwhile, or prune itself; a running row whose worker
  died can be deleted and leaves the temporary file.

Met while modelling the agent channel:

- "another CNC-managed guest command is already running" is how the guard refuses, but a terminal whose
  idle pump is cancelled by a close frame or a disconnect drops the guard before its process is
  over (`past.torn`), so that another command may start beside it, for 2 s at most.
- A write that waits for a program that does not read is not woken when the idle pump closes the
  descriptor (`stuck`): epoll forgets a closed descriptor, and the loop, which would
  notice the disconnect, waits in `_wait_for_fd` for ever. `HangsUp` excepts it.
- A cancellation that meets an exit frame on its way to a slow agent is answered too: the agent
  hears twice how the exec ended (`past.cut`).
- An exec frame with neither or both of `argv` and `shell`, or a blank one, is only looked at in its task, by
  `_exec_command()` (`agent_channel.py:787`) and before any `try`. The `AgentChannelFrameError` ends the task, its
  callback unregisters the id, nobody reads the exception: the agent, who is told of every other
  malformed frame, hears nothing of this one unless it cancels it before it is unregistered (`ExecMalformed`,
  `past.malformed`). `AnsweredOnce` excepts it.

Met while modelling hardening runs:

- "Phase 2 clone test stopped." (`hardening_mutations.py:394`), but a phase 2 that is stopped before its thread
  has started does not look and runs to its end (`Begin2`). A phase 1 stopped between its
  look and its first commit goes on as well (`Begin1`).
- "interrupted by CNC restart": the cleanup that is retried beside a serving server says so of
  runs that were started since, and removes the clones they are testing on (`past.taken`). Their verdicts come from
  containers that could not start, the failure is overwritten with a success at the end, and meanwhile the run
  can be resumed, so that there are two at once.
- The look for an active phase 2 and the creation of the next one are two transactions (`AskPhase2`,
  `StartPhase2`): two requests can both get through.
- A clone is found through the active row of its run only. The clone of a run that was cancelled
  when the server died, that is cancelled before the retried cleanup looks, or whose mark was
  committed by a cleanup that then failed stays for good (`past.forgotten`).
- `clone_backend` may fail after it committed the clone's row; the test then has no clone to clean up.
- Active runs without a thread are looked for at a start of the server only (`main.py:379`), but a run can be
  left so by one that lives: the commit that makes it "running" and what precedes it are outside of the try
  (`app_hardening.py:903`, `1070`), so is the success without a clone (`1092`-`1121`), and the handlers'
  `_finish_run` (`1006`, `1336`, `1365`) may fail for the very reason that brought them there, a busy
  database. The thread then ends, its row stays "queued" or "running", a phase 2 cannot be started
  (`AskPhase2`) before somebody presses Stop or the server is restarted, and no run of the code
  settles a phase 1 that is "running" so. `RunsSettle` excepts these runs (`past.stranded`).

Met while modelling transfers:

- `_restore_target_rollback` after `session.rollback()` reads an expired output and raises, also
  in its own handler (`UndoExpired`): failed setups are never undone, failed transfers only if they fail
  before the apply. (An undo that worked there would lose the data: `UndoAnyway`.)
  The restore of a backup as a new output reads `backend.id` after a rollback in the same way
  (`backend_backup_service.py:2952`), so its clean-up does not happen either.
- A rollback directory a dead process left on the leader makes every later apply fail that
  wants to remove what is not local (`ReconcileBlocked`).
- A clone prepared on the leader while the output is not placed there is deleted by the next full
  apply; once placed, the leader starts with a fresh guest.
- A transfer to a joining follower is accepted, restored there, and then rejected by the apply,
  which wants healthy followers (`ApplyRejected`).
- A remote script that fails between its stop and its move leaves a guest that ran stopped; the
  start of a local clone is outside the `try` that would undo it.
- Whether the target runs is asked with a command whose failure and timeout count as no
  (`cluster_transfer.py:751-776`). An undo (`1211`, `1288`) or the script's own trap (`894`, `1024`) then leaves
  a target that ran stopped. `FailedTransferIsUndone` excepts this (`past.unseen`).
- A placement form is committed after its section (`mutation_apply.py:92-109`). A transfer that begins
  in between reads the old placement, writes only the columns it changed, cleans up the followers it
  knows of and deletes their rows; what comes out of both commits can name a follower whose guest
  and row are gone, and which neither apply looked for. `PlacedIsThere` excepts nodes the last
  recorded apply did not know (`applied`); the apply that follows refuses them, for want of a row.
- A target whose answer was lost is restored although the transfer failed; a cleanup whose answer or
  row deletion was lost leaves a ready row without a guest, which a placement may
  then choose (`past.hollow`).
- A fresh setup may be aimed at the active follower itself and replaces its guest.
- What the output writes after it was archived does not reach the target.

## Proofs

Ten components and the composition of two of them have proofs, of their types and of every safety property
the passing runs check about them. Each proof rests on an inductive invariant `IInv` in the component's module, a
conjunction of named parts that some run checks too (that of `HostControl` is made of invariants the runs check
and of `LaunchInv`), and on the assumptions named there: the bounds are numbers, `NoOne` and its like are nobody,
roles are subsets of the processes. No theorem has another hypothesis. In the larger modules a
lemma per action first says what the step changes; the parts of `IInv` then follow from that and not from
the action.

`HostMutation_proofs`, for any sets of requests in any classification, with or without database errors:

- `Invariance`. `HostExclusion` alone is not inductive: that leaving closes the *last* section of a task
  needs the levels (`LockInv`: open sections of a task have different levels between one and its
  depth, so when the one at level one is also at the depth, it is alone). `RunningIsHeld` needs that a
  section is completed before it leaves, or is to be by its caller; `RecordInv` says what the cleanup has read is
  still true when it commits, because no section is open meanwhile, but for what callers do without one.
- `Exclusion` (`HostExclusion`) from `LockInv`; `Outcomes` (`OutcomeStands`) and `Recovery`
  (`CommittedWorkIsRecovered`) from `RecordInv`.
- `Refinement`: `Spec => SectionSpec`. Each step maps to a step of `HostSection` or stutters; that only the
  outermost section gives the lock back is again the levels.

`UpdateRuns_proofs`, for any runs, observers, launchers and failures:

- `Invariance`. `UnitInv` ties the unit, the script it runs and the log; `LookInv` says what remains true of
  what an observer has read while it awaits systemctl (a completion stays one); `LaunchInv` that one
  launch is in the section and its row's unit is not there yet.
- `Truth` (`SuccessIsTrue`): a success was logged, or somebody was shown the unit before its start.
- `Exclusive` (`OneInstaller`): the update lock of the script, even after such a false success.
- `OpenInvariance`: the same invariant of `OpenSpec`, in which observers die when they like and a restart of
  the service takes any set of them along that includes all launches. `Spec` is one such system, `HostControl`
  another.

`HostControl_proofs`, for any requests, pollers, updates and failures (`run_update` has no caller outside
the server, `UpdateOps \subseteq ServerOps`):

- `HostRefinement`: `Spec => HostMutationSpec`, so `HostIsExclusive` by the theorems of `HostMutation_proofs`,
  which the module instantiates.
- `Invariance`. `LaunchInv`: `run_update` never nests, nothing nests in it, and it is in its section as long as it
  launches. With the host lock that makes launches exclude each other, which `UpdateRuns` assumes (`SectionFree`):
  `UpdateRefinement`, `Spec => UpdateRunsSpec`, discharges the assumption, and `Truth` and `Exclusive` hold of the
  composed system.
- `LaunchIsAlone` (`LaunchFindsHostIdle`). Its counterpart while the updater *runs*, `UpdateRunsAlone`, is
  false: see the findings.

`CommandJobs_proofs`, for any clients, request keys, jobs, stops of the container, deaths and glitches:

- `Invariance`. The hard part is that an observer acts on an old picture. `LookInv` says what of it stays true: a
  result it found is the result, a boot that is not the job's will not be again. That is so because a service that
  ended does not come back (`Over`, `ServiceInv`): the boot it was made for is gone, or its one submission
  is past. `SlotInv` says that the reservation is only given up, or to another job, when what it was for
  is over, or unknown for good.
- `OneCommand` (`OneCommandAtATime`) from `SlotInv`, `Outcomes` (`OutcomeIsTrue`) from `OutcomeInv`,
  `OutcomesStay` (`ObserversKeepOutcomes`, an action property) from `ServiceInv` and `LookInv`.

`PushoverOutbox_proofs`, for any callers, processes, notices, limits and failures:

- `Invariance`. `LockInv`: who sends or calls off has the dispatch lock. `SpoolInv`: what is being sent is due
  in the file until it settles. `HandInv` counts: what is still spooled has been taken as often as there
  were lapses, or once more if it has just been accepted. `ReceiptInv`: a receipt is dropped when the
  provider no longer rings for it.
- `Once` (`HandedOnce`), `Cancellable` (`StaysCancellable`), parts of it.
- `Refinement`: `Spec => DeliverySpec`, that is, the outbox implements `PushoverDelivery`.

`Backups_proofs`, about `BackupStore` for any workers, backups, retention and faults, about `BackupRestore` (as
`R`) for any number of mounts, jobs and faults, and about `ClusterTransfer` (as `T`) for any followers, jobs,
writes and faults:

- `Invariance`. `WorkInv`: a backup has one maker, who is alone with it until its row says success.
  `BundleInv`: rows and bundles keep in step, what a prune or a sweep has read included. `LitterInv`:
  a file nobody needs has somebody who removes it.
- `Restorable` (`SuccessHasBundle`), `Tidy` (`NoLitter`).
- `RestoreInvariance`. A restore runs through the mounts in order, so what is staged, replaced and held is an
  initial segment of them (`JobInv`). `KeptInv`: what was in use is at the rollback path of every mount that
  was replaced and that the rollback at work has not come to (`Waiting`), or is on its way, unless a later job
  wrote over it or an earlier call of the rollback had put it back. `UndoInv`: while nothing disturbed the job, what
  its rollback paths hold is what the configuration calls for, before the commit, and all files are the new ones
  after it. `OutputInv` adds the control directory, the host and the process.
- `DataSurvives` (`DataSurvivesOneRestore`) from `KeptInv` and `PlaceInv`, `RestoreIsAtomic` (`AllOrNothing`) from
  `UndoInv` and `OutputInv`.
- `TransferInvariance`. `DataInv`: the data are at the source until the apply and at the target from the restore
  on. `UndoInv`: what was put aside is what the target had. `RowInv`: a readiness row has its guest until a
  cleanup takes the guest first. `JobInv`: while a form waits to be committed no job commits, nor cleans up,
  and the followers it names keep their rows, so the last recorded apply names none without a row (`TypeOK`).
- `TransferKeepsData` (`DataSurvivesTransfer`), `TransferIsUndone` (`FailedTransferIsUndone`), `TransferPlaces`
  (`PlacedIsThere`). What the run `transfer_loses_source` refutes is not contradicted: the data survive on the
  target.

`AgentChannel_proofs`, for any exec ids, execs and terminals (ids are no terminals, `ChannelAssumption`):

- `Invariance`. `LoopInv`: what the loop awaits. `GuardInv`: from where to where a task keeps the guard.
  `ToldInv`: who has told, and who will.
- `Guarded` (`GuardCoversProcess`), `Answered` (`AnsweredOnce`), parts of it. The exceptions are in the
  statements: `past.torn`, `past.cut`, `past.malformed`.

`Outputs_proofs`, about `HostApply` for any sessions (auto-size and other deferred callers among them),
configured slices, edits, faults, interruptions and upgrades (`None` and `Mixed` are no values), and about
`HardeningRuns` (as `H`) for any requests, runs, settings, attempts, crashes and faults:

- `Invariance`. `OwnerInv`: who is in the section, and, while the record counts or a full apply is about to
  renew it, that nobody else waits for its commit. `KnowsInv`: what a session knows at each place.
  `ProgressInv`: slices that are done are on the host, and a slice not reached yet whose recorded hash
  is the desired one is there already. `RecordInv`: the record of the last success is true before an apply
  touches anything, again once it has failed without touching anything or is forgotten, and the record a
  deferred caller is about to commit is true of the host it left. `IngressInv`: where the last served
  proxy files are (on the host or in the rollback directory), and what nginx runs with.
- The proof has a lemma for each kind of step (outside the section, inside, out of it), which needs of
  a step only what it does to its own session and the record, and one for each action, which shows that.
- `RecordIsTrue` (`MarkerIsTrue`) from `RecordInv`, `Convergence` (`SuccessConverges`) from `ProgressInv`,
  `IngressIsKept` (`FailureKeepsIngress`) from `IngressInv`.
- `HardeningInvariance`. `LockInv`: the section is with the run that copies or with the cleanup at work. `RunInv`:
  what a run has at each place; only a phase 2 has a clone, and it finishes with no setting left. `TestInv`: a
  test at work has its clone, and a thread that has one will remove it, unless the cleanup took the run for
  an interrupted one. `CleanupInv`: a clone that no thread has is one the cleanup finds by its row, or has found
  and not lost again.
- `Verdicts` (`VerdictsAreTested`) from `RunInv` and `TestInv`, `Removal` (`ClonesAreRemoved`) from `CleanupInv`.

Only model-checked: all liveness (fairness and ENABLED are outside the prover's reach) and `BackendAlerts`.

## Plan

All modules below are written, with their instances and runs. In this order:

1. Left of applies: callers that commit their rows before `run_apply` or let it commit changed rows
   (settings), several outputs in one apply, and threads that outlive a cancelled session.
2. `BackendAlerts`: `RecoveredIsEarned` stays with TLC for now. Left: the notices of updates, restoring a deleted output as a new one, `ClusterNodes` (join tokens, the
   removal of a node), the copies of backups on nodes.
3. Not begun: `HistoryRetention`, `StatusCache`, `CloudflareSync`, `AppRuntime` swaps, `prune_releases`, the log
   queue, auto-size decisions.

## Not modelled, and why

Text generation (nginx, nftables, Quadlet, systemd units) and parsing have no state
of their own; access checks and routes are sequential per request; migrations and
the installer run once, alone; the web client only displays. SQLite is taken to
commit atomically and flock to be exclusive. Time appears only as "a timeout may
fire", pids, ids and text not at all.
