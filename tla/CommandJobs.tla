---------------------------- MODULE CommandJobs ----------------------------
(***************************************************************************)
(* Background commands in the guest of one output:                         *)
(* app/services/command_jobs.py, command_job_files.py,                     *)
(* command_job_runtime.py and the guard of guest_exec.py.                  *)
(*                                                                         *)
(* submit_job() commits a row, reserves the output in a file and has       *)
(* systemd in the guest start a transient service; the service outlives    *)
(* the submitter and leaves a result file.  get_job() turns what it can    *)
(* see (the file, the container) into the outcome of the row, without a    *)
(* lock and with an await in the middle; anyone may call it at any time.   *)
(* cancel_job() stops the service, or settles a row without one.           *)
(***************************************************************************)
EXTENDS Naturals

CONSTANTS
    Clients,   \* agent sockets and requests of the server, command lines
    Keys,      \* request keys
    MaxJobs,   \* bound on rows created
    MaxStops,  \* bound on how often the container stops
    MaxDeaths, \* bound on clients that die in the middle
    Glitches,  \* may a result be lost or unreadable, an inspection unknown?
    NoClient, NoKey

ASSUME JobsAssumption ==
    /\ MaxJobs \in Nat /\ MaxStops \in Nat /\ MaxDeaths \in Nat
    /\ Glitches \in BOOLEAN
    /\ NoClient \notin Clients /\ NoKey \notin Keys

Jobs == 1..MaxJobs

VARIABLES
    row,      \* Operation.status of each job
    phase,    \* Operation.phase
    key,      \* CommandJob.request_key
    asked,    \* CommandJob.cancel_requested
    born,     \* container_id of the job: the boot it was submitted to
    service,  \* the transient unit in the guest
    result,   \* the file its ExecStopPost leaves
    boot,     \* the container that exists now
    up,       \* does it run?
    reserved, \* command-job.json: the job that occupies the output, 0 if none
    circuit,  \* is the exec circuit open?
    host,     \* which client has the host-mutation lock (submission_guard)
    guard,    \* which client has exec-probe.lock
    task,     \* what each client is doing
    deaths    \* clients that died so far

rowVars   == <<row, phase, key, asked, born>>
guestVars == <<service, result, boot, up>>
lockVars  == <<reserved, circuit, host, guard>>
vars      == <<rowVars, guestVars, lockVars, task, deaths>>

Active  == {"queued", "running"}
Outcome == {"success", "failed", "cancelled"}
Alive   == {"active", "stopping"}   \* the unit is loaded and runs
Results == {"success", "failed", "killed"}

(* What inspect_container may say besides the boot that runs.              *)
Unknown == MaxStops + 2
Gone    == MaxStops + 3

Idle == [at |-> "idle", job |-> 0, key |-> NoKey, todo |-> {}, then |-> "return",
         observe |-> TRUE, found |-> "none", saw |-> 0, ok |-> FALSE]

Init ==
    /\ row = [j \in Jobs |-> "none"] /\ phase = [j \in Jobs |-> "none"]
    /\ key = [j \in Jobs |-> NoKey] /\ asked = [j \in Jobs |-> FALSE]
    /\ born = [j \in Jobs |-> 0]
    /\ service = [j \in Jobs |-> "absent"] /\ result = [j \in Jobs |-> "none"]
    /\ boot = 1 /\ up = TRUE
    /\ reserved = 0 /\ circuit = FALSE /\ host = NoClient /\ guard = NoClient
    /\ task = [c \in Clients |-> Idle]
    /\ deaths = 0

-----------------------------------------------------------------------------
Do(c, changes) == task' = [task EXCEPT ![c] = changes]
At(c, where) == Do(c, [task[c] EXCEPT !.at = where])

(* get_job(job), then on with the caller.                                  *)
LookAt(c, j, observing, next) ==
    Do(c, [Idle EXCEPT !.at = "look", !.job = j, !.then = next, !.observe = observing])

(* The with-blocks are left: both locks of c are free again.               *)
Drop(c) ==
    /\ host' = IF host = c THEN NoClient ELSE host
    /\ guard' = IF guard = c THEN NoClient ELSE guard

(* Mutant: the answer is given with the locks still held.                  *)
AnsweredLocked(c) == Do(c, Idle) /\ UNCHANGED <<host, guard>>

(* The client has its answer, an error or not.                             *)
Answered(c) == Do(c, Idle) /\ Drop(c)

(* get_job has answered its caller, who gives up if that is final.         *)
Resume(c, final) ==
    LET then == task[c].then IN
    IF then = "return" \/ (final /\ then # "reconcile")
    THEN Answered(c)
    ELSE Do(c, [Idle EXCEPT !.at = then, !.job = task[c].job,
                            !.key = task[c].key, !.todo = task[c].todo])
         /\ UNCHANGED <<host, guard>>

(* reserved_job: a reservation counts until its result can be read.        *)
OccupiedFor(j) == reserved \notin {0, j} /\ result[reserved] = "none"

(* Mutant: podman exec by name.                                            *)
ReachableByName(j) == up

(* podman exec by container id reaches the job's own boot or nothing.      *)
Reachable(j) == up /\ boot = born[j]

(* Mutant: status and phase swapped.                                       *)
SettledSwapped(j, status, why) ==
    /\ row' = [row EXCEPT ![j] = why]
    /\ phase' = [phase EXCEPT ![j] = status]

Settled(j, status, why) ==
    /\ row' = [row EXCEPT ![j] = status]
    /\ phase' = [phase EXCEPT ![j] = why]

-----------------------------------------------------------------------------
(* submit_job: a known key is only looked at; otherwise the active jobs of *)
(* the output are reconciled first.                                        *)
Submit(c, k) ==
    /\ task[c].at = "idle"
    /\ \/ \E j \in Jobs : key[j] = k /\ LookAt(c, j, TRUE, "return")
       \/ /\ \A j \in Jobs : key[j] # k
          /\ Do(c, [Idle EXCEPT !.at = "reconcile", !.key = k,
                                !.todo = {j \in Jobs : row[j] \in Active}])
    /\ UNCHANGED <<rowVars, guestVars, lockVars, deaths>>

Reconcile(c) ==
    /\ task[c].at = "reconcile"
    /\ \/ \E j \in task[c].todo :
            Do(c, [task[c] EXCEPT !.at = "look", !.job = j, !.todo = @ \ {j},
                     !.then = "reconcile", !.found = "none", !.saw = 0])
       \/ task[c].todo = {} /\ Do(c, [Idle EXCEPT !.at = "admit", !.key = task[c].key])
    /\ UNCHANGED <<rowVars, guestVars, lockVars, deaths>>

(* The circuit is closed and the maintenance lock free.                    *)
Admit(c) ==
    /\ task[c].at = "admit" /\ ~circuit /\ host = NoClient
    /\ host' = c /\ At(c, "guard")
    /\ UNCHANGED <<rowVars, guestVars, reserved, circuit, guard, deaths>>

(* backend_guest_exec_guard, the circuit once more, and observe_runtime:   *)
(* a running container, whose id the job will carry.                       *)
Guard(c) ==
    /\ task[c].at = "guard" /\ guard = NoClient /\ ~OccupiedFor(0) /\ ~circuit /\ up
    /\ guard' = c /\ Do(c, [task[c] EXCEPT !.at = "commit", !.saw = boot])
    /\ UNCHANGED <<rowVars, guestVars, reserved, circuit, host, deaths>>

(* "host_busy", "backend_busy", "runtime_unavailable" and the others: the  *)
(* locks are other people's as well, and the output may be disabled.       *)
Refused(c) ==
    /\ task[c].at \in {"admit", "guard", "commit", "maintain"}
    /\ Answered(c)
    /\ UNCHANGED <<rowVars, guestVars, reserved, circuit, deaths>>

(* Identity and operation are committed before any guest side effect; the  *)
(* request key is unique.                                                  *)
(* Mutant: the request key is only looked up before the locks are taken.   *)
KeyUnchecked(k) == FALSE

KeyTaken(k) == \E j \in Jobs : key[j] = k

Commit(c) ==
    /\ task[c].at = "commit"
    /\ \/ /\ ~KeyTaken(task[c].key)
          /\ \E j \in Jobs :
               /\ row[j] = "none" /\ \A i \in 1..(j - 1) : row[i] # "none"
               /\ Settled(j, "queued", "submitting")
               /\ key' = [key EXCEPT ![j] = task[c].key]
               /\ born' = [born EXCEPT ![j] = task[c].saw]
               /\ Do(c, [Idle EXCEPT !.at = "reserve", !.job = j])
       \/ /\ KeyTaken(task[c].key)
          /\ \E j \in Jobs : key[j] = task[c].key /\ LookAt(c, j, TRUE, "return")
          /\ UNCHANGED <<row, phase, key, born>>
    /\ UNCHANGED <<asked, guestVars, lockVars, deaths>>

(* reserve_job: the file is replaced atomically, or cannot be written.     *)
Reserve(c) ==
    /\ task[c].at = "reserve"
    /\ reserved' = task[c].job /\ At(c, "launch")
    /\ UNCHANGED <<rowVars, guestVars, circuit, host, guard, deaths>>

ReserveFails(c) ==
    /\ task[c].at = "reserve"
    /\ Settled(task[c].job, "failed", "not_started")
    /\ Answered(c)
    /\ UNCHANGED <<key, asked, born, guestVars, reserved, circuit, deaths>>

(* launch_job: a script in the guest under a deadline of its own, that     *)
(* ends in systemd-run.                                                    *)
Launch(c) ==
    LET j == task[c].job IN
    /\ task[c].at = "launch"
    /\ service' = IF Reachable(j) THEN [service EXCEPT ![j] = "starting"] ELSE service
    /\ At(c, "launching")
    /\ UNCHANGED <<rowVars, result, boot, up, lockVars, deaths>>

Launched(c) ==
    /\ task[c].at = "launching" /\ service[task[c].job] \notin {"absent", "starting"}
    /\ Do(c, [task[c] EXCEPT !.at = "mark", !.ok = TRUE])
    /\ UNCHANGED <<rowVars, guestVars, lockVars, deaths>>

(* It failed, or its deadline passed (124): the script is dead, but the    *)
(* unit may have been started.                                             *)
LaunchFails(c, timedOut) ==
    LET j == task[c].job IN
    /\ task[c].at = "launching"
    /\ service' = [service EXCEPT ![j] = IF @ = "starting" THEN "absent" ELSE @]
    /\ circuit' = (circuit \/ timedOut)
    /\ Do(c, [task[c] EXCEPT !.at = "mark", !.ok = FALSE])
    /\ UNCHANGED <<rowVars, result, boot, up, reserved, host, guard, deaths>>

(* The row is running whatever it was before; the locks are dropped, and   *)
(* the answer comes from get_job(observe=False).                           *)
Mark(c) ==
    LET j == task[c].job IN
    /\ task[c].at = "mark"
    /\ Settled(j, "running", IF task[c].ok THEN "executing" ELSE "submission_unknown")
    /\ LookAt(c, j, FALSE, "return") /\ Drop(c)
    /\ UNCHANGED <<key, asked, born, guestVars, reserved, circuit, deaths>>

-----------------------------------------------------------------------------
(* get_job: a terminal row only has its reservation released; otherwise    *)
(* the result is read, and without one the container is inspected and the  *)
(* result read again.                                                      *)
Readings(j) == {result[j]} \cup IF Glitches THEN {"unreadable"} ELSE {}

Look(c) ==
    LET j == task[c].job IN
    /\ task[c].at = "look"
    /\ IF row[j] \notin Active
       THEN At(c, "release")
       ELSE \E found \in Readings(j) :
              Do(c, [task[c] EXCEPT !.found = found,
                       !.at = IF found = "none" /\ task[c].observe
                              THEN "inspect" ELSE "settle"])
    /\ UNCHANGED <<rowVars, guestVars, lockVars, deaths>>

Inspect(c) ==
    /\ task[c].at = "inspect"
    /\ \E saw \in {IF up THEN boot ELSE Gone} \cup IF Glitches THEN {Unknown} ELSE {} :
         Do(c, [task[c] EXCEPT !.at = "recheck", !.saw = saw])
    /\ UNCHANGED <<rowVars, guestVars, lockVars, deaths>>

Recheck(c) ==
    /\ task[c].at = "recheck"
    /\ \E found \in Readings(task[c].job) :
         Do(c, [task[c] EXCEPT !.at = "settle", !.found = found])
    /\ UNCHANGED <<rowVars, guestVars, lockVars, deaths>>

(* Mutant: the service result "success" is enough, whatever the exit code. *)
VerdictOfService(t, j) ==
    CASE t.found \in {"success", "killed"} -> <<"success", "completed">>
      [] t.found = "failed" -> <<"failed", "completed">>
      [] t.found = "none" /\ t.saw \notin {0, Unknown, born[j]} ->
           <<"failed", "interrupted">>
      [] OTHER -> <<row[j], phase[j]>>

(* The verdict, from what was read; a request to cancel is read at the     *)
(* write.  A command that was stopped ends with the service result         *)
(* "success" too, but without an exit code.                                *)
Verdict(t, j) ==
    CASE t.found = "success" -> <<"success", "completed">>
      [] t.found = "killed" ->
           <<IF asked[j] THEN "cancelled" ELSE "failed", "completed">>
      [] t.found = "failed" -> <<"failed", "completed">>
      [] t.found = "unreadable" \/ (t.found = "none" /\ t.saw = Unknown) ->
           <<row[j], "observation_unavailable">>
      [] t.found = "none" /\ t.saw \notin {0, Unknown, born[j]} ->
           <<"failed", "interrupted">>
      [] OTHER ->
           <<row[j], IF phase[j] = "observation_unavailable" /\ t.saw # 0
                     THEN "executing" ELSE phase[j]>>

(* Mutants: the update has no guard; it only minds rows marked running.    *)
SettleIf(c, statuses) ==
    LET j == task[c].job
        v == Verdict(task[c], j) IN
    /\ task[c].at = "settle"
    /\ IF row[j] \in statuses
       THEN Settled(j, v[1], v[2])
       ELSE UNCHANGED <<row, phase>>
    /\ IF row'[j] \in Active
       THEN Resume(c, FALSE)
       ELSE At(c, "release") /\ UNCHANGED <<host, guard>>
    /\ UNCHANGED <<key, asked, born, guestVars, reserved, circuit, deaths>>
SettleAlways(c)  == SettleIf(c, Active \cup Outcome)
SettleRunning(c) == SettleIf(c, {"running"})

(* The update has a guard: the row must still be active.                   *)
Settle(c) ==
    LET j == task[c].job
        v == Verdict(task[c], j) IN
    /\ task[c].at = "settle"
    /\ IF row[j] \in Active
       THEN Settled(j, v[1], v[2])
       ELSE UNCHANGED <<row, phase>>
    /\ IF row'[j] \in Active
       THEN Resume(c, FALSE)
       ELSE At(c, "release") /\ UNCHANGED <<host, guard>>
    /\ UNCHANGED <<key, asked, born, guestVars, reserved, circuit, deaths>>

(* Mutant: whatever is reserved is released.                               *)
ReleaseAny(c) ==
    /\ task[c].at = "release"
    /\ \/ reserved' = reserved
       \/ guard = NoClient /\ reserved' = 0
    /\ Resume(c, TRUE)
    /\ UNCHANGED <<rowVars, guestVars, circuit, deaths>>

(* release_job: under the guard, and only the job's own reservation; if    *)
(* the guard is busy the reservation stays, and does not count any more.   *)
Release(c) ==
    LET j == task[c].job IN
    /\ task[c].at = "release"
    /\ \/ reserved' = reserved
       \/ guard = NoClient /\ reserved = j /\ reserved' = 0
    /\ Resume(c, TRUE)
    /\ UNCHANGED <<rowVars, guestVars, circuit, deaths>>

-----------------------------------------------------------------------------
(* cancel_job: look, ask, take the maintenance lock, look again, stop.     *)
Cancel(c, j) ==
    /\ task[c].at = "idle" /\ row[j] # "none"
    /\ LookAt(c, j, TRUE, "ask")
    /\ UNCHANGED <<rowVars, guestVars, lockVars, deaths>>

Ask(c) ==
    /\ task[c].at = "ask"
    /\ asked' = [asked EXCEPT ![task[c].job] = TRUE]
    /\ At(c, "maintain")
    /\ UNCHANGED <<row, phase, key, born, guestVars, lockVars, deaths>>

Maintain(c) ==
    /\ task[c].at = "maintain" /\ host = NoClient
    /\ host' = c /\ LookAt(c, task[c].job, TRUE, "stop")
    /\ UNCHANGED <<rowVars, guestVars, reserved, circuit, guard, deaths>>

(* Mutant: the job's own reservation keeps its canceller out.              *)
MayExecUnreserved(j) == ~circuit /\ guard = NoClient /\ ~OccupiedFor(0) /\ Reachable(j)

(* run_backend_guest_command, the job's own reservation excepted.          *)
MayExec(j) == ~circuit /\ guard = NoClient /\ ~OccupiedFor(j) /\ Reachable(j)

(* stop_job: a unit that is loaded is told to stop, and the answer comes   *)
(* from get_job(observe=False) ...                                         *)
Stop(c, timedOut) ==
    LET j == task[c].job IN
    /\ task[c].at = "stop" /\ MayExec(j)
    /\ service[j] \in {"active", "stopping", "failed"}
    /\ service' = [service EXCEPT ![j] = IF @ = "active" THEN "stopping" ELSE @]
    /\ circuit' = timedOut
    /\ LookAt(c, j, FALSE, "return") /\ Drop(c)
    /\ UNCHANGED <<rowVars, result, boot, up, reserved, deaths>>

(* ... one that is not found is absent ...                                 *)
StopFindsNone(c) ==
    LET j == task[c].job IN
    /\ task[c].at = "stop" /\ MayExec(j)
    /\ service[j] \in {"absent", "starting", "gone"}
    /\ At(c, "absent")
    /\ UNCHANGED <<rowVars, guestVars, lockVars, deaths>>

(* ... and without an answer nothing is concluded.                         *)
StopFails(c, timedOut) ==
    LET j == task[c].job IN
    /\ task[c].at = "stop"
    /\ timedOut => MayExec(j)
    /\ circuit' = (circuit \/ timedOut)
    /\ LookAt(c, j, FALSE, "return") /\ Drop(c)
    /\ UNCHANGED <<rowVars, guestVars, reserved, deaths>>

(* An absent unit settles the row, whatever it is by now.                  *)
WriteAbsent(c) ==
    /\ task[c].at = "absent"
    /\ Settled(task[c].job, "failed", "outcome_unknown")
    /\ At(c, "release")
    /\ UNCHANGED <<key, asked, born, guestVars, lockVars, deaths>>

-----------------------------------------------------------------------------
(* The guest: its systemd takes the unit, the service ends and leaves its  *)
(* result; a unit that failed stays loaded, the others are collected.  An  *)
(* ExecStopPost that cannot write leaves no result and a failed unit.      *)
ServiceStarts(j) ==
    /\ service[j] = "starting"
    /\ service' = [service EXCEPT ![j] = "active"]
    /\ UNCHANGED <<rowVars, result, boot, up, lockVars, task, deaths>>

ServiceEnds(j, outcome) ==
    /\ service[j] \in Alive
    /\ result' = [result EXCEPT ![j] = outcome]
    /\ service' = [service EXCEPT ![j] =
                     IF outcome \in {"failed", "none"} THEN "failed" ELSE "gone"]
    /\ UNCHANGED <<rowVars, boot, up, lockVars, task, deaths>>

(* The container stops, in good order or not, and another one is started.  *)
ContainerStops(orderly) ==
    /\ up /\ boot <= MaxStops
    /\ up' = FALSE
    /\ result' = [j \in Jobs |-> IF orderly /\ service[j] \in Alive
                                 THEN "killed" ELSE result[j]]
    /\ service' = [j \in Jobs |-> IF service[j] \in {"absent", "starting"}
                                  THEN "absent" ELSE "gone"]
    /\ UNCHANGED <<rowVars, boot, lockVars, task, deaths>>

ContainerStarts ==
    /\ ~up
    /\ up' = TRUE /\ boot' = boot + 1
    /\ UNCHANGED <<rowVars, service, result, lockVars, task, deaths>>

(* output doctor and output fix close the circuit.                         *)
CircuitCleared ==
    /\ circuit /\ circuit' = FALSE
    /\ UNCHANGED <<rowVars, guestVars, reserved, host, guard, task, deaths>>

(* A client dies, or its server does: flocks are released.  The script it  *)
(* has started in the guest is in a session of its own and goes on, until  *)
(* it has started the unit or its deadline kills it.                       *)
Dies(c) ==
    /\ deaths < MaxDeaths /\ task[c].at # "idle"
    /\ deaths' = deaths + 1
    /\ Answered(c)
    /\ UNCHANGED <<rowVars, guestVars, reserved, circuit>>

OrphanEnds(j) ==
    /\ service[j] = "starting"
    /\ \A c \in Clients : ~(task[c].at = "launching" /\ task[c].job = j)
    /\ service' = [service EXCEPT ![j] = "absent"]
    /\ UNCHANGED <<rowVars, result, boot, up, lockVars, task, deaths>>

-----------------------------------------------------------------------------
(* A status request is get_job of any job that has a row.                  *)
Observe(c, j) ==
    /\ task[c].at = "idle" /\ row[j] # "none"
    /\ LookAt(c, j, TRUE, "return")
    /\ UNCHANGED <<rowVars, guestVars, lockVars, deaths>>

(* What a client that has started goes on to do.                           *)
Proceed(c) ==
    \/ Reconcile(c) \/ Commit(c) \/ Reserve(c) \/ Launch(c)
    \/ Launched(c) \/ Mark(c) \/ Look(c) \/ Inspect(c) \/ Recheck(c)
    \/ Settle(c) \/ Release(c) \/ Ask(c) \/ WriteAbsent(c)
    \/ LaunchFails(c, FALSE)

Next ==
    \/ \E c \in Clients :
        \/ \E k \in Keys : Submit(c, k)
        \/ \E j \in Jobs : Observe(c, j) \/ Cancel(c, j)
        \/ Proceed(c) \/ Admit(c) \/ Guard(c) \/ Maintain(c) \/ Refused(c)
        \/ ReserveFails(c) \/ LaunchFails(c, TRUE) \/ StopFindsNone(c)
        \/ \E timedOut \in BOOLEAN : Stop(c, timedOut) \/ StopFails(c, timedOut)
        \/ Dies(c)
    \/ \E j \in Jobs :
        \/ ServiceStarts(j) \/ OrphanEnds(j)
        \/ \E outcome \in Results \cup IF Glitches THEN {"none"} ELSE {} :
              ServiceEnds(j, outcome)
    \/ \E orderly \in BOOLEAN : ContainerStops(orderly)
    \/ ContainerStarts \/ CircuitCleared

Spec == Init /\ [][Next]_vars

-----------------------------------------------------------------------------
Ats == {"idle", "look", "inspect", "recheck", "settle", "release", "reconcile",
        "admit", "guard", "commit", "reserve", "launch", "launching",
        "mark", "ask", "maintain", "stop", "absent"}

Tasks ==
    [at : Ats,
     job : 0..MaxJobs, key : Keys \cup {NoKey}, todo : SUBSET Jobs,
     then : {"return", "reconcile", "ask", "stop"}, observe : BOOLEAN,
     found : Results \cup {"none", "unreadable"}, saw : 0..Gone, ok : BOOLEAN]

Phases == {"none", "submitting", "executing", "submission_unknown",
           "observation_unavailable", "not_started", "completed",
           "interrupted", "outcome_unknown"}

(* The variables keep their types.                                         *)
TypeOK ==
    /\ row \in [Jobs -> {"none"} \cup Active \cup Outcome]
    /\ phase \in [Jobs -> Phases]
    /\ key \in [Jobs -> Keys \cup {NoKey}] /\ asked \in [Jobs -> BOOLEAN]
    /\ born \in [Jobs -> 0..(MaxStops + 1)]
    /\ service \in [Jobs -> Alive \cup {"absent", "starting", "failed", "gone"}]
    /\ result \in [Jobs -> Results \cup {"none"}]
    /\ boot \in 1..(IF up THEN MaxStops + 1 ELSE MaxStops) /\ up \in BOOLEAN
    /\ reserved \in 0..MaxJobs /\ circuit \in BOOLEAN
    /\ host \in Clients \cup {NoClient} /\ guard \in Clients \cup {NoClient}
    /\ task \in [Clients -> Tasks]
    /\ deaths \in 0..MaxDeaths

(* One command at a time, and it holds the slot of the output: a service   *)
(* runs only while command-job.json names its job (reserve_job before      *)
(* launch_job, release_job compares), unless cancel_job found no unit      *)
(* while the launch script of a dead submitter was about to start it; and  *)
(* a request key names one command at most, whoever retries it and in      *)
(* whatever order the retries pass the maintenance lock.                   *)
OneCommandAtATime ==
    /\ \A j \in Jobs : service[j] \in Alive =>
           reserved = j \/ phase[j] = "outcome_unknown"
    /\ \A i, j \in Jobs : i # j /\ key[i] = key[j] => key[i] = NoKey

(* Whoever waits for the end of a command may rely on it: a row that is    *)
(* terminal names a command that no longer runs and will not, whichever    *)
(* observations of which boot it was concluded from.  The outcome is the   *)
(* one the guest recorded, and only a command somebody asked to cancel is  *)
(* "cancelled" (get_job, case on cancel_requested).                        *)
OutcomeIsTrue ==
    \A j \in Jobs :
        /\ row[j] \in Outcome /\ phase[j] # "outcome_unknown" =>
               service[j] \notin Alive \cup {"starting"}
        /\ row[j] = "success" => result[j] = "success"
        /\ row[j] = "cancelled" => result[j] = "killed" /\ asked[j]

(* A delayed observer never changes an outcome: only the submitter that    *)
(* marks its own row and the canceller that found no unit do.              *)
ObserversKeepOutcomes ==
    [][\A j \in Jobs : row[j] \in Outcome /\ row'[j] # row[j] =>
         \E c \in Clients : task[c].job = j /\ task[c].at \in {"mark", "absent"}]_vars

-----------------------------------------------------------------------------
(* Tasks go on; whoever retries gets the locks sometimes; commands end     *)
(* when they are stopped; somebody keeps asking for the status and for the *)
(* end of every job that is to be cancelled, and doctor closes circuits.   *)
Fairness ==
    /\ \A c \in Clients :
        /\ WF_vars(Proceed(c)) /\ WF_vars(Refused(c)) /\ WF_vars(StopFails(c, FALSE))
        /\ SF_vars(Maintain(c)) /\ SF_vars(Stop(c, FALSE) \/ StopFindsNone(c))
    /\ \A j \in Jobs :
        /\ SF_vars(\E c \in Clients : Observe(c, j))
        /\ SF_vars(\E c \in Clients : asked[j] /\ Cancel(c, j))
        /\ WF_vars(service[j] = "stopping" /\ \E outcome \in Results : ServiceEnds(j, outcome))
        /\ WF_vars(ServiceStarts(j) \/ OrphanEnds(j))
    /\ WF_vars(CircuitCleared)

FairSpec == Spec /\ Fairness

(* What the guest has recorded reaches the row, even if the submitter died *)
(* before it marked it.                                                    *)
ResultIsRecorded ==
    \A j \in Jobs : []<>(result[j] # "none" => row[j] \in Outcome)

(* A job that somebody keeps cancelling is settled in the end, one that    *)
(* was committed and never launched, one whose container is gone and one   *)
(* behind an opened circuit included.                                      *)
CancelSettles == \A j \in Jobs : []<>(asked[j] => row[j] \in Outcome)

-----------------------------------------------------------------------------
(* Why they hold.  The locks exclude each other's holders ...              *)
Submitting == {"reserve", "launch", "launching", "mark"}
LockInv ==
    \A c \in Clients :
        /\ task[c].at \in Submitting \cup {"guard", "commit", "stop", "absent"} => host = c
        /\ task[c].then = "stop" => host = c
        /\ task[c].at \in Submitting \cup {"commit"} => guard = c

(* ... a row is there before anybody works with it ...                     *)
WithJob == Submitting \cup {"look", "inspect", "recheck", "settle", "release",
                            "ask", "maintain", "stop", "absent"}
RowInv ==
    /\ \A j \in Jobs :
        /\ row[j] = "none" => key[j] = NoKey /\ service[j] = "absent" /\ result[j] = "none"
        /\ phase[j] = "outcome_unknown" => row[j] = "failed"
    /\ \A c \in Clients :
        /\ task[c].at \in WithJob => task[c].job \in Jobs /\ row[task[c].job] # "none"
        /\ \A j \in task[c].todo : row[j] # "none"
        /\ task[c].at \in {"reconcile", "admit", "guard", "commit"}
             \/ task[c].then = "reconcile" => task[c].key \in Keys
        /\ task[c].at = "commit" => task[c].saw \in 1..boot

(* ... a service that ended does not come back, for the boot it was made   *)
(* for is gone, or its one submission is over ...                          *)
Running(j) == service[j] \in Alive \cup {"starting"}
SubmittedBy(c, j) == task[c].at \in Submitting /\ task[c].job = j
MayLaunch(c, j) == task[c].at \in {"reserve", "launch"} /\ task[c].job = j
Over(j) ==
    \/ phase[j] = "outcome_unknown"
    \/ ~Running(j) /\ \A c \in Clients : MayLaunch(c, j) => ~Reachable(j)
ServiceInv ==
    /\ \A j \in Jobs :
        /\ born[j] <= boot /\ (Running(j) => Reachable(j))
        /\ result[j] # "none" => service[j] \in {"failed", "gone"}
        /\ row[j] \in Outcome => Over(j)
    /\ \A c \in Clients, j \in Jobs :
        /\ MayLaunch(c, j) => service[j] = "absent" /\ result[j] = "none"
        /\ SubmittedBy(c, j) => phase[j] # "outcome_unknown"

(* ... what an observer has read of it stays true ...                      *)
LookInv ==
    \A c \in Clients, j \in Jobs : task[c].job = j =>
        /\ task[c].at = "release" => Over(j)
        /\ task[c].at \in {"look", "inspect"} => task[c].saw = 0
        /\ task[c].at = "settle" /\ task[c].found \in Results => result[j] = task[c].found
        /\ task[c].at \in {"recheck", "settle"}
             /\ task[c].saw \notin {0, Unknown, born[j]} => ~Reachable(j)

(* ... and the reservation is only given up, or to another job, when what  *)
(* it was for is over.                                                     *)
SlotInv ==
    /\ \A j \in Jobs : Running(j) => reserved = j \/ phase[j] = "outcome_unknown"
    /\ \A c \in Clients :
        /\ task[c].at = "launch" => reserved = task[c].job
        /\ task[c].at \in {"commit", "reserve"} =>
              \A j \in Jobs : Running(j) => phase[j] = "outcome_unknown"
    /\ \A i, j \in Jobs : i # j /\ key[i] = key[j] => key[i] = NoKey

(* The inductive invariant of CommandJobs.                                 *)
OutcomeInv ==
    \A j \in Jobs :
        /\ row[j] = "success" => result[j] = "success"
        /\ row[j] = "cancelled" => result[j] = "killed" /\ asked[j]
IInv == TypeOK /\ LockInv /\ RowInv /\ ServiceInv /\ LookInv /\ SlotInv /\ OutcomeInv
=============================================================================
