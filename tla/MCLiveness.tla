------------------------------ MODULE MCLiveness ------------------------------
(* What must happen in the end, a component per scene: the alerts of one   *)
(* output, the update runs, the commands of a guest, the outbox, the       *)
(* channel of an agent, the hardening runs of one output.                  *)
EXTENDS AgentChannel

CONSTANTS build, lint, periodic, web, poller, launcher, agent, first,
          NoClient, NoKey, timer, dispatcher, notice, emergency, user

Both == {build, lint}

VARIABLES scene
VARIABLES entry, running, check, spooled, heard, alarm, credit, lapses
VARIABLES status, failures, unit, updater, log, look, launch, runFaults, early
VARIABLES row, phase, key, asked, born, service, result, boot, up,
          reserved, circuit, host, probe, command, deaths
VARIABLES spool, subject, recent, receipt, lock, task, taken, ringing, rung,
          lapsed, faults
VARIABLES run, watch, stop, restart, rated, thread, copy, section, server,
          cleanup, asking, crashes, hitches, before

alertVars == <<entry, running, check, spooled, heard, alarm, credit, lapses>>
runVars == <<status, failures, unit, updater, log, look, launch, runFaults, early>>
jobVars == <<row, phase, key, asked, born, service, result, boot, up,
             reserved, circuit, host, probe, command, deaths>>
outboxVars == <<spool, subject, recent, receipt, lock, task, taken, ringing, rung,
                lapsed, faults>>
hardeningVars == <<run, watch, stop, restart, rated, thread, copy, section, server,
                   cleanup, asking, crashes, hitches, before>>

Alerts == INSTANCE BackendAlerts WITH
    Checks <- {periodic}, Backends <- {web}, AutoFix <- TRUE, Reminders <- TRUE,
    MaxLapses <- 1
Updates == INSTANCE UpdateRuns WITH
    Observers <- {poller, launcher}, Launchers <- {launcher}, MaxRuns <- 1,
    LookupAttempts <- 1, MaxFaults <- 1, faults <- runFaults
Commands == INSTANCE CommandJobs WITH
    Clients <- {agent}, Keys <- {first}, MaxJobs <- 1, MaxStops <- 1,
    MaxDeaths <- 1, Glitches <- FALSE, guard <- probe, task <- command
Outbox == INSTANCE PushoverOutbox WITH
    Workers <- {timer}, Dispatcher <- dispatcher, Homes <- {{dispatcher}, {timer}},
    Subjects <- {notice, emergency}, Emergencies <- {emergency},
    MaxIntents <- 1, Limit <- 1, MaxFaults <- 1, past <- lapsed
Hardening == INSTANCE HardeningRuns WITH
    Admins <- {user}, MaxRuns <- 2, MaxWatches <- 1, MaxSettings <- 1,
    Unsafe <- {}, MaxTries <- 1, MaxCrashes <- 1, MaxFaults <- 1,
    row <- run, phase <- watch, work <- thread, clone <- copy, lock <- section,
    faults <- hitches, past <- before

(* The agent's channel serves two execs, or one exec and two terminals;    *)
(* what it serves, no fairness asks for.                                   *)
ServesThree == execs = 2 => shell[1] = NoShell

ASSUME AlertsAssumed == Alerts!AlertsAssumption

scenes == <<scene, vars, alertVars, runVars, jobVars, outboxVars, hardeningVars>>

ScenesInit ==
    /\ scene \in {"alerts", "updates", "commands", "outbox", "channel", "hardening"}
    /\ Init /\ Alerts!Init /\ Updates!Init /\ Commands!Init /\ Outbox!Init
    /\ Hardening!Init

Alerting(step) ==
    /\ scene = "alerts" /\ step
    /\ UNCHANGED <<scene, vars, runVars, jobVars, outboxVars, hardeningVars>>
Updating(step) ==
    /\ scene = "updates" /\ step
    /\ UNCHANGED <<scene, vars, alertVars, jobVars, outboxVars, hardeningVars>>
Commanding(step) ==
    /\ scene = "commands" /\ step
    /\ UNCHANGED <<scene, vars, alertVars, runVars, outboxVars, hardeningVars>>
Spooling(step) ==
    /\ scene = "outbox" /\ step
    /\ UNCHANGED <<scene, vars, alertVars, runVars, jobVars, hardeningVars>>
Serving(step) ==
    /\ scene = "channel" /\ step
    /\ UNCHANGED <<scene, alertVars, runVars, jobVars, outboxVars, hardeningVars>>
Testing(step) ==
    /\ scene = "hardening" /\ step
    /\ UNCHANGED <<scene, vars, alertVars, runVars, jobVars, outboxVars>>

ScenesNext ==
    \/ Alerting(Alerts!Next) \/ Updating(Updates!Next)
    \/ Commanding(Commands!Next) \/ Spooling(Outbox!Next)
    \/ Serving(Next) \/ Testing(Hardening!Next)

(* A behaviour has one scene, so a disjunction over the scenes is as fair  *)
(* as each of its parts.  The columns are the conjuncts of the components' *)
(* own Fairness.                                                           *)
Each(alert, update, job, spooling, serving, testing) ==
    \/ Alerting(alert) \/ Updating(update) \/ Commanding(job)
    \/ Spooling(spooling) \/ Serving(serving) \/ Testing(testing)
Arrived(kind) == Alerts!Arrives([kind |-> kind, of |-> web])
Stopping ==
    service[1] = "stopping" /\ \E how \in Commands!Results : Commands!ServiceEnds(1, how)
Launching ==
    \/ Updates!LaunchReconciled(launcher) \/ Updates!LaunchUnit(launcher)
    \/ Updates!RecordBroken(launcher)
Settling ==
    \/ Outbox!SettleAccepted(dispatcher) \/ Outbox!SettleTransient(dispatcher)
    \/ Outbox!SettleRefused(dispatcher)

ScenesFairness ==
    /\ WF_scenes(Each(Alerts!Step(periodic), Updates!UpdaterStep(1),
                      Commands!Proceed(agent), Outbox!Collect, LoopStep,
                      Hardening!Step(1)))
    /\ WF_scenes(Each(Alerts!LeaseOfTheDead, Updates!LookShow(poller),
                      Commands!Refused(agent), Outbox!Pick, ExecStep(build),
                      Hardening!Step(2)))
    /\ WF_scenes(Each(Arrived("down"), Updates!LookWrite(poller),
                      Commands!StopFails(agent, FALSE), Outbox!Ripens(1),
                      ShellStep(1), Hardening!CleanupStep))
    /\ WF_scenes(Each(Arrived("reminder"), Updates!LookShow(launcher),
                      Stopping, Outbox!Take(dispatcher), Killed(1), Hardening!Restarts))
    /\ WF_scenes(Each(Arrived("recovered"), Updates!LookWrite(launcher),
                      Commands!ServiceStarts(1) \/ Commands!OrphanEnds(1),
                      Outbox!Read(dispatcher), ShellStep(2), Hardening!OtherLeaves))
    /\ WF_scenes(Each(Alerts!Arrives(Alerts!AllDown), Launching,
                      Commands!CircuitCleared, Outbox!Unavailable(dispatcher),
                      Killed(2), FALSE))
    /\ WF_scenes(Each(FALSE, FALSE, FALSE, Settling, ExecStep(lint), FALSE))
    /\ SF_scenes(Each(Alerts!Begin(periodic), Updates!Polling(1), Commands!Maintain(agent),
                      Outbox!Accept(dispatcher) \/ Outbox!Refuse(dispatcher), FALSE, FALSE))
    /\ SF_scenes(Each(Alerts!Recall(periodic), FALSE,
                      Commands!Stop(agent, FALSE) \/ Commands!StopFindsNone(agent),
                      FALSE, FALSE, FALSE))
    /\ SF_scenes(Each(Alerts!Ages(web), FALSE, Commands!Observe(agent, 1),
                      FALSE, FALSE, FALSE))
    /\ SF_scenes(Each(FALSE, FALSE, asked[1] /\ Commands!Cancel(agent, 1),
                      FALSE, FALSE, FALSE))

ScenesSpec == ScenesInit /\ [][ScenesNext]_scenes /\ ScenesFairness

(* The type invariant of the component at work, or, where there are        *)
(* proofs, its whole inductive invariant.                                  *)
ScenesTypeOK ==
    /\ scene = "alerts" => Alerts!TypeOK
    /\ scene = "updates" => Updates!IInv
    /\ scene = "commands" => Commands!IInv
    /\ scene = "outbox" => Outbox!IInv
    /\ scene = "channel" => IInv
    /\ scene = "hardening" => Hardening!IInv

(* Each is the component's own; out of its scene a component never moves.  *)
OutageIsAnnounced == Alerts!OutageIsAnnounced
PendingIsSettled == Updates!PendingIsSettled
ResultIsRecorded == Commands!ResultIsRecorded
CancelSettles == Commands!CancelSettles
IntentsSettle == Outbox!IntentsSettle
RunsSettle == Hardening!RunsSettle
=============================================================================
