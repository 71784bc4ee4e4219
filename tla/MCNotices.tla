------------------------------ MODULE MCNotices ------------------------------
(* Two scenes of what CNC tells its users: the outbox with a worker of the *)
(* server beside its dispatcher and a timer; the alerts of one output,     *)
(* checked by a timer and by hand.                                         *)
EXTENDS PushoverOutbox, TLC

CONSTANTS server, timer, dispatcher, notice, emergency, periodic, admin, web

Both     == {server, timer}
Machines == {{server, dispatcher}, {timer}}
Kinds    == {notice, emergency}
Alarms   == {emergency}
Alike    == Permutations({periodic, admin})

VARIABLES scene, entry, running, check, spooled, heard, alarm, credit, lapses

Alerts == INSTANCE BackendAlerts WITH
    Checks <- {periodic, admin}, Backends <- {web}, AutoFix <- TRUE,
    Reminders <- TRUE, MaxLapses <- 1

alertVars == <<entry, running, check, spooled, heard, alarm, credit, lapses>>
scenes == <<scene, vars, alertVars>>

ScenesInit == scene \in {"outbox", "alerts"} /\ Init /\ Alerts!Init
(* Once both messages are known and something has failed, one worker at a  *)
(* time meets the dispatcher.                                              *)
OneWorkerAfterFault ==
    faults' = MaxFaults /\ Known' = Ids => \E w \in Workers : At(w, "idle")'

ScenesNext ==
    /\ scene' = scene
    /\ \/ scene = "outbox" /\ Next /\ OneWorkerAfterFault /\ UNCHANGED alertVars
       \/ scene = "alerts" /\ Alerts!Next /\ UNCHANGED vars
ScenesSpec == ScenesInit /\ [][ScenesNext]_scenes

(* See BackendAlerts.                                                      *)
RecoveredIsEarned == Alerts!RecoveredIsEarned
=============================================================================
