------------------------------- MODULE MCOutputs -------------------------------
(* What is done to an output, a part per scene: it is applied by an admin's *)
(* request, an auto-size tick and a plain apply; its hardening is tested on *)
(* clones, by a run that may be interrupted and resumed.                    *)
EXTENDS MCHostApply, Outputs

VARIABLES scene
scenes == <<scene, vars, hardeningVars>>

ScenesInit ==
    /\ scene \in {"apply", "hardening"} /\ Init /\ H!Init
    /\ scene = "hardening" => marker = NoRun /\ db = [x \in Slices |-> 1]
(* Before the third run there was a fault or a crash, not both.            *)
OneMishapOfThree == row'[3] # "none" => faults' + crashes' <= 1

(* Two of the faults, the interruption and the upgrade, in any order.       *)
TwoMishaps == used'.faults + used'.stops + used'.upgrades <= 2

ScenesNext ==
    /\ scene' = scene
    /\ \/ scene = "apply" /\ Next /\ TwoMishaps /\ UNCHANGED hardeningVars
       \/ scene = "hardening" /\ H!Next /\ OneMishapOfThree /\ UNCHANGED vars
ScenesSpec == ScenesInit /\ [][ScenesNext]_scenes
=============================================================================
