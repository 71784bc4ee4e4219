-------------------------------- MODULE Outputs --------------------------------
(***************************************************************************)
(* What is done to an output, side by side: HostApply, which brings its    *)
(* configuration to the host, and, as H, its hardening runs (each with     *)
(* state of its own).                                                      *)
(***************************************************************************)
EXTENDS HostApply

CONSTANTS Admins, MaxRuns, MaxWatches, MaxSettings, Unsafe, MaxTries, MaxCrashes,
          MaxHitches
VARIABLES row, phase, stop, restart, rated, work, clone, lock, server, cleanup,
          asking, crashes, faults, before

H == INSTANCE HardeningRuns WITH MaxFaults <- MaxHitches, past <- before

ASSUME HardeningAssumed == H!HardeningAssumption

hardeningVars == <<row, phase, stop, restart, rated, work, clone, lock, server, cleanup,
                   asking, crashes, faults, before>>

(* A successful run has a verdict on every setting, from a clone that was  *)
(* there (_run_phase2_test_async): see HardeningRuns.                      *)
VerdictsAreTested == H!VerdictsAreTested

(* No clone is left but one that could not be removed or was lost          *)
(* (fail_interrupted_hardening_runs): see HardeningRuns.                   *)
ClonesAreRemoved == H!ClonesAreRemoved
=============================================================================
