-------------------------------- MODULE Backups --------------------------------
(***************************************************************************)
(* What keeps the data of outputs, side by side: the rows and bundles of   *)
(* BackupStore, and, as R, a restore or clone from a bundle, as T, an      *)
(* output that is moved between nodes (each with state of its own).        *)
(***************************************************************************)
EXTENDS BackupStore

CONSTANTS MaxMounts, MaxJobs, MaxRestoreFaults
VARIABLES clone, target, stage, kept, strays, db, assets, host, up, job, jobs,
          restoreFaults, restorePast

R == INSTANCE BackupRestore WITH
    MaxFaults <- MaxRestoreFaults, faults <- restoreFaults, past <- restorePast

CONSTANTS Leader, Followers, MaxTransfers, MaxTransferFaults, MaxWrites
VARIABLES guest, running, aside, stray, placed, ready, applied, joining, transfer,
          form, transfers, transferFaults, writes, transferPast

T == INSTANCE ClusterTransfer WITH
    MaxJobs <- MaxTransfers, MaxFaults <- MaxTransferFaults,
    up <- running, kept <- aside, job <- transfer, jobs <- transfers,
    faults <- transferFaults, past <- transferPast

ASSUME JobsAssumption == R!RestoreAssumption /\ T!TransferAssumption

restoreVars == <<clone, target, stage, kept, strays, db, assets, host, up, job, jobs,
                 restoreFaults, restorePast>>
transferVars == <<guest, running, aside, stray, placed, ready, applied, joining,
                  transfer, form, transfers, transferFaults, writes, transferPast>>

(* The files that were in use exist until a job that replaces them is      *)
(* committed (_RestoreBundleTransaction): see BackupRestore.               *)
DataSurvivesOneRestore == R!DataSurvivesOneRestore

(* Afterwards all is of one version, whatever failed: see BackupRestore.   *)
AllOrNothing == R!AllOrNothing

(* Some node has the data of a transfer (transfer_backend), a failed one   *)
(* leaves the target as it was (_restore_target_rollback), and a follower  *)
(* that the placement names has a guest (run_apply): see ClusterTransfer.  *)
DataSurvivesTransfer == T!DataSurvivesTransfer
FailedTransferIsUndone == T!FailedTransferIsUndone
PlacedIsThere == T!PlacedIsThere
=============================================================================
