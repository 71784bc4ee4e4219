----------------------------- MODULE BackupStore -----------------------------
(***************************************************************************)
(* The backups of one output, app/services/backend_backup_service.py: rows *)
(* and the bundles they name, made, imported, pruned, deleted and restored *)
(* by requests of the server and by command lines.  Bundles are written    *)
(* and restored inside the host-mutation section; backups are deleted and  *)
(* pruned outside of it.  A starting server sweeps rows that still run.    *)
(***************************************************************************)
EXTENDS Naturals, FiniteSets

CONSTANTS
    Workers,    \* requests and command lines
    Server,     \* those of the server process
    NoOne, Sweeper,
    Retention,  \* backend_backup_retention_per_backend
    MaxBackups, \* bound: rows ever created
    MaxFaults   \* bound: failing steps and dying processes

Ids == 1..MaxBackups

ASSUME StoreAssumption ==
    /\ Server \subseteq Workers /\ {NoOne, Sweeper} \cap Workers = {} /\ NoOne # Sweeper
    /\ Retention \in Nat /\ MaxBackups \in Nat /\ MaxFaults \in Nat

VARIABLES
    row,     \* BackendBackup.status, or "none" or "deleted"
    file,    \* its bundle: "none", "temp" (.name.pid.tmp) or "whole"
    section, \* who is in the host-mutation section
    task,    \* what each worker does
    sweep,   \* the cleanup of the starting server, and the rows it read
    faults,
    past     \* for the properties only

vars == <<row, file, section, task, sweep, faults, past>>

Idle == [at |-> "idle", id |-> 0, kind |-> "none", unlink |-> {}]
Rest == [at |-> "idle", rows |-> {}]

Init ==
    /\ row = [i \in Ids |-> "none"] /\ file = [i \in Ids |-> "none"]
    /\ section = NoOne /\ task = [w \in Workers |-> Idle] /\ sweep = Rest
    /\ faults = 0
    /\ past = [bare |-> {}, litter |-> {}]

At(w, where) == task[w].at = where
Goto(w, where) == task' = [task EXCEPT ![w].at = where]
Mine(w) == task[w].id
Exists(i) == i \in Ids /\ row[i] \in {"running", "success", "error"}
Successes == {i \in Ids : row[i] = "success"}
Fault == faults < MaxFaults /\ faults' = faults + 1
Set(i, status) == row' = [row EXCEPT ![i] = IF Exists(i) THEN status ELSE @]
Put(i, what) == file' = [file EXCEPT ![i] = what]

Released(w) == IF section = w THEN NoOne ELSE section

-----------------------------------------------------------------------------
(* create_backend_backup() and import_backend_backup_bundle(): a row with  *)
(* the path of the bundle to be.                                           *)
Begin(w, kind) ==
    /\ At(w, "idle")
    /\ \E i \in Ids : /\ row[i] = "none" /\ \A j \in 1..(i - 1) : row[j] # "none"
                      /\ row' = [row EXCEPT ![i] = "running"]
                      /\ task' = [task EXCEPT ![w] = [Idle EXCEPT !.at = "begun", !.id = i,
                                                                  !.kind = kind]]
    /\ UNCHANGED <<file, section, sweep, faults, past>>

(* The section is entered or found busy.  That fails a new backup; the row *)
(* of an import goes on running until a server starts.                     *)
Enter(w) ==
    /\ At(w, "begun") /\ section = NoOne /\ section' = w /\ Goto(w, "writing")
    /\ UNCHANGED <<row, file, sweep, faults, past>>

Refused(w) ==
    /\ At(w, "begun") /\ section # NoOne
    /\ task' = [task EXCEPT ![w] =
         IF task[w].kind = "import" THEN Idle ELSE [@ EXCEPT !.at = "failing"]]
    /\ UNCHANGED <<row, file, section, sweep, faults, past>>

(* A temporary file, verified before or after it is renamed.               *)
WriteTemp(w) ==
    /\ At(w, "writing") /\ Put(Mine(w), "temp") /\ Goto(w, "written")
    /\ UNCHANGED <<row, section, sweep, faults, past>>

Rename(w) ==
    /\ At(w, "written") /\ Put(Mine(w), "whole") /\ Goto(w, "verified")
    /\ UNCHANGED <<row, section, sweep, faults, past>>

WriteFails(w) ==
    /\ task[w].at \in {"writing", "written"} \/ (At(w, "verified") /\ task[w].kind = "create")
    /\ Fault /\ Goto(w, "failing")
    /\ UNCHANGED <<row, file, section, sweep, past>>

(* The row becomes a success, unless it was deleted meanwhile: an update   *)
(* that finds no row fails.                                                *)
Succeed(w) ==
    /\ At(w, "verified") /\ (Exists(Mine(w)) \/ task[w].kind = "create")
    /\ Set(Mine(w), "success")
    /\ Goto(w, IF Exists(Mine(w)) THEN "succeeded" ELSE "failing")
    /\ UNCHANGED <<file, section, sweep, faults, past>>

(* An import whose commit fails reads the expired record in order to know  *)
(* whether the bundle must go, which may fail as well.                     *)
ImportCommitFails(w) ==
    /\ At(w, "verified") /\ task[w].kind = "import"
    /\ \/ ~Exists(Mine(w)) /\ UNCHANGED faults
       \/ Exists(Mine(w)) /\ Fault
    /\ \/ Put(Mine(w), "none") /\ UNCHANGED past
       \/ file' = file /\ past' = [past EXCEPT !.litter = @ \cup {Mine(w)}]
    /\ task' = [task EXCEPT ![w] = Idle] /\ section' = Released(w)
    /\ UNCHANGED <<row, sweep>>

(* The record is read again: it is gone, or cannot be read.                *)
ReadFails(w) ==
    /\ At(w, "succeeded") /\ task[w].kind = "create"
    /\ \/ ~Exists(Mine(w)) /\ UNCHANGED faults
       \/ Exists(Mine(w)) /\ Fault
    /\ Goto(w, "failing")
    /\ UNCHANGED <<row, file, section, sweep, past>>

(* A backup leaves the section to prune, an import prunes inside of it.    *)
Leave(w) ==
    /\ At(w, "succeeded") /\ Goto(w, "pruning")
    /\ section' = IF task[w].kind = "create" THEN NoOne ELSE section
    /\ UNCHANGED <<row, file, sweep, faults, past>>

-----------------------------------------------------------------------------
(* The bundle goes, then the row is an error.                              *)
(* Mutant: the bundle of a failed backup stays.                            *)
DiscardRowOnly(w) ==
    /\ At(w, "failing") /\ Goto(w, "discarded")
    /\ section' = IF task[w].kind = "create" THEN Released(w) ELSE section
    /\ UNCHANGED <<row, file, sweep, faults, past>>
Discard(w) ==
    /\ At(w, "failing") /\ Put(Mine(w), "none") /\ Goto(w, "discarded")
    /\ section' = IF task[w].kind = "create" THEN Released(w) ELSE section
    /\ UNCHANGED <<row, sweep, faults, past>>

MarkError(w) ==
    /\ At(w, "discarded") /\ Set(Mine(w), "error")
    /\ task' = [task EXCEPT ![w] = Idle] /\ section' = Released(w)
    /\ UNCHANGED <<file, sweep, faults, past>>

MarkErrorFails(w) ==
    /\ At(w, "discarded") /\ Fault
    /\ task' = [task EXCEPT ![w] = Idle] /\ section' = Released(w)
    /\ past' = [past EXCEPT !.bare = @ \cup {Mine(w)}]
    /\ UNCHANGED <<row, file, sweep>>

-----------------------------------------------------------------------------
(* _prune_backend_backups(): what is older than the newest successes.      *)
Newer(i) == {j \in Successes : j > i}
Expired == {i \in Successes : Retention > 0 /\ Cardinality(Newer(i)) >= Retention}

PruneRead(w) ==
    /\ At(w, "pruning")
    /\ task' = [task EXCEPT ![w].at = "expired", ![w].unlink = Expired]
    /\ UNCHANGED <<row, file, section, sweep, faults, past>>

PruneRows(w) ==
    /\ At(w, "expired")
    /\ row' = [i \in Ids |-> IF i \in task[w].unlink THEN "deleted" ELSE row[i]]
    /\ Goto(w, "unlinking")
    /\ UNCHANGED <<file, section, sweep, faults, past>>

(* delete_backend_backup(): any row, whoever is at work on it.             *)
DeleteRow(w, i) ==
    /\ At(w, "idle") /\ Exists(i) /\ row' = [row EXCEPT ![i] = "deleted"]
    /\ task' = [task EXCEPT ![w] = [Idle EXCEPT !.at = "unlinking", !.kind = "delete", !.unlink = {i}]]
    /\ past' = [past EXCEPT !.litter = IF file[i] = "temp" /\ \A v \in Workers : Mine(v) # i
                                       THEN @ \cup {i} ELSE @]
    /\ UNCHANGED <<file, section, sweep, faults>>

Unlink(w) ==
    /\ At(w, "unlinking") /\ task' = [task EXCEPT ![w] = Idle]
    /\ file' = [i \in Ids |-> IF i \in task[w].unlink /\ file[i] = "whole" THEN "none" ELSE file[i]]
    /\ section' = Released(w)
    /\ UNCHANGED <<row, sweep, faults, past>>

-----------------------------------------------------------------------------
(* restore_backend_backup(): the bundle is verified, then the section is   *)
(* entered, then the bundle is read, once for the files and once more for  *)
(* the snapshot of the container, if there is one.  A bundle that is gone  *)
(* by then brings no files, which is no error.                             *)
Verify(w, i) ==
    /\ At(w, "idle") /\ row[i] = "success" /\ file[i] = "whole"
    /\ task' = [task EXCEPT ![w] = [Idle EXCEPT !.at = "checked", !.id = i, !.kind = "restore"]]
    /\ UNCHANGED <<row, file, section, sweep, faults, past>>

EnterRestore(w) ==
    /\ At(w, "checked")
    /\ \/ section = NoOne /\ section' = w /\ Goto(w, "restoring")
       \/ section # NoOne /\ section' = section /\ task' = [task EXCEPT ![w] = Idle]
    /\ UNCHANGED <<row, file, sweep, faults, past>>

Restore(w) ==
    /\ At(w, "restoring")
    /\ Goto(w, IF file[Mine(w)] = "whole" THEN "filled" ELSE "empty")
    /\ UNCHANGED <<row, file, section, sweep, faults, past>>

Finish(w) ==
    /\ \/ At(w, "filled") /\ Goto(w, "restored")
       \/ At(w, "empty")  /\ Goto(w, "unfilled")  \* no snapshot
    /\ section' = Released(w)
    /\ UNCHANGED <<row, file, sweep, faults, past>>

RestoreFails(w) ==
    /\ \/ task[w].at \in {"restoring", "filled"} /\ Fault
       \/ At(w, "empty") /\ UNCHANGED faults
    /\ task' = [task EXCEPT ![w] = Idle] /\ section' = Released(w)
    /\ UNCHANGED <<row, file, sweep, past>>

Reported(w) ==
    /\ task[w].at \in {"restored", "unfilled"}
    /\ task' = [task EXCEPT ![w] = Idle]
    /\ UNCHANGED <<row, file, section, sweep, faults, past>>

-----------------------------------------------------------------------------
(* fail_interrupted_backend_backups(), with the lock of the section.       *)
(* Mutant: the sweep does not wait for the lock.                           *)
SweepAnyway ==
    /\ sweep.at = "due"
    /\ sweep' = [at |-> "read", rows |-> {i \in Ids : row[i] = "running"}]
    /\ UNCHANGED <<row, file, section, task, faults, past>>
SweepReads ==
    /\ sweep.at = "due" /\ section = NoOne /\ section' = Sweeper
    /\ sweep' = [at |-> "read", rows |-> {i \in Ids : row[i] = "running"}]
    /\ UNCHANGED <<row, file, task, faults, past>>

SweepRows ==
    /\ sweep.at = "read"
    /\ IF \A i \in sweep.rows : Exists(i)
       THEN /\ row' = [i \in Ids |-> IF i \in sweep.rows THEN "error" ELSE row[i]]
            /\ sweep' = [sweep EXCEPT !.at = "unlinking"] /\ section' = section
       ELSE row' = row /\ sweep' = Rest /\ section' = Released(Sweeper)
    /\ UNCHANGED <<file, task, faults, past>>

SweepFiles ==
    /\ sweep.at = "unlinking"
    /\ file' = [i \in Ids |-> IF i \in sweep.rows THEN "none" ELSE file[i]]
    /\ sweep' = Rest /\ section' = Released(Sweeper)
    /\ UNCHANGED <<row, task, faults, past>>

(* A process dies with its workers; the server comes back and sweeps.      *)
Cut(who, files) ==
    LET at(where) == {w \in who : At(w, where)}
        lost == {w \in who : Mine(w) \in Ids /\ row[Mine(w)] \in {"error", "deleted"}}
    IN /\ task' = [w \in Workers |-> IF w \in who THEN Idle ELSE task[w]]
       /\ past' = [past EXCEPT
            !.bare = @ \cup {Mine(w) : w \in at("discarded")},
            !.litter = @ \cup files \cup {Mine(w) : w \in at("failing") \cup lost}
                         \cup UNION {task[w].unlink : w \in who}]

ServerDies ==
    /\ Fault /\ Cut(Server, IF sweep.at = "unlinking" THEN sweep.rows ELSE {})
    /\ section' = IF section \in Server \cup {Sweeper} THEN NoOne ELSE section
    /\ sweep' = [Rest EXCEPT !.at = "due"]
    /\ UNCHANGED <<row, file>>

WorkerDies(w) ==
    /\ w \notin Server /\ ~At(w, "idle") /\ Fault
    /\ Cut({w}, {}) /\ section' = Released(w)
    /\ UNCHANGED <<row, file, sweep>>

Step(w) ==
    \/ Begin(w, "create") \/ Begin(w, "import") \/ Enter(w) \/ Refused(w)
    \/ WriteTemp(w) \/ Rename(w) \/ WriteFails(w) \/ Succeed(w) \/ ImportCommitFails(w)
    \/ ReadFails(w) \/ Leave(w) \/ Discard(w) \/ MarkError(w) \/ MarkErrorFails(w)
    \/ PruneRead(w) \/ PruneRows(w) \/ Unlink(w)
    \/ EnterRestore(w) \/ Restore(w) \/ Finish(w) \/ RestoreFails(w) \/ Reported(w)
    \/ \E i \in Ids : DeleteRow(w, i) \/ Verify(w, i)

Next ==
    \/ \E w \in Workers : Step(w) \/ WorkerDies(w)
    \/ SweepReads \/ SweepRows \/ SweepFiles \/ ServerDies

Spec == Init /\ [][Next]_vars

-----------------------------------------------------------------------------
Making  == {"begun", "writing", "written", "verified"}
Undoing == {"failing", "discarded"}
Removing == {"pruning", "expired", "unlinking"}
Restoring == {"checked", "restoring", "filled", "empty", "restored",
              "unfilled"}

States == {"idle", "succeeded"} \cup Making \cup Undoing \cup Removing \cup Restoring
Tasks == [at : States, id : Ids \cup {0}, unlink : SUBSET Ids,
          kind : {"none", "create", "import", "delete", "restore"}]

TypeOK ==
    /\ row \in [Ids -> {"none", "running", "success", "error", "deleted"}]
    /\ file \in [Ids -> {"none", "temp", "whole"}]
    /\ section \in Workers \cup {NoOne, Sweeper}
    /\ task \in [Workers -> Tasks]
    /\ sweep \in [at : {"idle", "due", "read", "unlinking"}, rows : SUBSET Ids]
    /\ past \in [bare : SUBSET Ids, litter : SUBSET Ids]
    /\ faults \in 0..MaxFaults

(* What is listed as a success can be restored: its bundle is there.  The  *)
(* worker that made it takes the bundle away before it corrects the row,   *)
(* and may die or fail in between.                                         *)
SuccessHasBundle ==
    \A i \in Successes :
        file[i] = "whole" \/ i \in past.bare \/ \E w \in Workers : At(w, "discarded") /\ Mine(w) = i

(* Bundles take much of a disk.  One without a row that may be restored or *)
(* settled is about to go, however deletes, prunes, sweeps and failures    *)
(* meet; what is left over is what a process left that died while it       *)
(* removed something or had lost its row to a delete or a sweep, or an     *)
(* import that lost its row.                                               *)
NoLitter ==
    \A i \in Ids : row[i] \in {"error", "deleted"} /\ file[i] # "none" =>
        \/ i \in past.litter \/ (sweep.at = "unlinking" /\ i \in sweep.rows)
        \/ \E w \in Workers : ~At(w, "idle") /\ (Mine(w) = i \/ i \in task[w].unlink)

-----------------------------------------------------------------------------
(* Why they hold.  A backup has one maker, who is alone with it until its  *)
(* row says success, and in the section while there is something to write. *)
Made(w) == task[w].kind \in {"create", "import"}

WorkInv ==
    /\ \A w \in Workers :
        /\ At(w, "idle") => task[w] = Idle
        /\ task[w].at \in Making \cup Undoing \cup {"succeeded"} => Made(w)
        /\ Made(w) => Mine(w) \in Ids
        /\ Mine(w) \in Ids => row[Mine(w)] # "none"
        /\ task[w].at \in {"writing", "written", "verified", "succeeded"} => section = w
    /\ \A v, w \in Workers :
        v # w /\ Mine(v) = Mine(w) /\ Made(w) => ~Made(v) /\ task[w].at \notin Making

(* Rows and bundles keep in step: a success has been renamed, an error     *)
(* discarded, a deleted row is listed by who will unlink its bundle.       *)
BundleInv ==
    /\ \A i \in Ids : row[i] = "none" => file[i] = "none"
    /\ \A i \in Ids : row[i] = "success" => file[i] # "temp"
    /\ \A w \in Workers :
        /\ task[w].at \in Making => row[Mine(w)] # "success"
        /\ task[w].at \in {"begun", "writing", "discarded"} => file[Mine(w)] = "none"
        /\ task[w].at \in {"verified", "succeeded"} =>
              file[Mine(w)] = "whole" \/ (file[Mine(w)] = "none" /\ row[Mine(w)] = "deleted")
        /\ At(w, "expired") => \A i \in task[w].unlink : row[i] \in {"success", "error", "deleted"}
        /\ At(w, "unlinking") => \A i \in task[w].unlink : row[i] = "deleted"
    /\ sweep.at \in {"read", "unlinking"} => section = Sweeper
    /\ sweep.at = "read" => \A i \in sweep.rows : row[i] \in {"running", "error", "deleted"}
    /\ sweep.at = "unlinking" => \A i \in sweep.rows : row[i] \in {"error", "deleted"}

(* A file nobody needs has somebody who removes it.                        *)
MakerAtWork(i) == \E w \in Workers : task[w].at \in Making \cup {"failing"} /\ Mine(w) = i
Swept(i) == sweep.at = "unlinking" /\ i \in sweep.rows
Listed(i) == \E w \in Workers : At(w, "unlinking") /\ i \in task[w].unlink

LitterInv ==
    /\ \A w \in Workers : Mine(w) \in Ids /\ file[Mine(w)] = "temp"
                           => task[w].at \in Making \cup {"failing"}
    /\ \A i \in Ids : file[i] = "temp" /\ row[i] # "running"
                           => i \in past.litter \/ Swept(i) \/ MakerAtWork(i)
    /\ \A i \in Ids : file[i] = "whole" /\ row[i] \in {"error", "deleted"}
                           => i \in past.litter \/ Swept(i) \/ MakerAtWork(i) \/ Listed(i)

(* The inductive invariant of BackupStore.                                 *)
IInv == TypeOK /\ WorkInv /\ BundleInv /\ SuccessHasBundle /\ LitterInv
=============================================================================
