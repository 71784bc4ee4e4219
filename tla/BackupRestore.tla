---------------------------- MODULE BackupRestore ----------------------------
(***************************************************************************)
(* restore_backend_backup() and clone_backend_as_new_backend() of          *)
(* app/services/backend_backup_service.py: the files of an output change   *)
(* place with those of a bundle, its configuration with the bundle's, and  *)
(* if a step fails everything changes back.  The host-mutation section is  *)
(* held from the first step to the last, so there is one job at a time.    *)
(* Version 0 of an output is what it was at first (nothing, of a clone),   *)
(* version k what the k-th job brings.                                     *)
(***************************************************************************)
EXTENDS Naturals

CONSTANTS
    MaxMounts,  \* mount entries of the bundle, in their order
    MaxJobs,    \* bound: restores
    MaxFaults   \* bound: steps that fail, processes that die

(* The bounds are numbers.                                                 *)
RestoreAssumption == {MaxMounts, MaxJobs, MaxFaults} \subseteq Nat

Mounts == 1..MaxMounts
Versions == 0..MaxJobs
Nothing == MaxJobs + 1  \* no such path
Torn == MaxJobs + 2     \* a directory whose removal was cut short
Contents == Versions \cup {Nothing, Torn}

VARIABLES
    clone,    \* does the output come into being with its first job?
    target,   \* per mount: what is at the host path
    stage,    \* .cnc-restore-stage-... of this process
    kept,     \* .cnc-restore-rollback-... of this process
    strays,   \* what dead processes left at the rollback paths of theirs
    db,       \* the committed configuration
    assets,   \* the control directory
    host,     \* the configuration the host converged to
    up,       \* does the output run?
    job,      \* the restore at work
    jobs, faults,
    past      \* for the properties only

files == <<target, stage, kept, strays>>
vars == <<clone, files, db, assets, host, up, job, jobs, faults, past>>

(* left: what the rollback at work still has to go through.                *)
NoJob == [at |-> "idle", next |-> 1, staged |-> {}, swapped |-> {}, left |-> {},
          held |-> {}, had |-> {}, wasUp |-> FALSE, started |-> FALSE, undoing |-> FALSE]

(* A restored output exists; some of its paths may not.                    *)
Init ==
    /\ clone \in BOOLEAN
    /\ target \in [Mounts -> IF clone THEN {Nothing} ELSE {0, Nothing}]
    /\ up \in (IF clone THEN {FALSE} ELSE BOOLEAN)
    /\ stage = [m \in Mounts |-> Nothing] /\ kept = [m \in Mounts |-> Nothing]
    /\ strays = [m \in Mounts |-> {}]
    /\ db = 0 /\ assets = 0 /\ host = 0
    /\ job = NoJob /\ jobs = 0 /\ faults = 0
    /\ past = [live |-> target, absent |-> {m \in Mounts : target[m] = Nothing}, up |-> up,
               disturbed |-> FALSE, discarded |-> {}, undone |-> {}, hostAhead |-> FALSE]

At(where) == job.at = where
Goto(where) == job' = [job EXCEPT !.at = where]
RollBack == job' = [job EXCEPT !.at = "reversing", !.left = job.swapped]
Fault == faults < MaxFaults /\ faults' = faults + 1
Steady == UNCHANGED <<clone, strays, jobs>>

-----------------------------------------------------------------------------
(* The section is entered, the bundle verified, the payload validated; of  *)
(* a restored app the container stops.                                     *)
Begin ==
    /\ At("idle") /\ jobs < MaxJobs /\ (clone => db = 0)
    /\ job' = [NoJob EXCEPT !.at = IF up THEN "stopping" ELSE "staging", !.wasUp = up]
    /\ jobs' = jobs + 1
    /\ past' = [past EXCEPT !.live = [m \in Mounts |->
                                IF target[m] \in Versions THEN target[m] ELSE @[m]],
                            !.undone = {m \in @ : target[m] \notin Versions}]
    /\ UNCHANGED <<clone, files, db, assets, host, up, faults>>

Stop ==
    /\ At("stopping") /\ up' = FALSE /\ Goto("staging")
    /\ Steady /\ UNCHANGED <<target, stage, kept, db, assets, host, faults, past>>

(* _RestoreBundleTransaction.apply(): every entry is extracted beside its  *)
(* place, over whatever an earlier job of this process left there.         *)
Stage(m) ==
    /\ At("staging") /\ m = job.next
    /\ stage' = [stage EXCEPT ![m] = jobs] /\ kept' = [kept EXCEPT ![m] = Nothing]
    /\ past' = [past EXCEPT !.discarded =
         IF kept[m] = past.live[m] /\ target[m] # past.live[m] THEN @ \cup {m} ELSE @]
    /\ job' = [job EXCEPT !.next = m + 1, !.staged = @ \cup {m},
                          !.had = IF target[m] = Nothing THEN @ ELSE @ \cup {m}]
    /\ Steady /\ UNCHANGED <<target, db, assets, host, up, faults>>

Staged ==
    /\ At("staging") /\ job.next > MaxMounts
    /\ job' = [job EXCEPT !.at = "away", !.next = 1]
    /\ UNCHANGED <<clone, files, db, assets, host, up, jobs, faults, past>>

(* Then each one takes the place of the old one, which is kept.            *)
MoveAway(m) ==
    /\ At("away") /\ m = job.next
    /\ IF m \in job.had
       THEN /\ kept' = [kept EXCEPT ![m] = target[m]]
            /\ target' = [target EXCEPT ![m] = Nothing]
            /\ job' = [job EXCEPT !.at = "in", !.held = @ \cup {m}]
       ELSE Goto("in") /\ UNCHANGED <<kept, target>>
    /\ Steady /\ UNCHANGED <<stage, db, assets, host, up, faults, past>>

MoveIn(m) ==
    /\ At("in") /\ m = job.next
    /\ target' = [target EXCEPT ![m] = stage[m]] /\ stage' = [stage EXCEPT ![m] = Nothing]
    /\ job' = [job EXCEPT !.at = "away", !.next = m + 1, !.swapped = @ \cup {m}]
    /\ Steady /\ UNCHANGED <<kept, db, assets, host, up, faults, past>>

Moved ==
    /\ At("away") /\ job.next > MaxMounts /\ Goto("writing")
    /\ UNCHANGED <<clone, files, db, assets, host, up, jobs, faults, past>>

(* A path that cannot take its place lets the old one back in, if it can.  *)
MoveInFails(m) ==
    /\ At("in") /\ m = job.next /\ Fault
    /\ job' = [job EXCEPT !.at = "back"]
    /\ Steady /\ UNCHANGED <<target, stage, kept, db, assets, host, up, past>>

MoveBack(m) ==
    /\ At("back") /\ m = job.next
    /\ IF m \in job.had /\ kept[m] # Nothing
       THEN /\ target' = [target EXCEPT ![m] = kept[m]]
            /\ kept' = [kept EXCEPT ![m] = Nothing]
            /\ job' = [job EXCEPT !.at = "reversing", !.left = job.swapped, !.held = @ \ {m}]
       ELSE RollBack /\ UNCHANGED <<target, kept>>
    /\ Steady /\ UNCHANGED <<stage, db, assets, host, up, faults, past>>

MoveBackFails(m) ==
    /\ At("back") /\ m = job.next /\ Fault /\ RollBack
    /\ past' = [past EXCEPT !.disturbed = TRUE]
    /\ Steady /\ UNCHANGED <<target, stage, kept, db, assets, host, up>>

-----------------------------------------------------------------------------
(* The configuration and the routes are flushed, the control directory is  *)
(* written, the output starts, and the host converges to what is flushed.  *)
Write ==
    /\ At("writing") /\ assets' = jobs
    /\ \/ clone /\ Goto("committing")
       \/ ~clone /\ Goto("converging")  \* no container, or disabled in the bundle
       \/ job.wasUp /\ Goto("starting")
    /\ Steady /\ UNCHANGED <<target, stage, kept, db, host, up, faults, past>>

Start ==
    /\ At("starting") /\ up' = TRUE
    /\ job' = [job EXCEPT !.at = "converging", !.started = TRUE]
    /\ Steady /\ UNCHANGED <<target, stage, kept, db, assets, host, faults, past>>

Converge ==
    /\ At("converging") /\ host' = jobs /\ Goto("committing")
    /\ Steady /\ UNCHANGED <<target, stage, kept, db, assets, up, faults, past>>

(* run_apply() fails before, between or after its phases: what it has      *)
(* brought to the new version (Torn: a part of the host) stays there.      *)
ConvergeFails ==
    /\ At("converging") /\ Fault /\ Goto("failing")
    /\ host' \in {host, jobs, Torn}
    /\ past' = [past EXCEPT !.hostAhead = (host' # db)]
    /\ Steady /\ UNCHANGED <<target, stage, kept, db, assets, up>>

Commit ==
    /\ At("committing") /\ db' = jobs /\ Goto("committed")
    /\ past' = [past EXCEPT !.disturbed = FALSE, !.hostAhead = FALSE, !.absent = {},
                            !.up = IF clone THEN @ ELSE up]
    /\ Steady /\ UNCHANGED <<target, stage, kept, assets, host, up, faults>>

(* Mutant: the row is committed before the files are settled for good, and *)
(* the transaction is left to be undone.                                   *)
SettleLate ==
    /\ At("committed") /\ Goto("reporting")
    /\ UNCHANGED <<clone, files, db, assets, host, up, jobs, faults, past>>
(* _RestoreBundleTransaction.commit(): what cannot be removed is logged.   *)
Settle ==
    /\ At("committed")
    /\ \E gone \in SUBSET job.swapped :
         /\ gone = job.swapped \/ faults < MaxFaults
         /\ faults' = IF gone = job.swapped THEN faults ELSE faults + 1
         /\ kept' = [m \in Mounts |-> IF m \in gone THEN Nothing ELSE kept[m]]
    /\ job' = [job EXCEPT !.at = "reporting", !.staged = {}, !.swapped = {}, !.left = {},
                          !.held = {}]
    /\ past' = [past EXCEPT !.live = [m \in Mounts |-> jobs], !.undone = {}]
    /\ Steady /\ UNCHANGED <<target, stage, db, assets, host, up>>

Report ==
    /\ At("reporting") /\ job' = NoJob
    /\ Steady /\ UNCHANGED <<target, stage, kept, db, assets, host, up, faults, past>>

-----------------------------------------------------------------------------
(* A step fails.  The commit fails with the host converged already, and    *)
(* what fails after the commit (reading the row again) undoes the files.   *)
Fails ==
    /\ Fault
    /\ \/ job.at \in {"staging", "away"} /\ RollBack /\ UNCHANGED past
       \/ job.at \in {"stopping", "writing", "starting"}
          /\ Goto("failing") /\ UNCHANGED past
       \/ At("reporting") /\ ~clone /\ Goto("failing") /\ UNCHANGED past
       \/ At("committing") /\ Goto("failing")
             /\ past' = [past EXCEPT !.hostAhead = (host # db)]
       \/ At("committed") /\ Goto("failing") /\ past' = [past EXCEPT !.disturbed = TRUE]
    /\ up' \in IF job.at \in {"stopping", "starting"} THEN BOOLEAN ELSE {up}
    /\ Steady /\ UNCHANGED <<target, stage, kept, db, assets, host>>

(* The handler: the output stops again if it was started; that it does not *)
(* is logged.                                                              *)
StopAgain ==
    /\ At("failing")
    /\ \/ up' = (up /\ ~job.started) /\ UNCHANGED faults
       \/ job.started /\ Fault /\ UNCHANGED up
    /\ job' = [job EXCEPT !.at = "reversing", !.left = job.swapped, !.undoing = TRUE]
    /\ Steady /\ UNCHANGED <<target, stage, kept, db, assets, host, past>>

(* _RestoreBundleTransaction.rollback(): the last replaced path first.     *)
(* apply() calls it on its own failures and the handler once more; the     *)
(* lists it works through are emptied only at its end.                     *)
Last(m) == m \in job.left /\ \A n \in job.left : n <= m

(* Whatever is at the place goes, the old path comes back if it is there:  *)
(* a path that a run before this one put back is removed for good.         *)
Reverse(m) ==
    /\ At("reversing") /\ Last(m)
    /\ target' = [target EXCEPT ![m] = IF m \in job.had THEN kept[m] ELSE Nothing]
    /\ kept' = [kept EXCEPT ![m] = IF m \in job.had THEN Nothing ELSE @]
    /\ job' = [job EXCEPT !.left = @ \ {m}, !.held = @ \ {m}]
    /\ Steady /\ UNCHANGED <<stage, db, assets, host, up, faults, past>>

(* It stops in the middle of a path or of the staged ones, and the lists   *)
(* stay.  In apply()'s own call, the handler's works them off again from   *)
(* the start, with what the first has put back; in the handler's, that was *)
(* the end of the job.                                                     *)
Undone == (job.swapped \ job.left) \cap job.had
StopsShort ==
    /\ Fault
    /\ IF job.undoing THEN job' = NoJob ELSE Goto("failing")
    /\ past' = [past EXCEPT !.disturbed = @ \/ job.undoing \/ Undone # {},
                            !.undone = IF job.undoing THEN @ ELSE @ \cup Undone]

ReverseFails(m) ==
    /\ At("reversing") /\ Last(m) /\ StopsShort
    /\ \E rest \in {Torn, Nothing} : target' = [target EXCEPT ![m] = rest]
    /\ Steady /\ UNCHANGED <<stage, kept, db, assets, host, up>>

TidyFails ==
    /\ At("reversing") /\ job.left = {} /\ StopsShort
    /\ \E gone \in SUBSET job.staged :
         stage' = [m \in Mounts |-> IF m \in gone THEN Nothing ELSE stage[m]]
    /\ Steady /\ UNCHANGED <<target, kept, db, assets, host, up>>

(* Mutant: what is kept is removed with what was staged.                   *)
UnprotectedTidy ==
    /\ At("reversing") /\ job.left = {}
    /\ stage' = [m \in Mounts |-> IF m \in job.staged THEN Nothing ELSE stage[m]]
    /\ kept' = [m \in Mounts |-> IF m \in job.staged THEN Nothing ELSE kept[m]]
    /\ job' = [job EXCEPT !.at = IF job.undoing THEN "rewriting" ELSE "failing",
                          !.staged = {}, !.swapped = {}, !.held = {}]
    /\ Steady /\ UNCHANGED <<target, db, assets, host, up, faults, past>>
Tidy ==
    /\ At("reversing") /\ job.left = {}
    /\ stage' = [m \in Mounts |-> IF m \in job.staged THEN Nothing ELSE stage[m]]
    /\ kept' = [m \in Mounts |-> IF m \in job.staged \ job.held THEN Nothing ELSE kept[m]]
    /\ job' = [job EXCEPT !.at = IF job.undoing THEN "rewriting" ELSE "failing",
                          !.staged = {}, !.swapped = {}, !.held = {}]
    /\ Steady /\ UNCHANGED <<target, db, assets, host, up, faults, past>>

(* The control directory of what the database says, and the output runs if *)
(* it did; of a clone, the control directory goes.                         *)
Rewrite ==
    /\ At("rewriting")
    /\ assets' = IF clone THEN 0 ELSE db
    /\ up' = (up \/ job.wasUp)
    /\ job' = NoJob
    /\ Steady /\ UNCHANGED <<target, stage, kept, db, host, faults, past>>

RewriteFails ==
    /\ At("rewriting") /\ Fault /\ job' = NoJob
    /\ past' = [past EXCEPT !.disturbed = TRUE]
    /\ Steady /\ UNCHANGED <<target, stage, kept, db, assets, host, up>>

(* The process dies or is stopped: nobody takes up the job, and the next   *)
(* process has paths of its own.                                           *)
Dies ==
    /\ ~At("idle") /\ Fault /\ job' = NoJob
    /\ strays' = [m \in Mounts |-> strays[m] \cup ({kept[m]} \ {Nothing})]
    /\ kept' = [m \in Mounts |-> Nothing] /\ stage' = [m \in Mounts |-> Nothing]
    /\ past' = [past EXCEPT !.disturbed = @ \/ ~At("reporting")]
    /\ UNCHANGED <<clone, target, db, assets, host, up, jobs>>

Next ==
    \/ Begin \/ Stop \/ Staged \/ Moved \/ Write \/ Start \/ Converge \/ ConvergeFails \/ Commit
    \/ Settle \/ Report \/ Fails \/ StopAgain \/ Tidy \/ TidyFails
    \/ Rewrite \/ RewriteFails \/ Dies
    \/ \E m \in Mounts : \/ Stage(m) \/ MoveAway(m) \/ MoveIn(m) \/ MoveInFails(m)
                         \/ MoveBack(m) \/ MoveBackFails(m)
                         \/ Reverse(m) \/ ReverseFails(m)

Spec == Init /\ [][Next]_vars

-----------------------------------------------------------------------------
TypeOK ==
    /\ clone \in BOOLEAN /\ up \in BOOLEAN
    /\ target \in [Mounts -> Contents] /\ stage \in [Mounts -> Contents]
    /\ kept \in [Mounts -> Contents] /\ strays \in [Mounts -> SUBSET Contents]
    /\ {db, assets} \subseteq Versions /\ host \in Versions \cup {Torn}
    /\ jobs \in 0..MaxJobs /\ faults \in 0..MaxFaults
    /\ job.next \in 1..MaxMounts + 1
    /\ job.left \subseteq job.swapped /\ job.swapped \subseteq job.staged
    /\ job.held \subseteq job.had

(* The files that were in use when a job began exist, at their place or at *)
(* a rollback path, until the job is committed: no failure of any step, no *)
(* way back that is cut short, and no crash destroys the only copy.  Two   *)
(* ways around it are in the code.  A later restore of the same process    *)
(* writes over a rollback path that an earlier one preserved; and if       *)
(* rollback() fails when apply() calls it, the handler's call removes what *)
(* the first has put back already.                                         *)
DataSurvivesOneRestore ==
    \A m \in Mounts :
        \/ past.live[m] \in {target[m], kept[m], Nothing} \cup strays[m]
        \/ m \in past.discarded \cup past.undone

(* Whatever step of whatever job failed, afterwards the files, the control *)
(* directory and the configuration are of one version, the output runs if  *)
(* it ran, and so is the host unless it had converged, in part or all of   *)
(* it, when the apply or the commit failed.  What disturbs this is a fault *)
(* of the handler's way back, one of apply()'s own once it has put a path  *)
(* back, a dead process, and a fault after the commit; the next success    *)
(* heals all of it.                                                        *)
AllOrNothing ==
    At("idle") /\ ~past.disturbed =>
        /\ \A m \in Mounts : target[m] = IF m \in past.absent THEN Nothing ELSE db
        /\ assets = db /\ (past.up => up)
        /\ clone \/ past.hostAhead \/ host = db
-----------------------------------------------------------------------------
(* Why they hold.  The job runs through the mounts in their order, twice:  *)
(* it stages those before its next one, then replaces them; whatever it    *)
(* replaced or keeps it has staged, and of what it staged and does not     *)
(* hold it keeps nothing ...                                               *)
Replacing == {"away", "in"}
Replaced == {"writing", "starting", "converging", "committing", "committed"}
Undoing == {"failing", "reversing"}
Steps == {"idle", "stopping", "staging", "back", "reporting", "rewriting"}
         \cup Replacing \cup Replaced \cup Undoing

Jobs ==
    [at : Steps, next : Nat, staged : SUBSET Mounts, swapped : SUBSET Mounts,
     left : SUBSET Mounts, held : SUBSET Mounts, had : SUBSET Mounts, wasUp : BOOLEAN, started : BOOLEAN,
     undoing : BOOLEAN]
Pasts ==
    [live : [Mounts -> Versions \cup {Nothing}], absent : SUBSET Mounts, up : BOOLEAN,
     disturbed : BOOLEAN, discarded : SUBSET Mounts, undone : SUBSET Mounts,
     hostAhead : BOOLEAN]
Records == job \in Jobs /\ past \in Pasts

JobInv ==
    /\ At("idle") => job = NoJob
    /\ At("idle") \/ jobs > 0
    /\ job.held \subseteq job.staged
    /\ job.at \in {"stopping", "staging"} =>
          /\ job.staged = {m \in Mounts : m < job.next} /\ job.had \subseteq job.staged
          /\ job.swapped = {} /\ job.held = {}
    /\ At("stopping") => job.next = 1
    /\ At("away") => job.held \subseteq job.swapped
    /\ At("in") => job.held \subseteq job.swapped \cup {job.next}
    /\ job.at \in Replacing \cup Replaced \cup {"back"} => job.staged = Mounts
    /\ job.at \in Replacing \cup {"back"} => job.swapped = {m \in Mounts : m < job.next}
    /\ job.at \in {"in", "back"} => job.next \in Mounts
    /\ job.at \in Replaced => job.swapped = Mounts
    /\ job.at \in {"reporting", "rewriting"} => job.staged = {}
    /\ job.started \/ job.at \in {"stopping", "starting"} => job.wasUp
    /\ clone => db = 0 \/ past.disturbed \/ job.at \in {"idle", "committed", "reporting"}

(* ... a mount that is on its way has an empty place, one that was         *)
(* replaced has the version of the job; what was there is kept until the   *)
(* rollback at work comes to it, or was nothing, or is one that a later    *)
(* job or a second rollback loses ...                                      *)
Waiting == IF At("reversing") THEN job.left ELSE job.swapped
Moving(m) == m = job.next /\ job.at \in {"in", "back"}
StageInv ==
    /\ \A m \in job.staged \ job.held : kept[m] = Nothing
    /\ job.at \in Replacing \cup {"staging"} =>
          \A m \in job.staged \ job.swapped : stage[m] = jobs
PlaceInv ==
    /\ \A m \in Mounts : Moving(m) => target[m] = Nothing
    /\ job.at \in Replacing \cup Replaced => \A m \in job.swapped : target[m] = jobs
    /\ job.at \in Replacing \cup {"staging"} =>
          \A m \in job.staged \ (job.swapped \cup job.had) : target[m] = Nothing
    /\ At("reversing") =>
          \A m \in job.swapped \ (job.left \cup job.had) : target[m] = Nothing
KeptInv ==
    \A m \in Mounts : m \in Waiting \/ Moving(m) =>
        \/ past.live[m] \in {kept[m], Nothing} \cup strays[m]
        \/ m \in past.discarded \cup past.undone

(* ... and until the commit an undisturbed job could put back what was     *)
(* there; after it all is of one version.                                  *)
Was(m) == IF m \in past.absent THEN Nothing ELSE db
UndoInv ==
    ~past.disturbed =>
       /\ job.at \notin {"committed", "reporting"} =>
             \A m \in Mounts :
                /\ m \in job.staged => (m \in job.had <=> Was(m) # Nothing)
                /\ (m \in Waiting \/ Moving(m)) /\ m \in job.had => kept[m] = Was(m)
                /\ m \notin Waiting /\ ~Moving(m) => target[m] = Was(m)
       /\ job.at \in {"committed", "reporting"} =>
             past.absent = {} /\ db = jobs /\ \A m \in Mounts : target[m] = jobs

OutputInv ==
    /\ clone => ~past.up
    /\ job.at \in {"starting", "converging", "committing"} => assets = jobs
    /\ At("committing") => clone \/ host = jobs
    /\ ~past.disturbed =>
          /\ ~At("committing") => clone \/ past.hostAhead \/ host = db
          /\ past.up => up \/ job.wasUp
          /\ job.at \in {"idle", "committed", "reporting"} => assets = db /\ (past.up => up)

(* The inductive invariant of BackupRestore.                               *)
IInv ==
    /\ TypeOK /\ Records /\ JobInv /\ StageInv /\ PlaceInv /\ KeptInv
    /\ UndoInv /\ OutputInv
    /\ DataSurvivesOneRestore

=============================================================================
