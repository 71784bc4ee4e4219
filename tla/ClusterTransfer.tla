--------------------------- MODULE ClusterTransfer ---------------------------
(***************************************************************************)
(* transfer_backend() and setup_backend_replica() of                       *)
(* app/services/cluster_transfer.py, and the form that saves a placement,  *)
(* for one output.  Each runs in the host-mutation section, one at a time, *)
(* and applies the host; a follower is told what to do by scripts over     *)
(* ssh.  The followers an output is placed on need a row that says that    *)
(* its guest was restored there and answered.                              *)
(***************************************************************************)
EXTENDS Naturals

CONSTANTS
    Leader, Followers,
    MaxJobs,    \* bound: transfers, setups and saved placements
    MaxFaults,  \* bound: steps that fail, processes that die
    MaxWrites   \* bound: changes the output makes to its data

Nodes == Followers \cup {Leader}

(* The leader is no follower; the bounds are numbers.                      *)
TransferAssumption ==
    Leader \notin Followers /\ {MaxJobs, MaxFaults, MaxWrites} \subseteq Nat

(* A guest: none, a new one, or the data after some changes.               *)
Nothing == 0
Fresh == 1
Contents == 0..(2 + MaxWrites)

VARIABLES
    guest,    \* the sandbox of the output on each node
    up,       \* does it run there?
    kept,     \* what a restore put aside there, to be put back
    stray,    \* a rollback directory of a dead process on the leader
    placed,   \* the columns of the committed placement
    ready,    \* followers with a committed readiness row
    applied,  \* the nodes of the last apply that was recorded
    joining,  \* followers that have not reported yet
    job,      \* the transfer, setup or saved placement at work
    form,     \* a placement that was asked for, or applied and not saved
    jobs, faults, writes,
    past      \* for the properties only

hostVars == <<guest, up, kept, stray>>
rowVars == <<placed, ready, applied>>
bounds == <<jobs, writes>>
vars == <<hostVars, rowVars, joining, job, form, bounds, faults, past>>

(* PlacementConfig: a single node, or several of which one is active.      *)
Names == {"multi", "nodes", "active"}
Columns == [multi : BOOLEAN, nodes : SUBSET Nodes, active : Nodes]
Single(n) == [multi |-> FALSE, nodes |-> {}, active |-> n]
Placements ==
    {p \in Columns : IF p.multi THEN p.active \in p.nodes /\ p.nodes # {p.active}
                     ELSE p.nodes = {}}
NodesOf(p) == IF p.multi THEN p.nodes \cup {p.active} ELSE {p.active}

(* A session writes the columns it changed and leaves the others as they   *)
(* are by then.                                                            *)
Changed(row, want) == {c \in Names : row[c] # want[c]}
Merged(row, want, cols) ==
    [multi  |-> IF "multi" \in cols THEN want.multi ELSE row.multi,
     nodes  |-> IF "nodes" \in cols THEN want.nodes ELSE row.nodes,
     active |-> IF "active" \in cols THEN want.active ELSE row.active]

Forms == [at : {"none", "asked", "unsaved"}, want : Placements, cols : SUBSET Names]
NoForm == [at |-> "none", want |-> Single(Leader), cols |-> {}]
NoJob == [at |-> "idle", kind |-> "none", source |-> Leader, target |-> Leader,
          wasUp |-> FALSE, bundle |-> Nothing, next |-> Single(Leader),
          cols |-> {}, todo |-> {}, cleaned |-> {}]
NoPast == [moved |-> Nothing, source |-> Leader, target |-> Leader,
           guest |-> Nothing, up |-> FALSE, unseen |-> FALSE, failed |-> FALSE,
           stopped |-> FALSE, excused |-> FALSE, died |-> FALSE, hollow |-> {}]

(* Wherever it is placed the output has a guest, and perhaps a copy on a   *)
(* follower it is not placed on.                                           *)
Init ==
    /\ placed \in Placements
    /\ applied = NodesOf(placed)
    /\ ready \in {r \in SUBSET Followers : applied \cap Followers \subseteq r}
    /\ joining \in SUBSET (Followers \ ready)
    /\ guest = [n \in Nodes |-> IF n \in applied \cup ready THEN 2 ELSE Nothing]
    /\ up = [n \in Nodes |-> n \in applied \cup ready]
    /\ kept = [n \in Nodes |-> Nothing] /\ stray = FALSE
    /\ job = NoJob /\ form = NoForm
    /\ jobs = 0 /\ faults = 0 /\ writes = 0
    /\ past = NoPast

At(where) == job.at = where
Goto(where) == job' = [job EXCEPT !.at = where]
Fault == faults < MaxFaults /\ faults' = faults + 1
Remote == job.target \in Followers
Transfer == job.kind = "transfer"
Steady == UNCHANGED <<joining, form, bounds>>

(* The job ends; a restored target is put back first if it can be.         *)
GiveUp == job' = NoJob
Failed == past' = [past EXCEPT !.failed = TRUE]
Excused == past' = [past EXCEPT !.excused = TRUE]

-----------------------------------------------------------------------------
(* The section is entered, the placement and the target's state read, and  *)
(* the source archived: a new guest has none.  Whether the target runs is  *)
(* asked with a command; one that fails or gets no answer says it does not.*)
Begin(kind, target, heard) ==
    /\ At("idle") /\ jobs < MaxJobs
    /\ kind = "transfer" => target # placed.active
    /\ kind = "fresh" => target \in Followers
    /\ kind # "fresh" => guest[placed.active] # Nothing
    /\ IF heard THEN faults' = faults ELSE Fault /\ up[target]
    /\ job' = [NoJob EXCEPT
         !.at = IF kind = "clone" /\ target = placed.active THEN "verify" ELSE "restore",
         !.kind = kind, !.source = placed.active, !.target = target,
         !.wasUp = up[target] /\ heard,
         !.bundle = IF kind = "fresh" THEN Fresh ELSE guest[placed.active],
         !.next = Single(target), !.cols = Changed(placed, Single(target)),
         !.todo = IF kind = "transfer" THEN NodesOf(placed) \ {Leader, target} ELSE {}]
    /\ past' = [NoPast EXCEPT
         !.moved = IF kind = "transfer" THEN guest[placed.active] ELSE Nothing,
         !.source = placed.active, !.target = target, !.guest = guest[target],
         !.up = up[target], !.unseen = ~heard, !.hollow = past.hollow]
    /\ jobs' = jobs + 1
    /\ UNCHANGED <<hostVars, rowVars, joining, form, writes>>

(* _remote_restore_script, _remote_fresh_setup_script: one script stops    *)
(* what runs, puts the old guest aside, moves the new one in, starts it.   *)
RestoreRemote ==
    /\ At("restore") /\ Remote
    /\ kept' = [kept EXCEPT ![job.target] = guest[job.target]]
    /\ guest' = [guest EXCEPT ![job.target] = job.bundle]
    /\ up' = [up EXCEPT ![job.target] = TRUE]
    /\ Goto("verify")
    /\ Steady /\ UNCHANGED <<stray, rowVars, faults, past>>

(* It puts things right itself when it fails: before the move nothing but  *)
(* the stop has happened, if that; after it everything is put back.        *)
RemoteFails(moved) ==
    /\ At("restore") /\ Remote /\ Fault
    /\ up' = [up EXCEPT ![job.target] = moved /\ job.wasUp]
    /\ past' = [past EXCEPT !.failed = TRUE, !.stopped = ~moved]
    /\ GiveUp
    /\ Steady /\ UNCHANGED <<guest, kept, stray, rowVars>>

(* Its success goes unheard: the job fails with nothing to put back.       *)
RemoteUnheard ==
    /\ At("restore") /\ Remote /\ Fault
    /\ guest' = [guest EXCEPT ![job.target] = job.bundle]
    /\ up' = [up EXCEPT ![job.target] = TRUE]
    /\ Excused /\ GiveUp
    /\ Steady /\ UNCHANGED <<kept, stray, rowVars>>

(* _restore_local_backend: stopped, put aside over whatever this process   *)
(* put aside before ...                                                    *)
RestoreLocalAway ==
    /\ At("restore") /\ ~Remote
    /\ up' = [up EXCEPT ![Leader] = FALSE]
    /\ kept' = [kept EXCEPT ![Leader] = guest[Leader]]
    /\ guest' = [guest EXCEPT ![Leader] = Nothing]
    /\ Goto("in")
    /\ Steady /\ UNCHANGED <<stray, rowVars, faults, past>>

(* ... and moved in, or the old one is moved back.                         *)
RestoreLocalIn ==
    /\ At("in")
    /\ guest' = [guest EXCEPT ![Leader] = job.bundle]
    /\ Goto("start")
    /\ Steady /\ UNCHANGED <<up, kept, stray, rowVars, faults, past>>

LocalFails ==
    /\ At("in") /\ Fault
    /\ guest' = [guest EXCEPT ![Leader] = kept[Leader]]
    /\ kept' = [kept EXCEPT ![Leader] = Nothing]
    /\ past' = [past EXCEPT !.failed = TRUE, !.stopped = TRUE]
    /\ GiveUp
    /\ Steady /\ UNCHANGED <<up, stray, rowVars>>

StartLocal ==
    /\ At("start")
    /\ up' = [up EXCEPT ![Leader] = TRUE]
    /\ Goto("verify")
    /\ Steady /\ UNCHANGED <<guest, kept, stray, rowVars, faults, past>>

(* A setup starts the copy outside its try.                                *)
StartFails ==
    /\ At("start") /\ Fault
    /\ IF Transfer THEN Failed /\ Goto("undo") ELSE Excused /\ GiveUp
    /\ Steady /\ UNCHANGED <<hostVars, rowVars>>

-----------------------------------------------------------------------------
(* A form that was flushed and not committed has the database's write lock.*)
Writable == form.at # "unsaved"

(* _verify_tcp, and the readiness row, flushed and not committed yet.      *)
Verify ==
    /\ At("verify") /\ up[job.target] /\ Writable
    /\ Goto(IF Transfer THEN "apply" ELSE "row")
    /\ Steady /\ UNCHANGED <<hostVars, rowVars, faults, past>>

VerifyFails ==
    /\ At("verify") /\ IF up[job.target] THEN Fault ELSE faults' = faults
    /\ IF Transfer THEN Failed /\ Goto("undo") ELSE Excused /\ Goto("expired")
    /\ Steady /\ UNCHANGED <<hostVars, rowVars>>

(* setup_backend_replica commits the row.                                  *)
CommitRow ==
    /\ At("row") /\ Writable
    /\ ready' = ready \cup (Followers \cap {job.target})
    /\ Goto("discard")
    /\ Steady /\ UNCHANGED <<hostVars, placed, applied, faults, past>>

CommitRowFails ==
    /\ At("row") /\ Fault
    /\ Excused /\ Goto("expired")
    /\ Steady /\ UNCHANGED <<hostVars, rowVars>>

(* Mutant: an undo that does not start what ran before.                    *)
UndoStopped ==
    /\ At("undo")
    /\ guest' = [guest EXCEPT ![job.target] = kept[job.target]]
    /\ kept' = [kept EXCEPT ![job.target] = Nothing]
    /\ up' = [up EXCEPT ![job.target] = FALSE]
    /\ GiveUp
    /\ Steady /\ UNCHANGED <<stray, rowVars, faults, past>>

(* _restore_target_rollback: what was put aside comes back.                *)
Undo ==
    /\ At("undo")
    /\ guest' = [guest EXCEPT ![job.target] = kept[job.target]]
    /\ kept' = [kept EXCEPT ![job.target] = Nothing]
    /\ up' = [up EXCEPT ![job.target] = job.wasUp]
    /\ GiveUp
    /\ Steady /\ UNCHANGED <<stray, rowVars, faults, past>>

(* Its failure is only a message: nothing or half of it was done.          *)
UndoFails(half) ==
    /\ At("undo") /\ Fault
    /\ guest' = [guest EXCEPT ![job.target] = IF half THEN Nothing ELSE @]
    /\ up' = [up EXCEPT ![job.target] = IF half THEN FALSE ELSE @]
    /\ past' = [past EXCEPT !.excused = TRUE,
                            !.hollow = IF half THEN @ \cup {job.target} ELSE @]
    /\ GiveUp
    /\ Steady /\ UNCHANGED <<kept, stray, rowVars>>

(* Mutant: an undo that works then too.                                    *)
UndoAnyway ==
    /\ At("expired") /\ Goto("undo")
    /\ Steady /\ UNCHANGED <<hostVars, rowVars, faults, past>>

(* After the session has rolled back, the output it holds is expired: to   *)
(* read backend.name outside the session's greenlet raises, so that        *)
(* _restore_target_rollback ends before it does anything.                  *)
UndoExpired ==
    /\ At("expired") /\ GiveUp
    /\ Steady /\ UNCHANGED <<hostVars, rowVars, faults, past>>

-----------------------------------------------------------------------------
(* A form asks for a placement while nothing is at work, of followers that *)
(* are ready, and applies it when it gets the section.  From one multi-    *)
(* node placement to another it may also write the mode or the list with   *)
(* another mode or order.                                                  *)
Ask(p, again) ==
    /\ At("idle") /\ form = NoForm /\ jobs < MaxJobs
    /\ NodesOf(p) \cap Followers \subseteq ready \ joining
    /\ again => placed.multi /\ p.multi
    /\ form' = [at |-> "asked", want |-> p,
                cols |-> Changed(placed, p) \cup (IF again THEN {"multi", "nodes"} ELSE {})]
    /\ UNCHANGED <<hostVars, rowVars, joining, job, bounds, faults, past>>

BeginPlacement ==
    /\ At("idle") /\ form.at = "asked" /\ jobs < MaxJobs
    /\ job' = [NoJob EXCEPT !.at = "apply", !.kind = "place", !.next = form.want,
                            !.cols = form.cols]
    /\ form' = NoForm /\ jobs' = jobs + 1
    /\ past' = [NoPast EXCEPT !.hollow = past.hollow]
    /\ UNCHANGED <<hostVars, rowVars, joining, faults, writes>>

(* The section is taken, or a form that comes meanwhile is refused.        *)
FormRefused ==
    /\ ~At("idle") /\ form.at = "asked" /\ form' = NoForm
    /\ UNCHANGED <<hostVars, rowVars, joining, job, bounds, faults, past>>

(* commit_and_apply: the form commits its columns, with the record of its  *)
(* apply, when its section is over and another job may be at work, or      *)
(* cannot.                                                                 *)
Save ==
    /\ form.at = "unsaved" /\ form' = NoForm
    /\ placed' = Merged(placed, form.want, form.cols)
    /\ applied' = NodesOf(form.want)
    /\ UNCHANGED <<hostVars, ready, joining, job, bounds, faults, past>>

SaveFails ==
    /\ form.at = "unsaved" /\ form' = NoForm /\ Fault
    /\ UNCHANGED <<hostVars, rowVars, joining, job, bounds, past>>

(* The apply of a transfer or a placement, whose row and placement only it *)
(* sees until it commits them.  The followers must be healthy, with a row. *)
Rows == ready \cup (IF Transfer THEN {job.target} \cap Followers ELSE {})
ValidatedByForm ==  \* mutant: a saved placement relies on its form
    Transfer => NodesOf(job.next) \cap Followers \subseteq Rows \ joining
Validated == NodesOf(job.next) \cap Followers \subseteq Rows \ joining

Validate ==
    /\ At("apply") /\ Validated
    /\ Goto("runtime")
    /\ Steady /\ UNCHANGED <<hostVars, rowVars, faults, past>>

(* run_apply rolls back, answers "error", and transfer_backend raises.     *)
ApplyRejected ==
    /\ At("apply") /\ ~Validated
    /\ IF Transfer THEN Excused /\ Goto("expired") ELSE past' = past /\ GiveUp
    /\ Steady /\ UNCHANGED <<hostVars, rowVars, faults>>

(* The leader's containers are those of local outputs.  An apply that      *)
(* lost one, or a full one, removes the containers and directories of all  *)
(* the others; a directory of a restore has no name it could remove.       *)
Blocked == kept[Leader] # Nothing \/ stray
Reconcile(full) ==
    LET local == Leader \in NodesOf(job.next)
        cleans == full \/ (Leader \in applied /\ ~local)
        starts == local /\ (full \/ Leader \notin applied)
    IN  /\ At("runtime") /\ ~(cleans /\ Blocked)
        /\ guest' = [guest EXCEPT ![Leader] =
             IF ~local /\ cleans THEN Nothing
             ELSE IF starts /\ @ = Nothing THEN Fresh ELSE @]
        /\ up' = [up EXCEPT ![Leader] = IF ~local /\ cleans THEN FALSE ELSE starts \/ @]
        /\ Goto("ingress")
        /\ Steady /\ UNCHANGED <<kept, stray, rowVars, faults, past>>

ReconcileBlocked(full) ==
    /\ At("runtime") /\ Blocked
    /\ full \/ (Leader \in applied /\ Leader \notin NodesOf(job.next))
    /\ up' = [up EXCEPT ![Leader] = Leader \in NodesOf(job.next) /\ @]
    /\ IF Transfer THEN Excused /\ Goto("expired") ELSE past' = past /\ GiveUp
    /\ Steady /\ UNCHANGED <<guest, kept, stray, rowVars, faults>>

ApplyFails ==
    /\ job.at \in {"runtime", "ingress"} /\ Fault
    /\ IF Transfer THEN Excused /\ Goto("expired") ELSE past' = past /\ GiveUp
    /\ Steady /\ UNCHANGED <<hostVars, rowVars>>

(* A transfer commits in its section; a form leaves it to commit then.     *)
ApplyCommits ==
    /\ At("ingress") /\ Transfer
    /\ placed' = Merged(placed, job.next, job.cols)
    /\ applied' = NodesOf(job.next)
    /\ ready' = Rows
    /\ Goto("discard")
    /\ Steady /\ UNCHANGED <<hostVars, faults, past>>

PlacementApplied ==
    /\ At("ingress") /\ ~Transfer
    /\ form' = [at |-> "unsaved", want |-> job.next, cols |-> job.cols]
    /\ GiveUp
    /\ UNCHANGED <<hostVars, rowVars, joining, bounds, faults, past>>

-----------------------------------------------------------------------------
(* What was put aside is dropped, or, the failure only logged, is not.     *)
Discard(drops) ==
    /\ At("discard") /\ IF drops THEN faults' = faults ELSE Fault
    /\ kept' = [kept EXCEPT ![job.target] = IF drops THEN Nothing ELSE @]
    /\ IF Transfer THEN Goto("cleanup") ELSE GiveUp
    /\ Steady /\ UNCHANGED <<guest, up, stray, rowVars, past>>

(* A transfer removes the guests of the followers it left ...              *)
CleanUp(n) ==
    /\ At("cleanup") /\ n \in job.todo
    /\ guest' = [guest EXCEPT ![n] = Nothing] /\ up' = [up EXCEPT ![n] = FALSE]
    /\ job' = [job EXCEPT !.todo = @ \ {n}, !.cleaned = @ \cup {n}]
    /\ Steady /\ UNCHANGED <<kept, stray, rowVars, faults, past>>

(* ... and is warned of one that fails, early or when its guest is gone.   *)
CleanUpFails(n, gone) ==
    /\ At("cleanup") /\ n \in job.todo /\ Fault
    /\ guest' = [guest EXCEPT ![n] = IF gone THEN Nothing ELSE @]
    /\ up' = [up EXCEPT ![n] = FALSE]
    /\ job' = [job EXCEPT !.todo = @ \ {n}]
    /\ past' = [past EXCEPT !.hollow = IF gone THEN @ \cup {n} ELSE @]
    /\ Steady /\ UNCHANGED <<kept, stray, rowVars>>

(* Their readiness rows are deleted, if that commits.                      *)
DeleteRows(commits) ==
    /\ At("cleanup") /\ job.todo = {}
    /\ IF commits THEN faults' = faults ELSE Fault /\ job.cleaned # {}
    /\ ready' = IF commits THEN ready \ job.cleaned ELSE ready
    /\ past' = [past EXCEPT !.hollow = IF commits THEN @ ELSE @ \cup job.cleaned]
    /\ GiveUp
    /\ Steady /\ UNCHANGED <<hostVars, placed, applied>>

(* The server dies: what was not committed is lost, what was put aside has *)
(* nobody to put it back.                                                  *)
Dies ==
    /\ ~At("idle") \/ form.at = "unsaved"
    /\ Fault
    /\ stray' = (stray \/ kept[Leader] # Nothing)
    /\ kept' = [n \in Nodes |-> Nothing]
    /\ past' = [past EXCEPT !.excused = TRUE, !.died = TRUE,
                            !.hollow = @ \cup job.cleaned]
    /\ form' = NoForm /\ GiveUp
    /\ UNCHANGED <<guest, up, rowVars, joining, bounds>>

(* The output writes; a follower that was joining becomes healthy.         *)
Write ==
    /\ writes < MaxWrites /\ guest[placed.active] > Fresh /\ up[placed.active]
    /\ guest' = [guest EXCEPT ![placed.active] = @ + 1]
    /\ writes' = writes + 1
    /\ past' = [past EXCEPT !.guest =
         IF past.target = placed.active /\ job.at \in {"idle", "restore"} THEN @ + 1 ELSE @]
    /\ UNCHANGED <<up, kept, stray, rowVars, joining, job, form, jobs, faults>>

Joined(n) ==
    /\ n \in joining /\ joining' = joining \ {n}
    /\ UNCHANGED <<hostVars, rowVars, job, form, bounds, faults, past>>

(* One whose installer runs again is joining until it reports.             *)
Rejoins(n) ==
    /\ n \notin joining /\ Fault /\ joining' = joining \cup {n}
    /\ UNCHANGED <<hostVars, rowVars, job, form, bounds, past>>

-----------------------------------------------------------------------------
Next ==
    \/ \E kind \in {"transfer", "clone", "fresh"}, n \in Nodes, heard \in BOOLEAN :
          Begin(kind, n, heard)
    \/ RestoreRemote \/ RemoteUnheard \/ \E moved \in BOOLEAN : RemoteFails(moved)
    \/ RestoreLocalAway \/ RestoreLocalIn \/ LocalFails \/ StartLocal \/ StartFails
    \/ Verify \/ VerifyFails \/ CommitRow \/ CommitRowFails
    \/ Undo \/ UndoExpired \/ \E half \in BOOLEAN : UndoFails(half)
    \/ \E p \in Placements, again \in BOOLEAN : Ask(p, again)
    \/ BeginPlacement \/ FormRefused \/ PlacementApplied \/ Save \/ SaveFails
    \/ Validate \/ ApplyRejected \/ ApplyFails \/ ApplyCommits
    \/ \E full \in BOOLEAN : Reconcile(full) \/ ReconcileBlocked(full)
    \/ \E drops \in BOOLEAN : Discard(drops)
    \/ \E n \in Followers : CleanUp(n) \/ \E gone \in BOOLEAN : CleanUpFails(n, gone)
    \/ \E commits \in BOOLEAN : DeleteRows(commits)
    \/ Dies \/ Write \/ \E n \in Followers : Joined(n) \/ Rejoins(n)

Spec == Init /\ [][Next]_vars

-----------------------------------------------------------------------------
Steps == {"idle", "restore", "in", "start", "verify", "row", "apply", "runtime",
          "ingress", "discard", "cleanup", "undo", "expired"}

(* The state of the nodes, the rows and the job, and that the nodes of the *)
(* last recorded apply have rows: a follower is warned of, never placed    *)
(* unseen.                                                                 *)
TypeOK ==
    /\ guest \in [Nodes -> Contents] /\ kept \in [Nodes -> Contents]
    /\ up \in [Nodes -> BOOLEAN] /\ \A n \in Nodes : up[n] => guest[n] # Nothing
    /\ stray \in BOOLEAN
    /\ placed \in Columns /\ form \in Forms
    /\ ready \in SUBSET Followers /\ joining \in SUBSET Followers
    /\ applied \in SUBSET Nodes /\ applied \cap Followers \subseteq ready
    /\ job.at \in Steps /\ {job.source, job.target} \subseteq Nodes
    /\ At("idle") => job = NoJob

(* Wherever a transfer fails, and whatever fails again when it is undone,  *)
(* some node has a guest with the data that it was to move, or with later  *)
(* ones, until another job begins (transfer_backend: the source goes after *)
(* the target was verified, an undo never follows the apply).              *)
DataSurvivesTransfer ==
    past.moved # Nothing => \E n \in Nodes : guest[n] >= past.moved

(* A transfer that fails before it asks for an apply, or a script that     *)
(* fails on its own, leaves the target as it was: the same guest, running  *)
(* if it ran, unless the failure came between the stop and the move, or    *)
(* the question whether it ran was not answered.                           *)
FailedTransferIsUndone ==
    At("idle") /\ past.failed /\ ~past.excused =>
        /\ guest[past.target] = past.guest
        /\ up[past.target] = (past.up /\ ~past.stopped /\ ~past.unseen)

(* An output is never placed on a follower where it has no guest, however  *)
(* a form and a transfer come together: run_apply looks again for the rows *)
(* the form relied on.  Only a cleanup, or an undo, whose end the leader   *)
(* did not learn or record leaves a row without a guest.  And where each   *)
(* of two sessions wrote its columns, the placement names nodes that the   *)
(* last apply did not know of.                                             *)
PlacedIsThere ==
    \A n \in NodesOf(placed) \cap Followers :
        guest[n] # Nothing \/ n \in past.hollow \/ n \notin applied

(* VIOLATED: "... switch placement, render routes, then stop the source"   *)
(* (app/templates/output_detail.html).  A transfer that does not switch    *)
(* the placement, though the server lives on, leaves the source its guest. *)
FailedTransferKeepsSource ==
    At("idle") /\ past.moved # Nothing /\ ~past.died /\ placed.active = past.source =>
        guest[past.source] >= past.moved

-----------------------------------------------------------------------------
(* Why they hold.  What a job has at each of its steps, and what is        *)
(* remembered of it ...                                                    *)
Before == {"restore", "in", "start", "verify", "apply", "runtime", "undo"}
Restored == {"start", "verify", "apply", "runtime", "ingress", "discard", "cleanup"}
Kinds == {"transfer", "clone", "fresh", "place"}

Jobs ==
    [at : Steps, kind : Kinds \cup {"none"}, source : Nodes, target : Nodes,
     wasUp : BOOLEAN, bundle : Nat, next : Placements, cols : SUBSET Names,
     todo : SUBSET Followers, cleaned : SUBSET Followers]
Pasts ==
    [moved : Nat, source : Nodes, target : Nodes, guest : Nat, up : BOOLEAN,
     unseen : BOOLEAN, failed : BOOLEAN, stopped : BOOLEAN, excused : BOOLEAN, died : BOOLEAN,
     hollow : SUBSET Nodes]
Records ==
    /\ job \in Jobs /\ past \in Pasts
    /\ writes \in 0..MaxWrites /\ job.bundle <= 2 + writes
    /\ \A n \in Nodes : guest[n] <= 2 + writes /\ kept[n] <= 2 + writes

JobInv ==
    /\ job.kind = "none" <=> At("idle")
    /\ job.kind = "place" => job.at \in {"apply", "runtime", "ingress"}
    /\ job.at \in {"apply", "runtime", "ingress"} => job.kind \in {"transfer", "place"}
    /\ job.at \in {"undo", "cleanup"} => Transfer
    /\ At("row") => ~Transfer
    /\ job.at \in {"in", "start"} => ~Remote
    /\ job.kind \in Kinds \ {"place"} =>
          /\ past.source = job.source /\ past.target = job.target
          /\ job.wasUp = (past.up /\ ~past.unseen)
    /\ form.at = "unsaved" =>
          /\ job.at \in {"idle", "restore", "in", "start", "verify", "row", "undo", "expired"}
          /\ NodesOf(form.want) \cap Followers \subseteq ready
    /\ ~At("idle") => (Transfer <=> past.moved # Nothing)
    /\ Transfer =>
          /\ past.moved = job.bundle /\ job.source # job.target
          /\ job.next = Single(job.target)

(* ... the data are at the source until the apply, and at the target from  *)
(* the restore on; if the job ends in between, at one of them ...          *)
DataInv ==
    /\ job.at \in {"restore", "in"} => job.bundle # Nothing
    /\ job.at \in {"start", "row"} => guest[job.target] # Nothing
    /\ Transfer /\ job.at \in Before => guest[job.source] >= past.moved
    /\ Transfer /\ job.at \in Restored => guest[job.target] >= past.moved
    /\ past.moved # Nothing =>
          guest[past.source] >= past.moved \/ guest[past.target] >= past.moved

(* ... what was put aside is what the target had ...                       *)
UndoInv ==
    /\ past.failed => job.at \in {"idle", "undo"}
    /\ past.stopped => At("idle")
    /\ At("restore") => guest[job.target] = past.guest /\ up[job.target] = past.up
    /\ At("in") => ~up[Leader]
    /\ At("in") \/ (Transfer /\ job.at \in {"start", "verify", "undo"}) =>
          /\ kept[job.target] = past.guest
          /\ past.up => past.guest # Nothing
          /\ job.target \in ready => past.guest # Nothing \/ job.target \in past.hollow

(* ... and a row has its guest, until a cleanup takes the guest first.     *)
RowInv ==
    /\ \A n \in ready : guest[n] # Nothing \/ n \in past.hollow \cup job.cleaned
    /\ job.cleaned # {} => At("cleanup")
    /\ job.todo # {} => Transfer
    /\ Transfer /\ job.at \in {"discard", "cleanup"} => applied = {job.target}
    /\ job.target \notin job.cleaned \cup job.todo
    /\ job.at \in {"runtime", "ingress"} => NodesOf(job.next) \cap Followers \subseteq Rows

(* The inductive invariant of ClusterTransfer.                             *)
IInv ==
    /\ TypeOK /\ Records /\ JobInv /\ DataInv /\ UndoInv /\ RowInv
    /\ FailedTransferIsUndone
=============================================================================
