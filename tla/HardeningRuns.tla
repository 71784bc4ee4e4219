----------------------------- MODULE HardeningRuns -----------------------------
(***************************************************************************)
(* The hardening runs of one output (app/services/app_hardening.py): phase *)
(* 1 watches the output, phase 2 tries strict settings on a clone of it,   *)
(* each in a worker thread of the server.  The cleanup that follows a      *)
(* start of the server settles the runs of its predecessor and removes     *)
(* their clones; it needs the host-mutation lock, and when that is busy it *)
(* is retried beside a server that serves.                                 *)
(***************************************************************************)
EXTENDS Naturals, FiniteSets

CONSTANTS
    Admins,       \* requests that start or resume a phase 2
    MaxRuns,      \* bound: rows
    MaxWatches,   \* bound: those of phase 1
    MaxSettings,  \* STRICT_SETTINGS
    Unsafe,       \* the settings phase 1 rated certain_unsafe
    MaxTries,     \* bound: attempts of the cleanup
    MaxCrashes,   \* bound: deaths of the server
    MaxFaults     \* bound: commands and commits that fail, sections of others

(* The bounds are numbers.                                                 *)
HardeningAssumption == {MaxRuns, MaxSettings, MaxTries} \subseteq Nat

Runs     == 1..MaxRuns
Settings == 1..MaxSettings

VARIABLES
    row,      \* status of each run, "none" before it is created
    phase,    \* its phase
    stop,     \* details.stop_requested
    restart,  \* error = HARDENING_RESTART_ERROR: resumable
    rated,    \* ratings_json: the verdict on each setting
    work,     \* its thread: where it is, its ratings, the status it read, whether
              \* it got a clone
    clone,    \* what there is of its clone: the row, the guest
    lock,     \* who has the host-mutation lock: none, clone, cleanup, other
    server,   \* down, starting, serving
    cleanup,  \* the interrupted cleanup: where it is, what it has read
    asking,   \* a request between its check and its insert
    crashes, faults,
    past      \* for the properties only

rowVars == <<row, phase, stop, restart, rated>>
bounds == <<crashes, faults>>
vars == <<rowVars, work, clone, lock, server, cleanup, asking, bounds, past>>

Active == {"queued", "running"}
Unrated == [s \in Settings |-> "none"]
NoWork == [at |-> "none", mine |-> Unrated, saw |-> "none", has |-> FALSE]
NoClone == [row |-> FALSE, guest |-> FALSE]
Due == [at |-> "due", tries |-> 0, runs |-> {}, clones |-> {}]

Init ==
    /\ row = [r \in Runs |-> "none"] /\ phase = [r \in Runs |-> 1]
    /\ stop = [r \in Runs |-> FALSE] /\ restart = [r \in Runs |-> FALSE]
    /\ rated = [r \in Runs |-> Unrated]
    /\ work = [r \in Runs |-> NoWork] /\ clone = [r \in Runs |-> NoClone]
    /\ lock = "none" /\ server = "starting" /\ cleanup = Due
    /\ asking = [a \in Admins |-> 0]
    /\ crashes = 0 /\ faults = 0
    /\ past = [taken |-> {}, forgotten |-> {}, halfway |-> {}, stranded |-> {}]

At(r, where) == work[r].at = where
Goes(r, where) == work' = [work EXCEPT ![r].at = where]
Live(r) == work[r].at \notin {"none", "over"}
Fault == faults < MaxFaults /\ faults' = faults + 1
Set(r, status) == row' = [row EXCEPT ![r] = status]
Forgets(runs) == past' = [past EXCEPT !.forgotten = @ \cup runs]
Strands(r) == past' = [past EXCEPT !.stranded = @ \cup ({r} \cap {q \in Runs : row[q] \in Active})]

-----------------------------------------------------------------------------
(* Requests.  A new row is the next one; its thread starts after the       *)
(* response, with the ratings of the row.                                  *)
Latest(n) == CHOOSE r \in Runs : /\ row[r] # "none" /\ phase[r] = n
                                 /\ \A q \in Runs : row[q] # "none" /\ phase[q] = n => q <= r
Has(n) == \E r \in Runs : row[r] # "none" /\ phase[r] = n
Succeeded(n) == Has(n) /\ row[Latest(n)] = "success"

Create(r, n, ratings) ==
    /\ row[r] = "none" /\ \A q \in 1..(r - 1) : row[q] # "none"
    /\ Set(r, "queued") /\ phase' = [phase EXCEPT ![r] = n]
    /\ rated' = [rated EXCEPT ![r] = ratings]
    /\ Goes(r, "queued")
    /\ UNCHANGED <<stop, restart, clone, lock, server, cleanup, bounds>>

StartPhase1 ==
    /\ server = "serving"
    /\ Cardinality({r \in Runs : row[r] # "none" /\ phase[r] = 1}) < MaxWatches
    /\ \E r \in Runs : Create(r, 1, Unrated)
    /\ UNCHANGED <<asking, past>>

(* A queued phase 1 is cancelled, a running one is asked to stop.          *)
StopPhase1 ==
    /\ server = "serving"
    /\ \E r \in Runs :
        /\ row[r] \in Active /\ phase[r] = 1
        /\ \A q \in Runs : q > r => row[q] \notin Active \/ phase[q] # 1
        /\ IF row[r] = "queued" THEN Set(r, "cancelled") /\ UNCHANGED stop
                                ELSE stop' = [stop EXCEPT ![r] = TRUE] /\ UNCHANGED row
    /\ UNCHANGED <<phase, restart, rated, work, clone, lock, server, cleanup, asking,
                   bounds, past>>

(* Phase 2 needs a phase 1 and no active phase 2; a resumption needs that  *)
(* the latest phase 2 was interrupted, and takes its ratings over.         *)
Resumable(r) == row[r] = "failed" /\ restart[r]

AskPhase2(a) ==
    /\ server = "serving" /\ asking[a] = 0 /\ Succeeded(1)
    /\ \A r \in Runs : row[r] \in Active => phase[r] = 1
    /\ \E from \in {MaxRuns + 1} \cup (IF Has(2) THEN {Latest(2)} ELSE {}) :
        /\ from \in Runs => Resumable(from)
        /\ asking' = [asking EXCEPT ![a] = from]
    /\ UNCHANGED <<rowVars, work, clone, lock, server, cleanup, bounds, past>>

StartPhase2(a) ==
    /\ server = "serving" /\ asking[a] # 0
    /\ \E r \in Runs :
        /\ Create(r, 2, IF asking[a] \in Runs THEN rated[asking[a]] ELSE Unrated)
        /\ past' = [past EXCEPT !.taken = @ \cup (IF asking[a] \in @ THEN {r} ELSE {})]
    /\ asking' = [asking EXCEPT ![a] = 0]

StopPhase2 ==
    /\ server = "serving"
    /\ \E r \in Runs :
        /\ row[r] \in Active /\ phase[r] = 2
        /\ \A q \in Runs : q > r => row[q] \notin Active \/ phase[q] # 2
        /\ Set(r, "cancelled")
        /\ IF Live(r) \/ ~clone[r].row THEN UNCHANGED past ELSE Forgets({r})
    /\ UNCHANGED <<phase, stop, restart, rated, work, clone, lock, server, cleanup,
                   asking, bounds>>

-----------------------------------------------------------------------------
(* Phase 1: a cancelled run is skipped, and what is found between that     *)
(* look and the commit is overwritten, a request to stop included.         *)
Thread == UNCHANGED <<phase, lock, server, cleanup, asking, crashes>>

Load1(r) ==
    /\ At(r, "queued") /\ phase[r] = 1
    /\ Goes(r, IF row[r] = "cancelled" THEN "over" ELSE "starting")
    /\ UNCHANGED <<row, stop, restart, rated, clone, faults, past>> /\ Thread

Begin1(r) ==
    /\ At(r, "starting")
    /\ Set(r, "running") /\ stop' = [stop EXCEPT ![r] = FALSE]
    /\ Goes(r, "watching")
    /\ UNCHANGED <<restart, rated, clone, faults, past>> /\ Thread

(* The time is up or a stop was requested, the evidence is rated.          *)
Watched(r) ==
    /\ At(r, "watching")
    /\ work' = [work EXCEPT ![r] = [@ EXCEPT !.at = "finishing", !.saw = row[r]]]
    /\ UNCHANGED <<row, stop, restart, rated, clone, faults, past>> /\ Thread

WatchFails(r) ==
    /\ At(r, "watching") /\ Fault
    /\ Goes(r, "failing")
    /\ UNCHANGED <<row, stop, restart, rated, clone, past>> /\ Thread

-----------------------------------------------------------------------------
(* Phase 2 runs whatever its row says.                                     *)
Rest(ratings) == {s \in Settings : ratings[s] = "none"}

LastIsLeft(ratings) == Cardinality(Rest(ratings)) <= 1  \* mutant: one too few
Complete(ratings) == Rest(ratings) = {}
Resumes(ratings) == IF Complete(ratings) THEN "finishing" ELSE "cloning"

Begin2(r) ==
    /\ At(r, "queued") /\ phase[r] = 2
    /\ Set(r, "running")
    /\ work' = [work EXCEPT ![r] =
         [NoWork EXCEPT !.at = Resumes(rated[r]), !.mine = rated[r], !.saw = "running"]]
    /\ UNCHANGED <<stop, restart, rated, clone, faults, past>> /\ Thread

(* The clone is made in a host-mutation section, and is there for the host *)
(* before its row is committed.                                            *)
Clones(r) ==
    /\ At(r, "cloning") /\ lock = "none"
    /\ lock' = "clone" /\ Goes(r, "copying")
    /\ UNCHANGED <<row, stop, restart, rated, clone, faults, past>>
    /\ UNCHANGED <<phase, server, cleanup, asking, crashes>>

Cloned(r) ==
    /\ At(r, "copying")
    /\ clone' = [clone EXCEPT ![r] = [row |-> TRUE, guest |-> TRUE]]
    /\ work' = [work EXCEPT ![r] = [@ EXCEPT !.at = "checking", !.has = TRUE]]
    /\ lock' = "none"
    /\ UNCHANGED <<row, stop, restart, rated, faults, past>>
    /\ UNCHANGED <<phase, server, cleanup, asking, crashes>>

(* The lock is busy; or the clone fails and is undone, but for a row that  *)
(* was committed; or its network cannot be created.                        *)
LockBusy(r) ==
    /\ At(r, "cloning") /\ lock # "none"
    /\ Goes(r, "failing")
    /\ UNCHANGED <<row, stop, restart, rated, clone, faults, past>> /\ Thread

CloneFails(r, committed) ==
    /\ At(r, "copying") /\ Fault
    /\ clone' = [clone EXCEPT ![r].row = committed]
    /\ IF committed THEN Forgets({r}) ELSE UNCHANGED past
    /\ lock' = "none" /\ Goes(r, "failing")
    /\ UNCHANGED <<row, stop, restart, rated>>
    /\ UNCHANGED <<phase, server, cleanup, asking, crashes>>

TestFails(r) ==
    /\ At(r, "checking") /\ Fault
    /\ Goes(r, "failing")
    /\ UNCHANGED <<row, stop, restart, rated, clone, past>> /\ Thread

(* The loop over the settings: a stop is seen before each of them.         *)
Check(r) ==
    /\ At(r, "checking") /\ Rest(work[r].mine) # {}
    /\ Goes(r, IF row[r] = "cancelled" THEN "cancelling" ELSE "testing")
    /\ UNCHANGED <<row, stop, restart, rated, clone, faults, past>> /\ Thread

(* A setting is skipped, or tried on the clone: a test without a guest     *)
(* fails to start it and takes that for the verdict.                       *)
Verdict(r, s) ==
    CASE s \in Unsafe -> "skipped"
      [] clone[r].guest -> "tested"
      [] OTHER -> "blind"
Records(r, s) == IF s \in Unsafe THEN row[r] \in Active ELSE row[r] # "cancelled"

Tested(r) ==
    LET s == CHOOSE x \in Rest(work[r].mine) : \A y \in Rest(work[r].mine) : x <= y
        ratings == [work[r].mine EXCEPT ![s] = Verdict(r, s)]
    IN
    /\ At(r, "testing")
    /\ work' = [work EXCEPT ![r] = [@ EXCEPT !.at = "checking", !.mine = ratings]]
    /\ rated' = IF Records(r, s) THEN [rated EXCEPT ![r] = ratings] ELSE rated
    /\ UNCHANGED <<row, stop, restart, clone, faults, past>> /\ Thread

AllTested(r) ==
    /\ At(r, "checking") /\ Rest(work[r].mine) = {}
    /\ work' = [work EXCEPT ![r] = [@ EXCEPT !.at = "finishing", !.saw = row[r]]]
    /\ UNCHANGED <<row, stop, restart, rated, clone, faults, past>> /\ Thread

-----------------------------------------------------------------------------
(* How both phases end.  A status read as cancelled stays, one written     *)
(* since is overwritten.                                                   *)
After(r) == IF work[r].has THEN "cleaning" ELSE "over"
AfterCancel(r) == "over"  \* mutant: a cancelled run leaves its clone
Left(r) == After(r)

Finish(r) ==
    /\ At(r, "finishing")
    /\ IF work[r].saw = "cancelled"
       THEN UNCHANGED <<row, restart, rated>>
       ELSE /\ Set(r, "success") /\ restart' = [restart EXCEPT ![r] = FALSE]
            /\ rated' = [rated EXCEPT ![r] = work[r].mine]
    /\ Goes(r, After(r))
    /\ UNCHANGED <<stop, clone, faults, past>> /\ Thread

Cancel(r) ==
    /\ At(r, "cancelling")
    /\ Set(r, "cancelled") /\ restart' = [restart EXCEPT ![r] = FALSE]
    /\ Goes(r, Left(r))
    /\ UNCHANGED <<stop, rated, clone, faults, past>> /\ Thread

Fail(r) ==
    /\ At(r, "failing")
    /\ IF row[r] = "cancelled"
       THEN UNCHANGED <<row, restart, rated>>
       ELSE /\ Set(r, "failed") /\ restart' = [restart EXCEPT ![r] = FALSE]
            /\ rated' = [rated EXCEPT ![r] = work[r].mine]
    /\ Goes(r, After(r))
    /\ UNCHANGED <<stop, clone, faults, past>> /\ Thread

(* What a thread cannot write.  Its first commit and all that is before it *)
(* are outside of any try, the commit of a success that needs no clone as  *)
(* well; a success that is lost becomes a failure, and what the handlers   *)
(* cannot write remains as it is.                                          *)
BeginFails(r) ==
    /\ At(r, "queued") \/ At(r, "starting")
    /\ Fault /\ Goes(r, "over") /\ Strands(r)
    /\ UNCHANGED <<row, stop, restart, rated, clone>> /\ Thread

FinishFails(r) ==
    /\ At(r, "finishing") /\ work[r].saw # "cancelled" /\ Fault
    /\ IF phase[r] = 1 \/ work[r].has
       THEN Goes(r, "failing") /\ UNCHANGED past
       ELSE Goes(r, "over") /\ Strands(r)
    /\ UNCHANGED <<row, stop, restart, rated, clone>> /\ Thread

HandlerFails(r) ==
    /\ At(r, "cancelling") \/ (At(r, "failing") /\ row[r] # "cancelled")
    /\ Fault /\ Goes(r, After(r)) /\ Strands(r)
    /\ UNCHANGED <<row, stop, restart, rated, clone>> /\ Thread

(* finally: the ratings of a run that is not settled, the container, the   *)
(* network and the directories of the clone, then its row, which is kept   *)
(* if one of them could not be removed.                                    *)
CleanClone(r) ==
    /\ At(r, "cleaning")
    /\ clone' = [clone EXCEPT ![r].guest = FALSE]
    /\ rated' = IF row[r] \in Active THEN [rated EXCEPT ![r] = work[r].mine] ELSE rated
    /\ Goes(r, "dropping")
    /\ UNCHANGED <<row, stop, restart, faults, past>> /\ Thread

CleanFails(r) ==
    /\ At(r, "cleaning") \/ At(r, "dropping")
    /\ Fault /\ Forgets({r}) /\ Goes(r, "over")
    /\ UNCHANGED <<row, stop, restart, rated, clone>> /\ Thread

DropClone(r) ==
    /\ At(r, "dropping")
    /\ clone' = [clone EXCEPT ![r].row = FALSE] /\ Goes(r, "over")
    /\ UNCHANGED <<row, stop, restart, rated, faults, past>> /\ Thread

-----------------------------------------------------------------------------
(* The cleanup: the first attempt is made before the server serves.        *)
Idle == UNCHANGED <<phase, stop, work, asking, crashes>>
Swept(where) == cleanup' = [cleanup EXCEPT !.at = where]
Serves == server' = IF server = "starting" THEN "serving" ELSE server
Retried ==
    [Due EXCEPT !.tries = cleanup.tries + 1,
                !.at = IF cleanup.tries < MaxTries THEN "due" ELSE "abandoned"]

CleanupBegins ==
    /\ cleanup.at = "due" /\ server # "down" /\ lock = "none"
    /\ lock' = "cleanup" /\ Swept("reading")
    /\ UNCHANGED <<row, restart, rated, clone, server, faults, past>> /\ Idle

CleanupBusy ==
    /\ cleanup.at = "due" /\ server # "down" /\ lock # "none"
    /\ cleanup' = Retried /\ Serves
    /\ UNCHANGED <<row, restart, rated, clone, lock, faults, past>> /\ Idle

(* Every active row is taken for one of a server that died, and the clone  *)
(* that bears its number for one nobody uses.                              *)
Interrupted == {r \in Runs : row[r] \in Active}
OnlyRunning == {r \in Runs : row[r] = "running"}  \* mutant: queued ones are left
ClonesOf(runs) == {r \in runs : clone[r].row}
Reads == Interrupted

CleanupReads ==
    /\ cleanup.at = "reading"
    /\ IF Reads = {}
       THEN Swept("done") /\ lock' = "none" /\ Serves
       ELSE /\ cleanup' = [cleanup EXCEPT !.at = "marking", !.runs = Reads,
                                          !.clones = ClonesOf(Reads)]
            /\ UNCHANGED <<lock, server>>
    /\ UNCHANGED <<row, restart, rated, clone, faults, past>> /\ Idle

CleanupMarks ==
    /\ cleanup.at = "marking"
    /\ row' = [r \in Runs |-> IF r \in cleanup.runs THEN "failed" ELSE row[r]]
    /\ restart' = [r \in Runs |-> r \in cleanup.runs \/ restart[r]]
    /\ past' = [past EXCEPT !.taken = @ \cup {r \in cleanup.runs : Live(r)}]
    /\ Swept("removing")
    /\ UNCHANGED <<rated, clone, lock, server, faults>> /\ Idle

(* A commit fails: the cleanup is tried again, and does not find the runs  *)
(* that it has marked, nor their clones.                                   *)
CleanupFails ==
    /\ cleanup.at \in {"marking", "deleting"} /\ Fault
    /\ cleanup' = Retried /\ lock' = "none" /\ Serves
    /\ IF cleanup.at = "deleting" THEN Forgets(cleanup.clones) ELSE UNCHANGED past
    /\ UNCHANGED <<row, restart, rated, clone>> /\ Idle

CleanupRemoves(failed) ==
    /\ cleanup.at = "removing" /\ failed \subseteq cleanup.clones
    /\ IF failed = {} THEN UNCHANGED faults ELSE Fault
    /\ clone' = [r \in Runs |-> [clone[r] EXCEPT !.guest = @ /\ r \notin cleanup.clones \ failed]]
    /\ Forgets(failed)
    /\ cleanup' = [cleanup EXCEPT !.at = "deleting", !.clones = @ \ failed]
    /\ UNCHANGED <<row, restart, rated, lock, server>> /\ Idle

CleanupDeletes ==
    /\ cleanup.at = "deleting"
    /\ clone' = [r \in Runs |-> [clone[r] EXCEPT !.row = @ /\ r \notin cleanup.clones]]
    /\ Swept("done") /\ lock' = "none" /\ Serves
    /\ UNCHANGED <<row, restart, rated, faults, past>> /\ Idle

-----------------------------------------------------------------------------
(* Another process or request has the lock for a while.                    *)
OtherTakes ==
    /\ lock = "none" /\ lock' = "other" /\ Fault
    /\ UNCHANGED <<rowVars, work, clone, server, cleanup, asking, crashes, past>>
OtherLeaves ==
    /\ lock = "other" /\ lock' = "none"
    /\ UNCHANGED <<rowVars, work, clone, server, cleanup, asking, bounds, past>>

(* The server dies with its threads.  What nobody will look for: clones of *)
(* runs whose rows are settled, and a guest whose row was not committed.   *)
Dies(files) ==
    LET copying == {r \in Runs : At(r, "copying")}
        settled == {r \in Runs : (Live(r) \/ r \in cleanup.clones) /\ row[r] \notin Active}
    IN
    /\ server # "down" /\ crashes < MaxCrashes /\ files \subseteq copying
    /\ server' = "down" /\ crashes' = crashes + 1
    /\ work' = [r \in Runs |-> [work[r] EXCEPT !.at = IF Live(r) THEN "over" ELSE @]]
    /\ clone' = [r \in Runs |-> [clone[r] EXCEPT !.guest = @ \/ r \in files]]
    /\ lock' = IF lock = "other" THEN lock ELSE "none"
    /\ asking' = [a \in Admins |-> 0] /\ cleanup' = Due
    /\ past' = [past EXCEPT !.forgotten = @ \cup settled, !.halfway = @ \cup files,
                            !.stranded = {}]
    /\ UNCHANGED <<rowVars, faults>>

Restarts ==
    /\ server = "down" /\ server' = "starting"
    /\ UNCHANGED <<rowVars, work, clone, lock, cleanup, asking, bounds, past>>

-----------------------------------------------------------------------------
Step(r) ==
    \/ Load1(r) \/ Begin1(r) \/ Watched(r)
    \/ Begin2(r) \/ Clones(r) \/ Cloned(r) \/ LockBusy(r)
    \/ Check(r) \/ Tested(r) \/ AllTested(r)
    \/ Finish(r) \/ Cancel(r) \/ Fail(r) \/ CleanClone(r) \/ DropClone(r)
Faulty(r) ==
    \/ WatchFails(r) \/ TestFails(r) \/ CleanFails(r) \/ \E c \in BOOLEAN : CloneFails(r, c)
    \/ BeginFails(r) \/ FinishFails(r) \/ HandlerFails(r)
CleanupStep ==
    \/ CleanupBegins \/ CleanupBusy \/ CleanupReads \/ CleanupMarks
    \/ CleanupRemoves({}) \/ CleanupDeletes

Next ==
    \/ StartPhase1 \/ StopPhase1 \/ StopPhase2
    \/ \E a \in Admins : AskPhase2(a) \/ StartPhase2(a)
    \/ \E r \in Runs : Step(r) \/ Faulty(r)
    \/ CleanupStep \/ CleanupFails \/ \E failed \in SUBSET Runs : CleanupRemoves(failed)
    \/ OtherTakes \/ OtherLeaves \/ Restarts
    \/ \E files \in SUBSET Runs : Dies(files)

Spec == Init /\ [][Next]_vars

(* Threads go on, systemd restarts the server, the cleanup retries, and    *)
(* nobody keeps the lock.                                                  *)
Fairness ==
    /\ \A r \in Runs : WF_vars(Step(r))
    /\ WF_vars(CleanupStep) /\ WF_vars(Restarts) /\ WF_vars(OtherLeaves)
FairSpec == Spec /\ Fairness

-----------------------------------------------------------------------------
Statuses == Active \cup {"none", "success", "failed", "cancelled"}
Ratings == [Settings -> {"none", "skipped", "tested", "blind"}]

TypeOK ==
    /\ row \in [Runs -> Statuses]
    /\ phase \in [Runs -> {1, 2}]
    /\ stop \in [Runs -> BOOLEAN] /\ restart \in [Runs -> BOOLEAN]
    /\ rated \in [Runs -> Ratings]
    /\ clone \in [Runs -> [row : BOOLEAN, guest : BOOLEAN]]
    /\ lock \in {"none", "clone", "cleanup", "other"}

(* A successful phase 2 has a verdict on every setting, those of the runs  *)
(* it resumed included, and each verdict is from a test of a clone that    *)
(* was there, unless the cleanup took the run for an interrupted one while *)
(* its thread lived.                                                       *)
VerdictsAreTested ==
    \A r \in Runs :
        /\ row[r] = "success" /\ phase[r] = 2 => Rest(rated[r]) = {}
        /\ r \notin past.taken => \A s \in Settings : rated[r][s] # "blind"

(* A clone on the host has its row, by which it can be found.  When no     *)
(* thread and no cleanup is at it a clone is left only if it could not be  *)
(* removed, if the call that made it failed, or if its run was settled     *)
(* when the server died or the cleanup failed.                             *)
ClonesAreRemoved ==
    \A r \in Runs :
        /\ clone[r].guest => clone[r].row \/ r \in past.halfway
        /\ clone[r].row /\ ~Live(r) /\ cleanup.at = "done" =>
               r \in past.forgotten

(* A run is settled in the end, by its thread or by the cleanup of the     *)
(* next server, unless that has run out of attempts; or unless the thread  *)
(* could not write how it ended, and no server has started since.          *)
RunsSettle ==
    \A r \in Runs :
        []<>(row[r] \in Active => cleanup.at = "abandoned" \/ r \in past.stranded)

-----------------------------------------------------------------------------
(* Why they hold.  The lock is with the run that copies or with the        *)
(* cleanup at work.  A run is in one of these places; before its clone is  *)
(* made there is nothing of one, and only a phase 2 makes one ...          *)
LockInv ==
    /\ lock = "clone" <=> \E r \in Runs : At(r, "copying")
    /\ \A r, q \in Runs : At(r, "copying") /\ At(q, "copying") => r = q
    /\ cleanup.at \in {"reading", "marking", "removing", "deleting"} <=> lock = "cleanup"

Unclone == {"none", "queued", "starting", "watching", "cloning", "copying"}
Cloning == {"cloning", "copying", "checking", "testing", "cancelling", "cleaning", "dropping"}
Places == Unclone \cup Cloning \cup {"finishing", "failing", "over"}
Works == [at : Places, mine : Ratings, saw : Statuses, has : BOOLEAN]
Cleanups ==
    [at : {"due", "reading", "marking", "removing", "deleting", "done", "abandoned"},
     tries : Nat, runs : SUBSET Runs, clones : SUBSET Runs]
Pasts == [taken : SUBSET Runs, forgotten : SUBSET Runs, halfway : SUBSET Runs,
          stranded : SUBSET Runs]
RecordsOK == work \in [Runs -> Works] /\ cleanup \in Cleanups /\ past \in Pasts

RunInv ==
    \A r \in Runs :
        /\ row[r] = "none" <=> At(r, "none")
        /\ row[r] = "success" => work[r].at \in {"cleaning", "dropping", "over"}
        /\ work[r].at \in Unclone => clone[r] = NoClone /\ ~work[r].has
        /\ work[r].at \in {"starting", "watching"} => phase[r] = 1
        /\ work[r].at \in Cloning \/ work[r].has => phase[r] = 2
        /\ At(r, "finishing") /\ phase[r] = 2 => Rest(work[r].mine) = {}

(* ... a test that is at work has its clone, and a thread that has one     *)
(* will remove it, unless the cleanup took the run for another's ...       *)
TestInv ==
    \A r \in Runs :
        /\ r \notin past.taken =>
              /\ \A s \in Settings : work[r].mine[s] # "blind"
              /\ work[r].at \in {"checking", "testing"} => clone[r].guest
        /\ Live(r) /\ clone[r].row => work[r].has \/ r \in past.forgotten
        /\ At(r, "dropping") => ~clone[r].guest
        /\ clone[r].row => phase[r] = 2

(* ... and a clone that nobody has is one that the cleanup finds by its    *)
(* row, or has found and has not lost again.                               *)
Found(r) ==
    CASE cleanup.at \in {"due", "reading", "abandoned"} -> row[r] \in Active
      [] cleanup.at = "marking" -> row[r] \in Active /\ r \in cleanup.clones
      [] cleanup.at \in {"removing", "deleting"} -> r \in cleanup.clones
      [] OTHER -> FALSE
CleanupInv ==
    /\ \A r \in cleanup.runs \cup cleanup.clones : row[r] # "none"
    /\ cleanup.clones \subseteq cleanup.runs
    /\ \A r \in cleanup.clones :
          /\ cleanup.at \in {"removing", "deleting"} /\ Live(r) => r \in past.taken
          /\ cleanup.at = "deleting" => ~clone[r].guest
    /\ \A r \in Runs : clone[r].row /\ ~Live(r) => Found(r) \/ r \in past.forgotten

(* The inductive invariant of HardeningRuns.                               *)
IInv ==
    /\ TypeOK /\ LockInv /\ RecordsOK /\ RunInv /\ TestInv /\ CleanupInv
    /\ VerdictsAreTested /\ ClonesAreRemoved
================================================================================
