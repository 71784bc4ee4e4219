------------------------------ MODULE HostApply ------------------------------
(***************************************************************************)
(* How a configuration change reaches the host: commit_and_apply(),        *)
(* run_apply() and its callers.  The configuration is one output whose row *)
(* every slice of the desired state is rendered from; a slice is skipped   *)
(* when its hash is the one the last successful apply recorded.  The host  *)
(* is changed before the transaction commits, so every way out of an apply *)
(* has to leave that record true or forget it.                             *)
(***************************************************************************)
EXTENDS Naturals, FiniteSets

CONSTANTS
    Sessions,     \* requests and processes that call run_apply(), once each
    Deferred,     \* of these, the callers that commit for themselves
    Ticks,        \* of these, auto-size: nothing is flushed before the apply
    Slices,       \* the slices the configuration has
    Values, Mixed, None,
    Edits,        \* what a session may set: functions from slices to values
    MaxFaults, MaxStops, MaxUpgrades

AllSlices == {"runtime", "shield", "ssh_access", "nginx", "cluster_followers", "tailscale"}

Partial == UNION {[D -> Values] : D \in SUBSET Slices}

ASSUME SessionsAssumption ==
    /\ Ticks \subseteq Deferred /\ Deferred \subseteq Sessions /\ None \notin Sessions
    /\ \A s \in Sessions : Edits[s] \subseteq Partial
ASSUME SlicesAssumption   == "nginx" \in Slices /\ Slices \subseteq AllSlices
ASSUME ValuesAssumption   == Mixed \notin Values /\ None \notin Values /\ Mixed # None
ASSUME BoundsAssumption   == {MaxFaults, MaxStops, MaxUpgrades} \subseteq Nat

VARIABLES
    db,       \* the committed configuration
    marker,   \* what HostApplyState and its ApplyRun say of the last success
    live,     \* the host; of nginx and tailscale, the files that are compared
    loaded,   \* the configuration nginx runs with
    owner,    \* who is in the host-mutation section
    writer,   \* whose transaction holds SQLite's write lock
    task,     \* what each session knows and where it is
    past,     \* history: what the properties say of the past
    used      \* faults, interruptions and upgrades so far

vars == <<db, marker, live, loaded, owner, writer, task, past, used>>

Configs  == [Slices -> Values]
Empty    == [x \in {} |-> None]
Checked  == Slices \cap {"shield", "nginx", "tailscale"}
Here     == Values \cup {Mixed}

\* The order in which an apply takes the slices.
Rank(x) == CASE x = "runtime" -> 1 [] x = "shield"            -> 2 [] x = "ssh_access" -> 3
             [] x = "nginx"   -> 4 [] x = "cluster_followers" -> 5 [] x = "tailscale"  -> 6

Places == {"idle", "loaded", "changed", "building", "reading", "preparing", "applying",
           "swapped", "applied", "deferred", "invalidating", "failing", "reverting",
           "recording", "done"}

Fresh == [pc |-> "idle", view |-> Empty, edit |-> Empty, goal |-> Empty,
          prev |-> Empty, todo |-> Slices, touched |-> FALSE, kept |-> None,
          reloaded |-> FALSE, absent |-> FALSE, partial |-> FALSE, alone |-> TRUE]

NoRun == [state |-> Empty, slices |-> Empty]

Seen == UNION {[D -> Here] : D \in SUBSET Slices}
Task == [pc : Places, view : Configs \cup {Empty}, edit : Partial, goal : Configs \cup {Empty},
         prev : Seen, todo : SUBSET Slices, touched : BOOLEAN, kept : Here \cup {None},
         reloaded : BOOLEAN, absent : BOOLEAN, partial : BOOLEAN, alone : BOOLEAN]

TypeOK ==
    /\ db \in Configs
    /\ marker \in [state : Configs, slices : Partial] \cup {NoRun}
    /\ live \in [Slices -> Here] /\ loaded \in Here
    /\ owner \in Sessions \cup {None} /\ writer \in Deferred \cup {None}
    /\ task \in [Sessions -> Task]
    /\ past \in [lapsed : BOOLEAN, torn : BOOLEAN, murky : BOOLEAN, served : Here]

Init ==
    /\ db \in {[x \in Slices |-> v] : v \in Values}
    /\ live = db /\ loaded = db["nginx"]
    /\ marker \in {NoRun, [state |-> db, slices |-> db]}
    /\ owner = None /\ writer = None
    /\ task = [s \in Sessions |-> Fresh]
    /\ past = [lapsed |-> FALSE, torn |-> FALSE, murky |-> FALSE, served |-> db["nginx"]]
    /\ used = [faults |-> 0, stops |-> 0, upgrades |-> 0]

-----------------------------------------------------------------------------
At(s, place) == task[s].pc = place
Goes(s, place) == task' = [task EXCEPT ![s].pc = place]
Ends(s) == task' = [task EXCEPT ![s] = [Fresh EXCEPT !.pc = "done"]]

Fault == used.faults < MaxFaults /\ used' = [used EXCEPT !.faults = @ + 1]

\* session.rollback() of a session: its write lock goes with its transaction.
RollsBack(s) == writer' = IF writer = s THEN None ELSE writer

Free(s) == writer \in {None, s}
Lapses(b) == past' = [past EXCEPT !.lapsed = @ \/ b]

\* A host that was applied for a transaction that is not committed yet.
Unsettled(s) == task[s].pc \in {"deferred", "invalidating"}

-----------------------------------------------------------------------------
(* The caller: rows are loaded, then changed, then flushed and applied.    *)

\* Objects a session holds keep what was loaded (expire_on_commit=False, and
\* a select does not refresh them).
Load(s) ==
    /\ At(s, "idle")
    /\ IF s \in Deferred
         THEN task' = [task EXCEPT ![s].pc = "loaded", ![s].view = db]
         ELSE Goes(s, "changed")
    /\ UNCHANGED <<db, marker, live, loaded, owner, writer, past, used>>

\* Only columns that differ from what was loaded are written.
Change(s) ==
    /\ At(s, "loaded")
    /\ \E e \in Edits[s] :
        LET new == {x \in DOMAIN e : e[x] # task[s].view[x]} IN
        /\ new # {}
        /\ task' = [task EXCEPT ![s].pc = "changed", ![s].edit = [x \in new |-> e[x]]]
    /\ IF s \in Ticks THEN UNCHANGED writer
                      ELSE writer = None /\ writer' = s
    /\ UNCHANGED <<db, marker, live, loaded, owner, past, used>>

\* Another transaction outlasts the busy timeout of the flush.
FlushTimesOut(s) ==
    /\ At(s, "loaded") /\ s \notin Ticks /\ writer # None
    /\ Ends(s)
    /\ UNCHANGED <<db, marker, live, loaded, owner, writer, past, used>>

Enter(s) ==
    /\ At(s, "changed") /\ owner = None
    /\ owner' = s /\ Goes(s, "building")
    /\ UNCHANGED <<db, marker, live, loaded, writer, past, used>>

LockRefused(s) ==
    /\ At(s, "changed") /\ owner # None
    /\ RollsBack(s) /\ Ends(s)
    /\ UNCHANGED <<db, marker, live, loaded, owner, past, used>>

-----------------------------------------------------------------------------
(* run_apply(): desired state, plan, slices, record.                       *)

Desired(s) ==
    [x \in Slices |-> IF s \notin Deferred THEN db[x]
                      ELSE IF x \in DOMAIN task[s].edit THEN task[s].edit[x]
                      ELSE task[s].view[x]]

Build(s) ==
    /\ At(s, "building")
    /\ LET alone == \A r \in Sessions \ {s} : ~Unsettled(r) IN
        /\ task' = [task EXCEPT ![s].pc = "reading", ![s].goal = Desired(s),
                                ![s].alone = alone]
        /\ Lapses(~alone)
    /\ UNCHANGED <<db, marker, live, loaded, owner, writer, used>>

\* First pass after the slices changed their format: what can be read from
\* the host is, an output's runtime is taken to be live.
LiveSlices(goal) ==
    [x \in (Slices \cap {"runtime", "nginx", "tailscale"})
             \cup {y \in Slices \cap {"shield"} : live[y] = goal[y]} |->
        IF x = "runtime" THEN goal[x] ELSE live[x]]

Previous(goal) ==
    IF marker = NoRun             THEN Empty
    ELSE IF marker.slices # Empty THEN marker.slices
    ELSE IF marker.state = goal   THEN goal
    ELSE LiveSlices(goal)

Read(s) ==
    /\ At(s, "reading")
    /\ LET goal == task[s].goal
           prev == Previous(goal)
           blind == /\ marker.slices = Empty
                    /\ \E x \in DOMAIN prev \ Checked : prev[x] = goal[x] /\ goal[x] # live[x]
       IN  /\ task' = [task EXCEPT ![s].pc = "preparing", ![s].prev = prev]
           /\ Lapses(blind)
    /\ UNCHANGED <<db, marker, live, loaded, owner, writer, used>>

FullApply(t) == t.prev = Empty
(* Mutant: a slice without a recorded hash is taken to be unchanged.       *)
ChangedIfRecorded(t, x) == x \in DOMAIN t.prev /\ t.prev[x] # t.goal[x]

Changed(t, x) == x \notin DOMAIN t.prev \/ t.prev[x] # t.goal[x]
(* Mutant: an unchanged slice is skipped without a look at the host.       *)
SkipsUnseen(t, x) == ~Changed(t, x)

Skips(t, x) == ~Changed(t, x) /\ (x \in Checked => live[x] = t.goal[x])

\* Host assets are reconciled by a full apply, then admin exposure is checked.
Prepare(s) ==
    /\ At(s, "preparing") /\ Goes(s, "applying")
    /\ UNCHANGED <<db, marker, live, loaded, owner, writer, past, used>>

PrepareFails(s) ==
    /\ At(s, "preparing") /\ Fault
    /\ \E broken \in {FALSE, FullApply(task[s])} :
        task' = [task EXCEPT ![s].pc = "recording", ![s].partial = broken]
    /\ RollsBack(s)
    /\ UNCHANGED <<db, marker, live, loaded, owner, past>>

Todo(s) == task[s].todo
Working(s) == At(s, "applying") /\ Todo(s) # {}
Slice(s) == CHOOSE x \in Todo(s) : \A y \in Todo(s) : Rank(x) <= Rank(y)

SkipSlice(s) ==
    /\ Working(s) /\ Skips(task[s], Slice(s))
    /\ task' = [task EXCEPT ![s].todo = @ \ {Slice(s)}]
    /\ UNCHANGED <<db, marker, live, loaded, owner, writer, past, used>>

ApplySlice(s) ==
    /\ Working(s) /\ Slice(s) # "nginx" /\ ~Skips(task[s], Slice(s))
    /\ live' = [live EXCEPT ![Slice(s)] = task[s].goal[Slice(s)]]
    /\ task' = [task EXCEPT ![s].todo = @ \ {Slice(s)}, ![s].touched = TRUE]
    /\ UNCHANGED <<db, marker, loaded, owner, writer, past, used>>

\* Some followers, or the last command of one, were not reached: a warning.
FollowersUnavailable(s) ==
    /\ Working(s) /\ Slice(s) = "cluster_followers" /\ ~Skips(task[s], Slice(s)) /\ Fault
    /\ \E v \in {live[Slice(s)], task[s].goal[Slice(s)], Mixed} :
        /\ live' = [live EXCEPT ![Slice(s)] = v]
        /\ Lapses(Slice(s) \in DOMAIN task[s].prev /\ v # task[s].prev[Slice(s)])
    /\ task' = [task EXCEPT ![s].todo = @ \ {Slice(s)}, ![s].touched = TRUE,
                            ![s].absent = TRUE]
    /\ UNCHANGED <<db, marker, loaded, owner, writer>>

\* The preflight of the runtime fails before anything is touched.
SliceFails(s) ==
    /\ Working(s) /\ Slice(s) # "nginx" /\ ~Skips(task[s], Slice(s)) /\ Fault
    /\ \/ \E v \in {live[Slice(s)], task[s].goal[Slice(s)], Mixed} :
            /\ live' = [live EXCEPT ![Slice(s)] = v]
            /\ task' = [task EXCEPT ![s].pc = "failing", ![s].touched = TRUE]
       \/ /\ Slice(s) = "runtime"
          /\ Goes(s, "failing") /\ UNCHANGED live
    /\ UNCHANGED <<db, marker, loaded, owner, writer, past>>

Staging(s) == Working(s) /\ Slice(s) = "nginx" /\ ~Skips(task[s], "nginx")

SwapFiles(s) ==
    /\ Staging(s)
    /\ live' = [live EXCEPT !["nginx"] = task[s].goal["nginx"]]
    /\ task' = [task EXCEPT ![s].pc = "swapped", ![s].kept = live["nginx"]]
    /\ UNCHANGED <<db, marker, loaded, owner, writer, past, used>>

\* The rollback directory is known only when the whole swap is done.
SwapFails(s) ==
    /\ Staging(s) /\ Fault
    /\ \E v \in {live["nginx"], Mixed} :
        /\ live' = [live EXCEPT !["nginx"] = v]
        /\ past' = [past EXCEPT !.torn = @ \/ v = Mixed]
    /\ Goes(s, "failing")
    /\ UNCHANGED <<db, marker, loaded, owner, writer>>

ValidateFails(s) ==
    /\ At(s, "swapped") /\ Fault /\ Goes(s, "failing")
    /\ UNCHANGED <<db, marker, live, loaded, owner, writer, past>>

ReloadNginx(s) ==
    /\ At(s, "swapped")
    /\ loaded' = live["nginx"]
    /\ task' = [task EXCEPT ![s].pc = "applying", ![s].todo = @ \ {"nginx"},
                            ![s].touched = TRUE, ![s].reloaded = TRUE]
    /\ UNCHANGED <<db, marker, live, owner, writer, past, used>>

\* A command that failed or was given up may have reloaded nginx.
ReloadFails(s) ==
    /\ At(s, "swapped") /\ Fault
    /\ loaded' \in {loaded, live["nginx"]}
    /\ past' = [past EXCEPT !.murky = @ \/ loaded' # loaded]
    /\ task' = [task EXCEPT ![s].pc = "failing", ![s].touched = TRUE]
    /\ UNCHANGED <<db, marker, live, owner, writer>>

\* Admin exposure and the self-audit pass; the rollback directory goes.
Verify(s) ==
    /\ At(s, "applying") /\ Todo(s) = {}
    /\ LET t == task[s] IN
        past' = [lapsed |-> past.lapsed /\ ~(FullApply(t) /\ t.alone),
                 torn   |-> FALSE,
                 murky  |-> past.murky /\ t.kept = None,
                 served |-> t.goal["nginx"]]
    /\ task' = [task EXCEPT ![s].pc = "applied", ![s].kept = None]
    /\ UNCHANGED <<db, marker, live, loaded, owner, writer, used>>

VerifyFails(s) ==
    /\ At(s, "applying") /\ Todo(s) = {} /\ Fault
    /\ Goes(s, "failing")
    /\ UNCHANGED <<db, marker, live, loaded, owner, writer, past>>

-----------------------------------------------------------------------------
(* Success: the run and the marker, committed here or by the caller.       *)

Without(f, x) == [y \in DOMAIN f \ {x} |-> f[y]]

\* An unapplied slice keeps the hash it had.
Recorded(t) ==
    [state  |-> t.goal,
     slices |-> IF ~t.absent THEN t.goal
                ELSE IF "cluster_followers" \in DOMAIN t.prev
                THEN [t.goal EXCEPT !["cluster_followers"] = t.prev["cluster_followers"]]
                ELSE Without(t.goal, "cluster_followers")]

CommitHere(s) ==
    /\ At(s, "applied") /\ s \notin Deferred /\ writer = None
    /\ marker' = Recorded(task[s])
    /\ owner' = None /\ Ends(s)
    /\ UNCHANGED <<db, live, loaded, writer, past, used>>

\* The section ends before the caller commits.
LeaveToCaller(s) ==
    /\ At(s, "applied") /\ s \in Deferred /\ Free(s)
    /\ writer' = s /\ owner' = None /\ Goes(s, "deferred")
    /\ UNCHANGED <<db, marker, live, loaded, past, used>>

RecordFails(s) ==
    /\ At(s, "applied")
    /\ \/ Fault
       \/ ~Free(s) /\ UNCHANGED used
    /\ task' = [task EXCEPT ![s].pc = "recording", ![s].partial = TRUE]
    /\ RollsBack(s)
    /\ UNCHANGED <<db, marker, live, loaded, owner, past>>

Commit(s) ==
    /\ At(s, "deferred")
    /\ db' = [x \in Slices |-> IF x \in DOMAIN task[s].edit THEN task[s].edit[x] ELSE db[x]]
    /\ marker' = Recorded(task[s])
    /\ writer' = None /\ Ends(s)
    /\ UNCHANGED <<live, loaded, owner, past, used>>

CommitFails(s) ==
    /\ At(s, "deferred") /\ Fault
    /\ writer' = None /\ Goes(s, "invalidating")
    /\ UNCHANGED <<db, marker, live, loaded, owner, past>>

InvalidateDurably(s) ==
    /\ At(s, "invalidating") /\ writer = None
    /\ marker' = NoRun /\ Ends(s)
    /\ UNCHANGED <<db, live, loaded, owner, writer, past, used>>

InvalidationFails(s) ==
    /\ At(s, "invalidating")
    /\ \/ Fault
       \/ writer # None /\ UNCHANGED used
    /\ Lapses(TRUE) /\ Ends(s)
    /\ UNCHANGED <<db, marker, live, loaded, owner, writer>>

-----------------------------------------------------------------------------
(* Failure: nginx goes back, the transaction too; a partial failure makes  *)
(* the next apply a full one.                                              *)

(* Mutant: the replaced proxy files are not put back.                      *)
RollBackNothing(s) ==
    /\ At(s, "failing") /\ (task[s].kept = None \/ ~task[s].reloaded)
    /\ task' = [task EXCEPT ![s].pc = "recording", ![s].partial = task[s].touched]
    /\ RollsBack(s)
    /\ UNCHANGED <<db, marker, live, loaded, owner, past, used>>

\* Nothing staged, or a candidate that was never seen to be loaded.
RollBack(s) ==
    /\ At(s, "failing") /\ (task[s].kept = None \/ ~task[s].reloaded)
    /\ live' = IF task[s].kept = None THEN live
               ELSE [live EXCEPT !["nginx"] = task[s].kept]
    /\ task' = [task EXCEPT ![s].pc = "recording", ![s].partial = task[s].touched]
    /\ RollsBack(s)
    /\ UNCHANGED <<db, marker, loaded, owner, past, used>>

RestoreFiles(s) ==
    /\ At(s, "failing") /\ task[s].kept # None /\ task[s].reloaded
    /\ live' = [live EXCEPT !["nginx"] = task[s].kept]
    /\ Goes(s, "reverting")
    /\ UNCHANGED <<db, marker, loaded, owner, writer, past, used>>

ReloadRestored(s) ==
    /\ At(s, "reverting")
    /\ loaded' = live["nginx"]
    /\ task' = [task EXCEPT ![s].pc = "recording", ![s].partial = task[s].touched]
    /\ RollsBack(s)
    /\ UNCHANGED <<db, marker, live, owner, past, used>>

\* The new error takes the place of the one that knew what was touched.
RestoredReloadFails(s) ==
    /\ At(s, "reverting") /\ Fault
    /\ loaded' \in {loaded, live["nginx"]}
    /\ past' = [past EXCEPT !.lapsed = TRUE, !.murky = TRUE]
    /\ Goes(s, "recording") /\ RollsBack(s)
    /\ UNCHANGED <<db, marker, live, owner>>

(* Mutant: a partial failure keeps the record of the last success.         *)
RecordFailureOnly(s) ==
    /\ At(s, "recording") /\ writer = None
    /\ owner' = None /\ Ends(s)
    /\ UNCHANGED <<db, marker, live, loaded, writer, past, used>>

RecordFailure(s) ==
    /\ At(s, "recording") /\ writer = None
    /\ marker' = IF task[s].partial THEN NoRun ELSE marker
    /\ owner' = None /\ Ends(s)
    /\ UNCHANGED <<db, live, loaded, writer, past, used>>

RecordFailureFails(s) ==
    /\ At(s, "recording")
    /\ \/ Fault
       \/ writer # None /\ UNCHANGED used
    /\ Lapses(task[s].partial)
    /\ owner' = None /\ Ends(s)
    /\ UNCHANGED <<db, marker, live, loaded, writer>>

-----------------------------------------------------------------------------
(* A session is killed, or cancelled by the timeout of an output creation: *)
(* no handler catches that, only the locks are released.                   *)

Hosting == {"applying", "swapped", "applied", "deferred", "invalidating", "failing",
            "reverting", "recording"}

\* What the interrupted step may have done to the host.
HalfDone(s) ==
    LET t == task[s] IN
    \/ UNCHANGED <<live, loaded>>
    \/ /\ Working(s) /\ ~Skips(t, Slice(s)) /\ UNCHANGED loaded
       /\ \E v \in {t.goal[Slice(s)], Mixed} : live' = [live EXCEPT ![Slice(s)] = v]
    \/ At(s, "swapped") /\ loaded' = live["nginx"] /\ UNCHANGED live
    \/ /\ At(s, "failing") /\ t.kept # None /\ UNCHANGED loaded
       /\ \E v \in {t.kept, Mixed} : live' = [live EXCEPT !["nginx"] = v]
    \/ At(s, "reverting") /\ loaded' = live["nginx"] /\ UNCHANGED live

Interrupted(s) ==
    /\ ~At(s, "idle") /\ ~At(s, "done")
    /\ used.stops < MaxStops /\ used' = [used EXCEPT !.stops = @ + 1]
    /\ HalfDone(s)
    /\ owner' = IF owner = s THEN None ELSE owner
    /\ RollsBack(s)
    /\ past' = [past EXCEPT !.lapsed = @ \/ task[s].pc \in Hosting,
                            !.torn   = @ \/ task[s].pc \in Hosting,
                            !.murky  = @ \/ loaded' # live'["nginx"]]
    /\ Ends(s)
    /\ UNCHANGED <<db, marker>>

\* A release that hashes slices differently; nothing runs while it is installed.
Upgrade ==
    /\ \A s \in Sessions : task[s].pc \in {"idle", "done"}
    /\ used.upgrades < MaxUpgrades /\ used' = [used EXCEPT !.upgrades = @ + 1]
    /\ marker' = [marker EXCEPT !.slices = Empty]
    /\ UNCHANGED <<db, live, loaded, owner, writer, task, past>>

Applies(s) ==
    \/ Build(s) \/ Read(s) \/ Prepare(s) \/ PrepareFails(s)
    \/ SkipSlice(s) \/ ApplySlice(s) \/ FollowersUnavailable(s) \/ SliceFails(s)
    \/ SwapFiles(s) \/ SwapFails(s) \/ ValidateFails(s) \/ ReloadNginx(s) \/ ReloadFails(s)
    \/ Verify(s) \/ VerifyFails(s)

Next ==
    \/ \E s \in Sessions :
        \/ Load(s) \/ Change(s) \/ FlushTimesOut(s) \/ Enter(s) \/ LockRefused(s)
        \/ Applies(s)
        \/ CommitHere(s) \/ LeaveToCaller(s) \/ RecordFails(s)
        \/ Commit(s) \/ CommitFails(s) \/ InvalidateDurably(s) \/ InvalidationFails(s)
        \/ RollBack(s) \/ RestoreFiles(s) \/ ReloadRestored(s) \/ RestoredReloadFails(s)
        \/ RecordFailure(s) \/ RecordFailureFails(s)
        \/ Interrupted(s)
    \/ Upgrade

Spec == Init /\ [][Next]_vars

-----------------------------------------------------------------------------
(* Properties.                                                             *)

Settled == owner = None /\ \A s \in Sessions : ~Unsettled(s)

\* By its record alone a slice is skipped if the host cannot be compared.
Blind(slices) ==
    /\ \A x \in DOMAIN slices \ Checked : live[x] = slices[x]
    /\ "nginx" \in DOMAIN slices => loaded = slices["nginx"]

\* What the last successful apply recorded, by which the next one skips, is
\* what the host has: whatever failed since, and however sessions overlap,
\* unless one of the accidents that set lapsed has happened since the last
\* full apply.
MarkerIsTrue == Settled /\ ~past.lapsed => Blind(marker.slices)

\* An apply that reports success has brought to the desired state the slices
\* that are compared with the host, whatever happened before it, and, unless
\* a record was lost, every other slice too, those it skipped included, but
\* for followers it says were not reached.
SuccessConverges ==
    \A s \in Sessions : At(s, "applied") =>
        /\ \A x \in Checked : live[x] = task[s].goal[x]
        /\ ~past.lapsed =>
            Blind(IF task[s].absent THEN Without(task[s].goal, "cluster_followers")
                                    ELSE task[s].goal)

\* A failed apply leaves the proxy files of the last successful one, and
\* nginx runs with them unless a reload was left in doubt.
FailureKeepsIngress ==
    owner = None /\ ~past.torn =>
        live["nginx"] = past.served /\ (loaded = past.served \/ past.murky)

\* "apply: converge all managed runtime state on the server": an apply that
\* reports success, and that no other was in the way of, has brought the host
\* to the desired state, whatever became of the applies before it.
ApplyConverges ==
    \A s \in Sessions : At(s, "applied") /\ task[s].alone => Blind(task[s].goal)

\* "Host state converged successfully": once every apply is over and
\* committed, the state that was applied last is the one the database holds.
SuccessIsTheDatabase ==
    Settled /\ ~past.lapsed /\ marker # NoRun => marker.state = db

-----------------------------------------------------------------------------
(* Why they hold.  An apply is alone in its section, and when the record   *)
(* counts (nothing has lapsed) or a full apply is about to renew it, no    *)
(* other session waits for its commit.                                     *)
Before  == {"building", "reading", "preparing"}
During  == {"applying", "swapped", "applied"}
After   == {"failing", "reverting", "recording"}
Planned == {"reading", "preparing"} \cup During \cup After

AllSettled == \A r \in Sessions : ~Unsettled(r)
OwnerInv ==
    \A s \in Sessions :
        /\ owner = s <=> task[s].pc \in Before \cup During \cup After
        /\ Unsettled(s) => s \in Deferred
        /\ task[s].pc \in Planned /\ (~past.lapsed \/ task[s].alone) => AllSettled

(* What a session knows, from its load to its record.                      *)
Knows(s, t) ==
    /\ t.pc = "loaded" => s \in Deferred
    /\ s \in Deferred /\ t.pc \notin {"idle", "done"} => t.view \in Configs
    /\ t.pc \in Planned \cup {"deferred"} => t.goal \in Configs
    /\ t.pc \in {"idle", "loaded", "changed"} \cup Before =>
         t.todo = Slices /\ t.kept = None
         /\ ~t.absent /\ ~t.touched /\ ~t.reloaded /\ ~t.partial
    /\ t.pc = "applied" => t.todo = {} /\ t.kept = None
    /\ t.pc = "swapped" => "nginx" \in t.todo /\ ~t.reloaded /\ t.kept # None
    /\ t.pc = "applying" /\ "nginx" \in t.todo => t.kept = None /\ ~t.reloaded
    /\ t.pc = "applying" /\ t.kept # None => t.reloaded
    /\ t.reloaded => t.touched
    /\ t.pc = "reverting" => t.kept # None /\ t.touched
    /\ t.pc \in During => ~t.partial
    /\ "cluster_followers" \in DOMAIN t.prev => t.prev["cluster_followers"] \in Values
KnowsInv == \A s \in Sessions : Knows(s, task[s])

(* What an apply has done, and what it may still skip.                     *)
Renews(t) == FullApply(t) /\ t.alone
Done(t) ==
    \A x \in Slices \ t.todo :
        /\ x \in Checked => live[x] = t.goal[x]
        /\ ~past.lapsed \/ Renews(t) =>
            /\ (x = "cluster_followers" /\ t.absent) \/ live[x] = t.goal[x]
            /\ x = "nginx" => loaded = t.goal[x]
MaySkip(t) ==
    \A x \in t.todo \cap DOMAIN t.prev : t.prev[x] = t.goal[x] =>
        /\ x \in Checked \/ live[x] = t.goal[x]
        /\ x = "nginx" /\ t.pc # "swapped" /\ live[x] = t.goal[x] => loaded = t.goal[x]
Progress(t) ==
    /\ Done(t)
    /\ ~past.lapsed => MaySkip(t)
    /\ t.kept # None /\ t.reloaded => loaded = t.goal["nginx"]
    /\ t.absent => /\ "cluster_followers" \notin t.todo
                   /\ ~past.lapsed /\ "cluster_followers" \in DOMAIN t.prev
                        => live["cluster_followers"] = t.prev["cluster_followers"]
    /\ t.pc = "swapped" => live["nginx"] = t.goal["nginx"]
ProgressInv == \A s \in Sessions : task[s].pc \in During \cup {"preparing"} => Progress(task[s])

(* What the record of the last success says is true as long as the next    *)
(* apply may go by it; ingress are the proxy files it will find.           *)
Base(t) == IF t.pc \in {"swapped", "applying", "failing"} /\ t.kept # None THEN t.kept
                                                                          ELSE live["nginx"]
RecordTrue(record, ingress) ==
    /\ Blind(record.slices)
    /\ record # NoRun => /\ loaded = record.state["nginx"]
                         /\ ingress \in {Mixed, record.state["nginx"]}
Relies(t) == \/ t.pc \in {"building", "reading"} /\ AllSettled
             \/ t.pc \in {"preparing", "applying", "swapped", "failing"} /\ ~t.touched
             \/ t.pc = "recording" /\ ~t.partial
RecordInv ==
    ~past.lapsed =>
        /\ owner = None /\ AllSettled => RecordTrue(marker, live["nginx"])
        /\ \A s \in Sessions : Relies(task[s]) => RecordTrue(marker, Base(task[s]))
        /\ \A s \in Sessions : task[s].pc = "deferred" => RecordTrue(Recorded(task[s]), live["nginx"])

(* The proxy: the files nginx goes back to are those of the last success,  *)
(* and what it runs with is known but for a reload in doubt.               *)
Served(base) == past.torn \/ base = past.served
Known(base) == past.murky \/ base = Mixed \/ loaded = base
IngressInv ==
    /\ past.served \in Values
    /\ owner = None => Served(live["nginx"]) /\ Known(live["nginx"])
    /\ \A s \in Sessions : LET t == task[s] IN owner = s =>
        /\ Served(Base(t))
        /\ t.kept = None \/ ~t.reloaded \/ t.pc = "recording" => Known(Base(t))

(* The inductive invariant of HostApply.                                   *)
IInv == TypeOK /\ OwnerInv /\ KnowsInv /\ ProgressInv /\ RecordInv /\ IngressInv
=============================================================================
