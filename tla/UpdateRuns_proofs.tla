--------------------------- MODULE UpdateRuns_proofs ---------------------------
(***************************************************************************)
(* Why no update is recorded as a success that was none, and why only one  *)
(* updater installs, for any number of runs, observers and failures.       *)
(* Observers read, ask and write in three steps without a lock: LookInv    *)
(* says what remains true of what they have read.  One lemma per action    *)
(* shows what it changes first, then each part of IInv from that.  The     *)
(* proof is of OpenSpec, so that HostControl can use it.                   *)
(***************************************************************************)
EXTENDS UpdateRuns, TLAPS

(* What the type invariant says of a look and of a launch.                 *)
LEMMA LookType ==
  ASSUME IInv
  PROVE  \A c \in Observers :
            /\ look[c] \in Look
            /\ look[c].at # "idle" => look[c].run \in Runs
  BY DEF IInv, TypeOK, LookInv

LEMMA LaunchType == ASSUME IInv PROVE \A l \in Launchers : launch[l] \in Launch
  BY DEF IInv, TypeOK

(* The script of a unit that was enqueued has not run yet.                 *)
LEMMA UnitStartsStep ==
  ASSUME IInv, NEW r \in Runs, UnitStarts(r)
  PROVE  IInv'
<1>1. /\ unit[r] = "enqueued"
      /\ unit'[r] = "active" /\ updater'[r] = "started"
      /\ \A s \in Runs : s # r => unit'[s] = unit[s]
      /\ UNCHANGED <<status, log, look, launch, early>>
      /\ \A s \in Runs : s # r => updater'[s] = updater[s]
  BY DEF UnitStarts, IInv, TypeOK, rowVars
<1>2. TypeOK'
  BY LookType, LaunchType, RunsAssumption DEF UnitStarts, IInv, TypeOK, rowVars
<1>3. SuccessIsTrue'
  BY <1>1 DEF IInv, SuccessIsTrue
<1>4. OneInstaller'
  BY <1>1 DEF IInv, OneInstaller, Installing
<1>5. UnitInv'
  BY <1>1 DEF IInv, UnitInv, Alive
<1>6. LookInv'
  BY <1>1 DEF IInv, LookInv
<1>7. LaunchInv'
  BY <1>1 DEF IInv, LaunchInv, InSection
<1>. QED
  BY <1>2, <1>3, <1>4, <1>5, <1>6, <1>7 DEF IInv

(* Only one passes update.lock; the others end.                            *)
LEMMA TakeUpdateLockStep ==
  ASSUME IInv, NEW r \in Runs, TakeUpdateLock(r)
  PROVE  IInv'
<1>1. /\ updater[r] = "started"
      /\ \/ /\ updater'[r] = "installing" /\ log'[r] = log[r]
            /\ \A s \in Runs : ~Installing(s)
         \/ updater'[r] = "failed" /\ log'[r] = "error"
      /\ \A s \in Runs : s # r => updater'[s] = updater[s]
      /\ \A s \in Runs : s # r => log'[s] = log[s]
      /\ UNCHANGED <<status, unit, look, launch, early>>
  BY DEF TakeUpdateLock, IInv, TypeOK, rowVars
<1>2. TypeOK'
  BY DEF TakeUpdateLock, IInv, TypeOK, rowVars
<1>3. SuccessIsTrue'
  BY <1>1 DEF IInv, SuccessIsTrue, UnitInv
<1>4. OneInstaller'
  BY <1>1 DEF IInv, OneInstaller, Installing
<1>5. UnitInv'
  BY <1>1 DEF IInv, UnitInv, Alive
<1>6. LookInv'
  BY <1>1 DEF IInv, LookInv, UnitInv
<1>7. LaunchInv'
  BY <1>1 DEF IInv, LaunchInv, InSection
<1>. QED
  BY <1>2, <1>3, <1>4, <1>5, <1>6, <1>7 DEF IInv

(* Whoever launched in the old server is gone.                             *)
LEMMA RestartServiceStep ==
  ASSUME IInv, NEW r \in Runs, NEW gone \in SUBSET Observers,
         Launchers \subseteq gone, RestartService(r, gone)
  PROVE  IInv'
<1>1. /\ updater[r] = "installing" /\ updater'[r] = "restarted"
      /\ \A s \in Runs : s # r => updater'[s] = updater[s]
      /\ \A c \in Observers : look'[c] = look[c] \/ look'[c].at = "idle"
      /\ \A l \in Launchers : launch'[l].at = "idle"
      /\ UNCHANGED <<status, unit, log, early>>
  BY RunsAssumption
     DEF RestartService, IInv, TypeOK, rowVars, Forget, NotLooking,
         NotLaunching
<1>2. TypeOK'
  BY LookType, LaunchType, RunsAssumption
     DEF RestartService, IInv, TypeOK, Look, Launch, rowVars, Forget,
         NotLooking, NotLaunching
<1>3. SuccessIsTrue'
  BY <1>1 DEF IInv, SuccessIsTrue
<1>4. OneInstaller'
  BY <1>1 DEF IInv, OneInstaller, Installing
<1>5. UnitInv'
  BY <1>1 DEF IInv, UnitInv, Alive
<1>6. LookInv'
  BY <1>1 DEF IInv, LookInv
<1>7. LaunchInv'
  BY <1>1 DEF LaunchInv, InSection
<1>. QED
  BY <1>2, <1>3, <1>4, <1>5, <1>6, <1>7 DEF IInv

(* Nobody has a broken launch of this run to record.                       *)
LEMMA UpdaterCompletesStep ==
  ASSUME IInv, NEW r \in Runs, UpdaterCompletes(r)
  PROVE  IInv'
<1>1. /\ updater[r] = "restarted" /\ updater'[r] = "completed"
      /\ log'[r] = "success"
      /\ \A s \in Runs : s # r => log'[s] = log[s]
      /\ UNCHANGED <<status, unit, look, launch, early>>
      /\ \A s \in Runs : s # r => updater'[s] = updater[s]
  BY DEF UpdaterCompletes, IInv, TypeOK, rowVars
<1>2. TypeOK'
  BY LookType, LaunchType, RunsAssumption
     DEF UpdaterCompletes, IInv, TypeOK, rowVars
<1>3. SuccessIsTrue'
  BY <1>1 DEF IInv, SuccessIsTrue
<1>4. OneInstaller'
  BY <1>1 DEF IInv, OneInstaller, Installing
<1>5. UnitInv'
  BY <1>1 DEF IInv, UnitInv
<1>6. LookInv'
  BY <1>1 DEF IInv, LookInv
<1>7. LaunchInv'
  BY <1>1 DEF IInv, LaunchInv, InSection
<1>. QED
  BY <1>2, <1>3, <1>4, <1>5, <1>6, <1>7 DEF IInv

(* A run that fails was not complete.                                      *)
LEMMA UpdaterFailsStep ==
  ASSUME IInv, NEW r \in Runs, UpdaterFails(r)
  PROVE  IInv'
<1>1. /\ updater[r] \in {"installing", "restarted"}
      /\ updater'[r] = "failed" /\ log'[r] = "error"
      /\ \A s \in Runs : s # r => log'[s] = log[s]
      /\ UNCHANGED <<status, unit, look, launch, early>>
      /\ \A s \in Runs : s # r => updater'[s] = updater[s]
  BY DEF UpdaterFails, IInv, TypeOK, rowVars, Installing
<1>2. TypeOK'
  BY LookType, LaunchType, RunsAssumption
     DEF UpdaterFails, IInv, TypeOK, rowVars
<1>3. SuccessIsTrue'
  BY <1>1 DEF IInv, SuccessIsTrue, UnitInv
<1>4. OneInstaller'
  BY <1>1 DEF IInv, OneInstaller, Installing
<1>5. UnitInv'
  BY <1>1 DEF IInv, UnitInv
<1>6. LookInv'
  BY <1>1 DEF IInv, LookInv, UnitInv
<1>7. LaunchInv'
  BY <1>1 DEF IInv, LaunchInv, InSection
<1>. QED
  BY <1>2, <1>3, <1>4, <1>5, <1>6, <1>7 DEF IInv

(* A run that is killed was not complete.                                  *)
LEMMA UpdaterKilledStep ==
  ASSUME IInv, NEW r \in Runs, UpdaterKilled(r)
  PROVE  IInv'
<1>1. /\ updater[r] \in {"started", "installing", "restarted"}
      /\ updater'[r] = "gone" /\ unit'[r] = "failed"
      /\ \A s \in Runs : s # r => unit'[s] = unit[s]
      /\ UNCHANGED <<status, log, look, launch, early>>
      /\ \A s \in Runs : s # r => updater'[s] = updater[s]
  BY DEF UpdaterKilled, IInv, TypeOK, rowVars, Installing
<1>2. TypeOK'
  BY LookType, LaunchType, RunsAssumption
     DEF UpdaterKilled, IInv, TypeOK, rowVars
<1>3. SuccessIsTrue'
  BY <1>1 DEF IInv, SuccessIsTrue
<1>4. OneInstaller'
  BY <1>1 DEF IInv, OneInstaller, Installing
<1>5. UnitInv'
  BY <1>1 DEF IInv, UnitInv
<1>6. LookInv'
  BY <1>1 DEF IInv, LookInv
<1>7. LaunchInv'
  BY <1>1 DEF IInv, LaunchInv, InSection
<1>. QED
  BY <1>2, <1>3, <1>4, <1>5, <1>6, <1>7 DEF IInv

(* The unit ends as the script did.                                        *)
LEMMA UnitExitsStep ==
  ASSUME IInv, NEW r \in Runs, UnitExits(r)
  PROVE  IInv'
<1>1. /\ unit[r] = "active"
      /\ \/ updater[r] = "completed" /\ unit'[r] = "exited"
         \/ updater[r] = "failed" /\ unit'[r] = "failed"
      /\ \A s \in Runs : s # r => unit'[s] = unit[s]
      /\ UNCHANGED <<status, updater, log, look, launch, early>>
  BY DEF UnitExits, IInv, TypeOK, rowVars
<1>2. TypeOK'
  BY LaunchType, RunsAssumption DEF UnitExits, IInv, TypeOK, rowVars
<1>3. SuccessIsTrue'
  BY <1>1 DEF IInv, SuccessIsTrue
<1>4. OneInstaller'
  BY <1>1 DEF IInv, OneInstaller, Installing
<1>5. UnitInv'
  BY <1>1 DEF IInv, UnitInv
<1>6. LookInv'
  BY <1>1 DEF IInv, LookInv
<1>7. LaunchInv'
  BY <1>1 DEF IInv, LaunchInv, InSection
<1>. QED
  BY <1>2, <1>3, <1>4, <1>5, <1>6, <1>7 DEF IInv

(* Only a completed unit goes without a trace.                             *)
LEMMA UnitCollectedStep ==
  ASSUME IInv, NEW r \in Runs, UnitCollected(r)
  PROVE  IInv'
<1>1. /\ unit[r] = "exited" /\ unit'[r] = "absent"
      /\ \A s \in Runs : s # r => unit'[s] = unit[s]
      /\ UNCHANGED <<status, updater, log, look, launch, early>>
  BY DEF UnitCollected, IInv, TypeOK, rowVars
<1>2. TypeOK'
  BY LaunchType, RunsAssumption DEF UnitCollected, IInv, TypeOK, rowVars
<1>3. SuccessIsTrue'
  BY <1>1 DEF IInv, SuccessIsTrue
<1>4. OneInstaller'
  BY <1>1 DEF IInv, OneInstaller, Installing
<1>5. UnitInv'
  BY <1>1 DEF IInv, UnitInv
<1>6. LookInv'
  BY <1>1 DEF IInv, LookInv
<1>7. LaunchInv'
  BY <1>1 DEF IInv, LaunchInv, InSection
<1>. QED
  BY <1>2, <1>3, <1>4, <1>5, <1>6, <1>7 DEF IInv

(* What is read is true.                                                   *)
LEMMA LookBeginStep ==
  ASSUME IInv, NEW c \in Observers, NEW r \in Runs, LookBegin(c, r)
  PROVE  IInv'
<1>1. /\ status[r] \in Pending
      /\ look'[c].at = "loaded" /\ look'[c].run = r /\ look'[c].was = status[r]
      /\ look'[c].log = log[r]
      /\ \A d \in Observers : d # c => look'[d] = look[d]
      /\ UNCHANGED <<status, unit, updater, log, launch, early>>
  BY RunsAssumption DEF LookBegin, IInv, TypeOK, Load, rowVars, sysVars
<1>2. TypeOK'
  <2>1. /\ status[r] \in Pending /\ failures[r] \in Nat
        /\ log[r] \in {"none", "success", "error"} /\ r \in 0..MaxRuns
    BY DEF LookBegin, IInv, TypeOK, Runs
  <2>. DEFINE e == [NotLooking EXCEPT !.at = "loaded", !.run = r, !.was = status[r],
                              !.log = log[r], !.fails = failures[r]]
  <2>2. look' = [look EXCEPT ![c] = e]
    BY DEF LookBegin, Load
  <2>3. e \in Look
    BY <2>1 DEF Look, NotLooking
  <2>. HIDE DEF e
  <2>4. look' \in [Observers -> Look]
    BY <2>2, <2>3 DEF IInv, TypeOK
  <2>. QED
    BY <2>4 DEF LookBegin, IInv, TypeOK, rowVars, sysVars
<1>3. SuccessIsTrue'
  BY <1>1 DEF IInv, SuccessIsTrue
<1>4. OneInstaller'
  BY <1>1 DEF IInv, OneInstaller, Installing
<1>5. UnitInv'
  BY <1>1 DEF IInv, UnitInv
<1>6. LookInv'
  BY <1>1 DEF IInv, LookInv, Pending
<1>7. LaunchInv'
  BY <1>1 DEF IInv, LaunchInv, InSection
<1>. QED
  BY <1>2, <1>3, <1>4, <1>5, <1>6, <1>7 DEF IInv

(* A success is concluded from the log read before, or from a unit that    *)
(* has exited.                                                             *)
LEMMA LookShowStep ==
  ASSUME IInv, NEW c \in Observers, LookShow(c)
  PROVE  IInv'
<1>1. /\ look[c].at = "loaded" /\ look'[c].at = "shown"
      /\ look'[c].run = look[c].run /\ look'[c].was = look[c].was
      /\ look'[c].log = look[c].log
      /\ look'[c].next \in {"running", "success", "error"}
      /\ look'[c].next = "success" =>
         \/ look[c].run \in early' \/ unit[look[c].run] = "exited"
         \/ look[c].log = "success"
      /\ \A d \in Observers : d # c => look'[d] = look[d]
      /\ early \subseteq early' /\ early' \in SUBSET Runs
      /\ UNCHANGED <<status, unit, updater, log, launch>>
  <2>. DEFINE n == NextStatus(unit[look[c].run], look[c].log)
  <2>1. look' = [look EXCEPT ![c] =
                   [look[c] EXCEPT !.at = "shown", !.fails = 0, !.next = n]]
    BY DEF LookShow
  <2>2. /\ look[c].run \in Runs
        /\ unit[look[c].run] \in {"absent", "enqueued", "active", "exited", "failed"}
    BY DEF LookShow, IInv, TypeOK, LookInv
  <2>3. /\ early \subseteq early' /\ early' \in SUBSET Runs
        /\ unit[look[c].run] = "enqueued" => look[c].run \in early'
    BY <2>2 DEF LookShow, IInv, TypeOK
  <2>4. /\ n \in {"running", "success", "error"}
        /\ n = "success" => \/ unit[look[c].run] \in {"enqueued", "exited"}
                            \/ look[c].log = "success"
    BY <2>2 DEF NextStatus
  <2>. HIDE DEF n
  <2>. QED
    <3>1. look[c] \in Look /\ look \in [Observers -> Look] /\ look[c].at = "loaded"
      BY DEF LookShow, IInv, TypeOK
    <3>2. UNCHANGED <<status, unit, updater, log, launch>>
      BY DEF LookShow, rowVars, sysVars
    <3>. QED
      BY <2>1, <2>3, <2>4, <3>1, <3>2
<1>2. TypeOK'
  <2>1. NextStatus(unit[look[c].run], look[c].log) \in {"running", "success", "error"}
    BY LookType DEF NextStatus, LookShow, IInv, TypeOK
  <2>. DEFINE e == [look[c] EXCEPT !.at = "shown", !.fails = 0,
                       !.next = NextStatus(unit[look[c].run], look[c].log)]
  <2>2. look' = [look EXCEPT ![c] = e]
    BY DEF LookShow
  <2>3. e \in Look
    BY <2>1, LookType DEF Look
  <2>. HIDE DEF e
  <2>4. look' \in [Observers -> Look]
    BY <2>2, <2>3 DEF IInv, TypeOK
  <2>. QED
    BY <2>4 DEF LookShow, IInv, TypeOK, rowVars, sysVars
<1>3. SuccessIsTrue'
  BY <1>1 DEF IInv, SuccessIsTrue
<1>4. OneInstaller'
  BY <1>1 DEF IInv, OneInstaller, Installing
<1>5. UnitInv'
  BY <1>1 DEF IInv, UnitInv
<1>6. LookInv'
  BY <1>1 DEF IInv, LookInv, UnitInv
<1>7. LaunchInv'
  BY <1>1 DEF IInv, LaunchInv, InSection
<1>. QED
  BY <1>2, <1>3, <1>4, <1>5, <1>6, <1>7 DEF IInv

(* No success is concluded.                                                *)
LEMMA LookShowFailsStep ==
  ASSUME IInv, NEW c \in Observers, NEW retryable \in BOOLEAN, NEW recent \in BOOLEAN,
         LookShowFails(c, retryable, recent)
  PROVE  IInv'
<1>1. /\ look[c].at = "loaded" /\ look'[c].at = "shown"
      /\ look'[c].run = look[c].run /\ look'[c].was = look[c].was
      /\ look'[c].log = look[c].log
      /\ look'[c].next \in {"running", "error"}
      /\ \A d \in Observers : d # c => look'[d] = look[d]
      /\ UNCHANGED <<status, unit, updater, log, launch, early>>
  BY DEF LookShowFails, IInv, TypeOK, rowVars, sysVars
<1>2. TypeOK'
  <2>. DEFINE k == IF recent THEN look[c].fails ELSE look[c].fails + 1
              e == [look[c] EXCEPT !.at = "shown", !.fails = k,
                      !.next = IF retryable /\ k <= LookupAttempts
                               THEN "running" ELSE "error"]
  <2>1. look' = [look EXCEPT ![c] = e]
    BY DEF LookShowFails
  <2>2. k \in Nat
    BY LookType DEF Look
  <2>. HIDE DEF k
  <2>3. e \in Look
    BY <2>2, LookType DEF Look
  <2>. HIDE DEF e
  <2>4. look' \in [Observers -> Look]
    BY <2>1, <2>3 DEF IInv, TypeOK
  <2>. QED
    BY <2>4 DEF LookShowFails, IInv, TypeOK, rowVars, sysVars
<1>3. SuccessIsTrue'
  BY <1>1 DEF IInv, SuccessIsTrue
<1>4. OneInstaller'
  BY <1>1 DEF IInv, OneInstaller, Installing
<1>5. UnitInv'
  BY <1>1 DEF IInv, UnitInv
<1>6. LookInv'
  BY <1>1 DEF IInv, LookInv
<1>7. LaunchInv'
  BY <1>1 DEF IInv, LaunchInv, InSection
<1>. QED
  BY <1>2, <1>3, <1>4, <1>5, <1>6, <1>7 DEF IInv

(* What is written is what was concluded, or what the row says.            *)
LEMMA LookWriteStep ==
  ASSUME IInv, NEW c \in Observers, LookWrite(c)
  PROVE  IInv'
<1>1. /\ look[c].at = "shown"
      /\ \/ status'[look[c].run] = look[c].next
         \/ status'[look[c].run] = status[look[c].run]
      /\ \A s \in Runs : s # look[c].run => status'[s] = status[s]
      /\ look'[c].at = "idle"
      /\ \A d \in Observers : d # c => look'[d] = look[d]
      /\ UNCHANGED <<unit, updater, log, launch, early>>
  BY DEF LookWrite, RowWritten, rowVars, sysVars, NotLooking, IInv, TypeOK
<1>2. TypeOK'
  <2>1. /\ status' \in [Runs -> Pending \cup Settled \cup {"none"}]
        /\ failures' \in [Runs -> Nat]
    <3>1. look[c].fails \in Nat /\ look[c].next \in Pending \cup Settled
      BY LookType DEF LookWrite, Look, IInv, LookInv, Pending, Settled
    <3>. QED
      BY <3>1 DEF LookWrite, RowWritten, IInv, TypeOK, rowVars
  <2>2. look' \in [Observers -> Look]
    BY RunsAssumption DEF LookWrite, NotLooking, Look, IInv, TypeOK
  <2>. QED
    BY <2>1, <2>2 DEF LookWrite, Move, IInv, TypeOK, sysVars
<1>3. SuccessIsTrue'
  BY <1>1 DEF IInv, SuccessIsTrue, LookInv
<1>4. OneInstaller'
  BY <1>1 DEF IInv, OneInstaller, Installing
<1>5. UnitInv'
  BY <1>1 DEF IInv, UnitInv, LookInv
<1>6. LookInv'
  BY <1>1 DEF IInv, LookInv
<1>7. LaunchInv'
  BY <1>1 DEF IInv, LaunchInv, InSection, LookInv
<1>. QED
  BY <1>2, <1>3, <1>4, <1>5, <1>6, <1>7 DEF IInv

(* The same, by the launch.                                                *)
LEMMA LaunchReconciledStep ==
  ASSUME IInv, NEW l \in Launchers, LaunchReconciled(l)
  PROVE  IInv'
<1>1. /\ look[l].at = "shown" /\ InSection(l)
      /\ \/ status'[look[l].run] = look[l].next
         \/ status'[look[l].run] = status[look[l].run]
      /\ \A s \in Runs : s # look[l].run => status'[s] = status[s]
      /\ look'[l].at = "idle"
      /\ \A d \in Observers : d # l => look'[d] = look[d]
      /\ launch'[l].at \in {"idle", "admitted"}
      /\ \A m \in Launchers : m # l => launch'[m] = launch[m]
      /\ UNCHANGED <<unit, updater, log, early>>
  BY RunsAssumption
     DEF LaunchReconciled, RowWritten, InSection, Move, rowVars, sysVars,
         NotLooking, IInv, TypeOK
<1>2. TypeOK'
  <2>1. /\ status' \in [Runs -> Pending \cup Settled \cup {"none"}]
        /\ failures' \in [Runs -> Nat]
    <3>1. look[l].fails \in Nat /\ look[l].next \in Pending \cup Settled
      BY LookType, RunsAssumption
         DEF LaunchReconciled, Look, IInv, LookInv, Pending, Settled
    <3>. QED
      BY <3>1 DEF LaunchReconciled, RowWritten, IInv, TypeOK, rowVars
  <2>2. look' \in [Observers -> Look]
    BY RunsAssumption DEF LaunchReconciled, NotLooking, Look, IInv, TypeOK
  <2>. QED
    BY <2>1, <2>2, RunsAssumption
       DEF LaunchReconciled, Move, Launch, IInv, TypeOK, sysVars
<1>3. SuccessIsTrue'
  BY <1>1, RunsAssumption DEF IInv, SuccessIsTrue, LookInv
<1>4. OneInstaller'
  BY <1>1 DEF IInv, OneInstaller, Installing
<1>5. UnitInv'
  BY <1>1, RunsAssumption DEF IInv, UnitInv, LookInv
<1>6. LookInv'
  BY <1>1, RunsAssumption DEF IInv, LookInv
<1>7. LaunchInv'
  BY <1>1, RunsAssumption DEF IInv, LaunchInv, InSection, LookInv
<1>. QED
  BY <1>2, <1>3, <1>4, <1>5, <1>6, <1>7 DEF IInv

(* The section was free.                                                   *)
LEMMA LaunchBeginStep ==
  ASSUME IInv, NEW l \in Launchers, SectionFree, LaunchBegin(l)
  PROVE  IInv'
<1>1. /\ launch[l].at = "idle" /\ \A m \in Launchers : ~InSection(m)
      /\ \/ /\ launch'[l].at = "reconciling" /\ launch'[l].run \in Runs
            /\ status[launch'[l].run] \in Pending /\ look'[l].at = "loaded"
            /\ look'[l].run = launch'[l].run /\ look'[l].was = status[launch'[l].run]
            /\ look'[l].log = log[launch'[l].run]
         \/ launch'[l].at = "admitted" /\ look'[l] = look[l]
      /\ \A d \in Observers : d # l => look'[d] = look[d]
      /\ \A m \in Launchers : m # l => launch'[m] = launch[m]
      /\ UNCHANGED <<status, unit, updater, log, early>>
  <2>1. /\ launch[l].at = "idle" /\ l \in Observers
        /\ UNCHANGED <<status, unit, updater, log, early>>
    BY RunsAssumption DEF LaunchBegin, rowVars, sysVars
  <2>2. \A m \in Launchers : ~InSection(m)
    BY DEF SectionFree, InSection
  <2>3. ASSUME NEW r \in Runs, LatestPending(r), Load(l, r), Move(l, "reconciling", r)
        PROVE  /\ launch'[l].at = "reconciling" /\ launch'[l].run = r
               /\ status[r] \in Pending /\ look'[l].at = "loaded"
               /\ look'[l].run = r /\ look'[l].was = status[r] /\ look'[l].log = log[r]
               /\ \A d \in Observers : d # l => look'[d] = look[d]
               /\ \A m \in Launchers : m # l => launch'[m] = launch[m]
    BY <2>1, <2>3 DEF LatestPending, Load, Move, IInv, TypeOK
  <2>4. ASSUME Move(l, "admitted", 0), look' = look
        PROVE  /\ launch'[l].at = "admitted"
               /\ \A m \in Launchers : m # l => launch'[m] = launch[m]
    BY <2>4 DEF Move, IInv, TypeOK
  <2>. QED
    BY <2>1, <2>2, <2>3, <2>4 DEF LaunchBegin
<1>2. TypeOK'
  <2>1. ASSUME NEW r \in Runs, Load(l, r), Move(l, "reconciling", r),
               status[r] \in Pending
        PROVE  look' \in [Observers -> Look] /\ launch' \in [Launchers -> Launch]
    <3>1. /\ failures[r] \in Nat /\ r \in 0..MaxRuns /\ l \in Observers
          /\ log[r] \in {"none", "success", "error"}
      BY RunsAssumption DEF IInv, TypeOK, Runs
    <3>. DEFINE e == [NotLooking EXCEPT !.at = "loaded", !.run = r, !.was = status[r],
                                !.log = log[r], !.fails = failures[r]]
    <3>2. look' = [look EXCEPT ![l] = e]
      BY <2>1 DEF Load
    <3>5. e \in Look
      BY <2>1, <3>1 DEF Look, NotLooking
    <3>. HIDE DEF e
    <3>3. look' \in [Observers -> Look]
      BY <3>2, <3>5 DEF IInv, TypeOK
    <3>4. launch' \in [Launchers -> Launch]
      BY <2>1, <3>1 DEF Move, Launch, IInv, TypeOK
    <3>. QED
      BY <3>3, <3>4
  <2>2. ASSUME Move(l, "admitted", 0), look' = look
        PROVE  look' \in [Observers -> Look] /\ launch' \in [Launchers -> Launch]
    BY <2>2, RunsAssumption DEF Move, IInv, TypeOK, Launch
  <2>. QED
    BY <2>1, <2>2
       DEF LaunchBegin, LatestPending, IInv, TypeOK, rowVars, sysVars
<1>3. SuccessIsTrue'
  BY <1>1 DEF IInv, SuccessIsTrue
<1>4. OneInstaller'
  BY <1>1 DEF IInv, OneInstaller, Installing
<1>5. UnitInv'
  BY <1>1 DEF IInv, UnitInv
<1>6. LookInv'
  BY <1>1 DEF IInv, LookInv, Pending
<1>7. LaunchInv'
  BY <1>1 DEF IInv, LaunchInv, InSection
<1>. QED
  BY <1>2, <1>3, <1>4, <1>5, <1>6, <1>7 DEF IInv

(* The launch is over.                                                     *)
LEMMA LaunchRejectedStep ==
  ASSUME IInv, NEW l \in Launchers, LaunchRejected(l)
  PROVE  IInv'
<1>1. /\ launch'[l].at = "idle"
      /\ \A m \in Launchers : m # l => launch'[m] = launch[m]
      /\ UNCHANGED <<status, unit, updater, log, look, early>>
  BY DEF LaunchRejected, IInv, TypeOK, Move, rowVars, sysVars
<1>2. TypeOK'
  BY LookType, LaunchType, RunsAssumption
     DEF LaunchRejected, IInv, TypeOK, Launch, Move, rowVars, sysVars
<1>3. SuccessIsTrue'
  BY <1>1 DEF IInv, SuccessIsTrue
<1>4. OneInstaller'
  BY <1>1 DEF IInv, OneInstaller, Installing
<1>5. UnitInv'
  BY <1>1 DEF IInv, UnitInv
<1>6. LookInv'
  BY <1>1 DEF IInv, LookInv
<1>7. LaunchInv'
  BY <1>1 DEF IInv, LaunchInv, InSection
<1>. QED
  BY <1>2, <1>3, <1>4, <1>5, <1>6, <1>7 DEF IInv

(* A new row has no unit yet.                                              *)
LEMMA QueueRowStep ==
  ASSUME IInv, NEW l \in Launchers, NEW r \in Runs, launch[l].at = "admitted",
         NewRow(r, "queued"), Move(l, "queued", r),
         UNCHANGED <<failures, sysVars, look, faults, early>>
  PROVE  IInv'
<1>1. /\ launch[l].at = "admitted"
      /\ status[r] = "none" /\ status'[r] = "queued"
      /\ launch'[l].at = "queued" /\ launch'[l].run = r
      /\ \A s \in Runs : s # r => status'[s] = status[s]
      /\ \A m \in Launchers : m # l => launch'[m] = launch[m]
      /\ UNCHANGED <<unit, updater, log, look, early>>
  BY DEF IInv, TypeOK, NewRow, Move, sysVars
<1>2. TypeOK'
  BY LookType, LaunchType, RunsAssumption
     DEF IInv, TypeOK, Launch, Pending, Runs, NewRow, Move, sysVars
<1>3. SuccessIsTrue'
  BY <1>1 DEF IInv, SuccessIsTrue
<1>4. OneInstaller'
  BY <1>1 DEF IInv, OneInstaller, Installing
<1>5. UnitInv'
  BY <1>1 DEF IInv, UnitInv
<1>6. LookInv'
  BY <1>1 DEF IInv, LookInv
<1>7. LaunchInv'
  BY <1>1 DEF IInv, LaunchInv, InSection, UnitInv
<1>. QED
  BY <1>2, <1>3, <1>4, <1>5, <1>6, <1>7 DEF IInv

(* The unit was absent.                                                    *)
LEMMA LaunchUnitStep ==
  ASSUME IInv, NEW l \in Launchers, LaunchUnit(l)
  PROVE  IInv'
<1>1. /\ launch[l].at = "queued"
      /\ launch[l].run \in Runs
      /\ unit'[launch[l].run] = "enqueued"
      /\ \A s \in Runs : s # launch[l].run => unit'[s] = unit[s]
      /\ launch'[l].at = "idle"
      /\ \A m \in Launchers : m # l => launch'[m] = launch[m]
      /\ UNCHANGED <<status, updater, log, look, early>>
  BY RunsAssumption
     DEF LaunchUnit, IInv, TypeOK, Enqueue, Move, rowVars, LaunchInv
<1>2. TypeOK'
  BY LookType, LaunchType, RunsAssumption
     DEF LaunchUnit, IInv, TypeOK, Launch, Enqueue, Move, rowVars, LaunchInv
<1>3. SuccessIsTrue'
  BY <1>1 DEF IInv, SuccessIsTrue
<1>4. OneInstaller'
  BY <1>1 DEF IInv, OneInstaller, Installing
<1>5. UnitInv'
  BY <1>1 DEF IInv, UnitInv, LaunchInv
<1>6. LookInv'
  BY <1>1 DEF IInv, LookInv
<1>7. LaunchInv'
  BY <1>1 DEF IInv, LaunchInv, InSection
<1>. QED
  BY <1>2, <1>3, <1>4, <1>5, <1>6, <1>7 DEF IInv

(* The unit was absent, and its script has not run.                        *)
LEMMA LaunchBreaksStep ==
  ASSUME IInv, NEW l \in Launchers, LaunchBreaks(l)
  PROVE  IInv'
<1>1. /\ launch[l].at = "queued"
      /\ launch[l].run \in Runs
      /\ \/ unit' = unit
         \/ unit'[launch[l].run] = "enqueued"
      /\ \A s \in Runs : s # launch[l].run => unit'[s] = unit[s]
      /\ launch'[l].at = "broken" /\ launch'[l].run = launch[l].run
      /\ \A m \in Launchers : m # l => launch'[m] = launch[m]
      /\ UNCHANGED <<status, updater, log, look, early>>
  BY RunsAssumption
     DEF LaunchBreaks, IInv, TypeOK, Enqueue, Move, rowVars, LaunchInv
<1>2. TypeOK'
  <2>1. unit' \in [Runs -> {"absent", "enqueued", "active", "exited", "failed"}]
    BY DEF LaunchBreaks, Enqueue, IInv, TypeOK
  <2>. QED
    BY <2>1 DEF LaunchBreaks, Move, IInv, TypeOK, Launch, rowVars
<1>3. SuccessIsTrue'
  BY <1>1 DEF IInv, SuccessIsTrue
<1>4. OneInstaller'
  BY <1>1 DEF IInv, OneInstaller, Installing
<1>5. UnitInv'
  BY <1>1 DEF IInv, UnitInv, LaunchInv
<1>6. LookInv'
  BY <1>1 DEF IInv, LookInv
<1>7. LaunchInv'
  BY <1>1 DEF IInv, LaunchInv, InSection
<1>. QED
  BY <1>2, <1>3, <1>4, <1>5, <1>6, <1>7 DEF IInv

(* The log that is replaced had no completion.                             *)
LEMMA RecordBrokenStep ==
  ASSUME IInv, NEW l \in Launchers, RecordBroken(l)
  PROVE  IInv'
<1>1. /\ launch[l].at = "broken"
      /\ launch[l].run \in Runs
      /\ status'[launch[l].run] = "error" /\ log'[launch[l].run] = "error"
      /\ \A s \in Runs : s # launch[l].run => status'[s] = status[s] /\ log'[s] = log[s]
      /\ launch'[l].at = "idle"
      /\ \A m \in Launchers : m # l => launch'[m] = launch[m]
      /\ UNCHANGED <<unit, updater, look, early>>
  BY DEF RecordBroken, IInv, TypeOK, Move, LaunchInv
<1>2. TypeOK'
  BY LookType, LaunchType, RunsAssumption
     DEF RecordBroken, IInv, TypeOK, Launch, Settled, Move, LaunchInv
<1>3. SuccessIsTrue'
  BY <1>1 DEF IInv, SuccessIsTrue
<1>4. OneInstaller'
  BY <1>1 DEF IInv, OneInstaller, Installing
<1>5. UnitInv'
  BY <1>1 DEF IInv, UnitInv, LaunchInv
<1>6. LookInv'
  BY <1>1 DEF IInv, LookInv, UnitInv, LaunchInv
<1>7. LaunchInv'
  BY <1>1 DEF IInv, LaunchInv, InSection
<1>. QED
  BY <1>2, <1>3, <1>4, <1>5, <1>6, <1>7 DEF IInv

(* A row nobody looked at.                                                 *)
LEMMA RecordBlockedStep ==
  ASSUME IInv, NEW l \in Launchers, NEW r \in Runs, NewRow(r, "error"),
         UNCHANGED <<failures, sysVars, look, launch, faults, early>>
  PROVE  IInv'
<1>1. /\ status[r] = "none" /\ status'[r] = "error"
      /\ \A s \in Runs : s # r => status'[s] = status[s]
      /\ UNCHANGED <<unit, updater, log, look, launch, early>>
  BY DEF IInv, TypeOK, NewRow, sysVars
<1>2. TypeOK'
  BY LaunchType, RunsAssumption DEF IInv, TypeOK, Settled, NewRow, sysVars
<1>3. SuccessIsTrue'
  BY <1>1 DEF IInv, SuccessIsTrue
<1>4. OneInstaller'
  BY <1>1 DEF IInv, OneInstaller, Installing
<1>5. UnitInv'
  BY <1>1 DEF IInv, UnitInv
<1>6. LookInv'
  BY <1>1 DEF IInv, LookInv
<1>7. LaunchInv'
  BY <1>1 DEF IInv, LaunchInv, InSection
<1>. QED
  BY <1>2, <1>3, <1>4, <1>5, <1>6, <1>7 DEF IInv

(* Looks and launches are forgotten.                                       *)
LEMMA ForgetStep ==
  ASSUME IInv, NEW gone \in SUBSET Observers, Forget(gone),
         faults' \in {faults, faults + 1}, UNCHANGED <<rowVars, sysVars, early>>
  PROVE  IInv'
<1>1. /\ \A c \in Observers : look'[c] = look[c] \/ look'[c].at = "idle"
      /\ \A l \in Launchers : launch'[l] = launch[l] \/ launch'[l].at = "idle"
      /\ UNCHANGED <<status, unit, updater, log, early>>
  BY LaunchType, RunsAssumption
     DEF Forget, NotLooking, NotLaunching, rowVars, sysVars
<1>2. TypeOK'
  BY LookType, LaunchType, RunsAssumption
     DEF IInv, TypeOK, Look, Launch, Forget, NotLooking, NotLaunching,
         rowVars, sysVars
<1>3. SuccessIsTrue'
  BY <1>1 DEF IInv, SuccessIsTrue
<1>4. OneInstaller'
  BY <1>1 DEF IInv, OneInstaller, Installing
<1>5. UnitInv'
  BY <1>1 DEF IInv, UnitInv
<1>6. LookInv'
  BY <1>1 DEF IInv, LookInv
<1>7. LaunchInv'
  BY <1>1 DEF IInv, LaunchInv, InSection
<1>. QED
  BY <1>2, <1>3, <1>4, <1>5, <1>6, <1>7 DEF IInv

(* No run was ever asked for.                                              *)
LEMMA InitStep == Init => IInv
<1>. SUFFICES ASSUME Init PROVE IInv
  OBVIOUS
<1>. USE DEF Init, NotLooking, NotLaunching
<1>1. TypeOK
  BY RunsAssumption DEF TypeOK, Look, Launch
<1>2. SuccessIsTrue /\ OneInstaller /\ UnitInv
  BY DEF SuccessIsTrue, OneInstaller, Installing, UnitInv
<1>3. LookInv /\ LaunchInv
  BY DEF LookInv, LaunchInv, InSection
<1>. QED
  BY <1>1, <1>2, <1>3 DEF IInv

(* Every step of an open system keeps the inductive invariant.             *)
LEMMA OpenStep == IInv /\ [OpenNext]_vars => IInv'
<1>. SUFFICES ASSUME IInv, [OpenNext]_vars PROVE IInv'
  OBVIOUS
<1>1. ASSUME NEW r \in Runs,
             \/ UnitStarts(r) \/ TakeUpdateLock(r) \/ UpdaterCompletes(r)
             \/ UpdaterFails(r) \/ UpdaterKilled(r) \/ UnitExits(r) \/ UnitCollected(r)
      PROVE  IInv'
  BY <1>1, UnitStartsStep, TakeUpdateLockStep, UpdaterCompletesStep,
     UpdaterFailsStep, UpdaterKilledStep, UnitExitsStep, UnitCollectedStep
<1>2. ASSUME NEW c \in Observers, LookStep(c) PROVE IInv'
  BY <1>2, LookBeginStep, LookShowStep, LookShowFailsStep, LookWriteStep
     DEF LookStep
<1>3. ASSUME NEW l \in Launchers, QueueRow(l) PROVE IInv'
  BY <1>3, QueueRowStep DEF QueueRow
<1>4. ASSUME NEW l \in Launchers, RecordBlocked(l) PROVE IInv'
  BY <1>4, RecordBlockedStep DEF RecordBlocked
<1>5. ASSUME NEW l \in Launchers, LaunchStep(l) PROVE IInv'
  BY <1>3, <1>4, <1>5, LaunchBeginStep, LaunchReconciledStep,
     LaunchRejectedStep, LaunchUnitStep, LaunchBreaksStep, RecordBrokenStep
     DEF LaunchStep
<1>6. CASE UNCHANGED vars
  <2>. USE <1>6 DEF vars, rowVars, sysVars
  <2>1. TypeOK' /\ SuccessIsTrue' /\ OneInstaller'
    BY DEF IInv, TypeOK, SuccessIsTrue, OneInstaller, Installing
  <2>2. UnitInv'
    BY DEF IInv, UnitInv
  <2>3. LookInv' /\ LaunchInv'
    BY DEF IInv, LookInv, LaunchInv, InSection
  <2>. QED
    BY <2>1, <2>2, <2>3 DEF IInv
<1>. QED
  BY <1>1, <1>2, <1>5, <1>6, RestartServiceStep, ForgetStep DEF OpenNext

(* A server that restarts with all its tasks is one environment.           *)
LEMMA NextIsOpen == [Next]_vars => [OpenNext]_vars
<1>1. ASSUME NEW r \in Runs, UpdaterStep(r) PROVE OpenNext
  BY <1>1, RunsAssumption DEF UpdaterStep, OpenNext
<1>2. Restart => OpenNext
  BY DEF Restart, OpenNext
<1>. QED
  BY <1>1, <1>2 DEF Next, OpenNext

(* The inductive invariant holds in every reachable state, whatever the    *)
(* environment.                                                            *)
THEOREM OpenInvariance == OpenSpec => []IInv
<1>. QED
  BY InitStep, OpenStep, PTL DEF OpenSpec

THEOREM Invariance == Spec => []IInv
<1>. QED
  BY OpenInvariance, NextIsOpen, PTL DEF Spec, OpenSpec

(* A run is recorded as successful only if its updater logged "update      *)
(* complete", however stale what reconcile_update_run() had read; or if    *)
(* somebody was shown its unit before the start job had run.               *)
THEOREM Truth == Spec => []SuccessIsTrue
<1>1. IInv => SuccessIsTrue
  BY DEF IInv
<1>. QED
  BY <1>1, Invariance, PTL

(* One updater at most is past update.lock, whatever the rows say.         *)
THEOREM Exclusive == Spec => []OneInstaller
<1>1. IInv => OneInstaller
  BY DEF IInv
<1>. QED
  BY <1>1, Invariance, PTL

================================================================================

