-------------------------- MODULE HostControl_proofs --------------------------
(***************************************************************************)
(* Proofs about HostControl, for any set of requests, pollers, updates and *)
(* failures.                                                               *)
(*                                                                         *)
(* Every step of the composed system is a step of the host-mutation        *)
(* section or leaves it alone (HostStep), so what HostMutation_proofs      *)
(* proves of the section holds here.  With it, and with NestInv, an        *)
(* updater is launched in a section that has the host to itself.           *)
(***************************************************************************)
EXTENDS HostControl, TLAPS

(* The theorems about the section, for the constants it has here.          *)
Proved == INSTANCE HostMutation_proofs
          WITH UiOps <- {}, DeferredOps <- {}, BackupOps <- {}, CallerOps <- {},
               AutoSizeOps <- {}, LateProgress <- FALSE

(* A request, refused or not, takes the steps of the section: the answer   *)
(* of _active_update_run_blocker decides between SeeUpdate and SeeNoUpdate, *)
(* a launch finishes like any other body.                                  *)
LEMMA HostStep == [Next]_vars => [Host!Next]_(Host!vars)
<1>. SUFFICES ASSUME [Next]_vars, ~UNCHANGED hostState PROVE Host!Next
  BY DEF hostState, Host!vars, Host!opVars, Host!hostVars
<1>1. ASSUME NEW o \in Ops, HostOnly(o) PROVE Host!Next
  BY <1>1 DEF HostOnly, Host!Next, Host!Step
<1>2. ASSUME NEW o \in Ops, BlockerNone(o) \/ BlockerDecides(o) PROVE Host!Next
  BY <1>2 DEF BlockerNone, BlockerDecides, hostState, Host!Next, Host!Step
<1>3. ASSUME NEW o \in Ops, UpdateEnters(o) PROVE Host!Next
  BY <1>3 DEF UpdateEnters, Host!Next, Host!Step
<1>4. ASSUME NEW o \in Ops, UpdateRaises(o) \/ UpdateReturns(o) PROVE Host!Next
  <2>1. {"failed", "success"} \subseteq Host!Terminal \ {"partial"}
    BY DEF Host!Terminal
  <2>. QED
    BY <1>4, <2>1 DEF UpdateRaises, UpdateReturns, Host!Next, Host!Step
<1>5. ASSUME NEW o \in Ops, UpdateRecordsFailure(o) PROVE Host!Next
  BY <1>5 DEF UpdateRecordsFailure, hostState, Host!Next, Host!Step
<1>6. ASSUME NEW o \in Ops, CrashProcess(o) PROVE Host!Next
  BY <1>6 DEF CrashProcess, Host!Next
<1>7. ASSUME NEW o \in Ops, BlockerLoads(o) \/ BlockerLooks(o) \/ UpdateProceeds(o)
      PROVE FALSE
  BY <1>7 DEF BlockerLoads, BlockerLooks, UpdateProceeds
<1>8. ASSUME NEW p \in Pollers, Poll(p) PROVE FALSE
  BY <1>8 DEF Poll
<1>9. ASSUME NEW r \in Update!Runs, UpdaterRestarts(r) PROVE Host!Next
  BY <1>9 DEF UpdaterRestarts, Host!Next
<1>10. ASSUME NEW r \in Update!Runs, Updater(r) PROVE FALSE
  BY <1>10 DEF Updater
<1>11. CASE CrashServer
  BY <1>11 DEF CrashServer, Host!Next
<1>12. CASE Host!StartServer \/ Host!CleanupStep
  BY <1>12 DEF Host!Next
<1>. QED
  BY <1>1, <1>2, <1>3, <1>4, <1>5, <1>6, <1>7, <1>8, <1>9, <1>10, <1>11, <1>12
     DEF Next, vars

(* The composed system is a HostMutation system: whatever updates, pollers *)
(* and restarts do around it, every mutation goes through its section.     *)
THEOREM HostRefinement == Spec => HostMutationSpec
<1>1. Init => Host!Init
  BY DEF Init
<1>. QED
  BY <1>1, HostStep, PTL DEF Spec, HostMutationSpec, Host!Spec

-----------------------------------------------------------------------------
(* Proved is Host, with the theorems about it.                             *)
LEMMA SameStep == [Host!Next]_(Host!vars) <=> [Proved!Next]_(Proved!vars)
  BY DEF
     Host!Next, Host!Step, Host!CleanupStep, Host!GateBlocked, Host!Probe,
     Host!ProbeRelease, Host!Request, Host!Announce, Host!SeeUpdate, Host!SeeNoUpdate,
     Host!Acquire, Host!AtLock, Host!Busy, Host!Abort, Host!Report, Host!EnterNested,
     Host!MarkRunning, Host!CommitWork, Host!ScheduleProgress, Host!ProgressLands,
     Host!Finish, Host!Leave, Host!CrashProcess, Host!Kill, Host!CrashServer,
     Host!StartServer, Host!CleanupLock, Host!CleanupBusy, Host!CleanupRetry, Host!Defer,
     Host!SweepRead, Host!SweepError, Host!SweepFrame, Host!SweepCommit, Host!SweepOutcome,
     Host!SweepWork, Host!CleanupRelease, Host!Recorded, Host!LoopFree, Host!Running,
     Host!Current, Host!Goto, Host!Write, Host!Refusal, Host!Active, Host!Terminal,
     Host!Inside, Host!Waiting, Host!Live, Host!Sweeping, Host!opVars, Host!hostVars,
     Host!vars, Host!CallerCommits, Host!LeftToCaller, Host!AfterSection, Host!Judged,
     Proved!Next, Proved!Step, Proved!CleanupStep, Proved!GateBlocked, Proved!Probe,
     Proved!ProbeRelease, Proved!Request, Proved!Announce, Proved!SeeUpdate,
     Proved!SeeNoUpdate, Proved!Acquire, Proved!AtLock, Proved!Busy, Proved!Abort,
     Proved!Report, Proved!EnterNested, Proved!MarkRunning, Proved!CommitWork,
     Proved!ScheduleProgress, Proved!ProgressLands, Proved!Finish, Proved!Leave,
     Proved!CrashProcess, Proved!Kill, Proved!CrashServer, Proved!StartServer,
     Proved!CleanupLock, Proved!CleanupBusy, Proved!CleanupRetry, Proved!Defer,
     Proved!SweepRead, Proved!SweepError, Proved!SweepFrame, Proved!SweepCommit,
     Proved!SweepOutcome, Proved!SweepWork, Proved!CleanupRelease, Proved!Recorded,
     Proved!LoopFree, Proved!Running, Proved!Current, Proved!Goto, Proved!Write,
     Proved!Refusal, Proved!Active, Proved!Terminal, Proved!Inside, Proved!Waiting,
     Proved!Live, Proved!Sweeping, Proved!opVars, Proved!hostVars, Proved!vars,
     Proved!CallerCommits, Proved!LeftToCaller, Proved!AfterSection, Proved!Judged

(* One open section at most is not nested, and it has the lock.            *)
THEOREM HostIsExclusive == Spec => [](Host!TypeOK /\ Host!HostExclusion)
<1>1. Host!Init => Proved!Init
  BY DEF Host!Init, Proved!Init
<1>2. Proved!OpsAssumption /\ Proved!BoundsAssumption
  <2>1. Proved!OpsAssumption
    BY ControlAssumption DEF Proved!OpsAssumption, Proved!IsFiniteSet, IsFiniteSet
  <2>2. Proved!BoundsAssumption
    BY ControlAssumption DEF Proved!BoundsAssumption
  <2>. QED
    BY <2>1, <2>2
<1>3. Proved!Spec => []Proved!IInv
  BY <1>2, Proved!Invariance
<1>4. Proved!Spec => []Proved!HostExclusion
  BY <1>2, Proved!Exclusion
<1>5. Proved!IInv => Host!TypeOK
  BY DEF Proved!IInv, Proved!TypeOK, Host!TypeOK, Host!Active, Proved!Active, Host!Terminal,
         Proved!Terminal, Host!Inside, Proved!Inside, Host!Waiting, Proved!Waiting,
         Host!Live, Proved!Live, Host!Sweeping, Proved!Sweeping
<1>6. Proved!HostExclusion => Host!HostExclusion
  BY DEF Proved!HostExclusion, Host!HostExclusion, Proved!Inside, Host!Inside,
         Proved!Sweeping, Host!Sweeping
<1>. QED
  BY <1>1, <1>3, <1>4, <1>5, <1>6, SameStep, HostRefinement, PTL
     DEF HostMutationSpec, Host!Spec, Proved!Spec

-----------------------------------------------------------------------------
(* A nested section has the task of its caller, which is no update.        *)
LEMMA NestStep ==
  ASSUME Host!TypeOK, Nested, [Host!Next]_(Host!vars)
  PROVE  Nested'
<1>1. ASSUME NEW o \in Ops, NEW c \in Ops, Host!EnterNested(c, o) PROVE Nested'
  <2>1. /\ c \notin UpdateOps /\ o \notin UpdateOps
        /\ task'[c] = task[o] /\ \A p \in Ops : p # c => task'[p] = task[p]
    BY <1>1 DEF Host!EnterNested, Host!TypeOK
  <2>. QED
    BY <2>1, ControlAssumption DEF Nested
<1>2. ASSUME task' = task PROVE Nested'
  BY <1>2 DEF Nested
<1>3. (\E o, c \in Ops : Host!EnterNested(c, o)) \/ task' = task
  BY DEF Host!Next, Host!Step, Host!CleanupStep, Host!GateBlocked, Host!Probe,
         Host!ProbeRelease, Host!Request, Host!Announce, Host!SeeUpdate, Host!SeeNoUpdate,
         Host!Acquire, Host!Busy, Host!Abort, Host!Report, Host!MarkRunning,
         Host!CommitWork, Host!ScheduleProgress, Host!ProgressLands, Host!Finish,
         Host!Leave, Host!CrashProcess, Host!CrashServer, Host!StartServer,
         Host!CleanupLock, Host!CleanupBusy, Host!CleanupRetry, Host!SweepRead,
         Host!SweepFrame, Host!SweepCommit, Host!SweepWork, Host!CleanupRelease,
         Host!CallerCommits, Host!opVars, Host!vars
<1>. QED
  BY <1>1, <1>2, <1>3

(* While it launches, run_update stays in its section: it leaves with the  *)
(* launch over, broken or forgotten.                                       *)
LEMMA LaunchKept ==
  ASSUME Host!TypeOK, LaunchInv, Update!TypeOK, [Next]_vars
  PROVE  \A p \in UpdateOps : Update!InSection(p)' => pc'[p] = "section"
<1>. USE ControlAssumption DEF Update!InSection
<1>. SUFFICES ASSUME NEW p \in UpdateOps, Update!InSection(p)' PROVE pc'[p] = "section"
  OBVIOUS
<1>1. /\ Update!InSection(p) => pc[p] = "section"
      /\ launch \in [UpdateOps -> Update!Launch]
      /\ pc \in [Ops -> Host!Live \cup {"idle", "done", "dead"}]
  BY DEF LaunchInv, Host!TypeOK, Update!TypeOK
<1>2. ASSUME launch'[p] = launch[p], pc'[p] = pc[p] PROVE pc'[p] = "section"
  BY <1>1, <1>2
<1>3. ASSUME NEW o \in Ops, HostOnly(o) PROVE pc'[p] = "section"
  <2>1. launch' = launch /\ pc[p] = "section"
    BY <1>1, <1>3 DEF HostOnly, runState
  <2>2. ASSUME NEW c \in Ops, Host!EnterNested(c, o) PROVE pc'[p] = pc[p]
    BY <1>1, <2>1, <2>2 DEF Host!EnterNested, Host!Goto
  <2>3. ASSUME NEW outcome, Host!Finish(o, outcome), o \notin UpdateOps PROVE pc'[p] = pc[p]
    BY <1>1, <2>1, <2>3 DEF Host!Finish, Host!Goto
  <2>4. ASSUME \/ Host!Request(o) \/ Host!Acquire(o) \/ Host!Busy(o) \/ Host!Abort(o)
               \/ Host!Report(o) \/ Host!MarkRunning(o) \/ Host!Leave(o)
        PROVE  pc'[p] = pc[p]
    BY <1>1, <2>1, <2>4 DEF Host!Request, Host!Acquire, Host!AtLock, Host!Busy, Host!Abort,
       Host!Report, Host!MarkRunning, Host!Leave, Host!Goto
  <2>. QED
    BY <1>3, <2>1, <2>2, <2>3, <2>4 DEF HostOnly
<1>4. ASSUME NEW o \in Ops,
             BlockerNone(o) \/ BlockerLoads(o) \/ BlockerLooks(o) \/ BlockerDecides(o)
      PROVE  pc'[p] = "section"
  <2>1. launch' = launch
    BY <1>4 DEF BlockerNone, BlockerLoads, BlockerLooks, BlockerDecides, runState,
       Update!LookBegin, Update!LookShow, Update!LookShowFails, Update!LookWrite
  <2>2. pc' = pc \/ Host!SeeUpdate(o) \/ Host!SeeNoUpdate(o)
    BY <1>4 DEF BlockerNone, BlockerLoads, BlockerLooks, BlockerDecides, hostState
  <2>3. pc'[p] = pc[p]
    BY <1>1, <2>2 DEF Host!SeeUpdate, Host!SeeNoUpdate, Host!Goto
  <2>. QED
    BY <1>2, <2>1, <2>3
<1>5. ASSUME NEW o \in Ops, UpdateEnters(o) PROVE pc'[p] = "section"
  <2>1. CASE o = p
    BY <1>1, <1>5, <2>1 DEF UpdateEnters, Host!MarkRunning, Host!Goto
  <2>2. CASE o # p
    <3>1. pc'[p] = pc[p]
      BY <1>1, <1>5, <2>2 DEF UpdateEnters, Host!MarkRunning, Host!Goto
    <3>2. launch'[p] = launch[p]
      BY <1>1, <1>5, <2>2 DEF UpdateEnters, Update!LaunchBegin, Update!Move
    <3>. QED
      BY <1>2, <3>1, <3>2
  <2>. QED
    BY <2>1, <2>2
<1>6. ASSUME NEW o \in Ops, UpdateProceeds(o) PROVE pc'[p] = "section"
  <2>1. pc' = pc /\ pc[o] = "section" /\ o \in UpdateOps
    BY <1>6 DEF UpdateProceeds, InLaunch, hostState
  <2>2. o # p => launch'[p] = launch[p]
    BY <1>1, <1>6 DEF UpdateProceeds, Update!LookShow, Update!LookShowFails,
       Update!LaunchReconciled, Update!QueueRow, Update!LaunchUnit, Update!Move
  <2>. QED
    BY <1>2, <2>1, <2>2
<1>7. ASSUME NEW o \in Ops, UpdateRaises(o) PROVE pc'[p] = "section"
  <2>1. o \in UpdateOps /\ \E w \in {"idle", "broken"} : \E r : Update!Move(o, w, r)
    BY <1>7 DEF UpdateRaises, InLaunch, Update!LaunchRejected, Update!LaunchBreaks
  <2>2. o # p /\ launch'[p] = launch[p]
    BY <1>1, <2>1 DEF Update!Move
  <2>3. pc'[p] = pc[p]
    BY <1>1, <1>7, <2>2 DEF UpdateRaises, Host!Finish, Host!Goto
  <2>. QED
    BY <1>2, <2>2, <2>3
<1>8. ASSUME NEW o \in Ops, UpdateReturns(o) PROVE pc'[p] = "section"
  <2>1. launch' = launch /\ o # p
    BY <1>8 DEF UpdateReturns, runState
  <2>2. pc'[p] = pc[p]
    BY <1>1, <1>8, <2>1 DEF UpdateReturns, Host!Finish, Host!Goto
  <2>. QED
    BY <1>2, <2>1, <2>2
<1>9. ASSUME NEW o \in Ops, UpdateRecordsFailure(o) PROVE pc'[p] = "section"
  <2>1. CASE Update!RecordBroken(o) /\ pc' = pc
    BY <1>1, <1>2, <1>9, <2>1 DEF UpdateRecordsFailure, Update!RecordBroken, Update!Move
  <2>2. CASE Update!RecordBlocked(o) /\ pc[o] = "refused" /\ Host!Report(o)
    BY <1>1, <1>2, <2>2 DEF Update!RecordBlocked, Host!Report, Host!Goto
  <2>. QED
    BY <1>9, <2>1, <2>2 DEF UpdateRecordsFailure, hostState
<1>10. ASSUME NEW t \in Ops, CrashProcess(t) PROVE pc'[p] = "section"
  <2>1. launch'[p] = launch[p]
    BY <1>1, <1>10 DEF CrashProcess, Update!Forget
  <2>2. pc'[p] = pc[p]
    BY <1>1, <1>10 DEF CrashProcess, Host!CrashProcess, Host!Kill
  <2>. QED
    BY <1>2, <2>1, <2>2
<1>11. ASSUME Update!Forget(InServer) PROVE FALSE
  BY <1>11 DEF Update!Forget, InServer, Update!NotLaunching
<1>12. ASSUME pc' = pc, launch' = launch PROVE pc'[p] = "section"
  BY <1>2, <1>12
<1>13. ASSUME NEW q \in Pollers, Poll(q) PROVE pc'[p] = "section"
  BY <1>12, <1>13 DEF Poll, hostState, Update!LookStep, Update!LookBegin, Update!LookShow,
     Update!LookShowFails, Update!LookWrite
<1>14. ASSUME NEW r \in Update!Runs, UpdaterRestarts(r) \/ Updater(r) PROVE pc'[p] = "section"
  BY <1>11, <1>12, <1>14 DEF UpdaterRestarts, Updater, hostState, Update!RestartService,
     Update!UnitStarts, Update!TakeUpdateLock, Update!UpdaterCompletes,
     Update!UpdaterFails, Update!UpdaterKilled, Update!UnitExits, Update!UnitCollected
<1>15. ~CrashServer
  BY <1>11 DEF CrashServer
<1>16. ASSUME UNCHANGED runState, Host!StartServer \/ Host!CleanupStep
       PROVE  pc'[p] = "section"
  BY <1>12, <1>16 DEF runState, Host!StartServer, Host!CleanupStep, Host!CleanupLock,
     Host!CleanupBusy, Host!CleanupRetry, Host!SweepRead, Host!SweepCommit,
     Host!SweepWork, Host!SweepFrame, Host!CleanupRelease, Host!opVars
<1>17. CASE UNCHANGED vars
  BY <1>12, <1>17 DEF vars, hostState, runState
<1>. QED
  BY <1>3, <1>4, <1>5, <1>6, <1>7, <1>8, <1>9, <1>10, <1>13, <1>14, <1>15, <1>16, <1>17
     DEF Next

(* The section that run_update launches from has the host lock, so there   *)
(* is one launch at a time: what UpdateRuns assumes of its environment.    *)
LEMMA OpenStep ==
  ASSUME Host!HostExclusion, IInv, [Next]_vars
  PROVE  [Update!OpenNext]_(Update!vars)
<1>. SUFFICES ASSUME Next, ~UNCHANGED runState PROVE Update!OpenNext
  BY DEF vars, runState, Update!vars, Update!rowVars, Update!sysVars
<1>. USE ControlAssumption
<1>1. ASSUME NEW o \in Ops,
             \/ BlockerLoads(o) \/ BlockerLooks(o) \/ BlockerDecides(o)
      PROVE  Update!LookStep(o)
  BY <1>1 DEF BlockerLoads, BlockerLooks, BlockerDecides, Update!LookStep
<1>2. ASSUME NEW o \in Ops, UpdateEnters(o) PROVE Update!OpenNext
  <2>1. o \in UpdateOps /\ Update!LaunchBegin(o) /\ pc[o] = "entered"
        /\ launch[o].at = "idle"
    BY <1>2 DEF UpdateEnters, Host!MarkRunning, Update!LaunchBegin
  <2>2. ASSUME NEW l \in UpdateOps, Update!InSection(l) PROVE FALSE
    <3>1. pc[l] = "section" /\ task[l] = l /\ task[o] = o
      BY <2>1, <2>2 DEF IInv, LaunchInv, Nested
    <3>2. task[l] = task[o]
      BY <2>1, <3>1 DEF Host!HostExclusion, Host!Inside
    <3>. QED
      BY <2>1, <2>2, <3>1, <3>2 DEF Update!InSection
  <2>3. Update!SectionFree
    BY <2>2 DEF Update!SectionFree, Update!InSection, IInv, Update!IInv, Update!TypeOK,
       Update!Launch
  <2>. QED
    BY <2>1, <2>3 DEF Update!OpenNext, Update!LaunchStep
<1>3. ASSUME NEW o \in Ops, UpdateProceeds(o) \/ UpdateRaises(o) PROVE Update!OpenNext
  <2>1. o \in UpdateOps
    BY <1>3 DEF UpdateProceeds, UpdateRaises, InLaunch
  <2>2. Update!LookStep(o) \/ Update!LaunchStep(o)
    BY <1>3 DEF UpdateProceeds, UpdateRaises, Update!LookStep, Update!LaunchStep
  <2>. QED
    BY <2>1, <2>2 DEF Update!OpenNext
<1>4. ASSUME NEW o \in Ops, UpdateRecordsFailure(o) PROVE Update!OpenNext
  BY <1>4 DEF UpdateRecordsFailure, Update!OpenNext, Update!LaunchStep
<1>5. ASSUME NEW gone \in SUBSET (Ops \cup Pollers), Update!Forget(gone), RunsUnchangedBut
      PROVE  Update!OpenNext
  BY <1>5 DEF RunsUnchangedBut, Update!OpenNext, Update!rowVars, Update!sysVars
<1>6. ASSUME NEW o \in Ops, CrashProcess(o) PROVE Update!OpenNext
  BY <1>5, <1>6 DEF CrashProcess
<1>7. CrashServer => Update!OpenNext
  BY <1>5 DEF CrashServer, InServer
<1>8. ASSUME NEW p \in Pollers, Poll(p) PROVE Update!LookStep(p)
  BY <1>8 DEF Poll
<1>9. ASSUME NEW r \in Update!Runs, UpdaterRestarts(r) PROVE Update!OpenNext
  <2>1. InServer \in SUBSET (Ops \cup Pollers) /\ UpdateOps \subseteq InServer
    BY DEF InServer
  <2>. QED
    BY <1>9, <2>1 DEF UpdaterRestarts, Update!OpenNext
<1>10. ASSUME NEW r \in Update!Runs, Updater(r) PROVE Update!OpenNext
  BY <1>10 DEF Updater, Update!OpenNext
<1>11. ASSUME NEW o \in Ops, HostOnly(o) \/ BlockerNone(o) \/ UpdateReturns(o)
       PROVE  FALSE
  BY <1>11 DEF HostOnly, BlockerNone, UpdateReturns
<1>12. \A p \in Ops \cup Pollers : Update!LookStep(p) => Update!OpenNext
  BY DEF Update!OpenNext
<1>. QED
  BY <1>1, <1>2, <1>3, <1>4, <1>6, <1>7, <1>8, <1>9, <1>10, <1>11, <1>12 DEF Next

(* Recorded is Update, with the theorems about it.                         *)
Recorded == INSTANCE UpdateRuns_proofs
              WITH Observers <- Ops \cup Pollers, Launchers <- UpdateOps

LEMMA RunsAssumed == Recorded!RunsAssumption
  BY ControlAssumption DEF Recorded!RunsAssumption

LEMMA SameRuns ==
    /\ [Update!OpenNext]_(Update!vars) <=> [Recorded!OpenNext]_(Recorded!vars)
    /\ Update!Init <=> Recorded!Init
    /\ Update!IInv <=> Recorded!IInv
    /\ Update!IInv' <=> Recorded!IInv'
<1>1. [Update!OpenNext]_(Update!vars) <=> [Recorded!OpenNext]_(Recorded!vars)
  BY DEF Update!OpenNext, Update!UnitStarts, Update!TakeUpdateLock, Update!UpdaterCompletes,
         Update!UpdaterFails, Update!UpdaterKilled, Update!UnitExits, Update!UnitCollected,
         Update!RestartService, Update!Forget, Update!LookStep, Update!LookBegin,
         Update!Load, Update!LookShow, Update!NextStatus, Update!LookShowFails,
         Update!LookWrite, Update!RowWritten, Update!LaunchStep, Update!SectionFree,
         Update!LaunchBegin, Update!LatestPending, Update!Move, Update!LaunchReconciled,
         Update!LaunchRejected, Update!QueueRow, Update!NewRow, Update!LaunchUnit,
         Update!Enqueue, Update!LaunchBreaks, Update!RecordBroken, Update!RecordBlocked,
         Update!Runs, Update!Pending, Update!Settled, Update!Installing, Update!NotLooking,
         Update!NotLaunching, Update!rowVars, Update!sysVars, Update!vars,
         Recorded!OpenNext, Recorded!UnitStarts, Recorded!TakeUpdateLock,
         Recorded!UpdaterCompletes, Recorded!UpdaterFails, Recorded!UpdaterKilled,
         Recorded!UnitExits, Recorded!UnitCollected, Recorded!RestartService,
         Recorded!Forget, Recorded!LookStep, Recorded!LookBegin, Recorded!Load,
         Recorded!LookShow, Recorded!NextStatus, Recorded!LookShowFails, Recorded!LookWrite,
         Recorded!RowWritten, Recorded!LaunchStep, Recorded!SectionFree,
         Recorded!LaunchBegin, Recorded!LatestPending, Recorded!Move,
         Recorded!LaunchReconciled, Recorded!LaunchRejected, Recorded!QueueRow,
         Recorded!NewRow, Recorded!LaunchUnit, Recorded!Enqueue, Recorded!LaunchBreaks,
         Recorded!RecordBroken, Recorded!RecordBlocked, Recorded!Runs, Recorded!Pending,
         Recorded!Settled, Recorded!Installing, Recorded!NotLooking, Recorded!NotLaunching,
         Recorded!rowVars, Recorded!sysVars, Recorded!vars
<1>2. Update!Init <=> Recorded!Init
  BY DEF Update!Init, Recorded!Init, Update!Runs, Recorded!Runs, Update!NotLooking,
         Recorded!NotLooking, Update!NotLaunching, Recorded!NotLaunching
<1>3. (Update!IInv <=> Recorded!IInv) /\ (Update!IInv' <=> Recorded!IInv')
  BY DEF Update!IInv, Update!TypeOK, Update!SuccessIsTrue,
         Update!OneInstaller, Update!UnitInv, Update!Alive, Update!LookInv,
         Update!LaunchInv, Update!InSection, Update!Look, Update!Launch, Update!Runs,
         Update!Pending, Update!Settled, Update!Installing,
         Recorded!IInv, Recorded!TypeOK, Recorded!SuccessIsTrue,
         Recorded!OneInstaller, Recorded!UnitInv, Recorded!Alive, Recorded!LookInv,
         Recorded!LaunchInv, Recorded!InSection, Recorded!Look, Recorded!Launch,
         Recorded!Runs, Recorded!Pending, Recorded!Settled, Recorded!Installing
<1>. QED
  BY <1>1, <1>2, <1>3

(* run_update never nests, nothing nests in it, and it launches in its     *)
(* section; the rows are as UpdateRuns has them.                           *)
THEOREM Invariance == Spec => []IInv
<1>1. Init => IInv
  <2>. SUFFICES ASSUME Init PROVE IInv
    OBVIOUS
  <2>1. LaunchInv
    BY ControlAssumption DEF Init, Host!Init, Update!Init, LaunchInv, Nested,
       Update!InSection, Update!NotLaunching
  <2>2. Update!IInv
    BY SameRuns, RunsAssumed, Recorded!InitStep DEF Init
  <2>. QED
    BY <2>1, <2>2 DEF IInv
<1>2. Host!TypeOK /\ Host!HostExclusion /\ IInv /\ [Next]_vars => IInv'
  <2>. SUFFICES ASSUME Host!TypeOK, Host!HostExclusion, IInv, [Next]_vars PROVE IInv'
    OBVIOUS
  <2>1. Update!IInv'
    BY OpenStep, SameRuns, RunsAssumed, Recorded!OpenStep DEF IInv
  <2>2. Nested'
    BY HostStep, NestStep DEF IInv, LaunchInv
  <2>3. \A o \in UpdateOps : Update!InSection(o)' => pc'[o] = "section"
    BY LaunchKept DEF IInv, Update!IInv
  <2>. QED
    BY <2>1, <2>2, <2>3 DEF IInv, LaunchInv
<1>. QED
  BY <1>1, <1>2, HostIsExclusive, PTL DEF Spec

(* The composed system is an UpdateRuns system whose launches exclude each *)
(* other and die with the server.                                          *)
THEOREM UpdateRefinement == Spec => UpdateRunsSpec
<1>1. Init => Update!Init
  BY DEF Init
<1>. QED
  BY <1>1, Invariance, HostIsExclusive, OpenStep, PTL DEF Spec, UpdateRunsSpec, Update!OpenSpec

(* So a run recorded as a success is one, and one updater installs, with   *)
(* every mutation asking for updates and every restart an update causes.   *)
THEOREM Truth == Spec => []Update!SuccessIsTrue
<1>1. IInv => Update!SuccessIsTrue
  BY DEF IInv, Update!IInv
<1>. QED
  BY <1>1, Invariance, PTL

THEOREM Exclusive == Spec => []Update!OneInstaller
<1>1. IInv => Update!OneInstaller
  BY DEF IInv, Update!IInv
<1>. QED
  BY <1>1, Invariance, PTL

-----------------------------------------------------------------------------
(* Only systemd-run enqueues a unit, and only run_update calls it, in its  *)
(* section.                                                                *)
LEMMA OnlyLaunchEnqueues ==
  ASSUME IInv, [Next]_vars, NEW r \in Update!Runs, unit[r] = "absent", unit'[r] = "enqueued"
  PROVE  \E o \in UpdateOps : pc[o] = "section"
<1>1. unit \in [Update!Runs -> {"absent", "enqueued", "active", "exited", "failed"}]
  BY DEF IInv, Update!IInv, Update!TypeOK
<1>2. unit' # unit
  OBVIOUS
<1>3. ASSUME NEW o \in Ops, UpdateProceeds(o) \/ UpdateRaises(o)
      PROVE  o \in UpdateOps /\ pc[o] = "section"
  BY <1>3 DEF UpdateProceeds, UpdateRaises, InLaunch
<1>4. ASSUME NEW o \in Ops,
             \/ HostOnly(o) \/ BlockerNone(o) \/ BlockerLoads(o) \/ BlockerLooks(o)
             \/ BlockerDecides(o) \/ UpdateEnters(o) \/ UpdateReturns(o)
             \/ UpdateRecordsFailure(o) \/ CrashProcess(o)
      PROVE  unit' = unit
  BY <1>4 DEF HostOnly, BlockerNone, BlockerLoads, BlockerLooks, BlockerDecides,
     UpdateEnters, UpdateReturns, UpdateRecordsFailure, CrashProcess, RunsUnchangedBut,
     runState, Update!LookBegin, Update!LookShow, Update!LookShowFails, Update!LookWrite,
     Update!LaunchBegin, Update!RecordBroken, Update!RecordBlocked, Update!sysVars
<1>5. ASSUME NEW p \in Pollers, Poll(p) PROVE unit' = unit
  BY <1>5 DEF Poll, Update!LookStep, Update!LookBegin, Update!LookShow,
     Update!LookShowFails, Update!LookWrite, Update!sysVars
<1>6. ASSUME NEW s \in Update!Runs, UpdaterRestarts(s) PROVE unit' = unit
  BY <1>6 DEF UpdaterRestarts, Update!RestartService
<1>7. ASSUME NEW s \in Update!Runs, Updater(s) PROVE FALSE
  <2>1. \/ unit' = unit
        \/ \E u \in {"active", "absent", "failed"} : unit' = [unit EXCEPT ![s] = u]
        \/ updater[s] = "completed" /\ unit' = [unit EXCEPT ![s] = "exited"]
    BY <1>7 DEF Updater, Update!UnitStarts, Update!TakeUpdateLock,
       Update!UpdaterCompletes, Update!UpdaterFails, Update!UpdaterKilled,
       Update!UnitExits, Update!UnitCollected
  <2>. QED
    BY <1>1, <2>1
<1>8. CrashServer \/ UNCHANGED runState \/ UNCHANGED vars => unit' = unit
  BY DEF CrashServer, RunsUnchangedBut, runState, vars
<1>. QED
  BY <1>2, <1>3, <1>4, <1>5, <1>6, <1>7, <1>8 DEF Next

(* The section of the launch has the lock, every open section belongs to   *)
(* the task that has it, and that task is an update's.                     *)
THEOREM LaunchIsAlone == Spec => LaunchFindsHostIdle
<1>1. Host!HostExclusion /\ IInv /\ [Next]_vars =>
        \A r \in Update!Runs :
          unit[r] = "absent" /\ unit'[r] = "enqueued"
            => \A o \in Ops \ UpdateOps : pc[o] \notin Host!Inside
  <2>. SUFFICES ASSUME Host!HostExclusion, IInv, [Next]_vars, NEW r \in Update!Runs,
                       unit[r] = "absent", unit'[r] = "enqueued",
                       NEW p \in Ops \ UpdateOps, pc[p] \in Host!Inside
                PROVE  FALSE
    OBVIOUS
  <2>1. PICK o \in UpdateOps : pc[o] = "section"
    BY OnlyLaunchEnqueues
  <2>2. task[p] = task[o]
    BY <2>1, ControlAssumption DEF Host!HostExclusion, Host!Inside
  <2>. QED
    BY <2>2, ControlAssumption DEF IInv, LaunchInv, Nested
<1>. QED
  BY <1>1, Invariance, HostIsExclusive, PTL DEF Spec, LaunchFindsHostIdle
===============================================================================
