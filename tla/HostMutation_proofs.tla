------------------------ MODULE HostMutation_proofs ------------------------
(***************************************************************************)
(* Proofs about HostMutation, for any set of requests, any classification  *)
(* of them, with and without database errors, and for any bound on         *)
(* restarts and retries.                                                   *)
(*                                                                         *)
(* IInv is inductive.  Its four parts are taken one at a time: TypeStep    *)
(* (a depth never goes below zero), LockStep (the flock and the levels),   *)
(* RecordStep (rows follow their handlers).  HostExclusion follows from    *)
(* LockInv; OutcomeStep needs RecordInv for what the cleanup has read;      *)
(* SectionStep needs the levels to see that the lock goes last.            *)
(* Every lemma about a step has one case per action of Next.               *)
(***************************************************************************)
EXTENDS HostMutation, TLAPS

(* The initial state: no lock, no row, the cleanup about to try.           *)
LEMMA InitStep == Init => IInv
<1>. SUFFICES ASSUME Init PROVE IInv
  OBVIOUS
<1>. USE OpsAssumption, BoundsAssumption
     DEF Init, Active, Terminal, Inside, Waiting, Live, Sweeping, Outside
<1>1. TypeOK
  BY DEF TypeOK
<1>2. LockInv
  BY DEF LockInv
<1>3. RunningIsHeld /\ RecordInv
  BY DEF RunningIsHeld, RecordInv
<1>. QED
  BY <1>1, <1>2, <1>3 DEF IInv

-----------------------------------------------------------------------------
(* Types are kept.  Leave subtracts one from a level: LockInv says that an *)
(* open section has a level of at least one.                               *)
LEMMA TypeStep == TypeOK /\ LockInv /\ [Next]_vars => TypeOK'
<1>. SUFFICES ASSUME TypeOK, LockInv, [Next]_vars PROVE TypeOK'
  OBVIOUS
<1>. USE OpsAssumption, BoundsAssumption DEF TypeOK, Active, Terminal, Inside, Waiting,
      Live, Sweeping, Goto, opVars, hostVars
<1>1. ASSUME NEW o \in Ops, GateBlocked(o) PROVE TypeOK'
  BY <1>1 DEF GateBlocked, Running
<1>2. ASSUME NEW o \in Ops, Probe(o) PROVE TypeOK'
  BY <1>2 DEF Probe, Running
<1>3. ASSUME NEW o \in Ops, ProbeRelease(o) PROVE TypeOK'
  BY <1>3 DEF ProbeRelease
<1>4. ASSUME NEW o \in Ops, Request(o) PROVE TypeOK'
  BY <1>4 DEF Request
<1>5. ASSUME NEW o \in Ops, Announce(o) PROVE TypeOK'
  BY <1>5 DEF Announce, Write
<1>6. ASSUME NEW o \in Ops, SeeUpdate(o) PROVE TypeOK'
  BY <1>6 DEF SeeUpdate, Refusal
<1>7. ASSUME NEW o \in Ops, SeeNoUpdate(o) PROVE TypeOK'
  BY <1>7 DEF SeeNoUpdate
<1>8. ASSUME NEW o \in Ops, Acquire(o) PROVE TypeOK'
  BY <1>8 DEF Acquire, AtLock
<1>9. ASSUME NEW o \in Ops, Busy(o) PROVE TypeOK'
  BY <1>9 DEF Busy, AtLock
<1>10. ASSUME NEW o \in Ops, Abort(o) PROVE TypeOK'
  BY <1>10 DEF Abort
<1>11. ASSUME NEW o \in Ops, Report(o) PROVE TypeOK'
  BY <1>11 DEF Report, Write
<1>12. ASSUME NEW o \in Ops, MarkRunning(o) PROVE TypeOK'
  BY <1>12 DEF MarkRunning, Write
<1>13. ASSUME NEW o \in Ops, CommitWork(o) PROVE TypeOK'
  BY <1>13 DEF CommitWork
<1>14. ASSUME NEW o \in Ops, ScheduleProgress(o) PROVE TypeOK'
  BY <1>14 DEF ScheduleProgress
<1>15. ASSUME NEW o \in Ops, ProgressLands(o) PROVE TypeOK'
  BY <1>15 DEF ProgressLands, Write
<1>16. ASSUME NEW o \in Ops, Leave(o) PROVE TypeOK'
  <2>1. level[o] - 1 \in Nat /\ task[o] \in Ops
    BY <1>16 DEF Leave, LockInv
  <2>2. depth' \in [Ops -> Nat]
    BY <1>16, <2>1 DEF Leave
  <2>3. rec' = rec /\ task' = task /\ level' = level /\ late' = late /\ UNCHANGED hostVars
    BY <1>16 DEF Leave
  <2>4. pc' \in [Ops -> Live \cup {"idle", "done", "dead"}] /\ verdict' \in [Ops -> Terminal \cup {"none"}]
    BY <1>16 DEF Leave, AfterSection
  <2>5. work' \in [Ops -> {"none", "running", "success", "error"}]
    BY <1>16 DEF Leave
  <2>6. holder' \in Ops \cup {NoOne, Cleaner}
    BY <1>16 DEF Leave
  <2>. QED
    BY <2>2, <2>3, <2>4, <2>5, <2>6
<1>17. ASSUME NEW o \in Ops, CrashProcess(o) PROVE TypeOK'
  BY <1>17 DEF CrashProcess, Kill, Live
<1>18. ASSUME NEW o \in Ops, NEW c \in Ops, EnterNested(c, o) PROVE TypeOK'
  BY <1>18 DEF EnterNested
<1>19. ASSUME NEW o \in Ops, NEW outcome \in Terminal \ {"partial"}, Finish(o, outcome)
      PROVE TypeOK'
  BY <1>19 DEF Finish, Write, LeftToCaller
<1>20. CASE CrashServer
  BY <1>20 DEF CrashServer, Kill, Live
<1>21. CASE StartServer
  BY <1>21 DEF StartServer
<1>22. CASE CleanupLock
  BY <1>22 DEF CleanupLock
<1>23. CASE CleanupBusy
  BY <1>23 DEF CleanupBusy, Defer
<1>24. CASE CleanupRetry
  BY <1>24 DEF CleanupRetry
<1>25. CASE SweepRead
  BY <1>25 DEF SweepRead, Judged, SweepError, SweepFrame
<1>26. CASE SweepCommit
  BY <1>26 DEF SweepCommit, SweepOutcome, SweepError, SweepFrame
<1>27. CASE SweepWork
  BY <1>27 DEF SweepWork, SweepError, SweepFrame
<1>28. CASE CleanupRelease
  BY <1>28 DEF CleanupRelease, Defer
<1>29. CASE UNCHANGED vars
  BY <1>29 DEF vars, opVars, hostVars
<1>30. ASSUME NEW o \in Ops, CallerCommits(o) PROVE TypeOK'
  BY <1>30 DEF CallerCommits
<1>. QED BY <1>1, <1>2, <1>3, <1>4, <1>5, <1>6, <1>7, <1>8, <1>9, <1>10, <1>11, <1>12,
      <1>13, <1>14, <1>15, <1>16, <1>17, <1>18, <1>19, <1>20, <1>21, <1>22, <1>23, <1>24,
      <1>25, <1>26, <1>27, <1>28, <1>29, <1>30 DEF Next, Step, CleanupStep
-----------------------------------------------------------------------------
(* One holder, and levels that count the open sections of its task.  When  *)
(* the outermost section leaves, the levels (all different, at most the    *)
(* depth) leave no room for another open one.                              *)
LEMMA LockStep == TypeOK /\ LockInv /\ [Next]_vars => LockInv'
<1>. SUFFICES ASSUME TypeOK, LockInv, [Next]_vars PROVE LockInv'
  OBVIOUS
<1>. USE OpsAssumption DEF TypeOK, LockInv, Outside, Inside, Waiting, Live, Sweeping, Goto,
      opVars, hostVars
<1>1. ASSUME NEW o \in Ops, GateBlocked(o) PROVE LockInv'
  BY <1>1 DEF GateBlocked, Running
<1>2. ASSUME NEW o \in Ops, Probe(o) PROVE LockInv'
  BY <1>2 DEF Probe, Running
<1>3. ASSUME NEW o \in Ops, ProbeRelease(o) PROVE LockInv'
  BY <1>3 DEF ProbeRelease
<1>4. ASSUME NEW o \in Ops, Request(o) PROVE LockInv'
  BY <1>4 DEF Request
<1>5. ASSUME NEW o \in Ops, Announce(o) PROVE LockInv'
  BY <1>5 DEF Announce, Write
<1>6. ASSUME NEW o \in Ops, SeeUpdate(o) PROVE LockInv'
  BY <1>6 DEF SeeUpdate, Refusal
<1>7. ASSUME NEW o \in Ops, SeeNoUpdate(o) PROVE LockInv'
  BY <1>7 DEF SeeNoUpdate
<1>8. ASSUME NEW o \in Ops, Acquire(o) PROVE LockInv'
  BY <1>8 DEF Acquire, AtLock
<1>9. ASSUME NEW o \in Ops, Busy(o) PROVE LockInv'
  <2>1. \E p \in {"refused", "busy"} : pc' = [pc EXCEPT ![o] = p]
    BY <1>9 DEF Busy
  <2>2. /\ pc[o] \in {"requested", "checked"}
        /\ UNCHANGED <<rec, task, level, depth, work, late, holder, hostVars>>
    BY <1>9 DEF Busy, AtLock
  <2>. QED
    BY <2>1, <2>2
<1>10. ASSUME NEW o \in Ops, Abort(o) PROVE LockInv'
  BY <1>10 DEF Abort
<1>11. ASSUME NEW o \in Ops, Report(o) PROVE LockInv'
  BY <1>11 DEF Report, Write
<1>12. ASSUME NEW o \in Ops, MarkRunning(o) PROVE LockInv'
  BY <1>12 DEF MarkRunning, Write
<1>13. ASSUME NEW o \in Ops, CommitWork(o) PROVE LockInv'
  BY <1>13 DEF CommitWork
<1>14. ASSUME NEW o \in Ops, ScheduleProgress(o) PROVE LockInv'
  BY <1>14 DEF ScheduleProgress
<1>15. ASSUME NEW o \in Ops, ProgressLands(o) PROVE LockInv'
  BY <1>15 DEF ProgressLands, Write
<1>16. ASSUME NEW o \in Ops, Leave(o) PROVE LockInv'
  <2>1. /\ holder = task[o] /\ task[o] \in Ops /\ level[o] \in Nat
        /\ level[o] >= 1 /\ depth[task[o]] = level[o]
    BY <1>16 DEF Leave, Current
  <2>2. /\ \A p \in Ops \ {o} : pc'[p] = pc[p]
        /\ pc'[o] \in {"committing", "reporting", "done"}
        /\ depth' = [depth EXCEPT ![task[o]] = level[o] - 1]
        /\ UNCHANGED <<task, level, cleaner>>
    BY <1>16 DEF Leave, AfterSection
  <2>3. ASSUME NEW p \in Ops, pc'[p] \in Inside
        PROVE  /\ p # o /\ pc[p] \in Inside /\ task[p] = task[o]
               /\ level[p] >= 1 /\ level[p] <= level[o] - 1
    <3>1. p # o /\ pc[p] \in Inside
      BY <2>2, <2>3
    <3>2. task[p] = task[o] /\ level[p] \in Nat /\ level[p] >= 1 /\ level[p] <= level[o]
      BY <2>1, <3>1
    <3>3. level[p] # level[o]
      BY <1>16, <3>1 DEF Leave
    <3>. QED
      BY <2>1, <3>1, <3>2, <3>3
  <2>4. CASE level[o] = 1
    <3>1. holder' = NoOne
      BY <1>16, <2>4 DEF Leave
    <3>2. \A p \in Ops : pc'[p] \notin Inside
      BY <2>3, <2>4
    <3>3. \A p \in Ops : pc'[p] # "probing"
      BY <1>16, <2>1, <2>2 DEF Leave
    <3>4. cleaner \notin Sweeping
      BY <2>1
    <3>. QED
      BY <2>2, <3>1, <3>2, <3>3, <3>4
  <2>5. CASE level[o] # 1
    <3>1. holder' = holder
      BY <1>16, <2>5 DEF Leave
    <3>2. holder # o /\ pc'[holder] \in Inside
      BY <1>16, <2>1, <2>2, <2>5 DEF Leave
    <3>3. \A p \in Ops : pc'[p] \in Inside => level'[p] <= depth'[task'[p]]
      BY <2>1, <2>2, <2>3
    <3>. QED
      BY <2>1, <2>2, <2>3, <3>1, <3>2, <3>3
  <2>. QED
    BY <2>4, <2>5
<1>17. ASSUME NEW o \in Ops, CrashProcess(o) PROVE LockInv'
  BY <1>17 DEF CrashProcess, Kill, Live
<1>18. ASSUME NEW o \in Ops, NEW c \in Ops, EnterNested(c, o) PROVE LockInv'
  BY <1>18 DEF EnterNested
<1>19. ASSUME NEW o \in Ops, NEW outcome \in Terminal \ {"partial"}, Finish(o, outcome)
      PROVE LockInv'
  BY <1>19 DEF Finish, Write
<1>20. CASE CrashServer
  BY <1>20 DEF CrashServer, Kill, Live
<1>21. CASE StartServer
  BY <1>21 DEF StartServer
<1>22. CASE CleanupLock
  BY <1>22 DEF CleanupLock
<1>23. CASE CleanupBusy
  BY <1>23 DEF CleanupBusy, Defer
<1>24. CASE CleanupRetry
  BY <1>24 DEF CleanupRetry
<1>25. CASE SweepRead
  BY <1>25 DEF SweepRead, SweepError, SweepFrame
<1>26. CASE SweepCommit
  BY <1>26 DEF SweepCommit, SweepOutcome, SweepError, SweepFrame
<1>27. CASE SweepWork
  BY <1>27 DEF SweepWork, SweepError, SweepFrame
<1>28. CASE CleanupRelease
  BY <1>28 DEF CleanupRelease, Defer
<1>29. CASE UNCHANGED vars
  BY <1>29 DEF vars, opVars, hostVars
<1>30. ASSUME NEW o \in Ops, CallerCommits(o) PROVE LockInv'
  BY <1>30 DEF CallerCommits
<1>. QED BY <1>1, <1>2, <1>3, <1>4, <1>5, <1>6, <1>7, <1>8, <1>9, <1>10, <1>11, <1>12,
      <1>13, <1>14, <1>15, <1>16, <1>17, <1>18, <1>19, <1>20, <1>21, <1>22, <1>23, <1>24,
      <1>25, <1>26, <1>27, <1>28, <1>29, <1>30 DEF Next, Step, CleanupStep
-----------------------------------------------------------------------------
(* A row is marked running and completed inside the section; the sweep     *)
(* runs while no section is open, so what it has read stays true.          *)
LEMMA RecordStep == IInv /\ [Next]_vars => (RunningIsHeld /\ RecordInv)'
<1>. SUFFICES ASSUME TypeOK, LockInv, RunningIsHeld, RecordInv, [Next]_vars
              PROVE (RunningIsHeld /\ RecordInv)'
  BY DEF IInv
<1>. USE OpsAssumption DEF TypeOK, LockInv, RunningIsHeld, RecordInv, Recorded, Outside,
      Active, Terminal, Inside, Waiting, Live, Sweeping, Goto, opVars, hostVars
<1>1. ASSUME NEW o \in Ops, GateBlocked(o) PROVE (RunningIsHeld /\ RecordInv)'
  BY <1>1 DEF GateBlocked, Running
<1>2. ASSUME NEW o \in Ops, Probe(o) PROVE (RunningIsHeld /\ RecordInv)'
  BY <1>2 DEF Probe, Running
<1>3. ASSUME NEW o \in Ops, ProbeRelease(o) PROVE (RunningIsHeld /\ RecordInv)'
  BY <1>3 DEF ProbeRelease
<1>4. ASSUME NEW o \in Ops, Request(o) PROVE (RunningIsHeld /\ RecordInv)'
  BY <1>4 DEF Request
<1>5. ASSUME NEW o \in Ops, Announce(o) PROVE (RunningIsHeld /\ RecordInv)'
  <2>1. o \in DeferredOps /\ pc[o] = "announcing"
    BY <1>5 DEF Announce
  <2>2. /\ \A p \in Ops \ {o} : pc'[p] = pc[p] /\ rec'[p] = rec[p]
        /\ pc'[o] = "requested" /\ verdict' = verdict /\ task' = task
        /\ level' = level /\ work' = work /\ late' = late /\ holder' = holder
        /\ cleaner' = cleaner /\ seen' = seen
    BY <1>5, <2>1 DEF Announce, Write
  <2>3. RunningIsHeld'
    BY <2>1, <2>2
  <2>4. RecordInv'
    BY <2>1, <2>2 DEF LeftToCaller
  <2>. QED
    BY <2>3, <2>4
<1>6. ASSUME NEW o \in Ops, SeeUpdate(o) PROVE (RunningIsHeld /\ RecordInv)'
  BY <1>6 DEF SeeUpdate, Refusal
<1>7. ASSUME NEW o \in Ops, SeeNoUpdate(o) PROVE (RunningIsHeld /\ RecordInv)'
  BY <1>7 DEF SeeNoUpdate
<1>8. ASSUME NEW o \in Ops, Acquire(o) PROVE (RunningIsHeld /\ RecordInv)'
  BY <1>8 DEF Acquire, AtLock
<1>9. ASSUME NEW o \in Ops, Busy(o) PROVE (RunningIsHeld /\ RecordInv)'
  BY <1>9 DEF Busy, AtLock
<1>10. ASSUME NEW o \in Ops, Abort(o) PROVE (RunningIsHeld /\ RecordInv)'
  BY <1>10 DEF Abort
<1>11. ASSUME NEW o \in Ops, Report(o) PROVE (RunningIsHeld /\ RecordInv)'
  <2>1. /\ pc[o] \in {"refused", "reporting"} /\ pc' = [pc EXCEPT ![o] = "done"]
        /\ rec' = [rec EXCEPT ![o] = IF rec[o] # "none" THEN verdict[o] ELSE @] \/ rec' = rec
        /\ UNCHANGED <<task, level, late, holder, cleaner, seen>>
        /\ ~DbErrors => rec'[o] # "running" \/ o \in DeferredOps
        /\ verdict' = [verdict EXCEPT ![o] = "none"]
    BY <1>11 DEF Report, Write
  <2>2. RunningIsHeld'
    BY <2>1
  <2>3. \A p \in Ops : (work[p] = "success" <=> work'[p] = "success")
                     /\ (work[p] = "none" <=> work'[p] = "none")
    BY <1>11 DEF Report
  <2>4. RecordInv'
    BY <2>1, <2>3 DEF LeftToCaller
  <2>. QED
    BY <2>2, <2>4
<1>12. ASSUME NEW o \in Ops, MarkRunning(o) PROVE (RunningIsHeld /\ RecordInv)'
  BY <1>12 DEF MarkRunning, Write
<1>13. ASSUME NEW o \in Ops, CommitWork(o) PROVE (RunningIsHeld /\ RecordInv)'
  BY <1>13 DEF CommitWork
<1>14. ASSUME NEW o \in Ops, ScheduleProgress(o) PROVE (RunningIsHeld /\ RecordInv)'
  BY <1>14 DEF ScheduleProgress
<1>15. ASSUME NEW o \in Ops, ProgressLands(o) PROVE (RunningIsHeld /\ RecordInv)'
  <2>1. o \in DeferredOps /\ pc[o] # "dead"
    BY <1>15 DEF ProgressLands
  <2>2. /\ \A p \in Ops \ {o} : rec'[p] = rec[p]
        /\ \A p \in Ops : late'[p] => late[p]
        /\ UNCHANGED <<pc, verdict, task, level, work, holder, cleaner, seen>>
    BY <1>15, <2>1 DEF ProgressLands, Write
  <2>3. RunningIsHeld'
    BY <2>1, <2>2
  <2>4. RecordInv'
    BY <2>1, <2>2 DEF LeftToCaller
  <2>. QED
    BY <2>3, <2>4
<1>16. ASSUME NEW o \in Ops, Leave(o) PROVE (RunningIsHeld /\ RecordInv)'
  <2>1. /\ pc[o] = "leaving" /\ task[o] \in Ops
        /\ pc' = [pc EXCEPT ![o] = IF o \in DeferredOps \/ LeftToCaller(o, verdict[o])
                                   THEN AfterSection(o) ELSE "done"]
        /\ UNCHANGED <<rec, task, level, late, cleaner, seen>>
        /\ holder' = IF level[o] = 1 THEN NoOne ELSE holder
        /\ depth[task[o]] = level[o]
    BY <1>16 DEF Leave, Current
  <2>2. RecordInv'
    BY <2>1, <1>16 DEF AfterSection, LeftToCaller, Leave
  <2>3. ASSUME NEW p \in Ops \ DeferredOps, rec[p] = "running", p # o, pc[p] \in Inside
        PROVE holder' = task[p]
    <3>1. holder = task[o] /\ holder = task[p]
      BY <2>1, <2>3
    <3>2. level[o] # 1
      BY <2>1, <2>3, <3>1
    <3>. QED
      BY <2>1, <3>1, <3>2
  <2>4. RunningIsHeld'
    BY <2>1, <2>3 DEF AfterSection, LeftToCaller
  <2>. QED
    BY <2>2, <2>4
<1>17. ASSUME NEW o \in Ops, CrashProcess(o) PROVE (RunningIsHeld /\ RecordInv)'
  BY <1>17 DEF CrashProcess, Kill, Live
<1>18. ASSUME NEW o \in Ops, NEW c \in Ops, EnterNested(c, o)
      PROVE (RunningIsHeld /\ RecordInv)'
  BY <1>18 DEF EnterNested
<1>19. ASSUME NEW o \in Ops, NEW outcome \in Terminal \ {"partial"}, Finish(o, outcome)
      PROVE (RunningIsHeld /\ RecordInv)'
  BY <1>19 DEF Finish, Write, LeftToCaller
<1>20. CASE CrashServer
  <2>1. /\ cleaner' = "off" /\ UNCHANGED <<rec, task, level>>
        /\ pc' = [o \in Ops |-> IF o \in ServerOps /\ pc[o] \in Live THEN "dead" ELSE pc[o]]
        /\ late' = [o \in Ops |-> late[o] /\ o \notin ServerOps]
        /\ holder' = IF holder \in ServerOps \cup {Cleaner} THEN NoOne ELSE holder
        /\ verdict' = [o \in Ops |-> IF o \in ServerOps THEN "none" ELSE verdict[o]]
        /\ work' = work
    BY <1>20 DEF CrashServer, Kill
  <2>2. RunningIsHeld'
    BY <2>1
  <2>3. RecordInv'
    BY <2>1 DEF LeftToCaller
  <2>. QED
    BY <2>2, <2>3
<1>21. CASE StartServer
  BY <1>21 DEF StartServer
<1>22. CASE CleanupLock
  BY <1>22 DEF CleanupLock
<1>23. CASE CleanupBusy
  BY <1>23 DEF CleanupBusy, Defer
<1>24. CASE CleanupRetry
  BY <1>24 DEF CleanupRetry
<1>25. CASE SweepRead
  BY <1>25 DEF SweepRead, Judged, SweepError, SweepFrame
<1>26. CASE SweepCommit
  BY <1>26 DEF SweepCommit, SweepOutcome, SweepError, SweepFrame
<1>27. CASE SweepWork
  BY <1>27 DEF SweepWork, SweepError, SweepFrame
<1>28. CASE CleanupRelease
  BY <1>28 DEF CleanupRelease, Defer
<1>29. CASE UNCHANGED vars
  BY <1>29 DEF vars, opVars, hostVars
<1>30. ASSUME NEW o \in Ops, CallerCommits(o) PROVE (RunningIsHeld /\ RecordInv)'
  BY <1>30 DEF CallerCommits
<1>. QED BY <1>1, <1>2, <1>3, <1>4, <1>5, <1>6, <1>7, <1>8, <1>9, <1>10, <1>11, <1>12,
      <1>13, <1>14, <1>15, <1>16, <1>17, <1>18, <1>19, <1>20, <1>21, <1>22, <1>23, <1>24,
      <1>25, <1>26, <1>27, <1>28, <1>29, <1>30 DEF Next, Step, CleanupStep
-----------------------------------------------------------------------------
(* The invariant of the specification.                                     *)
THEOREM Invariance == Spec => []IInv
<1>1. Init => IInv
  BY InitStep
<1>2. IInv /\ [Next]_vars => IInv'
  BY TypeStep, LockStep, RecordStep DEF IInv
<1>. QED
  BY <1>1, <1>2, PTL DEF Spec

(* One change of the host at a time, whatever crashes and however sections *)
(* nest (host_mutation_operation, _run_interrupted_cleanup_if_unlocked).   *)
THEOREM Exclusion == Spec => []HostExclusion
<1>1. IInv => HostExclusion
  <2>. SUFFICES ASSUME TypeOK, LockInv, NEW o \in Ops, pc[o] \in Inside
                PROVE  /\ holder = task[o] /\ cleaner \notin Sweeping
                       /\ \A p \in Ops : pc[p] \in Inside => task[p] = task[o]
    BY DEF IInv, HostExclusion
  <2>1. holder = task[o] /\ holder \in Ops
    BY DEF LockInv, TypeOK
  <2>2. cleaner \notin Sweeping
    BY <2>1, OpsAssumption DEF LockInv
  <2>3. \A p \in Ops : pc[p] \in Inside => task[p] = task[o]
    BY <2>1 DEF LockInv
  <2>. QED
    BY <2>1, <2>2, <2>3
<1>. QED
  BY <1>1, Invariance, PTL

-----------------------------------------------------------------------------
(* A recorded outcome is not rewritten: only the cleanup writes the row of *)
(* a request that has left, and only if it read it as active.              *)
LEMMA OutcomeStep ==
    IInv /\ [Next]_vars =>
      [\A o \in Ops \ DeferredOps :
        /\ level[o] > 0 /\ rec[o] \in Terminal
        /\ pc[o] \in {"leaving", "committing", "reporting", "done", "dead"}
        => \/ rec'[o] = rec[o]
           \/ o \in CallerOps /\ (pc[o] = "reporting" \/ seen[o] # "none")]_vars
<1>. SUFFICES ASSUME TypeOK, LockInv, RecordInv, [Next]_vars,
                     NEW q \in Ops \ DeferredOps, level[q] > 0,
                     pc[q] \in {"leaving", "committing", "reporting", "done", "dead"},
                     rec[q] \in Terminal,
                     q \in CallerOps => pc[q] # "reporting" /\ seen[q] = "none"
              PROVE rec'[q] = rec[q]
  BY DEF IInv
<1>. USE OpsAssumption DEF TypeOK, LockInv, RecordInv, Recorded, Outside, Active, Terminal,
      Inside, Waiting, Live, Sweeping, Goto, opVars, hostVars
<1>1. ASSUME NEW o \in Ops, GateBlocked(o) PROVE rec'[q] = rec[q]
  BY <1>1 DEF GateBlocked, Running
<1>2. ASSUME NEW o \in Ops, Probe(o) PROVE rec'[q] = rec[q]
  BY <1>2 DEF Probe, Running
<1>3. ASSUME NEW o \in Ops, ProbeRelease(o) PROVE rec'[q] = rec[q]
  BY <1>3 DEF ProbeRelease
<1>4. ASSUME NEW o \in Ops, Request(o) PROVE rec'[q] = rec[q]
  BY <1>4 DEF Request
<1>5. ASSUME NEW o \in Ops, Announce(o) PROVE rec'[q] = rec[q]
  BY <1>5 DEF Announce, Write
<1>6. ASSUME NEW o \in Ops, SeeUpdate(o) PROVE rec'[q] = rec[q]
  BY <1>6 DEF SeeUpdate, Refusal
<1>7. ASSUME NEW o \in Ops, SeeNoUpdate(o) PROVE rec'[q] = rec[q]
  BY <1>7 DEF SeeNoUpdate
<1>8. ASSUME NEW o \in Ops, Acquire(o) PROVE rec'[q] = rec[q]
  BY <1>8 DEF Acquire, AtLock
<1>9. ASSUME NEW o \in Ops, Busy(o) PROVE rec'[q] = rec[q]
  BY <1>9 DEF Busy, AtLock
<1>10. ASSUME NEW o \in Ops, Abort(o) PROVE rec'[q] = rec[q]
  BY <1>10 DEF Abort
<1>11. ASSUME NEW o \in Ops, Report(o) PROVE rec'[q] = rec[q]
  BY <1>11 DEF Report, Write
<1>12. ASSUME NEW o \in Ops, MarkRunning(o) PROVE rec'[q] = rec[q]
  BY <1>12 DEF MarkRunning, Write
<1>13. ASSUME NEW o \in Ops, CommitWork(o) PROVE rec'[q] = rec[q]
  BY <1>13 DEF CommitWork
<1>14. ASSUME NEW o \in Ops, ScheduleProgress(o) PROVE rec'[q] = rec[q]
  BY <1>14 DEF ScheduleProgress
<1>15. ASSUME NEW o \in Ops, ProgressLands(o) PROVE rec'[q] = rec[q]
  BY <1>15 DEF ProgressLands, Write
<1>16. ASSUME NEW o \in Ops, Leave(o) PROVE rec'[q] = rec[q]
  BY <1>16 DEF Leave, LockInv
<1>17. ASSUME NEW o \in Ops, CrashProcess(o) PROVE rec'[q] = rec[q]
  BY <1>17 DEF CrashProcess, Kill, Live
<1>18. ASSUME NEW o \in Ops, NEW c \in Ops, EnterNested(c, o) PROVE rec'[q] = rec[q]
  BY <1>18 DEF EnterNested
<1>19. ASSUME NEW o \in Ops, NEW outcome \in Terminal \ {"partial"}, Finish(o, outcome)
      PROVE rec'[q] = rec[q]
  BY <1>19 DEF Finish, Write, LeftToCaller
<1>20. CASE CrashServer
  BY <1>20 DEF CrashServer, Kill, Live
<1>21. CASE StartServer
  BY <1>21 DEF StartServer
<1>22. CASE CleanupLock
  BY <1>22 DEF CleanupLock
<1>23. CASE CleanupBusy
  BY <1>23 DEF CleanupBusy, Defer
<1>24. CASE CleanupRetry
  BY <1>24 DEF CleanupRetry
<1>25. CASE SweepRead
  BY <1>25 DEF SweepRead, SweepError, SweepFrame
<1>26. CASE SweepCommit
  BY <1>26 DEF SweepCommit, SweepOutcome, SweepError, SweepFrame
<1>27. CASE SweepWork
  BY <1>27 DEF SweepWork, SweepError, SweepFrame
<1>28. CASE CleanupRelease
  BY <1>28 DEF CleanupRelease, Defer
<1>29. CASE UNCHANGED vars
  BY <1>29 DEF vars, opVars, hostVars
<1>30. ASSUME NEW o \in Ops, CallerCommits(o) PROVE rec'[q] = rec[q]
  BY <1>30 DEF CallerCommits
<1>. QED BY <1>1, <1>2, <1>3, <1>4, <1>5, <1>6, <1>7, <1>8, <1>9, <1>10, <1>11, <1>12,
      <1>13, <1>14, <1>15, <1>16, <1>17, <1>18, <1>19, <1>20, <1>21, <1>22, <1>23, <1>24,
      <1>25, <1>26, <1>27, <1>28, <1>29, <1>30 DEF Next, Step, CleanupStep

(* The outcome an operation recorded inside its section stands.            *)
THEOREM Outcomes == Spec => OutcomeStands
<1>. QED
  BY Invariance, OutcomeStep, PTL DEF Spec, OutcomeStands

-----------------------------------------------------------------------------
(* The row of a dead request is rewritten by the cleanup only, which read  *)
(* it as it is.                                                            *)
LEMMA RecoveryStep ==
    IInv /\ [Next]_vars =>
      [\A o \in BackupOps \cup AutoSizeOps :
        pc[o] = "dead" /\ rec[o] = "running" /\ rec'[o] # rec[o] /\ seen[o] # "missed"
            => rec'[o] = IF work[o] = "success" THEN "success" ELSE "failed"]_vars
<1>. SUFFICES ASSUME TypeOK, LockInv, RecordInv, [Next]_vars,
                     NEW q \in BackupOps \cup AutoSizeOps,
                     pc[q] = "dead", rec[q] = "running", rec'[q] # rec[q], seen[q] # "missed"
              PROVE rec'[q] = IF work[q] = "success" THEN "success" ELSE "failed"
  BY DEF IInv
<1>. USE OpsAssumption DEF TypeOK, LockInv, RecordInv, Recorded, Outside, Active, Terminal,
      Inside, Waiting, Live, Sweeping, Goto, opVars, hostVars
<1>1. ASSUME NEW o \in Ops, GateBlocked(o) PROVE FALSE
  BY <1>1 DEF GateBlocked, Running
<1>2. ASSUME NEW o \in Ops, Probe(o) PROVE FALSE
  BY <1>2 DEF Probe, Running
<1>3. ASSUME NEW o \in Ops, ProbeRelease(o) PROVE FALSE
  BY <1>3 DEF ProbeRelease
<1>4. ASSUME NEW o \in Ops, Request(o) PROVE FALSE
  BY <1>4 DEF Request
<1>5. ASSUME NEW o \in Ops, Announce(o) PROVE FALSE
  BY <1>5 DEF Announce, Write
<1>6. ASSUME NEW o \in Ops, SeeUpdate(o) PROVE FALSE
  BY <1>6 DEF SeeUpdate, Refusal
<1>7. ASSUME NEW o \in Ops, SeeNoUpdate(o) PROVE FALSE
  BY <1>7 DEF SeeNoUpdate
<1>8. ASSUME NEW o \in Ops, Acquire(o) PROVE FALSE
  BY <1>8 DEF Acquire, AtLock
<1>9. ASSUME NEW o \in Ops, Busy(o) PROVE FALSE
  BY <1>9 DEF Busy, AtLock
<1>10. ASSUME NEW o \in Ops, Abort(o) PROVE FALSE
  BY <1>10 DEF Abort
<1>11. ASSUME NEW o \in Ops, Report(o) PROVE FALSE
  BY <1>11 DEF Report, Write
<1>12. ASSUME NEW o \in Ops, MarkRunning(o) PROVE FALSE
  BY <1>12 DEF MarkRunning, Write
<1>13. ASSUME NEW o \in Ops, CommitWork(o) PROVE FALSE
  BY <1>13 DEF CommitWork
<1>14. ASSUME NEW o \in Ops, ScheduleProgress(o) PROVE FALSE
  BY <1>14 DEF ScheduleProgress
<1>15. ASSUME NEW o \in Ops, ProgressLands(o) PROVE FALSE
  BY <1>15 DEF ProgressLands, Write
<1>16. ASSUME NEW o \in Ops, Leave(o) PROVE FALSE
  BY <1>16 DEF Leave, LockInv
<1>17. ASSUME NEW o \in Ops, CrashProcess(o) PROVE FALSE
  BY <1>17 DEF CrashProcess, Kill, Live
<1>18. ASSUME NEW o \in Ops, NEW c \in Ops, EnterNested(c, o) PROVE FALSE
  BY <1>18 DEF EnterNested
<1>19. ASSUME NEW o \in Ops, NEW outcome \in Terminal \ {"partial"}, Finish(o, outcome)
      PROVE FALSE
  BY <1>19 DEF Finish, Write, LeftToCaller
<1>20. CASE CrashServer
  BY <1>20 DEF CrashServer, Kill, Live
<1>21. CASE StartServer
  BY <1>21 DEF StartServer
<1>22. CASE CleanupLock
  BY <1>22 DEF CleanupLock
<1>23. CASE CleanupBusy
  BY <1>23 DEF CleanupBusy, Defer
<1>24. CASE CleanupRetry
  BY <1>24 DEF CleanupRetry
<1>25. CASE SweepRead
  BY <1>25 DEF SweepRead, SweepError, SweepFrame
<1>26. CASE SweepCommit
  BY <1>26 DEF SweepCommit, SweepOutcome, SweepError, SweepFrame
<1>27. CASE SweepWork
  BY <1>27 DEF SweepWork, SweepError, SweepFrame
<1>28. CASE CleanupRelease
  BY <1>28 DEF CleanupRelease, Defer
<1>29. CASE UNCHANGED vars
  BY <1>29 DEF vars, opVars, hostVars
<1>30. ASSUME NEW o \in Ops, CallerCommits(o) PROVE FALSE
  BY <1>30 DEF CallerCommits
<1>. QED BY <1>1, <1>2, <1>3, <1>4, <1>5, <1>6, <1>7, <1>8, <1>9, <1>10, <1>11, <1>12,
      <1>13, <1>14, <1>15, <1>16, <1>17, <1>18, <1>19, <1>20, <1>21, <1>22, <1>23, <1>24,
      <1>25, <1>26, <1>27, <1>28, <1>29, <1>30 DEF Next, Step, CleanupStep

(* A killed backup or auto-size run whose result is committed is settled   *)
(* as a success (_operation_has_successful_backup, ..._apply_run).         *)
THEOREM Recovery == Spec => CommittedWorkIsRecovered
<1>. QED
  BY Invariance, RecoveryStep, PTL DEF Spec, CommittedWorkIsRecovered

-----------------------------------------------------------------------------
(* The initial state of the requests is that of HostSection.               *)
LEMMA SectionInit == Init => Section!Init
<1>. SUFFICES ASSUME Init PROVE Section!Init
  OBVIOUS
<1>. QED
  BY OpsAssumption DEF Init, Section!Init, Inside

(* Every step opens, joins or closes a section, refuses a request, ends a  *)
(* process, sweeps, or changes nothing HostSection knows of: a probe, a    *)
(* row, a cleanup that finds the lock busy (host_mutation_operation,       *)
(* active_host_mutation_blocker, _run_interrupted_cleanup_if_unlocked).    *)
LEMMA SectionStep == IInv /\ [Next]_vars => [Section!Next]_(Section!vars)
<1>. SUFFICES ASSUME TypeOK, LockInv, [Next]_vars PROVE [Section!Next]_(Section!vars)
  BY DEF IInv
<1>. DEFINE owner == IF holder \in Ops /\ pc[holder] = "probing" THEN NoOne ELSE holder
            open == {o \in Ops : pc[o] \in Inside}
            over == {o \in Ops : pc[o] \in {"refused", "committing", "reporting",
                                             "done", "dead"}}
            Same == UNCHANGED <<owner, open, over>>
<1>. USE OpsAssumption DEF TypeOK, LockInv, Outside, Inside, Waiting, Live, Sweeping, Goto,
      opVars, hostVars
<1>1. ASSUME NEW o \in Ops, GateBlocked(o) PROVE Section!Refuse(o)
  BY <1>1 DEF GateBlocked, Section!Refuse
<1>2. ASSUME NEW o \in Ops, Probe(o) PROVE Same
  BY <1>2 DEF Probe
<1>3. ASSUME NEW o \in Ops, ProbeRelease(o) PROVE Same
  BY <1>3 DEF ProbeRelease
<1>4. ASSUME NEW o \in Ops, Request(o) PROVE Same
  BY <1>4 DEF Request
<1>5. ASSUME NEW o \in Ops, Announce(o) PROVE Same
  BY <1>5 DEF Announce
<1>6. ASSUME NEW o \in Ops, SeeUpdate(o) PROVE Section!Refuse(o)
  BY <1>6 DEF SeeUpdate, Section!Refuse
<1>7. ASSUME NEW o \in Ops, SeeNoUpdate(o) PROVE Same \/ Section!Refuse(o)
  BY <1>7 DEF SeeNoUpdate, Section!Refuse
<1>8. ASSUME NEW o \in Ops, Acquire(o) PROVE Section!Enter(o)
  <2>1. /\ holder = NoOne /\ holder' = o /\ pc' = [pc EXCEPT ![o] = "entered"]
        /\ pc[o] \in {"requested", "checked"}
    BY <1>8 DEF Acquire, AtLock
  <2>2. owner = NoOne /\ owner' = o /\ o \notin over /\ over' = over
    BY <2>1
  <2>3. \A p \in Ops : pc[p] \notin Inside
    BY <2>1
  <2>4. open' = {o}
    BY <2>1, <2>3
  <2>. QED
    BY <2>2, <2>4 DEF Section!Enter
<1>9. ASSUME NEW o \in Ops, Busy(o) PROVE Same \/ Section!Refuse(o)
  BY <1>9 DEF Busy, AtLock, Section!Refuse
<1>10. ASSUME NEW o \in Ops, Abort(o) PROVE Section!Refuse(o)
  BY <1>10 DEF Abort, Section!Refuse
<1>11. ASSUME NEW o \in Ops, Report(o) PROVE Same
  BY <1>11 DEF Report
<1>12. ASSUME NEW o \in Ops, MarkRunning(o) PROVE Same
  BY <1>12 DEF MarkRunning
<1>13. ASSUME NEW o \in Ops, CommitWork(o) PROVE Same
  BY <1>13 DEF CommitWork
<1>14. ASSUME NEW o \in Ops, ScheduleProgress(o) PROVE Same
  BY <1>14 DEF ScheduleProgress
<1>15. ASSUME NEW o \in Ops, ProgressLands(o) PROVE Same
  BY <1>15 DEF ProgressLands
<1>16. ASSUME NEW o \in Ops, Leave(o) PROVE Section!Exit(o)
  <2>1. /\ pc[o] = "leaving" /\ holder = task[o] /\ holder \in Ops /\ pc[holder] \in Inside
        /\ task[holder] = holder /\ level[holder] = 1 /\ level[o] \in Nat
        /\ level[o] = depth[task[o]]
    BY <1>16 DEF Leave, Current
  <2>2. holder = o <=> level[o] = 1
    BY <2>1
  <2>3. ASSUME level[o] = 1, NEW p \in Ops, pc[p] \in Inside PROVE p = o
    <3>1. task[p] = task[o]
      BY <2>1, <2>3
    <3>2. depth[task[p]] = 1
      BY <2>1, <2>3, <3>1
    <3>3. level[p] \in Nat /\ level[p] >= 1 /\ level[p] <= 1
      BY <2>3, <3>2
    <3>4. level[p] = 1
      BY ONLY <3>3
    <3>. QED
      BY <2>1, <2>3, <3>4
  <2>4. o = owner => open = {o}
    BY <2>1, <2>2, <2>3
  <2>5. \E place \in {"committing", "reporting", "done"} : pc' = [pc EXCEPT ![o] = place]
    BY <1>16 DEF Leave, AfterSection
  <2>6. open' = open \ {o} /\ over' = over \cup {o} /\ o \in open
    BY <2>1, <2>5
  <2>7. owner = holder /\ owner' = IF o = owner THEN NoOne ELSE owner
    <3>1. holder' = IF level[o] = 1 THEN NoOne ELSE holder
      BY <1>16 DEF Leave
    <3>. QED
      BY <2>1, <2>2, <2>5, <3>1
  <2>. QED
    BY <2>4, <2>6, <2>7 DEF Section!Exit
<1>17. ASSUME NEW t \in Ops, CrashProcess(t)
      PROVE  \E dying \in SUBSET Ops : Section!Die(dying, FALSE)
  <2>. DEFINE dying == {p \in Ops \ ServerOps : task[p] = t /\ pc[p] \in Live /\ p \notin over}
  <2>1. /\ t \in Ops \ ServerOps /\ task[t] = t
        /\ pc' = [p \in Ops |-> IF p \in Ops \ ServerOps /\ task[p] = t /\ pc[p] \in Live
                               THEN "dead" ELSE pc[p]]
        /\ holder' = IF holder = t THEN NoOne ELSE holder
    BY <1>17 DEF CrashProcess, Kill
  <2>2. \A p \in Ops : task[p] = t => p \notin ServerOps
    BY <2>1
  <2>3. owner \in dying <=> holder = t /\ pc[t] \in Inside
    BY <2>1, <2>2
  <2>4. open \cap dying # {} => holder = t /\ pc[t] \in Inside
    BY <2>1, <2>2
  <2>5. holder = t => pc[t] \in Inside
    BY <2>1
  <2>6. holder = t => open \subseteq dying /\ owner \in open
    BY <2>1, <2>2, <2>5
  <2>7. holder # t => open' = open /\ owner' = owner
    BY <2>1, <2>2
  <2>8. holder = t => open' = {} /\ owner' = NoOne
    BY <2>1, <2>2, <2>5
  <2>9. over' = over \cup dying /\ dying \cap over = {} /\ dying \in SUBSET Ops
    BY <2>1
  <2>10. Section!Die(dying, FALSE)
    <3>. HIDE DEF dying, owner, open, over
    <3>. QED
      BY <2>3, <2>4, <2>5, <2>6, <2>7, <2>8, <2>9 DEF Section!Die, owner, open, over
  <2>. QED
    BY <2>9, <2>10
<1>18. ASSUME NEW o \in Ops, NEW c \in Ops, EnterNested(c, o) PROVE Section!Join(c)
  BY <1>18 DEF EnterNested, Section!Join
<1>19. ASSUME NEW o \in Ops, NEW outcome \in Terminal \ {"partial"}, Finish(o, outcome)
      PROVE  Same
  BY <1>19 DEF Finish
<1>20. ASSUME CrashServer
      PROVE  \E dying \in SUBSET Ops : Section!Die(dying, TRUE)
  <2>. DEFINE dying == {p \in ServerOps : pc[p] \in Live /\ p \notin over}
  <2>1. /\ pc' = [p \in Ops |-> IF p \in ServerOps /\ pc[p] \in Live THEN "dead" ELSE pc[p]]
        /\ holder' = IF holder \in ServerOps \cup {Cleaner} THEN NoOne ELSE holder
    BY <1>20 DEF CrashServer, Kill
  <2>2. owner \in dying <=> holder \in ServerOps /\ pc[holder] \in Inside
    BY <2>1
  <2>3. open \cap dying # {} => holder \in ServerOps /\ pc[holder] \in Inside
    BY <2>1
  <2>4. holder \in ServerOps /\ pc[holder] \in Inside => open \subseteq dying /\ owner \in open
    BY <2>1
  <2>5. holder \in ServerOps => open' = {} /\ owner' = NoOne
    BY <2>1
  <2>6. holder \notin ServerOps => open' = open
    BY <2>1
  <2>7. holder \notin ServerOps => owner' = IF owner = Cleaner THEN NoOne ELSE owner
    BY <2>1
  <2>8. holder \in ServerOps /\ pc[holder] \notin Inside => owner = NoOne /\ open = {}
    BY <2>1
  <2>9. over' = over \cup dying /\ dying \cap over = {} /\ dying \in SUBSET Ops
    BY <2>1
  <2>10. Section!Die(dying, TRUE)
    <3>. HIDE DEF dying, owner, open, over
    <3>. QED
      BY <2>2, <2>3, <2>4, <2>5, <2>6, <2>7, <2>8, <2>9 DEF Section!Die, owner, open, over
  <2>. QED
    BY <2>9, <2>10
<1>21. ASSUME StartServer PROVE Same
  BY <1>21 DEF StartServer
<1>22. ASSUME CleanupLock PROVE Section!Sweep
  BY <1>22 DEF CleanupLock, Section!Sweep
<1>23. ASSUME CleanupBusy PROVE Same
  BY <1>23 DEF CleanupBusy, Defer
<1>24. ASSUME CleanupRetry PROVE Same
  BY <1>24 DEF CleanupRetry
<1>25. ASSUME SweepRead PROVE Same
  BY <1>25 DEF SweepRead, SweepError, SweepFrame
<1>26. ASSUME SweepCommit PROVE Same
  BY <1>26 DEF SweepCommit, SweepError, SweepFrame
<1>27. ASSUME SweepWork PROVE Same
  BY <1>27 DEF SweepWork, SweepError, SweepFrame
<1>28. ASSUME CleanupRelease PROVE Section!Sweep
  BY <1>28 DEF CleanupRelease, Section!Sweep
<1>29. ASSUME UNCHANGED vars PROVE Same
  BY <1>29 DEF vars
<1>30. ASSUME NEW o \in Ops, CallerCommits(o) PROVE Same
  BY <1>30 DEF CallerCommits
<1>31. Same => UNCHANGED Section!vars
  BY DEF Section!vars
<1>. HIDE DEF Same
<1>. QED
  BY <1>1, <1>2, <1>3, <1>4, <1>5, <1>6, <1>7, <1>8, <1>9, <1>10, <1>11, <1>12, <1>13,
     <1>14, <1>15, <1>16, <1>17, <1>18, <1>19, <1>20, <1>21, <1>22, <1>23, <1>24, <1>25,
     <1>26, <1>27, <1>28, <1>29, <1>30, <1>31 DEF Next, Step, CleanupStep, Section!Next

(* The flock, the depths, the probes and the crashes implement HostSection.*)
THEOREM Refinement == Spec => SectionSpec
<1>. QED
  BY Invariance, SectionInit, SectionStep, PTL DEF Spec, SectionSpec, Section!Spec
=============================================================================
