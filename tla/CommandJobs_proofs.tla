-------------------------- MODULE CommandJobs_proofs --------------------------
(***************************************************************************)
(* Why a guest has one command at a time and why its recorded outcome is   *)
(* what happened, for any clients, request keys, jobs, stops and deaths.   *)
(* One lemma per action and case shows first what it changes, then each    *)
(* part of IInv from that; JobsStay serves the steps that touch no job.    *)
(***************************************************************************)
EXTENDS CommandJobs, TLAPS

(* What the type invariant says of a client.                               *)
LEMMA TaskType ==
  ASSUME IInv
  PROVE  task \in [Clients -> Tasks] /\ Idle \in Tasks /\ \A c \in Clients : task[c] \in Tasks
  BY JobsAssumption DEF IInv, TypeOK, Tasks, Ats, Idle, Gone

(* get_job has answered its caller, who is done or goes on.                *)
LEMMA ResumeFacts ==
  ASSUME IInv, NEW c \in Clients, NEW final \in BOOLEAN, Resume(c, final)
  PROVE  /\ \/ /\ task'[c].at = "idle" /\ task'[c].then = "return" /\ task'[c].todo = {}
               /\ host' = (IF host = c THEN NoClient ELSE host)
               /\ guard' = (IF guard = c THEN NoClient ELSE guard)
            \/ /\ task'[c].at = task[c].then
               /\ task[c].then \in {"reconcile", "ask", "stop"}
               /\ task'[c].job = task[c].job /\ task'[c].key = task[c].key
               /\ task'[c].todo = task[c].todo /\ task'[c].then = "return"
               /\ UNCHANGED <<host, guard>>
         /\ \A d \in Clients : d # c => task'[d] = task[d]
         /\ task' \in [Clients -> Tasks]
<1>1. task[c].then \in {"return", "reconcile", "ask", "stop"}
  BY TaskType DEF Tasks
<1>2. CASE task[c].then = "return" \/ (final /\ task[c].then # "reconcile")
  <2>1. task' = [task EXCEPT ![c] = Idle] /\ Drop(c)
    BY <1>2 DEF Resume, Answered, Do
  <2>2. task'[c] = Idle /\ \A d \in Clients : d # c => task'[d] = task[d]
    BY <2>1, TaskType
  <2>3. task' \in [Clients -> Tasks]
    BY <2>1, TaskType
  <2>. QED
    BY <2>1, <2>2, <2>3 DEF Drop, Idle
<1>3. CASE ~(task[c].then = "return" \/ (final /\ task[c].then # "reconcile"))
  <2>. DEFINE e == [Idle EXCEPT !.at = task[c].then, !.job = task[c].job,
                                !.key = task[c].key, !.todo = task[c].todo]
  <2>1. e \in Tasks
    BY <1>3, TaskType DEF Tasks, Ats
  <2>2. task' = [task EXCEPT ![c] = e] /\ UNCHANGED <<host, guard>>
    BY <1>3 DEF Resume, Do
  <2>3. /\ e.at = task[c].then /\ e.job = task[c].job /\ e.key = task[c].key
        /\ e.todo = task[c].todo /\ e.then = "return"
    BY DEF Idle
  <2>. HIDE DEF e
  <2>. QED
    BY <1>1, <1>3, <2>1, <2>2, <2>3, TaskType
<1>. QED
  BY <1>2, <1>3

LEMMA AtType ==
  ASSUME IInv, NEW c \in Clients, NEW where \in Ats, At(c, where)
  PROVE  task' \in [Clients -> Tasks]
<1>1. [task[c] EXCEPT !.at = where] \in Tasks
  BY TaskType DEF Tasks
<1>. QED
  BY <1>1, TaskType DEF At, Do

LEMMA LookAtType ==
  ASSUME IInv, NEW c \in Clients, NEW j \in Jobs, NEW observing \in BOOLEAN,
         NEW next \in {"return", "reconcile", "ask", "stop"},
         LookAt(c, j, observing, next)
  PROVE  task' \in [Clients -> Tasks]
<1>1. [Idle EXCEPT !.at = "look", !.job = j, !.then = next,
                   !.observe = observing] \in Tasks
  <2>1. j \in 0..MaxJobs /\ "look" \in Ats /\ Idle \in Tasks
    BY TaskType, JobsAssumption DEF Jobs, Ats
  <2>. QED
    BY <2>1 DEF Tasks
<1>. QED
  BY <1>1, TaskType DEF LookAt, Do

(* What happens to one client, and to no job, keeps what is said of jobs.   *)
LEMMA JobsStay ==
  ASSUME IInv, NEW c \in Clients, task'[c].at \notin Submitting \cup {"commit"},
         \A d \in Clients : d # c => task'[d] = task[d],
         UNCHANGED <<row, phase, key, asked, born, service, result, boot, up, reserved>>,
         TypeOK', LockInv', RowInv',
         \A i \in Jobs : task'[c].job = i =>
           /\ task'[c].at = "release" => Over(i)
           /\ task'[c].at \in {"look", "inspect"} => task'[c].saw = 0
           /\ task'[c].at = "settle" /\ task'[c].found \in Results => result[i] = task'[c].found
           /\ task'[c].at \in {"recheck", "settle"}
                /\ task'[c].saw \notin {0, Unknown, born[i]} => ~Reachable(i)
  PROVE  IInv'
<1>1. \A d \in Clients, j \in Jobs : /\ MayLaunch(d, j)' => MayLaunch(d, j)
                                     /\ SubmittedBy(d, j)' => SubmittedBy(d, j)
  BY DEF MayLaunch, SubmittedBy, Submitting
<1>2. \A j \in Jobs : (Running(j)' <=> Running(j)) /\ (Reachable(j)' <=> Reachable(j))
  BY DEF Running, Reachable
<1>3. \A j \in Jobs : Over(j) => Over(j)'
  BY <1>1, <1>2 DEF Over
<1>4. ServiceInv'
  BY <1>1, <1>2, <1>3 DEF IInv, ServiceInv
<1>5. LookInv'
  BY <1>2, <1>3 DEF IInv, LookInv
<1>6. SlotInv'
  BY <1>2 DEF IInv, SlotInv, Submitting
<1>7. OutcomeInv'
  BY DEF IInv, OutcomeInv
<1>. QED
  BY <1>4, <1>5, <1>6, <1>7 DEF IInv

(* A verdict on an active row is true of what the guest has recorded, or   *)
(* of a boot that is gone.                                                 *)
LEMMA VerdictFacts ==
  ASSUME IInv, NEW c \in Clients, NEW j \in Jobs, task[c].job = j,
         task[c].at = "settle"
  PROVE  LET v == Verdict(task[c], j) IN
         /\ v[1] \in {"none"} \cup Active \cup Outcome /\ v[2] \in Phases
         /\ row[j] \in Active =>
             /\ v[2] # "outcome_unknown"
             /\ \/ v[1] = row[j]
                \/ /\ v[1] \in Outcome
                   /\ v[1] = "success" => result[j] = "success"
                   /\ v[1] = "cancelled" => result[j] = "killed" /\ asked[j]
                   /\ result[j] # "none" \/ ~Reachable(j)
<1>. DEFINE t == task[c]
<1>1. t.found \in Results \cup {"none", "unreadable"}
  BY TaskType DEF Tasks
<1>2. /\ t.found \in Results => result[j] = t.found
      /\ t.saw \notin {0, Unknown, born[j]} => ~Reachable(j)
  BY DEF IInv, LookInv
<1>3. row[j] \in {"none"} \cup Active \cup Outcome /\ phase[j] \in Phases
  BY DEF IInv, TypeOK
<1>4. row[j] \in Active => phase[j] # "outcome_unknown"
  BY DEF IInv, RowInv, Active
<1>. HIDE DEF t
<1>. USE DEF Results, Outcome, Phases
<1>5. CASE t.found = "success"
  <2>1. Verdict(t, j) = <<"success", "completed">>
    BY <1>5 DEF Verdict
  <2>. QED
    BY <1>2, <1>5, <2>1 DEF t
<1>6. CASE t.found = "killed"
  <2>1. Verdict(t, j) = <<IF asked[j] THEN "cancelled" ELSE "failed", "completed">>
    BY <1>6 DEF Verdict
  <2>. QED
    BY <1>2, <1>6, <2>1 DEF t
<1>7. CASE t.found = "failed"
  <2>1. Verdict(t, j) = <<"failed", "completed">>
    BY <1>7 DEF Verdict
  <2>. QED
    BY <1>2, <1>7, <2>1 DEF t
<1>8. CASE t.found = "unreadable" \/ (t.found = "none" /\ t.saw = Unknown)
  <2>1. Verdict(t, j) = <<row[j], "observation_unavailable">>
    BY <1>8 DEF Verdict
  <2>. QED
    BY <1>3, <2>1 DEF t
<1>9. CASE t.found = "none" /\ t.saw \notin {0, Unknown, born[j]}
  <2>1. Verdict(t, j) = <<"failed", "interrupted">>
    BY <1>9 DEF Verdict
  <2>. QED
    BY <1>2, <1>9, <2>1 DEF t
<1>10. CASE t.found = "none" /\ t.saw # Unknown /\ t.saw \in {0, Unknown, born[j]}
  <2>1. Verdict(t, j) =
          <<row[j], IF phase[j] = "observation_unavailable" /\ t.saw # 0
                    THEN "executing" ELSE phase[j]>>
    BY <1>10 DEF Verdict
  <2>. QED
    BY <1>3, <1>4, <2>1 DEF t
<1>. QED
  BY <1>1, <1>5, <1>6, <1>7, <1>8, <1>9, <1>10

(* A known key has a row.                                                  *)
LEMMA SubmitKnownStep ==
  ASSUME IInv, NEW c \in Clients, NEW k \in Keys, NEW j \in Jobs, Submit(c, k),
         key[j] = k, LookAt(c, j, TRUE, "return")
  PROVE  IInv'
<1>1. /\ task[c].at = "idle"
      /\ row[j] # "none"
      /\ task'[c].at = "look" /\ task'[c].job = j
      /\ task'[c].then = "return" /\ task'[c].todo = {} /\ task'[c].saw = 0
      /\ \A d \in Clients : d # c => task'[d] = task[d]
      /\ UNCHANGED <<row, phase, key, asked, born, service, result, boot, up, reserved, host, guard>>
      /\ UNCHANGED <<circuit, deaths>>
  BY TaskType, JobsAssumption
     DEF IInv, TypeOK, Submit, LookAt, RowInv, Do, Idle, rowVars, guestVars,
         lockVars
<1>2. TypeOK'
  <2>1. task' \in [Clients -> Tasks]
    BY LookAtType DEF Submit, RowInv
  <2>. QED
    BY <2>1, <1>1, JobsAssumption
       DEF IInv, TypeOK, RowInv, Active, Outcome, Phases, Jobs
<1>3. LockInv'
  BY <1>1, TaskType, JobsAssumption DEF IInv, LockInv, Submitting
<1>4. RowInv'
  BY <1>1, TaskType, JobsAssumption
     DEF IInv, TypeOK, Submitting, WithJob, Active, Outcome, Alive, Running,
         Reachable, RowInv, LockInv
<1>5. \A i \in Jobs : task'[c].job = i =>
         /\ task'[c].at = "release" => Over(i)
         /\ task'[c].at \in {"look", "inspect"} => task'[c].saw = 0
         /\ task'[c].at = "settle" /\ task'[c].found \in Results => result[i] = task'[c].found
         /\ task'[c].at \in {"recheck", "settle"}
              /\ task'[c].saw \notin {0, Unknown, born[i]} => ~Reachable(i)
  BY <1>1, TaskType, JobsAssumption
     DEF IInv, LookInv, ServiceInv, RowInv, Active, TypeOK
<1>. QED
  BY <1>1, <1>2, <1>3, <1>4, <1>5, JobsStay DEF Submitting

(* Only jobs that have a row are to be reconciled.                         *)
LEMMA SubmitNewStep ==
  ASSUME IInv, NEW c \in Clients, NEW k \in Keys, Submit(c, k),
         Do(c, [Idle EXCEPT !.at = "reconcile", !.key = k,
                            !.todo = {j \in Jobs : row[j] \in Active}])
  PROVE  IInv'
<1>1. /\ task[c].at = "idle"
      /\ task'[c].at = "reconcile" /\ task'[c].key \in Keys /\ task'[c].then = "return"
      /\ \A j \in task'[c].todo : row[j] # "none"
      /\ \A d \in Clients : d # c => task'[d] = task[d]
      /\ UNCHANGED <<row, phase, key, asked, born, service, result, boot, up, reserved, host, guard>>
      /\ UNCHANGED <<circuit, deaths>>
  BY TaskType, JobsAssumption
     DEF IInv, TypeOK, Submit, Active, Do, Idle, rowVars, guestVars, lockVars
<1>2. TypeOK'
  <2>1. task' \in [Clients -> Tasks]
    <3>. DEFINE e == [Idle EXCEPT !.at = "reconcile", !.key = k,
                                  !.todo = {i \in Jobs : row[i] \in Active}]
    <3>1. task[c] \in Tasks /\ Idle \in Tasks
      BY TaskType
    <3>2. "reconcile" \in Ats
      BY DEF Ats
    <3>3. e \in Tasks
      BY <3>1, <3>2 DEF Tasks
    <3>4. task' = [task EXCEPT ![c] = e]
      BY DEF Do
    <3>. HIDE DEF e
    <3>. QED
      BY <3>3, <3>4, TaskType
  <2>. QED
    BY <2>1, <1>1, JobsAssumption
       DEF IInv, TypeOK, RowInv, Active, Outcome, Phases, Jobs
<1>3. LockInv'
  BY <1>1, TaskType, JobsAssumption DEF IInv, LockInv, Submitting
<1>4. RowInv'
  BY <1>1, TaskType, JobsAssumption
     DEF IInv, TypeOK, Submitting, WithJob, Active, Outcome, Alive, Running,
         Reachable, RowInv, LockInv
<1>5. \A i \in Jobs : task'[c].job = i =>
         /\ task'[c].at = "release" => Over(i)
         /\ task'[c].at \in {"look", "inspect"} => task'[c].saw = 0
         /\ task'[c].at = "settle" /\ task'[c].found \in Results => result[i] = task'[c].found
         /\ task'[c].at \in {"recheck", "settle"}
              /\ task'[c].saw \notin {0, Unknown, born[i]} => ~Reachable(i)
  BY <1>1, TaskType, JobsAssumption
     DEF IInv, LookInv, ServiceInv, RowInv, Active, TypeOK
<1>. QED
  BY <1>1, <1>2, <1>3, <1>4, <1>5, JobsStay DEF Submitting

(* The job has a row.                                                      *)
LEMMA ObserveStep ==
  ASSUME IInv, NEW c \in Clients, NEW j \in Jobs, Observe(c, j)
  PROVE  IInv'
<1>1. /\ task[c].at = "idle"
      /\ row[j] # "none"
      /\ task'[c].at = "look" /\ task'[c].job = j
      /\ task'[c].then = "return" /\ task'[c].todo = {} /\ task'[c].saw = 0
      /\ \A d \in Clients : d # c => task'[d] = task[d]
      /\ UNCHANGED <<row, phase, key, asked, born, service, result, boot, up, reserved, host, guard>>
  BY TaskType, JobsAssumption
     DEF Observe, IInv, TypeOK, LookAt, Do, Idle, rowVars, guestVars, lockVars
<1>2. TypeOK'
  <2>1. task' \in [Clients -> Tasks]
    BY LookAtType DEF Observe
  <2>. QED
    BY <2>1, <1>1, JobsAssumption
       DEF Observe, IInv, TypeOK, LookAt, Do, Idle, Active, Outcome, Alive,
           Results, Phases, Jobs, rowVars, guestVars, lockVars
<1>3. LockInv'
  BY <1>1, TaskType, JobsAssumption DEF IInv, LockInv, Submitting
<1>4. RowInv'
  BY <1>1, TaskType, JobsAssumption
     DEF IInv, TypeOK, Submitting, WithJob, Active, Outcome, Alive, Running,
         Reachable, RowInv, LockInv
<1>5. \A i \in Jobs : task'[c].job = i =>
         /\ task'[c].at = "release" => Over(i)
         /\ task'[c].at \in {"look", "inspect"} => task'[c].saw = 0
         /\ task'[c].at = "settle" /\ task'[c].found \in Results => result[i] = task'[c].found
         /\ task'[c].at \in {"recheck", "settle"}
              /\ task'[c].saw \notin {0, Unknown, born[i]} => ~Reachable(i)
  BY <1>1, TaskType, JobsAssumption
     DEF IInv, LookInv, ServiceInv, RowInv, Active, TypeOK
<1>. QED
  BY <1>1, <1>2, <1>3, <1>4, <1>5, JobsStay DEF Submitting

(* The job has a row.                                                      *)
LEMMA CancelStep ==
  ASSUME IInv, NEW c \in Clients, NEW j \in Jobs, Cancel(c, j)
  PROVE  IInv'
<1>1. /\ task[c].at = "idle"
      /\ row[j] # "none"
      /\ task'[c].at = "look" /\ task'[c].job = j
      /\ task'[c].then = "ask" /\ task'[c].todo = {} /\ task'[c].saw = 0
      /\ \A d \in Clients : d # c => task'[d] = task[d]
      /\ UNCHANGED <<row, phase, key, asked, born, service, result, boot, up, reserved, host, guard>>
  BY TaskType, JobsAssumption
     DEF Cancel, IInv, TypeOK, LookAt, Do, Idle, rowVars, guestVars, lockVars
<1>2. TypeOK'
  <2>1. task' \in [Clients -> Tasks]
    BY LookAtType DEF Cancel
  <2>. QED
    BY <2>1, <1>1, JobsAssumption
       DEF Cancel, IInv, TypeOK, LookAt, Do, Idle, Active, Outcome, Alive,
           Results, Phases, Jobs, rowVars, guestVars, lockVars
<1>3. LockInv'
  BY <1>1, TaskType, JobsAssumption DEF IInv, LockInv, Submitting
<1>4. RowInv'
  BY <1>1, TaskType, JobsAssumption
     DEF IInv, TypeOK, Submitting, WithJob, Active, Outcome, Alive, Running,
         Reachable, RowInv, LockInv
<1>5. \A i \in Jobs : task'[c].job = i =>
         /\ task'[c].at = "release" => Over(i)
         /\ task'[c].at \in {"look", "inspect"} => task'[c].saw = 0
         /\ task'[c].at = "settle" /\ task'[c].found \in Results => result[i] = task'[c].found
         /\ task'[c].at \in {"recheck", "settle"}
              /\ task'[c].saw \notin {0, Unknown, born[i]} => ~Reachable(i)
  BY <1>1, TaskType, JobsAssumption
     DEF IInv, LookInv, ServiceInv, RowInv, Active, TypeOK
<1>. QED
  BY <1>1, <1>2, <1>3, <1>4, <1>5, JobsStay DEF Submitting

(* The next of the jobs is looked at.                                      *)
LEMMA ReconcileOneStep ==
  ASSUME IInv, NEW c \in Clients, NEW j \in Jobs, Reconcile(c), j \in task[c].todo,
         Do(c, [task[c] EXCEPT !.at = "look", !.job = j, !.todo = task[c].todo \ {j},
                  !.then = "reconcile", !.found = "none", !.saw = 0])
  PROVE  IInv'
<1>1. /\ task[c].at = "reconcile"
      /\ j \in task[c].todo
      /\ task'[c].at = "look" /\ task'[c].job = j /\ task'[c].then = "reconcile"
      /\ task'[c].key = task[c].key /\ task'[c].saw = 0
      /\ task'[c].todo \subseteq task[c].todo
      /\ \A d \in Clients : d # c => task'[d] = task[d]
      /\ UNCHANGED <<row, phase, key, asked, born, service, result, boot, up, reserved, host, guard>>
      /\ UNCHANGED <<circuit, deaths>>
  <2>1. UNCHANGED <<rowVars, guestVars, lockVars, deaths>> /\ task[c].at = "reconcile"
    BY DEF Reconcile
  <2>2. /\ task'[c].at = "look" /\ task'[c].job = j /\ task'[c].then = "reconcile"
        /\ task'[c].key = task[c].key /\ task'[c].saw = 0
        /\ task'[c].todo = task[c].todo \ {j}
        /\ \A d \in Clients : d # c => task'[d] = task[d]
    <3>1. task[c] \in Tasks /\ task \in [Clients -> Tasks]
      BY TaskType
    <3>. QED
      BY <3>1 DEF Do, Tasks
  <2>. QED
    BY <2>1, <2>2 DEF rowVars, guestVars, lockVars
<1>2. TypeOK'
  <2>1. task' \in [Clients -> Tasks]
    <3>. DEFINE e == [task[c] EXCEPT !.at = "look", !.job = j,
                      !.todo = task[c].todo \ {j}, !.then = "reconcile",
                      !.found = "none", !.saw = 0]
    <3>1. task[c] \in Tasks /\ Idle \in Tasks
      BY TaskType
    <3>2. "look" \in Ats
      BY DEF Ats
    <3>3. j \in 0..MaxJobs
      BY JobsAssumption DEF Jobs
    <3>4. 0 \in 0..Gone
      BY JobsAssumption DEF Gone
    <3>5. task[c].todo \ {j} \in SUBSET Jobs
      BY <3>1 DEF Tasks
    <3>6. e \in Tasks
      BY <3>1, <3>2, <3>3, <3>4, <3>5 DEF Tasks
    <3>7. task' = [task EXCEPT ![c] = e]
      BY DEF Do
    <3>. HIDE DEF e
    <3>. QED
      BY <3>6, <3>7, TaskType
  <2>. QED
    BY <2>1, <1>1, JobsAssumption
       DEF IInv, TypeOK, RowInv, Active, Outcome, Phases, Jobs
<1>3. LockInv'
  BY <1>1, TaskType, JobsAssumption DEF IInv, LockInv, Submitting
<1>4. RowInv'
  BY <1>1, TaskType, JobsAssumption
     DEF IInv, TypeOK, Submitting, WithJob, Active, Outcome, Alive, Running,
         Reachable, RowInv, LockInv
<1>5. \A i \in Jobs : task'[c].job = i =>
         /\ task'[c].at = "release" => Over(i)
         /\ task'[c].at \in {"look", "inspect"} => task'[c].saw = 0
         /\ task'[c].at = "settle" /\ task'[c].found \in Results => result[i] = task'[c].found
         /\ task'[c].at \in {"recheck", "settle"}
              /\ task'[c].saw \notin {0, Unknown, born[i]} => ~Reachable(i)
  BY <1>1, TaskType, JobsAssumption
     DEF IInv, LookInv, ServiceInv, RowInv, Active, TypeOK
<1>. QED
  BY <1>1, <1>2, <1>3, <1>4, <1>5, JobsStay DEF Submitting

(* On with the submission.                                                 *)
LEMMA ReconcileDoneStep ==
  ASSUME IInv, NEW c \in Clients, Reconcile(c),
         Do(c, [Idle EXCEPT !.at = "admit", !.key = task[c].key])
  PROVE  IInv'
<1>1. /\ task[c].at = "reconcile"
      /\ task'[c].at = "admit" /\ task'[c].key = task[c].key
      /\ task'[c].then = "return" /\ task'[c].todo = {}
      /\ \A d \in Clients : d # c => task'[d] = task[d]
      /\ UNCHANGED <<row, phase, key, asked, born, service, result, boot, up, reserved, host, guard>>
      /\ UNCHANGED <<circuit, deaths>>
  BY TaskType, JobsAssumption
     DEF IInv, TypeOK, Reconcile, Do, Idle, rowVars, guestVars, lockVars
<1>2. TypeOK'
  <2>1. task' \in [Clients -> Tasks]
    <3>. DEFINE e == [Idle EXCEPT !.at = "admit", !.key = task[c].key]
    <3>1. task[c] \in Tasks /\ Idle \in Tasks
      BY TaskType
    <3>2. "admit" \in Ats
      BY DEF Ats
    <3>3. e \in Tasks
      BY <3>1, <3>2 DEF Tasks
    <3>4. task' = [task EXCEPT ![c] = e]
      BY DEF Do
    <3>. HIDE DEF e
    <3>. QED
      BY <3>3, <3>4, TaskType
  <2>. QED
    BY <2>1, <1>1, JobsAssumption
       DEF IInv, TypeOK, RowInv, Active, Outcome, Phases, Jobs
<1>3. LockInv'
  BY <1>1, TaskType, JobsAssumption DEF IInv, LockInv, Submitting
<1>4. RowInv'
  BY <1>1, TaskType, JobsAssumption
     DEF IInv, TypeOK, Submitting, WithJob, Active, Outcome, Alive, Running,
         Reachable, RowInv, LockInv
<1>5. \A i \in Jobs : task'[c].job = i =>
         /\ task'[c].at = "release" => Over(i)
         /\ task'[c].at \in {"look", "inspect"} => task'[c].saw = 0
         /\ task'[c].at = "settle" /\ task'[c].found \in Results => result[i] = task'[c].found
         /\ task'[c].at \in {"recheck", "settle"}
              /\ task'[c].saw \notin {0, Unknown, born[i]} => ~Reachable(i)
  BY <1>1, TaskType, JobsAssumption
     DEF IInv, LookInv, ServiceInv, RowInv, Active, TypeOK
<1>. QED
  BY <1>1, <1>2, <1>3, <1>4, <1>5, JobsStay DEF Submitting

(* The maintenance lock was free.                                          *)
LEMMA AdmitStep ==
  ASSUME IInv, NEW c \in Clients, Admit(c)
  PROVE  IInv'
<1>1. /\ task[c].at = "admit"
      /\ host = NoClient /\ host' = c
      /\ task'[c].at = "guard"
      /\ task'[c].job = task[c].job /\ task'[c].key = task[c].key
      /\ task'[c].todo = task[c].todo /\ task'[c].then = task[c].then
      /\ task'[c].saw = task[c].saw
      /\ \A d \in Clients : d # c => task'[d] = task[d]
      /\ UNCHANGED <<row, phase, key, asked, born, service, result, boot, up, reserved, guard>>
  BY TaskType, JobsAssumption
     DEF Admit, IInv, TypeOK, At, Do, rowVars, guestVars, lockVars
<1>2. TypeOK'
  <2>1. task' \in [Clients -> Tasks]
    BY AtType DEF Admit, At, Do, Ats
  <2>. QED
    BY <2>1, <1>1, JobsAssumption
       DEF Admit, IInv, TypeOK, At, Do, Active, Outcome, Alive, Results, Phases,
           Jobs, rowVars, guestVars, lockVars
<1>3. LockInv'
  BY <1>1, TaskType, JobsAssumption DEF IInv, LockInv, Submitting
<1>4. RowInv'
  BY <1>1, TaskType, JobsAssumption
     DEF IInv, TypeOK, Submitting, WithJob, Active, Outcome, Alive, Running,
         Reachable, RowInv, LockInv
<1>5. \A i \in Jobs : task'[c].job = i =>
         /\ task'[c].at = "release" => Over(i)
         /\ task'[c].at \in {"look", "inspect"} => task'[c].saw = 0
         /\ task'[c].at = "settle" /\ task'[c].found \in Results => result[i] = task'[c].found
         /\ task'[c].at \in {"recheck", "settle"}
              /\ task'[c].saw \notin {0, Unknown, born[i]} => ~Reachable(i)
  BY <1>1, TaskType, JobsAssumption
     DEF IInv, LookInv, ServiceInv, RowInv, Active, TypeOK
<1>. QED
  BY <1>1, <1>2, <1>3, <1>4, <1>5, JobsStay DEF Submitting

(* The guard was free, and what is reserved has a result: nothing runs.    *)
LEMMA GuardStep ==
  ASSUME IInv, NEW c \in Clients, Guard(c)
  PROVE  IInv'
<1>1. /\ task[c].at = "guard"
      /\ guard = NoClient /\ guard' = c
      /\ reserved = 0 \/ result[reserved] # "none"
      /\ task'[c].saw = boot
      /\ task'[c].at = "commit"
      /\ task'[c].job = task[c].job /\ task'[c].key = task[c].key
      /\ task'[c].todo = task[c].todo /\ task'[c].then = task[c].then
      /\ \A d \in Clients : d # c => task'[d] = task[d]
      /\ UNCHANGED <<row, phase, key, asked, born, service, result, boot, up, reserved, host>>
  BY TaskType, JobsAssumption
     DEF Guard, IInv, TypeOK, Do, OccupiedFor, rowVars, guestVars, lockVars
<1>2. TypeOK'
  <2>1. task' \in [Clients -> Tasks]
    <3>. DEFINE e == [task[c] EXCEPT !.at = "commit", !.saw = boot]
    <3>1. task[c] \in Tasks /\ Idle \in Tasks
      BY TaskType
    <3>2. "commit" \in Ats
      BY DEF Ats
    <3>3. boot \in 0..Gone
      BY JobsAssumption DEF Gone, IInv, TypeOK
    <3>4. e \in Tasks
      BY <3>1, <3>2, <3>3 DEF Tasks
    <3>5. task' = [task EXCEPT ![c] = e]
      BY DEF Guard, Do
    <3>. HIDE DEF e
    <3>. QED
      BY <3>4, <3>5, TaskType
  <2>. QED
    BY <2>1, <1>1, JobsAssumption
       DEF Guard, IInv, TypeOK, Do, OccupiedFor, Active, Outcome, Alive,
           Results, Phases, Jobs, rowVars, guestVars, lockVars
<1>3. LockInv'
  BY <1>1, TaskType, JobsAssumption DEF IInv, LockInv, Submitting
<1>4. RowInv'
  BY <1>1, TaskType, JobsAssumption
     DEF IInv, TypeOK, Submitting, WithJob, Active, Outcome, Alive, Running,
         Reachable, RowInv, LockInv
<1>5. \A i \in Jobs : row[i] # "none" =>
         /\ ~Reachable(i) => ~Reachable(i)'
         /\ Over(i) => Over(i)'
  BY <1>1, TaskType, JobsAssumption
     DEF IInv, TypeOK, Submitting, WithJob, Active, Outcome, Alive, Running,
         Reachable, Over, MayLaunch, RowInv, ServiceInv, LockInv, SubmittedBy
<1>6. ServiceInv'
  <2>1. \A i \in Jobs : born'[i] <= boot' /\ (Running(i)' => Reachable(i)')
    BY <1>1, TaskType, JobsAssumption
       DEF IInv, TypeOK, Submitting, WithJob, Active, Outcome, Alive, Running,
           Reachable, ServiceInv, MayLaunch, RowInv
  <2>2. \A i \in Jobs : result'[i] # "none" => service'[i] \in {"failed", "gone"}
    BY <1>1, TaskType, JobsAssumption
       DEF IInv, TypeOK, Submitting, WithJob, Active, Outcome, Alive, Running,
           Reachable, ServiceInv, MayLaunch
  <2>3. \A i \in Jobs : row'[i] \in Outcome => Over(i)'
    BY <1>5, <1>1, TaskType, JobsAssumption
       DEF IInv, TypeOK, Submitting, WithJob, Active, Outcome, Alive, Running,
           Reachable, ServiceInv, Over, MayLaunch, SubmittedBy, LockInv, RowInv
  <2>4. \A d \in Clients, i \in Jobs : MayLaunch(d, i)' => service'[i] = "absent" /\ result'[i] = "none"
    BY <1>1, TaskType, JobsAssumption
       DEF IInv, TypeOK, Submitting, WithJob, Active, Outcome, Alive, Running,
           Reachable, ServiceInv, MayLaunch, LockInv, RowInv
  <2>5. \A d \in Clients, i \in Jobs : SubmittedBy(d, i)' => phase'[i] # "outcome_unknown"
    BY <1>1, TaskType, JobsAssumption
       DEF IInv, TypeOK, Submitting, WithJob, Active, Outcome, Alive, Running,
           Reachable, ServiceInv, SubmittedBy, LockInv, RowInv
  <2>. QED
    BY <2>1, <2>2, <2>3, <2>4, <2>5 DEF ServiceInv
<1>7. LookInv'
  BY <1>5, <1>1, TaskType, JobsAssumption
     DEF IInv, LookInv, RowInv, ServiceInv, WithJob, Submitting, Active,
         Outcome, Alive, TypeOK, MayLaunch
<1>8. SlotInv'
  <2>1. ASSUME NEW i \in Jobs, Running(i) PROVE phase[i] = "outcome_unknown"
    BY <1>1, <2>1, JobsAssumption
       DEF IInv, SlotInv, ServiceInv, Running, Alive, Jobs
  <2>. QED
    BY <2>1, <1>1
       DEF IInv, TypeOK, Submitting, WithJob, Active, Outcome, Alive, Running,
           Reachable, SlotInv, LockInv, ServiceInv, RowInv, MayLaunch,
           SubmittedBy, LookInv, Over
<1>9. OutcomeInv'
  BY <1>1, TaskType, JobsAssumption
     DEF IInv, TypeOK, Submitting, WithJob, Active, Outcome, Alive, Running,
         Reachable, OutcomeInv, ServiceInv, RowInv, MayLaunch
<1>. QED
  BY <1>2, <1>3, <1>4, <1>6, <1>7, <1>8, <1>9 DEF IInv

(* The locks are left.                                                     *)
LEMMA RefusedStep ==
  ASSUME IInv, NEW c \in Clients, Refused(c)
  PROVE  IInv'
<1>1. /\ task[c].at \in {"admit", "guard", "commit", "maintain"}
      /\ task'[c].at = "idle" /\ task'[c].then = "return" /\ task'[c].todo = {}
      /\ \A d \in Clients : d # c => task'[d] = task[d]
      /\ host' = (IF host = c THEN NoClient ELSE host)
      /\ guard' = (IF guard = c THEN NoClient ELSE guard)
      /\ UNCHANGED <<row, phase, key, asked, born, service, result, boot, up, reserved>>
  BY TaskType, JobsAssumption
     DEF Refused, IInv, TypeOK, Answered, Drop, Do, Idle, rowVars, guestVars,
         lockVars
<1>2. TypeOK'
  <2>1. task' \in [Clients -> Tasks]
    BY TaskType DEF Refused, Answered, Do
  <2>. QED
    BY <2>1, <1>1, JobsAssumption
       DEF Refused, IInv, TypeOK, Answered, Drop, Do, Idle, Active, Outcome,
           Alive, Results, Phases, Jobs, rowVars, guestVars, lockVars
<1>3. LockInv'
  BY <1>1, TaskType, JobsAssumption DEF IInv, LockInv, Submitting
<1>4. RowInv'
  BY <1>1, TaskType, JobsAssumption
     DEF IInv, TypeOK, Submitting, WithJob, Active, Outcome, Alive, Running,
         Reachable, RowInv, LockInv
<1>5. \A i \in Jobs : task'[c].job = i =>
         /\ task'[c].at = "release" => Over(i)
         /\ task'[c].at \in {"look", "inspect"} => task'[c].saw = 0
         /\ task'[c].at = "settle" /\ task'[c].found \in Results => result[i] = task'[c].found
         /\ task'[c].at \in {"recheck", "settle"}
              /\ task'[c].saw \notin {0, Unknown, born[i]} => ~Reachable(i)
  BY <1>1, TaskType, JobsAssumption
     DEF IInv, LookInv, ServiceInv, RowInv, Active, TypeOK
<1>. QED
  BY <1>1, <1>2, <1>3, <1>4, <1>5, JobsStay DEF Submitting

(* A new row has no service, and its key no other row.                     *)
LEMMA CommitNewStep ==
  ASSUME IInv, NEW c \in Clients, NEW j \in Jobs, Commit(c), ~KeyTaken(task[c].key),
         row[j] = "none", Settled(j, "queued", "submitting"),
         key' = [key EXCEPT ![j] = task[c].key],
         born' = [born EXCEPT ![j] = task[c].saw],
         Do(c, [Idle EXCEPT !.at = "reserve", !.job = j])
  PROVE  IInv'
<1>1. /\ task[c].at = "commit"
      /\ \A i \in Jobs : key[i] # task[c].key
      /\ row[j] = "none" /\ row'[j] = "queued" /\ phase'[j] = "submitting"
      /\ key'[j] = task[c].key /\ born'[j] = task[c].saw
      /\ \A i \in Jobs : i # j => row'[i] = row[i]
      /\ \A i \in Jobs : i # j => phase'[i] = phase[i]
      /\ \A i \in Jobs : i # j => key'[i] = key[i]
      /\ \A i \in Jobs : i # j => born'[i] = born[i]
      /\ task'[c].at = "reserve" /\ task'[c].job = j
      /\ task'[c].then = "return" /\ task'[c].todo = {}
      /\ \A d \in Clients : d # c => task'[d] = task[d]
      /\ UNCHANGED <<asked, service, result, boot, up, reserved, host, guard>>
      /\ UNCHANGED <<circuit, deaths>>
  <2>1. /\ task[c].at = "commit" /\ UNCHANGED <<asked, guestVars, lockVars, deaths>>
        /\ \A i \in Jobs : key[i] # task[c].key
    BY DEF Commit, KeyTaken
  <2>2. /\ task'[c].at = "reserve" /\ task'[c].job = j
        /\ task'[c].then = "return" /\ task'[c].todo = {}
        /\ \A d \in Clients : d # c => task'[d] = task[d]
    BY TaskType DEF Do, Idle
  <2>3. /\ row'[j] = "queued" /\ phase'[j] = "submitting"
        /\ \A i \in Jobs : i # j => row'[i] = row[i]
        /\ \A i \in Jobs : i # j => phase'[i] = phase[i]
    BY DEF Settled, IInv, TypeOK
  <2>4. /\ key'[j] = task[c].key /\ born'[j] = task[c].saw
        /\ \A i \in Jobs : i # j => key'[i] = key[i]
        /\ \A i \in Jobs : i # j => born'[i] = born[i]
    BY DEF IInv, TypeOK
  <2>. QED
    BY <2>1, <2>2, <2>3, <2>4 DEF guestVars, lockVars
<1>2. TypeOK'
  <2>1. task' \in [Clients -> Tasks]
    <3>. DEFINE e == [Idle EXCEPT !.at = "reserve", !.job = j]
    <3>1. task[c] \in Tasks /\ Idle \in Tasks
      BY TaskType
    <3>2. "reserve" \in Ats
      BY DEF Ats
    <3>3. j \in 0..MaxJobs
      BY JobsAssumption DEF Jobs
    <3>4. e \in Tasks
      BY <3>1, <3>2, <3>3 DEF Tasks
    <3>5. task' = [task EXCEPT ![c] = e]
      BY DEF Do
    <3>. HIDE DEF e
    <3>. QED
      BY <3>4, <3>5, TaskType
  <2>. QED
    BY <2>1, <1>1, JobsAssumption
       DEF IInv, TypeOK, RowInv, Settled, Active, Outcome, Phases, Jobs
<1>3. LockInv'
  BY <1>1, TaskType, JobsAssumption DEF IInv, LockInv, Submitting
<1>4. RowInv'
  <2>0. \A i \in Jobs : row[i] # "none" => row'[i] # "none"
    BY <1>1, TaskType, JobsAssumption DEF IInv, TypeOK, Active, Outcome
  <2>1. \A i \in Jobs : row'[i] = "none" => key'[i] = NoKey /\ service'[i] = "absent" /\ result'[i] = "none"
    BY <1>1, TaskType, JobsAssumption, <2>0
       DEF IInv, TypeOK, RowInv, Active, Outcome
  <2>2. \A i \in Jobs : phase'[i] = "outcome_unknown" => row'[i] = "failed"
    BY <1>1, TaskType, JobsAssumption DEF IInv, TypeOK, RowInv, Active, Outcome
  <2>3. \A d \in Clients : task'[d].at \in WithJob => task'[d].job \in Jobs /\ row'[task'[d].job] # "none"
    BY <1>1, TaskType, JobsAssumption, <2>0
       DEF IInv, RowInv, WithJob, Submitting
  <2>4. \A d \in Clients : \A i \in task'[d].todo : row'[i] # "none"
    <3>1. \A d \in Clients : task'[d].todo \subseteq task[d].todo
      BY <1>1, TaskType, JobsAssumption
    <3>2. \A d \in Clients : task[d].todo \subseteq Jobs
      BY TaskType DEF Tasks
    <3>. QED
      BY <2>0, <3>1, <3>2 DEF IInv, RowInv
  <2>5. \A d \in Clients : /\ task'[d].at \in {"reconcile", "admit", "guard", "commit"}
                              \/ task'[d].then = "reconcile" => task'[d].key \in Keys
                           /\ task'[d].at = "commit" => task'[d].saw \in 1..boot'
    BY <1>1, TaskType, JobsAssumption DEF IInv, RowInv
  <2>. QED
    BY <2>1, <2>2, <2>3, <2>4, <2>5 DEF RowInv
<1>5. \A i \in Jobs : row[i] # "none" =>
         /\ ~Reachable(i) => ~Reachable(i)'
         /\ Over(i) => Over(i)'
  BY <1>1, TaskType, JobsAssumption
     DEF IInv, TypeOK, Submitting, WithJob, Active, Outcome, Alive, Running,
         Reachable, Over, MayLaunch, RowInv, ServiceInv, LockInv, SubmittedBy
<1>6. ServiceInv'
  <2>1. \A i \in Jobs : born'[i] <= boot' /\ (Running(i)' => Reachable(i)')
    BY <1>1, TaskType, JobsAssumption
       DEF IInv, TypeOK, Submitting, WithJob, Active, Outcome, Alive, Running,
           Reachable, ServiceInv, MayLaunch, RowInv
  <2>2. \A i \in Jobs : result'[i] # "none" => service'[i] \in {"failed", "gone"}
    BY <1>1, TaskType, JobsAssumption
       DEF IInv, TypeOK, Submitting, WithJob, Active, Outcome, Alive, Running,
           Reachable, ServiceInv, MayLaunch
  <2>3. \A i \in Jobs : row'[i] \in Outcome => Over(i)'
    BY <1>5, <1>1, TaskType, JobsAssumption
       DEF IInv, TypeOK, Submitting, WithJob, Active, Outcome, Alive, Running,
           Reachable, ServiceInv, Over, MayLaunch, SubmittedBy, LockInv, RowInv
  <2>4. \A d \in Clients, i \in Jobs : MayLaunch(d, i)' => service'[i] = "absent" /\ result'[i] = "none"
    BY <1>1, TaskType, JobsAssumption
       DEF IInv, TypeOK, Submitting, WithJob, Active, Outcome, Alive, Running,
           Reachable, ServiceInv, MayLaunch, LockInv, RowInv
  <2>5. \A d \in Clients, i \in Jobs : SubmittedBy(d, i)' => phase'[i] # "outcome_unknown"
    BY <1>1, TaskType, JobsAssumption
       DEF IInv, TypeOK, Submitting, WithJob, Active, Outcome, Alive, Running,
           Reachable, ServiceInv, SubmittedBy, LockInv, RowInv
  <2>. QED
    BY <2>1, <2>2, <2>3, <2>4, <2>5 DEF ServiceInv
<1>7. LookInv'
  BY <1>5, <1>1, TaskType, JobsAssumption
     DEF IInv, LookInv, RowInv, ServiceInv, WithJob, Submitting, Active,
         Outcome, Alive, TypeOK, MayLaunch
<1>8. SlotInv'
  BY <1>1, TaskType, JobsAssumption
     DEF IInv, TypeOK, Submitting, WithJob, Active, Outcome, Alive, Running,
         Reachable, SlotInv, LockInv, ServiceInv, RowInv, MayLaunch,
         SubmittedBy, LookInv, Over
<1>9. OutcomeInv'
  BY <1>1, TaskType, JobsAssumption
     DEF IInv, TypeOK, Submitting, WithJob, Active, Outcome, Alive, Running,
         Reachable, OutcomeInv, ServiceInv, RowInv, MayLaunch
<1>. QED
  BY <1>2, <1>3, <1>4, <1>6, <1>7, <1>8, <1>9 DEF IInv

(* The locks are still held while the row of the key is looked at.         *)
LEMMA CommitKnownStep ==
  ASSUME IInv, NEW c \in Clients, NEW j \in Jobs, Commit(c), KeyTaken(task[c].key),
         key[j] = task[c].key, LookAt(c, j, TRUE, "return")
  PROVE  IInv'
<1>1. /\ task[c].at = "commit"
      /\ row[j] # "none"
      /\ task'[c].at = "look" /\ task'[c].job = j
      /\ task'[c].then = "return" /\ task'[c].todo = {} /\ task'[c].saw = 0
      /\ \A d \in Clients : d # c => task'[d] = task[d]
      /\ UNCHANGED <<row, phase, key, asked, born, service, result, boot, up, reserved, host, guard>>
      /\ UNCHANGED <<circuit, deaths>>
  <2>1. UNCHANGED <<rowVars, guestVars, lockVars, deaths>> /\ task[c].at = "commit"
    BY DEF Commit, rowVars
  <2>2. row[j] # "none"
    BY JobsAssumption DEF Commit, IInv, RowInv
  <2>3. /\ task'[c].at = "look" /\ task'[c].job = j
        /\ task'[c].then = "return" /\ task'[c].todo = {} /\ task'[c].saw = 0
        /\ \A d \in Clients : d # c => task'[d] = task[d]
    BY TaskType DEF LookAt, Do, Idle
  <2>. QED
    BY <2>1, <2>2, <2>3 DEF rowVars, guestVars, lockVars
<1>2. TypeOK'
  <2>1. task' \in [Clients -> Tasks]
    BY LookAtType DEF Commit, RowInv, KeyTaken
  <2>. QED
    BY <2>1, <1>1, JobsAssumption
       DEF IInv, TypeOK, RowInv, Active, Outcome, Phases, Jobs
<1>3. LockInv'
  BY <1>1, TaskType, JobsAssumption DEF IInv, LockInv, Submitting
<1>4. RowInv'
  BY <1>1, TaskType, JobsAssumption
     DEF IInv, TypeOK, Submitting, WithJob, Active, Outcome, Alive, Running,
         Reachable, RowInv, LockInv
<1>5. \A i \in Jobs : task'[c].job = i =>
         /\ task'[c].at = "release" => Over(i)
         /\ task'[c].at \in {"look", "inspect"} => task'[c].saw = 0
         /\ task'[c].at = "settle" /\ task'[c].found \in Results => result[i] = task'[c].found
         /\ task'[c].at \in {"recheck", "settle"}
              /\ task'[c].saw \notin {0, Unknown, born[i]} => ~Reachable(i)
  BY <1>1, TaskType, JobsAssumption
     DEF IInv, LookInv, ServiceInv, RowInv, Active, TypeOK
<1>. QED
  BY <1>1, <1>2, <1>3, <1>4, <1>5, JobsStay DEF Submitting

(* Nothing that runs loses its reservation.                                *)
LEMMA ReserveStep ==
  ASSUME IInv, NEW c \in Clients, NEW j \in Jobs, task[c].job = j, Reserve(c)
  PROVE  IInv'
<1>1. /\ task[c].at = "reserve"
      /\ reserved' = j
      /\ task'[c].at = "launch"
      /\ task'[c].job = task[c].job /\ task'[c].key = task[c].key
      /\ task'[c].todo = task[c].todo /\ task'[c].then = task[c].then
      /\ task'[c].saw = task[c].saw
      /\ \A d \in Clients : d # c => task'[d] = task[d]
      /\ UNCHANGED <<row, phase, key, asked, born, service, result, boot, up, host, guard>>
  BY TaskType, JobsAssumption
     DEF Reserve, IInv, TypeOK, At, Do, rowVars, guestVars, lockVars
<1>2. TypeOK'
  <2>1. task' \in [Clients -> Tasks]
    BY AtType DEF Reserve, At, Do, Ats
  <2>. QED
    BY <2>1, <1>1, JobsAssumption
       DEF Reserve, IInv, TypeOK, At, Do, Active, Outcome, Alive, Results,
           Phases, Jobs, rowVars, guestVars, lockVars
<1>3. LockInv'
  BY <1>1, TaskType, JobsAssumption DEF IInv, LockInv, Submitting
<1>4. RowInv'
  BY <1>1, TaskType, JobsAssumption
     DEF IInv, TypeOK, Submitting, WithJob, Active, Outcome, Alive, Running,
         Reachable, RowInv, LockInv
<1>5. \A i \in Jobs : row[i] # "none" =>
         /\ ~Reachable(i) => ~Reachable(i)'
         /\ Over(i) => Over(i)'
  BY <1>1, TaskType, JobsAssumption
     DEF IInv, TypeOK, Submitting, WithJob, Active, Outcome, Alive, Running,
         Reachable, Over, MayLaunch, RowInv, ServiceInv, LockInv, SubmittedBy
<1>6. ServiceInv'
  <2>1. \A i \in Jobs : born'[i] <= boot' /\ (Running(i)' => Reachable(i)')
    BY <1>1, TaskType, JobsAssumption
       DEF IInv, TypeOK, Submitting, WithJob, Active, Outcome, Alive, Running,
           Reachable, ServiceInv, MayLaunch, RowInv
  <2>2. \A i \in Jobs : result'[i] # "none" => service'[i] \in {"failed", "gone"}
    BY <1>1, TaskType, JobsAssumption
       DEF IInv, TypeOK, Submitting, WithJob, Active, Outcome, Alive, Running,
           Reachable, ServiceInv, MayLaunch
  <2>3. \A i \in Jobs : row'[i] \in Outcome => Over(i)'
    BY <1>5, <1>1, TaskType, JobsAssumption
       DEF IInv, TypeOK, Submitting, WithJob, Active, Outcome, Alive, Running,
           Reachable, ServiceInv, Over, MayLaunch, SubmittedBy, LockInv, RowInv
  <2>4. \A d \in Clients, i \in Jobs : MayLaunch(d, i)' => service'[i] = "absent" /\ result'[i] = "none"
    BY <1>1, TaskType, JobsAssumption
       DEF IInv, TypeOK, Submitting, WithJob, Active, Outcome, Alive, Running,
           Reachable, ServiceInv, MayLaunch, LockInv, RowInv
  <2>5. \A d \in Clients, i \in Jobs : SubmittedBy(d, i)' => phase'[i] # "outcome_unknown"
    BY <1>1, TaskType, JobsAssumption
       DEF IInv, TypeOK, Submitting, WithJob, Active, Outcome, Alive, Running,
           Reachable, ServiceInv, SubmittedBy, LockInv, RowInv
  <2>. QED
    BY <2>1, <2>2, <2>3, <2>4, <2>5 DEF ServiceInv
<1>7. LookInv'
  BY <1>5, <1>1, TaskType, JobsAssumption
     DEF IInv, LookInv, RowInv, ServiceInv, WithJob, Submitting, Active,
         Outcome, Alive, TypeOK, MayLaunch
<1>8. SlotInv'
  BY <1>1, TaskType, JobsAssumption
     DEF IInv, TypeOK, Submitting, WithJob, Active, Outcome, Alive, Running,
         Reachable, SlotInv, LockInv, ServiceInv, RowInv, MayLaunch,
         SubmittedBy, LookInv, Over
<1>9. OutcomeInv'
  BY <1>1, TaskType, JobsAssumption
     DEF IInv, TypeOK, Submitting, WithJob, Active, Outcome, Alive, Running,
         Reachable, OutcomeInv, ServiceInv, RowInv, MayLaunch
<1>. QED
  BY <1>2, <1>3, <1>4, <1>6, <1>7, <1>8, <1>9 DEF IInv

(* Nothing was launched.                                                   *)
LEMMA ReserveFailsStep ==
  ASSUME IInv, NEW c \in Clients, NEW j \in Jobs, task[c].job = j, ReserveFails(c)
  PROVE  IInv'
<1>1. /\ task[c].at = "reserve"
      /\ row'[j] = "failed" /\ phase'[j] = "not_started"
      /\ \A i \in Jobs : i # j => row'[i] = row[i]
      /\ \A i \in Jobs : i # j => phase'[i] = phase[i]
      /\ task'[c].at = "idle" /\ task'[c].then = "return" /\ task'[c].todo = {}
      /\ \A d \in Clients : d # c => task'[d] = task[d]
      /\ host' = (IF host = c THEN NoClient ELSE host)
      /\ guard' = (IF guard = c THEN NoClient ELSE guard)
      /\ UNCHANGED <<key, asked, born, service, result, boot, up, reserved>>
  BY TaskType, JobsAssumption
     DEF ReserveFails, IInv, TypeOK, Settled, Answered, Drop, Do, Idle, rowVars,
         guestVars, lockVars
<1>2. TypeOK'
  <2>1. task' \in [Clients -> Tasks]
    BY TaskType DEF ReserveFails, Answered, Do
  <2>. QED
    BY <2>1, <1>1, JobsAssumption
       DEF ReserveFails, IInv, TypeOK, Settled, Answered, Drop, Do, Idle,
           Active, Outcome, Alive, Results, Phases, Jobs, rowVars, guestVars,
           lockVars
<1>3. LockInv'
  BY <1>1, TaskType, JobsAssumption DEF IInv, LockInv, Submitting
<1>4. RowInv'
  <2>0. \A i \in Jobs : row[i] # "none" => row'[i] # "none"
    BY <1>1, TaskType, JobsAssumption DEF IInv, TypeOK, Active, Outcome
  <2>1. \A i \in Jobs : row'[i] = "none" => key'[i] = NoKey /\ service'[i] = "absent" /\ result'[i] = "none"
    BY <1>1, TaskType, JobsAssumption, <2>0
       DEF IInv, TypeOK, RowInv, Active, Outcome
  <2>2. \A i \in Jobs : phase'[i] = "outcome_unknown" => row'[i] = "failed"
    BY <1>1, TaskType, JobsAssumption DEF IInv, TypeOK, RowInv, Active, Outcome
  <2>3. \A d \in Clients : task'[d].at \in WithJob => task'[d].job \in Jobs /\ row'[task'[d].job] # "none"
    BY <1>1, TaskType, JobsAssumption, <2>0
       DEF IInv, RowInv, WithJob, Submitting
  <2>4. \A d \in Clients : \A i \in task'[d].todo : row'[i] # "none"
    <3>1. \A d \in Clients : task'[d].todo \subseteq task[d].todo
      BY <1>1, TaskType, JobsAssumption
    <3>2. \A d \in Clients : task[d].todo \subseteq Jobs
      BY TaskType DEF Tasks
    <3>. QED
      BY <2>0, <3>1, <3>2 DEF IInv, RowInv
  <2>5. \A d \in Clients : /\ task'[d].at \in {"reconcile", "admit", "guard", "commit"}
                              \/ task'[d].then = "reconcile" => task'[d].key \in Keys
                           /\ task'[d].at = "commit" => task'[d].saw \in 1..boot'
    BY <1>1, TaskType, JobsAssumption DEF IInv, RowInv
  <2>. QED
    BY <2>1, <2>2, <2>3, <2>4, <2>5 DEF RowInv
<1>5. \A i \in Jobs : row[i] # "none" =>
         /\ ~Reachable(i) => ~Reachable(i)'
         /\ Over(i) => Over(i)'
  BY <1>1, TaskType, JobsAssumption
     DEF IInv, TypeOK, Submitting, WithJob, Active, Outcome, Alive, Running,
         Reachable, Over, MayLaunch, RowInv, ServiceInv, LockInv, SubmittedBy
<1>6. ServiceInv'
  <2>1. \A i \in Jobs : born'[i] <= boot' /\ (Running(i)' => Reachable(i)')
    BY <1>1, TaskType, JobsAssumption
       DEF IInv, TypeOK, Submitting, WithJob, Active, Outcome, Alive, Running,
           Reachable, ServiceInv, MayLaunch, RowInv
  <2>2. \A i \in Jobs : result'[i] # "none" => service'[i] \in {"failed", "gone"}
    BY <1>1, TaskType, JobsAssumption
       DEF IInv, TypeOK, Submitting, WithJob, Active, Outcome, Alive, Running,
           Reachable, ServiceInv, MayLaunch
  <2>3. \A i \in Jobs : row'[i] \in Outcome => Over(i)'
    BY <1>5, <1>1, TaskType, JobsAssumption
       DEF IInv, TypeOK, Submitting, WithJob, Active, Outcome, Alive, Running,
           Reachable, ServiceInv, Over, MayLaunch, SubmittedBy, LockInv, RowInv
  <2>4. \A d \in Clients, i \in Jobs : MayLaunch(d, i)' => service'[i] = "absent" /\ result'[i] = "none"
    BY <1>1, TaskType, JobsAssumption
       DEF IInv, TypeOK, Submitting, WithJob, Active, Outcome, Alive, Running,
           Reachable, ServiceInv, MayLaunch, LockInv, RowInv
  <2>5. \A d \in Clients, i \in Jobs : SubmittedBy(d, i)' => phase'[i] # "outcome_unknown"
    BY <1>1, TaskType, JobsAssumption
       DEF IInv, TypeOK, Submitting, WithJob, Active, Outcome, Alive, Running,
           Reachable, ServiceInv, SubmittedBy, LockInv, RowInv
  <2>. QED
    BY <2>1, <2>2, <2>3, <2>4, <2>5 DEF ServiceInv
<1>7. LookInv'
  BY <1>5, <1>1, TaskType, JobsAssumption
     DEF IInv, LookInv, RowInv, ServiceInv, WithJob, Submitting, Active,
         Outcome, Alive, TypeOK, MayLaunch
<1>8. SlotInv'
  BY <1>1, TaskType, JobsAssumption
     DEF IInv, TypeOK, Submitting, WithJob, Active, Outcome, Alive, Running,
         Reachable, SlotInv, LockInv, ServiceInv, RowInv, MayLaunch,
         SubmittedBy, LookInv, Over
<1>9. OutcomeInv'
  BY <1>1, TaskType, JobsAssumption
     DEF IInv, TypeOK, Submitting, WithJob, Active, Outcome, Alive, Running,
         Reachable, OutcomeInv, ServiceInv, RowInv, MayLaunch
<1>. QED
  BY <1>2, <1>3, <1>4, <1>6, <1>7, <1>8, <1>9 DEF IInv

(* Only the boot that the job was made for can have its service.           *)
LEMMA LaunchStep ==
  ASSUME IInv, NEW c \in Clients, NEW j \in Jobs, task[c].job = j, Launch(c)
  PROVE  IInv'
<1>1. /\ task[c].at = "launch"
      /\ \/ Reachable(j) /\ service'[j] = "starting"
         \/ service'[j] = service[j]
      /\ \A i \in Jobs : i # j => service'[i] = service[i]
      /\ task'[c].at = "launching"
      /\ task'[c].job = task[c].job /\ task'[c].key = task[c].key
      /\ task'[c].todo = task[c].todo /\ task'[c].then = task[c].then
      /\ task'[c].saw = task[c].saw
      /\ \A d \in Clients : d # c => task'[d] = task[d]
      /\ UNCHANGED <<row, phase, key, asked, born, result, boot, up, reserved, host, guard>>
  BY TaskType, JobsAssumption
     DEF Launch, IInv, TypeOK, At, Do, rowVars, guestVars, lockVars
<1>2. TypeOK'
  <2>1. task' \in [Clients -> Tasks]
    BY AtType DEF Launch, At, Do, Ats
  <2>. QED
    BY <2>1, <1>1, JobsAssumption
       DEF Launch, IInv, TypeOK, At, Do, Active, Outcome, Alive, Results,
           Phases, Jobs, rowVars, guestVars, lockVars
<1>3. LockInv'
  BY <1>1, TaskType, JobsAssumption DEF IInv, LockInv, Submitting
<1>4. RowInv'
  BY <1>1, TaskType, JobsAssumption
     DEF IInv, TypeOK, Submitting, WithJob, Active, Outcome, Alive, Running,
         Reachable, RowInv, LockInv
<1>5. \A i \in Jobs : row[i] # "none" =>
         /\ ~Reachable(i) => ~Reachable(i)'
         /\ Over(i) => Over(i)'
  BY <1>1, TaskType, JobsAssumption
     DEF IInv, TypeOK, Submitting, WithJob, Active, Outcome, Alive, Running,
         Reachable, Over, MayLaunch, RowInv, ServiceInv, LockInv, SubmittedBy
<1>6. ServiceInv'
  <2>1. \A i \in Jobs : born'[i] <= boot' /\ (Running(i)' => Reachable(i)')
    BY <1>1, TaskType, JobsAssumption
       DEF IInv, TypeOK, Submitting, WithJob, Active, Outcome, Alive, Running,
           Reachable, ServiceInv, MayLaunch, RowInv
  <2>2. \A i \in Jobs : result'[i] # "none" => service'[i] \in {"failed", "gone"}
    BY <1>1, TaskType, JobsAssumption
       DEF IInv, TypeOK, Submitting, WithJob, Active, Outcome, Alive, Running,
           Reachable, ServiceInv, MayLaunch
  <2>3. \A i \in Jobs : row'[i] \in Outcome => Over(i)'
    BY <1>5, <1>1, TaskType, JobsAssumption
       DEF IInv, TypeOK, Submitting, WithJob, Active, Outcome, Alive, Running,
           Reachable, ServiceInv, Over, MayLaunch, SubmittedBy, LockInv, RowInv
  <2>4. \A d \in Clients, i \in Jobs : MayLaunch(d, i)' => service'[i] = "absent" /\ result'[i] = "none"
    BY <1>1, TaskType, JobsAssumption
       DEF IInv, TypeOK, Submitting, WithJob, Active, Outcome, Alive, Running,
           Reachable, ServiceInv, MayLaunch, LockInv, RowInv
  <2>5. \A d \in Clients, i \in Jobs : SubmittedBy(d, i)' => phase'[i] # "outcome_unknown"
    BY <1>1, TaskType, JobsAssumption
       DEF IInv, TypeOK, Submitting, WithJob, Active, Outcome, Alive, Running,
           Reachable, ServiceInv, SubmittedBy, LockInv, RowInv
  <2>. QED
    BY <2>1, <2>2, <2>3, <2>4, <2>5 DEF ServiceInv
<1>7. LookInv'
  BY <1>5, <1>1, TaskType, JobsAssumption
     DEF IInv, LookInv, RowInv, ServiceInv, WithJob, Submitting, Active,
         Outcome, Alive, TypeOK, MayLaunch
<1>8. SlotInv'
  BY <1>1, TaskType, JobsAssumption
     DEF IInv, TypeOK, Submitting, WithJob, Active, Outcome, Alive, Running,
         Reachable, SlotInv, LockInv, ServiceInv, RowInv, MayLaunch,
         SubmittedBy, LookInv, Over
<1>9. OutcomeInv'
  BY <1>1, TaskType, JobsAssumption
     DEF IInv, TypeOK, Submitting, WithJob, Active, Outcome, Alive, Running,
         Reachable, OutcomeInv, ServiceInv, RowInv, MayLaunch
<1>. QED
  BY <1>2, <1>3, <1>4, <1>6, <1>7, <1>8, <1>9 DEF IInv

(* The submitter knows that it runs.                                       *)
LEMMA LaunchedStep ==
  ASSUME IInv, NEW c \in Clients, NEW j \in Jobs, task[c].job = j, Launched(c)
  PROVE  IInv'
<1>1. /\ task[c].at = "launching"
      /\ task'[c].at = "mark"
      /\ task'[c].job = task[c].job /\ task'[c].key = task[c].key
      /\ task'[c].todo = task[c].todo /\ task'[c].then = task[c].then
      /\ task'[c].saw = task[c].saw
      /\ \A d \in Clients : d # c => task'[d] = task[d]
      /\ UNCHANGED <<row, phase, key, asked, born, service, result, boot, up, reserved, host, guard>>
  BY TaskType, JobsAssumption
     DEF Launched, IInv, TypeOK, Do, rowVars, guestVars, lockVars
<1>2. TypeOK'
  <2>1. task' \in [Clients -> Tasks]
    <3>. DEFINE e == [task[c] EXCEPT !.at = "mark", !.ok = TRUE]
    <3>1. task[c] \in Tasks /\ Idle \in Tasks
      BY TaskType
    <3>2. "mark" \in Ats
      BY DEF Ats
    <3>3. e \in Tasks
      BY <3>1, <3>2 DEF Tasks
    <3>4. task' = [task EXCEPT ![c] = e]
      BY DEF Launched, Do
    <3>. HIDE DEF e
    <3>. QED
      BY <3>3, <3>4, TaskType
  <2>. QED
    BY <2>1, <1>1, JobsAssumption
       DEF Launched, IInv, TypeOK, Do, Active, Outcome, Alive, Results, Phases,
           Jobs, rowVars, guestVars, lockVars
<1>3. LockInv'
  BY <1>1, TaskType, JobsAssumption DEF IInv, LockInv, Submitting
<1>4. RowInv'
  BY <1>1, TaskType, JobsAssumption
     DEF IInv, TypeOK, Submitting, WithJob, Active, Outcome, Alive, Running,
         Reachable, RowInv, LockInv
<1>5. \A i \in Jobs : row[i] # "none" =>
         /\ ~Reachable(i) => ~Reachable(i)'
         /\ Over(i) => Over(i)'
  BY <1>1, TaskType, JobsAssumption
     DEF IInv, TypeOK, Submitting, WithJob, Active, Outcome, Alive, Running,
         Reachable, Over, MayLaunch, RowInv, ServiceInv, LockInv, SubmittedBy
<1>6. ServiceInv'
  <2>1. \A i \in Jobs : born'[i] <= boot' /\ (Running(i)' => Reachable(i)')
    BY <1>1, TaskType, JobsAssumption
       DEF IInv, TypeOK, Submitting, WithJob, Active, Outcome, Alive, Running,
           Reachable, ServiceInv, MayLaunch, RowInv
  <2>2. \A i \in Jobs : result'[i] # "none" => service'[i] \in {"failed", "gone"}
    BY <1>1, TaskType, JobsAssumption
       DEF IInv, TypeOK, Submitting, WithJob, Active, Outcome, Alive, Running,
           Reachable, ServiceInv, MayLaunch
  <2>3. \A i \in Jobs : row'[i] \in Outcome => Over(i)'
    BY <1>5, <1>1, TaskType, JobsAssumption
       DEF IInv, TypeOK, Submitting, WithJob, Active, Outcome, Alive, Running,
           Reachable, ServiceInv, Over, MayLaunch, SubmittedBy, LockInv, RowInv
  <2>4. \A d \in Clients, i \in Jobs : MayLaunch(d, i)' => service'[i] = "absent" /\ result'[i] = "none"
    BY <1>1, TaskType, JobsAssumption
       DEF IInv, TypeOK, Submitting, WithJob, Active, Outcome, Alive, Running,
           Reachable, ServiceInv, MayLaunch, LockInv, RowInv
  <2>5. \A d \in Clients, i \in Jobs : SubmittedBy(d, i)' => phase'[i] # "outcome_unknown"
    BY <1>1, TaskType, JobsAssumption
       DEF IInv, TypeOK, Submitting, WithJob, Active, Outcome, Alive, Running,
           Reachable, ServiceInv, SubmittedBy, LockInv, RowInv
  <2>. QED
    BY <2>1, <2>2, <2>3, <2>4, <2>5 DEF ServiceInv
<1>7. LookInv'
  BY <1>5, <1>1, TaskType, JobsAssumption
     DEF IInv, LookInv, RowInv, ServiceInv, WithJob, Submitting, Active,
         Outcome, Alive, TypeOK, MayLaunch
<1>8. SlotInv'
  BY <1>1, TaskType, JobsAssumption
     DEF IInv, TypeOK, Submitting, WithJob, Active, Outcome, Alive, Running,
         Reachable, SlotInv, LockInv, ServiceInv, RowInv, MayLaunch,
         SubmittedBy, LookInv, Over
<1>9. OutcomeInv'
  BY <1>1, TaskType, JobsAssumption
     DEF IInv, TypeOK, Submitting, WithJob, Active, Outcome, Alive, Running,
         Reachable, OutcomeInv, ServiceInv, RowInv, MayLaunch
<1>. QED
  BY <1>2, <1>3, <1>4, <1>6, <1>7, <1>8, <1>9 DEF IInv

(* The unit may have been started.                                         *)
LEMMA LaunchFailsStep ==
  ASSUME IInv, NEW c \in Clients, NEW timedOut \in BOOLEAN, NEW j \in Jobs,
         task[c].job = j, LaunchFails(c, timedOut)
  PROVE  IInv'
<1>1. /\ task[c].at = "launching"
      /\ \/ service'[j] = service[j]
         \/ service[j] = "starting" /\ service'[j] = "absent"
      /\ \A i \in Jobs : i # j => service'[i] = service[i]
      /\ task'[c].at = "mark"
      /\ task'[c].job = task[c].job /\ task'[c].key = task[c].key
      /\ task'[c].todo = task[c].todo /\ task'[c].then = task[c].then
      /\ task'[c].saw = task[c].saw
      /\ \A d \in Clients : d # c => task'[d] = task[d]
      /\ UNCHANGED <<row, phase, key, asked, born, result, boot, up, reserved, host, guard>>
  BY TaskType, JobsAssumption
     DEF LaunchFails, IInv, TypeOK, Do, rowVars, guestVars, lockVars
<1>2. TypeOK'
  <2>1. task' \in [Clients -> Tasks]
    <3>. DEFINE e == [task[c] EXCEPT !.at = "mark", !.ok = FALSE]
    <3>1. task[c] \in Tasks /\ Idle \in Tasks
      BY TaskType
    <3>2. "mark" \in Ats
      BY DEF Ats
    <3>3. e \in Tasks
      BY <3>1, <3>2 DEF Tasks
    <3>4. task' = [task EXCEPT ![c] = e]
      BY DEF LaunchFails, Do
    <3>. HIDE DEF e
    <3>. QED
      BY <3>3, <3>4, TaskType
  <2>. QED
    BY <2>1, <1>1, JobsAssumption
       DEF LaunchFails, IInv, TypeOK, Do, Active, Outcome, Alive, Results,
           Phases, Jobs, rowVars, guestVars, lockVars
<1>3. LockInv'
  BY <1>1, TaskType, JobsAssumption DEF IInv, LockInv, Submitting
<1>4. RowInv'
  BY <1>1, TaskType, JobsAssumption
     DEF IInv, TypeOK, Submitting, WithJob, Active, Outcome, Alive, Running,
         Reachable, RowInv, LockInv
<1>5. \A i \in Jobs : row[i] # "none" =>
         /\ ~Reachable(i) => ~Reachable(i)'
         /\ Over(i) => Over(i)'
  BY <1>1, TaskType, JobsAssumption
     DEF IInv, TypeOK, Submitting, WithJob, Active, Outcome, Alive, Running,
         Reachable, Over, MayLaunch, RowInv, ServiceInv, LockInv, SubmittedBy
<1>6. ServiceInv'
  <2>1. \A i \in Jobs : born'[i] <= boot' /\ (Running(i)' => Reachable(i)')
    BY <1>1, TaskType, JobsAssumption
       DEF IInv, TypeOK, Submitting, WithJob, Active, Outcome, Alive, Running,
           Reachable, ServiceInv, MayLaunch, RowInv
  <2>2. \A i \in Jobs : result'[i] # "none" => service'[i] \in {"failed", "gone"}
    BY <1>1, TaskType, JobsAssumption
       DEF IInv, TypeOK, Submitting, WithJob, Active, Outcome, Alive, Running,
           Reachable, ServiceInv, MayLaunch
  <2>3. \A i \in Jobs : row'[i] \in Outcome => Over(i)'
    BY <1>5, <1>1, TaskType, JobsAssumption
       DEF IInv, TypeOK, Submitting, WithJob, Active, Outcome, Alive, Running,
           Reachable, ServiceInv, Over, MayLaunch, SubmittedBy, LockInv, RowInv
  <2>4. \A d \in Clients, i \in Jobs : MayLaunch(d, i)' => service'[i] = "absent" /\ result'[i] = "none"
    BY <1>1, TaskType, JobsAssumption
       DEF IInv, TypeOK, Submitting, WithJob, Active, Outcome, Alive, Running,
           Reachable, ServiceInv, MayLaunch, LockInv, RowInv
  <2>5. \A d \in Clients, i \in Jobs : SubmittedBy(d, i)' => phase'[i] # "outcome_unknown"
    BY <1>1, TaskType, JobsAssumption
       DEF IInv, TypeOK, Submitting, WithJob, Active, Outcome, Alive, Running,
           Reachable, ServiceInv, SubmittedBy, LockInv, RowInv
  <2>. QED
    BY <2>1, <2>2, <2>3, <2>4, <2>5 DEF ServiceInv
<1>7. LookInv'
  BY <1>5, <1>1, TaskType, JobsAssumption
     DEF IInv, LookInv, RowInv, ServiceInv, WithJob, Submitting, Active,
         Outcome, Alive, TypeOK, MayLaunch
<1>8. SlotInv'
  BY <1>1, TaskType, JobsAssumption
     DEF IInv, TypeOK, Submitting, WithJob, Active, Outcome, Alive, Running,
         Reachable, SlotInv, LockInv, ServiceInv, RowInv, MayLaunch,
         SubmittedBy, LookInv, Over
<1>9. OutcomeInv'
  BY <1>1, TaskType, JobsAssumption
     DEF IInv, TypeOK, Submitting, WithJob, Active, Outcome, Alive, Running,
         Reachable, OutcomeInv, ServiceInv, RowInv, MayLaunch
<1>. QED
  BY <1>2, <1>3, <1>4, <1>6, <1>7, <1>8, <1>9 DEF IInv

(* The row may reopen; its service holds the slot or is over.              *)
LEMMA MarkStep ==
  ASSUME IInv, NEW c \in Clients, NEW j \in Jobs, task[c].job = j, Mark(c)
  PROVE  IInv'
<1>1. /\ task[c].at = "mark"
      /\ row'[j] = "running" /\ phase'[j] \in {"executing", "submission_unknown"}
      /\ \A i \in Jobs : i # j => row'[i] = row[i]
      /\ \A i \in Jobs : i # j => phase'[i] = phase[i]
      /\ task'[c].at = "look" /\ task'[c].job = j
      /\ task'[c].then = "return" /\ task'[c].todo = {} /\ task'[c].saw = 0
      /\ \A d \in Clients : d # c => task'[d] = task[d]
      /\ host' = (IF host = c THEN NoClient ELSE host)
      /\ guard' = (IF guard = c THEN NoClient ELSE guard)
      /\ UNCHANGED <<key, asked, born, service, result, boot, up, reserved>>
  BY TaskType, JobsAssumption
     DEF Mark, IInv, TypeOK, Settled, LookAt, Drop, Do, Idle, rowVars,
         guestVars, lockVars
<1>2. TypeOK'
  <2>1. task' \in [Clients -> Tasks]
    BY LookAtType DEF Mark, Settled, Drop
  <2>. QED
    BY <2>1, <1>1, JobsAssumption
       DEF Mark, IInv, TypeOK, Settled, LookAt, Drop, Do, Idle, Active, Outcome,
           Alive, Results, Phases, Jobs, rowVars, guestVars, lockVars
<1>3. LockInv'
  BY <1>1, TaskType, JobsAssumption DEF IInv, LockInv, Submitting
<1>4. RowInv'
  <2>0. \A i \in Jobs : row[i] # "none" => row'[i] # "none"
    BY <1>1, TaskType, JobsAssumption DEF IInv, TypeOK, Active, Outcome
  <2>1. \A i \in Jobs : row'[i] = "none" => key'[i] = NoKey /\ service'[i] = "absent" /\ result'[i] = "none"
    BY <1>1, TaskType, JobsAssumption, <2>0
       DEF IInv, TypeOK, RowInv, Active, Outcome
  <2>2. \A i \in Jobs : phase'[i] = "outcome_unknown" => row'[i] = "failed"
    BY <1>1, TaskType, JobsAssumption DEF IInv, TypeOK, RowInv, Active, Outcome
  <2>3. \A d \in Clients : task'[d].at \in WithJob => task'[d].job \in Jobs /\ row'[task'[d].job] # "none"
    BY <1>1, TaskType, JobsAssumption, <2>0
       DEF IInv, RowInv, WithJob, Submitting
  <2>4. \A d \in Clients : \A i \in task'[d].todo : row'[i] # "none"
    <3>1. \A d \in Clients : task'[d].todo \subseteq task[d].todo
      BY <1>1, TaskType, JobsAssumption
    <3>2. \A d \in Clients : task[d].todo \subseteq Jobs
      BY TaskType DEF Tasks
    <3>. QED
      BY <2>0, <3>1, <3>2 DEF IInv, RowInv
  <2>5. \A d \in Clients : /\ task'[d].at \in {"reconcile", "admit", "guard", "commit"}
                              \/ task'[d].then = "reconcile" => task'[d].key \in Keys
                           /\ task'[d].at = "commit" => task'[d].saw \in 1..boot'
    BY <1>1, TaskType, JobsAssumption DEF IInv, RowInv
  <2>. QED
    BY <2>1, <2>2, <2>3, <2>4, <2>5 DEF RowInv
<1>5. \A i \in Jobs : row[i] # "none" =>
         /\ ~Reachable(i) => ~Reachable(i)'
         /\ Over(i) => Over(i)'
  BY <1>1, TaskType, JobsAssumption
     DEF IInv, TypeOK, Submitting, WithJob, Active, Outcome, Alive, Running,
         Reachable, Over, MayLaunch, RowInv, ServiceInv, LockInv, SubmittedBy
<1>6. ServiceInv'
  <2>1. \A i \in Jobs : born'[i] <= boot' /\ (Running(i)' => Reachable(i)')
    BY <1>1, TaskType, JobsAssumption
       DEF IInv, TypeOK, Submitting, WithJob, Active, Outcome, Alive, Running,
           Reachable, ServiceInv, MayLaunch, RowInv
  <2>2. \A i \in Jobs : result'[i] # "none" => service'[i] \in {"failed", "gone"}
    BY <1>1, TaskType, JobsAssumption
       DEF IInv, TypeOK, Submitting, WithJob, Active, Outcome, Alive, Running,
           Reachable, ServiceInv, MayLaunch
  <2>3. \A i \in Jobs : row'[i] \in Outcome => Over(i)'
    BY <1>5, <1>1, TaskType, JobsAssumption
       DEF IInv, TypeOK, Submitting, WithJob, Active, Outcome, Alive, Running,
           Reachable, ServiceInv, Over, MayLaunch, SubmittedBy, LockInv, RowInv
  <2>4. \A d \in Clients, i \in Jobs : MayLaunch(d, i)' => service'[i] = "absent" /\ result'[i] = "none"
    BY <1>1, TaskType, JobsAssumption
       DEF IInv, TypeOK, Submitting, WithJob, Active, Outcome, Alive, Running,
           Reachable, ServiceInv, MayLaunch, LockInv, RowInv
  <2>5. \A d \in Clients, i \in Jobs : SubmittedBy(d, i)' => phase'[i] # "outcome_unknown"
    BY <1>1, TaskType, JobsAssumption
       DEF IInv, TypeOK, Submitting, WithJob, Active, Outcome, Alive, Running,
           Reachable, ServiceInv, SubmittedBy, LockInv, RowInv
  <2>. QED
    BY <2>1, <2>2, <2>3, <2>4, <2>5 DEF ServiceInv
<1>7. LookInv'
  BY <1>5, <1>1, TaskType, JobsAssumption
     DEF IInv, LookInv, RowInv, ServiceInv, WithJob, Submitting, Active,
         Outcome, Alive, TypeOK, MayLaunch
<1>8. SlotInv'
  BY <1>1, TaskType, JobsAssumption
     DEF IInv, TypeOK, Submitting, WithJob, Active, Outcome, Alive, Running,
         Reachable, SlotInv, LockInv, ServiceInv, RowInv, MayLaunch,
         SubmittedBy, LookInv, Over
<1>9. OutcomeInv'
  BY <1>1, TaskType, JobsAssumption
     DEF IInv, TypeOK, Submitting, WithJob, Active, Outcome, Alive, Running,
         Reachable, OutcomeInv, ServiceInv, RowInv, MayLaunch
<1>. QED
  BY <1>2, <1>3, <1>4, <1>6, <1>7, <1>8, <1>9 DEF IInv

(* A terminal row is over; a result that is there stays.                   *)
LEMMA LookStep ==
  ASSUME IInv, NEW c \in Clients, NEW j \in Jobs, task[c].job = j, Look(c)
  PROVE  IInv'
<1>1. /\ task[c].at = "look"
      /\ task'[c].job = task[c].job /\ task'[c].key = task[c].key
      /\ task'[c].todo = task[c].todo /\ task'[c].then = task[c].then
      /\ task'[c].saw = task[c].saw
      /\ \/ row[j] \notin Active /\ task'[c].at = "release"
         \/ /\ task'[c].at \in {"inspect", "settle"}
            /\ task'[c].found \in Results => result[j] = task'[c].found
      /\ \A d \in Clients : d # c => task'[d] = task[d]
      /\ UNCHANGED <<row, phase, key, asked, born, service, result, boot, up, reserved, host, guard>>
  <2>1. ASSUME row[j] \notin Active
        PROVE  /\ task'[c].job = task[c].job /\ task'[c].key = task[c].key
               /\ task'[c].todo = task[c].todo /\ task'[c].then = task[c].then
               /\ task'[c].saw = task[c].saw /\ task'[c].at = "release"
               /\ \A d \in Clients : d # c => task'[d] = task[d]
    <3>1. At(c, "release")
      BY <2>1 DEF Look
    <3>. QED
      BY <3>1, TaskType DEF At, Do
  <2>2. ASSUME row[j] \in Active, NEW found \in Readings(j),
               Do(c, [task[c] EXCEPT !.found = found,
                        !.at = IF found = "none" /\ task[c].observe
                               THEN "inspect" ELSE "settle"])
        PROVE  /\ task'[c].job = task[c].job /\ task'[c].key = task[c].key
               /\ task'[c].todo = task[c].todo /\ task'[c].then = task[c].then
               /\ task'[c].saw = task[c].saw
               /\ task'[c].at \in {"inspect", "settle"}
               /\ task'[c].found \in Results => result[j] = task'[c].found
               /\ \A d \in Clients : d # c => task'[d] = task[d]
    BY <2>2, TaskType DEF Do, Readings, Results
  <2>3. UNCHANGED <<rowVars, guestVars, lockVars>> /\ task[c].at = "look"
    BY DEF Look
  <2>. QED
    BY <2>1, <2>2, <2>3 DEF Look, rowVars, guestVars, lockVars
<1>2. TypeOK'
  <2>1. task' \in [Clients -> Tasks]
    <3>1. CASE row[j] \notin Active
      BY <3>1, AtType DEF Look, Ats
    <3>2. ASSUME NEW found \in Readings(j),
                 Do(c, [task[c] EXCEPT !.found = found,
                          !.at = IF found = "none" /\ task[c].observe
                                 THEN "inspect" ELSE "settle"])
          PROVE  task' \in [Clients -> Tasks]
      <4>. DEFINE e == [task[c] EXCEPT !.found = found,
                          !.at = IF found = "none" /\ task[c].observe
                                 THEN "inspect" ELSE "settle"]
      <4>1. e \in Tasks
        <5>1. found \in Results \cup {"none", "unreadable"}
          BY DEF Readings, IInv, TypeOK
        <5>2. {"inspect", "settle"} \subseteq Ats /\ task[c] \in Tasks
          BY TaskType DEF Ats
        <5>. QED
          BY <5>1, <5>2 DEF Tasks
      <4>2. task' = [task EXCEPT ![c] = e]
        BY <3>2 DEF Do
      <4>. HIDE DEF e
      <4>. QED
        BY <4>1, <4>2, TaskType
    <3>. QED
      BY <3>1, <3>2 DEF Look
  <2>. QED
    BY <2>1 DEF Look, IInv, TypeOK, rowVars, guestVars, lockVars
<1>3. LockInv'
  BY <1>1, TaskType, JobsAssumption DEF IInv, LockInv, Submitting
<1>4. RowInv'
  BY <1>1, TaskType, JobsAssumption
     DEF IInv, TypeOK, Submitting, WithJob, Active, Outcome, Alive, Running,
         Reachable, RowInv, LockInv
<1>5. \A i \in Jobs : task'[c].job = i =>
         /\ task'[c].at = "release" => Over(i)
         /\ task'[c].at \in {"look", "inspect"} => task'[c].saw = 0
         /\ task'[c].at = "settle" /\ task'[c].found \in Results => result[i] = task'[c].found
         /\ task'[c].at \in {"recheck", "settle"}
              /\ task'[c].saw \notin {0, Unknown, born[i]} => ~Reachable(i)
  BY <1>1, TaskType, JobsAssumption
     DEF IInv, LookInv, ServiceInv, RowInv, Active, TypeOK, WithJob, Outcome
<1>. QED
  BY <1>1, <1>2, <1>3, <1>4, <1>5, JobsStay DEF Submitting

(* Another boot, or none, means that this one is gone.                     *)
LEMMA InspectStep ==
  ASSUME IInv, NEW c \in Clients, NEW j \in Jobs, task[c].job = j, Inspect(c)
  PROVE  IInv'
<1>1. /\ task[c].at = "inspect"
      /\ task'[c].job = task[c].job /\ task'[c].key = task[c].key
      /\ task'[c].todo = task[c].todo /\ task'[c].then = task[c].then
      /\ task'[c].at = "recheck"
      /\ task'[c].saw \notin {0, Unknown, born[j]} => ~Reachable(j)
      /\ \A d \in Clients : d # c => task'[d] = task[d]
      /\ UNCHANGED <<row, phase, key, asked, born, service, result, boot, up, reserved, host, guard>>
  BY TaskType, JobsAssumption
     DEF Inspect, IInv, TypeOK, Do, Reachable, Gone, rowVars, guestVars,
         lockVars
<1>2. TypeOK'
  <2>1. task' \in [Clients -> Tasks]
    <3>1. PICK saw \in {IF up THEN boot ELSE Gone} \cup IF Glitches THEN {Unknown} ELSE {} :
             Do(c, [task[c] EXCEPT !.at = "recheck", !.saw = saw])
      BY DEF Inspect
    <3>. DEFINE e == [task[c] EXCEPT !.at = "recheck", !.saw = saw]
    <3>2. saw \in 0..Gone
      BY JobsAssumption DEF IInv, TypeOK, Gone, Unknown
    <3>3. e \in Tasks
      BY <3>2, TaskType DEF Tasks, Ats
    <3>4. task' = [task EXCEPT ![c] = e]
      BY <3>1 DEF Do
    <3>. HIDE DEF e
    <3>. QED
      BY <3>3, <3>4, TaskType
  <2>. QED
    BY <2>1 DEF Inspect, IInv, TypeOK, rowVars, guestVars, lockVars
<1>3. LockInv'
  BY <1>1, TaskType, JobsAssumption DEF IInv, LockInv, Submitting
<1>4. RowInv'
  BY <1>1, TaskType, JobsAssumption
     DEF IInv, TypeOK, Submitting, WithJob, Active, Outcome, Alive, Running,
         Reachable, RowInv, LockInv
<1>5. \A i \in Jobs : task'[c].job = i =>
         /\ task'[c].at = "release" => Over(i)
         /\ task'[c].at \in {"look", "inspect"} => task'[c].saw = 0
         /\ task'[c].at = "settle" /\ task'[c].found \in Results => result[i] = task'[c].found
         /\ task'[c].at \in {"recheck", "settle"}
              /\ task'[c].saw \notin {0, Unknown, born[i]} => ~Reachable(i)
  BY <1>1, TaskType, JobsAssumption
     DEF IInv, LookInv, ServiceInv, RowInv, Active, TypeOK
<1>. QED
  BY <1>1, <1>2, <1>3, <1>4, <1>5, JobsStay DEF Submitting

(* A result that is there stays.                                           *)
LEMMA RecheckStep ==
  ASSUME IInv, NEW c \in Clients, NEW j \in Jobs, task[c].job = j, Recheck(c)
  PROVE  IInv'
<1>1. /\ task[c].at = "recheck"
      /\ task'[c].job = task[c].job /\ task'[c].key = task[c].key
      /\ task'[c].todo = task[c].todo /\ task'[c].then = task[c].then
      /\ task'[c].at = "settle" /\ task'[c].saw = task[c].saw
      /\ task'[c].found \in Results => result[j] = task'[c].found
      /\ \A d \in Clients : d # c => task'[d] = task[d]
      /\ UNCHANGED <<row, phase, key, asked, born, service, result, boot, up, reserved, host, guard>>
  BY TaskType, JobsAssumption
     DEF Recheck, IInv, TypeOK, Do, Readings, Results, rowVars, guestVars,
         lockVars
<1>2. TypeOK'
  <2>1. task' \in [Clients -> Tasks]
    <3>1. PICK found \in Readings(j) :
             Do(c, [task[c] EXCEPT !.at = "settle", !.found = found])
      BY DEF Recheck
    <3>. DEFINE e == [task[c] EXCEPT !.at = "settle", !.found = found]
    <3>2. e \in Tasks
      <4>1. found \in Results \cup {"none", "unreadable"}
        BY DEF Readings, IInv, TypeOK
      <4>2. "settle" \in Ats /\ task[c] \in Tasks
        BY TaskType DEF Ats
      <4>. QED
        BY <4>1, <4>2 DEF Tasks
    <3>3. task' = [task EXCEPT ![c] = e]
      BY <3>1 DEF Do
    <3>. HIDE DEF e
    <3>. QED
      BY <3>2, <3>3, TaskType
  <2>. QED
    BY <2>1 DEF Recheck, IInv, TypeOK, rowVars, guestVars, lockVars
<1>3. LockInv'
  BY <1>1, TaskType, JobsAssumption DEF IInv, LockInv, Submitting
<1>4. RowInv'
  BY <1>1, TaskType, JobsAssumption
     DEF IInv, TypeOK, Submitting, WithJob, Active, Outcome, Alive, Running,
         Reachable, RowInv, LockInv
<1>5. \A i \in Jobs : task'[c].job = i =>
         /\ task'[c].at = "release" => Over(i)
         /\ task'[c].at \in {"look", "inspect"} => task'[c].saw = 0
         /\ task'[c].at = "settle" /\ task'[c].found \in Results => result[i] = task'[c].found
         /\ task'[c].at \in {"recheck", "settle"}
              /\ task'[c].saw \notin {0, Unknown, born[i]} => ~Reachable(i)
  BY <1>1, TaskType, JobsAssumption
     DEF IInv, LookInv, ServiceInv, RowInv, Active, TypeOK
<1>. QED
  BY <1>1, <1>2, <1>3, <1>4, <1>5, JobsStay DEF Submitting

(* The row is terminal already: the command is over.                       *)
LEMMA SettleLateStep ==
  ASSUME IInv, NEW c \in Clients, NEW j \in Jobs, task[c].job = j,
         task[c].at = "settle",
         row[j] \notin Active /\ row' = row /\ phase' = phase,
         task'[c].at = "release",
         task'[c].job = task[c].job /\ task'[c].key = task[c].key,
         task'[c].todo = task[c].todo /\ task'[c].then = task[c].then,
         task'[c].saw = task[c].saw,
         \A d \in Clients : d # c => task'[d] = task[d],
         UNCHANGED <<key, asked, born, service, result, boot, up, reserved, host, guard>>,
         TypeOK'
  PROVE  IInv'
<1>3. LockInv'
  BY TaskType, JobsAssumption DEF IInv, LockInv, Submitting
<1>4. RowInv'
  <2>0. \A i \in Jobs : row[i] # "none" => row'[i] # "none"
    BY TaskType, JobsAssumption DEF IInv, TypeOK, Active, Outcome
  <2>1. \A i \in Jobs : row'[i] = "none" => key'[i] = NoKey /\ service'[i] = "absent" /\ result'[i] = "none"
    BY TaskType, JobsAssumption, <2>0 DEF IInv, TypeOK, RowInv, Active, Outcome
  <2>2. \A i \in Jobs : phase'[i] = "outcome_unknown" => row'[i] = "failed"
    BY TaskType, JobsAssumption DEF IInv, TypeOK, RowInv, Active, Outcome
  <2>3. \A d \in Clients : task'[d].at \in WithJob => task'[d].job \in Jobs /\ row'[task'[d].job] # "none"
    BY TaskType, JobsAssumption, <2>0 DEF IInv, RowInv, WithJob, Submitting
  <2>4. \A d \in Clients : \A i \in task'[d].todo : row'[i] # "none"
    <3>1. \A d \in Clients : task'[d].todo \subseteq task[d].todo
      BY TaskType, JobsAssumption
    <3>2. \A d \in Clients : task[d].todo \subseteq Jobs
      BY TaskType DEF Tasks
    <3>. QED
      BY <2>0, <3>1, <3>2 DEF IInv, RowInv
  <2>5. \A d \in Clients : /\ task'[d].at \in {"reconcile", "admit", "guard", "commit"}
                              \/ task'[d].then = "reconcile" => task'[d].key \in Keys
                           /\ task'[d].at = "commit" => task'[d].saw \in 1..boot'
    BY TaskType, JobsAssumption DEF IInv, RowInv
  <2>. QED
    BY <2>1, <2>2, <2>3, <2>4, <2>5 DEF RowInv
<1>5. \A i \in Jobs : row[i] # "none" =>
         /\ ~Reachable(i) => ~Reachable(i)'
         /\ Over(i) => Over(i)'
  BY TaskType, JobsAssumption
     DEF IInv, TypeOK, Submitting, WithJob, Active, Outcome, Alive, Running,
         Reachable, Over, MayLaunch, RowInv, ServiceInv, LockInv, SubmittedBy
<1>6. ServiceInv'
  <2>1. \A i \in Jobs : born'[i] <= boot' /\ (Running(i)' => Reachable(i)')
    BY TaskType, JobsAssumption
       DEF IInv, TypeOK, Submitting, WithJob, Active, Outcome, Alive, Running,
           Reachable, ServiceInv, MayLaunch, RowInv
  <2>2. \A i \in Jobs : result'[i] # "none" => service'[i] \in {"failed", "gone"}
    BY TaskType, JobsAssumption
       DEF IInv, TypeOK, Submitting, WithJob, Active, Outcome, Alive, Running,
           Reachable, ServiceInv, MayLaunch
  <2>3. \A i \in Jobs : row'[i] \in Outcome => Over(i)'
    BY <1>5, TaskType, JobsAssumption
       DEF IInv, TypeOK, Submitting, WithJob, Active, Outcome, Alive, Running,
           Reachable, ServiceInv, Over, MayLaunch, SubmittedBy, LockInv, RowInv
  <2>4. \A d \in Clients, i \in Jobs : MayLaunch(d, i)' => service'[i] = "absent" /\ result'[i] = "none"
    BY TaskType, JobsAssumption
       DEF IInv, TypeOK, Submitting, WithJob, Active, Outcome, Alive, Running,
           Reachable, ServiceInv, MayLaunch, LockInv, RowInv
  <2>5. \A d \in Clients, i \in Jobs : SubmittedBy(d, i)' => phase'[i] # "outcome_unknown"
    BY TaskType, JobsAssumption
       DEF IInv, TypeOK, Submitting, WithJob, Active, Outcome, Alive, Running,
           Reachable, ServiceInv, SubmittedBy, LockInv, RowInv
  <2>. QED
    BY <2>1, <2>2, <2>3, <2>4, <2>5 DEF ServiceInv
<1>7. LookInv'
  BY <1>5, TaskType, JobsAssumption
     DEF IInv, LookInv, RowInv, ServiceInv, WithJob, Submitting, Active,
         Outcome, Alive, TypeOK, MayLaunch
<1>8. SlotInv'
  BY TaskType, JobsAssumption
     DEF IInv, TypeOK, Submitting, WithJob, Active, Outcome, Alive, Running,
         Reachable, SlotInv, LockInv, ServiceInv, RowInv, MayLaunch,
         SubmittedBy, LookInv, Over
<1>9. OutcomeInv'
  BY TaskType, JobsAssumption
     DEF IInv, TypeOK, Submitting, WithJob, Active, Outcome, Alive, Running,
         Reachable, OutcomeInv, ServiceInv, RowInv, MayLaunch
<1>. QED
  BY <1>3, <1>4, <1>6, <1>7, <1>8, <1>9 DEF IInv

(* The result of a command, or the end of its boot, ends it.               *)
LEMMA SettleEndStep ==
  ASSUME IInv, NEW c \in Clients, NEW j \in Jobs, task[c].job = j,
         task[c].at = "settle",
         row[j] \in Active /\ row'[j] \in Outcome /\ phase'[j] # "outcome_unknown",
         row'[j] = "success" => result[j] = "success",
         row'[j] = "cancelled" => result[j] = "killed" /\ asked[j],
         result[j] # "none" \/ ~Reachable(j),
         \A i \in Jobs : i # j => row'[i] = row[i],
         \A i \in Jobs : i # j => phase'[i] = phase[i],
         task'[c].at = "release",
         task'[c].job = task[c].job /\ task'[c].key = task[c].key,
         task'[c].todo = task[c].todo /\ task'[c].then = task[c].then,
         task'[c].saw = task[c].saw,
         \A d \in Clients : d # c => task'[d] = task[d],
         UNCHANGED <<key, asked, born, service, result, boot, up, reserved, host, guard>>,
         TypeOK'
  PROVE  IInv'
<1>3. LockInv'
  BY TaskType, JobsAssumption DEF IInv, LockInv, Submitting
<1>4. RowInv'
  <2>0. \A i \in Jobs : row[i] # "none" => row'[i] # "none"
    BY TaskType, JobsAssumption DEF IInv, TypeOK, Active, Outcome
  <2>1. \A i \in Jobs : row'[i] = "none" => key'[i] = NoKey /\ service'[i] = "absent" /\ result'[i] = "none"
    BY TaskType, JobsAssumption, <2>0 DEF IInv, TypeOK, RowInv, Active, Outcome
  <2>2. \A i \in Jobs : phase'[i] = "outcome_unknown" => row'[i] = "failed"
    BY TaskType, JobsAssumption DEF IInv, TypeOK, RowInv, Active, Outcome
  <2>3. \A d \in Clients : task'[d].at \in WithJob => task'[d].job \in Jobs /\ row'[task'[d].job] # "none"
    BY TaskType, JobsAssumption, <2>0 DEF IInv, RowInv, WithJob, Submitting
  <2>4. \A d \in Clients : \A i \in task'[d].todo : row'[i] # "none"
    <3>1. \A d \in Clients : task'[d].todo \subseteq task[d].todo
      BY TaskType, JobsAssumption
    <3>2. \A d \in Clients : task[d].todo \subseteq Jobs
      BY TaskType DEF Tasks
    <3>. QED
      BY <2>0, <3>1, <3>2 DEF IInv, RowInv
  <2>5. \A d \in Clients : /\ task'[d].at \in {"reconcile", "admit", "guard", "commit"}
                              \/ task'[d].then = "reconcile" => task'[d].key \in Keys
                           /\ task'[d].at = "commit" => task'[d].saw \in 1..boot'
    BY TaskType, JobsAssumption DEF IInv, RowInv
  <2>. QED
    BY <2>1, <2>2, <2>3, <2>4, <2>5 DEF RowInv
<1>5. \A i \in Jobs : row[i] # "none" =>
         /\ ~Reachable(i) => ~Reachable(i)'
         /\ Over(i) => Over(i)'
  BY TaskType, JobsAssumption
     DEF IInv, TypeOK, Submitting, WithJob, Active, Outcome, Alive, Running,
         Reachable, Over, MayLaunch, RowInv, ServiceInv, LockInv, SubmittedBy
<1>6. ServiceInv'
  <2>1. \A i \in Jobs : born'[i] <= boot' /\ (Running(i)' => Reachable(i)')
    BY TaskType, JobsAssumption
       DEF IInv, TypeOK, Submitting, WithJob, Active, Outcome, Alive, Running,
           Reachable, ServiceInv, MayLaunch, RowInv
  <2>2. \A i \in Jobs : result'[i] # "none" => service'[i] \in {"failed", "gone"}
    BY TaskType, JobsAssumption
       DEF IInv, TypeOK, Submitting, WithJob, Active, Outcome, Alive, Running,
           Reachable, ServiceInv, MayLaunch
  <2>3. \A i \in Jobs : row'[i] \in Outcome => Over(i)'
    BY <1>5, TaskType, JobsAssumption
       DEF IInv, TypeOK, Submitting, WithJob, Active, Outcome, Alive, Running,
           Reachable, ServiceInv, Over, MayLaunch, SubmittedBy, LockInv, RowInv
  <2>4. \A d \in Clients, i \in Jobs : MayLaunch(d, i)' => service'[i] = "absent" /\ result'[i] = "none"
    BY TaskType, JobsAssumption
       DEF IInv, TypeOK, Submitting, WithJob, Active, Outcome, Alive, Running,
           Reachable, ServiceInv, MayLaunch, LockInv, RowInv
  <2>5. \A d \in Clients, i \in Jobs : SubmittedBy(d, i)' => phase'[i] # "outcome_unknown"
    BY TaskType, JobsAssumption
       DEF IInv, TypeOK, Submitting, WithJob, Active, Outcome, Alive, Running,
           Reachable, ServiceInv, SubmittedBy, LockInv, RowInv
  <2>. QED
    BY <2>1, <2>2, <2>3, <2>4, <2>5 DEF ServiceInv
<1>7. LookInv'
  BY <1>6, <1>5, TaskType, JobsAssumption
     DEF IInv, LookInv, RowInv, ServiceInv, WithJob, Submitting, Active,
         Outcome, Alive, TypeOK, MayLaunch
<1>8. SlotInv'
  BY TaskType, JobsAssumption
     DEF IInv, TypeOK, Submitting, WithJob, Active, Outcome, Alive, Running,
         Reachable, SlotInv, LockInv, ServiceInv, RowInv, MayLaunch,
         SubmittedBy, LookInv, Over
<1>9. OutcomeInv'
  BY TaskType, JobsAssumption
     DEF IInv, TypeOK, Submitting, WithJob, Active, Outcome, Alive, Running,
         Reachable, OutcomeInv, ServiceInv, RowInv, MayLaunch
<1>. QED
  BY <1>3, <1>4, <1>6, <1>7, <1>8, <1>9 DEF IInv

(* The command goes on, and the caller has its answer.                     *)
LEMMA SettleAnsweredStep ==
  ASSUME IInv, NEW c \in Clients, NEW j \in Jobs, task[c].job = j,
         task[c].at = "settle",
         row[j] \in Active /\ row'[j] = row[j],
         phase'[j] # "outcome_unknown",
         \A i \in Jobs : i # j => row'[i] = row[i],
         \A i \in Jobs : i # j => phase'[i] = phase[i],
         task'[c].at = "idle" /\ task'[c].then = "return" /\ task'[c].todo = {},
         \A d \in Clients : d # c => task'[d] = task[d],
         host' = (IF host = c THEN NoClient ELSE host),
         guard' = (IF guard = c THEN NoClient ELSE guard),
         UNCHANGED <<key, asked, born, service, result, boot, up, reserved>>,
         TypeOK'
  PROVE  IInv'
<1>3. LockInv'
  BY TaskType, JobsAssumption DEF IInv, LockInv, Submitting
<1>4. RowInv'
  <2>0. \A i \in Jobs : row[i] # "none" => row'[i] # "none"
    BY TaskType, JobsAssumption DEF IInv, TypeOK, Active, Outcome
  <2>1. \A i \in Jobs : row'[i] = "none" => key'[i] = NoKey /\ service'[i] = "absent" /\ result'[i] = "none"
    BY TaskType, JobsAssumption, <2>0 DEF IInv, TypeOK, RowInv, Active, Outcome
  <2>2. \A i \in Jobs : phase'[i] = "outcome_unknown" => row'[i] = "failed"
    BY TaskType, JobsAssumption DEF IInv, TypeOK, RowInv, Active, Outcome
  <2>3. \A d \in Clients : task'[d].at \in WithJob => task'[d].job \in Jobs /\ row'[task'[d].job] # "none"
    BY TaskType, JobsAssumption, <2>0 DEF IInv, RowInv, WithJob, Submitting
  <2>4. \A d \in Clients : \A i \in task'[d].todo : row'[i] # "none"
    <3>1. \A d \in Clients : task'[d].todo \subseteq task[d].todo
      BY TaskType, JobsAssumption
    <3>2. \A d \in Clients : task[d].todo \subseteq Jobs
      BY TaskType DEF Tasks
    <3>. QED
      BY <2>0, <3>1, <3>2 DEF IInv, RowInv
  <2>5. \A d \in Clients : /\ task'[d].at \in {"reconcile", "admit", "guard", "commit"}
                              \/ task'[d].then = "reconcile" => task'[d].key \in Keys
                           /\ task'[d].at = "commit" => task'[d].saw \in 1..boot'
    BY TaskType, JobsAssumption DEF IInv, RowInv
  <2>. QED
    BY <2>1, <2>2, <2>3, <2>4, <2>5 DEF RowInv
<1>5. \A i \in Jobs : row[i] # "none" =>
         /\ ~Reachable(i) => ~Reachable(i)'
         /\ Over(i) => Over(i)'
  BY TaskType, JobsAssumption
     DEF IInv, TypeOK, Submitting, WithJob, Active, Outcome, Alive, Running,
         Reachable, Over, MayLaunch, RowInv, ServiceInv, LockInv, SubmittedBy
<1>6. ServiceInv'
  <2>1. \A i \in Jobs : born'[i] <= boot' /\ (Running(i)' => Reachable(i)')
    BY TaskType, JobsAssumption
       DEF IInv, TypeOK, Submitting, WithJob, Active, Outcome, Alive, Running,
           Reachable, ServiceInv, MayLaunch, RowInv
  <2>2. \A i \in Jobs : result'[i] # "none" => service'[i] \in {"failed", "gone"}
    BY TaskType, JobsAssumption
       DEF IInv, TypeOK, Submitting, WithJob, Active, Outcome, Alive, Running,
           Reachable, ServiceInv, MayLaunch
  <2>3. \A i \in Jobs : row'[i] \in Outcome => Over(i)'
    BY <1>5, TaskType, JobsAssumption
       DEF IInv, TypeOK, Submitting, WithJob, Active, Outcome, Alive, Running,
           Reachable, ServiceInv, Over, MayLaunch, SubmittedBy, LockInv, RowInv
  <2>4. \A d \in Clients, i \in Jobs : MayLaunch(d, i)' => service'[i] = "absent" /\ result'[i] = "none"
    BY TaskType, JobsAssumption
       DEF IInv, TypeOK, Submitting, WithJob, Active, Outcome, Alive, Running,
           Reachable, ServiceInv, MayLaunch, LockInv, RowInv
  <2>5. \A d \in Clients, i \in Jobs : SubmittedBy(d, i)' => phase'[i] # "outcome_unknown"
    BY TaskType, JobsAssumption
       DEF IInv, TypeOK, Submitting, WithJob, Active, Outcome, Alive, Running,
           Reachable, ServiceInv, SubmittedBy, LockInv, RowInv
  <2>. QED
    BY <2>1, <2>2, <2>3, <2>4, <2>5 DEF ServiceInv
<1>7. LookInv'
  BY <1>5, TaskType, JobsAssumption
     DEF IInv, LookInv, RowInv, ServiceInv, WithJob, Submitting, Active,
         Outcome, Alive, TypeOK, MayLaunch
<1>8. SlotInv'
  BY TaskType, JobsAssumption
     DEF IInv, TypeOK, Submitting, WithJob, Active, Outcome, Alive, Running,
         Reachable, SlotInv, LockInv, ServiceInv, RowInv, MayLaunch,
         SubmittedBy, LookInv, Over
<1>9. OutcomeInv'
  BY TaskType, JobsAssumption
     DEF IInv, TypeOK, Submitting, WithJob, Active, Outcome, Alive, Running,
         Reachable, OutcomeInv, ServiceInv, RowInv, MayLaunch
<1>. QED
  BY <1>3, <1>4, <1>6, <1>7, <1>8, <1>9 DEF IInv

(* The command goes on, and so does the caller.                            *)
LEMMA SettleGoesOnStep ==
  ASSUME IInv, NEW c \in Clients, NEW j \in Jobs, task[c].job = j,
         task[c].at = "settle",
         row[j] \in Active /\ row'[j] = row[j],
         phase'[j] # "outcome_unknown",
         \A i \in Jobs : i # j => row'[i] = row[i],
         \A i \in Jobs : i # j => phase'[i] = phase[i],
         task'[c].at = task[c].then /\ task[c].then \in {"reconcile", "ask", "stop"},
         task'[c].job = task[c].job /\ task'[c].key = task[c].key,
         task'[c].todo = task[c].todo /\ task'[c].then = "return",
         \A d \in Clients : d # c => task'[d] = task[d],
         UNCHANGED <<host, guard>>,
         UNCHANGED <<key, asked, born, service, result, boot, up, reserved>>,
         TypeOK'
  PROVE  IInv'
<1>3. LockInv'
  BY TaskType, JobsAssumption DEF IInv, LockInv, Submitting
<1>4. RowInv'
  <2>0. \A i \in Jobs : row[i] # "none" => row'[i] # "none"
    BY TaskType, JobsAssumption DEF IInv, TypeOK, Active, Outcome
  <2>1. \A i \in Jobs : row'[i] = "none" => key'[i] = NoKey /\ service'[i] = "absent" /\ result'[i] = "none"
    BY TaskType, JobsAssumption, <2>0 DEF IInv, TypeOK, RowInv, Active, Outcome
  <2>2. \A i \in Jobs : phase'[i] = "outcome_unknown" => row'[i] = "failed"
    BY TaskType, JobsAssumption DEF IInv, TypeOK, RowInv, Active, Outcome
  <2>3. \A d \in Clients : task'[d].at \in WithJob => task'[d].job \in Jobs /\ row'[task'[d].job] # "none"
    BY TaskType, JobsAssumption, <2>0 DEF IInv, RowInv, WithJob, Submitting
  <2>4. \A d \in Clients : \A i \in task'[d].todo : row'[i] # "none"
    <3>1. \A d \in Clients : task'[d].todo \subseteq task[d].todo
      BY TaskType, JobsAssumption
    <3>2. \A d \in Clients : task[d].todo \subseteq Jobs
      BY TaskType DEF Tasks
    <3>. QED
      BY <2>0, <3>1, <3>2 DEF IInv, RowInv
  <2>5. \A d \in Clients : /\ task'[d].at \in {"reconcile", "admit", "guard", "commit"}
                              \/ task'[d].then = "reconcile" => task'[d].key \in Keys
                           /\ task'[d].at = "commit" => task'[d].saw \in 1..boot'
    BY TaskType, JobsAssumption DEF IInv, RowInv
  <2>. QED
    BY <2>1, <2>2, <2>3, <2>4, <2>5 DEF RowInv
<1>5. \A i \in Jobs : row[i] # "none" =>
         /\ ~Reachable(i) => ~Reachable(i)'
         /\ Over(i) => Over(i)'
  BY TaskType, JobsAssumption
     DEF IInv, TypeOK, Submitting, WithJob, Active, Outcome, Alive, Running,
         Reachable, Over, MayLaunch, RowInv, ServiceInv, LockInv, SubmittedBy
<1>6. ServiceInv'
  <2>1. \A i \in Jobs : born'[i] <= boot' /\ (Running(i)' => Reachable(i)')
    BY TaskType, JobsAssumption
       DEF IInv, TypeOK, Submitting, WithJob, Active, Outcome, Alive, Running,
           Reachable, ServiceInv, MayLaunch, RowInv
  <2>2. \A i \in Jobs : result'[i] # "none" => service'[i] \in {"failed", "gone"}
    BY TaskType, JobsAssumption
       DEF IInv, TypeOK, Submitting, WithJob, Active, Outcome, Alive, Running,
           Reachable, ServiceInv, MayLaunch
  <2>3. \A i \in Jobs : row'[i] \in Outcome => Over(i)'
    BY <1>5, TaskType, JobsAssumption
       DEF IInv, TypeOK, Submitting, WithJob, Active, Outcome, Alive, Running,
           Reachable, ServiceInv, Over, MayLaunch, SubmittedBy, LockInv, RowInv
  <2>4. \A d \in Clients, i \in Jobs : MayLaunch(d, i)' => service'[i] = "absent" /\ result'[i] = "none"
    BY TaskType, JobsAssumption
       DEF IInv, TypeOK, Submitting, WithJob, Active, Outcome, Alive, Running,
           Reachable, ServiceInv, MayLaunch, LockInv, RowInv
  <2>5. \A d \in Clients, i \in Jobs : SubmittedBy(d, i)' => phase'[i] # "outcome_unknown"
    BY TaskType, JobsAssumption
       DEF IInv, TypeOK, Submitting, WithJob, Active, Outcome, Alive, Running,
           Reachable, ServiceInv, SubmittedBy, LockInv, RowInv
  <2>. QED
    BY <2>1, <2>2, <2>3, <2>4, <2>5 DEF ServiceInv
<1>7. LookInv'
  BY <1>5, TaskType, JobsAssumption
     DEF IInv, LookInv, RowInv, ServiceInv, WithJob, Submitting, Active,
         Outcome, Alive, TypeOK, MayLaunch
<1>8. SlotInv'
  BY TaskType, JobsAssumption
     DEF IInv, TypeOK, Submitting, WithJob, Active, Outcome, Alive, Running,
         Reachable, SlotInv, LockInv, ServiceInv, RowInv, MayLaunch,
         SubmittedBy, LookInv, Over
<1>9. OutcomeInv'
  BY TaskType, JobsAssumption
     DEF IInv, TypeOK, Submitting, WithJob, Active, Outcome, Alive, Running,
         Reachable, OutcomeInv, ServiceInv, RowInv, MayLaunch
<1>. QED
  BY <1>3, <1>4, <1>6, <1>7, <1>8, <1>9 DEF IInv

(* What is released is over.                                               *)
LEMMA ReleaseAnsweredStep ==
  ASSUME IInv, NEW c \in Clients, NEW j \in Jobs, task[c].job = j,
         task[c].at = "release",
         \/ reserved' = reserved
         \/ guard = NoClient /\ reserved = j /\ reserved' = 0,
         task'[c].at = "idle" /\ task'[c].then = "return" /\ task'[c].todo = {},
         \A d \in Clients : d # c => task'[d] = task[d],
         host' = (IF host = c THEN NoClient ELSE host),
         guard' = (IF guard = c THEN NoClient ELSE guard),
         UNCHANGED <<row, phase, key, asked, born, service, result, boot, up>>,
         TypeOK'
  PROVE  IInv'
<1>3. LockInv'
  BY TaskType, JobsAssumption DEF IInv, LockInv, Submitting
<1>4. RowInv'
  BY TaskType, JobsAssumption
     DEF IInv, TypeOK, Submitting, WithJob, Active, Outcome, Alive, Running,
         Reachable, RowInv, LockInv
<1>5. \A i \in Jobs : row[i] # "none" =>
         /\ ~Reachable(i) => ~Reachable(i)'
         /\ Over(i) => Over(i)'
  BY TaskType, JobsAssumption
     DEF IInv, TypeOK, Submitting, WithJob, Active, Outcome, Alive, Running,
         Reachable, Over, MayLaunch, RowInv, ServiceInv, LockInv, SubmittedBy
<1>6. ServiceInv'
  <2>1. \A i \in Jobs : born'[i] <= boot' /\ (Running(i)' => Reachable(i)')
    BY TaskType, JobsAssumption
       DEF IInv, TypeOK, Submitting, WithJob, Active, Outcome, Alive, Running,
           Reachable, ServiceInv, MayLaunch, RowInv
  <2>2. \A i \in Jobs : result'[i] # "none" => service'[i] \in {"failed", "gone"}
    BY TaskType, JobsAssumption
       DEF IInv, TypeOK, Submitting, WithJob, Active, Outcome, Alive, Running,
           Reachable, ServiceInv, MayLaunch
  <2>3. \A i \in Jobs : row'[i] \in Outcome => Over(i)'
    BY <1>5, TaskType, JobsAssumption
       DEF IInv, TypeOK, Submitting, WithJob, Active, Outcome, Alive, Running,
           Reachable, ServiceInv, Over, MayLaunch, SubmittedBy, LockInv, RowInv
  <2>4. \A d \in Clients, i \in Jobs : MayLaunch(d, i)' => service'[i] = "absent" /\ result'[i] = "none"
    BY TaskType, JobsAssumption
       DEF IInv, TypeOK, Submitting, WithJob, Active, Outcome, Alive, Running,
           Reachable, ServiceInv, MayLaunch, LockInv, RowInv
  <2>5. \A d \in Clients, i \in Jobs : SubmittedBy(d, i)' => phase'[i] # "outcome_unknown"
    BY TaskType, JobsAssumption
       DEF IInv, TypeOK, Submitting, WithJob, Active, Outcome, Alive, Running,
           Reachable, ServiceInv, SubmittedBy, LockInv, RowInv
  <2>. QED
    BY <2>1, <2>2, <2>3, <2>4, <2>5 DEF ServiceInv
<1>7. LookInv'
  BY <1>5, TaskType, JobsAssumption
     DEF IInv, LookInv, RowInv, ServiceInv, WithJob, Submitting, Active,
         Outcome, Alive, TypeOK, MayLaunch
<1>8. SlotInv'
  BY TaskType, JobsAssumption
     DEF IInv, TypeOK, Submitting, WithJob, Active, Outcome, Alive, Running,
         Reachable, SlotInv, LockInv, ServiceInv, RowInv, MayLaunch,
         SubmittedBy, LookInv, Over
<1>9. OutcomeInv'
  BY TaskType, JobsAssumption
     DEF IInv, TypeOK, Submitting, WithJob, Active, Outcome, Alive, Running,
         Reachable, OutcomeInv, ServiceInv, RowInv, MayLaunch
<1>. QED
  BY <1>3, <1>4, <1>6, <1>7, <1>8, <1>9 DEF IInv

(* What is released is over, and the caller goes on.                       *)
LEMMA ReleaseGoesOnStep ==
  ASSUME IInv, NEW c \in Clients, NEW j \in Jobs, task[c].job = j,
         task[c].at = "release",
         \/ reserved' = reserved
         \/ guard = NoClient /\ reserved = j /\ reserved' = 0,
         task'[c].at = task[c].then /\ task[c].then \in {"reconcile", "ask", "stop"},
         task'[c].job = task[c].job /\ task'[c].key = task[c].key,
         task'[c].todo = task[c].todo /\ task'[c].then = "return",
         \A d \in Clients : d # c => task'[d] = task[d],
         UNCHANGED <<host, guard>>,
         UNCHANGED <<row, phase, key, asked, born, service, result, boot, up>>,
         TypeOK'
  PROVE  IInv'
<1>3. LockInv'
  BY TaskType, JobsAssumption DEF IInv, LockInv, Submitting
<1>4. RowInv'
  BY TaskType, JobsAssumption
     DEF IInv, TypeOK, Submitting, WithJob, Active, Outcome, Alive, Running,
         Reachable, RowInv, LockInv
<1>5. \A i \in Jobs : row[i] # "none" =>
         /\ ~Reachable(i) => ~Reachable(i)'
         /\ Over(i) => Over(i)'
  BY TaskType, JobsAssumption
     DEF IInv, TypeOK, Submitting, WithJob, Active, Outcome, Alive, Running,
         Reachable, Over, MayLaunch, RowInv, ServiceInv, LockInv, SubmittedBy
<1>6. ServiceInv'
  <2>1. \A i \in Jobs : born'[i] <= boot' /\ (Running(i)' => Reachable(i)')
    BY TaskType, JobsAssumption
       DEF IInv, TypeOK, Submitting, WithJob, Active, Outcome, Alive, Running,
           Reachable, ServiceInv, MayLaunch, RowInv
  <2>2. \A i \in Jobs : result'[i] # "none" => service'[i] \in {"failed", "gone"}
    BY TaskType, JobsAssumption
       DEF IInv, TypeOK, Submitting, WithJob, Active, Outcome, Alive, Running,
           Reachable, ServiceInv, MayLaunch
  <2>3. \A i \in Jobs : row'[i] \in Outcome => Over(i)'
    BY <1>5, TaskType, JobsAssumption
       DEF IInv, TypeOK, Submitting, WithJob, Active, Outcome, Alive, Running,
           Reachable, ServiceInv, Over, MayLaunch, SubmittedBy, LockInv, RowInv
  <2>4. \A d \in Clients, i \in Jobs : MayLaunch(d, i)' => service'[i] = "absent" /\ result'[i] = "none"
    BY TaskType, JobsAssumption
       DEF IInv, TypeOK, Submitting, WithJob, Active, Outcome, Alive, Running,
           Reachable, ServiceInv, MayLaunch, LockInv, RowInv
  <2>5. \A d \in Clients, i \in Jobs : SubmittedBy(d, i)' => phase'[i] # "outcome_unknown"
    BY TaskType, JobsAssumption
       DEF IInv, TypeOK, Submitting, WithJob, Active, Outcome, Alive, Running,
           Reachable, ServiceInv, SubmittedBy, LockInv, RowInv
  <2>. QED
    BY <2>1, <2>2, <2>3, <2>4, <2>5 DEF ServiceInv
<1>7. LookInv'
  BY <1>5, TaskType, JobsAssumption
     DEF IInv, LookInv, RowInv, ServiceInv, WithJob, Submitting, Active,
         Outcome, Alive, TypeOK, MayLaunch
<1>8. SlotInv'
  BY TaskType, JobsAssumption
     DEF IInv, TypeOK, Submitting, WithJob, Active, Outcome, Alive, Running,
         Reachable, SlotInv, LockInv, ServiceInv, RowInv, MayLaunch,
         SubmittedBy, LookInv, Over
<1>9. OutcomeInv'
  BY TaskType, JobsAssumption
     DEF IInv, TypeOK, Submitting, WithJob, Active, Outcome, Alive, Running,
         Reachable, OutcomeInv, ServiceInv, RowInv, MayLaunch
<1>. QED
  BY <1>3, <1>4, <1>6, <1>7, <1>8, <1>9 DEF IInv

(* A request to cancel stays.                                              *)
LEMMA AskStep ==
  ASSUME IInv, NEW c \in Clients, NEW j \in Jobs, task[c].job = j, Ask(c)
  PROVE  IInv'
<1>1. /\ task[c].at = "ask"
      /\ task'[c].at = "maintain"
      /\ task'[c].job = task[c].job /\ task'[c].key = task[c].key
      /\ task'[c].todo = task[c].todo /\ task'[c].then = task[c].then
      /\ task'[c].saw = task[c].saw
      /\ \A d \in Clients : d # c => task'[d] = task[d]
      /\ \A i \in Jobs : asked[i] => asked'[i]
      /\ UNCHANGED <<row, phase, key, born, service, result, boot, up, reserved, host, guard>>
  BY TaskType, JobsAssumption
     DEF Ask, IInv, TypeOK, At, Do, rowVars, guestVars, lockVars
<1>2. TypeOK'
  <2>1. task' \in [Clients -> Tasks]
    BY AtType DEF Ask, At, Do, Ats
  <2>. QED
    BY <2>1, <1>1, JobsAssumption
       DEF Ask, IInv, TypeOK, At, Do, Active, Outcome, Alive, Results, Phases,
           Jobs, rowVars, guestVars, lockVars
<1>3. LockInv'
  BY <1>1, TaskType, JobsAssumption DEF IInv, LockInv, Submitting
<1>4. RowInv'
  BY <1>1, TaskType, JobsAssumption
     DEF IInv, TypeOK, Submitting, WithJob, Active, Outcome, Alive, Running,
         Reachable, RowInv, LockInv
<1>5. \A i \in Jobs : row[i] # "none" =>
         /\ ~Reachable(i) => ~Reachable(i)'
         /\ Over(i) => Over(i)'
  BY <1>1, TaskType, JobsAssumption
     DEF IInv, TypeOK, Submitting, WithJob, Active, Outcome, Alive, Running,
         Reachable, Over, MayLaunch, RowInv, ServiceInv, LockInv, SubmittedBy
<1>6. ServiceInv'
  <2>1. \A i \in Jobs : born'[i] <= boot' /\ (Running(i)' => Reachable(i)')
    BY <1>1, TaskType, JobsAssumption
       DEF IInv, TypeOK, Submitting, WithJob, Active, Outcome, Alive, Running,
           Reachable, ServiceInv, MayLaunch, RowInv
  <2>2. \A i \in Jobs : result'[i] # "none" => service'[i] \in {"failed", "gone"}
    BY <1>1, TaskType, JobsAssumption
       DEF IInv, TypeOK, Submitting, WithJob, Active, Outcome, Alive, Running,
           Reachable, ServiceInv, MayLaunch
  <2>3. \A i \in Jobs : row'[i] \in Outcome => Over(i)'
    BY <1>5, <1>1, TaskType, JobsAssumption
       DEF IInv, TypeOK, Submitting, WithJob, Active, Outcome, Alive, Running,
           Reachable, ServiceInv, Over, MayLaunch, SubmittedBy, LockInv, RowInv
  <2>4. \A d \in Clients, i \in Jobs : MayLaunch(d, i)' => service'[i] = "absent" /\ result'[i] = "none"
    BY <1>1, TaskType, JobsAssumption
       DEF IInv, TypeOK, Submitting, WithJob, Active, Outcome, Alive, Running,
           Reachable, ServiceInv, MayLaunch, LockInv, RowInv
  <2>5. \A d \in Clients, i \in Jobs : SubmittedBy(d, i)' => phase'[i] # "outcome_unknown"
    BY <1>1, TaskType, JobsAssumption
       DEF IInv, TypeOK, Submitting, WithJob, Active, Outcome, Alive, Running,
           Reachable, ServiceInv, SubmittedBy, LockInv, RowInv
  <2>. QED
    BY <2>1, <2>2, <2>3, <2>4, <2>5 DEF ServiceInv
<1>7. LookInv'
  BY <1>5, <1>1, TaskType, JobsAssumption
     DEF IInv, LookInv, RowInv, ServiceInv, WithJob, Submitting, Active,
         Outcome, Alive, TypeOK, MayLaunch
<1>8. SlotInv'
  BY <1>1, TaskType, JobsAssumption
     DEF IInv, TypeOK, Submitting, WithJob, Active, Outcome, Alive, Running,
         Reachable, SlotInv, LockInv, ServiceInv, RowInv, MayLaunch,
         SubmittedBy, LookInv, Over
<1>9. OutcomeInv'
  BY <1>1, TaskType, JobsAssumption
     DEF IInv, TypeOK, Submitting, WithJob, Active, Outcome, Alive, Running,
         Reachable, OutcomeInv, ServiceInv, RowInv, MayLaunch
<1>. QED
  BY <1>2, <1>3, <1>4, <1>6, <1>7, <1>8, <1>9 DEF IInv

(* The maintenance lock was free.                                          *)
LEMMA MaintainStep ==
  ASSUME IInv, NEW c \in Clients, NEW j \in Jobs, task[c].job = j, Maintain(c)
  PROVE  IInv'
<1>1. /\ task[c].at = "maintain"
      /\ host = NoClient /\ host' = c
      /\ task'[c].at = "look" /\ task'[c].job = j
      /\ task'[c].then = "stop" /\ task'[c].todo = {} /\ task'[c].saw = 0
      /\ \A d \in Clients : d # c => task'[d] = task[d]
      /\ UNCHANGED <<row, phase, key, asked, born, service, result, boot, up, reserved, guard>>
  BY TaskType, JobsAssumption
     DEF Maintain, IInv, TypeOK, LookAt, Do, Idle, rowVars, guestVars, lockVars
<1>2. TypeOK'
  <2>1. task' \in [Clients -> Tasks]
    BY LookAtType DEF Maintain
  <2>. QED
    BY <2>1, <1>1, JobsAssumption
       DEF Maintain, IInv, TypeOK, LookAt, Do, Idle, Active, Outcome, Alive,
           Results, Phases, Jobs, rowVars, guestVars, lockVars
<1>3. LockInv'
  BY <1>1, TaskType, JobsAssumption DEF IInv, LockInv, Submitting
<1>4. RowInv'
  BY <1>1, TaskType, JobsAssumption
     DEF IInv, TypeOK, Submitting, WithJob, Active, Outcome, Alive, Running,
         Reachable, RowInv, LockInv
<1>5. \A i \in Jobs : task'[c].job = i =>
         /\ task'[c].at = "release" => Over(i)
         /\ task'[c].at \in {"look", "inspect"} => task'[c].saw = 0
         /\ task'[c].at = "settle" /\ task'[c].found \in Results => result[i] = task'[c].found
         /\ task'[c].at \in {"recheck", "settle"}
              /\ task'[c].saw \notin {0, Unknown, born[i]} => ~Reachable(i)
  BY <1>1, TaskType, JobsAssumption
     DEF IInv, LookInv, ServiceInv, RowInv, Active, TypeOK
<1>. QED
  BY <1>1, <1>2, <1>3, <1>4, <1>5, JobsStay DEF Submitting

(* The service runs on until it ends.                                      *)
LEMMA StopStep ==
  ASSUME IInv, NEW c \in Clients, NEW timedOut \in BOOLEAN, NEW j \in Jobs,
         task[c].job = j, Stop(c, timedOut)
  PROVE  IInv'
<1>1. /\ task[c].at = "stop"
      /\ \/ service'[j] = service[j]
         \/ service[j] = "active" /\ service'[j] = "stopping"
      /\ \A i \in Jobs : i # j => service'[i] = service[i]
      /\ task'[c].at = "look" /\ task'[c].job = j
      /\ task'[c].then = "return" /\ task'[c].todo = {} /\ task'[c].saw = 0
      /\ \A d \in Clients : d # c => task'[d] = task[d]
      /\ host' = (IF host = c THEN NoClient ELSE host)
      /\ guard' = (IF guard = c THEN NoClient ELSE guard)
      /\ UNCHANGED <<row, phase, key, asked, born, result, boot, up, reserved>>
  BY TaskType, JobsAssumption
     DEF Stop, IInv, TypeOK, LookAt, Drop, Do, Idle, rowVars, guestVars,
         lockVars
<1>2. TypeOK'
  <2>1. task' \in [Clients -> Tasks]
    BY LookAtType DEF Stop, Drop
  <2>. QED
    BY <2>1, <1>1, JobsAssumption
       DEF Stop, IInv, TypeOK, LookAt, Drop, Do, Idle, Active, Outcome, Alive,
           Results, Phases, Jobs, rowVars, guestVars, lockVars
<1>3. LockInv'
  BY <1>1, TaskType, JobsAssumption DEF IInv, LockInv, Submitting
<1>4. RowInv'
  BY <1>1, TaskType, JobsAssumption
     DEF IInv, TypeOK, Submitting, WithJob, Active, Outcome, Alive, Running,
         Reachable, RowInv, LockInv
<1>5. \A i \in Jobs : row[i] # "none" =>
         /\ ~Reachable(i) => ~Reachable(i)'
         /\ Over(i) => Over(i)'
  BY <1>1, TaskType, JobsAssumption
     DEF IInv, TypeOK, Submitting, WithJob, Active, Outcome, Alive, Running,
         Reachable, Over, MayLaunch, RowInv, ServiceInv, LockInv, SubmittedBy
<1>6. ServiceInv'
  <2>1. \A i \in Jobs : born'[i] <= boot' /\ (Running(i)' => Reachable(i)')
    BY <1>1, TaskType, JobsAssumption
       DEF IInv, TypeOK, Submitting, WithJob, Active, Outcome, Alive, Running,
           Reachable, ServiceInv, MayLaunch, RowInv
  <2>2. \A i \in Jobs : result'[i] # "none" => service'[i] \in {"failed", "gone"}
    BY <1>1, TaskType, JobsAssumption
       DEF IInv, TypeOK, Submitting, WithJob, Active, Outcome, Alive, Running,
           Reachable, ServiceInv, MayLaunch
  <2>3. \A i \in Jobs : row'[i] \in Outcome => Over(i)'
    BY <1>5, <1>1, TaskType, JobsAssumption
       DEF IInv, TypeOK, Submitting, WithJob, Active, Outcome, Alive, Running,
           Reachable, ServiceInv, Over, MayLaunch, SubmittedBy, LockInv, RowInv
  <2>4. \A d \in Clients, i \in Jobs : MayLaunch(d, i)' => service'[i] = "absent" /\ result'[i] = "none"
    BY <1>1, TaskType, JobsAssumption
       DEF IInv, TypeOK, Submitting, WithJob, Active, Outcome, Alive, Running,
           Reachable, ServiceInv, MayLaunch, LockInv, RowInv
  <2>5. \A d \in Clients, i \in Jobs : SubmittedBy(d, i)' => phase'[i] # "outcome_unknown"
    BY <1>1, TaskType, JobsAssumption
       DEF IInv, TypeOK, Submitting, WithJob, Active, Outcome, Alive, Running,
           Reachable, ServiceInv, SubmittedBy, LockInv, RowInv
  <2>. QED
    BY <2>1, <2>2, <2>3, <2>4, <2>5 DEF ServiceInv
<1>7. LookInv'
  BY <1>5, <1>1, TaskType, JobsAssumption
     DEF IInv, LookInv, RowInv, ServiceInv, WithJob, Submitting, Active,
         Outcome, Alive, TypeOK, MayLaunch
<1>8. SlotInv'
  BY <1>1, TaskType, JobsAssumption
     DEF IInv, TypeOK, Submitting, WithJob, Active, Outcome, Alive, Running,
         Reachable, SlotInv, LockInv, ServiceInv, RowInv, MayLaunch,
         SubmittedBy, LookInv, Over
<1>9. OutcomeInv'
  BY <1>1, TaskType, JobsAssumption
     DEF IInv, TypeOK, Submitting, WithJob, Active, Outcome, Alive, Running,
         Reachable, OutcomeInv, ServiceInv, RowInv, MayLaunch
<1>. QED
  BY <1>2, <1>3, <1>4, <1>6, <1>7, <1>8, <1>9 DEF IInv

(* The lock is kept.                                                       *)
LEMMA StopFindsNoneStep ==
  ASSUME IInv, NEW c \in Clients, NEW j \in Jobs, task[c].job = j, StopFindsNone(c)
  PROVE  IInv'
<1>1. /\ task[c].at = "stop"
      /\ task'[c].at = "absent"
      /\ task'[c].job = task[c].job /\ task'[c].key = task[c].key
      /\ task'[c].todo = task[c].todo /\ task'[c].then = task[c].then
      /\ task'[c].saw = task[c].saw
      /\ \A d \in Clients : d # c => task'[d] = task[d]
      /\ UNCHANGED <<row, phase, key, asked, born, service, result, boot, up, reserved, host, guard>>
  BY TaskType, JobsAssumption
     DEF StopFindsNone, IInv, TypeOK, At, Do, rowVars, guestVars, lockVars
<1>2. TypeOK'
  <2>1. task' \in [Clients -> Tasks]
    BY AtType DEF StopFindsNone, At, Do, Ats
  <2>. QED
    BY <2>1, <1>1, JobsAssumption
       DEF StopFindsNone, IInv, TypeOK, At, Do, Active, Outcome, Alive, Results,
           Phases, Jobs, rowVars, guestVars, lockVars
<1>3. LockInv'
  BY <1>1, TaskType, JobsAssumption DEF IInv, LockInv, Submitting
<1>4. RowInv'
  BY <1>1, TaskType, JobsAssumption
     DEF IInv, TypeOK, Submitting, WithJob, Active, Outcome, Alive, Running,
         Reachable, RowInv, LockInv
<1>5. \A i \in Jobs : task'[c].job = i =>
         /\ task'[c].at = "release" => Over(i)
         /\ task'[c].at \in {"look", "inspect"} => task'[c].saw = 0
         /\ task'[c].at = "settle" /\ task'[c].found \in Results => result[i] = task'[c].found
         /\ task'[c].at \in {"recheck", "settle"}
              /\ task'[c].saw \notin {0, Unknown, born[i]} => ~Reachable(i)
  BY <1>1, TaskType, JobsAssumption
     DEF IInv, LookInv, ServiceInv, RowInv, Active, TypeOK
<1>. QED
  BY <1>1, <1>2, <1>3, <1>4, <1>5, JobsStay DEF Submitting

(* Nothing is concluded.                                                   *)
LEMMA StopFailsStep ==
  ASSUME IInv, NEW c \in Clients, NEW timedOut \in BOOLEAN, NEW j \in Jobs,
         task[c].job = j, StopFails(c, timedOut)
  PROVE  IInv'
<1>1. /\ task[c].at = "stop"
      /\ task'[c].at = "look" /\ task'[c].job = j
      /\ task'[c].then = "return" /\ task'[c].todo = {} /\ task'[c].saw = 0
      /\ \A d \in Clients : d # c => task'[d] = task[d]
      /\ host' = (IF host = c THEN NoClient ELSE host)
      /\ guard' = (IF guard = c THEN NoClient ELSE guard)
      /\ UNCHANGED <<row, phase, key, asked, born, service, result, boot, up, reserved>>
  BY TaskType, JobsAssumption
     DEF StopFails, IInv, TypeOK, LookAt, Drop, Do, Idle, rowVars, guestVars,
         lockVars
<1>2. TypeOK'
  <2>1. task' \in [Clients -> Tasks]
    BY LookAtType DEF StopFails, Drop
  <2>. QED
    BY <2>1, <1>1, JobsAssumption
       DEF StopFails, IInv, TypeOK, LookAt, Drop, Do, Idle, Active, Outcome,
           Alive, Results, Phases, Jobs, rowVars, guestVars, lockVars
<1>3. LockInv'
  BY <1>1, TaskType, JobsAssumption DEF IInv, LockInv, Submitting
<1>4. RowInv'
  BY <1>1, TaskType, JobsAssumption
     DEF IInv, TypeOK, Submitting, WithJob, Active, Outcome, Alive, Running,
         Reachable, RowInv, LockInv
<1>5. \A i \in Jobs : task'[c].job = i =>
         /\ task'[c].at = "release" => Over(i)
         /\ task'[c].at \in {"look", "inspect"} => task'[c].saw = 0
         /\ task'[c].at = "settle" /\ task'[c].found \in Results => result[i] = task'[c].found
         /\ task'[c].at \in {"recheck", "settle"}
              /\ task'[c].saw \notin {0, Unknown, born[i]} => ~Reachable(i)
  BY <1>1, TaskType, JobsAssumption
     DEF IInv, LookInv, ServiceInv, RowInv, Active, TypeOK
<1>. QED
  BY <1>1, <1>2, <1>3, <1>4, <1>5, JobsStay DEF Submitting

(* Nobody is submitting while the maintenance lock is held.                *)
LEMMA WriteAbsentStep ==
  ASSUME IInv, NEW c \in Clients, NEW j \in Jobs, task[c].job = j, WriteAbsent(c)
  PROVE  IInv'
<1>1. /\ task[c].at = "absent"
      /\ row'[j] = "failed" /\ phase'[j] = "outcome_unknown"
      /\ \A i \in Jobs : i # j => row'[i] = row[i]
      /\ \A i \in Jobs : i # j => phase'[i] = phase[i]
      /\ task'[c].at = "release"
      /\ task'[c].job = task[c].job /\ task'[c].key = task[c].key
      /\ task'[c].todo = task[c].todo /\ task'[c].then = task[c].then
      /\ task'[c].saw = task[c].saw
      /\ \A d \in Clients : d # c => task'[d] = task[d]
      /\ UNCHANGED <<key, asked, born, service, result, boot, up, reserved, host, guard>>
  BY TaskType, JobsAssumption
     DEF WriteAbsent, IInv, TypeOK, Settled, At, Do, rowVars, guestVars,
         lockVars
<1>2. TypeOK'
  <2>1. task' \in [Clients -> Tasks]
    BY AtType DEF WriteAbsent, Settled, At, Do, Ats
  <2>. QED
    BY <2>1, <1>1, JobsAssumption
       DEF WriteAbsent, IInv, TypeOK, Settled, At, Do, Active, Outcome, Alive,
           Results, Phases, Jobs, rowVars, guestVars, lockVars
<1>3. LockInv'
  BY <1>1, TaskType, JobsAssumption DEF IInv, LockInv, Submitting
<1>4. RowInv'
  <2>0. \A i \in Jobs : row[i] # "none" => row'[i] # "none"
    BY <1>1, TaskType, JobsAssumption DEF IInv, TypeOK, Active, Outcome
  <2>1. \A i \in Jobs : row'[i] = "none" => key'[i] = NoKey /\ service'[i] = "absent" /\ result'[i] = "none"
    BY <1>1, TaskType, JobsAssumption, <2>0
       DEF IInv, TypeOK, RowInv, Active, Outcome
  <2>2. \A i \in Jobs : phase'[i] = "outcome_unknown" => row'[i] = "failed"
    BY <1>1, TaskType, JobsAssumption DEF IInv, TypeOK, RowInv, Active, Outcome
  <2>3. \A d \in Clients : task'[d].at \in WithJob => task'[d].job \in Jobs /\ row'[task'[d].job] # "none"
    BY <1>1, TaskType, JobsAssumption, <2>0
       DEF IInv, RowInv, WithJob, Submitting
  <2>4. \A d \in Clients : \A i \in task'[d].todo : row'[i] # "none"
    <3>1. \A d \in Clients : task'[d].todo \subseteq task[d].todo
      BY <1>1, TaskType, JobsAssumption
    <3>2. \A d \in Clients : task[d].todo \subseteq Jobs
      BY TaskType DEF Tasks
    <3>. QED
      BY <2>0, <3>1, <3>2 DEF IInv, RowInv
  <2>5. \A d \in Clients : /\ task'[d].at \in {"reconcile", "admit", "guard", "commit"}
                              \/ task'[d].then = "reconcile" => task'[d].key \in Keys
                           /\ task'[d].at = "commit" => task'[d].saw \in 1..boot'
    BY <1>1, TaskType, JobsAssumption DEF IInv, RowInv
  <2>. QED
    BY <2>1, <2>2, <2>3, <2>4, <2>5 DEF RowInv
<1>5. \A i \in Jobs : row[i] # "none" =>
         /\ ~Reachable(i) => ~Reachable(i)'
         /\ Over(i) => Over(i)'
  BY <1>1, TaskType, JobsAssumption
     DEF IInv, TypeOK, Submitting, WithJob, Active, Outcome, Alive, Running,
         Reachable, Over, MayLaunch, RowInv, ServiceInv, LockInv, SubmittedBy
<1>6. ServiceInv'
  <2>1. \A i \in Jobs : born'[i] <= boot' /\ (Running(i)' => Reachable(i)')
    BY <1>1, TaskType, JobsAssumption
       DEF IInv, TypeOK, Submitting, WithJob, Active, Outcome, Alive, Running,
           Reachable, ServiceInv, MayLaunch, RowInv
  <2>2. \A i \in Jobs : result'[i] # "none" => service'[i] \in {"failed", "gone"}
    BY <1>1, TaskType, JobsAssumption
       DEF IInv, TypeOK, Submitting, WithJob, Active, Outcome, Alive, Running,
           Reachable, ServiceInv, MayLaunch
  <2>3. \A i \in Jobs : row'[i] \in Outcome => Over(i)'
    BY <1>5, <1>1, TaskType, JobsAssumption
       DEF IInv, TypeOK, Submitting, WithJob, Active, Outcome, Alive, Running,
           Reachable, ServiceInv, Over, MayLaunch, SubmittedBy, LockInv, RowInv
  <2>4. \A d \in Clients, i \in Jobs : MayLaunch(d, i)' => service'[i] = "absent" /\ result'[i] = "none"
    BY <1>1, TaskType, JobsAssumption
       DEF IInv, TypeOK, Submitting, WithJob, Active, Outcome, Alive, Running,
           Reachable, ServiceInv, MayLaunch, LockInv, RowInv
  <2>5. \A d \in Clients, i \in Jobs : SubmittedBy(d, i)' => phase'[i] # "outcome_unknown"
    BY <1>1, TaskType, JobsAssumption
       DEF IInv, TypeOK, Submitting, WithJob, Active, Outcome, Alive, Running,
           Reachable, ServiceInv, SubmittedBy, LockInv, RowInv
  <2>. QED
    BY <2>1, <2>2, <2>3, <2>4, <2>5 DEF ServiceInv
<1>7. LookInv'
  BY <1>5, <1>1, TaskType, JobsAssumption
     DEF IInv, LookInv, RowInv, ServiceInv, WithJob, Submitting, Active,
         Outcome, Alive, TypeOK, MayLaunch, Over
<1>8. SlotInv'
  BY <1>1, TaskType, JobsAssumption
     DEF IInv, TypeOK, Submitting, WithJob, Active, Outcome, Alive, Running,
         Reachable, SlotInv, LockInv, ServiceInv, RowInv, MayLaunch,
         SubmittedBy, LookInv, Over
<1>9. OutcomeInv'
  BY <1>1, TaskType, JobsAssumption
     DEF IInv, TypeOK, Submitting, WithJob, Active, Outcome, Alive, Running,
         Reachable, OutcomeInv, ServiceInv, RowInv, MayLaunch
<1>. QED
  BY <1>2, <1>3, <1>4, <1>6, <1>7, <1>8, <1>9 DEF IInv

(* It was about to.                                                        *)
LEMMA ServiceStartsStep ==
  ASSUME IInv, NEW j \in Jobs, ServiceStarts(j)
  PROVE  IInv'
<1>1. /\ service[j] = "starting" /\ service'[j] = "active"
      /\ \A i \in Jobs : i # j => service'[i] = service[i]
      /\ UNCHANGED <<row, phase, key, asked, born, result, boot, up, reserved, host, guard, task>>
  BY TaskType, JobsAssumption
     DEF ServiceStarts, IInv, TypeOK, rowVars, guestVars, lockVars
<1>2. TypeOK'
  BY <1>1, JobsAssumption
     DEF ServiceStarts, IInv, TypeOK, Active, Outcome, Alive, Results, Jobs,
         rowVars, guestVars, lockVars
<1>3. LockInv'
  BY <1>1, TaskType, JobsAssumption DEF IInv, LockInv, Submitting
<1>4. RowInv'
  BY <1>1, TaskType, JobsAssumption
     DEF IInv, TypeOK, Submitting, WithJob, Active, Outcome, Alive, Running,
         Reachable, RowInv, LockInv
<1>5. \A i \in Jobs : row[i] # "none" =>
         /\ ~Reachable(i) => ~Reachable(i)'
         /\ Over(i) => Over(i)'
  BY <1>1, TaskType, JobsAssumption
     DEF IInv, TypeOK, Submitting, WithJob, Active, Outcome, Alive, Running,
         Reachable, Over, MayLaunch, RowInv, ServiceInv, LockInv, SubmittedBy
<1>6. ServiceInv'
  <2>1. \A i \in Jobs : born'[i] <= boot' /\ (Running(i)' => Reachable(i)')
    BY <1>1, TaskType, JobsAssumption
       DEF IInv, TypeOK, Submitting, WithJob, Active, Outcome, Alive, Running,
           Reachable, ServiceInv, MayLaunch, RowInv
  <2>2. \A i \in Jobs : result'[i] # "none" => service'[i] \in {"failed", "gone"}
    BY <1>1, TaskType, JobsAssumption
       DEF IInv, TypeOK, Submitting, WithJob, Active, Outcome, Alive, Running,
           Reachable, ServiceInv, MayLaunch
  <2>3. \A i \in Jobs : row'[i] \in Outcome => Over(i)'
    BY <1>5, <1>1, TaskType, JobsAssumption
       DEF IInv, TypeOK, Submitting, WithJob, Active, Outcome, Alive, Running,
           Reachable, ServiceInv, Over, MayLaunch, SubmittedBy, LockInv, RowInv
  <2>4. \A d \in Clients, i \in Jobs : MayLaunch(d, i)' => service'[i] = "absent" /\ result'[i] = "none"
    BY <1>1, TaskType, JobsAssumption
       DEF IInv, TypeOK, Submitting, WithJob, Active, Outcome, Alive, Running,
           Reachable, ServiceInv, MayLaunch, LockInv, RowInv
  <2>5. \A d \in Clients, i \in Jobs : SubmittedBy(d, i)' => phase'[i] # "outcome_unknown"
    BY <1>1, TaskType, JobsAssumption
       DEF IInv, TypeOK, Submitting, WithJob, Active, Outcome, Alive, Running,
           Reachable, ServiceInv, SubmittedBy, LockInv, RowInv
  <2>. QED
    BY <2>1, <2>2, <2>3, <2>4, <2>5 DEF ServiceInv
<1>7. LookInv'
  BY <1>5, <1>1, TaskType, JobsAssumption
     DEF IInv, LookInv, RowInv, ServiceInv, WithJob, Submitting, Active,
         Outcome, Alive, TypeOK, MayLaunch
<1>8. SlotInv'
  BY <1>1, TaskType, JobsAssumption
     DEF IInv, TypeOK, Submitting, WithJob, Active, Outcome, Alive, Running,
         Reachable, SlotInv, LockInv, ServiceInv, RowInv, MayLaunch,
         SubmittedBy, LookInv, Over
<1>9. OutcomeInv'
  BY <1>1, TaskType, JobsAssumption
     DEF IInv, TypeOK, Submitting, WithJob, Active, Outcome, Alive, Running,
         Reachable, OutcomeInv, ServiceInv, RowInv, MayLaunch
<1>. QED
  BY <1>2, <1>3, <1>4, <1>6, <1>7, <1>8, <1>9 DEF IInv

(* A service has no result before it ends.                                 *)
LEMMA ServiceEndsStep ==
  ASSUME IInv, NEW j \in Jobs, NEW outcome \in Results \cup {"none"}, ServiceEnds(j, outcome)
  PROVE  IInv'
<1>1. /\ service[j] \in Alive /\ service'[j] \in {"failed", "gone"}
      /\ result'[j] \in Results \cup {"none"}
      /\ \A i \in Jobs : i # j => service'[i] = service[i]
      /\ \A i \in Jobs : i # j => result'[i] = result[i]
      /\ UNCHANGED <<row, phase, key, asked, born, boot, up, reserved, host, guard, task>>
  BY TaskType, JobsAssumption
     DEF ServiceEnds, IInv, TypeOK, Results, rowVars, guestVars, lockVars
<1>2. TypeOK'
  BY <1>1, JobsAssumption
     DEF ServiceEnds, IInv, TypeOK, Results, Active, Outcome, Alive, Results,
         Jobs, rowVars, guestVars, lockVars
<1>3. LockInv'
  BY <1>1, TaskType, JobsAssumption DEF IInv, LockInv, Submitting
<1>4. RowInv'
  BY <1>1, TaskType, JobsAssumption
     DEF IInv, TypeOK, Submitting, WithJob, Active, Outcome, Alive, Running,
         Reachable, RowInv, LockInv
<1>5. \A i \in Jobs : row[i] # "none" =>
         /\ ~Reachable(i) => ~Reachable(i)'
         /\ Over(i) => Over(i)'
  BY <1>1, TaskType, JobsAssumption
     DEF IInv, TypeOK, Submitting, WithJob, Active, Outcome, Alive, Running,
         Reachable, Over, MayLaunch, RowInv, ServiceInv, LockInv, SubmittedBy
<1>6. ServiceInv'
  <2>1. \A i \in Jobs : born'[i] <= boot' /\ (Running(i)' => Reachable(i)')
    BY <1>1, TaskType, JobsAssumption
       DEF IInv, TypeOK, Submitting, WithJob, Active, Outcome, Alive, Running,
           Reachable, ServiceInv, MayLaunch, RowInv
  <2>2. \A i \in Jobs : result'[i] # "none" => service'[i] \in {"failed", "gone"}
    BY <1>1, TaskType, JobsAssumption
       DEF IInv, TypeOK, Submitting, WithJob, Active, Outcome, Alive, Running,
           Reachable, ServiceInv, MayLaunch
  <2>3. \A i \in Jobs : row'[i] \in Outcome => Over(i)'
    BY <1>5, <1>1, TaskType, JobsAssumption
       DEF IInv, TypeOK, Submitting, WithJob, Active, Outcome, Alive, Running,
           Reachable, ServiceInv, Over, MayLaunch, SubmittedBy, LockInv, RowInv
  <2>4. \A d \in Clients, i \in Jobs : MayLaunch(d, i)' => service'[i] = "absent" /\ result'[i] = "none"
    BY <1>1, TaskType, JobsAssumption
       DEF IInv, TypeOK, Submitting, WithJob, Active, Outcome, Alive, Running,
           Reachable, ServiceInv, MayLaunch, LockInv, RowInv
  <2>5. \A d \in Clients, i \in Jobs : SubmittedBy(d, i)' => phase'[i] # "outcome_unknown"
    BY <1>1, TaskType, JobsAssumption
       DEF IInv, TypeOK, Submitting, WithJob, Active, Outcome, Alive, Running,
           Reachable, ServiceInv, SubmittedBy, LockInv, RowInv
  <2>. QED
    BY <2>1, <2>2, <2>3, <2>4, <2>5 DEF ServiceInv
<1>7. LookInv'
  BY <1>5, <1>1, TaskType, JobsAssumption
     DEF IInv, LookInv, RowInv, ServiceInv, WithJob, Submitting, Active,
         Outcome, Alive, TypeOK, MayLaunch, Results, Reachable
<1>8. SlotInv'
  BY <1>1, TaskType, JobsAssumption
     DEF IInv, TypeOK, Submitting, WithJob, Active, Outcome, Alive, Running,
         Reachable, SlotInv, LockInv, ServiceInv, RowInv, MayLaunch,
         SubmittedBy, LookInv, Over
<1>9. OutcomeInv'
  BY <1>1, TaskType, JobsAssumption
     DEF IInv, TypeOK, Submitting, WithJob, Active, Outcome, Alive, Running,
         Reachable, OutcomeInv, ServiceInv, RowInv, MayLaunch
<1>. QED
  BY <1>2, <1>3, <1>4, <1>6, <1>7, <1>8, <1>9 DEF IInv

(* It never runs.                                                          *)
LEMMA OrphanEndsStep ==
  ASSUME IInv, NEW j \in Jobs, OrphanEnds(j)
  PROVE  IInv'
<1>1. /\ service[j] = "starting" /\ service'[j] = "absent"
      /\ \A i \in Jobs : i # j => service'[i] = service[i]
      /\ UNCHANGED <<row, phase, key, asked, born, result, boot, up, reserved, host, guard, task>>
  BY TaskType, JobsAssumption
     DEF OrphanEnds, IInv, TypeOK, rowVars, guestVars, lockVars
<1>2. TypeOK'
  BY <1>1, JobsAssumption
     DEF OrphanEnds, IInv, TypeOK, Active, Outcome, Alive, Results, Jobs,
         rowVars, guestVars, lockVars
<1>3. LockInv'
  BY <1>1, TaskType, JobsAssumption DEF IInv, LockInv, Submitting
<1>4. RowInv'
  BY <1>1, TaskType, JobsAssumption
     DEF IInv, TypeOK, Submitting, WithJob, Active, Outcome, Alive, Running,
         Reachable, RowInv, LockInv
<1>5. \A i \in Jobs : row[i] # "none" =>
         /\ ~Reachable(i) => ~Reachable(i)'
         /\ Over(i) => Over(i)'
  BY <1>1, TaskType, JobsAssumption
     DEF IInv, TypeOK, Submitting, WithJob, Active, Outcome, Alive, Running,
         Reachable, Over, MayLaunch, RowInv, ServiceInv, LockInv, SubmittedBy
<1>6. ServiceInv'
  <2>1. \A i \in Jobs : born'[i] <= boot' /\ (Running(i)' => Reachable(i)')
    BY <1>1, TaskType, JobsAssumption
       DEF IInv, TypeOK, Submitting, WithJob, Active, Outcome, Alive, Running,
           Reachable, ServiceInv, MayLaunch, RowInv
  <2>2. \A i \in Jobs : result'[i] # "none" => service'[i] \in {"failed", "gone"}
    BY <1>1, TaskType, JobsAssumption
       DEF IInv, TypeOK, Submitting, WithJob, Active, Outcome, Alive, Running,
           Reachable, ServiceInv, MayLaunch
  <2>3. \A i \in Jobs : row'[i] \in Outcome => Over(i)'
    BY <1>5, <1>1, TaskType, JobsAssumption
       DEF IInv, TypeOK, Submitting, WithJob, Active, Outcome, Alive, Running,
           Reachable, ServiceInv, Over, MayLaunch, SubmittedBy, LockInv, RowInv
  <2>4. \A d \in Clients, i \in Jobs : MayLaunch(d, i)' => service'[i] = "absent" /\ result'[i] = "none"
    BY <1>1, TaskType, JobsAssumption
       DEF IInv, TypeOK, Submitting, WithJob, Active, Outcome, Alive, Running,
           Reachable, ServiceInv, MayLaunch, LockInv, RowInv
  <2>5. \A d \in Clients, i \in Jobs : SubmittedBy(d, i)' => phase'[i] # "outcome_unknown"
    BY <1>1, TaskType, JobsAssumption
       DEF IInv, TypeOK, Submitting, WithJob, Active, Outcome, Alive, Running,
           Reachable, ServiceInv, SubmittedBy, LockInv, RowInv
  <2>. QED
    BY <2>1, <2>2, <2>3, <2>4, <2>5 DEF ServiceInv
<1>7. LookInv'
  BY <1>5, <1>1, TaskType, JobsAssumption
     DEF IInv, LookInv, RowInv, ServiceInv, WithJob, Submitting, Active,
         Outcome, Alive, TypeOK, MayLaunch
<1>8. SlotInv'
  BY <1>1, TaskType, JobsAssumption
     DEF IInv, TypeOK, Submitting, WithJob, Active, Outcome, Alive, Running,
         Reachable, SlotInv, LockInv, ServiceInv, RowInv, MayLaunch,
         SubmittedBy, LookInv, Over
<1>9. OutcomeInv'
  BY <1>1, TaskType, JobsAssumption
     DEF IInv, TypeOK, Submitting, WithJob, Active, Outcome, Alive, Running,
         Reachable, OutcomeInv, ServiceInv, RowInv, MayLaunch
<1>. QED
  BY <1>2, <1>3, <1>4, <1>6, <1>7, <1>8, <1>9 DEF IInv

(* What ran is gone, and cannot be reached again.                          *)
LEMMA ContainerStopsStep ==
  ASSUME IInv, NEW orderly \in BOOLEAN, ContainerStops(orderly)
  PROVE  IInv'
<1>1. /\ up /\ ~up' /\ boot' = boot
      /\ \A j \in Jobs : service'[j] \in {"absent", "gone"}
      /\ \A j \in Jobs : service[j] \in {"absent", "starting"} => service'[j] = "absent"
      /\ \A j \in Jobs : service[j] \notin {"absent", "starting"} => service'[j] = "gone"
      /\ \A j \in Jobs : service[j] \notin Alive => result'[j] = result[j]
      /\ UNCHANGED <<row, phase, key, asked, born, reserved, host, guard, task>>
  BY TaskType, JobsAssumption
     DEF ContainerStops, IInv, TypeOK, rowVars, guestVars, lockVars
<1>2. TypeOK'
  <2>1. boot' \in 1..MaxStops /\ up' = FALSE
    BY JobsAssumption DEF ContainerStops, IInv, TypeOK
  <2>2. service' \in [Jobs -> Alive \cup {"absent", "starting", "failed", "gone"}]
    BY DEF ContainerStops
  <2>3. result' \in [Jobs -> Results \cup {"none"}]
    BY DEF ContainerStops, IInv, TypeOK, Results
  <2>. QED
    BY <2>1, <2>2, <2>3 DEF ContainerStops, IInv, TypeOK, rowVars, lockVars
<1>3. LockInv'
  BY <1>1, TaskType, JobsAssumption DEF IInv, LockInv, Submitting
<1>4. RowInv'
  BY <1>1, TaskType, JobsAssumption
     DEF IInv, TypeOK, Submitting, WithJob, Active, Outcome, Alive, Running,
         Reachable, RowInv, LockInv
<1>5. \A i \in Jobs : row[i] # "none" =>
         /\ ~Reachable(i) => ~Reachable(i)'
         /\ Over(i) => Over(i)'
  BY <1>1, TaskType, JobsAssumption
     DEF IInv, TypeOK, Submitting, WithJob, Active, Outcome, Alive, Running,
         Reachable, Over, MayLaunch, RowInv, ServiceInv, LockInv, SubmittedBy
<1>6. ServiceInv'
  <2>1. \A i \in Jobs : born'[i] <= boot' /\ (Running(i)' => Reachable(i)')
    BY <1>1, TaskType, JobsAssumption
       DEF IInv, TypeOK, Submitting, WithJob, Active, Outcome, Alive, Running,
           Reachable, ServiceInv, MayLaunch, RowInv
  <2>2. \A i \in Jobs : result'[i] # "none" => service'[i] \in {"failed", "gone"}
    BY <1>1, TaskType, JobsAssumption
       DEF IInv, TypeOK, Submitting, WithJob, Active, Outcome, Alive, Running,
           Reachable, ServiceInv, MayLaunch
  <2>3. \A i \in Jobs : row'[i] \in Outcome => Over(i)'
    BY <1>5, <1>1, TaskType, JobsAssumption
       DEF IInv, TypeOK, Submitting, WithJob, Active, Outcome, Alive, Running,
           Reachable, ServiceInv, Over, MayLaunch, SubmittedBy, LockInv, RowInv
  <2>4. \A d \in Clients, i \in Jobs : MayLaunch(d, i)' => service'[i] = "absent" /\ result'[i] = "none"
    BY <1>1, TaskType, JobsAssumption
       DEF IInv, TypeOK, Submitting, WithJob, Active, Outcome, Alive, Running,
           Reachable, ServiceInv, MayLaunch, LockInv, RowInv
  <2>5. \A d \in Clients, i \in Jobs : SubmittedBy(d, i)' => phase'[i] # "outcome_unknown"
    BY <1>1, TaskType, JobsAssumption
       DEF IInv, TypeOK, Submitting, WithJob, Active, Outcome, Alive, Running,
           Reachable, ServiceInv, SubmittedBy, LockInv, RowInv
  <2>. QED
    BY <2>1, <2>2, <2>3, <2>4, <2>5 DEF ServiceInv
<1>7. LookInv'
  BY <1>5, <1>1, TaskType, JobsAssumption
     DEF IInv, LookInv, RowInv, ServiceInv, WithJob, Submitting, Active,
         Outcome, Alive, TypeOK, MayLaunch, Results, Reachable
<1>8. SlotInv'
  BY <1>1, TaskType, JobsAssumption
     DEF IInv, TypeOK, Submitting, WithJob, Active, Outcome, Alive, Running,
         Reachable, SlotInv, LockInv, ServiceInv, RowInv, MayLaunch,
         SubmittedBy, LookInv, Over
<1>9. OutcomeInv'
  BY <1>1, TaskType, JobsAssumption
     DEF IInv, TypeOK, Submitting, WithJob, Active, Outcome, Alive, Running,
         Reachable, OutcomeInv, ServiceInv, RowInv, MayLaunch
<1>. QED
  BY <1>2, <1>3, <1>4, <1>6, <1>7, <1>8, <1>9 DEF IInv

(* Another boot: what was out of reach stays so.                           *)
LEMMA ContainerStartsStep ==
  ASSUME IInv, ContainerStarts
  PROVE  IInv'
<1>1. /\ ~up /\ up' /\ boot' = boot + 1
      /\ UNCHANGED <<row, phase, key, asked, born, service, result, reserved, host, guard, task>>
  BY TaskType, JobsAssumption
     DEF ContainerStarts, IInv, TypeOK, rowVars, guestVars, lockVars
<1>2. TypeOK'
  BY <1>1, JobsAssumption
     DEF ContainerStarts, IInv, TypeOK, Active, Outcome, Alive, Results, Jobs,
         rowVars, guestVars, lockVars
<1>3. LockInv'
  BY <1>1, TaskType, JobsAssumption DEF IInv, LockInv, Submitting
<1>4. RowInv'
  BY <1>1, TaskType, JobsAssumption
     DEF IInv, TypeOK, Submitting, WithJob, Active, Outcome, Alive, Running,
         Reachable, RowInv, LockInv
<1>5. \A i \in Jobs : row[i] # "none" =>
         /\ ~Reachable(i) => ~Reachable(i)'
         /\ Over(i) => Over(i)'
  BY <1>1, TaskType, JobsAssumption
     DEF IInv, TypeOK, Submitting, WithJob, Active, Outcome, Alive, Running,
         Reachable, Over, MayLaunch, RowInv, ServiceInv, LockInv, SubmittedBy
<1>6. ServiceInv'
  <2>1. \A i \in Jobs : born'[i] <= boot' /\ (Running(i)' => Reachable(i)')
    BY <1>1, TaskType, JobsAssumption
       DEF IInv, TypeOK, Submitting, WithJob, Active, Outcome, Alive, Running,
           Reachable, ServiceInv, MayLaunch, RowInv
  <2>2. \A i \in Jobs : result'[i] # "none" => service'[i] \in {"failed", "gone"}
    BY <1>1, TaskType, JobsAssumption
       DEF IInv, TypeOK, Submitting, WithJob, Active, Outcome, Alive, Running,
           Reachable, ServiceInv, MayLaunch
  <2>3. \A i \in Jobs : row'[i] \in Outcome => Over(i)'
    BY <1>5, <1>1, TaskType, JobsAssumption
       DEF IInv, TypeOK, Submitting, WithJob, Active, Outcome, Alive, Running,
           Reachable, ServiceInv, Over, MayLaunch, SubmittedBy, LockInv, RowInv
  <2>4. \A d \in Clients, i \in Jobs : MayLaunch(d, i)' => service'[i] = "absent" /\ result'[i] = "none"
    BY <1>1, TaskType, JobsAssumption
       DEF IInv, TypeOK, Submitting, WithJob, Active, Outcome, Alive, Running,
           Reachable, ServiceInv, MayLaunch, LockInv, RowInv
  <2>5. \A d \in Clients, i \in Jobs : SubmittedBy(d, i)' => phase'[i] # "outcome_unknown"
    BY <1>1, TaskType, JobsAssumption
       DEF IInv, TypeOK, Submitting, WithJob, Active, Outcome, Alive, Running,
           Reachable, ServiceInv, SubmittedBy, LockInv, RowInv
  <2>. QED
    BY <2>1, <2>2, <2>3, <2>4, <2>5 DEF ServiceInv
<1>7. LookInv'
  BY <1>5, <1>1, TaskType, JobsAssumption
     DEF IInv, LookInv, RowInv, ServiceInv, WithJob, Submitting, Active,
         Outcome, Alive, TypeOK, MayLaunch
<1>8. SlotInv'
  BY <1>1, TaskType, JobsAssumption
     DEF IInv, TypeOK, Submitting, WithJob, Active, Outcome, Alive, Running,
         Reachable, SlotInv, LockInv, ServiceInv, RowInv, MayLaunch,
         SubmittedBy, LookInv, Over
<1>9. OutcomeInv'
  BY <1>1, TaskType, JobsAssumption
     DEF IInv, TypeOK, Submitting, WithJob, Active, Outcome, Alive, Running,
         Reachable, OutcomeInv, ServiceInv, RowInv, MayLaunch
<1>. QED
  BY <1>2, <1>3, <1>4, <1>6, <1>7, <1>8, <1>9 DEF IInv

(* The circuit says nothing of the jobs.                                   *)
LEMMA CircuitClearedStep ==
  ASSUME IInv, CircuitCleared
  PROVE  IInv'
<1>1. /\ UNCHANGED <<row, phase, key, asked, born, service, result, boot, up, reserved, host, guard, task>>
  BY TaskType, JobsAssumption
     DEF CircuitCleared, IInv, TypeOK, rowVars, guestVars, lockVars
<1>2. TypeOK'
  BY DEF CircuitCleared, IInv, TypeOK, rowVars, guestVars
<1>3. LockInv'
  BY <1>1, TaskType, JobsAssumption DEF IInv, LockInv, Submitting
<1>4. RowInv'
  BY <1>1, TaskType, JobsAssumption
     DEF IInv, TypeOK, Submitting, WithJob, Active, Outcome, Alive, Running,
         Reachable, RowInv, LockInv
<1>5. \A i \in Jobs : row[i] # "none" =>
         /\ ~Reachable(i) => ~Reachable(i)'
         /\ Over(i) => Over(i)'
  BY <1>1, TaskType, JobsAssumption
     DEF IInv, TypeOK, Submitting, WithJob, Active, Outcome, Alive, Running,
         Reachable, Over, MayLaunch, RowInv, ServiceInv, LockInv, SubmittedBy
<1>6. ServiceInv'
  <2>1. \A i \in Jobs : born'[i] <= boot' /\ (Running(i)' => Reachable(i)')
    BY <1>1, TaskType, JobsAssumption
       DEF IInv, TypeOK, Submitting, WithJob, Active, Outcome, Alive, Running,
           Reachable, ServiceInv, MayLaunch, RowInv
  <2>2. \A i \in Jobs : result'[i] # "none" => service'[i] \in {"failed", "gone"}
    BY <1>1, TaskType, JobsAssumption
       DEF IInv, TypeOK, Submitting, WithJob, Active, Outcome, Alive, Running,
           Reachable, ServiceInv, MayLaunch
  <2>3. \A i \in Jobs : row'[i] \in Outcome => Over(i)'
    BY <1>5, <1>1, TaskType, JobsAssumption
       DEF IInv, TypeOK, Submitting, WithJob, Active, Outcome, Alive, Running,
           Reachable, ServiceInv, Over, MayLaunch, SubmittedBy, LockInv, RowInv
  <2>4. \A d \in Clients, i \in Jobs : MayLaunch(d, i)' => service'[i] = "absent" /\ result'[i] = "none"
    BY <1>1, TaskType, JobsAssumption
       DEF IInv, TypeOK, Submitting, WithJob, Active, Outcome, Alive, Running,
           Reachable, ServiceInv, MayLaunch, LockInv, RowInv
  <2>5. \A d \in Clients, i \in Jobs : SubmittedBy(d, i)' => phase'[i] # "outcome_unknown"
    BY <1>1, TaskType, JobsAssumption
       DEF IInv, TypeOK, Submitting, WithJob, Active, Outcome, Alive, Running,
           Reachable, ServiceInv, SubmittedBy, LockInv, RowInv
  <2>. QED
    BY <2>1, <2>2, <2>3, <2>4, <2>5 DEF ServiceInv
<1>7. LookInv'
  BY <1>5, <1>1, TaskType, JobsAssumption
     DEF IInv, LookInv, RowInv, ServiceInv, WithJob, Submitting, Active,
         Outcome, Alive, TypeOK, MayLaunch
<1>8. SlotInv'
  BY <1>1, TaskType, JobsAssumption
     DEF IInv, TypeOK, Submitting, WithJob, Active, Outcome, Alive, Running,
         Reachable, SlotInv, LockInv, ServiceInv, RowInv, MayLaunch,
         SubmittedBy, LookInv, Over
<1>9. OutcomeInv'
  BY <1>1, TaskType, JobsAssumption
     DEF IInv, TypeOK, Submitting, WithJob, Active, Outcome, Alive, Running,
         Reachable, OutcomeInv, ServiceInv, RowInv, MayLaunch
<1>. QED
  BY <1>2, <1>3, <1>4, <1>6, <1>7, <1>8, <1>9 DEF IInv

(* The locks are released; what it started goes on.                        *)
LEMMA DiesStep ==
  ASSUME IInv, NEW c \in Clients, Dies(c)
  PROVE  IInv'
<1>1. /\ task'[c].at = "idle" /\ task'[c].then = "return" /\ task'[c].todo = {}
      /\ \A d \in Clients : d # c => task'[d] = task[d]
      /\ host' = (IF host = c THEN NoClient ELSE host)
      /\ guard' = (IF guard = c THEN NoClient ELSE guard)
      /\ UNCHANGED <<row, phase, key, asked, born, service, result, boot, up, reserved>>
  BY TaskType, JobsAssumption
     DEF Dies, IInv, TypeOK, Answered, Drop, Do, Idle, rowVars, guestVars,
         lockVars
<1>2. TypeOK'
  <2>1. task' \in [Clients -> Tasks]
    BY TaskType DEF Dies, Answered, Do
  <2>. QED
    BY <2>1, <1>1, JobsAssumption
       DEF Dies, IInv, TypeOK, Answered, Drop, Do, Idle, Active, Outcome, Alive,
           Results, Phases, Jobs, rowVars, guestVars, lockVars
<1>3. LockInv'
  BY <1>1, TaskType, JobsAssumption DEF IInv, LockInv, Submitting
<1>4. RowInv'
  BY <1>1, TaskType, JobsAssumption
     DEF IInv, TypeOK, Submitting, WithJob, Active, Outcome, Alive, Running,
         Reachable, RowInv, LockInv
<1>5. \A i \in Jobs : task'[c].job = i =>
         /\ task'[c].at = "release" => Over(i)
         /\ task'[c].at \in {"look", "inspect"} => task'[c].saw = 0
         /\ task'[c].at = "settle" /\ task'[c].found \in Results => result[i] = task'[c].found
         /\ task'[c].at \in {"recheck", "settle"}
              /\ task'[c].saw \notin {0, Unknown, born[i]} => ~Reachable(i)
  BY <1>1, TaskType, JobsAssumption
     DEF IInv, LookInv, ServiceInv, RowInv, Active, TypeOK
<1>. QED
  BY <1>1, <1>2, <1>3, <1>4, <1>5, JobsStay DEF Submitting

(* get_job writes a verdict, or finds that another observer has.           *)
LEMMA SettleStep ==
  ASSUME IInv, NEW c \in Clients, NEW j \in Jobs, task[c].job = j, Settle(c)
  PROVE  IInv'
<1>. DEFINE t == task[c]
            v == Verdict(t, j)
<1>1. task[c].at = "settle" /\ UNCHANGED <<key, asked, born, guestVars, reserved, circuit, deaths>>
  BY DEF Settle
<1>2. CASE row[j] \in Active
  <2>1. row' = [row EXCEPT ![j] = v[1]] /\ phase' = [phase EXCEPT ![j] = v[2]]
    BY <1>2 DEF Settle, Settled
  <2>2. /\ v[1] \in {"none"} \cup Active \cup Outcome /\ v[2] \in Phases
        /\ v[2] # "outcome_unknown"
        /\ \/ v[1] = row[j]
           \/ /\ v[1] \in Outcome
              /\ v[1] = "success" => result[j] = "success"
              /\ v[1] = "cancelled" => result[j] = "killed" /\ asked[j]
              /\ result[j] # "none" \/ ~Reachable(j)
    BY <1>1, <1>2, VerdictFacts
  <2>. HIDE DEF v, t
  <2>3. /\ row'[j] = v[1] /\ phase'[j] = v[2]
        /\ \A i \in Jobs : i # j => row'[i] = row[i]
        /\ \A i \in Jobs : i # j => phase'[i] = phase[i]
    BY <2>1 DEF IInv, TypeOK
  <2>4. /\ row' \in [Jobs -> {"none"} \cup Active \cup Outcome]
        /\ phase' \in [Jobs -> Phases]
    BY <2>1, <2>2 DEF IInv, TypeOK
  <2>5. CASE row'[j] \in Active
    <3>1. Resume(c, FALSE)
      BY <2>5 DEF Settle
    <3>2. row'[j] = row[j]
      BY <2>2, <2>3, <2>5 DEF Active, Outcome
    <3>3. TypeOK'
      BY <1>1, <2>4, <3>1, ResumeFacts DEF IInv, TypeOK, guestVars
    <3>. QED
      BY <1>1, <1>2, <2>2, <2>3, <3>1, <3>2, <3>3, ResumeFacts,
             SettleAnsweredStep,
         SettleGoesOnStep DEF guestVars
  <2>6. CASE row'[j] \notin Active
    <3>1. At(c, "release") /\ UNCHANGED <<host, guard>>
      BY <2>6 DEF Settle
    <3>2. /\ row'[j] \in Outcome
          /\ row'[j] = "success" => result[j] = "success"
          /\ row'[j] = "cancelled" => result[j] = "killed" /\ asked[j]
          /\ result[j] # "none" \/ ~Reachable(j)
      BY <1>2, <2>2, <2>3, <2>6
    <3>5. phase'[j] # "outcome_unknown"
      BY <2>2, <2>3
    <3>3. TypeOK'
      BY <1>1, <2>4, <3>1, AtType DEF IInv, TypeOK, guestVars, Ats
    <3>4. /\ task'[c].at = "release"
          /\ task'[c].job = task[c].job /\ task'[c].key = task[c].key
          /\ task'[c].todo = task[c].todo /\ task'[c].then = task[c].then
          /\ task'[c].saw = task[c].saw
          /\ \A d \in Clients : d # c => task'[d] = task[d]
      BY <3>1, TaskType DEF At, Do
    <3>. QED
      BY <1>1, <1>2, <2>3, <3>1, <3>2, <3>3, <3>4, <3>5, SettleEndStep
         DEF guestVars
  <2>. QED
    BY <2>5, <2>6
<1>3. CASE row[j] \notin Active
  <2>1. row' = row /\ phase' = phase
    BY <1>3 DEF Settle
  <2>2. At(c, "release") /\ UNCHANGED <<host, guard>>
    BY <1>3, <2>1 DEF Settle
  <2>3. TypeOK'
    BY <1>1, <2>1, <2>2, AtType DEF IInv, TypeOK, guestVars, Ats
  <2>4. /\ task'[c].at = "release"
        /\ task'[c].job = task[c].job /\ task'[c].key = task[c].key
        /\ task'[c].todo = task[c].todo /\ task'[c].then = task[c].then
        /\ task'[c].saw = task[c].saw
        /\ \A d \in Clients : d # c => task'[d] = task[d]
    BY <2>2, TaskType DEF At, Do
  <2>. QED
    BY <1>1, <1>3, <2>1, <2>2, <2>3, <2>4, SettleLateStep DEF guestVars
<1>. QED
  BY <1>2, <1>3

(* get_job releases the reservation of a job that is over, if it can.      *)
LEMMA ReleaseStep ==
  ASSUME IInv, NEW c \in Clients, NEW j \in Jobs, task[c].job = j, Release(c)
  PROVE  IInv'
<1>1. /\ task[c].at = "release" /\ UNCHANGED <<rowVars, guestVars, circuit, deaths>>
      /\ Resume(c, TRUE)
  BY DEF Release
<1>2. \/ reserved' = reserved
      \/ guard = NoClient /\ reserved = j /\ reserved' = 0
  BY DEF Release
<1>3. TypeOK'
  <2>1. reserved' \in 0..MaxJobs
    BY <1>2, JobsAssumption DEF IInv, TypeOK
  <2>. QED
    BY <1>1, <2>1, ResumeFacts DEF IInv, TypeOK, rowVars, guestVars
<1>4. CASE task'[c].at = "idle" /\ task'[c].then = "return" /\ task'[c].todo = {}
           /\ host' = (IF host = c THEN NoClient ELSE host)
           /\ guard' = (IF guard = c THEN NoClient ELSE guard)
  <2>1. \A d \in Clients : d # c => task'[d] = task[d]
    BY <1>1, ResumeFacts
  <2>2. UNCHANGED <<row, phase, key, asked, born, service, result, boot, up>>
    BY <1>1 DEF rowVars, guestVars
  <2>. QED
    BY <1>1, <1>2, <1>3, <1>4, <2>1, <2>2, ReleaseAnsweredStep
<1>5. CASE task'[c].at = task[c].then /\ task[c].then \in {"reconcile", "ask", "stop"}
           /\ task'[c].job = task[c].job /\ task'[c].key = task[c].key
           /\ task'[c].todo = task[c].todo /\ task'[c].then = "return"
           /\ UNCHANGED <<host, guard>>
  <2>1. \A d \in Clients : d # c => task'[d] = task[d]
    BY <1>1, ResumeFacts
  <2>2. UNCHANGED <<row, phase, key, asked, born, service, result, boot, up>>
    BY <1>1 DEF rowVars, guestVars
  <2>. QED
    BY <1>1, <1>2, <1>3, <1>5, <2>1, <2>2, ReleaseGoesOnStep
<1>. QED
  BY <1>1, <1>4, <1>5, ResumeFacts

-----------------------------------------------------------------------------
LEMMA InitStep ==
  ASSUME Init
  PROVE  IInv
<1>1. Idle \in Tasks
  BY JobsAssumption DEF Idle, Tasks, Ats, Gone
<1>2. TypeOK
  <2>1. task \in [Clients -> Tasks]
    BY <1>1 DEF Init
  <2>2. boot \in 1..(IF up THEN MaxStops + 1 ELSE MaxStops) /\ up \in BOOLEAN
    BY JobsAssumption DEF Init
  <2>3. reserved \in 0..MaxJobs /\ deaths \in 0..MaxDeaths
        /\ born \in [Jobs -> 0..(MaxStops + 1)]
    BY JobsAssumption DEF Init
  <2>. QED
    BY <2>1, <2>2, <2>3 DEF Init, TypeOK, Phases
<1>3. \A c \in Clients : /\ task[c].at = "idle" /\ task[c].then = "return"
                         /\ task[c].todo = {}
  BY DEF Init, Idle
<1>4. LockInv /\ RowInv
  BY <1>3 DEF Init, LockInv, RowInv, Submitting, WithJob
<1>5. ServiceInv
  BY <1>3, JobsAssumption
     DEF Init, ServiceInv, MayLaunch, SubmittedBy, Running, Alive,
     Submitting, Outcome
<1>6. LookInv /\ SlotInv /\ OutcomeInv
  BY <1>3 DEF Init, LookInv, SlotInv, OutcomeInv, Running, Alive
<1>. QED
  BY <1>2, <1>4, <1>5, <1>6 DEF IInv

(* Whoever works with a job has one.                                       *)
LEMMA JobThere ==
  ASSUME IInv, NEW c \in Clients, task[c].at \in WithJob
  PROVE  \E j \in Jobs : task[c].job = j
  BY DEF IInv, RowInv

(* What a client that has started does keeps the invariant.                *)
LEMMA ProceedStep ==
  ASSUME IInv, NEW c \in Clients, Proceed(c)
  PROVE  IInv'
<1>. USE JobThere DEF WithJob, Submitting
<1>1. CASE Reconcile(c)
  <2>1. CASE task[c].todo = {} /\ Do(c, [Idle EXCEPT !.at = "admit", !.key = task[c].key])
    BY <1>1, <2>1, ReconcileDoneStep
  <2>2. ASSUME NEW j \in task[c].todo,
               Do(c, [task[c] EXCEPT !.at = "look", !.job = j, !.todo = task[c].todo \ {j},
                        !.then = "reconcile", !.found = "none", !.saw = 0])
        PROVE  IInv'
    <3>1. j \in Jobs
      BY TaskType DEF Tasks
    <3>. QED
      BY <1>1, <2>2, <3>1, ReconcileOneStep
  <2>. QED
    BY <1>1, <2>1, <2>2 DEF Reconcile
<1>2. CASE Commit(c)
  <2>1. ASSUME ~KeyTaken(task[c].key), NEW j \in Jobs, row[j] = "none",
               Settled(j, "queued", "submitting"), key' = [key EXCEPT ![j] = task[c].key],
               born' = [born EXCEPT ![j] = task[c].saw],
               Do(c, [Idle EXCEPT !.at = "reserve", !.job = j])
        PROVE  IInv'
    BY <1>2, <2>1, CommitNewStep
  <2>2. ASSUME KeyTaken(task[c].key), NEW j \in Jobs, key[j] = task[c].key,
               LookAt(c, j, TRUE, "return")
        PROVE  IInv'
    BY <1>2, <2>2, CommitKnownStep
  <2>. QED
    BY <1>2, <2>1, <2>2 DEF Commit
<1>3. CASE Reserve(c)
  BY <1>3, ReserveStep DEF Reserve
<1>4. CASE Launch(c)
  BY <1>4, LaunchStep DEF Launch
<1>5. CASE Launched(c)
  BY <1>5, LaunchedStep DEF Launched
<1>6. CASE LaunchFails(c, FALSE)
  BY <1>6, LaunchFailsStep DEF LaunchFails
<1>7. CASE Mark(c)
  BY <1>7, MarkStep DEF Mark
<1>8. CASE Look(c)
  BY <1>8, LookStep DEF Look
<1>9. CASE Inspect(c)
  BY <1>9, InspectStep DEF Inspect
<1>10. CASE Recheck(c)
  BY <1>10, RecheckStep DEF Recheck
<1>11. CASE Settle(c)
  BY <1>11, SettleStep DEF Settle
<1>12. CASE Release(c)
  BY <1>12, ReleaseStep DEF Release
<1>13. CASE Ask(c)
  BY <1>13, AskStep DEF Ask
<1>14. CASE WriteAbsent(c)
  BY <1>14, WriteAbsentStep DEF WriteAbsent
<1>. QED
  BY <1>1, <1>2, <1>3, <1>4, <1>5, <1>6, <1>7, <1>8, <1>9, <1>10, <1>11, <1>12,
     <1>13, <1>14 DEF Proceed

LEMMA NextStep ==
  ASSUME IInv, [Next]_vars
  PROVE  IInv'
<1>. USE JobThere DEF WithJob, Submitting
<1>1. ASSUME NEW c \in Clients, NEW k \in Keys, Submit(c, k)
      PROVE  IInv'
  BY <1>1, SubmitKnownStep, SubmitNewStep DEF Submit
<1>2. ASSUME NEW c \in Clients, NEW j \in Jobs, Observe(c, j) \/ Cancel(c, j)
      PROVE  IInv'
  BY <1>2, ObserveStep, CancelStep
<1>3. ASSUME NEW c \in Clients, Admit(c) \/ Guard(c) \/ Refused(c) \/ Dies(c)
      PROVE  IInv'
  BY <1>3, AdmitStep, GuardStep, RefusedStep, DiesStep
<1>4. ASSUME NEW c \in Clients, Maintain(c) \/ ReserveFails(c) \/ StopFindsNone(c)
      PROVE  IInv'
  <2>1. PICK j \in Jobs : task[c].job = j
    BY <1>4 DEF Maintain, ReserveFails, StopFindsNone
  <2>. QED
    BY <1>4, <2>1, MaintainStep, ReserveFailsStep, StopFindsNoneStep
<1>5. ASSUME NEW c \in Clients, NEW timedOut \in BOOLEAN, LaunchFails(c, timedOut)
      PROVE  IInv'
  <2>1. PICK j \in Jobs : task[c].job = j
    BY <1>5 DEF LaunchFails
  <2>. QED
    BY <1>5, <2>1, LaunchFailsStep
<1>6. ASSUME NEW c \in Clients, NEW timedOut \in BOOLEAN,
             Stop(c, timedOut) \/ StopFails(c, timedOut)
      PROVE  IInv'
  <2>1. PICK j \in Jobs : task[c].job = j
    BY <1>6 DEF Stop, StopFails
  <2>. QED
    BY <1>6, <2>1, StopStep, StopFailsStep
<1>7. ASSUME NEW j \in Jobs, ServiceStarts(j) \/ OrphanEnds(j)
      PROVE  IInv'
  BY <1>7, ServiceStartsStep, OrphanEndsStep
<1>8. ASSUME NEW j \in Jobs, NEW outcome \in Results \cup IF Glitches THEN {"none"} ELSE {},
             ServiceEnds(j, outcome)
      PROVE  IInv'
  BY <1>8, ServiceEndsStep
<1>9. ASSUME NEW orderly \in BOOLEAN, ContainerStops(orderly)
      PROVE  IInv'
  BY <1>9, ContainerStopsStep
<1>10. CASE ContainerStarts \/ CircuitCleared
  BY <1>10, ContainerStartsStep, CircuitClearedStep
<1>11. CASE UNCHANGED vars
  BY <1>11
     DEF vars, rowVars, guestVars, lockVars, IInv, TypeOK, LockInv, RowInv,
     ServiceInv, LookInv, SlotInv, OutcomeInv, Running, Reachable, MayLaunch,
     SubmittedBy, Over
<1>. QED
  BY <1>1, <1>2, <1>3, <1>4, <1>5, <1>6, <1>7, <1>8, <1>9, <1>10, <1>11,
         ProceedStep
     DEF Next

(* IInv is an inductive invariant of CommandJobs.                          *)
THEOREM Invariance == Spec => []IInv
  BY InitStep, NextStep, PTL DEF Spec

(* OneCommandAtATime: a service runs only while the output is reserved for *)
(* its job (reserve_job, release_job), and a request key names one job.    *)
THEOREM OneCommand == Spec => []OneCommandAtATime
<1>1. IInv => OneCommandAtATime
  BY DEF IInv, SlotInv, OneCommandAtATime, Running
<1>. QED
  BY <1>1, Invariance, PTL

(* OutcomeIsTrue: a terminal row names a command that no longer runs and   *)
(* never will, with the outcome the guest recorded (get_job).              *)
THEOREM Outcomes == Spec => []OutcomeIsTrue
<1>1. IInv => OutcomeIsTrue
  BY DEF IInv, ServiceInv, OutcomeInv, OutcomeIsTrue, Over, Running
<1>. QED
  BY <1>1, Invariance, PTL

(* ObserversKeepOutcomes: no delayed observer changes an outcome; only the *)
(* submitter that marks its row and the canceller that found no unit do.   *)
THEOREM OutcomesStay == Spec => ObserversKeepOutcomes
<1>. DEFINE Kept == \A j \in Jobs : row[j] \in Outcome /\ row'[j] # row[j] =>
                      \E c \in Clients : task[c].job = j /\ task[c].at \in {"mark", "absent"}
<1>1. ASSUME IInv, Next, NEW j \in Jobs, row[j] \in Outcome, row'[j] # row[j]
      PROVE  \E c \in Clients : task[c].job = j /\ task[c].at \in {"mark", "absent"}
  <2>1. PICK c \in Clients : \/ Commit(c) \/ Settle(c) \/ ReserveFails(c)
                             \/ Mark(c) \/ WriteAbsent(c)
    <3>1. row' # row
      BY <1>1
    <3>2. \E c \in Clients : Proceed(c) \/ ReserveFails(c)
      <4>1. \A j1 \in Jobs : ~ServiceStarts(j1) /\ ~OrphanEnds(j1)
                             /\ \A r \in Results \cup {"none"} : ~ServiceEnds(j1, r)
        BY <3>1 DEF ServiceStarts, OrphanEnds, ServiceEnds, rowVars
      <4>2. /\ \A b \in BOOLEAN : ~ContainerStops(b)
            /\ ~ContainerStarts /\ ~CircuitCleared
        BY <3>1 DEF ContainerStops, ContainerStarts, CircuitCleared, rowVars
      <4>3. \A c \in Clients :
              /\ \A k \in Keys : ~Submit(c, k)
              /\ \A j1 \in Jobs : ~Observe(c, j1) /\ ~Cancel(c, j1)
              /\ ~Admit(c) /\ ~Guard(c) /\ ~Refused(c) /\ ~Dies(c)
        BY <3>1 DEF Submit, Observe, Cancel, Admit, Guard, Refused, Dies, rowVars
      <4>4. \A c \in Clients :
              /\ ~Maintain(c) /\ ~StopFindsNone(c) /\ ~LaunchFails(c, TRUE)
              /\ \A b \in BOOLEAN : ~Stop(c, b) /\ ~StopFails(c, b)
        BY <3>1 DEF Maintain, StopFindsNone, Stop, StopFails, LaunchFails, rowVars
      <4>. QED
        BY <1>1, <4>1, <4>2, <4>3, <4>4 DEF Next
    <3>3. ASSUME NEW c \in Clients, Proceed(c)
          PROVE  Commit(c) \/ Settle(c) \/ Mark(c) \/ WriteAbsent(c)
      BY <3>1, <3>3
         DEF Proceed, Reconcile, Reserve, Launch, Launched, Look, Inspect, Recheck,
             Release, Ask, LaunchFails, rowVars
    <3>. QED
      BY <3>2, <3>3
  <2>2. CASE Commit(c)
    BY <1>1, <2>2 DEF Commit, Settled, IInv, TypeOK, Outcome
  <2>3. CASE Settle(c)
    BY <1>1, <2>3 DEF Settle, Settled, IInv, TypeOK, Outcome, Active
  <2>4. CASE ReserveFails(c)
    <3>1. PICK i \in Jobs : task[c].job = i
      BY <1>1, <2>4, JobThere DEF ReserveFails, WithJob, Submitting
    <3>2. i = j /\ row'[i] = "failed"
      BY <1>1, <2>4, <3>1 DEF ReserveFails, Settled, IInv, TypeOK
    <3>3. SubmittedBy(c, i) /\ MayLaunch(c, i)
      BY <2>4, <3>1 DEF ReserveFails, SubmittedBy, MayLaunch, Submitting
    <3>4. result[j] = "none"
      BY <1>1, <3>2, <3>3 DEF IInv, ServiceInv
    <3>. QED
      BY <1>1, <3>2, <3>4 DEF IInv, OutcomeInv, Outcome
  <2>5. CASE Mark(c) \/ WriteAbsent(c)
    <3>1. task[c].at \in {"mark", "absent"}
      BY <2>5 DEF Mark, WriteAbsent
    <3>2. task[c].job = j
      BY <1>1, <2>5 DEF Mark, WriteAbsent, Settled, IInv, TypeOK
    <3>. QED
      BY <3>1, <3>2
  <2>. QED
    BY <2>1, <2>2, <2>3, <2>4, <2>5
<1>2. IInv /\ [Next]_vars => [Kept]_vars
  BY <1>1 DEF vars
<1>. QED
  BY <1>2, Invariance, PTL DEF Spec, ObserversKeepOutcomes
===============================================================================
