------------------------ MODULE PushoverOutbox_proofs ------------------------
(***************************************************************************)
(* Why PushoverOutbox keeps its promises, for any number of callers,       *)
(* processes, notices and failures.  IInv of PushoverOutbox is inductive:  *)
(* one lemma per action shows first which fields it changes, and then each *)
(* part of IInv from that.  LockInv makes sending exclusive, SpoolInv ties *)
(* what is sent to the file, HandInv counts, ReceiptInv follows receipts.  *)
(***************************************************************************)
EXTENDS PushoverOutbox, FiniteSetTheorems, TLAPS

(* What the constants are, and what the type invariant says of each part.  *)
LEMMA Names ==
  /\ Workers \subseteq Procs /\ Dispatcher \in Procs /\ Dispatcher \notin Workers
  /\ NoOne \notin Procs /\ NoOne \notin Subjects
  /\ 0 \notin Ids /\ Ids \subseteq Nat
  BY OutboxAssumption DEF Procs, Ids

LEMMA TaskType == ASSUME IInv PROVE task \in [Procs -> Tasks]
  BY DEF IInv, TypeOK

LEMMA DispatchTypes ==
  ASSUME IInv
  PROVE  /\ task \in [Procs -> Tasks]
         /\ \A q \in Procs : task[q].intent \in Ids \cup {0} /\ task[q].got \in Nat
         /\ past.lapses \in [Ids -> Nat]
  BY DEF IInv, TypeOK, Tasks, Pasts

LEMMA StepsType ==
  ASSUME IInv
  PROVE  \A q \in Procs : task[q].at \in Steps(q) /\ task[q].got \in 0..rung
  BY DEF IInv, TypeOK

LEMMA PastType ==
  ASSUME IInv
  PROVE  past \in Pasts /\ rung \in Nat /\ receipt \in Nat
  BY DEF IInv, TypeOK

(* Whoever has the lock to send has an intent.                             *)
LEMMA IntentType ==
  ASSUME IInv
  PROVE  \A q \in Procs :
            task[q].at \in {"holding", "sending", "accepted", "transient", "refused"}
            => task[q].intent \in Ids
  BY DEF IInv, SpoolInv, Backed, Known, Handling

(* The provider takes the intent: only this one is counted, and perhaps a  *)
(* new receipt rings.                                                      *)
LEMMA TakenFacts ==
  ASSUME IInv, NEW p \in Procs, Taken(p), task[p].intent \in Ids
  PROVE  /\ taken' \in [Ids -> Nat]
         /\ \A i \in Ids : i # task[p].intent => taken'[i] = taken[i]
         /\ taken'[task[p].intent] = taken[task[p].intent] + 1
         /\ \/ rung' = rung /\ ringing' = ringing
            \/ rung' = rung + 1 /\ ringing' = ringing \cup {rung + 1}
<1>. DEFINE i == task[p].intent
<1>1. i # 0 /\ taken \in [Ids -> Nat] /\ taken' = [taken EXCEPT ![i] = @ + 1]
  BY Names DEF Taken, IInv, TypeOK
<1>2. \/ rung' = rung /\ ringing' = ringing
      \/ rung' = rung + 1 /\ ringing' = ringing \cup {rung + 1}
  BY <1>1 DEF Taken
<1>. QED
  BY <1>1, <1>2

LEMMA CountTypes ==
  ASSUME IInv
  PROVE  \A i \in Ids : taken[i] \in Nat /\ past.lapses[i] \in Nat
  BY DEF IInv, TypeOK, Pasts

LEMMA RingTypes ==
  ASSUME IInv
  PROVE  /\ rung \in Nat /\ receipt \in 0..rung /\ ringing \subseteq 1..rung
         /\ \A q \in Procs : task[q].got \in 0..rung
  BY DEF IInv, TypeOK

(* A caller waits for an intent that is spooled.                           *)
LEMMA JoinsStep ==
  ASSUME IInv, NEW p \in Workers, NEW s \in Subjects, Enqueue(p, s), Joins(p, s)
  PROVE  IInv'
<1>1. /\ task[p].at = "idle"
      /\ \/ task'[p].at = "waiting" /\ task'[p].intent \in Spooled
         \/ task'[p].at = "sent" /\ task'[p].intent = 0
      /\ task'[p].got = 0 /\ task'[p].batch = {}
      /\ \A q \in Procs : q # p => task'[q] = task[q]
      /\ UNCHANGED <<spool, subject, receipt, lock, taken, ringing, rung, past>>
  <2>1. ASSUME NEW i \in Same(s),
               task' = [task EXCEPT ![p] = [Idle EXCEPT !.at = "waiting", !.intent = i]]
        PROVE  task'[p].at = "waiting" /\ task'[p].intent \in Spooled
               /\ task'[p].got = 0 /\ task'[p].batch = {}
               /\ \A q \in Procs : q # p => task'[q] = task[q]
    BY <2>1, Names, DispatchTypes DEF Same, Idle
  <2>2. ASSUME task' = [task EXCEPT ![p] = [Idle EXCEPT !.at = "sent", !.about = s]]
        PROVE  task'[p].at = "sent" /\ task'[p].intent = 0
               /\ task'[p].got = 0 /\ task'[p].batch = {}
               /\ \A q \in Procs : q # p => task'[q] = task[q]
    BY <2>2, Names, DispatchTypes DEF Idle
  <2>3. task[p].at = "idle" /\ UNCHANGED <<stateVars, lock, provider, past>>
    BY DEF Enqueue, Joins, At
  <2>. QED
    BY <2>1, <2>2, <2>3 DEF Joins, stateVars, provider
<1>2. TypeOK'
  <2>1. task' \in [Procs -> Tasks]
    <3>1. Same(s) \subseteq Ids /\ p \in Procs
      BY Names DEF Same, Spooled
    <3>. QED
      <4>1. ASSUME NEW i \in Same(s),
                   task' = [task EXCEPT ![p] = [Idle EXCEPT !.at = "waiting", !.intent = i]]
            PROVE  task' \in [Procs -> Tasks]
        BY <3>1, <4>1, TaskType DEF Tasks, Sending, Idle
      <4>2. ASSUME task' = [task EXCEPT ![p] = [Idle EXCEPT !.at = "sent", !.about = s]]
            PROVE  task' \in [Procs -> Tasks]
        BY <3>1, <4>2, TaskType DEF Tasks, Ended, Idle
      <4>. QED
        BY <4>1, <4>2 DEF Joins
  <2>2. \A q \in Procs : task'[q].at \in Steps(q) /\ task'[q].got \in 0..rung'
    BY <1>1, StepsType, RingTypes, Names DEF Steps, Sending, Ended
  <2>3. past' \in Pasts
    BY PastType, Names, IntentType
       DEF Pasts, Joins, stateVars, Idle, Same, Spooled, Enqueue, At, provider
  <2>. QED
    BY <2>1, <2>2, <2>3, Names, IntentType, OutboxAssumption
       DEF IInv, TypeOK, Joins, stateVars, Idle, Same, Spooled, Enqueue, At,
           provider
<1>3. LockInv'
  BY <1>1, Names DEF IInv, LockInv, Handling, Ended
<1>4. SpoolInv'
  <2>1. Known' = Known
    BY <1>1 DEF Known
  <2>2. \A i \in Ids \ Known : spool'[i] = "none" /\ taken'[i] = 0
    BY <1>1 DEF IInv, SpoolInv, Backed, Handling
  <2>3. ASSUME NEW q \in Procs
        PROVE  Backed(q)'
    <3>1. CASE q = p
      <4>1. Spooled \subseteq Known
        BY DEF IInv, SpoolInv, Spooled
      <4>2. /\ task'[q].batch \subseteq Spooled
            /\ task'[q].at \in {"waiting", "sent", "picking"}
            /\ task'[q].at = "waiting" => task'[q].intent \in Spooled
        BY <1>1, <3>1 DEF Spooled
      <4>. QED
        BY <1>1, <2>1, <3>1, <4>1, <4>2 DEF Backed, Handling, At
    <3>2. CASE q # p
      <4>1. Backed(q) /\ task'[q] = task[q] /\ spool' = spool
        BY <1>1, <3>2 DEF IInv, SpoolInv
      <4>. QED
        BY <2>1, <4>1 DEF Backed, At
    <3>. QED
      BY <3>1, <3>2
  <2>. QED
    BY <1>1, <2>1, <2>2, <2>3 DEF IInv, SpoolInv, Backed
<1>5. HandInv'
  BY <1>1, IntentType, CountTypes
     DEF IInv, LockInv, SpoolInv, Backed, HandInv, HandedOnce, Handling, At
<1>6. ReceiptInv'
  BY <1>1, Names, RingTypes
     DEF IInv, LockInv, ReceiptInv, StaysCancellable, Handling, At
<1>. QED
  BY <1>2, <1>3, <1>4, <1>5, <1>6 DEF IInv

(* A caller that will send its message itself.                             *)
LEMMA EnqueueFailsStep ==
  ASSUME IInv, NEW p \in Workers, NEW s \in Subjects, EnqueueFails(p, s)
  PROVE  IInv'
<1>1. /\ task[p].at = "idle"
      /\ task'[p].at = "direct" /\ task'[p].got = 0
      /\ task'[p].intent = 0 /\ task'[p].batch = {}
      /\ \A q \in Procs : q # p => task'[q] = task[q]
      /\ UNCHANGED <<spool, subject, receipt, lock, taken, ringing, rung, past>>
  BY Names, DispatchTypes, IntentType
     DEF IInv, TypeOK, EnqueueFails, At, Fault, stateVars, provider, Idle
<1>2. TypeOK'
  <2>1. task' \in [Procs -> Tasks]
    BY TaskType, Names
       DEF Tasks, Sending, Ended, EnqueueFails, At, Fault, stateVars, provider,
           Idle
  <2>2. \A q \in Procs : task'[q].at \in Steps(q) /\ task'[q].got \in 0..rung'
    BY <1>1, StepsType, RingTypes, Names DEF Steps, Sending, Ended
  <2>3. past' \in Pasts
    BY PastType, Names, IntentType
       DEF Pasts, EnqueueFails, At, Fault, stateVars, provider, Idle
  <2>. QED
    BY <2>1, <2>2, <2>3, Names, IntentType, OutboxAssumption
       DEF IInv, TypeOK, EnqueueFails, At, Fault, stateVars, provider, Idle
<1>3. LockInv'
  BY <1>1, Names DEF IInv, LockInv, Handling, Ended
<1>4. SpoolInv'
  <2>1. Known' = Known
    BY <1>1 DEF Known
  <2>2. \A i \in Ids \ Known : spool'[i] = "none" /\ taken'[i] = 0
    BY <1>1 DEF IInv, SpoolInv, Backed, Handling
  <2>3. ASSUME NEW q \in Procs
        PROVE  Backed(q)'
    BY <1>1, Names DEF IInv, LockInv, SpoolInv, Backed, Handling, Known, At
  <2>. QED
    BY <1>1, <2>1, <2>2, <2>3 DEF IInv, SpoolInv, Backed
<1>5. HandInv'
  BY <1>1, IntentType, CountTypes
     DEF IInv, LockInv, SpoolInv, Backed, HandInv, HandedOnce, Handling, At
<1>6. ReceiptInv'
  BY <1>1, Names, RingTypes
     DEF IInv, LockInv, ReceiptInv, StaysCancellable, Handling, At
<1>. QED
  BY <1>2, <1>3, <1>4, <1>5, <1>6 DEF IInv

(* A caller is done.                                                       *)
LEMMA NoteStep ==
  ASSUME IInv, NEW p \in Workers, Note(p)
  PROVE  IInv'
<1>1. /\ task[p].at \in {"sent", "queued", "failed"}
      /\ task'[p].at = "idle" /\ task'[p].got = 0
      /\ task'[p].intent = 0 /\ task'[p].batch = {}
      /\ \A q \in Procs : q # p => task'[q] = task[q]
      /\ UNCHANGED <<spool, subject, receipt, lock, taken, ringing, rung, past>>
  BY Names, DispatchTypes, IntentType
     DEF IInv, TypeOK, Note, stateVars, provider, Idle, Ended
<1>2. TypeOK'
  <2>1. task' \in [Procs -> Tasks]
    BY TaskType, Names
       DEF Tasks, Sending, Ended, Note, stateVars, provider, Idle
  <2>2. \A q \in Procs : task'[q].at \in Steps(q) /\ task'[q].got \in 0..rung'
    BY <1>1, StepsType, RingTypes, Names DEF Steps, Sending, Ended
  <2>3. past' \in Pasts
    BY PastType, Names, IntentType
       DEF Pasts, Note, stateVars, provider, Idle, Ended
  <2>. QED
    BY <2>1, <2>2, <2>3, Names, IntentType, OutboxAssumption
       DEF IInv, TypeOK, Note, stateVars, provider, Idle, Ended
<1>3. LockInv'
  BY <1>1, Names DEF IInv, LockInv, Handling, Ended
<1>4. SpoolInv'
  <2>1. Known' = Known
    BY <1>1 DEF Known
  <2>2. \A i \in Ids \ Known : spool'[i] = "none" /\ taken'[i] = 0
    BY <1>1 DEF IInv, SpoolInv, Backed, Handling
  <2>3. ASSUME NEW q \in Procs
        PROVE  Backed(q)'
    BY <1>1, Names DEF IInv, LockInv, SpoolInv, Backed, Handling, Known, At
  <2>. QED
    BY <1>1, <2>1, <2>2, <2>3 DEF IInv, SpoolInv, Backed
<1>5. HandInv'
  BY <1>1, IntentType, CountTypes
     DEF IInv, LockInv, SpoolInv, Backed, HandInv, HandedOnce, Handling, At
<1>6. ReceiptInv'
  BY <1>1, Names, RingTypes
     DEF IInv, LockInv, ReceiptInv, StaysCancellable, Handling, At
<1>. QED
  BY <1>2, <1>3, <1>4, <1>5, <1>6 DEF IInv

(* Who takes the lock alone has it.                                        *)
LEMMA TakeStep ==
  ASSUME IInv, NEW p \in Procs, Take(p)
  PROVE  IInv'
<1>1. /\ task[p].at = "waiting"
      /\ lock = NoOne /\ lock' = p
      /\ task'[p].at = "holding" /\ task'[p].got = task[p].got
      /\ task'[p].intent = task[p].intent /\ task'[p].batch = task[p].batch
      /\ \A q \in Procs : q # p => task'[q] = task[q]
      /\ UNCHANGED <<spool, subject, receipt, taken, ringing, rung, past>>
  BY Names, DispatchTypes, IntentType
     DEF IInv, TypeOK, Take, At, Goto, Free, stateVars, provider
<1>2. TypeOK'
  <2>1. task' \in [Procs -> Tasks]
    BY TaskType, Names
       DEF Tasks, Sending, Ended, Take, At, Goto, Free, stateVars, provider
  <2>2. \A q \in Procs : task'[q].at \in Steps(q) /\ task'[q].got \in 0..rung'
    BY <1>1, StepsType, RingTypes, Names DEF Steps, Sending, Ended
  <2>3. past' \in Pasts
    BY PastType, Names, IntentType
       DEF Pasts, Take, At, Goto, Free, stateVars, provider
  <2>. QED
    BY <2>1, <2>2, <2>3, Names, IntentType, OutboxAssumption
       DEF IInv, TypeOK, Take, At, Goto, Free, stateVars, provider
<1>3. LockInv'
  BY <1>1, Names DEF IInv, LockInv, Handling, Ended
<1>4. SpoolInv'
  <2>1. Known' = Known
    BY <1>1 DEF Known
  <2>2. \A i \in Ids \ Known : spool'[i] = "none" /\ taken'[i] = 0
    BY <1>1 DEF IInv, SpoolInv, Backed, Handling
  <2>3. ASSUME NEW q \in Procs
        PROVE  Backed(q)'
    BY <1>1, Names DEF IInv, LockInv, SpoolInv, Backed, Handling, Known, At
  <2>. QED
    BY <1>1, <2>1, <2>2, <2>3 DEF IInv, SpoolInv, Backed
<1>5. HandInv'
  BY <1>1, IntentType, CountTypes
     DEF IInv, LockInv, SpoolInv, Backed, HandInv, HandedOnce, Handling, At
<1>6. ReceiptInv'
  BY <1>1, Names, RingTypes
     DEF IInv, LockInv, ReceiptInv, StaysCancellable, Handling, At
<1>. QED
  BY <1>2, <1>3, <1>4, <1>5, <1>6 DEF IInv

(* A caller leaves its intent to whoever sends.                            *)
LEMMA BusyStep ==
  ASSUME IInv, NEW p \in Procs, Busy(p)
  PROVE  IInv'
<1>1. /\ task[p].at = "waiting"
      /\ task'[p].at = IF p = Dispatcher THEN "picking" ELSE "queued"
      /\ task'[p].got = task[p].got
      /\ task'[p].intent = task[p].intent /\ task'[p].batch = task[p].batch
      /\ \A q \in Procs : q # p => task'[q] = task[q]
      /\ UNCHANGED <<spool, subject, receipt, lock, taken, ringing, rung, past>>
  BY Names, DispatchTypes, IntentType
     DEF IInv, TypeOK, Busy, At, Ends, Goto, stateVars, provider
<1>2. TypeOK'
  <2>1. task' \in [Procs -> Tasks]
    BY TaskType, Names
       DEF Tasks, Sending, Ended, Busy, At, Ends, Goto, stateVars, provider
  <2>2. \A q \in Procs : task'[q].at \in Steps(q) /\ task'[q].got \in 0..rung'
    BY <1>1, StepsType, RingTypes, Names DEF Steps, Sending, Ended
  <2>3. past' \in Pasts
    BY PastType, Names, IntentType
       DEF Pasts, Busy, At, Ends, Goto, stateVars, provider
  <2>. QED
    BY <2>1, <2>2, <2>3, Names, IntentType, OutboxAssumption
       DEF IInv, TypeOK, Busy, At, Ends, Goto, stateVars, provider
<1>3. LockInv'
  BY <1>1, Names DEF IInv, LockInv, Handling, Ended
<1>4. SpoolInv'
  <2>1. Known' = Known
    BY <1>1 DEF Known
  <2>2. \A i \in Ids \ Known : spool'[i] = "none" /\ taken'[i] = 0
    BY <1>1 DEF IInv, SpoolInv, Backed, Handling
  <2>3. ASSUME NEW q \in Procs
        PROVE  Backed(q)'
    BY <1>1, Names DEF IInv, LockInv, SpoolInv, Backed, Handling, Known, At
  <2>. QED
    BY <1>1, <2>1, <2>2, <2>3 DEF IInv, SpoolInv, Backed
<1>5. HandInv'
  BY <1>1, IntentType, CountTypes
     DEF IInv, LockInv, SpoolInv, Backed, HandInv, HandedOnce, Handling, At
<1>6. ReceiptInv'
  BY <1>1, Names, RingTypes
     DEF IInv, LockInv, ReceiptInv, StaysCancellable, Handling, At
<1>. QED
  BY <1>2, <1>3, <1>4, <1>5, <1>6 DEF IInv

(* Only what is due is sent.                                               *)
LEMMA ReadStep ==
  ASSUME IInv, NEW p \in Procs, Read(p)
  PROVE  IInv'
<1>1. /\ task[p].at = "holding"
      /\ task'[p].got = task[p].got
      /\ \/ lock = p /\ lock' = NoOne
            /\ task'[p].at \in (IF p = Dispatcher THEN {"picking"} ELSE {"sent", "queued"})
         \/ lock' = lock /\ task'[p].at = "sending" /\ spool[task[p].intent] = "due"
      /\ task'[p].intent = task[p].intent /\ task'[p].batch = task[p].batch
      /\ \A q \in Procs : q # p => task'[q] = task[q]
      /\ UNCHANGED <<spool, subject, receipt, taken, ringing, rung, past>>
  <2>1. CASE spool[task[p].intent] = "none" /\ Release(p) /\ Ends(p, "sent")
    BY <2>1, Names, DispatchTypes
       DEF Read, At, Ends, Goto, Release, stateVars, provider
  <2>2. CASE spool[task[p].intent] = "later" /\ Release(p) /\ Ends(p, "queued")
    BY <2>2, Names, DispatchTypes
       DEF Read, At, Ends, Goto, Release, stateVars, provider
  <2>3. CASE spool[task[p].intent] = "due" /\ lock' = lock /\ Goto(p, "sending")
    BY <2>3, Names, DispatchTypes DEF Read, At, Goto, stateVars, provider
  <2>. QED
    BY <2>1, <2>2, <2>3 DEF Read
<1>2. TypeOK'
  <2>1. task' \in [Procs -> Tasks]
    BY TaskType, Names
       DEF Tasks, Sending, Ended, Read, At, Goto, Ends, Release, stateVars,
           provider
  <2>2. \A q \in Procs : task'[q].at \in Steps(q) /\ task'[q].got \in 0..rung'
    BY <1>1, StepsType, RingTypes, Names DEF Steps, Sending, Ended
  <2>3. past' \in Pasts
    BY PastType, Names, IntentType
       DEF Pasts, Read, At, Goto, Ends, Release, stateVars, provider
  <2>. QED
    BY <2>1, <2>2, <2>3, Names, IntentType, OutboxAssumption
       DEF IInv, TypeOK, Read, At, Goto, Ends, Release, stateVars, provider
<1>3. LockInv'
  BY <1>1, Names DEF IInv, LockInv, Handling, Ended
<1>4. SpoolInv'
  <2>1. Known' = Known
    BY <1>1 DEF Known
  <2>2. \A i \in Ids \ Known : spool'[i] = "none" /\ taken'[i] = 0
    BY <1>1 DEF IInv, SpoolInv, Backed, Handling
  <2>3. ASSUME NEW q \in Procs
        PROVE  Backed(q)'
    BY <1>1, Names DEF IInv, LockInv, SpoolInv, Backed, Handling, Known, At
  <2>. QED
    BY <1>1, <2>1, <2>2, <2>3 DEF IInv, SpoolInv, Backed
<1>5. HandInv'
  BY <1>1, IntentType, CountTypes
     DEF IInv, LockInv, SpoolInv, Backed, HandInv, HandedOnce, Handling, At
<1>6. ReceiptInv'
  BY <1>1, Names, RingTypes
     DEF IInv, LockInv, ReceiptInv, StaysCancellable, Handling, At
<1>. QED
  BY <1>2, <1>3, <1>4, <1>5, <1>6 DEF IInv

(* The provider takes the intent, which has not been taken but for the     *)
(* lapses.                                                                 *)
LEMMA AcceptStep ==
  ASSUME IInv, NEW p \in Procs, Accept(p)
  PROVE  IInv'
<1>1. /\ task[p].at = "sending"
      /\ taken' \in [Ids -> Nat]
      /\ \A i \in Ids : i # task[p].intent => taken'[i] = taken[i]
      /\ task[p].intent \in Ids => taken'[task[p].intent] = taken[task[p].intent] + 1
      /\ \/ rung' = rung /\ ringing' = ringing
         \/ rung' = rung + 1 /\ ringing' = ringing \cup {rung + 1}
      /\ task'[p].at = "accepted"
      /\ task'[p].got = IF rung' > rung THEN rung' ELSE 0
      /\ task'[p].intent = task[p].intent /\ task'[p].batch = task[p].batch
      /\ \A q \in Procs : q # p => task'[q] = task[q]
      /\ UNCHANGED <<spool, subject, receipt, lock, past>>
  BY TakenFacts, IntentType, Names, DispatchTypes
     DEF Accept, At, Goto, Fault, Lapse, Forgotten, Handling, stateVars, provider
<1>2. TypeOK'
  <2>1. task' \in [Procs -> Tasks]
    <3>. DEFINE g == IF rung' > rung THEN rung' ELSE 0
                e == [task[p] EXCEPT !.at = "accepted", !.got = g]
    <3>1. g \in Nat
      BY <1>1, PastType
    <3>2. task[p] \in Tasks
      BY TaskType
    <3>3. e \in Tasks
      BY <3>1, <3>2 DEF Tasks, Sending
    <3>4. task' = [task EXCEPT ![p] = e]
      BY TaskType DEF Accept
    <3>. QED
      BY <3>3, <3>4, TaskType
  <2>2. \A q \in Procs : task'[q].at \in Steps(q) /\ task'[q].got \in 0..rung'
    BY <1>1, StepsType, RingTypes, Names DEF Steps, Sending, Ended
  <2>3. past' \in Pasts
    BY PastType, Names, IntentType
       DEF Pasts, Accept, At, Taken, Urgent, stateVars
  <2>4. /\ taken' \in [Ids -> Nat] /\ rung' \in Nat
        /\ ringing' \subseteq 1..rung' /\ receipt' \in 0..rung'
    BY <1>1, RingTypes
  <2>. QED
    BY <2>1, <2>2, <2>3, <2>4, Names, IntentType, OutboxAssumption
       DEF IInv, TypeOK, Accept, At, Taken, Urgent, stateVars
<1>3. LockInv'
  BY <1>1, Names DEF IInv, LockInv, Handling, Ended
<1>4. SpoolInv'
  <2>1. Known' = Known
    BY <1>1 DEF Known
  <2>2. \A i \in Ids \ Known : spool'[i] = "none" /\ taken'[i] = 0
    BY <1>1 DEF IInv, SpoolInv, Backed, Handling
  <2>3. ASSUME NEW q \in Procs
        PROVE  Backed(q)'
    BY <1>1, Names DEF IInv, LockInv, SpoolInv, Backed, Handling, Known, At
  <2>. QED
    BY <1>1, <2>1, <2>2, <2>3 DEF IInv, SpoolInv, Backed
<1>5. HandInv'
  <2>. DEFINE j == task[p].intent
  <2>1. j \in Ids /\ taken[j] <= past.lapses[j]
    BY <1>1, IntentType, CountTypes
       DEF IInv, LockInv, SpoolInv, Backed, HandInv, Handling, At
  <2>. HIDE DEF j
  <2>2. \A i \in Ids : i # j => taken'[i] = taken[i]
    BY <1>1 DEF j
  <2>3. taken'[j] = taken[j] + 1 /\ task'[p].intent = j
    BY <1>1, <2>1 DEF j
  <2>4. HandedOnce'
    BY <1>1, <2>1, <2>2, <2>3, CountTypes DEF IInv, HandInv, HandedOnce
  <2>. QED
    BY <1>1, <2>1, <2>2, <2>3, <2>4, IntentType, CountTypes
       DEF IInv, LockInv, HandInv, Handling, At
<1>6. ReceiptInv'
  BY <1>1, Names, RingTypes
     DEF IInv, LockInv, ReceiptInv, StaysCancellable, Handling, At
<1>. QED
  BY <1>2, <1>3, <1>4, <1>5, <1>6 DEF IInv

(* The same, but the receipt is lost and the intent stays: a lapse.        *)
LEMMA AnswerLostStep ==
  ASSUME IInv, NEW p \in Procs, AnswerLost(p)
  PROVE  IInv'
<1>1. /\ task[p].at = "sending"
      /\ taken' \in [Ids -> Nat]
      /\ \A i \in Ids : i # task[p].intent => taken'[i] = taken[i]
      /\ task[p].intent \in Ids => taken'[task[p].intent] = taken[task[p].intent] + 1
      /\ \/ rung' = rung /\ ringing' = ringing
         \/ rung' = rung + 1 /\ ringing' = ringing \cup {rung + 1}
      /\ task'[p].at = "transient" /\ task'[p].got = task[p].got
      /\ task'[p].intent = task[p].intent /\ task'[p].batch = task[p].batch
      /\ \A q \in Procs : q # p => task'[q] = task[q]
      /\ \A i \in Ids : i # task[p].intent => past'.lapses[i] = past.lapses[i]
      /\ task[p].intent \in Ids => past'.lapses[task[p].intent] = past.lapses[task[p].intent] + 1
      /\ rung' > rung => rung' \in past'.lost
      /\ past.lost \subseteq past'.lost /\ past'.overtaken = past.overtaken
      /\ past'.refused = past.refused /\ past'.calledOff = past.calledOff
      /\ UNCHANGED <<spool, subject, receipt, lock>>
  <2>1. Taken(p) /\ task[p].intent \in Ids /\ task[p].intent # 0
    BY IntentType, Names DEF AnswerLost, At, Handling
  <2>3. /\ past'.lost = past.lost \cup Forgotten /\ past'.overtaken = past.overtaken
        /\ past'.refused = past.refused /\ past'.calledOff = past.calledOff
        /\ past'.lapses = [past.lapses EXCEPT ![task[p].intent] = @ + 1]
    BY PastType DEF AnswerLost, Lapse, Pasts
  <2>. QED
    BY <2>1, <2>3, TakenFacts, Names, DispatchTypes
       DEF AnswerLost, At, Goto, Forgotten, stateVars
<1>2. TypeOK'
  <2>1. task' \in [Procs -> Tasks]
    BY TaskType, Names
       DEF Tasks, Sending, Ended, AnswerLost, At, Goto, Fault, Taken, Urgent,
           Lapse, Forgotten, stateVars
  <2>2. \A q \in Procs : task'[q].at \in Steps(q) /\ task'[q].got \in 0..rung'
    BY <1>1, StepsType, RingTypes, Names DEF Steps, Sending, Ended
  <2>3. past' \in Pasts
    <3>1. Forgotten \subseteq Nat /\ task[p].intent \in Ids /\ past.lapses[task[p].intent] + 1 \in Nat
      BY <1>1, PastType, IntentType, CountTypes DEF Forgotten
    <3>. QED
      BY <3>1, PastType DEF AnswerLost, Lapse, Pasts
  <2>4. /\ taken' \in [Ids -> Nat] /\ rung' \in Nat
        /\ ringing' \subseteq 1..rung' /\ receipt' \in 0..rung'
    BY <1>1, RingTypes
  <2>. QED
    BY <2>1, <2>2, <2>3, <2>4, Names, IntentType, OutboxAssumption
       DEF IInv, TypeOK, AnswerLost, At, Goto, Fault, Taken, Urgent, Lapse,
           Forgotten, stateVars
<1>3. LockInv'
  BY <1>1, Names DEF IInv, LockInv, Handling, Ended
<1>4. SpoolInv'
  <2>1. Known' = Known
    BY <1>1 DEF Known
  <2>2. \A i \in Ids \ Known : spool'[i] = "none" /\ taken'[i] = 0
    BY <1>1 DEF IInv, SpoolInv, Backed, Handling
  <2>3. ASSUME NEW q \in Procs
        PROVE  Backed(q)'
    BY <1>1, Names DEF IInv, LockInv, SpoolInv, Backed, Handling, Known, At
  <2>. QED
    BY <1>1, <2>1, <2>2, <2>3 DEF IInv, SpoolInv, Backed
<1>5. HandInv'
  <2>. DEFINE j == task[p].intent
  <2>1. j \in Ids /\ taken[j] <= past.lapses[j]
    BY <1>1, IntentType, CountTypes
       DEF IInv, LockInv, SpoolInv, Backed, HandInv, Handling, At
  <2>. HIDE DEF j
  <2>2. \A i \in Ids : i # j => taken'[i] = taken[i] /\ past'.lapses[i] = past.lapses[i]
    BY <1>1 DEF j
  <2>3. taken'[j] = taken[j] + 1 /\ past'.lapses[j] = past.lapses[j] + 1
    BY <1>1, <2>1 DEF j
  <2>4. HandedOnce'
    BY <1>1, <2>1, <2>2, <2>3, CountTypes DEF IInv, HandInv, HandedOnce
  <2>. QED
    BY <1>1, <2>1, <2>2, <2>3, <2>4, IntentType, CountTypes
       DEF IInv, LockInv, HandInv, Handling, At
<1>6. ReceiptInv'
  BY <1>1, Names, RingTypes
     DEF IInv, LockInv, ReceiptInv, StaysCancellable, Handling, At
<1>. QED
  BY <1>2, <1>3, <1>4, <1>5, <1>6 DEF IInv

(* Nothing was taken.                                                      *)
LEMMA UnavailableStep ==
  ASSUME IInv, NEW p \in Procs, Unavailable(p)
  PROVE  IInv'
<1>1. /\ task[p].at = "sending"
      /\ task'[p].at = "transient" /\ task'[p].got = task[p].got
      /\ task'[p].intent = task[p].intent /\ task'[p].batch = task[p].batch
      /\ \A q \in Procs : q # p => task'[q] = task[q]
      /\ UNCHANGED <<spool, subject, receipt, lock, taken, ringing, rung, past>>
  BY Names, DispatchTypes, IntentType
     DEF IInv, TypeOK, Unavailable, At, Goto, stateVars, provider
<1>2. TypeOK'
  <2>1. task' \in [Procs -> Tasks]
    BY TaskType, Names
       DEF Tasks, Sending, Ended, Unavailable, At, Goto, stateVars, provider
  <2>2. \A q \in Procs : task'[q].at \in Steps(q) /\ task'[q].got \in 0..rung'
    BY <1>1, StepsType, RingTypes, Names DEF Steps, Sending, Ended
  <2>3. past' \in Pasts
    BY PastType, Names, IntentType
       DEF Pasts, Unavailable, At, Goto, stateVars, provider
  <2>. QED
    BY <2>1, <2>2, <2>3, Names, IntentType, OutboxAssumption
       DEF IInv, TypeOK, Unavailable, At, Goto, stateVars, provider
<1>3. LockInv'
  BY <1>1, Names DEF IInv, LockInv, Handling, Ended
<1>4. SpoolInv'
  <2>1. Known' = Known
    BY <1>1 DEF Known
  <2>2. \A i \in Ids \ Known : spool'[i] = "none" /\ taken'[i] = 0
    BY <1>1 DEF IInv, SpoolInv, Backed, Handling
  <2>3. ASSUME NEW q \in Procs
        PROVE  Backed(q)'
    BY <1>1, Names DEF IInv, LockInv, SpoolInv, Backed, Handling, Known, At
  <2>. QED
    BY <1>1, <2>1, <2>2, <2>3 DEF IInv, SpoolInv, Backed
<1>5. HandInv'
  BY <1>1, IntentType, CountTypes
     DEF IInv, LockInv, SpoolInv, Backed, HandInv, HandedOnce, Handling, At
<1>6. ReceiptInv'
  BY <1>1, Names, RingTypes
     DEF IInv, LockInv, ReceiptInv, StaysCancellable, Handling, At
<1>. QED
  BY <1>2, <1>3, <1>4, <1>5, <1>6 DEF IInv

(* Nothing was taken.                                                      *)
LEMMA RefuseStep ==
  ASSUME IInv, NEW p \in Procs, Refuse(p)
  PROVE  IInv'
<1>1. /\ task[p].at = "sending"
      /\ task'[p].at = "refused" /\ task'[p].got = task[p].got
      /\ task'[p].intent = task[p].intent /\ task'[p].batch = task[p].batch
      /\ \A q \in Procs : q # p => task'[q] = task[q]
      /\ UNCHANGED <<spool, subject, receipt, lock, taken, ringing, rung, past>>
  BY Names, DispatchTypes, IntentType
     DEF IInv, TypeOK, Refuse, At, Goto, stateVars, provider
<1>2. TypeOK'
  <2>1. task' \in [Procs -> Tasks]
    BY TaskType, Names
       DEF Tasks, Sending, Ended, Refuse, At, Goto, stateVars, provider
  <2>2. \A q \in Procs : task'[q].at \in Steps(q) /\ task'[q].got \in 0..rung'
    BY <1>1, StepsType, RingTypes, Names DEF Steps, Sending, Ended
  <2>3. past' \in Pasts
    BY PastType, Names, IntentType
       DEF Pasts, Refuse, At, Goto, stateVars, provider
  <2>. QED
    BY <2>1, <2>2, <2>3, Names, IntentType, OutboxAssumption
       DEF IInv, TypeOK, Refuse, At, Goto, stateVars, provider
<1>3. LockInv'
  BY <1>1, Names DEF IInv, LockInv, Handling, Ended
<1>4. SpoolInv'
  <2>1. Known' = Known
    BY <1>1 DEF Known
  <2>2. \A i \in Ids \ Known : spool'[i] = "none" /\ taken'[i] = 0
    BY <1>1 DEF IInv, SpoolInv, Backed, Handling
  <2>3. ASSUME NEW q \in Procs
        PROVE  Backed(q)'
    BY <1>1, Names DEF IInv, LockInv, SpoolInv, Backed, Handling, Known, At
  <2>. QED
    BY <1>1, <2>1, <2>2, <2>3 DEF IInv, SpoolInv, Backed
<1>5. HandInv'
  BY <1>1, IntentType, CountTypes
     DEF IInv, LockInv, SpoolInv, Backed, HandInv, HandedOnce, Handling, At
<1>6. ReceiptInv'
  BY <1>1, Names, RingTypes
     DEF IInv, LockInv, ReceiptInv, StaysCancellable, Handling, At
<1>. QED
  BY <1>2, <1>3, <1>4, <1>5, <1>6 DEF IInv

(* No intent is involved, and the receipt is lost.                         *)
LEMMA SendDirectlyStep ==
  ASSUME IInv, NEW p \in Workers, SendDirectly(p)
  PROVE  IInv'
<1>1. /\ task[p].at = "direct"
      /\ task'[p].at \in {"sent", "failed"}
      /\ task'[p].got = task[p].got
      /\ task'[p].intent = task[p].intent /\ task'[p].batch = task[p].batch
      /\ \A q \in Procs : q # p => task'[q] = task[q]
      /\ \/ rung' = rung /\ ringing' = ringing
         \/ rung' = rung + 1 /\ ringing' = ringing \cup {rung + 1}
      /\ taken' = taken
      /\ rung' > rung => rung' \in past'.lost
      /\ past'.lapses = past.lapses
      /\ past.lost \subseteq past'.lost /\ past'.overtaken = past.overtaken
      /\ past'.refused = past.refused /\ past'.calledOff = past.calledOff
      /\ UNCHANGED <<spool, subject, receipt, lock>>
  <2>0. task[p].intent = 0 /\ p \in Procs
    BY Names DEF IInv, SpoolInv, Backed, SendDirectly
  <2>1. CASE Taken(p) /\ past' = [past EXCEPT !.lost = @ \cup Forgotten] /\ Goto(p, "sent")
    BY <2>0, <2>1, PastType, Names, DispatchTypes
       DEF SendDirectly, Taken, Forgotten, Pasts, At, Goto, stateVars
  <2>2. CASE Goto(p, "failed") /\ UNCHANGED <<provider, past>>
    BY <2>0, <2>2, PastType, Names, DispatchTypes
       DEF SendDirectly, At, Goto, stateVars, provider
  <2>. QED
    BY <2>1, <2>2 DEF SendDirectly
<1>2. TypeOK'
  <2>1. task' \in [Procs -> Tasks]
    BY TaskType, Names
       DEF Tasks, Sending, Ended, SendDirectly, At, Goto, Taken, Urgent,
           Forgotten, stateVars, provider
  <2>2. \A q \in Procs : task'[q].at \in Steps(q) /\ task'[q].got \in 0..rung'
    BY <1>1, StepsType, RingTypes, Names DEF Steps, Sending, Ended
  <2>3. past' \in Pasts
    BY PastType, Names, IntentType
       DEF Pasts, SendDirectly, At, Goto, Taken, Urgent, Forgotten, stateVars,
           provider
  <2>4. /\ taken' \in [Ids -> Nat] /\ rung' \in Nat
        /\ ringing' \subseteq 1..rung' /\ receipt' \in 0..rung'
    <3>1. taken \in [Ids -> Nat]
      BY DEF IInv, TypeOK
    <3>. QED
      BY <1>1, <3>1, RingTypes
  <2>. QED
    BY <2>1, <2>2, <2>3, <2>4, Names, IntentType, OutboxAssumption
       DEF IInv, TypeOK, SendDirectly, At, Goto, Taken, Urgent, Forgotten,
           stateVars, provider
<1>3. LockInv'
  BY <1>1, Names DEF IInv, LockInv, Handling, Ended
<1>4. SpoolInv'
  <2>1. Known' = Known
    BY <1>1 DEF Known
  <2>2. \A i \in Ids \ Known : spool'[i] = "none" /\ taken'[i] = 0
    BY <1>1 DEF IInv, SpoolInv, Backed, Handling
  <2>3. ASSUME NEW q \in Procs
        PROVE  Backed(q)'
    BY <1>1, Names DEF IInv, LockInv, SpoolInv, Backed, Handling, Known, At
  <2>. QED
    BY <1>1, <2>1, <2>2, <2>3 DEF IInv, SpoolInv, Backed
<1>5. HandInv'
  BY <1>1, IntentType, CountTypes
     DEF IInv, LockInv, SpoolInv, Backed, HandInv, HandedOnce, Handling, At
<1>6. ReceiptInv'
  BY <1>1, Names, RingTypes
     DEF IInv, LockInv, ReceiptInv, StaysCancellable, Handling, At
<1>. QED
  BY <1>2, <1>3, <1>4, <1>5, <1>6 DEF IInv

(* The receipt goes into the file, and what it replaces is overtaken.      *)
LEMMA SettleAcceptedStep ==
  ASSUME IInv, NEW p \in Procs, SettleAccepted(p)
  PROVE  IInv'
<1>1. /\ task[p].at = "accepted"
      /\ lock = p /\ lock' = NoOne
      /\ task'[p].at = IF p = Dispatcher THEN "picking" ELSE "sent"
      /\ task'[p].got = task[p].got
      /\ task'[p].intent = task[p].intent /\ task'[p].batch = task[p].batch
      /\ \A q \in Procs : q # p => task'[q] = task[q]
      /\ spool'[task[p].intent] = "none"
      /\ \A i \in Ids : i # task[p].intent => spool'[i] = spool[i]
      /\ receipt' = IF task[p].got # 0 THEN task[p].got ELSE receipt
      /\ receipt \in past'.overtaken \cup {0, receipt'}
      /\ past.overtaken \subseteq past'.overtaken /\ past'.lost = past.lost
      /\ past'.refused = past.refused /\ past'.calledOff = past.calledOff
      /\ past'.lapses = past.lapses
      /\ UNCHANGED <<subject, taken, ringing, rung>>
  BY Names, DispatchTypes, IntentType
     DEF IInv, TypeOK, SettleAccepted, At, Ends, Goto, Release, provider
<1>2. TypeOK'
  <2>1. task' \in [Procs -> Tasks]
    BY TaskType, Names
       DEF Tasks, Sending, Ended, SettleAccepted, At, Ends, Goto, Release,
           provider
  <2>2. \A q \in Procs : task'[q].at \in Steps(q) /\ task'[q].got \in 0..rung'
    BY <1>1, StepsType, RingTypes, Names DEF Steps, Sending, Ended
  <2>3. past' \in Pasts
    <3>1. receipt \in Nat
      BY PastType
    <3>. QED
      BY <3>1, PastType DEF SettleAccepted, Pasts
  <2>4. subject[task[p].intent] \in Subjects /\ receipt' \in 0..rung'
    BY <1>1, RingTypes DEF IInv, TypeOK, SpoolInv, Backed, Handling, Known
  <2>. QED
    BY <2>1, <2>2, <2>3, <2>4, Names, IntentType, OutboxAssumption
       DEF IInv, TypeOK, SettleAccepted, At, Ends, Goto, Release, provider
<1>3. LockInv'
  BY <1>1, Names DEF IInv, LockInv, Handling, Ended
<1>4. SpoolInv'
  <2>1. Known' = Known
    BY <1>1 DEF Known
  <2>2. \A i \in Ids \ Known : spool'[i] = "none" /\ taken'[i] = 0
    BY <1>1 DEF IInv, SpoolInv, Backed, Handling
  <2>3. ASSUME NEW q \in Procs
        PROVE  Backed(q)'
    BY <1>1, Names DEF IInv, LockInv, SpoolInv, Backed, Handling, Known, At
  <2>. QED
    BY <1>1, <2>1, <2>2, <2>3 DEF IInv, SpoolInv, Backed
<1>5. HandInv'
  BY <1>1, IntentType, CountTypes
     DEF IInv, LockInv, SpoolInv, Backed, HandInv, HandedOnce, Handling, At
<1>6. ReceiptInv'
  BY <1>1, Names, RingTypes
     DEF IInv, LockInv, ReceiptInv, StaysCancellable, Handling, At
<1>. QED
  BY <1>2, <1>3, <1>4, <1>5, <1>6 DEF IInv

(* The intent is kept.                                                     *)
LEMMA SettleTransientStep ==
  ASSUME IInv, NEW p \in Procs, SettleTransient(p)
  PROVE  IInv'
<1>1. /\ task[p].at = "transient"
      /\ lock = p /\ lock' = NoOne
      /\ task'[p].at = IF p = Dispatcher THEN "picking" ELSE "queued"
      /\ task'[p].got = task[p].got
      /\ task'[p].intent = task[p].intent /\ task'[p].batch = task[p].batch
      /\ \A q \in Procs : q # p => task'[q] = task[q]
      /\ spool'[task[p].intent] = "later"
      /\ \A i \in Ids : i # task[p].intent => spool'[i] = spool[i]
      /\ UNCHANGED <<subject, receipt, taken, ringing, rung, past>>
  BY Names, DispatchTypes, IntentType
     DEF IInv, TypeOK, SettleTransient, At, Ends, Goto, Release, provider
<1>2. TypeOK'
  <2>1. task' \in [Procs -> Tasks]
    BY TaskType, Names
       DEF Tasks, Sending, Ended, SettleTransient, At, Ends, Goto, Release,
           provider
  <2>2. \A q \in Procs : task'[q].at \in Steps(q) /\ task'[q].got \in 0..rung'
    BY <1>1, StepsType, RingTypes, Names DEF Steps, Sending, Ended
  <2>3. past' \in Pasts
    BY PastType, Names, IntentType
       DEF Pasts, SettleTransient, At, Ends, Goto, Release, provider
  <2>. QED
    BY <2>1, <2>2, <2>3, Names, IntentType, OutboxAssumption
       DEF IInv, TypeOK, SettleTransient, At, Ends, Goto, Release, provider
<1>3. LockInv'
  BY <1>1, Names DEF IInv, LockInv, Handling, Ended
<1>4. SpoolInv'
  <2>1. Known' = Known
    BY <1>1 DEF Known
  <2>2. \A i \in Ids \ Known : spool'[i] = "none" /\ taken'[i] = 0
    BY <1>1 DEF IInv, SpoolInv, Backed, Handling
  <2>3. ASSUME NEW q \in Procs
        PROVE  Backed(q)'
    BY <1>1, Names DEF IInv, LockInv, SpoolInv, Backed, Handling, Known, At
  <2>. QED
    BY <1>1, <2>1, <2>2, <2>3 DEF IInv, SpoolInv, Backed
<1>5. HandInv'
  BY <1>1, IntentType, CountTypes
     DEF IInv, LockInv, SpoolInv, Backed, HandInv, HandedOnce, Handling, At
<1>6. ReceiptInv'
  BY <1>1, Names, RingTypes
     DEF IInv, LockInv, ReceiptInv, StaysCancellable, Handling, At
<1>. QED
  BY <1>2, <1>3, <1>4, <1>5, <1>6 DEF IInv

(* The intent is given up.                                                 *)
LEMMA SettleRefusedStep ==
  ASSUME IInv, NEW p \in Procs, SettleRefused(p)
  PROVE  IInv'
<1>1. /\ task[p].at = "refused"
      /\ lock = p /\ lock' = NoOne
      /\ task'[p].at = IF p = Dispatcher THEN "picking" ELSE "failed"
      /\ task'[p].got = task[p].got
      /\ task'[p].intent = task[p].intent /\ task'[p].batch = task[p].batch
      /\ \A q \in Procs : q # p => task'[q] = task[q]
      /\ spool'[task[p].intent] = "none"
      /\ \A i \in Ids : i # task[p].intent => spool'[i] = spool[i]
      /\ past'.refused = past.refused \cup {task[p].intent} /\ past'.calledOff = past.calledOff
      /\ past'.lost = past.lost /\ past'.overtaken = past.overtaken
      /\ past'.lapses = past.lapses
      /\ UNCHANGED <<subject, receipt, taken, ringing, rung>>
  BY Names, DispatchTypes, IntentType
     DEF IInv, TypeOK, SettleRefused, At, Ends, Goto, Release, provider
<1>2. TypeOK'
  <2>1. task' \in [Procs -> Tasks]
    BY TaskType, Names
       DEF Tasks, Sending, Ended, SettleRefused, At, Ends, Goto, Release,
           provider
  <2>2. \A q \in Procs : task'[q].at \in Steps(q) /\ task'[q].got \in 0..rung'
    BY <1>1, StepsType, RingTypes, Names DEF Steps, Sending, Ended
  <2>3. past' \in Pasts
    BY PastType, Names, IntentType
       DEF Pasts, SettleRefused, At, Ends, Goto, Release, provider
  <2>. QED
    BY <2>1, <2>2, <2>3, Names, IntentType, OutboxAssumption
       DEF IInv, TypeOK, SettleRefused, At, Ends, Goto, Release, provider
<1>3. LockInv'
  BY <1>1, Names DEF IInv, LockInv, Handling, Ended
<1>4. SpoolInv'
  <2>1. Known' = Known
    BY <1>1 DEF Known
  <2>2. \A i \in Ids \ Known : spool'[i] = "none" /\ taken'[i] = 0
    BY <1>1 DEF IInv, SpoolInv, Backed, Handling
  <2>3. ASSUME NEW q \in Procs
        PROVE  Backed(q)'
    BY <1>1, Names DEF IInv, LockInv, SpoolInv, Backed, Handling, Known, At
  <2>. QED
    BY <1>1, <2>1, <2>2, <2>3 DEF IInv, SpoolInv, Backed, Handling
<1>5. HandInv'
  BY <1>1, IntentType, CountTypes
     DEF IInv, LockInv, SpoolInv, Backed, HandInv, HandedOnce, Handling, At
<1>6. ReceiptInv'
  BY <1>1, Names, RingTypes
     DEF IInv, LockInv, ReceiptInv, StaysCancellable, Handling, At
<1>. QED
  BY <1>2, <1>3, <1>4, <1>5, <1>6 DEF IInv

(* The intent stays as it is; if it was accepted, this is a lapse.         *)
LEMMA StateBusyStep ==
  ASSUME IInv, NEW p \in Procs, StateBusy(p)
  PROVE  IInv'
<1>1. /\ task[p].at \in {"holding", "accepted", "transient", "refused"}
      /\ lock = p /\ lock' = NoOne
      /\ task'[p].at = IF p = Dispatcher THEN "picking" ELSE "queued"
      /\ task'[p].got = task[p].got
      /\ task'[p].intent = task[p].intent /\ task'[p].batch = task[p].batch
      /\ \A q \in Procs : q # p => task'[q] = task[q]
      /\ \A i \in Ids : past'.lapses[i] >= past.lapses[i]
      /\ At(p, "accepted") => past'.lapses[task[p].intent] = past.lapses[task[p].intent] + 1
      /\ At(p, "accepted") /\ task[p].got # 0 => task[p].got \in past'.lost
      /\ past.lost \subseteq past'.lost /\ past'.overtaken = past.overtaken
      /\ past'.refused = past.refused /\ past'.calledOff = past.calledOff
      /\ UNCHANGED <<spool, subject, receipt, taken, ringing, rung>>
  <2>1. CASE At(p, "accepted")
    BY <2>1, Names, DispatchTypes, IntentType
       DEF IInv, TypeOK, StateBusy, At, Ends, Goto, Release, Fault, stateVars,
           provider, Handling
  <2>2. CASE ~At(p, "accepted")
    BY <2>2, Names, DispatchTypes, IntentType
       DEF IInv, TypeOK, StateBusy, At, Ends, Goto, Release, Fault, stateVars,
           provider, Handling
  <2>. QED
    BY <2>1, <2>2 DEF StateBusy
<1>2. TypeOK'
  <2>1. task' \in [Procs -> Tasks]
    BY TaskType, Names
       DEF Tasks, Sending, Ended, StateBusy, At, Ends, Goto, Release, Fault,
           stateVars, provider, Handling
  <2>2. \A q \in Procs : task'[q].at \in Steps(q) /\ task'[q].got \in 0..rung'
    BY <1>1, StepsType, RingTypes, Names DEF Steps, Sending, Ended
  <2>3. past' \in Pasts
    <3>1. CASE At(p, "accepted")
      <4>1. task[p].intent \in Ids /\ task[p].got \in Nat /\ past.lapses[task[p].intent] + 1 \in Nat
        BY <3>1, IntentType, CountTypes, RingTypes DEF At
      <4>. QED
        BY <3>1, <4>1, PastType DEF StateBusy, Pasts
    <3>2. CASE ~At(p, "accepted")
      BY <3>2, PastType DEF StateBusy
    <3>. QED
      BY <3>1, <3>2
  <2>. QED
    BY <2>1, <2>2, <2>3, Names, IntentType, OutboxAssumption
       DEF IInv, TypeOK, StateBusy, At, Ends, Goto, Release, Fault, stateVars,
           provider, Handling
<1>3. LockInv'
  BY <1>1, Names DEF IInv, LockInv, Handling, Ended
<1>4. SpoolInv'
  <2>1. Known' = Known
    BY <1>1 DEF Known
  <2>2. \A i \in Ids \ Known : spool'[i] = "none" /\ taken'[i] = 0
    BY <1>1 DEF IInv, SpoolInv, Backed, Handling
  <2>3. ASSUME NEW q \in Procs
        PROVE  Backed(q)'
    BY <1>1, Names DEF IInv, LockInv, SpoolInv, Backed, Handling, Known, At
  <2>. QED
    BY <1>1, <2>1, <2>2, <2>3 DEF IInv, SpoolInv, Backed
<1>5. HandInv'
  <2>1. CASE At(p, "accepted")
    <3>. DEFINE j == task[p].intent
    <3>1. j \in Ids /\ past'.lapses[j] = past.lapses[j] + 1
      BY <1>1, <2>1, IntentType DEF At
    <3>2. \A i \in Ids : past'.lapses[i] \in Nat
      BY <1>2 DEF TypeOK, Pasts
    <3>. HIDE DEF j
    <3>3. HandedOnce'
      BY <1>1, <3>2, CountTypes DEF IInv, HandInv, HandedOnce
    <3>4. taken[j] <= past'.lapses[j]
      BY <3>1, CountTypes DEF IInv, HandInv, HandedOnce
    <3>. QED
      BY <1>1, <2>1, <3>2, <3>3, <3>4, CountTypes
         DEF IInv, LockInv, HandInv, Handling, At, j
  <2>2. CASE ~At(p, "accepted")
    <3>1. \A i \in Ids : past'.lapses[i] \in Nat
      BY <1>2 DEF TypeOK, Pasts
    <3>. QED
      BY <1>1, <2>2, <3>1, CountTypes
         DEF IInv, LockInv, HandInv, HandedOnce, Handling, At
  <2>. QED
    BY <2>1, <2>2
<1>6. ReceiptInv'
  BY <1>1, Names, RingTypes
     DEF IInv, LockInv, ReceiptInv, StaysCancellable, Handling, At
<1>. QED
  BY <1>2, <1>3, <1>4, <1>5, <1>6 DEF IInv

(* A caller wants to call off.                                             *)
LEMMA RecallStep ==
  ASSUME IInv, NEW p \in Workers, Recall(p)
  PROVE  IInv'
<1>1. /\ task[p].at = "idle"
      /\ task'[p].at = "recall" /\ task'[p].got = task[p].got
      /\ task'[p].intent = task[p].intent /\ task'[p].batch = task[p].batch
      /\ \A q \in Procs : q # p => task'[q] = task[q]
      /\ UNCHANGED <<spool, subject, receipt, lock, taken, ringing, rung, past>>
  BY Names, DispatchTypes, IntentType
     DEF IInv, TypeOK, Recall, At, Goto, stateVars, provider
<1>2. TypeOK'
  <2>1. task' \in [Procs -> Tasks]
    BY TaskType, Names
       DEF Tasks, Sending, Ended, Recall, At, Goto, stateVars, provider
  <2>2. \A q \in Procs : task'[q].at \in Steps(q) /\ task'[q].got \in 0..rung'
    BY <1>1, StepsType, RingTypes, Names DEF Steps, Sending, Ended
  <2>3. past' \in Pasts
    BY PastType, Names, IntentType
       DEF Pasts, Recall, At, Goto, stateVars, provider
  <2>. QED
    BY <2>1, <2>2, <2>3, Names, IntentType, OutboxAssumption
       DEF IInv, TypeOK, Recall, At, Goto, stateVars, provider
<1>3. LockInv'
  BY <1>1, Names DEF IInv, LockInv, Handling, Ended
<1>4. SpoolInv'
  <2>1. Known' = Known
    BY <1>1 DEF Known
  <2>2. \A i \in Ids \ Known : spool'[i] = "none" /\ taken'[i] = 0
    BY <1>1 DEF IInv, SpoolInv, Backed, Handling
  <2>3. ASSUME NEW q \in Procs
        PROVE  Backed(q)'
    BY <1>1, Names DEF IInv, LockInv, SpoolInv, Backed, Handling, Known, At
  <2>. QED
    BY <1>1, <2>1, <2>2, <2>3 DEF IInv, SpoolInv, Backed
<1>5. HandInv'
  BY <1>1, IntentType, CountTypes
     DEF IInv, LockInv, SpoolInv, Backed, HandInv, HandedOnce, Handling, At
<1>6. ReceiptInv'
  BY <1>1, Names, RingTypes
     DEF IInv, LockInv, ReceiptInv, StaysCancellable, Handling, At
<1>. QED
  BY <1>2, <1>3, <1>4, <1>5, <1>6 DEF IInv

(* It gives up.                                                            *)
LEMMA RecallBusyStep ==
  ASSUME IInv, NEW p \in Workers, RecallBusy(p)
  PROVE  IInv'
<1>1. /\ task[p].at = "recall"
      /\ task'[p].at = "idle" /\ task'[p].got = task[p].got
      /\ task'[p].intent = task[p].intent /\ task'[p].batch = task[p].batch
      /\ \A q \in Procs : q # p => task'[q] = task[q]
      /\ UNCHANGED <<spool, subject, receipt, lock, taken, ringing, rung, past>>
  BY Names, DispatchTypes, IntentType
     DEF IInv, TypeOK, RecallBusy, At, Goto, stateVars, provider
<1>2. TypeOK'
  <2>1. task' \in [Procs -> Tasks]
    BY TaskType, Names
       DEF Tasks, Sending, Ended, RecallBusy, At, Goto, stateVars, provider
  <2>2. \A q \in Procs : task'[q].at \in Steps(q) /\ task'[q].got \in 0..rung'
    BY <1>1, StepsType, RingTypes, Names DEF Steps, Sending, Ended
  <2>3. past' \in Pasts
    BY PastType, Names, IntentType
       DEF Pasts, RecallBusy, At, Goto, stateVars, provider
  <2>. QED
    BY <2>1, <2>2, <2>3, Names, IntentType, OutboxAssumption
       DEF IInv, TypeOK, RecallBusy, At, Goto, stateVars, provider
<1>3. LockInv'
  BY <1>1, Names DEF IInv, LockInv, Handling, Ended
<1>4. SpoolInv'
  <2>1. Known' = Known
    BY <1>1 DEF Known
  <2>2. \A i \in Ids \ Known : spool'[i] = "none" /\ taken'[i] = 0
    BY <1>1 DEF IInv, SpoolInv, Backed, Handling
  <2>3. ASSUME NEW q \in Procs
        PROVE  Backed(q)'
    BY <1>1, Names DEF IInv, LockInv, SpoolInv, Backed, Handling, Known, At
  <2>. QED
    BY <1>1, <2>1, <2>2, <2>3 DEF IInv, SpoolInv, Backed
<1>5. HandInv'
  BY <1>1, IntentType, CountTypes
     DEF IInv, LockInv, SpoolInv, Backed, HandInv, HandedOnce, Handling, At
<1>6. ReceiptInv'
  BY <1>1, Names, RingTypes
     DEF IInv, LockInv, ReceiptInv, StaysCancellable, Handling, At
<1>. QED
  BY <1>2, <1>3, <1>4, <1>5, <1>6 DEF IInv

(* The spooled emergencies go; nobody is sending.                          *)
LEMMA RecallReadStep ==
  ASSUME IInv, NEW p \in Workers, RecallRead(p)
  PROVE  IInv'
<1>1. /\ task[p].at = "recall"
      /\ lock = NoOne
      /\ \/ lock' = lock /\ task'[p].at = "idle"
         \/ lock' = p /\ task'[p].at = "recalling"
      /\ task'[p].got = task[p].got
      /\ task'[p].intent = task[p].intent /\ task'[p].batch = task[p].batch
      /\ \A q \in Procs : q # p => task'[q] = task[q]
      /\ \A i \in Ids : spool'[i] = IF i \in Spooled /\ Urgent(i) THEN "none" ELSE spool[i]
      /\ past'.calledOff \subseteq past.calledOff \cup Spooled /\ past'.refused = past.refused
      /\ past'.lost = past.lost /\ past'.overtaken = past.overtaken
      /\ past'.lapses = past.lapses
      /\ UNCHANGED <<subject, receipt, taken, ringing, rung>>
  <2>. DEFINE off == {i \in Spooled : Urgent(i)}
  <2>1. /\ spool' = [i \in Ids |-> IF i \in off THEN "none" ELSE spool[i]]
        /\ past' = [past EXCEPT !.calledOff = @ \cup off]
    BY DEF RecallRead
  <2>2. /\ past'.calledOff = past.calledOff \cup off /\ past'.refused = past.refused
        /\ past'.lost = past.lost /\ past'.overtaken = past.overtaken
        /\ past'.lapses = past.lapses
    BY <2>1, PastType DEF Pasts
  <2>3. \A i \in Ids : spool'[i] = IF i \in Spooled /\ Urgent(i) THEN "none" ELSE spool[i]
    BY <2>1
  <2>4. p \in Procs /\ UNCHANGED <<subject, receipt, taken, ringing, rung>>
    BY Names DEF RecallRead, provider
  <2>. HIDE DEF off
  <2>5. CASE receipt = 0
    <3>1. task[p].at = "recall" /\ lock = NoOne /\ lock' = lock /\ Goto(p, "idle")
      BY <2>5 DEF RecallRead, At
    <3>. QED
      BY <2>2, <2>3, <2>4, <3>1, DispatchTypes DEF Goto, off
  <2>6. CASE receipt # 0
    <3>1. task[p].at = "recall" /\ lock = NoOne /\ lock' = p /\ Goto(p, "recalling")
      BY <2>6 DEF RecallRead, At
    <3>. QED
      BY <2>2, <2>3, <2>4, <3>1, DispatchTypes DEF Goto, off
  <2>. QED
    BY <2>5, <2>6
<1>2. TypeOK'
  <2>1. task' \in [Procs -> Tasks]
    BY TaskType, Names
       DEF Tasks, Sending, Ended, RecallRead, At, Goto, provider, Spooled,
           Urgent
  <2>2. \A q \in Procs : task'[q].at \in Steps(q) /\ task'[q].got \in 0..rung'
    BY <1>1, StepsType, RingTypes, Names DEF Steps, Sending, Ended
  <2>3. past' \in Pasts
    BY PastType, Names, IntentType
       DEF Pasts, RecallRead, At, Goto, provider, Spooled, Urgent
  <2>. QED
    BY <2>1, <2>2, <2>3, Names, IntentType, OutboxAssumption
       DEF IInv, TypeOK, RecallRead, At, Goto, provider, Spooled, Urgent
<1>3. LockInv'
  BY <1>1, Names DEF IInv, LockInv, Handling, Ended
<1>4. SpoolInv'
  <2>1. Known' = Known
    BY <1>1 DEF Known
  <2>2. \A i \in Ids \ Known : spool'[i] = "none" /\ taken'[i] = 0
    BY <1>1 DEF IInv, SpoolInv, Backed, Handling, Spooled
  <2>3. ASSUME NEW q \in Procs
        PROVE  Backed(q)'
    BY <1>1, Names
       DEF IInv, LockInv, SpoolInv, Backed, Handling, Known, At, Spooled
  <2>. QED
    BY <1>1, <2>1, <2>2, <2>3 DEF IInv, SpoolInv, Backed, Spooled, Known
<1>5. HandInv'
  BY <1>1, IntentType, CountTypes
     DEF IInv, LockInv, SpoolInv, Backed, HandInv, HandedOnce, Handling, At
<1>6. ReceiptInv'
  BY <1>1, Names, RingTypes
     DEF IInv, LockInv, ReceiptInv, StaysCancellable, Handling, At
<1>. QED
  BY <1>2, <1>3, <1>4, <1>5, <1>6 DEF IInv

(* It rings no more.                                                       *)
LEMMA RecallAnsweredStep ==
  ASSUME IInv, NEW p \in Workers, RecallAnswered(p)
  PROVE  IInv'
<1>1. /\ task[p].at = "recalling"
      /\ task'[p].at = "recalled" /\ task'[p].got = task[p].got
      /\ task'[p].intent = task[p].intent /\ task'[p].batch = task[p].batch
      /\ \A q \in Procs : q # p => task'[q] = task[q]
      /\ ringing' = ringing \ {receipt}
      /\ UNCHANGED <<spool, subject, receipt, lock, taken, rung, past>>
  BY Names, DispatchTypes, IntentType
     DEF IInv, TypeOK, RecallAnswered, At, Goto, stateVars
<1>2. TypeOK'
  <2>1. task' \in [Procs -> Tasks]
    BY TaskType, Names
       DEF Tasks, Sending, Ended, RecallAnswered, At, Goto, stateVars
  <2>2. \A q \in Procs : task'[q].at \in Steps(q) /\ task'[q].got \in 0..rung'
    BY <1>1, StepsType, RingTypes, Names DEF Steps, Sending, Ended
  <2>3. past' \in Pasts
    BY PastType, Names, IntentType
       DEF Pasts, RecallAnswered, At, Goto, stateVars
  <2>. QED
    BY <2>1, <2>2, <2>3, Names, IntentType, OutboxAssumption
       DEF IInv, TypeOK, RecallAnswered, At, Goto, stateVars
<1>3. LockInv'
  BY <1>1, Names DEF IInv, LockInv, Handling, Ended
<1>4. SpoolInv'
  <2>1. Known' = Known
    BY <1>1 DEF Known
  <2>2. \A i \in Ids \ Known : spool'[i] = "none" /\ taken'[i] = 0
    BY <1>1 DEF IInv, SpoolInv, Backed, Handling
  <2>3. ASSUME NEW q \in Procs
        PROVE  Backed(q)'
    BY <1>1, Names DEF IInv, LockInv, SpoolInv, Backed, Handling, Known, At
  <2>. QED
    BY <1>1, <2>1, <2>2, <2>3 DEF IInv, SpoolInv, Backed
<1>5. HandInv'
  BY <1>1, IntentType, CountTypes
     DEF IInv, LockInv, SpoolInv, Backed, HandInv, HandedOnce, Handling, At
<1>6. ReceiptInv'
  BY <1>1, Names, RingTypes
     DEF IInv, LockInv, ReceiptInv, StaysCancellable, Handling, At
<1>. QED
  BY <1>2, <1>3, <1>4, <1>5, <1>6 DEF IInv

(* The receipt is lost.                                                    *)
LEMMA RecallRejectedStep ==
  ASSUME IInv, NEW p \in Workers, RecallRejected(p)
  PROVE  IInv'
<1>1. /\ task[p].at = "recalling"
      /\ task'[p].at = "recalled" /\ task'[p].got = task[p].got
      /\ task'[p].intent = task[p].intent /\ task'[p].batch = task[p].batch
      /\ \A q \in Procs : q # p => task'[q] = task[q]
      /\ receipt \in past'.lost
      /\ past.lost \subseteq past'.lost /\ past'.overtaken = past.overtaken
      /\ past'.refused = past.refused /\ past'.calledOff = past.calledOff
      /\ past'.lapses = past.lapses
      /\ UNCHANGED <<spool, subject, receipt, lock, taken, ringing, rung>>
  BY Names, DispatchTypes, IntentType
     DEF IInv, TypeOK, RecallRejected, At, Goto, Fault, stateVars, provider
<1>2. TypeOK'
  <2>1. task' \in [Procs -> Tasks]
    BY TaskType, Names
       DEF Tasks, Sending, Ended, RecallRejected, At, Goto, Fault, stateVars,
           provider
  <2>2. \A q \in Procs : task'[q].at \in Steps(q) /\ task'[q].got \in 0..rung'
    BY <1>1, StepsType, RingTypes, Names DEF Steps, Sending, Ended
  <2>3. past' \in Pasts
    BY PastType, Names, IntentType
       DEF Pasts, RecallRejected, At, Goto, Fault, stateVars, provider
  <2>. QED
    BY <2>1, <2>2, <2>3, Names, IntentType, OutboxAssumption
       DEF IInv, TypeOK, RecallRejected, At, Goto, Fault, stateVars, provider
<1>3. LockInv'
  BY <1>1, Names DEF IInv, LockInv, Handling, Ended
<1>4. SpoolInv'
  <2>1. Known' = Known
    BY <1>1 DEF Known
  <2>2. \A i \in Ids \ Known : spool'[i] = "none" /\ taken'[i] = 0
    BY <1>1 DEF IInv, SpoolInv, Backed, Handling
  <2>3. ASSUME NEW q \in Procs
        PROVE  Backed(q)'
    BY <1>1, Names DEF IInv, LockInv, SpoolInv, Backed, Handling, Known, At
  <2>. QED
    BY <1>1, <2>1, <2>2, <2>3 DEF IInv, SpoolInv, Backed
<1>5. HandInv'
  BY <1>1, IntentType, CountTypes
     DEF IInv, LockInv, SpoolInv, Backed, HandInv, HandedOnce, Handling, At
<1>6. ReceiptInv'
  BY <1>1, Names, RingTypes
     DEF IInv, LockInv, ReceiptInv, StaysCancellable, Handling, At
<1>. QED
  BY <1>2, <1>3, <1>4, <1>5, <1>6 DEF IInv

(* The receipt stays.                                                      *)
LEMMA RecallUnavailableStep ==
  ASSUME IInv, NEW p \in Workers, RecallUnavailable(p)
  PROVE  IInv'
<1>1. /\ task[p].at = "recalling"
      /\ lock = p /\ lock' = NoOne
      /\ task'[p].at = "idle" /\ task'[p].got = task[p].got
      /\ task'[p].intent = task[p].intent /\ task'[p].batch = task[p].batch
      /\ \A q \in Procs : q # p => task'[q] = task[q]
      /\ UNCHANGED <<spool, subject, receipt, taken, ringing, rung, past>>
  BY Names, DispatchTypes, IntentType
     DEF IInv, TypeOK, RecallUnavailable, At, Goto, Release, stateVars, provider
<1>2. TypeOK'
  <2>1. task' \in [Procs -> Tasks]
    BY TaskType, Names
       DEF Tasks, Sending, Ended, RecallUnavailable, At, Goto, Release,
           stateVars, provider
  <2>2. \A q \in Procs : task'[q].at \in Steps(q) /\ task'[q].got \in 0..rung'
    BY <1>1, StepsType, RingTypes, Names DEF Steps, Sending, Ended
  <2>3. past' \in Pasts
    BY PastType, Names, IntentType
       DEF Pasts, RecallUnavailable, At, Goto, Release, stateVars, provider
  <2>. QED
    BY <2>1, <2>2, <2>3, Names, IntentType, OutboxAssumption
       DEF IInv, TypeOK, RecallUnavailable, At, Goto, Release, stateVars,
           provider
<1>3. LockInv'
  BY <1>1, Names DEF IInv, LockInv, Handling, Ended
<1>4. SpoolInv'
  <2>1. Known' = Known
    BY <1>1 DEF Known
  <2>2. \A i \in Ids \ Known : spool'[i] = "none" /\ taken'[i] = 0
    BY <1>1 DEF IInv, SpoolInv, Backed, Handling
  <2>3. ASSUME NEW q \in Procs
        PROVE  Backed(q)'
    BY <1>1, Names DEF IInv, LockInv, SpoolInv, Backed, Handling, Known, At
  <2>. QED
    BY <1>1, <2>1, <2>2, <2>3 DEF IInv, SpoolInv, Backed
<1>5. HandInv'
  BY <1>1, IntentType, CountTypes
     DEF IInv, LockInv, SpoolInv, Backed, HandInv, HandedOnce, Handling, At
<1>6. ReceiptInv'
  BY <1>1, Names, RingTypes
     DEF IInv, LockInv, ReceiptInv, StaysCancellable, Handling, At
<1>. QED
  BY <1>2, <1>3, <1>4, <1>5, <1>6 DEF IInv

(* The receipt goes: it does not ring, or is lost.                         *)
LEMMA RecallSettlesStep ==
  ASSUME IInv, NEW p \in Workers, RecallSettles(p)
  PROVE  IInv'
<1>1. /\ task[p].at = "recalled"
      /\ lock = p /\ lock' = NoOne
      /\ task'[p].at = "idle" /\ task'[p].got = task[p].got
      /\ task'[p].intent = task[p].intent /\ task'[p].batch = task[p].batch
      /\ \A q \in Procs : q # p => task'[q] = task[q]
      /\ receipt' = 0
      /\ UNCHANGED <<spool, subject, taken, ringing, rung, past>>
  BY Names, DispatchTypes, IntentType
     DEF IInv, TypeOK, RecallSettles, At, Goto, Release, provider
<1>2. TypeOK'
  <2>1. task' \in [Procs -> Tasks]
    BY TaskType, Names
       DEF Tasks, Sending, Ended, RecallSettles, At, Goto, Release, provider
  <2>2. \A q \in Procs : task'[q].at \in Steps(q) /\ task'[q].got \in 0..rung'
    BY <1>1, StepsType, RingTypes, Names DEF Steps, Sending, Ended
  <2>3. past' \in Pasts
    BY PastType, Names, IntentType
       DEF Pasts, RecallSettles, At, Goto, Release, provider
  <2>. QED
    BY <2>1, <2>2, <2>3, Names, IntentType, OutboxAssumption
       DEF IInv, TypeOK, RecallSettles, At, Goto, Release, provider
<1>3. LockInv'
  BY <1>1, Names DEF IInv, LockInv, Handling, Ended
<1>4. SpoolInv'
  <2>1. Known' = Known
    BY <1>1 DEF Known
  <2>2. \A i \in Ids \ Known : spool'[i] = "none" /\ taken'[i] = 0
    BY <1>1 DEF IInv, SpoolInv, Backed, Handling
  <2>3. ASSUME NEW q \in Procs
        PROVE  Backed(q)'
    BY <1>1, Names DEF IInv, LockInv, SpoolInv, Backed, Handling, Known, At
  <2>. QED
    BY <1>1, <2>1, <2>2, <2>3 DEF IInv, SpoolInv, Backed
<1>5. HandInv'
  BY <1>1, IntentType, CountTypes
     DEF IInv, LockInv, SpoolInv, Backed, HandInv, HandedOnce, Handling, At
<1>6. ReceiptInv'
  BY <1>1, Names, RingTypes
     DEF IInv, LockInv, ReceiptInv, StaysCancellable, Handling, At
<1>. QED
  BY <1>2, <1>3, <1>4, <1>5, <1>6 DEF IInv

(* The batch is of spooled intents.                                        *)
LEMMA CollectStep ==
  ASSUME IInv, Collect
  PROVE  IInv'
<1>1. /\ task[Dispatcher].at = "idle"
      /\ task'[Dispatcher].at = "picking" /\ task'[Dispatcher].got = 0
      /\ task'[Dispatcher].intent = 0
      /\ \A q \in Procs : q # Dispatcher => task'[q] = task[q]
      /\ \A i \in task'[Dispatcher].batch : i \in Ids /\ spool[i] = "due"
      /\ UNCHANGED <<spool, subject, receipt, lock, taken, ringing, rung, past>>
  BY Names, DispatchTypes, IntentType
     DEF IInv, TypeOK, Collect, At, stateVars, provider, Idle
<1>2. TypeOK'
  <2>1. task' \in [Procs -> Tasks]
    BY TaskType, Names
       DEF Tasks, Sending, Ended, Collect, At, stateVars, provider, Idle
  <2>2. \A q \in Procs : task'[q].at \in Steps(q) /\ task'[q].got \in 0..rung'
    BY <1>1, StepsType, RingTypes, Names DEF Steps, Sending, Ended
  <2>3. past' \in Pasts
    BY PastType, Names, IntentType
       DEF Pasts, Collect, At, stateVars, provider, Idle
  <2>. QED
    BY <2>1, <2>2, <2>3, Names, IntentType, OutboxAssumption
       DEF IInv, TypeOK, Collect, At, stateVars, provider, Idle
<1>3. LockInv'
  BY <1>1, Names DEF IInv, LockInv, Handling, Ended
<1>4. SpoolInv'
  <2>1. Known' = Known
    BY <1>1 DEF Known
  <2>2. \A i \in Ids \ Known : spool'[i] = "none" /\ taken'[i] = 0
    BY <1>1 DEF IInv, SpoolInv, Backed, Handling
  <2>3. ASSUME NEW q \in Procs
        PROVE  Backed(q)'
    <3>1. CASE q = Dispatcher
      <4>1. Spooled \subseteq Known
        BY DEF IInv, SpoolInv, Spooled
      <4>2. /\ task'[q].batch \subseteq Spooled
            /\ task'[q].at \in {"waiting", "sent", "picking"}
            /\ task'[q].at = "waiting" => task'[q].intent \in Spooled
        BY <1>1, <3>1, Names DEF Spooled
      <4>. QED
        BY <1>1, <2>1, <3>1, <4>1, <4>2 DEF Backed, Handling, At
    <3>2. CASE q # Dispatcher
      <4>1. Backed(q) /\ task'[q] = task[q] /\ spool' = spool
        BY <1>1, <3>2 DEF IInv, SpoolInv
      <4>. QED
        BY <2>1, <4>1 DEF Backed, At
    <3>. QED
      BY <3>1, <3>2
  <2>. QED
    BY <1>1, <2>1, <2>2, <2>3 DEF IInv, SpoolInv, Backed
<1>5. HandInv'
  BY <1>1, IntentType, CountTypes
     DEF IInv, LockInv, SpoolInv, Backed, HandInv, HandedOnce, Handling, At
<1>6. ReceiptInv'
  BY <1>1, Names, RingTypes
     DEF IInv, LockInv, ReceiptInv, StaysCancellable, Handling, At
<1>. QED
  BY <1>2, <1>3, <1>4, <1>5, <1>6 DEF IInv

(* What is sent is due already.                                            *)
LEMMA RipensStep ==
  ASSUME IInv, NEW i \in Ids, Ripens(i)
  PROVE  IInv'
<1>1. /\ spool[i] = "later" /\ spool'[i] = "due"
      /\ \A j \in Ids : j # i => spool'[j] = spool[j]
      /\ UNCHANGED <<subject, receipt, lock, task, taken, ringing, rung, past>>
  BY Names, DispatchTypes, IntentType DEF IInv, TypeOK, Ripens, provider
<1>2. TypeOK'
  <2>1. task' \in [Procs -> Tasks]
    BY TaskType, Names DEF Tasks, Sending, Ended, Ripens, provider
  <2>2. \A q \in Procs : task'[q].at \in Steps(q) /\ task'[q].got \in 0..rung'
    BY <1>1, StepsType, RingTypes, Names DEF Steps, Sending, Ended
  <2>3. past' \in Pasts
    BY PastType, Names, IntentType DEF Pasts, Ripens, provider
  <2>. QED
    BY <2>1, <2>2, <2>3, Names, IntentType, OutboxAssumption
       DEF IInv, TypeOK, Ripens, provider
<1>3. LockInv'
  BY <1>1, Names DEF IInv, LockInv, Handling, Ended
<1>4. SpoolInv'
  <2>1. Known' = Known
    BY <1>1 DEF Known
  <2>2. \A j \in Ids \ Known : spool'[j] = "none" /\ taken'[j] = 0
    BY <1>1 DEF IInv, SpoolInv, Backed, Handling
  <2>3. ASSUME NEW q \in Procs
        PROVE  Backed(q)'
    BY <1>1, Names DEF IInv, LockInv, SpoolInv, Backed, Handling, Known, At
  <2>. QED
    BY <1>1, <2>1, <2>2, <2>3 DEF IInv, SpoolInv, Backed
<1>5. HandInv'
  BY <1>1, IntentType, CountTypes
     DEF IInv, LockInv, SpoolInv, Backed, HandInv, HandedOnce, Handling, At
<1>6. ReceiptInv'
  BY <1>1, Names, RingTypes
     DEF IInv, LockInv, ReceiptInv, StaysCancellable, Handling, At
<1>. QED
  BY <1>2, <1>3, <1>4, <1>5, <1>6 DEF IInv

(* Nothing else remembers the window.                                      *)
LEMMA WindowEndsStep ==
  ASSUME IInv, NEW s \in Subjects, WindowEnds(s)
  PROVE  IInv'
<1>1. /\ UNCHANGED <<spool, subject, receipt, lock, task, taken, ringing, rung, past>>
  BY Names, DispatchTypes, IntentType DEF IInv, TypeOK, WindowEnds, provider
<1>2. TypeOK'
  <2>1. task' \in [Procs -> Tasks]
    BY TaskType, Names DEF Tasks, Sending, Ended, WindowEnds, provider
  <2>2. \A q \in Procs : task'[q].at \in Steps(q) /\ task'[q].got \in 0..rung'
    BY <1>1, StepsType, RingTypes, Names DEF Steps, Sending, Ended
  <2>3. past' \in Pasts
    BY PastType, Names, IntentType DEF Pasts, WindowEnds, provider
  <2>. QED
    BY <2>1, <2>2, <2>3, Names, IntentType, OutboxAssumption
       DEF IInv, TypeOK, WindowEnds, provider
<1>3. LockInv'
  BY <1>1, Names DEF IInv, LockInv, Handling, Ended
<1>4. SpoolInv'
  <2>1. Known' = Known
    BY <1>1 DEF Known
  <2>2. \A i \in Ids \ Known : spool'[i] = "none" /\ taken'[i] = 0
    BY <1>1 DEF IInv, SpoolInv, Backed, Handling
  <2>3. ASSUME NEW q \in Procs
        PROVE  Backed(q)'
    BY <1>1, Names DEF IInv, LockInv, SpoolInv, Backed, Handling, Known, At
  <2>. QED
    BY <1>1, <2>1, <2>2, <2>3 DEF IInv, SpoolInv, Backed
<1>5. HandInv'
  BY <1>1, IntentType, CountTypes
     DEF IInv, LockInv, SpoolInv, Backed, HandInv, HandedOnce, Handling, At
<1>6. ReceiptInv'
  BY <1>1, Names, RingTypes
     DEF IInv, LockInv, ReceiptInv, StaysCancellable, Handling, At
<1>. QED
  BY <1>2, <1>3, <1>4, <1>5, <1>6 DEF IInv

(* Less rings.                                                             *)
LEMMA ExpiresStep ==
  ASSUME IInv, NEW r \in Receipts, Expires(r)
  PROVE  IInv'
<1>1. /\ ringing' \subseteq ringing
      /\ UNCHANGED <<spool, subject, receipt, lock, task, taken, rung, past>>
  BY Names, DispatchTypes, IntentType DEF IInv, TypeOK, Expires, stateVars
<1>2. TypeOK'
  <2>1. task' \in [Procs -> Tasks]
    BY TaskType, Names DEF Tasks, Sending, Ended, Expires, stateVars
  <2>2. \A q \in Procs : task'[q].at \in Steps(q) /\ task'[q].got \in 0..rung'
    BY <1>1, StepsType, RingTypes, Names DEF Steps, Sending, Ended
  <2>3. past' \in Pasts
    BY PastType, Names, IntentType DEF Pasts, Expires, stateVars
  <2>. QED
    BY <2>1, <2>2, <2>3, Names, IntentType, OutboxAssumption
       DEF IInv, TypeOK, Expires, stateVars
<1>3. LockInv'
  BY <1>1, Names DEF IInv, LockInv, Handling, Ended
<1>4. SpoolInv'
  <2>1. Known' = Known
    BY <1>1 DEF Known
  <2>2. \A i \in Ids \ Known : spool'[i] = "none" /\ taken'[i] = 0
    BY <1>1 DEF IInv, SpoolInv, Backed, Handling
  <2>3. ASSUME NEW q \in Procs
        PROVE  Backed(q)'
    BY <1>1, Names DEF IInv, LockInv, SpoolInv, Backed, Handling, Known, At
  <2>. QED
    BY <1>1, <2>1, <2>2, <2>3 DEF IInv, SpoolInv, Backed
<1>5. HandInv'
  BY <1>1, IntentType, CountTypes
     DEF IInv, LockInv, SpoolInv, Backed, HandInv, HandedOnce, Handling, At
<1>6. ReceiptInv'
  BY <1>1, Names, RingTypes
     DEF IInv, LockInv, ReceiptInv, StaysCancellable, Handling, At
<1>. QED
  BY <1>2, <1>3, <1>4, <1>5, <1>6 DEF IInv


(* Intents are numbered in the order they come.                            *)
LEMMA Fresh ==
  ASSUME IInv, Known # Ids
  PROVE  LET i == Cardinality(Known) + 1
         IN  i \in Ids /\ i \notin Known /\ Known \cup {i} = 1..i
<1>1. PICK k \in 0..MaxIntents : Known = 1..k
  BY DEF IInv, SpoolInv, Backed
<1>2. Cardinality(1..k) = k
  BY FS_Interval, OutboxAssumption
<1>3. k # MaxIntents
  BY <1>1 DEF Ids
<1>. QED
  BY <1>1, <1>2, <1>3, OutboxAssumption DEF Ids

(* A new intent: nobody took it, and nobody else has it.                   *)
LEMMA SpoolsStep ==
  ASSUME IInv, NEW p \in Workers, NEW s \in Subjects, Enqueue(p, s), Spools(p, s)
  PROVE  IInv'
<1>. DEFINE i == Cardinality(Known) + 1
<1>1. i \in Ids /\ i \notin Known /\ Known \cup {i} = 1..i
  BY Fresh DEF Spools
<1>2. /\ spool' = [spool EXCEPT ![i] = "due"] /\ subject' = [subject EXCEPT ![i] = s]
      /\ task' = [task EXCEPT ![p] = [Idle EXCEPT !.at = "waiting", !.intent = i]]
      /\ p \in Procs /\ task[p].at = "idle"
      /\ receipt' = receipt /\ recent' = recent /\ lock' = lock /\ taken' = taken
      /\ ringing' = ringing /\ rung' = rung /\ past' = past /\ faults' = faults
  BY Names DEF Spools, Enqueue, At, provider
<1>. HIDE DEF i
<1>3. /\ spool'[i] = "due" /\ \A j \in Ids : j # i => spool'[j] = spool[j]
      /\ Known' = Known \cup {i}
      /\ task'[p].at = "waiting" /\ task'[p].intent = i
      /\ task'[p].got = 0 /\ task'[p].batch = {}
      /\ \A q \in Procs : q # p => task'[q] = task[q]
  BY <1>1, <1>2, Names DEF IInv, TypeOK, Known, Idle
<1>4. TypeOK'
  <2>1. task' \in [Procs -> Tasks]
    BY <1>1, <1>2, TaskType DEF Tasks, Sending, Idle
  <2>2. \A q \in Procs : task'[q].at \in Steps(q) /\ task'[q].got \in 0..rung'
    BY <1>2, <1>3, StepsType, RingTypes DEF Steps, Sending
  <2>. QED
    BY <1>1, <1>2, <2>1, <2>2 DEF IInv, TypeOK
<1>5. LockInv'
  BY <1>2, <1>3 DEF IInv, LockInv, Handling
<1>6. SpoolInv'
  <2>1. \E k \in 0..MaxIntents : Known' = 1..k
    BY <1>1, <1>3 DEF Ids
  <2>2. ASSUME NEW q \in Procs
        PROVE  Backed(q)'
    BY <1>1, <1>2, <1>3 DEF IInv, SpoolInv, Backed, Handling, At, Known
  <2>. QED
    BY <1>2, <1>3, <2>1, <2>2 DEF IInv, SpoolInv, Backed
<1>7. HandInv'
  BY <1>1, <1>2, <1>3, CountTypes
     DEF IInv, SpoolInv, Backed, HandInv, HandedOnce, At
<1>8. ReceiptInv'
  BY <1>2, <1>3, Names
     DEF IInv, LockInv, ReceiptInv, StaysCancellable, Handling, At
<1>. QED
  BY <1>4, <1>5, <1>6, <1>7, <1>8 DEF IInv

(* The dispatcher goes on with its batch.                                  *)
LEMMA PickStep ==
  ASSUME IInv, Pick
  PROVE  IInv'
<1>1. /\ task[Dispatcher].at = "picking"
      /\ \/ task'[Dispatcher].at = "idle" /\ task'[Dispatcher].intent = 0
            /\ task'[Dispatcher].batch = {}
         \/ task'[Dispatcher].at = "waiting"
            /\ task'[Dispatcher].intent \in task[Dispatcher].batch
            /\ task'[Dispatcher].batch \subseteq task[Dispatcher].batch
      /\ task'[Dispatcher].got = 0
      /\ \A q \in Procs : q # Dispatcher => task'[q] = task[q]
      /\ UNCHANGED <<spool, subject, receipt, lock, taken, ringing, rung, past>>
  <2>1. task[Dispatcher].at = "picking" /\ UNCHANGED <<stateVars, lock, provider, past>>
    BY DEF Pick, At
  <2>2. CASE task' = [task EXCEPT ![Dispatcher] = Idle]
    BY <2>1, <2>2, Names, DispatchTypes DEF Idle, stateVars, provider
  <2>3. ASSUME NEW i \in task[Dispatcher].batch,
               task' = [task EXCEPT ![Dispatcher] =
                  [Idle EXCEPT !.at = "waiting", !.intent = i,
                               !.batch = task[Dispatcher].batch \ {i}]]
        PROVE  /\ task'[Dispatcher].at = "waiting" /\ task'[Dispatcher].intent = i
               /\ task'[Dispatcher].batch = task[Dispatcher].batch \ {i}
               /\ task'[Dispatcher].got = 0
               /\ \A q \in Procs : q # Dispatcher => task'[q] = task[q]
    BY <2>3, Names, DispatchTypes DEF Idle
  <2>. QED
    BY <2>1, <2>2, <2>3 DEF Pick, stateVars, provider
<1>2. TypeOK'
  <2>1. task' \in [Procs -> Tasks]
    <3>1. task[Dispatcher].batch \subseteq Ids
      BY Names, TaskType DEF Tasks
    <3>. QED
      <4>1. CASE task' = [task EXCEPT ![Dispatcher] = Idle]
        BY <4>1, TaskType DEF Tasks, Sending, Idle
      <4>2. ASSUME NEW i \in task[Dispatcher].batch,
                   task' = [task EXCEPT ![Dispatcher] =
                      [Idle EXCEPT !.at = "waiting", !.intent = i,
                                   !.batch = task[Dispatcher].batch \ {i}]]
            PROVE  task' \in [Procs -> Tasks]
        BY <3>1, <4>2, TaskType DEF Tasks, Sending, Idle
      <4>. QED
        BY <4>1, <4>2 DEF Pick
  <2>2. \A q \in Procs : task'[q].at \in Steps(q) /\ task'[q].got \in 0..rung'
    BY <1>1, StepsType, RingTypes, Names DEF Steps, Sending
  <2>. QED
    BY <2>1, <2>2, <1>1 DEF IInv, TypeOK, Pick, stateVars
<1>3. LockInv'
  BY <1>1, Names DEF IInv, LockInv, Handling
<1>4. SpoolInv'
  <2>1. Known' = Known
    BY <1>1 DEF Known
  <2>2. ASSUME NEW q \in Procs
        PROVE  Backed(q)'
    BY <1>1, <2>1, Names DEF IInv, SpoolInv, Backed, Handling, At
  <2>. QED
    BY <1>1, <2>1, <2>2 DEF IInv, SpoolInv, Backed
<1>5. HandInv'
  BY <1>1, CountTypes, Names DEF IInv, HandInv, HandedOnce, At
<1>6. ReceiptInv'
  BY <1>1, Names, RingTypes
     DEF IInv, LockInv, ReceiptInv, StaysCancellable, Handling, At
<1>. QED
  BY <1>2, <1>3, <1>4, <1>5, <1>6 DEF IInv

(* Who dies accepted at most one intent, for only one has the lock.        *)
LEMMA CutCount ==
  ASSUME IInv, NEW home, home \subseteq Procs, NEW i \in Ids
  PROVE  LET S == {p \in {p \in home : At(p, "accepted")} : task[p].intent = i}
         IN  Cardinality(S) \in Nat /\ (S # {} => Cardinality(S) = 1)
<1>. DEFINE S == {p \in {p \in home : At(p, "accepted")} : task[p].intent = i}
<1>1. S = {} \/ S = {lock}
  BY DEF IInv, LockInv, Handling, At
<1>. SUFFICES Cardinality(S) \in Nat /\ (S # {} => Cardinality(S) = 1)
  OBVIOUS
<1>. HIDE DEF S
<1>2. CASE S = {}
  BY <1>2, FS_EmptySet
<1>3. CASE S = {lock}
  <2>1. Cardinality({lock}) = 1
    BY FS_Singleton
  <2>. QED
    BY <1>3, <2>1
<1>. QED
  BY <1>1, <1>2, <1>3

(* A process dies: what it had accepted is a lapse, and its receipt lost.  *)
LEMMA DiesStep ==
  ASSUME IInv, NEW home \in Homes, Dies(home)
  PROVE  IInv'
<1>. DEFINE cut == {p \in home : At(p, "accepted")}
            count(i) == Cardinality({p \in cut : task[p].intent = i})
<1>1. home \subseteq Procs
  BY OutboxAssumption
<1>2. past' = [past EXCEPT !.lapses = [i \in Ids |-> @[i] + count(i)],
                 !.lost = @ \cup ({task[p].got : p \in cut} \ {0})]
  BY DEF Dies
<1>3. \A i \in Ids : count(i) \in Nat /\ \A p \in cut : task[p].intent = i => count(i) = 1
  BY <1>1, CutCount
<1>4. {task[p].got : p \in cut} \subseteq Nat
  BY <1>1, TaskType DEF Tasks
<1>. HIDE DEF count
<1>5. /\ \A i \in Ids : past'.lapses[i] = past.lapses[i] + count(i)
      /\ past'.lost = past.lost \cup ({task[p].got : p \in cut} \ {0})
      /\ past'.overtaken = past.overtaken
      /\ past'.refused = past.refused /\ past'.calledOff = past.calledOff
  BY <1>2, PastType DEF Pasts
<1>6. /\ \A i \in Ids : past'.lapses[i] \in Nat /\ past'.lapses[i] >= past.lapses[i]
      /\ \A p \in cut : task[p].intent \in Ids =>
            past'.lapses[task[p].intent] = past.lapses[task[p].intent] + 1
      /\ \A p \in cut : task[p].got \in past'.lost \cup {0}
      /\ past.lost \subseteq past'.lost
  BY <1>3, <1>5, CountTypes
<1>7. /\ \A q \in Procs : q \in home => task'[q].at = "idle" /\ task'[q].got = 0
                             /\ task'[q].intent = 0 /\ task'[q].batch = {}
      /\ \A q \in Procs : q \notin home => task'[q] = task[q]
      /\ lock' = IF lock \in home THEN NoOne ELSE lock
      /\ UNCHANGED <<spool, subject, receipt, taken, ringing, rung>>
  BY Names DEF Dies, Idle, stateVars, provider
<1>8. TypeOK'
  <2>1. task' \in [Procs -> Tasks]
    BY TaskType DEF Dies, Tasks, Sending, Idle
  <2>2. \A q \in Procs : task'[q].at \in Steps(q) /\ task'[q].got \in 0..rung'
    BY <1>7, StepsType, RingTypes DEF Steps, Sending
  <2>3. past' \in Pasts
    <3>1. [i \in Ids |-> past.lapses[i] + count(i)] \in [Ids -> Nat]
      BY <1>3, CountTypes
    <3>. QED
      BY <1>2, <1>4, <3>1, PastType DEF Pasts
  <2>4. recent' = recent /\ faults' \in 0..MaxFaults
    BY OutboxAssumption DEF Dies, Fault, stateVars, IInv, TypeOK
  <2>. QED
    BY <1>7, <2>1, <2>2, <2>3, <2>4, Names DEF IInv, TypeOK
<1>9. LockInv'
  BY <1>7, Names DEF IInv, LockInv, Handling
<1>10. SpoolInv'
  <2>1. Known' = Known
    BY <1>7 DEF Known
  <2>2. ASSUME NEW q \in Procs
        PROVE  Backed(q)'
    BY <1>7, <2>1 DEF IInv, SpoolInv, Backed, Handling, At
  <2>. QED
    BY <1>5, <1>7, <2>1, <2>2 DEF IInv, SpoolInv, Backed
<1>11. HandInv'
  <2>1. HandedOnce'
    BY <1>6, <1>7, CountTypes DEF IInv, HandInv, HandedOnce
  <2>2. ASSUME NEW i \in Ids, taken[i] > past'.lapses[i], spool[i] # "none"
        PROVE  \E q \in Procs : At(q, "accepted")' /\ task'[q].intent = i
    <3>1. taken[i] > past.lapses[i] /\ taken[i] <= past.lapses[i] + 1
      BY <1>6, <2>2, CountTypes DEF IInv, HandInv, HandedOnce
    <3>2. PICK q \in Procs : At(q, "accepted") /\ task[q].intent = i
      BY <2>2, <3>1 DEF IInv, HandInv
    <3>3. q \notin home
      BY <1>6, <2>2, <3>1, <3>2, CountTypes
    <3>. QED
      BY <1>7, <3>2, <3>3 DEF At
  <2>3. \A q \in Procs : At(q, "accepted")' => taken'[task'[q].intent] > 0
    BY <1>7 DEF IInv, HandInv, At
  <2>. QED
    BY <1>7, <2>1, <2>2, <2>3 DEF HandInv
<1>12. ReceiptInv'
  <2>1. ASSUME NEW r \in ringing
        PROVE  \/ r = receipt \/ r \in past'.lost \cup past'.overtaken
               \/ \E q \in Procs : lock' = q /\ At(q, "accepted")' /\ task'[q].got = r
    BY <1>5, <1>6, <1>7, RingTypes DEF IInv, ReceiptInv, StaysCancellable, At
  <2>. QED
    BY <1>6, <1>7, <2>1 DEF IInv, ReceiptInv, StaysCancellable, At
<1>. QED
  BY <1>8, <1>9, <1>10, <1>11, <1>12 DEF IInv

(* Nothing is spooled, and nobody is at work.                              *)
LEMMA InitStep == Init => IInv
<1>. SUFFICES ASSUME Init PROVE IInv
  OBVIOUS
<1>. USE DEF Init, Idle
<1>1. TypeOK
  BY Names, OutboxAssumption DEF TypeOK, Tasks, Steps, Sending, Pasts
<1>2. LockInv
  BY Names DEF LockInv, Handling
<1>3. SpoolInv
  <2>1. Known = 1..0
    BY DEF Known
  <2>. QED
    BY <2>1, OutboxAssumption, Names DEF SpoolInv, Backed, Handling, At
<1>4. HandInv /\ ReceiptInv
  BY DEF HandInv, HandedOnce, ReceiptInv, StaysCancellable, At
<1>. QED
  BY <1>1, <1>2, <1>3, <1>4 DEF IInv

(* Every step keeps the inductive invariant.                               *)
LEMMA NextStep == IInv /\ [Next]_vars => IInv'
<1>. SUFFICES ASSUME IInv, [Next]_vars PROVE IInv'
  OBVIOUS
<1>1. ASSUME NEW p \in Procs, Dispatch(p) PROVE IInv'
  BY <1>1, TakeStep, BusyStep, ReadStep, AcceptStep, AnswerLostStep,
     UnavailableStep, RefuseStep, SettleAcceptedStep, SettleTransientStep,
     SettleRefusedStep, StateBusyStep
     DEF Dispatch
<1>2. ASSUME NEW w \in Workers, NEW s \in Subjects, Enqueue(w, s) PROVE IInv'
  BY <1>2, JoinsStep, SpoolsStep DEF Enqueue
<1>3. ASSUME NEW w \in Workers, Call(w) PROVE IInv'
  BY <1>2, <1>3, EnqueueFailsStep, SendDirectlyStep, NoteStep, RecallStep,
     RecallBusyStep, RecallReadStep, RecallAnsweredStep, RecallRejectedStep,
     RecallUnavailableStep, RecallSettlesStep
     DEF Call
<1>4. CASE Collect \/ Pick
  BY <1>4, CollectStep, PickStep
<1>5. CASE \/ \E i \in Ids : Ripens(i)
           \/ \E s \in Subjects : WindowEnds(s)
           \/ \E r \in Receipts : Expires(r)
           \/ \E home \in Homes : Dies(home)
  BY <1>5, RipensStep, WindowEndsStep, ExpiresStep, DiesStep
<1>6. CASE UNCHANGED vars
  <2>. USE <1>6 DEF vars, stateVars, provider
  <2>1. TypeOK'
    BY DEF IInv, TypeOK
  <2>2. LockInv' /\ SpoolInv'
    BY DEF IInv, LockInv, SpoolInv, Backed, Known, At
  <2>3. HandInv' /\ ReceiptInv'
    BY DEF IInv, HandInv, HandedOnce, ReceiptInv, StaysCancellable, At
  <2>. QED
    BY <2>1, <2>2, <2>3 DEF IInv
<1>. QED
  BY <1>1, <1>3, <1>4, <1>5, <1>6 DEF Next

(* The inductive invariant holds in every reachable state.                 *)
THEOREM Invariance == Spec => []IInv
<1>. QED
  BY InitStep, NextStep, PTL DEF Spec

(* An intent is handed to the provider once, and once more for each lapse: *)
(* a lost answer, a busy state file, a process that died after the send.   *)
THEOREM Once == Spec => []HandedOnce
<1>1. IInv => HandedOnce
  BY DEF IInv, HandInv
<1>. QED
  BY <1>1, Invariance, PTL

(* The file has the receipt of whatever rings, but for lost and overtaken  *)
(* receipts: it can be called off.                                         *)
THEOREM Cancellable == Spec => []StaysCancellable
<1>1. IInv => StaysCancellable
  BY DEF IInv, ReceiptInv
<1>. QED
  BY <1>1, Invariance, PTL

(* The outbox keeps the promise of PushoverDelivery.                       *)
LEMMA DeliveryInit == Init => Delivery!Init
<1>. SUFFICES ASSUME Init PROVE Delivery!Init
  OBVIOUS
<1>. QED
  BY DEF Init, Delivery!Init, Spooled

(* Every step spools one notice, hands one over, closes one that was       *)
(* handed over, excuses some, or changes nothing PushoverDelivery knows of *)
(* (_send_pushover_notification_once(), _dispatch_pushover_intent(),       *)
(* _cancel_pushover_emergency()).                                          *)
LEMMA DeliveryStep == IInv /\ [Next]_vars => [Delivery!Next]_(Delivery!vars)
<1>. SUFFICES ASSUME IInv, [Next]_vars PROVE [Delivery!Next]_(Delivery!vars)
  OBVIOUS
<1>. DEFINE handed == {i \in Ids : taken[i] > 0}
            excused == past.refused \cup past.calledOff
            Stays == UNCHANGED <<Spooled, handed, excused>>
<1>1. UNCHANGED <<spool, taken, past.refused, past.calledOff>> => Stays
  BY DEF Spooled
<1>2. past' = past => past'.refused = past.refused /\ past'.calledOff = past.calledOff
  OBVIOUS
<1>3. ASSUME NEW p \in Procs, Dispatch(p)
      PROVE  \/ Stays
             \/ \E n \in Ids : Delivery!Hand(n) \/ Delivery!Close(n) \/ Delivery!Excuse({n})
  <2>. DEFINE n == task[p].intent
  <2>1. CASE Take(p) \/ Busy(p) \/ Read(p) \/ Unavailable(p) \/ Refuse(p)
    BY <2>1, <1>1, <1>2
       DEF Take, Busy, Read, Unavailable, Refuse, stateVars, provider
  <2>2. ASSUME task[p].at = "sending", Taken(p), spool' = spool,
               past'.refused = past.refused, past'.calledOff = past.calledOff
        PROVE  n \in Ids /\ Delivery!Hand(n)
    <3>1. n \in Ids /\ spool[n] = "due"
      BY <2>2, IntentType DEF IInv, SpoolInv, Backed, Handling
    <3>2. taken'[n] = taken[n] + 1 /\ \A i \in Ids : i # n => taken'[i] = taken[i]
      BY <2>2, <3>1, TakenFacts
    <3>. HIDE DEF n
    <3>3. handed' = handed \cup {n}
      BY <3>1, <3>2, CountTypes
    <3>4. n \in Spooled /\ Spooled' = Spooled
      BY <2>2, <3>1 DEF Spooled
    <3>. QED
      BY <2>2, <3>1, <3>3, <3>4 DEF Delivery!Hand
  <2>3. CASE Accept(p)
    <3>1. /\ task[p].at = "sending" /\ Taken(p) /\ spool' = spool
          /\ past'.refused = past.refused /\ past'.calledOff = past.calledOff
      BY <2>3, <1>2 DEF Accept, At, stateVars
    <3>2. n \in Ids /\ Delivery!Hand(n)
      BY <2>2, <3>1
    <3>. QED
      BY <3>2 DEF Delivery!Hand
  <2>4. CASE AnswerLost(p)
    <3>1. past'.refused = past.refused /\ past'.calledOff = past.calledOff
      BY <2>4, PastType DEF AnswerLost, Lapse, Pasts
    <3>2. task[p].at = "sending" /\ Taken(p) /\ spool' = spool
      BY <2>4 DEF AnswerLost, At, stateVars
    <3>3. n \in Ids /\ Delivery!Hand(n)
      BY <2>2, <3>1, <3>2
    <3>. QED
      BY <3>3 DEF Delivery!Hand
  <2>5. CASE SettleAccepted(p)
    <3>1. n \in Ids /\ spool[n] = "due" /\ taken[n] > 0
      BY <2>5, IntentType
         DEF SettleAccepted, IInv, SpoolInv, Backed, HandInv, Handling, At
    <3>2. spool' = [spool EXCEPT ![n] = "none"] /\ taken' = taken
      BY <2>5 DEF SettleAccepted, provider
    <3>3. past'.refused = past.refused /\ past'.calledOff = past.calledOff
      BY <2>5, PastType DEF SettleAccepted, Pasts
    <3>. HIDE DEF n
    <3>4. Spooled' = Spooled \ {n} /\ n \in Spooled \cap handed
      BY <3>1, <3>2 DEF Spooled, IInv, TypeOK
    <3>. QED
      BY <3>1, <3>2, <3>3, <3>4 DEF Delivery!Close
  <2>6. CASE SettleTransient(p)
    <3>1. n \in Ids /\ spool[n] = "due"
      BY <2>6, IntentType
         DEF SettleTransient, IInv, SpoolInv, Backed, Handling, At
    <3>2. spool' = [spool EXCEPT ![n] = "later"] /\ taken' = taken /\ past' = past
      BY <2>6 DEF SettleTransient, provider
    <3>. HIDE DEF n
    <3>3. Spooled' = Spooled
      BY <3>1, <3>2 DEF Spooled, IInv, TypeOK
    <3>. QED
      BY <3>2, <3>3
  <2>7. CASE SettleRefused(p)
    <3>1. n \in Ids /\ spool[n] = "due"
      BY <2>7, IntentType
         DEF SettleRefused, IInv, SpoolInv, Backed, Handling, At
    <3>2. spool' = [spool EXCEPT ![n] = "none"] /\ taken' = taken
      BY <2>7 DEF SettleRefused, provider
    <3>3. past'.refused = past.refused \cup {n} /\ past'.calledOff = past.calledOff
      BY <2>7, PastType DEF SettleRefused, Pasts
    <3>. HIDE DEF n
    <3>4. Spooled' = Spooled \ {n} /\ n \in Spooled
      BY <3>1, <3>2 DEF Spooled, IInv, TypeOK
    <3>5. excused' = excused \cup {n} /\ handed' = handed
      BY <3>2, <3>3
    <3>. QED
      BY <3>1, <3>4, <3>5 DEF Delivery!Excuse
  <2>8. CASE StateBusy(p)
    <3>1. past'.refused = past.refused /\ past'.calledOff = past.calledOff
      BY <2>8, PastType DEF StateBusy, Pasts
    <3>. QED
      BY <2>8, <3>1, <1>1 DEF StateBusy, stateVars, provider
  <2>. QED
    BY <1>3, <2>1, <2>3, <2>4, <2>5, <2>6, <2>7, <2>8 DEF Dispatch
<1>4. ASSUME NEW w \in Workers, NEW s \in Subjects, Enqueue(w, s)
      PROVE  Stays \/ \E n \in Ids : Delivery!Spool(n)
  <2>1. CASE Joins(w, s)
    BY <1>1, <1>2, <1>4, <2>1 DEF Enqueue, Joins, stateVars, provider
  <2>2. CASE Spools(w, s)
    <3>. DEFINE n == Cardinality(Known) + 1
    <3>1. n \in Ids /\ n \notin Known
      BY <2>2, Fresh DEF Spools
    <3>2. spool' = [spool EXCEPT ![n] = "due"] /\ taken' = taken /\ past' = past
      BY <1>4, <2>2 DEF Enqueue, Spools, provider
    <3>3. spool[n] = "none" /\ taken[n] = 0 /\ n \notin excused
      BY <3>1 DEF IInv, SpoolInv, Backed
    <3>. HIDE DEF n
    <3>4. Spooled' = Spooled \cup {n} /\ n \notin Spooled
      BY <3>1, <3>2, <3>3 DEF Spooled, IInv, TypeOK
    <3>5. handed' = handed \ {n} /\ excused' = excused \ {n}
      BY <3>2, <3>3
    <3>. QED
      BY <3>1, <3>4, <3>5 DEF Delivery!Spool
  <2>. QED
    BY <1>4, <2>1, <2>2 DEF Enqueue
<1>5. ASSUME NEW w \in Workers, Call(w)
      PROVE  \/ Stays \/ \E n \in Ids : Delivery!Spool(n)
             \/ \E ns \in SUBSET Ids : Delivery!Excuse(ns)
  <2>1. CASE \/ Note(w) \/ Recall(w) \/ RecallBusy(w) \/ RecallAnswered(w)
             \/ RecallUnavailable(w) \/ RecallSettles(w)
    BY <2>1, <1>1, <1>2
       DEF Note, Recall, RecallBusy, RecallAnswered, RecallUnavailable,
           RecallSettles, stateVars, provider
  <2>2. ASSUME NEW s \in Subjects, EnqueueFails(w, s) PROVE Stays
    BY <2>2, <1>1, <1>2 DEF EnqueueFails, stateVars, provider
  <2>3. CASE SendDirectly(w)
    <3>1. w \in Procs /\ task[w].intent = 0
      BY <2>3, Names DEF SendDirectly, IInv, SpoolInv, Backed
    <3>2. taken' = taken /\ spool' = spool
      BY <2>3, <3>1 DEF SendDirectly, Taken, stateVars, provider
    <3>3. past'.refused = past.refused /\ past'.calledOff = past.calledOff
      BY <2>3, PastType DEF SendDirectly, Pasts
    <3>. QED
      BY <1>1, <3>2, <3>3
  <2>4. CASE RecallRead(w)
    <3>. DEFINE off == {i \in Spooled : Urgent(i)}
    <3>1. /\ spool' = [i \in Ids |-> IF i \in off THEN "none" ELSE spool[i]]
          /\ past' = [past EXCEPT !.calledOff = @ \cup off] /\ taken' = taken
      BY <2>4 DEF RecallRead, provider
    <3>2. off \subseteq Spooled /\ off \subseteq Ids
      BY DEF Spooled
    <3>. HIDE DEF off
    <3>3. Spooled' = Spooled \ off
      BY <3>1, <3>2 DEF Spooled
    <3>4. past'.refused = past.refused /\ past'.calledOff = past.calledOff \cup off
      BY <3>1, PastType DEF Pasts
    <3>5. excused' = excused \cup off /\ handed' = handed
      BY <3>1, <3>4
    <3>6. CASE off = {}
      BY <3>3, <3>5, <3>6
    <3>7. CASE off # {}
      BY <3>2, <3>3, <3>5, <3>7 DEF Delivery!Excuse
    <3>. QED
      BY <3>6, <3>7
  <2>5. CASE RecallRejected(w)
    <3>1. past'.refused = past.refused /\ past'.calledOff = past.calledOff
      BY <2>5, PastType DEF RecallRejected, Pasts
    <3>. QED
      BY <2>5, <3>1, <1>1 DEF RecallRejected, stateVars, provider
  <2>. QED
    BY <1>4, <1>5, <2>1, <2>2, <2>3, <2>4, <2>5 DEF Call
<1>6. CASE Collect \/ Pick
  BY <1>6, <1>1, <1>2 DEF Collect, Pick, stateVars, provider, Delivery!vars
<1>7. ASSUME NEW i \in Ids, Ripens(i) PROVE Stays
  <2>1. Spooled' = Spooled
    BY <1>7 DEF Ripens, Spooled, IInv, TypeOK
  <2>. QED
    BY <1>7, <2>1 DEF Ripens, provider
<1>8. CASE \/ \E s \in Subjects : WindowEnds(s)
           \/ \E r \in Receipts : Expires(r)
  BY <1>8, <1>1, <1>2
     DEF WindowEnds, Expires, stateVars, provider, Delivery!vars
<1>9. ASSUME NEW home \in Homes, Dies(home) PROVE Stays
  <2>1. past'.refused = past.refused /\ past'.calledOff = past.calledOff
    BY <1>9, PastType DEF Dies, Pasts
  <2>. QED
    BY <1>9, <1>1, <2>1 DEF Dies, stateVars, provider
<1>10. CASE UNCHANGED vars
  BY <1>10, <1>1, <1>2 DEF vars, stateVars, provider, Delivery!vars
<1>11. Stays => UNCHANGED Delivery!vars
  BY DEF Delivery!vars
<1>. HIDE DEF Stays
<1>. QED
  BY <1>3, <1>5, <1>6, <1>7, <1>8, <1>9, <1>10, <1>11 DEF Next, Delivery!Next

(* PushoverOutbox implements PushoverDelivery: what was spooled is never   *)
(* given up, whoever dies, and however many processes send.                *)
THEOREM Refinement == Spec => DeliverySpec
<1>1. Spec => Delivery!Init /\ [][Delivery!Next]_(Delivery!vars)
  BY DeliveryInit, DeliveryStep, Invariance, PTL DEF Spec
<1>. QED
  BY <1>1 DEF DeliverySpec, Delivery!Spec

==============================================================================
