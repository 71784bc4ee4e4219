--------------------------- MODULE PushoverOutbox ---------------------------
(***************************************************************************)
(* The outbox of app/services/notifications.py: notices are spooled in the *)
(* host state file, sent by whoever asked for them or by the dispatcher of *)
(* the server, and an emergency, which the provider repeats until it is    *)
(* called off, leaves a receipt in the file.  A worker is one call of      *)
(* send_pushover_notification_async() or cancel_pushover_emergency_async(),*)
(* in the server, in a timer or in a command line.                         *)
(***************************************************************************)
EXTENDS Naturals, FiniteSets

CONSTANTS
    Workers,      \* the callers
    Dispatcher,   \* run_pushover_outbox_dispatcher() of the server
    Homes,        \* the processes, as sets of workers and the dispatcher
    Subjects,     \* the de-duplication keys
    Emergencies,  \* those sent with priority 2 and the emergency key
    NoOne,
    MaxIntents,   \* bound: intents ever spooled
    Limit,        \* dispatch_pending_pushover_notifications_async(limit=5)
    MaxFaults     \* bound: lost answers, busy state files, dead processes

Procs == Workers \cup {Dispatcher}
Ids == 1..MaxIntents
Receipts == 1..(MaxIntents + MaxFaults)

ASSUME OutboxAssumption ==
    /\ Dispatcher \notin Workers /\ NoOne \notin Procs \cup Subjects
    /\ UNION Homes = Procs /\ \A g, h \in Homes : g = h \/ g \cap h = {}
    /\ Emergencies \subseteq Subjects
    /\ MaxIntents \in Nat \ {0} /\ Limit \in Nat \ {0} /\ MaxFaults \in Nat

VARIABLES
    spool,    \* pushover_outbox: "none", "due", or "later" (next_attempt_at)
    subject,  \* the dedupe_key of each intent
    recent,   \* pushover_deliveries younger than the de-duplication window
    receipt,  \* pushover_receipts of the emergency key, or 0
    lock,     \* who has the dispatch lock
    task,     \* where each caller and the dispatcher are
    taken,    \* the provider: how often it took each intent
    ringing,  \* the provider: the emergencies it repeats, by receipt
    rung,     \* the provider: receipts given out
    past,     \* for the properties only
    faults

stateVars == <<spool, subject, recent, receipt>>
provider  == <<taken, ringing, rung>>
vars == <<stateVars, lock, task, provider, past, faults>>

Idle == [at |-> "idle", intent |-> 0, about |-> NoOne, got |-> 0, batch |-> {}]

Spooled == {i \in Ids : spool[i] # "none"}
Urgent(i) == subject[i] \in Emergencies
Known == {i \in Ids : subject[i] # NoOne}

Sending == {"idle", "waiting", "holding", "sending", "accepted", "transient", "refused"}
Ended == {"sent", "queued", "failed"}

Init ==
    /\ spool = [i \in Ids |-> "none"] /\ subject = [i \in Ids |-> NoOne]
    /\ recent = {} /\ receipt = 0 /\ lock = NoOne
    /\ task = [p \in Procs |-> Idle]
    /\ taken = [i \in Ids |-> 0] /\ ringing = {} /\ rung = 0
    /\ past = [lapses |-> [i \in Ids |-> 0], refused |-> {}, calledOff |-> {},
               lost |-> {}, overtaken |-> {}]
    /\ faults = 0

At(p, where) == task[p].at = where
Goto(p, where) == task' = [task EXCEPT ![p].at = where]
(* The dispatcher logs how a dispatch ended and takes the next of its      *)
(* batch; a caller goes on to record it.                                   *)
Ends(p, how) == Goto(p, IF p = Dispatcher THEN "picking" ELSE how)
Release(p) == lock = p /\ lock' = NoOne
Fault == faults < MaxFaults /\ faults' = faults + 1

-----------------------------------------------------------------------------
(* send_pushover_notification_async(): the intent is spooled, joins one    *)
(* with the same key, or counts as delivered a moment ago.                 *)
Same(s) == {i \in Spooled : subject[i] = s}

Joins(w, s) ==
    /\ \/ \E i \in Same(s) :
             task' = [task EXCEPT ![w] = [Idle EXCEPT !.at = "waiting", !.intent = i]]
       \/ /\ Same(s) = {} /\ s \in recent
          /\ task' = [task EXCEPT ![w] = [Idle EXCEPT !.at = "sent", !.about = s]]
    /\ UNCHANGED stateVars

Spools(w, s) ==
    /\ Same(s) = {} /\ s \notin recent /\ Known # Ids
    /\ LET i == Cardinality(Known) + 1 IN
       /\ spool' = [spool EXCEPT ![i] = "due"]
       /\ subject' = [subject EXCEPT ![i] = s]
       /\ task' = [task EXCEPT ![w] = [Idle EXCEPT !.at = "waiting", !.intent = i]]
    /\ UNCHANGED <<recent, receipt>>

Enqueue(w, s) ==
    /\ At(w, "idle") /\ (Joins(w, s) \/ Spools(w, s))
    /\ UNCHANGED <<lock, provider, past, faults>>

(* The state file is busy for two seconds: the message goes out directly.  *)
EnqueueFails(w, s) ==
    /\ At(w, "idle") /\ Fault
    /\ task' = [task EXCEPT ![w] = [Idle EXCEPT !.at = "direct", !.about = s]]
    /\ UNCHANGED <<stateVars, lock, provider, past>>

(* _record_pushover_delivery_state(): what became of the last message.     *)
Note(w) ==
    /\ task[w].at \in Ended
    /\ task' = [task EXCEPT ![w] = Idle]
    /\ UNCHANGED <<stateVars, lock, provider, past, faults>>

(* dispatch_pending_pushover_notifications_async(): the oldest due ones.   *)
Collect ==
    /\ At(Dispatcher, "idle")
    /\ LET due == {i \in Ids : spool[i] = "due"} IN
       /\ due # {}
       /\ task' = [task EXCEPT ![Dispatcher] = [Idle EXCEPT !.at = "picking",
             !.batch = {i \in due : Cardinality({j \in due : j < i}) < Limit}]]
    /\ UNCHANGED <<stateVars, lock, provider, past, faults>>

Pick ==
    /\ At(Dispatcher, "picking")
    /\ LET left == task[Dispatcher].batch IN
       \/ left = {} /\ task' = [task EXCEPT ![Dispatcher] = Idle]
       \/ \E i \in left :
             /\ \A j \in left : i <= j
             /\ task' = [task EXCEPT ![Dispatcher] =
                  [Idle EXCEPT !.at = "waiting", !.intent = i, !.batch = left \ {i}]]
    /\ UNCHANGED <<stateVars, lock, provider, past, faults>>

-----------------------------------------------------------------------------
(* _dispatch_pushover_intent(), under the dispatch lock.                   *)
(* Mutant: the lock is not taken, as when each process had its own.        *)
EveryoneHasIt(p) == TRUE
Free(p) == lock = NoOne

Take(p) ==
    /\ At(p, "waiting") /\ Free(p) /\ lock' = p /\ Goto(p, "holding")
    /\ UNCHANGED <<stateVars, provider, past, faults>>

Busy(p) ==
    /\ At(p, "waiting") /\ lock # NoOne /\ Ends(p, "queued")
    /\ UNCHANGED <<stateVars, lock, provider, past, faults>>

Read(p) ==
    /\ At(p, "holding")
    /\ \/ spool[task[p].intent] = "none"  /\ Release(p) /\ Ends(p, "sent")
       \/ spool[task[p].intent] = "later" /\ Release(p) /\ Ends(p, "queued")
       \/ spool[task[p].intent] = "due"   /\ lock' = lock /\ Goto(p, "sending")
    /\ UNCHANGED <<stateVars, provider, past, faults>>

(* _send_pushover_notification_once(): the provider took the message.      *)
Taken(p) ==
    LET i == task[p].intent
        urgent == IF i = 0 THEN task[p].about \in Emergencies ELSE Urgent(i)
    IN /\ taken' = IF i = 0 THEN taken ELSE [taken EXCEPT ![i] = @ + 1]
       /\ rung' = IF urgent THEN rung + 1 ELSE rung
       /\ ringing' = IF urgent THEN ringing \cup {rung + 1} ELSE ringing
(* The receipt of a message taken this way is kept by nobody.              *)
Forgotten == IF rung' > rung THEN {rung'} ELSE {}
Lapse(p) == past' = [past EXCEPT !.lost = @ \cup Forgotten, !.lapses[task[p].intent] = @ + 1]

Accept(p) ==
    /\ At(p, "sending") /\ Taken(p)
    /\ task' = [task EXCEPT ![p].at = "accepted", ![p].got = IF rung' > rung THEN rung' ELSE 0]
    /\ UNCHANGED <<stateVars, lock, past, faults>>

AnswerLost(p) ==
    /\ At(p, "sending") /\ Fault /\ Taken(p) /\ Lapse(p)
    /\ Goto(p, "transient") /\ UNCHANGED <<stateVars, lock>>

Unavailable(p) ==
    /\ At(p, "sending") /\ Goto(p, "transient")
    /\ UNCHANGED <<stateVars, lock, provider, past, faults>>

Refuse(p) ==
    /\ At(p, "sending") /\ Goto(p, "refused")
    /\ UNCHANGED <<stateVars, lock, provider, past, faults>>

(* Without an intent nothing is kept, neither for a retry nor the receipt. *)
SendDirectly(w) ==
    /\ At(w, "direct")
    /\ \/ Taken(w) /\ past' = [past EXCEPT !.lost = @ \cup Forgotten] /\ Goto(w, "sent")
       \/ Goto(w, "failed") /\ UNCHANGED <<provider, past>>
    /\ UNCHANGED <<stateVars, lock, faults>>

-----------------------------------------------------------------------------
(* What the answer changes in the state file.                              *)
SettleAccepted(p) ==
    LET i == task[p].intent IN
    /\ At(p, "accepted") /\ Release(p) /\ Ends(p, "sent")
    /\ spool' = [spool EXCEPT ![i] = "none"]
    /\ recent' = recent \cup {subject[i]}
    /\ receipt' = IF task[p].got # 0 THEN task[p].got ELSE receipt
    /\ past' = [past EXCEPT !.overtaken = @ \cup ({receipt} \ {0, receipt'})]
    /\ UNCHANGED <<subject, provider, faults>>

(* Mutant: a message that could not be sent is not kept for a retry.       *)
DropTransient(p) ==
    /\ At(p, "transient") /\ Release(p) /\ Ends(p, "queued")
    /\ spool' = [spool EXCEPT ![task[p].intent] = "none"]
    /\ UNCHANGED <<subject, recent, receipt, provider, past, faults>>
SettleTransient(p) ==
    /\ At(p, "transient") /\ Release(p) /\ Ends(p, "queued")
    /\ spool' = [spool EXCEPT ![task[p].intent] = "later"]
    /\ UNCHANGED <<subject, recent, receipt, provider, past, faults>>

SettleRefused(p) ==
    /\ At(p, "refused") /\ Release(p) /\ Ends(p, "failed")
    /\ spool' = [spool EXCEPT ![task[p].intent] = "none"]
    /\ past' = [past EXCEPT !.refused = @ \cup {task[p].intent}]
    /\ UNCHANGED <<subject, recent, receipt, provider, faults>>

(* Mutant: an error leaves the dispatch lock locked.                       *)
StateBusyHolds(p) ==
    /\ task[p].at \in {"holding", "accepted", "transient", "refused"} /\ Fault
    /\ Ends(p, "queued") /\ UNCHANGED <<stateVars, lock, provider, past>>
(* The state file is busy: the error of the lock is a retryable one, and   *)
(* the intent stays as it was, whatever the provider answered.             *)
StateBusy(p) ==
    /\ task[p].at \in {"holding", "accepted", "transient", "refused"} /\ Fault
    /\ Release(p) /\ Ends(p, "queued")
    /\ past' = IF At(p, "accepted")
               THEN [past EXCEPT !.lapses[task[p].intent] = @ + 1,
                                 !.lost = @ \cup ({task[p].got} \ {0})]
               ELSE past
    /\ UNCHANGED <<stateVars, provider>>

-----------------------------------------------------------------------------
(* _cancel_pushover_emergency()                                            *)
Recall(w) ==
    /\ At(w, "idle") /\ Goto(w, "recall")
    /\ UNCHANGED <<stateVars, lock, provider, past, faults>>

RecallBusy(w) ==
    /\ At(w, "recall") /\ lock # NoOne /\ Goto(w, "idle")
    /\ UNCHANGED <<stateVars, lock, provider, past, faults>>

RecallRead(w) ==
    /\ At(w, "recall") /\ lock = NoOne
    /\ LET off == {i \in Spooled : Urgent(i)} IN
       /\ spool' = [i \in Ids |-> IF i \in off THEN "none" ELSE spool[i]]
       /\ past' = [past EXCEPT !.calledOff = @ \cup off]
    /\ IF receipt = 0 THEN lock' = lock /\ Goto(w, "idle")
       ELSE lock' = w /\ Goto(w, "recalling")
    /\ UNCHANGED <<subject, recent, receipt, provider, faults>>

(* The provider stops, or says that it knows no such emergency (any more). *)
RecallAnswered(w) ==
    /\ At(w, "recalling") /\ Goto(w, "recalled")
    /\ ringing' = ringing \ {receipt}
    /\ UNCHANGED <<stateVars, lock, taken, rung, past, faults>>

RecallRejected(w) ==
    /\ At(w, "recalling") /\ Fault /\ Goto(w, "recalled")
    /\ past' = [past EXCEPT !.lost = @ \cup {receipt}]
    /\ UNCHANGED <<stateVars, lock, provider>>

(* Mutant: the receipt is dropped although the provider did not answer.    *)
RecallForgets(w) ==
    /\ At(w, "recalling") /\ Release(w) /\ Goto(w, "idle") /\ receipt' = 0
    /\ UNCHANGED <<spool, subject, recent, provider, past, faults>>
RecallUnavailable(w) ==
    /\ At(w, "recalling") /\ Release(w) /\ Goto(w, "idle")
    /\ UNCHANGED <<stateVars, provider, past, faults>>

RecallSettles(w) ==
    /\ At(w, "recalled") /\ Release(w) /\ Goto(w, "idle") /\ receipt' = 0
    /\ UNCHANGED <<spool, subject, recent, provider, past, faults>>

-----------------------------------------------------------------------------
(* Time: five seconds, the de-duplication window, the hour of an emergency.*)
Ripens(i) ==
    /\ spool[i] = "later" /\ spool' = [spool EXCEPT ![i] = "due"]
    /\ UNCHANGED <<subject, recent, receipt, lock, task, provider, past, faults>>

WindowEnds(s) ==
    /\ s \in recent /\ recent' = recent \ {s}
    /\ UNCHANGED <<spool, subject, receipt, lock, task, provider, past, faults>>

Expires(r) ==
    /\ r \in ringing /\ ringing' = ringing \ {r}
    /\ UNCHANGED <<stateVars, lock, task, taken, rung, past, faults>>

(* A process dies with all its workers; its file locks are released.       *)
Dies(home) ==
    /\ \E p \in home : task[p] # Idle
    /\ Fault
    /\ task' = [p \in Procs |-> IF p \in home THEN Idle ELSE task[p]]
    /\ lock' = IF lock \in home THEN NoOne ELSE lock
    /\ LET cut == {p \in home : At(p, "accepted")} IN
       past' = [past EXCEPT
         !.lapses = [i \in Ids |-> @[i] + Cardinality({p \in cut : task[p].intent = i})],
         !.lost = @ \cup ({task[p].got : p \in cut} \ {0})]
    /\ UNCHANGED <<stateVars, provider>>

Dispatch(p) ==
    \/ Take(p) \/ Busy(p) \/ Read(p)
    \/ Accept(p) \/ AnswerLost(p) \/ Unavailable(p) \/ Refuse(p)
    \/ SettleAccepted(p) \/ SettleTransient(p) \/ SettleRefused(p) \/ StateBusy(p)

Call(w) ==
    \/ \E s \in Subjects : Enqueue(w, s) \/ EnqueueFails(w, s)
    \/ SendDirectly(w) \/ Note(w)
    \/ Recall(w) \/ RecallBusy(w) \/ RecallRead(w) \/ RecallAnswered(w)
    \/ RecallRejected(w) \/ RecallUnavailable(w) \/ RecallSettles(w)

Next ==
    \/ \E p \in Procs : Dispatch(p)
    \/ \E w \in Workers : Call(w)
    \/ Collect \/ Pick
    \/ \E i \in Ids : Ripens(i)
    \/ \E s \in Subjects : WindowEnds(s)
    \/ \E r \in Receipts : Expires(r)
    \/ \E home \in Homes : Dies(home)

(* The loop of the dispatcher goes on, a call has timeouts everywhere, the *)
(* clock runs, and the provider is not out of reach for ever.              *)
Fairness ==
    /\ WF_vars(Collect) /\ WF_vars(Pick)
    /\ \A i \in Ids : WF_vars(Ripens(i))
    /\ WF_vars(Take(Dispatcher)) /\ WF_vars(Read(Dispatcher))
    /\ WF_vars(Unavailable(Dispatcher))
    /\ SF_vars(Accept(Dispatcher) \/ Refuse(Dispatcher))
    /\ WF_vars(SettleAccepted(Dispatcher) \/ SettleTransient(Dispatcher)
                  \/ SettleRefused(Dispatcher))

Spec == Init /\ [][Next]_vars
FairSpec == Spec /\ Fairness

-----------------------------------------------------------------------------
Steps(p) ==
    Sending \cup (IF p = Dispatcher THEN {"picking"}
                  ELSE {"direct", "recall", "recalling", "recalled"} \cup Ended)
Tasks == [at : Sending \cup {"picking", "direct", "recall", "recalling", "recalled"} \cup Ended,
          intent : Ids \cup {0}, about : Subjects \cup {NoOne}, got : Nat,
          batch : SUBSET Ids]
Pasts == [lapses : [Ids -> Nat], refused : SUBSET Ids, calledOff : SUBSET Ids,
          lost : SUBSET Nat, overtaken : SUBSET Nat]

TypeOK ==
    /\ spool \in [Ids -> {"none", "due", "later"}]
    /\ subject \in [Ids -> Subjects \cup {NoOne}] /\ recent \subseteq Subjects
    /\ receipt \in 0..rung /\ lock \in Procs \cup {NoOne}
    /\ task \in [Procs -> Tasks]
    /\ \A p \in Procs : task[p].at \in Steps(p) /\ task[p].got \in 0..rung
    /\ ringing \subseteq 1..rung /\ rung \in Nat /\ taken \in [Ids -> Nat]
    /\ past \in Pasts /\ faults \in 0..MaxFaults

(* Of the workers and the dispatcher, in three processes perhaps, only one *)
(* sends an intent: the provider takes it twice only after an answer was   *)
(* lost, a process died, or the state file was busy after the send.        *)
HandedOnce == \A i \in Ids : taken[i] <= 1 + past.lapses[i]

(* An emergency goes on ringing until somebody calls it off: the file has  *)
(* its receipt as long as it rings.  Lost are the receipts of lapses, of   *)
(* messages sent directly and of refused cancellations; overtaken is one   *)
(* that a second emergency replaced under the same key.                    *)
StaysCancellable ==
    \A r \in ringing :
        \/ r = receipt \/ r \in past.lost \cup past.overtaken
        \/ \E p \in Procs : lock = p /\ At(p, "accepted") /\ task[p].got = r

(* What is spooled is sent, refused or called off in the end, unless       *)
(* callers keep coming that take the dispatch lock from the dispatcher.    *)
IntentsSettle ==
    <>[](\A w \in Workers : At(w, "idle"))
        => \A i \in Ids : []<>(spool[i] = "none")

Delivery == INSTANCE PushoverDelivery WITH
    Notices <- Ids, spooled <- Spooled, excused <- past.refused \cup past.calledOff,
    handed <- {i \in Ids : taken[i] > 0}
(* The outbox keeps its promise: a spooled notice is never given up.       *)
DeliverySpec == Delivery!Spec

-----------------------------------------------------------------------------
(* Why they hold.  Whoever sends or calls off has the dispatch lock.       *)
Handling == {"holding", "sending", "accepted", "transient", "refused"}
LockInv ==
    \A p \in Procs : task[p].at \in Handling \cup {"recalling", "recalled"} <=> lock = p

(* What p sends is due until it settles, and it knows of no intent that    *)
(* was never spooled.                                                      *)
Backed(p) ==
    /\ task[p].batch \subseteq Known
    /\ task[p].at \in Handling \cup {"waiting"} => task[p].intent \in Known
    /\ task[p].at \in Handling \ {"holding"} => spool[task[p].intent] = "due"
    /\ At(p, "direct") => task[p].intent = 0

(* Intents are numbered in the order they come; the others are untouched.  *)
SpoolInv ==
    /\ \E k \in 0..MaxIntents : Known = 1..k
    /\ \A i \in Ids \ Known : spool[i] = "none" /\ taken[i] = 0
    /\ past.refused \cup past.calledOff \subseteq Known
    /\ \A p \in Procs : Backed(p)

(* What is still spooled has not been taken but for the lapses, unless it  *)
(* has just been accepted.                                                 *)
HandInv ==
    /\ HandedOnce
    /\ \A i \in Ids : taken[i] > past.lapses[i] =>
          spool[i] = "none" \/ \E p \in Procs : At(p, "accepted") /\ task[p].intent = i
    /\ \A p \in Procs : At(p, "accepted") => taken[task[p].intent] > 0

(* A receipt is dropped when the provider no longer rings, or refused.     *)
ReceiptInv ==
    /\ StaysCancellable
    /\ \A p \in Procs : At(p, "recalled") => receipt \notin ringing \/ receipt \in past.lost

(* The inductive invariant of PushoverOutbox.                              *)
IInv == TypeOK /\ LockInv /\ SpoolInv /\ HandInv /\ ReceiptInv
=============================================================================
