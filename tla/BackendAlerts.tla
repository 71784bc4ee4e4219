---------------------------- MODULE BackendAlerts ----------------------------
(***************************************************************************)
(* run_backend_alerts_check() of app/services/backend_alerts.py, run by a  *)
(* timer and by hand, and what the operator hears of it.  The notices go   *)
(* through the outbox, of which only what PushoverDelivery promises is     *)
(* used here: what is spooled arrives, some time, or is called off.        *)
(***************************************************************************)
EXTENDS Naturals, FiniteSets

CONSTANTS
    Checks,    \* the processes that check: the timer's, a command line's
    Backends,  \* the enabled app outputs
    NoOne,
    AutoFix,   \* backend_auto_fix_enabled
    Reminders, \* backend_alert_repeat_sec > 0
    MaxLapses  \* bound: killed or failed checks, and leases that ran out

AllDown == [kind |-> "all_down", of |-> NoOne]
Notices == [kind : {"down", "reminder", "recovered"}, of : Backends] \cup {AllDown}

(* What an instance assumes of its constants.                              *)
AlertsAssumption ==
    /\ NoOne \notin Checks \cup Backends
    /\ AutoFix \in BOOLEAN /\ Reminders \in BOOLEAN /\ MaxLapses \in Nat

VARIABLES
    entry,    \* the state file: one record per output
    running,  \* the state file: whose check is running
    check,    \* per process: where it is and what it read
    spooled,  \* the outbox
    heard,    \* what the operator was last told of each output
    alarm,    \* whether the emergency rings
    credit,   \* history: outputs whose "down" was reported sent, not their recovery
    lapses

file     == <<entry, running>>
operator == <<heard, alarm>>
vars == <<file, check, spooled, operator, credit, lapses>>

(* since: first_unhealthy_at, "none", within the grace period, or over it; *)
(* the output is "down" in the file exactly if there is one.  waiting: the *)
(* last attempt, or, once notified, the last notice, is younger than the   *)
(* period of retries or reminders.  notified: notified_down_at is set.     *)
Blank == [since |-> "none", waiting |-> FALSE, notified |-> FALSE]
Rest == [at |-> "idle", prev |-> [b \in Backends |-> Blank],
         seen |-> [b \in Backends |-> "up"], all |-> FALSE, left |-> {}, sent |-> {}]

Init ==
    /\ entry = [b \in Backends |-> Blank] /\ running = NoOne
    /\ check = [c \in Checks |-> Rest]
    /\ spooled = {}
    /\ heard = [b \in Backends |-> "nothing"] /\ alarm = FALSE
    /\ credit = {} /\ lapses = 0

At(c, where) == check[c].at = where
Goto(c, where) == check' = [check EXCEPT ![c].at = where]
Lapse == lapses < MaxLapses /\ lapses' = lapses + 1

-----------------------------------------------------------------------------
(* The check takes the state file unless another one is running.           *)
Begin(c) ==
    /\ At(c, "idle") /\ running = NoOne /\ running' = c
    /\ check' = [check EXCEPT ![c] = [Rest EXCEPT !.at = "looking", !.prev = entry]]
    /\ UNCHANGED <<entry, spooled, operator, credit, lapses>>

(* The diagnostics of all outputs, gathered; an observation may be put off.*)
AllSeenDown(seen) == \A b \in Backends : seen[b] = "down"

Look(c) ==
    /\ At(c, "looking")
    /\ \E seen \in [Backends -> {"up", "down", "deferred"}] :
         /\ check' = [check EXCEPT ![c].seen = seen, ![c].all = AllSeenDown(seen),
                          ![c].at = IF AllSeenDown(seen) THEN "fixing" ELSE "recalling"]
    /\ UNCHANGED <<file, spooled, operator, credit, lapses>>

(* cancel_pushover_emergency_async(), whose failure is only logged.        *)
Recall(c) ==
    /\ At(c, "recalling") /\ Goto(c, "fixing") /\ alarm' = FALSE
    /\ spooled' = spooled \ {AllDown}
    /\ UNCHANGED <<file, heard, credit, lapses>>

RecallFails(c) ==
    /\ At(c, "recalling") /\ Goto(c, "fixing")
    /\ UNCHANGED <<file, spooled, operator, credit, lapses>>

(* _maybe_auto_fix_backend() for every output: what is seen from here on   *)
(* is what fix_app_backend() saw afterwards, which may put it off as well. *)
Fix(c) ==
    /\ At(c, "fixing")
    /\ \E after \in [Backends -> {"up", "down", "deferred"}] :
         /\ \A b \in Backends :
               after[b] = check[c].seen[b] \/ (AutoFix /\ check[c].seen[b] = "down")
         /\ check' = [check EXCEPT ![c].at = "recording", ![c].seen = after]
    /\ UNCHANGED <<file, spooled, operator, credit, lapses>>

-----------------------------------------------------------------------------
(* What an output calls for.                                               *)
(* Mutant: every check dates the outage anew.                              *)
SinceNow(p) == "grace"
Since(p) == IF p.since = "none" THEN "grace" ELSE p.since
DownKind(p) ==
    IF Since(p) = "grace" \/ p.waiting THEN "none"
    ELSE IF ~p.notified THEN "down"
    ELSE IF Reminders THEN "reminder" ELSE "none"
Kind(p, seen) ==
    CASE seen = "deferred" -> "none"
      [] seen = "up"       -> IF p.notified THEN "recovered" ELSE "none"
      [] seen = "down"     -> DownKind(p)

(* Mutant: the entry of an output that is up again stays notified.         *)
NextEntryKeepsNotice(p, seen) ==
    IF seen = "deferred" THEN p
    ELSE [p EXCEPT !.since = IF seen = "up" THEN "none" ELSE Since(p)]
(* An attempt makes an unnotified output wait; what is known of a deferred *)
(* one is kept.                                                            *)
NextEntry(p, seen) ==
    IF seen = "deferred" THEN p
    ELSE [since    |-> IF seen = "up" THEN "none" ELSE Since(p),
          notified |-> p.notified /\ seen = "down",
          waiting  |-> p.waiting \/ Kind(p, seen) \in {"down", "recovered"}]

Due(c) ==
    LET kind == [b \in Backends |-> Kind(check[c].prev[b], check[c].seen[b])]
        some == {[kind |-> kind[b], of |-> b] : b \in {d \in Backends : kind[d] # "none"}}
        every == check[c].all /\ Cardinality(Backends) > 1 /\ \E n \in some : n.kind = "down"
    IN some \cup (IF every THEN {AllDown} ELSE {})

(* The whole section is replaced, and with it the mark of whoever runs.    *)
Record(c) ==
    /\ At(c, "recording")
    /\ entry' = [b \in Backends |-> NextEntry(check[c].prev[b], check[c].seen[b])]
    /\ running' = NoOne
    /\ check' = [check EXCEPT ![c] = [Rest EXCEPT !.at = "sending", !.left = Due(c), !.all = check[c].all]]
    /\ credit' = credit \ {b \in Backends : \E n \in Due(c) : n.kind = "recovered" /\ n.of = b}
    /\ UNCHANGED <<spooled, operator, lapses>>

-----------------------------------------------------------------------------
(* The operator hears the newest arrival, whenever it was written.         *)
Hears(n) ==
    /\ heard' = [b \in Backends |->
           IF n.of # b THEN heard[b] ELSE IF n.kind = "recovered" THEN "up" ELSE "down"]
    /\ alarm' = (alarm \/ n = AllDown)

Credits(n) == credit' = IF n.kind = "down" THEN credit \cup {n.of} ELSE credit

(* One of send_pushover_notification_async(): sent at once, spooled for    *)
(* the dispatcher, or refused by the provider.                             *)
SendNow(c, n) ==
    /\ At(c, "sending") /\ n \in check[c].left
    /\ Hears(n) /\ Credits(n)
    /\ check' = [check EXCEPT ![c].left = @ \ {n}, ![c].sent = @ \cup {n}]
    /\ UNCHANGED <<file, spooled, lapses>>

SendQueued(c, n) ==
    /\ At(c, "sending") /\ n \in check[c].left
    /\ spooled' = spooled \cup {n}
    /\ check' = [check EXCEPT ![c].left = @ \ {n}]
    /\ UNCHANGED <<file, operator, credit, lapses>>

SendRefused(c, n) ==
    /\ At(c, "sending") /\ n \in check[c].left /\ Lapse
    /\ check' = [check EXCEPT ![c].left = @ \ {n}]
    /\ UNCHANGED <<file, spooled, operator, credit>>

(* The entries, as they are by now, learn what was sent.                   *)
Told(c, b) == {n.kind : n \in {m \in check[c].sent : m.of = b}}
Mark(c) ==
    /\ At(c, "sending") /\ check[c].left = {} /\ check' = [check EXCEPT ![c] = Rest]
    /\ entry' = [b \in Backends |->
         IF "down" \in Told(c, b) THEN [entry[b] EXCEPT !.waiting = TRUE, !.notified = TRUE]
         ELSE IF Told(c, b) # {} /\ entry[b].notified THEN [entry[b] EXCEPT !.waiting = TRUE]
         ELSE entry[b]]
    /\ UNCHANGED <<running, spooled, operator, credit, lapses>>

-----------------------------------------------------------------------------
(* An exception takes the mark of this check back, a kill leaves it until  *)
(* the lease is over, whoever may still be at work under it.               *)
Fail(c) ==
    /\ ~At(c, "idle") /\ Lapse /\ check' = [check EXCEPT ![c] = Rest]
    /\ running' = IF running = c THEN NoOne ELSE running
    /\ UNCHANGED <<entry, spooled, operator, credit>>

Killed(c) ==
    /\ ~At(c, "idle") /\ Lapse /\ check' = [check EXCEPT ![c] = Rest]
    /\ UNCHANGED <<file, spooled, operator, credit>>

LeaseEnds ==
    /\ running # NoOne /\ Lapse /\ running' = NoOne
    /\ UNCHANGED <<entry, check, spooled, operator, credit>>
(* A dead check's lease.                                                   *)
LeaseOfTheDead ==
    /\ running # NoOne /\ At(running, "idle") /\ running' = NoOne
    /\ UNCHANGED <<entry, check, spooled, operator, credit, lapses>>

(* The dispatcher.                                                         *)
Arrives(n) ==
    /\ n \in spooled /\ spooled' = spooled \ {n}
    /\ Hears(n) /\ UNCHANGED <<file, check, credit, lapses>>

(* Time goes by between two checks: neither period, 300 s unless configured*)
(* otherwise, ends while a check is at work.                               *)
Ages(b) ==
    /\ \A c \in Checks : At(c, "idle")
    /\ \/ entry[b].since = "grace" /\ entry' = [entry EXCEPT ![b].since = "over"]
       \/ entry[b].waiting /\ entry' = [entry EXCEPT ![b].waiting = FALSE]
    /\ UNCHANGED <<running, check, spooled, operator, credit, lapses>>

Step(c) ==
    \/ Look(c) \/ Recall(c) \/ RecallFails(c) \/ Fix(c) \/ Record(c)
    \/ \E n \in Notices : SendNow(c, n) \/ SendQueued(c, n)
    \/ Mark(c)

Next ==
    \/ \E c \in Checks : \/ Begin(c) \/ Step(c) \/ Fail(c) \/ Killed(c)
                         \/ \E n \in Notices : SendRefused(c, n)
    \/ LeaseEnds \/ LeaseOfTheDead
    \/ \E n \in Notices : Arrives(n)
    \/ \E b \in Backends : Ages(b)

(* The timer comes every two minutes and its check has timeouts, time      *)
(* passes, the dispatcher runs; the provider answers one time or other.    *)
Fairness ==
    /\ \A c \in Checks : SF_vars(Begin(c)) /\ WF_vars(Step(c)) /\ SF_vars(Recall(c))
    /\ \A b \in Backends : SF_vars(Ages(b))
    /\ \A n \in Notices : WF_vars(Arrives(n))
    /\ WF_vars(LeaseOfTheDead)

Spec == Init /\ [][Next]_vars
FairSpec == Spec /\ Fairness

-----------------------------------------------------------------------------
TypeOK ==
    /\ running \in Checks \cup {NoOne}
    /\ entry \in [Backends -> [since : {"none", "grace", "over"}, waiting : BOOLEAN,
                               notified : BOOLEAN]]
    /\ \A c \in Checks : check[c].left \cup check[c].sent \subseteq Notices
    /\ spooled \subseteq Notices /\ credit \subseteq Backends
    /\ alarm \in BOOLEAN /\ lapses \in 0..MaxLapses

(* A check that says "recovered" follows a "down" that was reported sent,  *)
(* and each such "down" is followed by one "recovered" at most, although   *)
(* checks overlap while they send.                                         *)
RecoveredIsEarned ==
    [][\A c \in Checks, b \in Backends :
        [kind |-> "recovered", of |-> b] \in check'[c].left \ check[c].left
            => b \in credit \/ lapses > 0]_vars

(* An output that the checks find down, again and again, is announced.     *)
FoundDown(b) == \E c \in Checks : At(c, "recording") /\ check[c].seen[b] = "down"
OutageIsAnnounced ==
    \A b \in Backends : (<>[](entry[b].since # "none") /\ []<>FoundDown(b)) => []<>(heard[b] = "down")
=============================================================================
