-------------------------- MODULE PushoverDelivery --------------------------
(***************************************************************************)
(* What a caller of send_pushover_notification_async() may rely on: a      *)
(* notice that was spooled stays spooled until the provider took it, the   *)
(* provider refused it, or it was called off.  A notice may reach the      *)
(* operator more than once, and later than one that was spooled after it.  *)
(***************************************************************************)
CONSTANT Notices

VARIABLES
    spooled,  \* the notices of the outbox
    handed,   \* those among the notices of the past the provider took
    excused   \* those it refused, and those somebody called off

vars == <<spooled, handed, excused>>

Init == spooled = {} /\ handed = {} /\ excused = {}

(* A notice that is over may be sent anew.                                 *)
Spool(n) ==
    /\ n \notin spooled
    /\ spooled' = spooled \cup {n}
    /\ handed' = handed \ {n} /\ excused' = excused \ {n}

Hand(n) ==
    /\ n \in spooled
    /\ handed' = handed \cup {n} /\ UNCHANGED <<spooled, excused>>

Close(n) ==
    /\ n \in spooled \cap handed
    /\ spooled' = spooled \ {n} /\ UNCHANGED <<handed, excused>>

Excuse(ns) ==
    /\ ns # {} /\ ns \subseteq spooled
    /\ spooled' = spooled \ ns /\ excused' = excused \cup ns
    /\ UNCHANGED handed

Next ==
    \/ \E n \in Notices : Spool(n) \/ Hand(n) \/ Close(n)
    \/ \E ns \in SUBSET Notices : Excuse(ns)

Spec == Init /\ [][Next]_vars
=============================================================================
