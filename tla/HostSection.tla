----------------------------- MODULE HostSection -----------------------------
(***************************************************************************)
(* What host_mutation_operation() and the cleanup of main.py promise,      *)
(* without flocks, depths, rows or probes: sections of the host are open   *)
(* for one owner at a time, the owner's own nested sections join it, and   *)
(* whoever dies or leaves never comes back in.                             *)
(***************************************************************************)
CONSTANTS Ops, NoOne, Sweeper

VARIABLES
    owner,  \* the request or the cleanup that has the host, or NoOne
    open,   \* the requests with an open section
    over    \* the requests that will not enter any more

vars == <<owner, open, over>>

Init == owner = NoOne /\ open = {} /\ over = {}

(* The outermost section of a task opens on a host nobody has.             *)
Enter(o) ==
    /\ owner = NoOne /\ o \notin over
    /\ owner' = o /\ open' = {o} /\ over' = over

(* A nested section joins the one that is open.                            *)
Join(c) ==
    /\ owner \in Ops /\ c \notin open \cup over
    /\ open' = open \cup {c} /\ UNCHANGED <<owner, over>>

(* Sections close from the inside: the owner's is the last.                *)
Exit(c) ==
    /\ c \in open /\ (c = owner => open = {c})
    /\ open' = open \ {c} /\ over' = over \cup {c}
    /\ owner' = IF c = owner THEN NoOne ELSE owner

Refuse(o) ==
    /\ o \notin open \cup over
    /\ over' = over \cup {o} /\ UNCHANGED <<owner, open>>

(* A process dies with all its requests, and the host is free again if it  *)
(* was theirs; with the server the cleanup dies.                           *)
Die(dying, sweeperToo) ==
    /\ dying \cap over = {}
    /\ owner \in dying <=> open \cap dying # {}
    /\ open' = IF owner \in dying THEN {} ELSE open
    /\ open \subseteq dying \/ owner \notin dying
    /\ over' = over \cup dying
    /\ owner' = IF owner \in dying \/ (sweeperToo /\ owner = Sweeper)
                THEN NoOne ELSE owner

Sweep ==
    \/ owner = NoOne /\ owner' = Sweeper /\ UNCHANGED <<open, over>>
    \/ owner = Sweeper /\ owner' = NoOne /\ UNCHANGED <<open, over>>

Next ==
    \/ \E o \in Ops : Enter(o) \/ Join(o) \/ Exit(o) \/ Refuse(o)
    \/ \E dying \in SUBSET Ops, sweeperToo \in BOOLEAN : Die(dying, sweeperToo)
    \/ Sweep

Spec == Init /\ [][Next]_vars
=============================================================================
