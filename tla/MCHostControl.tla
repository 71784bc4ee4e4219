---------------------------- MODULE MCHostControl ----------------------------
(* One timer that defers to updates, one update, one poller.               *)
EXTENDS HostControl

CONSTANTS timer, update, poller

Pair       == {timer, update}
Admin      == {update}
Updates    == {update}
Timer      == {timer}
Status     == {poller}

(* A crash or a failed lookup, or a unit that is shown before its start.   *)
OneMishap == early' = {} \/ faults' = 0
=============================================================================
