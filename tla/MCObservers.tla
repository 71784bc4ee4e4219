------------------------------ MODULE MCObservers ------------------------------
(* Two observers of what systemd runs, one of which also launches, and two *)
(* update runs.                                                            *)
EXTENDS UpdateRuns

CONSTANTS poller, launcher

Tasks     == {poller, launcher}
Launching == {launcher}

(* Two faults, or units that are shown before their start.                 *)
OneKindOfMishap == early' = {} \/ faults' = 0
=================================================================================
