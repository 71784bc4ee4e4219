---------------------------- MODULE MCHostMutation ----------------------------
(* Instances of HostMutation: a UI backup whose task reports for itself, a *)
(* server request, a timer process, nested sections and crashes of both.   *)
EXTENDS HostMutation

CONSTANTS backup, apply, timer

Requests   == {backup, apply, timer}
Server     == {backup, apply}
Backup     == {backup}
Timer      == {timer}
None       == {}
=============================================================================
