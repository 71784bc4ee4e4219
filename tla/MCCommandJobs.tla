---------------------------- MODULE MCCommandJobs ----------------------------
(* Two clients that submit, look at and cancel two commands of one output. *)
(* The container stops while there is one; once there is another one it    *)
(* runs for good.                                                          *)
EXTENDS CommandJobs, TLC

CONSTANTS agent, operator, first, second

Two    == {agent, operator}
Keys2  == {first, second}
Alike  == Permutations(Two) \cup Permutations(Keys2)

(* Nothing was lost and nothing was misread.                               *)
Calm ==
    /\ \A c \in Clients : task[c].found # "unreadable" /\ task[c].saw # Unknown
    /\ \A j \in Jobs : /\ phase[j] # "observation_unavailable"
                      /\ service[j] = "failed" => result[j] # "none"

(* A client dies, a circuit opens and the container stops while there is   *)
(* one command, which is also the one that is cancelled; what an observer  *)
(* cannot read is let happen as long as nobody is about to submit another. *)
CalmWithSecond ==
    /\ row[2] = "none" \/ (up /\ boot = 1 /\ deaths = 0 /\ ~circuit /\ ~asked[2])
    /\ Calm \/ (row[2] = "none" /\ \A c \in Clients : task[c].key = NoKey)
=============================================================================
