------------------------------ MODULE MCTransfer ------------------------------
(* The leader and two followers.                                           *)
EXTENDS ClusterTransfer

CONSTANTS leader, first, second

Pair == {first, second}
===============================================================================
