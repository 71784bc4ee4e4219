----------------------------- MODULE MCHostApply -----------------------------
(* An admin's request, an auto-size tick and a plain apply of one output.  *)
EXTENDS HostApply

CONSTANTS request, tick, cli

All      == {request, tick, cli}
Callers  == {request, tick}
Tick     == {tick}
Three    == {"runtime", "nginx", "cluster_followers"}
Two      == {"runtime", "nginx"}
Options  == {1, 2}
Changes  == [s \in All |->
    IF s = tick THEN [{"runtime"} -> Options]
    ELSE [{"runtime"} -> Options] \cup [{"nginx", "cluster_followers"} \cap Slices -> Options]]
=============================================================================
