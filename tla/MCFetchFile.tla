---------------------------- MODULE MCFetchFile ----------------------------
(* Instances of FetchFile: one file on the pool of connections, two files   *)
(* one after the other with -r, and a file with -F.                         *)
EXTENDS FetchFile
MCGiven ==
    {[files |-> 1, retry |-> 1, pool |-> TRUE, tmp |-> FALSE],
     [files |-> 2, retry |-> 2, pool |-> FALSE, tmp |-> FALSE],
     [files |-> 1, retry |-> 0, pool |-> FALSE, tmp |-> TRUE]}
=============================================================================
