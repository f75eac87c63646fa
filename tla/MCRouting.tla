------------------------------- MODULE MCRouting -------------------------------
(***************************************************************************)
(* Instances of Routing for TLC: threads that use a pool built with any    *)
(* settings and a pool of two shards.                                      *)
(***************************************************************************)
EXTENDS Routing

\* The numbers a caller may pass: some more than MaxThreads, and usize::MAX,
\* which has no next power of two.
Numbers == 0 .. MaxThreads + 2 \cup {2 ^ Width - 1}
PoolNames == {"any", "two"}
PoolSettings ==
    [any |-> Settings(Numbers),
     two |-> {[numThreads |-> MaxThreads, perCore |-> FALSE, shards |-> 2]}]
================================================================================
