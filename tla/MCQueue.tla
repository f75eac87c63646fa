-------------------------------- MODULE MCQueue --------------------------------
(***************************************************************************)
(* Instances of Queue for TLC.  Producers and tasks are interchangeable;   *)
(* workers are not: their index decides which shard they prefer and the    *)
(* order in which they visit the others.                                   *)
(***************************************************************************)
EXTENDS Queue, TLC

Symmetry == Permutations(Producers) \cup Permutations(Tasks)
================================================================================
