---------------------------- MODULE MCQueueCancel ----------------------------
(***************************************************************************)
(* Instances of QueueCancel for TLC.  Tasks are interchangeable, workers   *)
(* are not (see MCQueue).                                                  *)
(***************************************************************************)
EXTENDS QueueCancel, TLC

Symmetry == Permutations(Tasks)
===============================================================================
