------------------------------ MODULE MCTaskLife ------------------------------
(***************************************************************************)
(* Instances of TaskLife for TLC.                                          *)
(***************************************************************************)
EXTENDS TaskLife
===============================================================================
