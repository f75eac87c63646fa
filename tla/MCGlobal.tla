-------------------------------- MODULE MCGlobal --------------------------------
(***************************************************************************)
(* Instances of Global for TLC.                                            *)
(***************************************************************************)
EXTENDS Global
================================================================================
