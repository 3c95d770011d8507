---------------------------- MODULE MCFailoverTime ----------------------------
(* The durations of MCMasterHA. *)
EXTENDS MCMasterHA, FailoverTime
=============================================================================
