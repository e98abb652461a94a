----------------------------- MODULE MCBatchRun -----------------------------
(* Instances of BatchRun for TLC; the .cfg files give the constants.       *)
EXTENDS BatchRun
=============================================================================
