------------------------------ MODULE MCAppRun ------------------------------
(* Instances of AppRun for TLC; the .cfg files give the constants.         *)
EXTENDS AppRun
=============================================================================
