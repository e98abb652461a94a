----------------------------- MODULE MCRateLimit -----------------------------
(* Instances of RateLimit for TLC; the .cfg files give the constants.      *)
EXTENDS RateLimit, TLC

Symmetry == Permutations(Request) \cup Permutations(Process)
=============================================================================
