---------------------------- MODULE MCTokenRefresh ----------------------------
(* Two tabs: one with a call of request and one of ssePost, one with a     *)
(* call of request.                                                        *)
EXTENDS TokenRefresh, TLC

CONSTANTS one, two, a, b, d
MCTabOf == (a :> one) @@ (b :> one) @@ (d :> two)
=============================================================================
