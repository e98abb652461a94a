---------------------------- MODULE MCDraftSync ----------------------------
(* Two tabs, of one user or of two. *)
EXTENDS DraftSync, TLC
CONSTANTS p1, p2
MCPages == {p1, p2}
Tabs == Permutations(MCPages)

(* Once one of the causes has come that the properties except, they say    *)
(* nothing of what follows.                                                *)
Unexcused == causes \subseteq {"lost", "features left"}
=============================================================================
