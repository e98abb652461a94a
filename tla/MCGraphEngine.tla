--------------------------- MODULE MCGraphEngine ---------------------------
(* A graph with a parallel in a branch of a parallel.                      *)
(*                                                                         *)
(*   s --> a --> a1 --> ja --> j        a may skip its parallel, a1 may    *)
(*    \     \--> a2 --/       /         end by its error strategy, a2 may   *)
(*     \--> b ---------------/          fail, b may raise; j ends the run. *)
EXTENDS GraphEngine, TLC

CONSTANTS s, a, a1, a2, ja, b, j, outer, inner

MCNode == {s, a, a1, a2, ja, b, j}
MCParallelOf == (s :> NoParallel) @@ (a :> outer) @@ (b :> outer) @@ (ja :> outer)
                  @@ (a1 :> inner) @@ (a2 :> inner) @@ (j :> NoParallel)
MCEndTo == (outer :> j) @@ (inner :> ja)

Only(o, edges) == o :> {edges}

MCRoutes ==
  (s :> Only("succeeded", <<a, b>>))
  @@ (a :> ("succeeded" :> {<<a1, a2>>, <<>>}))
  @@ (a1 :> (Only("succeeded", <<ja>>) @@ Only("exception", <<ja>>)))
  @@ (a2 :> (Only("succeeded", <<ja>>) @@ Only("failed", <<ja>>)))
  @@ (ja :> Only("succeeded", <<j>>))
  @@ (b :> (Only("succeeded", <<j>>) @@ Only("raised", <<>>)))
  @@ (j :> Only("succeeded", <<>>))
=============================================================================
