------------------------- MODULE MCGraphEngineForks -------------------------
(* A parallel with parallels in it: s --> (a --> (a1, a2), b), where a may *)
(* skip its parallel and a1 may fail, and b fails before its start is      *)
(* reported if it is an agent.  c1, the third target of s, belongs to no   *)
(* parallel, so the fork passes over it.  In the deep graph b --> (b1, b2) *)
(* and b goes on to c1 and c2, of no parallel, when it ends by its error   *)
(* strategy.  In the other graph b may go on in a line, b --> b1 --> b2,   *)
(* within its branch.                                                      *)
EXTENDS GraphEngine, TLC

CONSTANTS s, a, a1, a2, b, b1, b2, c1, c2, outer, innerA, innerB,
          Deep

MCNode == {s, a, a1, a2, b, b1, b2, c1, c2}
MCParallelOf ==
  (s :> NoParallel) @@ (a :> outer) @@ (b :> outer)
  @@ [n \in {a1, a2} |-> innerA]
  @@ [n \in {b1, b2} |-> IF Deep THEN innerB ELSE outer]
  @@ [n \in {c1, c2} |-> NoParallel]
MCEndTo == [p \in {outer, innerA, innerB} |-> NoNode]

On(o, edges) == o :> {edges}

DeepRoutes ==
  (s :> On("succeeded", <<a, b, c1>>)) @@ (a :> On("succeeded", <<a1, a2>>))
  @@ (b :> (On("succeeded", <<b1, b2>>) @@ On("exception", <<c1, c2>>)))
  @@ [n \in {a2, b1, b2, c1, c2} |-> On("succeeded", <<>>)]

LineRoutes ==
  (s :> On("succeeded", <<a, b, c1>>)) @@ (a :> ("succeeded" :> {<<a1, a2>>, <<>>}))
  @@ (b :> ("succeeded" :> {<<b1>>, <<>>}))
  @@ (b1 :> On("succeeded", <<b2>>))
  @@ [n \in {a2, b2, c1, c2} |-> On("succeeded", <<>>)]

MCRoutes == (a1 :> (On("succeeded", <<>>) @@ On("raised", <<>>)))
            @@ IF Deep THEN DeepRoutes ELSE LineRoutes
=============================================================================
