------------------------- MODULE MCWorkflowCanvas -------------------------
(* Four drafts: an iteration after the start; a branch whose two handles   *)
(* lead to one aggregator; an aggregator and a block after it, detached;   *)
(* two parallel branches inside an iteration that meet in part, with an    *)
(* aggregator behind the handle of one that does not lead there.           *)
EXTENDS WorkflowCanvas

Block(t, p, s) == [type |-> t, parent |-> p, start |-> s]

MCCanvases == {
  [node |-> <<Block("start", Top, Top), Block("iteration", Top, 3),
              Block("inner-start", 2, Top), Block("plain", 2, Top)>>,
   edges |-> {Edge(1, "source", 2), Edge(3, "source", 4)}],
  [node |-> <<Block("start", Top, Top), Block("branch", Top, Top),
              Block("aggregator", Top, Top)>>,
   edges |-> {Edge(1, "source", 2), Edge(2, "true", 3), Edge(2, "false", 3)}],
  [node |-> <<Block("start", Top, Top), Block("aggregator", Top, Top),
              Block("plain", Top, Top)>>,
   edges |-> {Edge(2, "source", 3)}],
  [node |-> <<Block("start", Top, Top), Block("iteration", Top, 3),
              Block("inner-start", 2, Top), Block("plain", 2, Top),
              Block("branch", 2, Top), Block("plain", 2, Top),
              Block("aggregator", 2, Top)>>,
   edges |-> {Edge(1, "source", 2), Edge(3, "source", 4), Edge(3, "source", 5),
              Edge(4, "source", 6), Edge(5, "true", 6), Edge(5, "false", 7)}]}
===========================================================================
