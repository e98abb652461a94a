--------------------------- MODULE WorkflowCanvas ---------------------------
(***************************************************************************)
(* The canvas on which a workflow is drawn: the handlers of                *)
(* workflow/hooks/use-nodes-interactions.ts and use-edges-interactions.ts, *)
(* each of which reads the nodes and the edges, computes new ones and sets *)
(* them in one go, and the undo history, which is saved by a debounced     *)
(* call some time later.                                                   *)
(*                                                                         *)
(* A canvas is a function from the ids of its nodes to their type, parent  *)
(* (an iteration or a loop, or Top) and start_node_id, and a set of edges. *)
(* The type "inner-start" stands for iteration-start and loop-start, and   *)
(* the types "plain" and "branch" for the blocks with one and with several *)
(* source handles.  Left out: positions, what is only drawn (selection,    *)
(* bundling, _children, the lists of connected handles), the depth limit   *)
(* on parallels and the edges it calls abnormal, which may refuse an edit  *)
(* at any time, notes, and the block that ends a loop.                     *)
(***************************************************************************)
EXTENDS Naturals, Sequences, FiniteSets

CONSTANTS Canvases,  \* the drafts a page may be opened with
          NewTypes,  \* bound: the blocks that are added
          MaxId,     \* bound: ids of nodes
          MaxEdits   \* bound: edits

Top == 0
Containers == {"iteration", "loop"}
Types == {"start", "inner-start", "plain", "branch", "aggregator"}
         \cup Containers
Handles(type) == IF type = "branch" THEN {"true", "false"} ELSE {"source"}

Ids == 1..MaxId
Nodes == [type : Types, parent : Ids \cup {Top}, start : Ids \cup {Top}]
Edges == [source : Ids, handle : {"source", "true", "false"}, target : Ids]
IsGraph(g) == /\ DOMAIN g.node \subseteq Ids
              /\ g.node \in [DOMAIN g.node -> Nodes]
              /\ g.edges \subseteq Edges
NoDialog == [container |-> Top, children |-> {}]

(* What the graph of a workflow is: its edges join its nodes and stay in a *)
(* level, its containers are of the top level, and each has the node that  *)
(* its inside starts at.                                                   *)
EdgesJoin(g) ==
  \A e \in g.edges : {e.source, e.target} \subseteq DOMAIN g.node
StaysInLevel(g) ==
  \A e \in g.edges : g.node[e.source].parent = g.node[e.target].parent
ContainersAtTop(g) ==
  \A c \in DOMAIN g.node : g.node[c].type \in Containers => g.node[c].parent = Top
HasStarts(g) ==
  \A c \in DOMAIN g.node : g.node[c].type \in Containers =>
    LET s == g.node[c].start
    IN /\ s \in DOMAIN g.node
       /\ g.node[s].type = "inner-start" /\ g.node[s].parent = c

(* What is inside of a container is made after it, ids growing; one inner  *)
(* start is in a container, and no edge ends at a start.                   *)
StartsInPlace(g) ==
  /\ \A n \in DOMAIN g.node :
       LET c == g.node[n].parent
       IN /\ c < n
          /\ c \in DOMAIN g.node => g.node[c].type \in Containers
          /\ g.node[n].type = "start" => c = Top
          /\ g.node[n].type = "inner-start" =>
               /\ c # Top
               /\ \A m \in DOMAIN g.node :
                    g.node[m].type = "inner-start" /\ g.node[m].parent = c => m = n
  /\ \A e \in g.edges : g.node[e.target].type \notin {"start", "inner-start"}

(* A draft is a canvas saved before; initialNodes, which the page is opened *)
(* through, gives a container without a start node a new one.              *)
ASSUME CanvasesAssumption ==
  \A g \in Canvases : /\ IsGraph(g) /\ DOMAIN g.node # {}
                      /\ EdgesJoin(g) /\ StaysInLevel(g)
                      /\ ContainersAtTop(g) /\ HasStarts(g)
                      /\ StartsInPlace(g)
ASSUME BoundsAssumption ==
  /\ MaxId \in Nat /\ MaxEdits \in Nat
  /\ NewTypes \subseteq Types \ {"start", "inner-start"}

VARIABLES
  canvas,      \* reactflow's nodes and edges
  clipboard,   \* clipboardElements: the type of each copied node
  showConfirm, \* the dialog that deletes a container, and what it captured
  present,     \* the state of the history store
  past,        \* its past states, oldest first
  future,      \* its future states, nearest last
  pending,     \* debounced calls of saveStateToHistory to come
  nextId,      \* Date.now(), of which ids are made
  edits,       \* counts the user's edits, without undos
  collided,    \* history: two containers were pasted in one millisecond
  dropped      \* history: a dropped connection closed a cycle

vars == <<canvas, clipboard, showConfirm, present, past, future, pending,
          nextId, edits, collided, dropped>>

-----------------------------------------------------------------------------
Children(g, c) == {n \in DOMAIN g.node : g.node[n].parent = c}
IsContainer(g, n) == g.node[n].type \in Containers

(* getConnectedEdges: the edges at one of the nodes of S. *)
Connected(g, S) == {e \in g.edges : e.source \in S \/ e.target \in S}
WithoutEdges(g, E) == [node |-> g.node, edges |-> g.edges \ E]
WithEdges(g, E) == [node |-> g.node, edges |-> g.edges \cup E]

\* Mutant of Without: the edges of the nodes are left behind.
Without_KeepsEdges(g, S) ==
  [node |-> [n \in DOMAIN g.node \ S |-> g.node[n]], edges |-> g.edges]

Without(g, S) ==
  [node |-> [n \in DOMAIN g.node \ S |-> g.node[n]],
   edges |-> g.edges \ Connected(g, S)]

Edge(s, h, t) == [source |-> s, handle |-> h, target |-> t]

(* generateNewNode: a container comes with the node its inside starts at. *)
Fresh(type) == IF type \in Containers THEN {nextId, nextId + 1} ELSE {nextId}
WithNew(g, type, parent) ==
  [node |-> [n \in DOMAIN g.node \cup Fresh(type) |->
     CASE n \in DOMAIN g.node -> g.node[n]
       [] n = nextId -> [type |-> type, parent |-> parent,
            start |-> IF type \in Containers THEN nextId + 1 ELSE Top]
       [] OTHER -> [type |-> "inner-start", parent |-> nextId, start |-> Top]],
   edges |-> g.edges]

(* The blocks that are offered inside and outside of a container. *)
Offered(parent) ==
  {type \in NewTypes : parent # Top => type \notin Containers}

-----------------------------------------------------------------------------
Successors(g, S) == {e.target : e \in {d \in g.edges : d.source \in S}}
ReachedFrom(g, S) ==
  LET R[k \in Nat] == IF k = 0 THEN S
                      ELSE LET before == R[k - 1]
                           IN before \cup Successors(g, before)
  IN R[Cardinality(DOMAIN g.node)]
OnCycle(g, e) == e.source \in ReachedFrom(g, {e.target})
NoCycleFrom(g, S) ==
  LET W == ReachedFrom(g, S)
  IN \A e \in g.edges : e.source \in W => ~ OnCycle(g, e)

(* initialEdges, which the page is opened through, drops the edges of a    *)
(* draft that are part of a cycle (getCycleEdges).                         *)
Acyclic(g) == \A e \in g.edges : ~ OnCycle(g, e)
ASSUME DraftsAssumption == \A g \in Canvases : Acyclic(g)

Starts(g) == {n \in DOMAIN g.node : g.node[n].type = "start"}

(* Parallel branches, the edges of one handle of a node, lead to node m,   *)
(* which several nodes lead to.                                            *)
Meets(g, m) ==
  /\ Cardinality({e.source : e \in {d \in g.edges : d.target = m}}) > 1
  /\ \E p \in g.edges : \E q \in g.edges \ {p} :
       /\ p.source = q.source /\ p.handle = q.handle
       /\ m \in ReachedFrom(g, Successors(g, {p.source}))

(* getParallelInfo walks from the start of the level.  It throws when the  *)
(* parent or the start is missing, and walks round a cycle for ever: the   *)
(* tab hangs with the canvas as it was.  Neither makes the edit.  But it   *)
(* breaks off where branches meet, with what is queued behind them never   *)
(* walked: past such a node any cycle may be missed.                       *)
LevelStart(g, parent) ==
  IF parent = Top THEN Starts(g)
  ELSE {g.node[c].start : c \in {parent} \cap DOMAIN g.node}
       \cap DOMAIN g.node
CheckNestedParallelLimit(g, parent) ==
  LET S == LevelStart(g, parent)
  IN /\ S # {}
     /\ NoCycleFrom(g, S) \/ \E m \in ReachedFrom(g, S) : Meets(g, m)

Init ==
  /\ canvas \in Canvases
  /\ clipboard = [n \in {} |-> "plain"]
  /\ showConfirm = NoDialog
  /\ present = canvas
  /\ past = <<>>
  /\ future = <<>>
  /\ pending = 0
  /\ nextId = 1 + CHOOSE m \in DOMAIN canvas.node :
                    \A n \in DOMAIN canvas.node : n <= m
  /\ edits = 0
  /\ collided = FALSE
  /\ dropped = FALSE

(* A handler sets the canvas and asks for it to be saved, by the debounced *)
(* function of its component: a call that is to come may have been that    *)
(* component's, and is postponed, or another's.                            *)
Edit(g) ==
  /\ edits < MaxEdits /\ edits' = edits + 1
  /\ DOMAIN g.node \subseteq Ids
  /\ canvas' = g
  /\ pending' \in {pending + 1} \cup ({pending} \ {0})
  /\ UNCHANGED <<present, past, future>>

\* With the mouse, which the dialog keeps from the canvas.
MouseEdit(g) ==
  /\ showConfirm = NoDialog
  /\ Edit(g)
  /\ UNCHANGED <<clipboard, showConfirm, collided, dropped>>

-----------------------------------------------------------------------------
(* handleNodeConnect. *)
ConnectTo(s, h, t) ==
  LET g == WithEdges(canvas, {Edge(s, h, t)})
      level == canvas.node[t].parent
  IN /\ s # t
     /\ level = canvas.node[s].parent
     /\ Edge(s, h, t) \notin canvas.edges
     /\ CheckNestedParallelLimit(g, level)
     /\ showConfirm = NoDialog
     /\ Edit(g)
     /\ UNCHANGED <<clipboard, showConfirm, collided, nextId>>

HasCycle(s, t) == s \in ReachedFrom(canvas, Successors(canvas, {t}))

\* Mutant of IsValidConnection: it looks at the outgoers of the target only.
IsValidConnection_OneStep(s, t) ==
  /\ canvas.node[s].parent = canvas.node[t].parent
  /\ canvas.node[t].type \notin {"start", "inner-start"}
  /\ s \notin Successors(canvas, {t})

(* isValidConnection, which reactflow asks before it connects two handles. *)
IsValidConnection(s, t) ==
  /\ canvas.node[s].parent = canvas.node[t].parent
  /\ canvas.node[t].type \notin {"start", "inner-start"}
  /\ ~ HasCycle(s, t)

Connect(s, t) ==
  /\ IsValidConnection(s, t)
  /\ \E h \in Handles(canvas.node[s].type) : ConnectTo(s, h, t)
  /\ UNCHANGED dropped

(* handleNodeConnectEnd: a connection dropped on a variable aggregator,    *)
(* beside its handle, is not asked for: only the parallels are walked.     *)
ConnectEnd(s, t) ==
  /\ canvas.node[s].parent = canvas.node[t].parent
  /\ canvas.node[t].type = "aggregator"
  /\ \E h \in Handles(canvas.node[s].type) : ConnectTo(s, h, t)
  /\ dropped' = (dropped \/ HasCycle(s, t))

(* handleNodeAdd at a source handle. *)
AddAfter(prev, type) ==
  LET parent == canvas.node[prev].parent
  IN \E h \in Handles(canvas.node[prev].type) :
       LET g == WithEdges(WithNew(canvas, type, parent),
                          {Edge(prev, h, nextId)})
       IN /\ type \in Offered(parent)
          /\ CheckNestedParallelLimit(g, parent)
          /\ MouseEdit(g)
          /\ nextId' = nextId + Cardinality(Fresh(type))

(* The edge from a new node, which a block of several handles gets none of. *)
EdgeFromNew(type, t) ==
  IF type = "branch" THEN {} ELSE {Edge(nextId, "source", t)}

(* handleNodeAdd at a target handle; the new node becomes the start of a   *)
(* container that started at the old one.                                  *)
AddBefore(next, type) ==
  LET parent == canvas.node[next].parent
      new == WithNew(canvas, type, parent)
      added == EdgeFromNew(type, next)
      g == [node |-> [n \in DOMAIN new.node |->
                        IF IsContainer(new, n) /\ new.node[n].start = next
                        THEN [new.node[n] EXCEPT !.start = nextId]
                        ELSE new.node[n]],
            edges |-> canvas.edges \cup added]
  IN /\ canvas.node[next].type \notin {"start", "inner-start"}
     /\ type \in Offered(parent)
     /\ CheckNestedParallelLimit(g, IF added = {} THEN Top ELSE parent)
     /\ MouseEdit(g)
     /\ nextId' = nextId + Cardinality(Fresh(type))

(* handleNodeAdd on an edge: the edge that goes is the first one that      *)
(* joins the two nodes, from whichever handle.                             *)
InsertBetween(e, type) ==
  LET parent == canvas.node[e.source].parent
  IN \E gone \in canvas.edges :
       /\ gone.source = e.source /\ gone.target = e.target
       /\ type \in Offered(parent)
       /\ MouseEdit(WithEdges(
            WithNew(WithoutEdges(canvas, {gone}), type, parent),
            {Edge(e.source, e.handle, nextId)} \cup EdgeFromNew(type, e.target)))
       /\ nextId' = nextId + Cardinality(Fresh(type))

(* handleNodeChange: a new node, without edges, in the place of the old    *)
(* one.  The node's own panel does not offer it for a container, the panel *)
(* of the node before it does.                                             *)
Change(n, type) ==
  LET parent == canvas.node[n].parent
  IN /\ canvas.node[n].type \notin {"start", "inner-start"}
     /\ IsContainer(canvas, n) => \E e \in canvas.edges : e.target = n
     /\ type \in Offered(parent)
     /\ MouseEdit(WithNew(Without(canvas, {n}), type, parent))
     /\ nextId' = nextId + Cardinality(Fresh(type))

-----------------------------------------------------------------------------
(* handleNodeDisconnect, handleEdgeDeleteByDeleteBranch, handleEdgeDelete. *)
Disconnect(n) ==
  /\ Connected(canvas, {n}) # {}
  /\ MouseEdit(WithoutEdges(canvas, Connected(canvas, {n})))
  /\ UNCHANGED nextId

DeleteBranch(n, h) ==
  LET gone == {e \in canvas.edges : e.source = n /\ e.handle = h}
  IN /\ canvas.node[n].type = "branch" /\ gone # {}
     /\ MouseEdit(WithoutEdges(canvas, gone))
     /\ UNCHANGED nextId

\* Mutant of DeleteEdge: the history is not told.
DeleteEdge_NotSaved(e) ==
  /\ edits < MaxEdits /\ edits' = edits + 1
  /\ canvas' = WithoutEdges(canvas, {e})
  /\ UNCHANGED <<present, past, future, pending, clipboard, showConfirm,
                 collided, dropped, nextId>>

DeleteEdge(e) ==
  /\ Edit(WithoutEdges(canvas, {e}))
  /\ UNCHANGED <<clipboard, showConfirm, collided, dropped, nextId>>

(* handleNodeDelete of one node.  A container with more than its start     *)
(* inside asks first; the Delete key pressed again while it asks finds     *)
(* showConfirm set and deletes the container alone.                        *)
DeleteNode(n) ==
  LET inside == Children(canvas, n)
      asks == IsContainer(canvas, n) /\ Cardinality(inside) > 1
  IN /\ canvas.node[n].type \notin {"start", "inner-start"}
     /\ IF asks /\ showConfirm = NoDialog
        THEN /\ showConfirm' = [container |-> n, children |-> inside]
             /\ UNCHANGED <<canvas, present, past, future, pending, edits>>
        ELSE /\ Edit(Without(canvas, {n} \cup
                       IF IsContainer(canvas, n) /\ ~ asks THEN inside
                       ELSE {}))
             /\ UNCHANGED showConfirm
     /\ UNCHANGED <<clipboard, nextId, collided, dropped>>

(* onConfirm: the nodes that were inside when it was asked, then the       *)
(* container, with its last node or with none, and without asking again.   *)
Confirm ==
  LET c == showConfirm.container
      g == Without(canvas, showConfirm.children)
      rest == Children(g, c)
  IN /\ showConfirm # NoDialog
     /\ Edit(IF c \notin DOMAIN g.node THEN g
             ELSE Without(g, {c} \cup
                    IF Cardinality(rest) = 1 THEN rest ELSE {}))
     /\ showConfirm' = NoDialog
     /\ UNCHANGED <<clipboard, nextId, collided, dropped>>

Cancel ==
  /\ showConfirm # NoDialog /\ showConfirm' = NoDialog
  /\ UNCHANGED <<canvas, clipboard, present, past, future, pending, nextId,
                 edits, collided, dropped>>

\* Mutant of DeleteBundle: the starts inside containers are bundled as well.
DeleteBundle_Starts(S) ==
  /\ S # {} /\ S \subseteq DOMAIN canvas.node
  /\ \A n \in S : canvas.node[n].type # "start"
  /\ Edit(Without(canvas, S \cup UNION {Children(canvas, n) :
                            n \in {m \in S : IsContainer(canvas, m)}}))
  /\ UNCHANGED <<clipboard, showConfirm, nextId, collided, dropped>>

(* handleNodesDelete of a bundle: bundled containers do not ask. *)
DeleteBundle(S) ==
  /\ S # {} /\ S \subseteq DOMAIN canvas.node
  /\ \A n \in S : canvas.node[n].type \notin {"start", "inner-start"}
  /\ Edit(Without(canvas, S \cup UNION {Children(canvas, n) :
                            n \in {m \in S : IsContainer(canvas, m)}}))
  /\ UNCHANGED <<clipboard, showConfirm, nextId, collided, dropped>>

-----------------------------------------------------------------------------
(* handleNodesCopy: one node, or a bundle of nodes of the top level. *)
Copy(S) ==
  /\ S # {} /\ S \subseteq DOMAIN canvas.node
  /\ \A n \in S : canvas.node[n].type \notin {"start", "inner-start"}
  /\ Cardinality(S) = 1 \/ \A n \in S : canvas.node[n].parent = Top
  /\ clipboard' = [n \in S |-> canvas.node[n].type]
  /\ UNCHANGED <<canvas, showConfirm, present, past, future, pending, nextId,
                 edits, collided, dropped>>

(* handleNodesPaste.  What is inside a copied container is what is on the  *)
(* canvas now; the edges inside it are copied for an iteration only, and   *)
(* the copy of a node from inside a container goes to the top level.       *)
CopiedContainers == {c \in DOMAIN clipboard : clipboard[c] \in Containers}
CopiedIterations == {c \in DOMAIN clipboard : clipboard[c] = "iteration"}
InnerNodes(c) == {n \in Children(canvas, c) :
                    canvas.node[n].type # "inner-start"}

(* A copy <<c, n>> is of n, which was copied itself (n = c) or is inside   *)
(* the copied container c.  Every copy gets an id of its own, but the id   *)
(* of a container's start is made of the time alone: it is the same for    *)
(* all containers that are pasted in one millisecond.                      *)
Copies == {<<c, c>> : c \in DOMAIN clipboard} \cup
          UNION {{<<c, n>> : n \in InnerNodes(c)} : c \in CopiedContainers}
CopyId(c, n) ==
  nextId + Cardinality({p \in Copies : (p[1] = c /\ p[2] < n) \/ p[1] < c})
StartId(c, together) ==
  nextId + Cardinality(Copies)
         + IF together THEN 0 ELSE Cardinality({d \in CopiedContainers : d < c})

\* Mutant of CopyNode: what is inside keeps its parent.
CopyNode_OldParent(c, n, together) ==
  IF n = c
  THEN [type |-> clipboard[c], parent |-> Top,
        start |-> IF c \in CopiedContainers THEN StartId(c, together) ELSE Top]
  ELSE canvas.node[n]

CopyNode(c, n, together) ==
  IF n = c
  THEN [type |-> clipboard[c], parent |-> Top,
        start |-> IF c \in CopiedContainers THEN StartId(c, together) ELSE Top]
  ELSE [type |-> canvas.node[n].type, parent |-> CopyId(c, c), start |-> Top]

(* Of the containers whose starts share an id, the last one has it. *)
NodeWithId(i, together) ==
  IF \E p \in Copies : CopyId(p[1], p[2]) = i
  THEN LET p == CHOOSE q \in Copies : CopyId(q[1], q[2]) = i
       IN CopyNode(p[1], p[2], together)
  ELSE LET cs == {c \in CopiedContainers : StartId(c, together) = i}
       IN [type |-> "inner-start", start |-> Top,
           parent |-> CopyId(CHOOSE c \in cs : \A d \in cs : d <= c,
                             CHOOSE c \in cs : \A d \in cs : d <= c)]

PastedIds(together) == {CopyId(p[1], p[2]) : p \in Copies} \cup
                       {StartId(c, together) : c \in CopiedContainers}

\* Mutant of IdMapping: the start of the copy is not put into the map.
IdMapping_NoStart(n, together) ==
  IF canvas.node[n].type = "inner-start" THEN Top
  ELSE CopyId(canvas.node[n].parent, n)

(* idMapping: the copy of what is inside a copied iteration. *)
IdMapping(n, together) ==
  LET c == canvas.node[n].parent
  IN IF canvas.node[n].type = "inner-start" THEN StartId(c, together)
     ELSE CopyId(c, n)
InIteration == UNION {Children(canvas, c) : c \in CopiedIterations}

Pasted(together) ==
  [node |-> [i \in DOMAIN canvas.node \cup PastedIds(together) |->
               IF i \in DOMAIN canvas.node THEN canvas.node[i]
               ELSE NodeWithId(i, together)],
   edges |-> canvas.edges \cup
     {Edge(IdMapping(e.source, together), e.handle,
           IdMapping(e.target, together)) :
        e \in {d \in canvas.edges : {d.source, d.target} \subseteq InIteration}}]

(* It throws, and pastes nothing, when the start of a copied iteration is  *)
(* not on the canvas any more.                                             *)
Paste ==
  /\ DOMAIN clipboard # {}
  /\ \A c \in CopiedIterations : Children(canvas, c) # InnerNodes(c)
  /\ \E together \in BOOLEAN :
       /\ Edit(Pasted(together))
       /\ nextId' = nextId + Cardinality(PastedIds(together))
       /\ collided' = (collided \/ (together /\ Cardinality(CopiedContainers) > 1))
  /\ UNCHANGED <<clipboard, showConfirm, dropped>>

-----------------------------------------------------------------------------
(* The debounced saveStateToHistory saves what is on the canvas by then.   *)
(* zundo keeps the state it replaces unless it is equal, in positions and  *)
(* in the event as well.                                                   *)
Save ==
  /\ pending > 0 /\ pending' = pending - 1
  /\ present' = canvas
  /\ \E differs \in {TRUE, present # canvas} :
       /\ past' = IF differs THEN Append(past, present) ELSE past
       /\ future' = IF differs THEN <<>> ELSE future
  /\ UNCHANGED <<canvas, clipboard, showConfirm, nextId, edits, collided, dropped>>

(* handleHistoryBack: with no past state, the last saved one is shown. *)
Undo ==
  /\ IF past = <<>> THEN UNCHANGED <<present, past, future>>
     ELSE /\ present' = past[Len(past)]
          /\ past' = SubSeq(past, 1, Len(past) - 1)
          /\ future' = Append(future, present)
  /\ canvas' = present'
  /\ UNCHANGED <<clipboard, showConfirm, pending, nextId, edits,
                 collided, dropped>>

(* handleHistoryForward. *)
Redo ==
  /\ IF future = <<>> THEN UNCHANGED <<present, past, future>>
     ELSE /\ present' = future[Len(future)]
          /\ future' = SubSeq(future, 1, Len(future) - 1)
          /\ past' = Append(past, present)
  /\ canvas' = present'
  /\ UNCHANGED <<clipboard, showConfirm, pending, nextId, edits,
                 collided, dropped>>

EditCanvas ==
  \/ \E s, t \in DOMAIN canvas.node : Connect(s, t) \/ ConnectEnd(s, t)
  \/ \E n \in DOMAIN canvas.node, type \in NewTypes :
       AddAfter(n, type) \/ AddBefore(n, type) \/ Change(n, type)
  \/ \E e \in canvas.edges :
       DeleteEdge(e) \/ \E type \in NewTypes : InsertBetween(e, type)
  \/ \E n \in DOMAIN canvas.node :
       \/ Disconnect(n) \/ DeleteNode(n)
       \/ \E h \in {"true", "false"} : DeleteBranch(n, h)
  \/ Confirm \/ Paste
  \/ \E S \in SUBSET DOMAIN canvas.node : DeleteBundle(S) \/ Copy(S)

Next ==
  \/ edits < MaxEdits /\ EditCanvas \* also what an edit would come after
  \/ Cancel \/ Save \/ Undo \/ Redo

Spec == Init /\ [][Next]_vars

-----------------------------------------------------------------------------
States == {canvas, present} \cup {past[i] : i \in DOMAIN past}
                            \cup {future[i] : i \in DOMAIN future}

TypeOK ==
  /\ \A g \in States : IsGraph(g)
  /\ \A n \in DOMAIN clipboard : n \in Ids /\ clipboard[n] \in Types
  /\ showConfirm.container \in Ids \cup {Top}
  /\ showConfirm.children \subseteq Ids
  /\ pending \in Nat /\ edits \in 0..MaxEdits
  /\ nextId \in Nat \ {0} /\ collided \in BOOLEAN /\ dropped \in BOOLEAN

(* Every edge of the canvas joins two of its nodes, also after an undo, a  *)
(* paste of nodes that are gone, or a delete confirmed late.               *)
EdgesJoinNodes == \A g \in States : EdgesJoin(g)

(* No edge crosses the border of a container, so that a container is run   *)
(* as a graph of its own; two containers pasted in the same millisecond    *)
(* share the node their insides start at, and are left out.                *)
EdgesStayInLevel == collided \/ StaysInLevel(canvas)

(* A container of the canvas has the node its inside starts at, and it is  *)
(* its own: what getParallelInfo, and the engine, look for.                *)
ContainersHaveStart == collided \/ HasStarts(canvas)

(* No cycle is drawn, on the way from a start or elsewhere, also not by an *)
(* insertion, the paste of what is inside a container, or an undo that     *)
(* brings back edges that others were drawn without.  What connects two    *)
(* handles is asked for (isValidConnection): only a connection that was    *)
(* dropped on an aggregator can have closed a cycle (use-nodes-            *)
(* interactions.ts:491-526, utils/workflow.ts:232-242).                    *)
NoCycleUnlessDropped == dropped \/ Acyclic(canvas)

(* With no save to come, the canvas shows the state that undo starts from: *)
(* no edit is left out of the history.                                     *)
SettledIsSaved == pending = 0 => canvas = present
=============================================================================
