------------------------ MODULE WorkflowCanvasProofs ------------------------
(***************************************************************************)
(* The safety invariants of the canvas, for every draft, set of blocks and *)
(* bound.  A handler looks at the canvas alone, but undo brings back any   *)
(* state of the history, and a late confirmation and a paste act on what   *)
(* was captured before: the inductive invariant is about all these states  *)
(* at once, and rests on the freshness of ids.  That no cycle is drawn has *)
(* an invariant of its own, and a theory of what is reached along the      *)
(* edges before it.                                                        *)
(***************************************************************************)
EXTENDS WorkflowCanvas, FiniteSetTheorems, WellFoundedInduction, TLAPS

(* Undo and redo take the last state of a sequence.                        *)
IsSeq(s) == \E T : s \in Seq(T)

(* The bounds of the counters, and the types of what was captured.         *)
CountsInv ==
  /\ edits \in 0..MaxEdits /\ pending \in 0..edits
  /\ nextId \in Nat \ {0} /\ collided \in BOOLEAN
  /\ IsSeq(past) /\ IsSeq(future)
  /\ \A n \in DOMAIN clipboard :
       n \in Ids /\ clipboard[n] \in Types \ {"start", "inner-start"}
  /\ showConfirm.container \in Ids \cup {Top}
  /\ showConfirm.children \subseteq Ids

(* No id was given out that is not below nextId.                           *)
IdsUsed(g) == \A n \in DOMAIN g.node : n < nextId
Sound(g) == /\ IsGraph(g) /\ EdgesJoin(g) /\ ContainersAtTop(g) /\ IdsUsed(g)
            /\ collided \/ (StaysInLevel(g) /\ HasStarts(g))

(* A node has the same type and the same parent in every state it is in.   *)
(* The dialog captured a container and nodes inside of it, the clipboard   *)
(* the types of nodes: so they are wherever these nodes still are.         *)
SameNode(m, n) == m.type = n.type /\ m.parent = n.parent
SameNodes(g, h) ==
  \A n \in DOMAIN g.node \cap DOMAIN h.node : SameNode(g.node[n], h.node[n])
CapturedRight(g) ==
  /\ showConfirm.container \in DOMAIN g.node => IsContainer(g, showConfirm.container)
  /\ \A n \in showConfirm.children \cap DOMAIN g.node :
       g.node[n].parent = showConfirm.container
  /\ \A n \in DOMAIN clipboard \cap DOMAIN g.node : g.node[n].type = clipboard[n]

CapturedIds ==
  showConfirm.children \cup {showConfirm.container} \cup DOMAIN clipboard

CanvasInv ==
  /\ CountsInv
  /\ \A g \in States : Sound(g) /\ CapturedRight(g)
  /\ \A g, h \in States : SameNodes(g, h)
  /\ \A n \in CapturedIds : n < nextId
  /\ SettledIsSaved

-----------------------------------------------------------------------------
(* A set of numbers that is bounded has a greatest one.                    *)
LEMMA Greatest ==
  ASSUME NEW k \in Nat, NEW S \in SUBSET (0..k), S # {}
  PROVE  \E m \in S : \A n \in S : n <= m
<1> DEFINE below == {k - n : n \in S}
<1>1. below \subseteq Nat /\ below # {}
  <2>1. below \subseteq Nat
    OBVIOUS
  <2>2. PICK n \in S : TRUE
    OBVIOUS
  <2>3. k - n \in below
    BY <2>2
  <2> QED
    BY <2>1, <2>3
<1>2. PICK x \in below : \A y \in below : ~ (<<y, x>> \in OpToRel(<, Nat))
  <2>1. \E x \in below : \A y \in below : ~ (<<y, x>> \in OpToRel(<, Nat))
    BY <1>1, NatLessThanWellFounded, WFMin
  <2> QED
    BY <2>1
<1>3. PICK m \in S : x = k - m
  OBVIOUS
<1>4. ASSUME NEW n \in S PROVE n <= m
  <2>1. k - n \in below /\ k - n \in Nat /\ k - m \in Nat
    OBVIOUS
  <2>2. ~ (k - n < k - m)
    BY <2>1, <1>2, <1>3 DEF OpToRel
  <2> QED
    BY <2>2
<1> QED
  BY <1>4

(* What the ends of the history are.                                       *)
LEMMA Log ==
  ASSUME NEW s, IsSeq(s)
  PROVE  /\ \A x : /\ IsSeq(Append(s, x))
                   /\ \A i \in DOMAIN Append(s, x) :
                        Append(s, x)[i] = x \/ \E j \in DOMAIN s : Append(s, x)[i] = s[j]
         /\ s # <<>> =>
              /\ Len(s) \in DOMAIN s
              /\ IsSeq(SubSeq(s, 1, Len(s) - 1))
              /\ \A i \in DOMAIN SubSeq(s, 1, Len(s) - 1) :
                   i \in DOMAIN s /\ SubSeq(s, 1, Len(s) - 1)[i] = s[i]
<1>1. PICK T : s \in Seq(T)
  BY DEF IsSeq
<1>2. ASSUME NEW x
      PROVE  /\ IsSeq(Append(s, x))
             /\ \A i \in DOMAIN Append(s, x) :
                  Append(s, x)[i] = x \/ \E j \in DOMAIN s : Append(s, x)[i] = s[j]
  <2>1. s \in Seq(T \cup {x})
    BY <1>1
  <2>2. Append(s, x) \in Seq(T \cup {x})
    BY <2>1
  <2>3. IsSeq(Append(s, x))
    BY <2>2 DEF IsSeq
  <2>4. \A i \in DOMAIN Append(s, x) :
          Append(s, x)[i] = x \/ \E j \in DOMAIN s : Append(s, x)[i] = s[j]
    BY <2>1
  <2> QED
    BY <2>3, <2>4
<1>3. ASSUME s # <<>>
      PROVE  /\ Len(s) \in DOMAIN s
             /\ SubSeq(s, 1, Len(s) - 1) \in Seq(T)
             /\ \A i \in DOMAIN SubSeq(s, 1, Len(s) - 1) :
                  i \in DOMAIN s /\ SubSeq(s, 1, Len(s) - 1)[i] = s[i]
  BY <1>1, <1>3
<1>4. s # <<>> => IsSeq(SubSeq(s, 1, Len(s) - 1))
  BY <1>3 DEF IsSeq
<1> QED
  BY <1>2, <1>3, <1>4

LEMMA EmptyLog == IsSeq(<<>>) /\ DOMAIN <<>> = {}
<1>1. <<>> \in Seq({})
  OBVIOUS
<1> QED
  BY <1>1 DEF IsSeq

-----------------------------------------------------------------------------
(* What the invariant asks of the next canvas: it is sound, and its nodes  *)
(* are of before, where they were, or new.                                 *)
KeepsNodes(g) ==
  \A n \in DOMAIN g.node :
    \/ n \in DOMAIN canvas.node /\ SameNode(g.node[n], canvas.node[n])
    \/ n >= nextId

(* With a sound canvas, and the dialog as it was or closed, the other      *)
(* states are sound still: they are states of before.                      *)
LEMMA CanvasKeeps ==
  ASSUME CanvasInv, CountsInv', SettledIsSaved',
         \A g \in States' : g \in States \/ g = canvas',
         Sound(canvas)', KeepsNodes(canvas'),
         nextId' \in Nat, nextId' >= nextId, collided => collided',
         clipboard' = clipboard, showConfirm' \in {showConfirm, NoDialog}
  PROVE  CanvasInv'
<1>1. canvas \in States
  BY DEF States
<1>2. ASSUME NEW g \in States' PROVE Sound(g)' /\ CapturedRight(g)'
  <2>1. ASSUME g \in States PROVE Sound(g)' /\ CapturedRight(g)'
    <3>1. Sound(g) /\ CapturedRight(g)
      BY <2>1 DEF CanvasInv
    <3>2. Sound(g)'
      <4>1. DOMAIN g.node \subseteq Nat
        BY <3>1, BoundsAssumption DEF Sound, IsGraph, Ids
      <4>2. \A n \in DOMAIN g.node : n < nextId'
        BY <3>1, <4>1 DEF Sound, IdsUsed, CanvasInv, CountsInv
      <4> QED
        BY <3>1, <4>2 DEF Sound, IdsUsed
    <3>3. CapturedRight(g)'
      <4>1. 0 \notin DOMAIN g.node
        BY <3>1, BoundsAssumption DEF Sound, IsGraph, Ids
      <4> QED
        BY <3>1, <4>1 DEF CapturedRight, NoDialog, Top, IsContainer
    <3> QED
      BY <3>2, <3>3
  <2>2. ASSUME g = canvas' PROVE Sound(g)' /\ CapturedRight(g)'
    <3>1. ASSUME NEW n \in CapturedIds, n \in DOMAIN canvas'.node
          PROVE  n \in DOMAIN canvas.node /\ SameNode(canvas'.node[n], canvas.node[n])
      <4>1. n < nextId /\ n \in Nat /\ nextId \in Nat
        BY BoundsAssumption DEF CanvasInv, CountsInv, Ids, Top, CapturedIds
      <4> QED
        BY <3>1, <4>1 DEF KeepsNodes
    <3>2. CapturedRight(canvas)
      BY <1>1 DEF CanvasInv
    <3>3. \A n \in DOMAIN clipboard \cap DOMAIN canvas'.node :
            canvas'.node[n].type = clipboard[n]
      BY <3>1, <3>2 DEF CapturedRight, SameNode, CapturedIds
    <3>4. CASE showConfirm' = NoDialog
      <4>1. DOMAIN canvas'.node \subseteq Nat \ {0}
        BY BoundsAssumption DEF Sound, IsGraph, Ids
      <4> QED
        BY <2>2, <3>3, <3>4, <4>1 DEF CapturedRight, NoDialog, Top
    <3>5. CASE showConfirm' = showConfirm
      BY <2>2, <3>1, <3>2, <3>3, <3>5 DEF CapturedRight, SameNode, IsContainer, CapturedIds
    <3> QED
      BY <3>4, <3>5
  <2> QED
    BY <2>1, <2>2
<1>3. ASSUME NEW g \in States' PROVE SameNodes(canvas', g) /\ SameNodes(g, canvas')
  <2>1. ASSUME g \in States, NEW n \in DOMAIN canvas'.node \cap DOMAIN g.node
        PROVE  SameNode(canvas'.node[n], g.node[n])
    <3>1. n < nextId /\ n \in Nat /\ nextId \in Nat
      BY <2>1, BoundsAssumption DEF CanvasInv, CountsInv, Sound, IdsUsed, IsGraph, Ids
    <3>2. n \in DOMAIN canvas.node /\ SameNode(canvas'.node[n], canvas.node[n])
      BY <3>1 DEF KeepsNodes
    <3> QED
      BY <2>1, <3>2, <1>1 DEF CanvasInv, SameNodes, SameNode
  <2>2. ASSUME g \in States PROVE SameNodes(canvas', g) /\ SameNodes(g, canvas')
    BY <2>1, <2>2 DEF SameNodes, SameNode
  <2>3. ASSUME g = canvas' PROVE SameNodes(canvas', g) /\ SameNodes(g, canvas')
    BY <2>3 DEF SameNodes, SameNode
  <2> QED
    BY <2>2, <2>3
<1>4. \A g, h \in States' : SameNodes(g, h)
  BY <1>3 DEF CanvasInv
<1>5. \A n \in CapturedIds' : n < nextId'
  <2>1. \A n \in CapturedIds' : n < nextId /\ n \in Nat /\ nextId \in Nat
    BY BoundsAssumption DEF CanvasInv, CountsInv, NoDialog, Ids, Top, CapturedIds
  <2> QED
    BY <2>1
<1> QED
  BY <1>2, <1>4, <1>5 DEF CanvasInv, SameNodes

(* An edit keeps the invariant when what it makes of the canvas is sound.  *)
EditIsSound(g) ==
  /\ IsGraph(g) /\ EdgesJoin(g) /\ ContainersAtTop(g)
  /\ \A n \in DOMAIN g.node : n < nextId'
  /\ collided' \/ (StaysInLevel(g) /\ HasStarts(g))
  /\ KeepsNodes(g)

LEMMA EditKeeps ==
  ASSUME CanvasInv, NEW g, Edit(g), EditIsSound(g),
         nextId' \in Nat, nextId' >= nextId,
         collided' \in BOOLEAN, collided => collided',
         UNCHANGED clipboard, showConfirm' \in {showConfirm, NoDialog}
  PROVE  CanvasInv'
<1>1. edits \in Nat /\ pending \in Nat /\ pending <= edits /\ edits + 1 <= MaxEdits
  BY BoundsAssumption DEF CanvasInv, CountsInv, Edit
<1>2. edits' \in 0..MaxEdits /\ pending' \in 0..edits' /\ pending' # 0
  BY <1>1, BoundsAssumption DEF Edit
<1>3. CountsInv'
  <2>1. nextId' \in Nat \ {0}
    BY DEF CanvasInv, CountsInv
  <2>2. /\ showConfirm'.container \in Ids \cup {Top}
        /\ showConfirm'.children \subseteq Ids
    BY DEF CanvasInv, CountsInv, NoDialog
  <2> QED
    BY <1>2, <2>1, <2>2 DEF CanvasInv, CountsInv, Edit
<1>4. \A h \in States' : h \in States \/ h = canvas'
  BY DEF States, Edit
<1>5. Sound(canvas)' /\ KeepsNodes(canvas')
  <2>1. canvas' = g
    BY DEF Edit
  <2> QED
    BY <2>1 DEF EditIsSound, Sound, IdsUsed
<1>6. SettledIsSaved'
  BY <1>2 DEF SettledIsSaved
<1> QED
  BY <1>3, <1>4, <1>5, <1>6, CanvasKeeps

-----------------------------------------------------------------------------
(* A part of the canvas is sound when its edges join what is left and its  *)
(* containers keep their starts.                                           *)
PartOfCanvas(g) ==
  /\ g = [node |-> [n \in DOMAIN g.node |-> canvas.node[n]], edges |-> g.edges]
  /\ DOMAIN g.node \subseteq DOMAIN canvas.node
  /\ g.edges \subseteq canvas.edges

LEMMA CanvasIsSound == CanvasInv => /\ canvas \in States /\ Sound(canvas)
                                    /\ DOMAIN canvas.node \subseteq Ids
                                    /\ Ids \subseteq Nat /\ 0 \notin Ids
                                    /\ nextId \in Nat
BY BoundsAssumption DEF CanvasInv, CountsInv, States, Sound, IsGraph, Ids

LEMMA PartIsSound ==
  ASSUME CanvasInv, NEW g, PartOfCanvas(g), EdgesJoin(g),
         \A c \in DOMAIN g.node :
           /\ canvas.node[c].type \in Containers
           /\ canvas.node[c].start \in DOMAIN canvas.node
           /\ canvas.node[canvas.node[c].start].type = "inner-start"
           /\ canvas.node[canvas.node[c].start].parent = c
           => canvas.node[c].start \in DOMAIN g.node
  PROVE  Sound(g) /\ KeepsNodes(g)
<1>1. Sound(canvas) /\ DOMAIN canvas.node \subseteq Ids /\ nextId \in Nat
  BY CanvasIsSound
<1>2. \A n \in DOMAIN g.node : n \in DOMAIN canvas.node /\ g.node[n] = canvas.node[n]
  BY DEF PartOfCanvas
<1>3. IsGraph(g)
  BY <1>1, <1>2 DEF PartOfCanvas, Sound, IsGraph
<1>4. ContainersAtTop(g)
  BY <1>1, <1>2 DEF Sound, ContainersAtTop
<1>5. IdsUsed(g)
  BY <1>1, <1>2 DEF Sound, IdsUsed
<1>6. KeepsNodes(g)
  BY <1>2 DEF KeepsNodes, SameNode
<1>7. ASSUME ~ collided PROVE StaysInLevel(g) /\ HasStarts(g)
  <2>1. StaysInLevel(canvas) /\ HasStarts(canvas)
    BY <1>1, <1>7 DEF Sound
  <2>2. StaysInLevel(g)
    BY <1>2, <2>1 DEF StaysInLevel, EdgesJoin, PartOfCanvas
  <2>3. HasStarts(g)
    BY <1>2, <2>1 DEF HasStarts
  <2> QED
    BY <2>2, <2>3
<1> QED
  BY <1>3, <1>4, <1>5, <1>6, <1>7 DEF Sound

LEMMA SoundIsEnough ==
  ASSUME NEW g, Sound(g), KeepsNodes(g), nextId' = nextId, collided' = collided
  PROVE  EditIsSound(g)
BY DEF Sound, IdsUsed, EditIsSound

LEMMA LessEdges ==
  ASSUME CanvasInv, NEW E
  PROVE  LET g == WithoutEdges(canvas, E) IN Sound(g) /\ KeepsNodes(g)
<1> DEFINE g == WithoutEdges(canvas, E)
<1>1. /\ DOMAIN g.node = DOMAIN canvas.node
      /\ g.edges \subseteq canvas.edges
      /\ g.node = canvas.node
  BY DEF WithoutEdges
<1>2. canvas.node = [n \in DOMAIN canvas.node |-> canvas.node[n]] /\ EdgesJoin(canvas)
  BY CanvasIsSound DEF Sound, IsGraph
<1>3. g = [node |-> [n \in DOMAIN g.node |-> canvas.node[n]], edges |-> g.edges]
  BY <1>2 DEF WithoutEdges
<1>4. EdgesJoin(g)
  BY <1>1, <1>2 DEF EdgesJoin
<1> HIDE DEF g
<1>5. PartOfCanvas(g)
  BY <1>1, <1>3 DEF PartOfCanvas
<1>6. Sound(g) /\ KeepsNodes(g)
  BY <1>1, <1>4, <1>5, PartIsSound
<1> QED
  BY <1>6 DEF g

(* Nodes are taken from the canvas with their edges: of the starts of      *)
(* containers, only with their container.                                  *)
LEMMA LessNodes ==
  ASSUME CanvasInv, NEW S,
         \A n \in S \cap DOMAIN canvas.node :
           canvas.node[n].type = "inner-start" =>
             canvas.node[n].parent \in S \/ canvas.node[n].parent \notin DOMAIN canvas.node
  PROVE  LET g == Without(canvas, S) IN Sound(g) /\ KeepsNodes(g)
<1> DEFINE g == Without(canvas, S)
<1>1. /\ DOMAIN g.node = DOMAIN canvas.node \ S
      /\ g.edges = canvas.edges \ Connected(canvas, S)
  BY DEF Without
<1>2. g = [node |-> [n \in DOMAIN g.node |-> canvas.node[n]], edges |-> g.edges]
  BY DEF Without
<1>3. EdgesJoin(canvas)
  BY CanvasIsSound DEF Sound
<1> HIDE DEF g
<1>4. EdgesJoin(g)
  BY <1>1, <1>3 DEF EdgesJoin, Connected
<1>5. PartOfCanvas(g)
  BY <1>1, <1>2 DEF PartOfCanvas
<1>6. Sound(g) /\ KeepsNodes(g)
  BY <1>1, <1>4, <1>5, PartIsSound
<1> QED
  BY <1>6 DEF g

LEMMA DisconnectKeeps ==
  ASSUME CanvasInv, NEW n, Disconnect(n) PROVE CanvasInv'
<1> DEFINE g == WithoutEdges(canvas, Connected(canvas, {n}))
<1>1. /\ Edit(g) /\ nextId' = nextId /\ UNCHANGED <<clipboard, showConfirm, collided>>
  BY DEF Disconnect, MouseEdit
<1>2. EditIsSound(g)
  BY <1>1, LessEdges, SoundIsEnough
<1>3. nextId \in Nat /\ collided \in BOOLEAN
  BY DEF CanvasInv, CountsInv
<1> QED
  BY <1>1, <1>2, <1>3, EditKeeps

LEMMA DeleteBranchKeeps ==
  ASSUME CanvasInv, NEW n, NEW h, DeleteBranch(n, h) PROVE CanvasInv'
<1> DEFINE g == WithoutEdges(canvas, {e \in canvas.edges : e.source = n /\ e.handle = h})
<1>1. /\ Edit(g) /\ nextId' = nextId /\ UNCHANGED <<clipboard, showConfirm, collided>>
  BY DEF DeleteBranch, MouseEdit
<1>2. EditIsSound(g)
  BY <1>1, LessEdges, SoundIsEnough
<1>3. nextId \in Nat /\ collided \in BOOLEAN
  BY DEF CanvasInv, CountsInv
<1> QED
  BY <1>1, <1>2, <1>3, EditKeeps

LEMMA DeleteEdgeKeeps ==
  ASSUME CanvasInv, NEW e, DeleteEdge(e) PROVE CanvasInv'
<1> DEFINE g == WithoutEdges(canvas, {e})
<1>1. /\ Edit(g) /\ nextId' = nextId /\ UNCHANGED <<clipboard, showConfirm, collided>>
  BY DEF DeleteEdge
<1>2. EditIsSound(g)
  BY <1>1, LessEdges, SoundIsEnough
<1>3. nextId \in Nat /\ collided \in BOOLEAN
  BY DEF CanvasInv, CountsInv
<1> QED
  BY <1>1, <1>2, <1>3, EditKeeps

LEMMA DeleteBundleKeeps ==
  ASSUME CanvasInv, NEW S, DeleteBundle(S) PROVE CanvasInv'
<1> DEFINE gone == S \cup UNION {Children(canvas, n) : n \in {m \in S : IsContainer(canvas, m)}}
<1> DEFINE g == Without(canvas, gone)
<1>1. /\ Edit(g) /\ nextId' = nextId /\ UNCHANGED <<clipboard, showConfirm, collided>>
  BY DEF DeleteBundle
<1>2. ASSUME NEW n \in gone \cap DOMAIN canvas.node, canvas.node[n].type = "inner-start"
      PROVE  canvas.node[n].parent \in gone
  <2>1. n \notin S
    BY <1>2 DEF DeleteBundle
  <2>2. PICK c \in S : n \in Children(canvas, c)
    BY <1>2, <2>1
  <2> QED
    BY <2>2 DEF Children
<1> HIDE DEF gone
<1>3. EditIsSound(g)
  BY <1>1, <1>2, LessNodes, SoundIsEnough
<1>4. nextId \in Nat /\ collided \in BOOLEAN
  BY DEF CanvasInv, CountsInv
<1> QED
  BY <1>1, <1>3, <1>4, EditKeeps

(* The dialog captures what is inside of the container; the canvas is as   *)
(* it was.                                                                 *)
LEMMA StaysPut ==
  ASSUME CanvasInv, UNCHANGED <<canvas, present, past, future, pending, nextId, edits, collided>>,
         \A n \in DOMAIN clipboard' :
           n \in Ids /\ clipboard'[n] \in Types \ {"start", "inner-start"},
         showConfirm'.container \in Ids \cup {Top},
         showConfirm'.children \subseteq Ids,
         \A n \in CapturedIds' : n < nextId,
         \A g \in States : CapturedRight(g)'
  PROVE  CanvasInv'
<1>1. States' = States
  BY DEF States
<1>2. CountsInv'
  BY DEF CanvasInv, CountsInv
<1>3. \A g : Sound(g)' <=> Sound(g)
  BY DEF Sound, IdsUsed
<1> QED
  BY <1>1, <1>2, <1>3 DEF CanvasInv, SettledIsSaved

LEMMA CancelKeeps == CanvasInv /\ Cancel => CanvasInv'
<1> SUFFICES ASSUME CanvasInv, Cancel PROVE CanvasInv'
  OBVIOUS
<1>1. showConfirm' = NoDialog /\ clipboard' = clipboard
  BY DEF Cancel
<1>2. /\ showConfirm'.container = Top /\ showConfirm'.children = {}
  BY <1>1 DEF NoDialog
<1>3. ASSUME NEW g \in States PROVE CapturedRight(g)'
  <2>1. 0 \notin DOMAIN g.node
    BY BoundsAssumption DEF CanvasInv, Sound, IsGraph, Ids
  <2> QED
    BY <1>1, <1>2, <2>1 DEF CapturedRight, Top, CanvasInv
<1> QED
  <2>1. \A n \in CapturedIds' : n < nextId
    BY <1>1, <1>2 DEF CanvasInv, CountsInv, CapturedIds, Top
  <2> QED
    BY <1>1, <1>2, <1>3, <2>1, StaysPut DEF Cancel, CanvasInv, CountsInv, Top

LEMMA CopyKeeps ==
  ASSUME CanvasInv, NEW S, Copy(S) PROVE CanvasInv'
<1>1. showConfirm' = showConfirm /\ clipboard' = [n \in S |-> canvas.node[n].type]
  BY DEF Copy
<1>2. \A n \in S : n \in DOMAIN canvas.node /\ canvas.node[n].type \in Types \ {"start", "inner-start"}
  BY CanvasIsSound DEF Copy, Sound, IsGraph, Nodes
<1>3. \A n \in DOMAIN clipboard' :
        n \in Ids /\ clipboard'[n] \in Types \ {"start", "inner-start"}
  BY <1>1, <1>2, CanvasIsSound
<1>4. ASSUME NEW g \in States PROVE CapturedRight(g)'
  <2>1. CapturedRight(g) /\ SameNodes(g, canvas)
    BY CanvasIsSound DEF CanvasInv
  <2> QED
    BY <1>1, <1>2, <2>1 DEF CapturedRight, SameNodes, SameNode, IsContainer
<1>5. \A n \in CapturedIds' : n < nextId
  BY <1>1, <1>2, CanvasIsSound DEF CanvasInv, CapturedIds, Sound, IdsUsed
<1> QED
  BY <1>1, <1>3, <1>4, <1>5, StaysPut DEF Copy, CanvasInv, CountsInv

LEMMA DeleteNodeKeeps ==
  ASSUME CanvasInv, NEW n \in DOMAIN canvas.node, DeleteNode(n) PROVE CanvasInv'
<1> DEFINE inside == Children(canvas, n)
           asks == IsContainer(canvas, n) /\ Cardinality(inside) > 1
           gone == {n} \cup IF IsContainer(canvas, n) /\ ~ asks THEN inside ELSE {}
<1>1. Sound(canvas) /\ DOMAIN canvas.node \subseteq Ids /\ canvas \in States
  BY CanvasIsSound
<1>2. CASE asks /\ showConfirm = NoDialog
  <2>1. /\ showConfirm' = [container |-> n, children |-> inside] /\ clipboard' = clipboard
        /\ UNCHANGED <<canvas, present, past, future, pending, nextId, edits, collided>>
    BY <1>2 DEF DeleteNode
  <2>2. /\ showConfirm'.container = n /\ showConfirm'.children = inside
    BY <2>1
  <2>3. \A m \in inside : m \in DOMAIN canvas.node /\ canvas.node[m].parent = n /\ m < nextId
    BY <1>1 DEF Children, Sound, IdsUsed
  <2>4. ASSUME NEW g \in States PROVE CapturedRight(g)'
    <3>1. \A m \in DOMAIN g.node \cap DOMAIN canvas.node :
            SameNode(g.node[m], canvas.node[m])
      BY <1>1 DEF CanvasInv, SameNodes
    <3> QED
      BY <1>2, <2>1, <2>2, <2>3, <3>1 DEF CapturedRight, SameNode, IsContainer, CanvasInv
  <2> QED
    <3>1. n \in Ids /\ n < nextId /\ inside \subseteq Ids
      BY <1>1, <2>3 DEF Sound, IdsUsed
    <3>2. \A m \in CapturedIds' : m < nextId
      BY <2>1, <2>2, <2>3, <3>1 DEF CanvasInv, CapturedIds
    <3> QED
      BY <2>1, <2>2, <2>3, <2>4, <3>1, <3>2, StaysPut DEF CanvasInv, CountsInv
<1>3. CASE ~ (asks /\ showConfirm = NoDialog)
  <2>1. /\ Edit(Without(canvas, gone)) /\ nextId' = nextId
        /\ UNCHANGED <<clipboard, showConfirm, collided>>
    BY <1>3 DEF DeleteNode
  <2>2. \A m \in gone \cap DOMAIN canvas.node :
          canvas.node[m].type = "inner-start" => canvas.node[m].parent \in gone
    BY DEF DeleteNode, Children
  <2> HIDE DEF gone
  <2>3. EditIsSound(Without(canvas, gone))
    BY <2>1, <2>2, LessNodes, SoundIsEnough
  <2>4. nextId \in Nat /\ collided \in BOOLEAN
    BY DEF CanvasInv, CountsInv
  <2> QED
    BY <2>1, <2>3, <2>4, EditKeeps
<1> QED
  BY <1>2, <1>3

(* However late it comes, the confirmation takes the start of no other     *)
(* container: what was captured is still of that one, or gone.             *)
LEMMA ConfirmKeeps == CanvasInv /\ Confirm => CanvasInv'
<1> SUFFICES ASSUME CanvasInv, Confirm PROVE CanvasInv'
  OBVIOUS
<1> DEFINE c == showConfirm.container
           first == Without(canvas, showConfirm.children)
           rest == Children(first, c)
           last == {c} \cup IF Cardinality(rest) = 1 THEN rest ELSE {}
           g == IF c \notin DOMAIN first.node THEN first ELSE Without(first, last)
           gone == showConfirm.children \cup IF c \notin DOMAIN first.node THEN {} ELSE last
<1>1. /\ Edit(g) /\ nextId' = nextId /\ showConfirm' = NoDialog
      /\ UNCHANGED <<clipboard, collided>>
  BY DEF Confirm
<1>2. \A m \in showConfirm.children \cap DOMAIN canvas.node : canvas.node[m].parent = c
  BY CanvasIsSound DEF CanvasInv, CapturedRight
<1>3. /\ DOMAIN first.node = DOMAIN canvas.node \ showConfirm.children
      /\ \A m \in DOMAIN first.node : first.node[m] = canvas.node[m]
      /\ first.edges = canvas.edges \ Connected(canvas, showConfirm.children)
  BY DEF Without
<1> HIDE DEF first
<1>4. g = Without(canvas, gone)
  <2>1. CASE c \notin DOMAIN first.node
    BY <2>1 DEF first
  <2>2. CASE c \in DOMAIN first.node
    <3>1. g = [node |-> [m \in DOMAIN first.node \ last |-> first.node[m]],
               edges |-> first.edges \ Connected(first, last)]
      BY <2>2 DEF Without
    <3>2. DOMAIN first.node \ last = DOMAIN canvas.node \ gone
      BY <2>2, <1>3
    <3>3. first.edges \ Connected(first, last) = canvas.edges \ Connected(canvas, gone)
      BY <2>2, <1>3 DEF Connected
    <3>4. \A m \in DOMAIN canvas.node \ gone : first.node[m] = canvas.node[m]
      BY <1>3, <3>2
    <3> HIDE DEF g, gone, last
    <3>5. [m \in DOMAIN first.node \ last |-> first.node[m]]
            = [m \in DOMAIN canvas.node \ gone |-> canvas.node[m]]
      BY <3>2, <3>4
    <3> QED
      BY <3>1, <3>3, <3>5 DEF Without
  <2> QED
    BY <2>1, <2>2
<1>5. \A m \in gone \cap DOMAIN canvas.node :
        canvas.node[m].parent = c \/ (m = c /\ c \in gone)
  BY <1>2, <1>3 DEF Children
<1>6. ASSUME NEW m \in gone \cap DOMAIN canvas.node, canvas.node[m].type = "inner-start"
      PROVE  canvas.node[m].parent \in gone \/ canvas.node[m].parent \notin DOMAIN canvas.node
  <2>1. c \in gone \/ c \notin DOMAIN canvas.node
    BY <1>3
  <2>2. m # c
    BY <1>6, CanvasIsSound DEF CanvasInv, CapturedRight, IsContainer, Containers
  <2> QED
    BY <1>5, <2>1, <2>2
<1> HIDE DEF g, gone
<1>7. EditIsSound(g)
  BY <1>1, <1>4, <1>6, LessNodes, SoundIsEnough
<1>8. nextId \in Nat /\ collided \in BOOLEAN
  BY DEF CanvasInv, CountsInv
<1> QED
  BY <1>1, <1>7, <1>8, EditKeeps

-----------------------------------------------------------------------------
(* The new node of an edit: where it is told, and, when it is a container, *)
(* with its start inside.  The others are as they were, except that a      *)
(* container which is not sound any more may start elsewhere.              *)
Grown(base, g, type, parent) ==
  /\ g.node = [n \in DOMAIN g.node |-> g.node[n]]
  /\ DOMAIN g.node = DOMAIN base.node \cup Fresh(type)
  /\ \A n \in DOMAIN base.node :
       \/ g.node[n] = base.node[n]
       \/ collided /\ g.node[n] \in Nodes /\ SameNode(g.node[n], base.node[n])
  /\ g.node[nextId] =
       [type |-> type, parent |-> parent,
        start |-> IF type \in Containers THEN nextId + 1 ELSE Top]
  /\ type \in Containers =>
       g.node[nextId + 1] = [type |-> "inner-start", parent |-> nextId, start |-> Top]

EdgesFit(g, E) ==
  /\ E \subseteq Edges
  /\ \A e \in E : /\ e.source \in DOMAIN g.node /\ e.target \in DOMAIN g.node
                  /\ collided \/ g.node[e.source].parent = g.node[e.target].parent

LEMMA FreshIds ==
  ASSUME NEW type, nextId \in Nat
  PROVE  /\ nextId \in Fresh(type)
         /\ type \in Containers => nextId + 1 \in Fresh(type)
         /\ Fresh(type) \subseteq Nat
         /\ Cardinality(Fresh(type)) \in Nat
         /\ \A i \in Fresh(type) : i >= nextId /\ i < nextId + Cardinality(Fresh(type))
         /\ \A i \in Fresh(type) : i = nextId \/ (i = nextId + 1 /\ type \in Containers)
<1>1. IsFiniteSet({nextId}) /\ Cardinality({nextId}) = 1
  BY FS_Singleton
<1>2. Cardinality({nextId} \cup {nextId + 1}) = 2
  BY <1>1, FS_AddElement
<1>3. {nextId} \cup {nextId + 1} = {nextId, nextId + 1}
  OBVIOUS
<1>4. Cardinality(Fresh(type)) = IF type \in Containers THEN 2 ELSE 1
  BY <1>1, <1>2, <1>3 DEF Fresh
<1> QED
  BY <1>4 DEF Fresh

LEMMA GrownIsSound ==
  ASSUME CanvasInv, NEW base, NEW g, NEW type, NEW parent, NEW E,
         Sound(base), KeepsNodes(base), DOMAIN base.node \subseteq DOMAIN canvas.node,
         Grown(base, g, type, parent), g.edges = base.edges \cup E, EdgesFit(g, E),
         type \in Offered(parent), parent \in Ids \cup {Top},
         DOMAIN g.node \subseteq Ids,
         nextId' = nextId + Cardinality(Fresh(type)), collided' = collided
  PROVE  EditIsSound(g)
<1>1. Sound(canvas) /\ DOMAIN canvas.node \subseteq Ids /\ nextId \in Nat
      /\ Ids \subseteq Nat /\ 0 \notin Ids
  BY CanvasIsSound
<1>2. /\ nextId \in Fresh(type)
      /\ type \in Containers => nextId + 1 \in Fresh(type)
      /\ Cardinality(Fresh(type)) \in Nat
      /\ \A i \in Fresh(type) : i >= nextId /\ i < nextId'
      /\ \A i \in Fresh(type) : i = nextId \/ (i = nextId + 1 /\ type \in Containers)
  BY <1>1, FreshIds
<1>3. type \in Types \ {"start", "inner-start"} /\ (type \in Containers => parent = Top)
  BY BoundsAssumption DEF Offered
<1>4. \A n \in DOMAIN base.node : n < nextId /\ n \in Nat
  BY <1>1 DEF Sound, IdsUsed
<1>5. \A n \in DOMAIN g.node :
        \/ n \in DOMAIN base.node
        \/ n = nextId
        \/ n = nextId + 1 /\ type \in Containers
  BY <1>2 DEF Grown
<1>6. nextId \in DOMAIN g.node /\ nextId \in Ids
      /\ (type \in Containers => nextId + 1 \in DOMAIN g.node /\ nextId + 1 \in Ids)
  BY <1>2 DEF Grown
<1>7. IsGraph(g)
  <2>1. ASSUME NEW n \in DOMAIN g.node PROVE g.node[n] \in Nodes
    <3>1. CASE n \in DOMAIN base.node
      BY <3>1 DEF Grown, Sound, IsGraph
    <3>2. CASE n = nextId
      BY <3>2, <1>3, <1>6 DEF Grown, Nodes
    <3>3. CASE n = nextId + 1 /\ type \in Containers
      BY <3>3, <1>6 DEF Grown, Nodes, Types
    <3> QED
      BY <3>1, <3>2, <3>3, <1>5
  <2>2. g.node \in [DOMAIN g.node -> Nodes]
    BY <2>1 DEF Grown
  <2>3. g.edges \subseteq Edges
    BY DEF EdgesFit, Sound, IsGraph
  <2> QED
    BY <2>2, <2>3 DEF IsGraph
<1>8. \A n \in DOMAIN base.node : n \in DOMAIN g.node /\ SameNode(g.node[n], base.node[n])
  BY DEF Grown, SameNode
<1>9. EdgesJoin(g)
  BY <1>8 DEF EdgesJoin, EdgesFit, Sound
<1>10. ContainersAtTop(g)
  <2>1. ASSUME NEW c \in DOMAIN g.node, g.node[c].type \in Containers
        PROVE  g.node[c].parent = Top
    <3>1. CASE c \in DOMAIN base.node
      BY <2>1, <3>1, <1>8 DEF Sound, ContainersAtTop, SameNode
    <3>2. CASE c = nextId
      BY <2>1, <3>2, <1>3 DEF Grown
    <3>3. CASE c = nextId + 1 /\ type \in Containers
      BY <2>1, <3>3 DEF Grown, Containers
    <3> QED
      BY <3>1, <3>2, <3>3, <1>5
  <2> QED
    BY <2>1 DEF ContainersAtTop
<1>11. \A n \in DOMAIN g.node : n < nextId'
  <2>1. nextId' \in Nat /\ nextId < nextId'
    BY <1>1, <1>2
  <2>2. \A n \in DOMAIN base.node : n < nextId'
    BY <2>1, <1>1, <1>4
  <2>3. \A n \in Fresh(type) : n < nextId'
    BY <1>2
  <2> QED
    BY <2>2, <2>3 DEF Grown
<1>12. KeepsNodes(g)
  <2>1. ASSUME NEW n \in DOMAIN g.node
        PROVE  (n \in DOMAIN canvas.node /\ SameNode(g.node[n], canvas.node[n])) \/ n >= nextId
    <3>1. CASE n \in DOMAIN base.node
      BY <3>1, <1>4, <1>8, <1>1 DEF KeepsNodes, SameNode
    <3>2. CASE n \notin DOMAIN base.node
      BY <3>2, <1>5, <1>1
    <3> QED
      BY <3>1, <3>2
  <2> QED
    BY <2>1 DEF KeepsNodes
<1>13. ASSUME ~ collided PROVE StaysInLevel(g) /\ HasStarts(g)
  <2>1. StaysInLevel(base) /\ HasStarts(base) /\ EdgesJoin(base)
    BY <1>13 DEF Sound
  <2>2. \A n \in DOMAIN base.node : g.node[n] = base.node[n]
    BY <1>13 DEF Grown
  <2>3. StaysInLevel(g)
    BY <2>1, <2>2, <1>13 DEF StaysInLevel, EdgesJoin, EdgesFit
  <2>4. ASSUME NEW c \in DOMAIN g.node, g.node[c].type \in Containers
        PROVE  LET s == g.node[c].start
               IN /\ s \in DOMAIN g.node
                  /\ g.node[s].type = "inner-start" /\ g.node[s].parent = c
    <3>1. CASE c \in DOMAIN base.node
      BY <2>1, <2>2, <2>4, <3>1, <1>8 DEF HasStarts
    <3>2. CASE c = nextId
      BY <2>4, <3>2, <1>6 DEF Grown
    <3>3. CASE c = nextId + 1 /\ type \in Containers
      BY <2>4, <3>3 DEF Grown, Containers
    <3> QED
      BY <3>1, <3>2, <3>3, <1>5
  <2> QED
    BY <2>3, <2>4 DEF HasStarts
<1> QED
  BY <1>7, <1>9, <1>10, <1>11, <1>12, <1>13 DEF EditIsSound

LEMMA NewIsGrown ==
  ASSUME CanvasInv, NEW base, NEW type, NEW parent, NEW E,
         Sound(base), DOMAIN base.node \subseteq DOMAIN canvas.node
  PROVE  LET g == WithEdges(WithNew(base, type, parent), E)
         IN /\ Grown(base, g, type, parent) /\ g.edges = base.edges \cup E
            /\ \A n \in DOMAIN base.node : g.node[n] = base.node[n]
<1> DEFINE g == WithEdges(WithNew(base, type, parent), E)
<1>1. nextId \in Nat /\ \A n \in DOMAIN base.node : n < nextId /\ n \in Nat
  BY CanvasIsSound DEF Sound, IdsUsed
<1>2. /\ nextId \in Fresh(type)
      /\ type \in Containers => nextId + 1 \in Fresh(type)
  BY <1>1, FreshIds
<1>3. /\ g.node = [n \in DOMAIN base.node \cup Fresh(type) |->
           CASE n \in DOMAIN base.node -> base.node[n]
             [] n = nextId -> [type |-> type, parent |-> parent,
                  start |-> IF type \in Containers THEN nextId + 1 ELSE Top]
             [] OTHER -> [type |-> "inner-start", parent |-> nextId, start |-> Top]]
      /\ g.edges = base.edges \cup E
  BY DEF WithEdges, WithNew
<1> HIDE DEF g
<1>4. DOMAIN g.node = DOMAIN base.node \cup Fresh(type)
  BY <1>3
<1>5. g.node = [n \in DOMAIN g.node |-> g.node[n]]
  <2> DEFINE new(n) ==
        CASE n \in DOMAIN base.node -> base.node[n]
          [] n = nextId -> [type |-> type, parent |-> parent,
               start |-> IF type \in Containers THEN nextId + 1 ELSE Top]
          [] OTHER -> [type |-> "inner-start", parent |-> nextId, start |-> Top]
  <2>1. g.node = [n \in DOMAIN base.node \cup Fresh(type) |-> new(n)]
    BY <1>3
  <2> HIDE DEF new
  <2> QED
    BY <2>1
<1>6. ASSUME NEW n \in DOMAIN base.node PROVE g.node[n] = base.node[n]
  <2>1. n \in DOMAIN base.node \cup Fresh(type) /\ n # nextId
    BY <1>1
  <2> QED
    BY <2>1, <1>3
<1>7. g.node[nextId] = [type |-> type, parent |-> parent,
        start |-> IF type \in Containers THEN nextId + 1 ELSE Top]
  BY <1>1, <1>2, <1>3
<1>8. type \in Containers =>
       g.node[nextId + 1] = [type |-> "inner-start", parent |-> nextId, start |-> Top]
  <2>1. nextId + 1 # nextId /\ nextId + 1 \notin DOMAIN base.node
    BY <1>1
  <2> QED
    BY <1>2, <1>3, <2>1
<1>9. Grown(base, g, type, parent)
  BY <1>4, <1>5, <1>6, <1>7, <1>8 DEF Grown
<1> QED
  BY <1>3, <1>6, <1>9 DEF g

LEMMA ConnectToKeeps ==
  ASSUME CanvasInv, NEW s \in DOMAIN canvas.node, NEW t \in DOMAIN canvas.node,
         NEW h \in {"source", "true", "false"}, ConnectTo(s, h, t)
  PROVE  CanvasInv'
<1> DEFINE g == WithEdges(canvas, {Edge(s, h, t)})
<1>1. /\ Edit(g) /\ nextId' = nextId /\ UNCHANGED <<clipboard, showConfirm, collided>>
      /\ canvas.node[t].parent = canvas.node[s].parent
  BY DEF ConnectTo
<1>2. Sound(canvas) /\ DOMAIN canvas.node \subseteq Ids /\ nextId \in Nat
  BY CanvasIsSound
<1>3. /\ Edge(s, h, t) \in Edges /\ Edge(s, h, t).source = s /\ Edge(s, h, t).target = t
  BY <1>2 DEF Edge, Edges
<1>4. g.node = canvas.node /\ g.edges = canvas.edges \cup {Edge(s, h, t)}
  BY DEF WithEdges
<1> HIDE DEF g
<1>5. IsGraph(g) /\ IdsUsed(g) /\ ContainersAtTop(g)
  BY <1>2, <1>3, <1>4 DEF Sound, IsGraph, IdsUsed, ContainersAtTop
<1>6. EdgesJoin(g)
  BY <1>2, <1>3, <1>4 DEF Sound, EdgesJoin
<1>7. collided \/ (StaysInLevel(g) /\ HasStarts(g))
  BY <1>1, <1>2, <1>3, <1>4 DEF Sound, StaysInLevel, HasStarts
<1>8. KeepsNodes(g)
  BY <1>4 DEF KeepsNodes, SameNode
<1>9. EditIsSound(g)
  BY <1>1, <1>5, <1>6, <1>7, <1>8, SoundIsEnough DEF Sound
<1>10. nextId \in Nat /\ collided \in BOOLEAN
  BY DEF CanvasInv, CountsInv
<1> QED
  BY <1>1, <1>9, <1>10, EditKeeps

LEMMA ConnectKeeps ==
  ASSUME CanvasInv, NEW s \in DOMAIN canvas.node, NEW t \in DOMAIN canvas.node,
         Connect(s, t) \/ ConnectEnd(s, t)
  PROVE  CanvasInv'
<1>1. PICK h \in Handles(canvas.node[s].type) : ConnectTo(s, h, t)
  BY DEF Connect, ConnectEnd
<1>2. h \in {"source", "true", "false"}
  BY DEF Handles
<1> QED
  BY <1>1, <1>2, ConnectToKeeps

(* What the edits with a new node have in common.                          *)
NewNodeEdit(g, type) ==
  /\ Edit(g) /\ DOMAIN g.node \subseteq Ids
  /\ nextId' = nextId + Cardinality(Fresh(type))
  /\ UNCHANGED <<clipboard, showConfirm, collided>>

LEMMA NewNodeKeeps ==
  ASSUME CanvasInv, NEW g, NEW type, NewNodeEdit(g, type), EditIsSound(g)
  PROVE  CanvasInv'
<1>1. nextId \in Nat /\ collided \in BOOLEAN
  BY DEF CanvasInv, CountsInv
<1>2. Cardinality(Fresh(type)) \in Nat
  BY <1>1, FreshIds
<1>3. nextId' \in Nat /\ nextId' >= nextId
  BY <1>1, <1>2 DEF NewNodeEdit
<1> QED
  BY <1>1, <1>3, EditKeeps DEF NewNodeEdit

LEMMA NewEdge ==
  ASSUME NEW s \in Ids, NEW h \in {"source", "true", "false"}, NEW t \in Ids
  PROVE  /\ Edge(s, h, t) \in Edges
         /\ Edge(s, h, t).source = s /\ Edge(s, h, t).target = t
BY DEF Edge, Edges

LEMMA AddAfterKeeps ==
  ASSUME CanvasInv, NEW prev \in DOMAIN canvas.node, NEW type, AddAfter(prev, type)
  PROVE  CanvasInv'
<1> DEFINE parent == canvas.node[prev].parent
<1>1. PICK h \in Handles(canvas.node[prev].type) :
        LET g == WithEdges(WithNew(canvas, type, parent), {Edge(prev, h, nextId)})
        IN /\ type \in Offered(parent)
           /\ MouseEdit(g)
           /\ nextId' = nextId + Cardinality(Fresh(type))
  BY DEF AddAfter
<1> DEFINE E == {Edge(prev, h, nextId)}
           g == WithEdges(WithNew(canvas, type, parent), E)
<1>2. NewNodeEdit(g, type) /\ type \in Offered(parent)
  BY <1>1 DEF MouseEdit, Edit, NewNodeEdit
<1>3. Sound(canvas) /\ DOMAIN canvas.node \subseteq Ids /\ nextId \in Nat /\ KeepsNodes(canvas)
  BY CanvasIsSound DEF KeepsNodes, SameNode
<1>4. parent \in Ids \cup {Top}
  BY <1>3 DEF Sound, IsGraph, Nodes
<1>5. /\ Grown(canvas, g, type, parent) /\ g.edges = canvas.edges \cup E
      /\ \A n \in DOMAIN canvas.node : g.node[n] = canvas.node[n]
  BY <1>3, NewIsGrown
<1>6. EdgesFit(g, E)
  <2>1. nextId \in Fresh(type)
    BY <1>3, FreshIds
  <2>2. nextId \in DOMAIN g.node /\ prev \in DOMAIN g.node
    BY <2>1, <1>5 DEF Grown
  <2>3. prev \in Ids /\ nextId \in Ids /\ h \in {"source", "true", "false"}
    BY <2>2, <1>2 DEF NewNodeEdit, Handles
  <2>4. g.node[nextId].parent = g.node[prev].parent
    BY <1>5 DEF Grown
  <2> QED
    BY <2>2, <2>3, <2>4, NewEdge DEF EdgesFit
<1> HIDE DEF g, E, parent
<1>7. EditIsSound(g)
  BY <1>2, <1>3, <1>4, <1>5, <1>6, GrownIsSound DEF NewNodeEdit
<1> QED
  BY <1>2, <1>7, NewNodeKeeps

LEMMA ChangeKeeps ==
  ASSUME CanvasInv, NEW n \in DOMAIN canvas.node, NEW type, Change(n, type)
  PROVE  CanvasInv'
<1> DEFINE parent == canvas.node[n].parent
           base == Without(canvas, {n})
           g == WithNew(base, type, parent)
<1>1. NewNodeEdit(g, type) /\ type \in Offered(parent)
  BY DEF Change, MouseEdit, Edit, NewNodeEdit
<1>2. canvas.node[n].type # "inner-start"
  BY DEF Change
<1>3. Sound(base) /\ KeepsNodes(base)
  BY <1>2, LessNodes
<1>4. DOMAIN base.node \subseteq DOMAIN canvas.node
  BY DEF Without
<1>5. parent \in Ids \cup {Top}
  BY CanvasIsSound DEF Sound, IsGraph, Nodes
<1>6. g = WithEdges(g, {}) /\ g.edges = base.edges
  BY DEF WithNew, WithEdges
<1> HIDE DEF base
<1>7. Grown(base, g, type, parent) /\ g.edges = base.edges \cup {}
  BY <1>3, <1>4, <1>6, NewIsGrown
<1>8. EdgesFit(g, {})
  BY DEF EdgesFit
<1> HIDE DEF g, parent
<1>9. EditIsSound(g)
  BY <1>1, <1>3, <1>4, <1>5, <1>7, <1>8, GrownIsSound DEF NewNodeEdit
<1> QED
  BY <1>1, <1>9, NewNodeKeeps

LEMMA InsertKeeps ==
  ASSUME CanvasInv, NEW e \in canvas.edges, NEW type, InsertBetween(e, type)
  PROVE  CanvasInv'
<1> DEFINE parent == canvas.node[e.source].parent
           E == {Edge(e.source, e.handle, nextId)} \cup EdgeFromNew(type, e.target)
<1>1. PICK gone \in canvas.edges :
        /\ type \in Offered(parent)
        /\ MouseEdit(WithEdges(WithNew(WithoutEdges(canvas, {gone}), type, parent), E))
        /\ nextId' = nextId + Cardinality(Fresh(type))
  BY DEF InsertBetween
<1> DEFINE base == WithoutEdges(canvas, {gone})
           g == WithEdges(WithNew(base, type, parent), E)
<1>2. NewNodeEdit(g, type) /\ type \in Offered(parent)
  BY <1>1 DEF MouseEdit, Edit, NewNodeEdit
<1>3. Sound(base) /\ KeepsNodes(base)
  BY LessEdges
<1>4. base.node = canvas.node
  BY DEF WithoutEdges
<1>5. Sound(canvas) /\ nextId \in Nat
  BY CanvasIsSound
<1>6. /\ e.source \in DOMAIN canvas.node /\ e.target \in DOMAIN canvas.node
      /\ e.source \in Ids /\ e.target \in Ids /\ e.handle \in {"source", "true", "false"}
  BY <1>5 DEF Sound, IsGraph, Edges, EdgesJoin
<1>7. parent \in Ids \cup {Top}
  BY <1>5, <1>6 DEF Sound, IsGraph, Nodes
<1> HIDE DEF base
<1>8. /\ Grown(base, g, type, parent) /\ g.edges = base.edges \cup E
      /\ \A n \in DOMAIN base.node : g.node[n] = base.node[n]
  BY <1>3, <1>4, NewIsGrown
<1> HIDE DEF g
<1>9. EdgesFit(g, E)
  <2>1. nextId \in Fresh(type)
    BY <1>5, FreshIds
  <2>2. nextId \in DOMAIN g.node /\ e.source \in DOMAIN g.node /\ e.target \in DOMAIN g.node
    BY <2>1, <1>4, <1>6, <1>8 DEF Grown
  <2>3. nextId \in Ids
    BY <2>2, <1>2 DEF NewNodeEdit
  <2>4. /\ g.node[nextId].parent = parent /\ g.node[e.source].parent = parent
        /\ collided \/ g.node[e.target].parent = parent
    BY <1>4, <1>5, <1>6, <1>8 DEF Grown, Sound, StaysInLevel
  <2>5. \A d \in E : \/ d = Edge(e.source, e.handle, nextId)
                     \/ d = Edge(nextId, "source", e.target)
    BY DEF EdgeFromNew
  <2> HIDE DEF E, parent
  <2>6. ASSUME NEW d \in E
        PROVE  /\ d \in Edges /\ d.source \in DOMAIN g.node /\ d.target \in DOMAIN g.node
               /\ collided \/ g.node[d.source].parent = g.node[d.target].parent
    <3>1. CASE d = Edge(e.source, e.handle, nextId)
      BY <3>1, <1>6, <2>2, <2>3, <2>4, NewEdge
    <3>2. CASE d = Edge(nextId, "source", e.target)
      BY <3>2, <1>6, <2>2, <2>3, <2>4, NewEdge
    <3> QED
      BY <3>1, <3>2, <2>5
  <2> QED
    BY <2>6 DEF EdgesFit
<1> HIDE DEF E, parent
<1>10. EditIsSound(g)
  BY <1>2, <1>3, <1>4, <1>7, <1>8, <1>9, GrownIsSound DEF NewNodeEdit
<1> QED
  BY <1>2, <1>10, NewNodeKeeps

(* No container starts at the old node, unless containers collided.        *)
LEMMA AddBeforeKeeps ==
  ASSUME CanvasInv, NEW next \in DOMAIN canvas.node, NEW type, AddBefore(next, type)
  PROVE  CanvasInv'
<1> DEFINE parent == canvas.node[next].parent
           new == WithNew(canvas, type, parent)
           added == EdgeFromNew(type, next)
           g == [node |-> [n \in DOMAIN new.node |->
                             IF IsContainer(new, n) /\ new.node[n].start = next
                             THEN [new.node[n] EXCEPT !.start = nextId]
                             ELSE new.node[n]],
                 edges |-> canvas.edges \cup added]
<1>1. NewNodeEdit(g, type) /\ type \in Offered(parent)
  BY DEF AddBefore, MouseEdit, Edit, NewNodeEdit
<1>2. Sound(canvas) /\ DOMAIN canvas.node \subseteq Ids /\ nextId \in Nat /\ KeepsNodes(canvas)
      /\ Ids \subseteq Nat
  BY CanvasIsSound DEF KeepsNodes, SameNode
<1>3. parent \in Ids \cup {Top}
  BY <1>2 DEF Sound, IsGraph, Nodes
<1>4. /\ Grown(canvas, new, type, parent)
      /\ \A n \in DOMAIN canvas.node : new.node[n] = canvas.node[n]
  <2>1. new = WithEdges(new, {})
    BY DEF WithNew, WithEdges
  <2> QED
    BY <2>1, <1>2, NewIsGrown
<1>5. /\ DOMAIN g.node = DOMAIN new.node
      /\ \A n \in DOMAIN new.node :
           g.node[n] = IF IsContainer(new, n) /\ new.node[n].start = next
                       THEN [new.node[n] EXCEPT !.start = nextId] ELSE new.node[n]
      /\ g.edges = canvas.edges \cup added
      /\ g.node = [n \in DOMAIN g.node |-> g.node[n]]
  OBVIOUS
<1> HIDE DEF g, new
<1>6. /\ nextId \in DOMAIN g.node /\ nextId \in Ids /\ nextId \notin DOMAIN canvas.node
      /\ type \in Containers => nextId + 1 \in DOMAIN g.node /\ nextId + 1 # next
      /\ nextId # next
  BY <1>1, <1>2, <1>4, <1>5, FreshIds DEF Grown, Sound, IdsUsed, NewNodeEdit
<1>7. ASSUME NEW n \in DOMAIN canvas.node
      PROVE  \/ g.node[n] = canvas.node[n]
             \/ collided /\ g.node[n] \in Nodes /\ SameNode(g.node[n], canvas.node[n])
  <2>1. n \in DOMAIN new.node /\ new.node[n] = canvas.node[n] /\ canvas.node[n] \in Nodes
    BY <1>2, <1>4 DEF Grown, Sound, IsGraph
  <2>2. CASE IsContainer(new, n) /\ new.node[n].start = next
    <3>1. collided
      <4>1. canvas.node[next].type # "inner-start"
        BY DEF AddBefore
      <4> QED
        BY <4>1, <2>1, <2>2, <1>2 DEF Sound, HasStarts, IsContainer
    <3>2. g.node[n] = [canvas.node[n] EXCEPT !.start = nextId]
      BY <2>1, <2>2, <1>5
    <3> QED
      BY <2>1, <3>1, <3>2, <1>6 DEF Nodes, SameNode
  <2>3. CASE ~ (IsContainer(new, n) /\ new.node[n].start = next)
    BY <2>1, <2>3, <1>5
  <2> QED
    BY <2>2, <2>3
<1>8. Grown(canvas, g, type, parent)
  <2>1. g.node[nextId] = new.node[nextId]
    <3>1. IsContainer(new, nextId) => new.node[nextId].start # next
      BY <1>4, <1>6 DEF Grown, IsContainer
    <3> QED
      BY <3>1, <1>5, <1>6
  <2>2. type \in Containers => g.node[nextId + 1] = new.node[nextId + 1]
    <3>1. type \in Containers => ~ IsContainer(new, nextId + 1)
      BY <1>4 DEF Grown, IsContainer, Containers
    <3> QED
      BY <3>1, <1>5, <1>6
  <2>3. DOMAIN g.node = DOMAIN canvas.node \cup Fresh(type)
    BY <1>4, <1>5 DEF Grown
  <2> QED
    BY <2>1, <2>2, <2>3, <1>4, <1>5, <1>7 DEF Grown
<1>9. EdgesFit(g, added)
  <2>1. next \in DOMAIN g.node /\ next \in Ids
    BY <1>2, <1>4, <1>5 DEF Grown
  <2>2. g.node[nextId].parent = g.node[next].parent
    BY <1>7, <1>8 DEF Grown, SameNode
  <2>3. \A d \in added : d = Edge(nextId, "source", next)
    BY DEF EdgeFromNew
  <2> HIDE DEF added
  <2> QED
    BY <2>1, <2>2, <2>3, <1>6, NewEdge DEF EdgesFit
<1> HIDE DEF added, parent
<1>10. EditIsSound(g)
  BY <1>1, <1>2, <1>3, <1>5, <1>8, <1>9, GrownIsSound DEF NewNodeEdit
<1> QED
  BY <1>1, <1>10, NewNodeKeeps

-----------------------------------------------------------------------------
(* Undo, redo and the debounced save bring no state that was not there.    *)
LEMMA HistoryKeeps ==
  ASSUME CanvasInv, \A g \in States' : g \in States,
         pending' \in 0..edits, IsSeq(past'), IsSeq(future'), SettledIsSaved',
         UNCHANGED <<clipboard, showConfirm, nextId, edits, collided>>
  PROVE  CanvasInv'
<1>1. CountsInv'
  BY DEF CanvasInv, CountsInv
<1>2. \A g : (Sound(g)' <=> Sound(g)) /\ (CapturedRight(g)' <=> CapturedRight(g))
  BY DEF Sound, IdsUsed, CapturedRight
<1>3. CapturedIds' = CapturedIds
  BY DEF CapturedIds
<1> QED
  BY <1>1, <1>2, <1>3 DEF CanvasInv

LEMMA SaveKeeps == CanvasInv /\ Save => CanvasInv' /\ \A g \in States' : g \in States
<1> SUFFICES ASSUME CanvasInv, Save PROVE CanvasInv' /\ \A g \in States' : g \in States
  OBVIOUS
<1>1. PICK differs \in {TRUE, present # canvas} :
        /\ past' = IF differs THEN Append(past, present) ELSE past
        /\ future' = IF differs THEN <<>> ELSE future
  BY DEF Save
<1>2. /\ present' = canvas /\ canvas' = canvas
      /\ UNCHANGED <<clipboard, showConfirm, nextId, edits, collided>>
  BY DEF Save
<1>3. pending' \in 0..edits
  <2>1. pending \in Nat /\ edits \in Nat /\ pending <= edits /\ pending > 0
    BY BoundsAssumption DEF CanvasInv, CountsInv, Save
  <2>2. pending' = pending - 1
    BY DEF Save
  <2> QED
    BY <2>1, <2>2
<1>4. IsSeq(past) /\ IsSeq(future)
  BY DEF CanvasInv, CountsInv
<1>5. /\ IsSeq(past')
      /\ \A i \in DOMAIN past' : past'[i] = present \/ \E j \in DOMAIN past : past'[i] = past[j]
  BY <1>1, <1>4, Log
<1>6. IsSeq(future') /\ \A i \in DOMAIN future' : i \in DOMAIN future /\ future'[i] = future[i]
  BY <1>1, <1>4, EmptyLog
<1>7. \A g \in States' : g \in States
  BY <1>2, <1>5, <1>6 DEF States
<1>8. SettledIsSaved'
  BY <1>2 DEF SettledIsSaved
<1> QED
  BY <1>2, <1>3, <1>5, <1>6, <1>7, <1>8, HistoryKeeps

LEMMA UndoKeeps == CanvasInv /\ Undo => CanvasInv' /\ \A g \in States' : g \in States
<1> SUFFICES ASSUME CanvasInv, Undo PROVE CanvasInv' /\ \A g \in States' : g \in States
  OBVIOUS
<1>1. /\ canvas' = present'
      /\ UNCHANGED <<clipboard, showConfirm, pending, nextId, edits, collided>>
  BY DEF Undo
<1>2. IsSeq(past) /\ IsSeq(future)
  BY DEF CanvasInv, CountsInv
<1>3. CASE past = <<>>
  <2>1. UNCHANGED <<present, past, future>>
    BY <1>3 DEF Undo
  <2> QED
    BY <1>1, <1>2, <2>1, HistoryKeeps DEF States, CanvasInv, CountsInv, SettledIsSaved
<1>4. CASE past # <<>>
  <2>1. /\ present' = past[Len(past)]
        /\ past' = SubSeq(past, 1, Len(past) - 1)
        /\ future' = Append(future, present)
    BY <1>4 DEF Undo
  <2>2. /\ Len(past) \in DOMAIN past /\ IsSeq(past')
        /\ \A i \in DOMAIN past' : i \in DOMAIN past /\ past'[i] = past[i]
    BY <1>2, <1>4, <2>1, Log
  <2>3. /\ IsSeq(future')
        /\ \A i \in DOMAIN future' :
             future'[i] = present \/ \E j \in DOMAIN future : future'[i] = future[j]
    BY <1>2, <2>1, Log
  <2>4. \A g \in States' : g \in States
    BY <1>1, <2>1, <2>2, <2>3 DEF States
  <2> QED
    BY <1>1, <2>2, <2>3, <2>4, HistoryKeeps DEF CanvasInv, CountsInv, SettledIsSaved
<1> QED
  BY <1>3, <1>4

LEMMA RedoKeeps == CanvasInv /\ Redo => CanvasInv' /\ \A g \in States' : g \in States
<1> SUFFICES ASSUME CanvasInv, Redo PROVE CanvasInv' /\ \A g \in States' : g \in States
  OBVIOUS
<1>1. /\ canvas' = present'
      /\ UNCHANGED <<clipboard, showConfirm, pending, nextId, edits, collided>>
  BY DEF Redo
<1>2. IsSeq(past) /\ IsSeq(future)
  BY DEF CanvasInv, CountsInv
<1>3. CASE future = <<>>
  <2>1. UNCHANGED <<present, past, future>>
    BY <1>3 DEF Redo
  <2> QED
    BY <1>1, <1>2, <2>1, HistoryKeeps DEF States, CanvasInv, CountsInv, SettledIsSaved
<1>4. CASE future # <<>>
  <2>1. /\ present' = future[Len(future)]
        /\ future' = SubSeq(future, 1, Len(future) - 1)
        /\ past' = Append(past, present)
    BY <1>4 DEF Redo
  <2>2. /\ Len(future) \in DOMAIN future /\ IsSeq(future')
        /\ \A i \in DOMAIN future' : i \in DOMAIN future /\ future'[i] = future[i]
    BY <1>2, <1>4, <2>1, Log
  <2>3. /\ IsSeq(past')
        /\ \A i \in DOMAIN past' :
             past'[i] = present \/ \E j \in DOMAIN past : past'[i] = past[j]
    BY <1>2, <2>1, Log
  <2>4. \A g \in States' : g \in States
    BY <1>1, <2>1, <2>2, <2>3 DEF States
  <2> QED
    BY <1>1, <2>2, <2>3, <2>4, HistoryKeeps DEF CanvasInv, CountsInv, SettledIsSaved
<1> QED
  BY <1>3, <1>4

LEMMA InitCanvas == Init => CanvasInv
<1> SUFFICES ASSUME Init PROVE CanvasInv
  OBVIOUS
<1>1. /\ canvas \in Canvases /\ present = canvas /\ past = <<>> /\ future = <<>>
      /\ clipboard = [n \in {} |-> "plain"] /\ showConfirm = NoDialog
      /\ pending = 0 /\ edits = 0 /\ collided = FALSE
  BY DEF Init
<1>2. /\ IsGraph(canvas) /\ DOMAIN canvas.node # {}
      /\ EdgesJoin(canvas) /\ StaysInLevel(canvas)
      /\ ContainersAtTop(canvas) /\ HasStarts(canvas)
  BY <1>1, CanvasesAssumption
<1>3. DOMAIN canvas.node \subseteq 0..MaxId /\ 0 \notin DOMAIN canvas.node
  BY <1>2, BoundsAssumption DEF IsGraph, Ids
<1> DEFINE top == CHOOSE m \in DOMAIN canvas.node : \A n \in DOMAIN canvas.node : n <= m
<1>4. top \in DOMAIN canvas.node /\ \A n \in DOMAIN canvas.node : n <= top
  <2>1. \E m \in DOMAIN canvas.node : \A n \in DOMAIN canvas.node : n <= m
    BY <1>2, <1>3, BoundsAssumption, Greatest
  <2> QED
    BY <2>1
<1>5. nextId = 1 + top
  BY DEF Init
<1> HIDE DEF top
<1>6. nextId \in Nat \ {0} /\ IdsUsed(canvas)
  BY <1>3, <1>4, <1>5, BoundsAssumption DEF IdsUsed
<1>7. Sound(canvas)
  BY <1>2, <1>6 DEF Sound
<1>8. /\ DOMAIN clipboard = {} /\ showConfirm.container = Top /\ showConfirm.children = {}
  BY <1>1 DEF NoDialog
<1>9. \A g \in States : g = canvas
  BY <1>1, EmptyLog DEF States
<1>10. CapturedRight(canvas)
  BY <1>3, <1>8 DEF CapturedRight, Top
<1>11. CountsInv
  <2>1. edits \in 0..MaxEdits /\ pending \in 0..edits
    BY <1>1, BoundsAssumption
  <2>2. IsSeq(past) /\ IsSeq(future)
    BY <1>1, EmptyLog
  <2>3. collided \in BOOLEAN
    BY <1>1
  <2> QED
    BY <2>1, <2>2, <2>3, <1>6, <1>8 DEF CountsInv
<1>12. \A n \in CapturedIds : n < nextId
  BY <1>6, <1>8 DEF CapturedIds, Top
<1> QED
  BY <1>1, <1>7, <1>9, <1>10, <1>11, <1>12 DEF CanvasInv, SameNodes, SameNode, SettledIsSaved

-----------------------------------------------------------------------------
(* The number of elements before one, in a strict order of a finite set,   *)
(* tells the elements apart and takes the values below the cardinality.    *)
Ordered(P, before) ==
  /\ before \in [P -> SUBSET P]
  /\ \A p \in P : p \notin before[p]
  /\ \A p, q \in P : p \in before[q] => before[p] \subseteq before[q]
  /\ \A p, q \in P : p # q => p \in before[q] \/ q \in before[p]

LEMMA Ranks ==
  ASSUME NEW P, IsFiniteSet(P), NEW before, Ordered(P, before)
  PROVE  /\ \A p \in P : Cardinality(before[p]) \in Nat
         /\ \A p \in P : Cardinality(before[p]) < Cardinality(P)
         /\ \A p, q \in P : Cardinality(before[p]) = Cardinality(before[q]) => p = q
         /\ \A k \in 0..(Cardinality(P) - 1) : \E p \in P : Cardinality(before[p]) = k
<1>1. Cardinality(P) \in Nat
  BY FS_CardinalityType
<1>2. ASSUME NEW p \in P
      PROVE  /\ IsFiniteSet(before[p]) /\ Cardinality(before[p]) \in Nat
             /\ Cardinality(before[p]) < Cardinality(P)
  <2>1. before[p] \in SUBSET P /\ p \notin before[p]
    BY DEF Ordered
  <2>2. /\ IsFiniteSet(before[p]) /\ Cardinality(before[p]) <= Cardinality(P)
        /\ Cardinality(P) = Cardinality(before[p]) => P = before[p]
    BY <2>1, FS_Subset
  <2>3. Cardinality(before[p]) \in Nat
    BY <2>2, FS_CardinalityType
  <2> QED
    BY <2>1, <2>2, <2>3, <1>1
<1>3. ASSUME NEW p \in P, NEW q \in P, p \in before[q]
      PROVE  Cardinality(before[p]) # Cardinality(before[q])
  <2>1. before[p] \in SUBSET before[q] /\ p \notin before[p]
    BY <1>3 DEF Ordered
  <2>2. Cardinality(before[q]) = Cardinality(before[p]) => before[q] = before[p]
    BY <2>1, <1>2, FS_Subset
  <2> QED
    BY <1>3, <2>1, <2>2
<1>4. \A p, q \in P : Cardinality(before[p]) = Cardinality(before[q]) => p = q
  BY <1>3 DEF Ordered
<1> DEFINE K == 0..(Cardinality(P) - 1)
           rank == [p \in P |-> Cardinality(before[p])]
<1>5. IsFiniteSet(K) /\ Cardinality(K) = Cardinality(P)
  <2>1. 0 \in Int /\ Cardinality(P) - 1 \in Int
    BY <1>1
  <2>2. /\ IsFiniteSet(K)
        /\ Cardinality(K) = IF 0 > Cardinality(P) - 1 THEN 0 ELSE (Cardinality(P) - 1) - 0 + 1
    BY <2>1, FS_Interval
  <2> QED
    BY <2>2, <1>1
<1>6. rank \in Injection(P, K)
  <2>1. \A p \in P : Cardinality(before[p]) \in K
    BY <1>1, <1>2
  <2> QED
    BY <2>1, <1>4 DEF Injection, IsInjective
<1> HIDE DEF K
<1>7. rank \in Surjection(P, K)
  BY <1>5, <1>6, FS_Injection
<1>8. \A k \in K : \E p \in P : Cardinality(before[p]) = k
  BY <1>7 DEF Surjection
<1> QED
  BY <1>2, <1>4, <1>8 DEF K

(* The copies and the copied containers are ordered by the ids of what is  *)
(* copied.                                                                 *)
BeforeCopy == [p \in Copies |->
                 {q \in Copies : (q[1] = p[1] /\ q[2] < p[2]) \/ q[1] < p[1]}]
BeforeContainer == [c \in CopiedContainers |-> {d \in CopiedContainers : d < c}]

LEMMA CopiesAre ==
  ASSUME CanvasInv
  PROVE  /\ Copies \subseteq Ids \X Ids
         /\ \A p \in Copies :
              /\ p = <<p[1], p[2]>> /\ p[1] \in DOMAIN clipboard
              /\ p[2] = p[1] \/ (p[1] \in CopiedContainers /\ p[2] \in InnerNodes(p[1]))
         /\ \A c \in DOMAIN clipboard : <<c, c>> \in Copies
         /\ \A c \in CopiedContainers : \A n \in InnerNodes(c) : <<c, n>> \in Copies
<1>1. DOMAIN clipboard \subseteq Ids /\ \A c : InnerNodes(c) \subseteq Ids
  BY CanvasIsSound DEF CanvasInv, CountsInv, InnerNodes, Children
<1>2. \A p : p \in Copies <=>
        \/ \E c \in DOMAIN clipboard : p = <<c, c>>
        \/ \E c \in CopiedContainers : \E n \in InnerNodes(c) : p = <<c, n>>
  BY DEF Copies
<1>3. CopiedContainers \subseteq DOMAIN clipboard
  BY DEF CopiedContainers
<1> QED
  BY <1>1, <1>2, <1>3

LEMMA CopiesOrdered ==
  ASSUME CanvasInv
  PROVE  IsFiniteSet(Copies) /\ Ordered(Copies, BeforeCopy)
<1>1. IsFiniteSet(Ids)
  BY BoundsAssumption, FS_Interval DEF Ids
<1>2. IsFiniteSet(Copies)
  <2>1. IsFiniteSet(Ids \X Ids)
    BY <1>1, FS_Product
  <2> QED
    BY <2>1, CopiesAre, FS_Subset
<1>3. \A p \in Copies : p[1] \in Nat /\ p[2] \in Nat /\ p = <<p[1], p[2]>>
  BY CopiesAre, CanvasIsSound
<1>4. \A p, q \in Copies :
        q \in BeforeCopy[p] <=> (q[1] = p[1] /\ q[2] < p[2]) \/ q[1] < p[1]
  BY DEF BeforeCopy
<1>5. BeforeCopy \in [Copies -> SUBSET Copies]
  BY DEF BeforeCopy
<1>6. \A p \in Copies : p \notin BeforeCopy[p]
  BY <1>3, <1>4
<1>7. ASSUME NEW p \in Copies, NEW q \in Copies, p \in BeforeCopy[q]
      PROVE  BeforeCopy[p] \subseteq BeforeCopy[q]
  <2>1. ASSUME NEW r \in Copies, r \in BeforeCopy[p] PROVE r \in BeforeCopy[q]
    BY <1>3, <1>4, <1>7, <2>1
  <2> QED
    BY <2>1, <1>5
<1>8. \A p, q \in Copies : p # q => p \in BeforeCopy[q] \/ q \in BeforeCopy[p]
  <2>1. ASSUME NEW p \in Copies, NEW q \in Copies, p[1] = q[1], p[2] = q[2] PROVE p = q
    BY <1>3, <2>1
  <2> QED
    BY <1>3, <1>4, <2>1
<1> QED
  BY <1>2, <1>5, <1>6, <1>7, <1>8 DEF Ordered

LEMMA ContainersOrdered ==
  ASSUME CanvasInv
  PROVE  /\ IsFiniteSet(CopiedContainers) /\ Ordered(CopiedContainers, BeforeContainer)
         /\ CopiedContainers \subseteq Ids
<1>1. CopiedContainers \subseteq Ids /\ CopiedContainers \subseteq DOMAIN clipboard
  BY DEF CanvasInv, CountsInv, CopiedContainers
<1>2. IsFiniteSet(CopiedContainers)
  <2>1. IsFiniteSet(Ids)
    BY BoundsAssumption, FS_Interval DEF Ids
  <2> QED
    BY <1>1, <2>1, FS_Subset
<1>3. CopiedContainers \subseteq Nat
  BY <1>1, CanvasIsSound
<1>4. BeforeContainer \in [CopiedContainers -> SUBSET CopiedContainers]
  BY DEF BeforeContainer
<1>5. \A c, d \in CopiedContainers : d \in BeforeContainer[c] <=> d < c
  BY DEF BeforeContainer
<1>6. \A c, d \in CopiedContainers :
        c \in BeforeContainer[d] => BeforeContainer[c] \subseteq BeforeContainer[d]
  <2>1. ASSUME NEW c \in CopiedContainers, NEW d \in CopiedContainers,
               c \in BeforeContainer[d],
               NEW b \in CopiedContainers, b \in BeforeContainer[c]
        PROVE  b \in BeforeContainer[d]
    BY <1>3, <1>5, <2>1
  <2> QED
    BY <2>1, <1>4
<1> QED
  BY <1>1, <1>2, <1>3, <1>4, <1>5, <1>6 DEF Ordered

(* The ids of a paste: the copies take the first ones, each its own, and   *)
(* the starts the ones that follow; none is left out, so that the count of *)
(* what is pasted is as far as the clock has to go.                        *)
PasteNumbers(together) ==
  /\ \A p \in Copies : CopyId(p[1], p[2]) \in Nat /\ CopyId(p[1], p[2]) >= nextId
  /\ \A p, q \in Copies : CopyId(p[1], p[2]) = CopyId(q[1], q[2]) => p = q
  /\ \A p \in Copies, c \in CopiedContainers : CopyId(p[1], p[2]) < StartId(c, together)
  /\ \A c \in CopiedContainers : StartId(c, together) \in Nat
  /\ ~ (together /\ Cardinality(CopiedContainers) > 1) =>
       \A c, d \in CopiedContainers : StartId(c, together) = StartId(d, together) => c = d
  /\ Cardinality(PastedIds(together)) \in Nat
  /\ \A i \in PastedIds(together) :
       /\ i \in Nat /\ i >= nextId
       /\ i < nextId + Cardinality(PastedIds(together))

LEMMA Consecutive ==
  ASSUME NEW k \in Nat, NEW m \in Nat
  PROVE  IsFiniteSet(k..(k + m - 1)) /\ Cardinality(k..(k + m - 1)) = m
<1>1. k \in Int /\ k + m - 1 \in Int
  OBVIOUS
<1>2. /\ IsFiniteSet(k..(k + m - 1))
      /\ Cardinality(k..(k + m - 1)) = IF k > k + m - 1 THEN 0 ELSE (k + m - 1) - k + 1
  BY <1>1, FS_Interval
<1> QED
  BY <1>2

LEMMA PasteIds ==
  ASSUME CanvasInv, NEW together \in BOOLEAN
  PROVE  PasteNumbers(together)
<1> DEFINE n == Cardinality(Copies)
           m == Cardinality(CopiedContainers)
           starts == IF together THEN (IF CopiedContainers = {} THEN 0 ELSE 1) ELSE m
<1>1. /\ IsFiniteSet(Copies) /\ Ordered(Copies, BeforeCopy)
      /\ IsFiniteSet(CopiedContainers) /\ Ordered(CopiedContainers, BeforeContainer)
      /\ CopiedContainers \subseteq Ids
  BY CopiesOrdered, ContainersOrdered
<1>2. /\ \A p \in Copies : Cardinality(BeforeCopy[p]) \in Nat
      /\ \A p \in Copies : Cardinality(BeforeCopy[p]) < n
      /\ \A p, q \in Copies : Cardinality(BeforeCopy[p]) = Cardinality(BeforeCopy[q]) => p = q
      /\ \A k \in 0..(n - 1) : \E p \in Copies : Cardinality(BeforeCopy[p]) = k
  BY <1>1, Ranks
<1>3. /\ \A c \in CopiedContainers : Cardinality(BeforeContainer[c]) \in Nat
      /\ \A c \in CopiedContainers : Cardinality(BeforeContainer[c]) < m
      /\ \A c, d \in CopiedContainers :
           Cardinality(BeforeContainer[c]) = Cardinality(BeforeContainer[d]) => c = d
      /\ \A k \in 0..(m - 1) : \E c \in CopiedContainers : Cardinality(BeforeContainer[c]) = k
  BY <1>1, Ranks
<1>4. n \in Nat /\ m \in Nat /\ nextId \in Nat
  BY <1>1, FS_CardinalityType, CanvasIsSound
<1>5. \A p \in Copies : CopyId(p[1], p[2]) = nextId + Cardinality(BeforeCopy[p])
  BY DEF CopyId, BeforeCopy
<1>6. \A c \in CopiedContainers :
        StartId(c, together) =
          nextId + n + IF together THEN 0 ELSE Cardinality(BeforeContainer[c])
  BY DEF StartId, BeforeContainer
<1>7. /\ together /\ CopiedContainers = {} => starts = 0
      /\ together /\ CopiedContainers # {} => starts = 1
      /\ ~ together => starts = m
      /\ starts \in Nat
  BY <1>4
<1> HIDE DEF n, m, starts
<1>8. PastedIds(together) = nextId..(nextId + (n + starts) - 1)
  <2>1. ASSUME NEW i \in PastedIds(together) PROVE i \in nextId..(nextId + (n + starts) - 1)
    <3>1. CASE \E p \in Copies : i = CopyId(p[1], p[2])
      BY <3>1, <1>2, <1>4, <1>5, <1>7
    <3>2. CASE \E c \in CopiedContainers : i = StartId(c, together)
      <4>1. PICK c \in CopiedContainers : i = StartId(c, together)
        BY <3>2
      <4>2. Cardinality(BeforeContainer[c]) \in Nat /\ Cardinality(BeforeContainer[c]) < m
        BY <1>3
      <4>3. CASE together
        <5>1. StartId(c, together) = nextId + n + 0
          BY <4>3, <1>6
        <5>2. starts = 1
          BY <4>3, <1>7
        <5> QED
          BY <4>1, <5>1, <5>2, <1>4
      <4>4. CASE ~ together
        BY <4>1, <4>2, <4>4, <1>4, <1>6, <1>7
      <4> QED
        BY <4>3, <4>4
    <3> QED
      BY <3>1, <3>2 DEF PastedIds
  <2>2. ASSUME NEW i \in nextId..(nextId + (n + starts) - 1) PROVE i \in PastedIds(together)
    <3>1. CASE i < nextId + n
      <4>1. i - nextId \in 0..(n - 1)
        BY <3>1, <1>4
      <4>2. PICK p \in Copies : Cardinality(BeforeCopy[p]) = i - nextId
        BY <4>1, <1>2
      <4>3. i = CopyId(p[1], p[2])
        BY <4>2, <1>4, <1>5
      <4> QED
        BY <4>3 DEF PastedIds
    <3>2. CASE i >= nextId + n
      <4>1. \E c \in CopiedContainers : i = StartId(c, together)
        <5>1. CASE together
          <6>1. i = nextId + n /\ CopiedContainers # {}
            BY <3>2, <5>1, <1>4, <1>7
          <6>2. PICK c \in CopiedContainers : TRUE
            BY <6>1
          <6>3. StartId(c, together) = nextId + n + 0
            BY <5>1, <1>6
          <6> QED
            BY <6>1, <6>3, <1>4
        <5>2. CASE ~ together
          <6>1. i - (nextId + n) \in 0..(m - 1)
            BY <3>2, <5>2, <1>4, <1>7
          <6>2. PICK c \in CopiedContainers :
                  Cardinality(BeforeContainer[c]) = i - (nextId + n)
            BY <6>1, <1>3
          <6>3. i = StartId(c, together)
            BY <6>2, <5>2, <1>4, <1>6
          <6> QED
            BY <6>3
        <5> QED
          BY <5>1, <5>2
      <4> QED
        BY <4>1 DEF PastedIds
    <3> QED
      BY <3>1, <3>2, <1>4
  <2> QED
    BY <2>1, <2>2
<1>9. n + starts \in Nat
  BY <1>4, <1>7
<1>10. Cardinality(PastedIds(together)) = n + starts
  BY <1>4, <1>8, <1>9, Consecutive
<1>11. \A i \in PastedIds(together) :
         i \in Nat /\ i >= nextId /\ i < nextId + Cardinality(PastedIds(together))
  BY <1>4, <1>8, <1>9, <1>10
<1>12. \A p \in Copies : CopyId(p[1], p[2]) \in Nat /\ CopyId(p[1], p[2]) >= nextId
  BY <1>2, <1>4, <1>5
<1>13. \A p, q \in Copies : CopyId(p[1], p[2]) = CopyId(q[1], q[2]) => p = q
  <2>1. ASSUME NEW p \in Copies, NEW q \in Copies, CopyId(p[1], p[2]) = CopyId(q[1], q[2])
        PROVE  Cardinality(BeforeCopy[p]) = Cardinality(BeforeCopy[q])
    BY <2>1, <1>2, <1>4, <1>5
  <2> QED
    BY <2>1, <1>2
<1>14. \A c \in CopiedContainers :
         StartId(c, together) \in Nat /\ StartId(c, together) >= nextId + n
  BY <1>3, <1>4, <1>6
<1>15. \A p \in Copies, c \in CopiedContainers : CopyId(p[1], p[2]) < StartId(c, together)
  <2>1. \A p \in Copies : CopyId(p[1], p[2]) < nextId + n
    BY <1>2, <1>4, <1>5
  <2> QED
    BY <2>1, <1>4, <1>12, <1>14
<1>16. ASSUME ~ (together /\ Cardinality(CopiedContainers) > 1),
              NEW c \in CopiedContainers, NEW d \in CopiedContainers,
              StartId(c, together) = StartId(d, together)
       PROVE  c = d
  <2>1. CASE ~ together
    <3>1. Cardinality(BeforeContainer[c]) = Cardinality(BeforeContainer[d])
      BY <2>1, <1>16, <1>3, <1>4, <1>6
    <3> QED
      BY <3>1, <1>3
  <2>2. CASE m <= 1
    <3>1. Cardinality(BeforeContainer[c]) = 0 /\ Cardinality(BeforeContainer[d]) = 0
      BY <2>2, <1>3, <1>4
    <3> QED
      BY <3>1, <1>3
  <2> QED
    BY <2>1, <2>2, <1>16, <1>4 DEF m
<1> QED
  BY <1>9, <1>10, <1>11, <1>12, <1>13, <1>14, <1>15, <1>16 DEF PasteNumbers

(* What the pasted ids stand for.  When containers collide, the start is   *)
(* in one of them.                                                         *)
PastedStart(c) == [type |-> "inner-start", start |-> Top, parent |-> CopyId(c, c)]

LEMMA PastedNodes ==
  ASSUME CanvasInv, NEW together \in BOOLEAN
  PROVE  /\ \A p \in Copies :
              NodeWithId(CopyId(p[1], p[2]), together) = CopyNode(p[1], p[2], together)
         /\ \A c \in CopiedContainers : \E d \in CopiedContainers :
              /\ NodeWithId(StartId(c, together), together) = PastedStart(d)
              /\ StartId(d, together) = StartId(c, together)
              /\ ~ (together /\ Cardinality(CopiedContainers) > 1) => d = c
<1>1. PasteNumbers(together)
  BY PasteIds
<1>2. ASSUME NEW p \in Copies
      PROVE  NodeWithId(CopyId(p[1], p[2]), together) = CopyNode(p[1], p[2], together)
  <2> DEFINE q == CHOOSE r \in Copies : CopyId(r[1], r[2]) = CopyId(p[1], p[2])
  <2>1. q \in Copies /\ CopyId(q[1], q[2]) = CopyId(p[1], p[2])
    OBVIOUS
  <2>2. q = p
    BY <2>1, <1>1 DEF PasteNumbers
  <2> QED
    BY <2>2 DEF NodeWithId
<1>3. ASSUME NEW c \in CopiedContainers
      PROVE  \E d \in CopiedContainers :
               /\ NodeWithId(StartId(c, together), together) = PastedStart(d)
               /\ StartId(d, together) = StartId(c, together)
               /\ ~ (together /\ Cardinality(CopiedContainers) > 1) => d = c
  <2> DEFINE cs == {b \in CopiedContainers : StartId(b, together) = StartId(c, together)}
             d == CHOOSE b \in cs : \A a \in cs : a <= b
  <2>1. c \in cs
    OBVIOUS
  <2>2. cs \subseteq 0..MaxId /\ cs # {}
    BY <2>1, ContainersOrdered, BoundsAssumption DEF Ids
  <2>3. \E b \in cs : \A a \in cs : a <= b
    BY <2>2, BoundsAssumption, Greatest
  <2>4. d \in cs
    BY <2>3
  <2>5. ~ \E p \in Copies : CopyId(p[1], p[2]) = StartId(c, together)
    BY <1>1 DEF PasteNumbers
  <2>6. NodeWithId(StartId(c, together), together) = PastedStart(d)
    BY <2>5 DEF NodeWithId, PastedStart
  <2>7. ~ (together /\ Cardinality(CopiedContainers) > 1) => d = c
    BY <2>4, <1>1 DEF PasteNumbers
  <2> QED
    BY <2>4, <2>6, <2>7
<1> QED
  BY <1>2, <1>3

(* Where an edge that is copied goes: into the copy of the iteration.      *)
LEMMA MappedNodes ==
  ASSUME CanvasInv, NEW together \in BOOLEAN, NEW n \in InIteration
  PROVE  LET c == canvas.node[n].parent
         IN /\ n \in DOMAIN canvas.node /\ c \in CopiedContainers
            /\ IdMapping(n, together) \in PastedIds(together)
            /\ \/ /\ canvas.node[n].type = "inner-start"
                  /\ IdMapping(n, together) = StartId(c, together)
               \/ /\ <<c, n>> \in Copies /\ n # c
                  /\ IdMapping(n, together) = CopyId(c, n)
<1> DEFINE c == canvas.node[n].parent
<1>1. n \in DOMAIN canvas.node /\ c \in CopiedIterations
  BY DEF InIteration, Children
<1>2. c \in CopiedContainers /\ clipboard[c] \in Containers /\ c \in DOMAIN clipboard
  BY <1>1 DEF CopiedIterations, CopiedContainers, Containers
<1>3. CASE canvas.node[n].type = "inner-start"
  <2>1. IdMapping(n, together) = StartId(c, together)
    BY <1>3 DEF IdMapping
  <2> QED
    BY <1>1, <1>2, <1>3, <2>1 DEF PastedIds
<1>4. CASE canvas.node[n].type # "inner-start"
  <2>1. IdMapping(n, together) = CopyId(c, n)
    BY <1>4 DEF IdMapping
  <2>2. n \in InnerNodes(c)
    BY <1>1, <1>4 DEF InnerNodes, Children
  <2>3. <<c, n>> \in Copies
    BY <1>2, <2>2, CopiesAre
  <2>4. CopyId(c, n) \in PastedIds(together)
    <3>1. \A p \in Copies : CopyId(p[1], p[2]) \in PastedIds(together)
      BY DEF PastedIds
    <3> QED
      BY <2>3, <3>1
  <2>5. n # c
    <3>1. c \in DOMAIN canvas.node => canvas.node[c].type = clipboard[c]
      BY <1>2, CanvasIsSound DEF CanvasInv, CapturedRight
    <3>2. c \in DOMAIN canvas.node => canvas.node[c].parent = Top
      BY <1>2, <3>1, CanvasIsSound DEF Sound, ContainersAtTop
    <3>3. c # Top
      BY <1>2, ContainersOrdered, CanvasIsSound DEF Top
    <3> QED
      BY <1>1, <3>2, <3>3
  <2> QED
    BY <1>1, <1>2, <2>1, <2>3, <2>4, <2>5
<1> QED
  BY <1>3, <1>4

(* A paste makes a sound canvas: the copies of containers have starts of   *)
(* their own unless they collided, and no edge leads out of a copy.        *)
LEMMA PasteIsSound ==
  ASSUME CanvasInv, NEW together \in BOOLEAN,
         DOMAIN Pasted(together).node \subseteq Ids,
         nextId' = nextId + Cardinality(PastedIds(together)),
         collided' = (collided \/ (together /\ Cardinality(CopiedContainers) > 1))
  PROVE  EditIsSound(Pasted(together))
<1> DEFINE g == Pasted(together)
           mapped == {Edge(IdMapping(e.source, together), e.handle,
                           IdMapping(e.target, together)) :
                        e \in {d \in canvas.edges : {d.source, d.target} \subseteq InIteration}}
<1>1. Sound(canvas) /\ DOMAIN canvas.node \subseteq Ids /\ Ids \subseteq Nat /\ nextId \in Nat
      /\ 0 \notin Ids
  BY CanvasIsSound
<1>2. PasteNumbers(together)
  BY PasteIds
<1>3. /\ DOMAIN g.node = DOMAIN canvas.node \cup PastedIds(together)
      /\ \A i \in DOMAIN canvas.node : g.node[i] = canvas.node[i]
      /\ \A i \in PastedIds(together) :
           i \notin DOMAIN canvas.node => g.node[i] = NodeWithId(i, together)
      /\ g.edges = canvas.edges \cup mapped
      /\ g.node = [i \in DOMAIN g.node |-> g.node[i]]
  BY DEF Pasted
<1> HIDE DEF g
<1>4. \A i \in PastedIds(together) :
        i \in Nat /\ i >= nextId /\ i < nextId' /\ i \in Ids /\ i \notin DOMAIN canvas.node
  BY <1>1, <1>2, <1>3 DEF PasteNumbers, Sound, IdsUsed, g
<1>5. \A p \in Copies :
        /\ CopyId(p[1], p[2]) \in PastedIds(together)
        /\ g.node[CopyId(p[1], p[2])] = CopyNode(p[1], p[2], together)
  <2>1. \A p \in Copies : CopyId(p[1], p[2]) \in PastedIds(together)
    BY DEF PastedIds
  <2> QED
    BY <2>1, <1>3, <1>4, PastedNodes
<1>6. \A c \in CopiedContainers :
        /\ StartId(c, together) \in PastedIds(together)
        /\ \E d \in CopiedContainers :
             /\ g.node[StartId(c, together)] = PastedStart(d)
             /\ ~ (together /\ Cardinality(CopiedContainers) > 1) => d = c
  <2>1. \A c \in CopiedContainers : StartId(c, together) \in PastedIds(together)
    BY DEF PastedIds
  <2> QED
    BY <2>1, <1>3, <1>4, PastedNodes
<1>7. \A c \in DOMAIN clipboard :
        /\ <<c, c>> \in Copies /\ CopyId(c, c) \in PastedIds(together) /\ CopyId(c, c) \in Ids
        /\ g.node[CopyId(c, c)] = CopyNode(c, c, together)
  <2>1. ASSUME NEW c \in DOMAIN clipboard
        PROVE  /\ <<c, c>> \in Copies /\ <<c, c>>[1] = c /\ <<c, c>>[2] = c
    BY CopiesAre
  <2> QED
    BY <2>1, <1>4, <1>5
<1>8. CopiedContainers \subseteq DOMAIN clipboard /\ CopiedContainers \subseteq Ids
      /\ \A c \in DOMAIN clipboard : c \in CopiedContainers <=> clipboard[c] \in Containers
  BY ContainersOrdered DEF CopiedContainers
(* What each pasted node is. *)
<1>9. ASSUME NEW i \in PastedIds(together)
      PROVE  \/ \E c \in DOMAIN clipboard : i = CopyId(c, c) /\ g.node[i] = CopyNode(c, c, together)
             \/ \E c \in CopiedContainers : \E n \in InnerNodes(c) :
                  n # c /\ i = CopyId(c, n) /\ g.node[i] = CopyNode(c, n, together)
             \/ \E d \in CopiedContainers : g.node[i] = PastedStart(d)
  <2>1. CASE \E p \in Copies : i = CopyId(p[1], p[2])
    <3>1. PICK p \in Copies : i = CopyId(p[1], p[2])
      BY <2>1
    <3>2. g.node[i] = CopyNode(p[1], p[2], together)
      BY <3>1, <1>5
    <3>3. /\ p[1] \in DOMAIN clipboard
          /\ p[2] = p[1] \/ (p[1] \in CopiedContainers /\ p[2] \in InnerNodes(p[1]))
      BY CopiesAre
    <3> QED
      BY <3>1, <3>2, <3>3
  <2>2. CASE \E c \in CopiedContainers : i = StartId(c, together)
    BY <2>2, <1>6
  <2> QED
    BY <2>1, <2>2 DEF PastedIds
<1>10. ASSUME NEW c \in DOMAIN clipboard
       PROVE  /\ CopyNode(c, c, together) \in Nodes
              /\ CopyNode(c, c, together).type = clipboard[c]
              /\ CopyNode(c, c, together).parent = Top
              /\ c \in CopiedContainers => CopyNode(c, c, together).start = StartId(c, together)
  <2>1. clipboard[c] \in Types
    BY DEF CanvasInv, CountsInv
  <2>2. c \in CopiedContainers => StartId(c, together) \in Ids
    BY <1>4, <1>6
  <2> QED
    BY <2>1, <2>2 DEF CopyNode, Nodes
<1>11. ASSUME NEW c \in CopiedContainers, NEW n \in InnerNodes(c), n # c
       PROVE  /\ CopyNode(c, n, together) \in Nodes
              /\ CopyNode(c, n, together).type \notin Containers
              /\ CopyNode(c, n, together).parent = CopyId(c, c)
  <2>1. n \in DOMAIN canvas.node /\ canvas.node[n] \in Nodes /\ canvas.node[n].parent = c
    BY <1>1 DEF InnerNodes, Children, Sound, IsGraph
  <2>2. canvas.node[n].type \notin Containers
    BY <2>1, <1>1, <1>8 DEF Sound, ContainersAtTop, Top
  <2>3. CopyNode(c, n, together) =
          [type |-> canvas.node[n].type, parent |-> CopyId(c, c), start |-> Top]
    BY <1>11 DEF CopyNode
  <2>4. CopyId(c, c) \in Ids
    BY <1>7, <1>8
  <2>5. canvas.node[n].type \in Types
    BY <2>1 DEF Nodes
  <2> QED
    BY <2>2, <2>3, <2>4, <2>5 DEF Nodes
<1>12. \A d \in CopiedContainers :
         PastedStart(d) \in Nodes /\ PastedStart(d).type = "inner-start"
         /\ PastedStart(d).parent = CopyId(d, d)
  BY <1>7, <1>8 DEF PastedStart, Nodes, Types
<1>13. IsGraph(g)
  <2>1. ASSUME NEW i \in PastedIds(together) PROVE g.node[i] \in Nodes
    BY <1>9, <1>10, <1>11, <1>12
  <2>2. \A i \in DOMAIN canvas.node : g.node[i] \in Nodes
    BY <1>1, <1>3 DEF Sound, IsGraph
  <2>3. g.node \in [DOMAIN g.node -> Nodes]
    BY <2>1, <2>2, <1>3
  <2>4. ASSUME NEW e \in canvas.edges, {e.source, e.target} \subseteq InIteration
        PROVE  Edge(IdMapping(e.source, together), e.handle, IdMapping(e.target, together)) \in Edges
    <3>1. IdMapping(e.source, together) \in Ids /\ IdMapping(e.target, together) \in Ids
      BY <2>4, <1>4, MappedNodes
    <3>2. e.handle \in {"source", "true", "false"}
      BY <1>1 DEF Sound, IsGraph, Edges
    <3> QED
      BY <3>1, <3>2, NewEdge
  <2>5. g.edges \subseteq Edges
    BY <2>4, <1>1, <1>3 DEF Sound, IsGraph
  <2> QED
    BY <2>3, <2>5 DEF IsGraph, g
<1>14. ASSUME NEW e \in g.edges
       PROVE  \/ e \in canvas.edges
              \/ \E s, t \in InIteration :
                   /\ e.source = IdMapping(s, together) /\ e.target = IdMapping(t, together)
                   /\ collided \/ canvas.node[s].parent = canvas.node[t].parent
  <2>1. CASE e \in mapped
    <3>1. PICK d \in canvas.edges :
            /\ d.source \in InIteration /\ d.target \in InIteration
            /\ e = Edge(IdMapping(d.source, together), d.handle, IdMapping(d.target, together))
      BY <2>1
    <3>2. e.source = IdMapping(d.source, together) /\ e.target = IdMapping(d.target, together)
      BY <3>1 DEF Edge
    <3>3. collided \/ canvas.node[d.source].parent = canvas.node[d.target].parent
      BY <1>1 DEF Sound, StaysInLevel
    <3> QED
      BY <3>1, <3>2, <3>3
  <2> QED
    BY <2>1, <1>3
<1>15. EdgesJoin(g)
  <2>1. \A s \in InIteration : IdMapping(s, together) \in DOMAIN g.node
    BY <1>3, MappedNodes
  <2>2. \A e \in canvas.edges : e.source \in DOMAIN g.node /\ e.target \in DOMAIN g.node
    BY <1>1, <1>3 DEF Sound, EdgesJoin
  <2> QED
    BY <2>1, <2>2, <1>14 DEF EdgesJoin
<1>16. ContainersAtTop(g)
  <2>1. ASSUME NEW i \in PastedIds(together), g.node[i].type \in Containers
        PROVE  g.node[i].parent = Top
    BY <2>1, <1>9, <1>10, <1>11, <1>12 DEF Containers
  <2> QED
    BY <2>1, <1>1, <1>3 DEF ContainersAtTop, Sound
<1>17. \A i \in DOMAIN g.node : i < nextId'
  <2>1. \A i \in DOMAIN canvas.node : i < nextId'
    <3>1. Cardinality(PastedIds(together)) \in Nat
      BY <1>2 DEF PasteNumbers
    <3>2. nextId' \in Nat /\ nextId <= nextId'
      BY <3>1, <1>1
    <3>3. \A i \in DOMAIN canvas.node : i < nextId /\ i \in Nat
      BY <1>1 DEF Sound, IdsUsed
    <3> QED
      BY <3>2, <3>3, <1>1
  <2> QED
    BY <2>1, <1>3, <1>4
<1>18. KeepsNodes(g)
  BY <1>3, <1>4 DEF KeepsNodes, SameNode
<1>19. ASSUME ~ collided' PROVE StaysInLevel(g) /\ HasStarts(g)
  <2>1. StaysInLevel(canvas) /\ HasStarts(canvas) /\ EdgesJoin(canvas)
    BY <1>1, <1>19 DEF Sound
  <2>2. ~ (together /\ Cardinality(CopiedContainers) > 1) /\ ~ collided
    BY <1>19
  <2>3. \A c \in CopiedContainers : g.node[StartId(c, together)] = PastedStart(c)
    BY <2>2, <1>6
  <2>4. ASSUME NEW n \in InIteration
        PROVE  g.node[IdMapping(n, together)].parent =
                 CopyId(canvas.node[n].parent, canvas.node[n].parent)
    <3> DEFINE c == canvas.node[n].parent
    <3>1. CASE IdMapping(n, together) = StartId(c, together)
      BY <3>1, <2>3, <1>12, MappedNodes
    <3>2. CASE <<c, n>> \in Copies /\ n # c /\ IdMapping(n, together) = CopyId(c, n)
      <4>1. g.node[CopyId(c, n)] = CopyNode(c, n, together)
        BY <3>2, <1>5
      <4>2. CopyNode(c, n, together).parent = CopyId(c, c)
        BY <3>2 DEF CopyNode
      <4> QED
        BY <3>2, <4>1, <4>2
    <3> QED
      BY <3>1, <3>2, MappedNodes
  <2>5. StaysInLevel(g)
    <3>1. ASSUME NEW e \in canvas.edges
          PROVE  g.node[e.source].parent = g.node[e.target].parent
      BY <2>1, <1>3 DEF StaysInLevel, EdgesJoin
    <3>2. ASSUME NEW s \in InIteration, NEW t \in InIteration,
                 canvas.node[s].parent = canvas.node[t].parent
          PROVE  g.node[IdMapping(s, together)].parent = g.node[IdMapping(t, together)].parent
      BY <3>2, <2>4
    <3>3. ASSUME NEW e \in g.edges PROVE g.node[e.source].parent = g.node[e.target].parent
      BY <3>1, <3>2, <2>2, <1>14
    <3> QED
      BY <3>3 DEF StaysInLevel
  <2>6. ASSUME NEW i \in PastedIds(together), g.node[i].type \in Containers
        PROVE  LET s == g.node[i].start
               IN /\ s \in DOMAIN g.node
                  /\ g.node[s].type = "inner-start" /\ g.node[s].parent = i
    <3>1. PICK c \in DOMAIN clipboard : i = CopyId(c, c) /\ g.node[i] = CopyNode(c, c, together)
      BY <2>6, <1>9, <1>11, <1>12 DEF Containers
    <3>2. c \in CopiedContainers
      BY <2>6, <3>1, <1>8, <1>10
    <3>3. g.node[i].start = StartId(c, together)
      BY <3>1, <3>2, <1>10
    <3> QED
      BY <3>1, <3>2, <3>3, <2>3, <1>3, <1>6, <1>12
  <2>7. ASSUME NEW i \in DOMAIN canvas.node, g.node[i].type \in Containers
        PROVE  LET s == g.node[i].start
               IN /\ s \in DOMAIN g.node
                  /\ g.node[s].type = "inner-start" /\ g.node[s].parent = i
    BY <2>1, <2>7, <1>3 DEF HasStarts
  <2> QED
    BY <2>5, <2>6, <2>7, <1>3 DEF HasStarts
<1>20. EditIsSound(g)
  BY <1>13, <1>15, <1>16, <1>17, <1>18, <1>19 DEF EditIsSound
<1> QED
  BY <1>20 DEF g

LEMMA PasteKeeps == CanvasInv /\ Paste => CanvasInv'
<1> SUFFICES ASSUME CanvasInv, Paste PROVE CanvasInv'
  OBVIOUS
<1>1. PICK together \in BOOLEAN :
        /\ Edit(Pasted(together))
        /\ nextId' = nextId + Cardinality(PastedIds(together))
        /\ collided' = (collided \/ (together /\ Cardinality(CopiedContainers) > 1))
  BY DEF Paste
<1>2. UNCHANGED <<clipboard, showConfirm>>
  BY DEF Paste
<1>3. DOMAIN Pasted(together).node \subseteq Ids
  BY <1>1 DEF Edit
<1>4. EditIsSound(Pasted(together))
  BY <1>1, <1>3, PasteIsSound
<1>5. nextId' \in Nat /\ nextId' >= nextId
  <2>1. Cardinality(PastedIds(together)) \in Nat /\ nextId \in Nat
    BY PasteIds, CanvasIsSound DEF PasteNumbers
  <2> QED
    BY <2>1, <1>1
<1>6. collided' \in BOOLEAN /\ (collided => collided')
  BY <1>1, Zenon DEF CanvasInv, CountsInv
<1> QED
  BY <1>1, <1>2, <1>4, <1>5, <1>6, EditKeeps

-----------------------------------------------------------------------------
LEMMA NextKeeps == CanvasInv /\ [Next]_vars => CanvasInv'
<1> SUFFICES ASSUME CanvasInv, [Next]_vars PROVE CanvasInv'
  OBVIOUS
<1>1. CASE \E s, t \in DOMAIN canvas.node : Connect(s, t) \/ ConnectEnd(s, t)
  BY <1>1, ConnectKeeps
<1>2. CASE \E n \in DOMAIN canvas.node, type \in NewTypes :
             AddAfter(n, type) \/ AddBefore(n, type) \/ Change(n, type)
  BY <1>2, AddAfterKeeps, AddBeforeKeeps, ChangeKeeps
<1>3. CASE \E e \in canvas.edges :
             DeleteEdge(e) \/ \E type \in NewTypes : InsertBetween(e, type)
  BY <1>3, DeleteEdgeKeeps, InsertKeeps
<1>4. CASE \E n \in DOMAIN canvas.node :
             \/ Disconnect(n) \/ DeleteNode(n)
             \/ \E h \in {"true", "false"} : DeleteBranch(n, h)
  BY <1>4, DisconnectKeeps, DeleteNodeKeeps, DeleteBranchKeeps
<1>5. CASE Confirm \/ Cancel
  BY <1>5, ConfirmKeeps, CancelKeeps
<1>6. CASE \E S \in SUBSET DOMAIN canvas.node : DeleteBundle(S) \/ Copy(S)
  BY <1>6, DeleteBundleKeeps, CopyKeeps
<1>7. CASE Paste \/ Save \/ Undo \/ Redo
  BY <1>7, PasteKeeps, SaveKeeps, UndoKeeps, RedoKeeps
<1>8. CASE UNCHANGED vars
  BY <1>8, HistoryKeeps DEF vars, States, CanvasInv, CountsInv, SettledIsSaved
<1> QED
  BY <1>1, <1>2, <1>3, <1>4, <1>5, <1>6, <1>7, <1>8 DEF Next, EditCanvas

LEMMA CanvasInvariant == Spec => []CanvasInv
BY InitCanvas, NextKeeps, PTL DEF Spec

DroppedType == dropped \in BOOLEAN
LEMMA NextDrops == DroppedType /\ [Next]_vars => DroppedType'
<1> USE DEF DroppedType
<1> SUFFICES ASSUME DroppedType, [Next]_vars PROVE DroppedType'
  OBVIOUS
<1>1. CASE \E s, t \in DOMAIN canvas.node : Connect(s, t) \/ ConnectEnd(s, t)
  <2>1. PICK s, t \in DOMAIN canvas.node : Connect(s, t) \/ ConnectEnd(s, t)
    BY <1>1
  <2>2. CASE Connect(s, t)
    BY <2>2 DEF Connect
  <2>3. CASE ConnectEnd(s, t)
    <3>1. dropped' = (dropped \/ HasCycle(s, t))
      BY <2>3 DEF ConnectEnd
    <3>2. CASE HasCycle(s, t)
      BY <3>1, <3>2
    <3>3. CASE ~ HasCycle(s, t)
      BY <3>1, <3>3
    <3> QED
      BY <3>2, <3>3
  <2> QED
    BY <2>1, <2>2, <2>3
<1>2. CASE \E n \in DOMAIN canvas.node, type \in NewTypes :
             AddAfter(n, type) \/ AddBefore(n, type) \/ Change(n, type)
  BY <1>2 DEF AddAfter, AddBefore, Change, MouseEdit
<1>3. CASE \E e \in canvas.edges :
             DeleteEdge(e) \/ \E type \in NewTypes : InsertBetween(e, type)
  BY <1>3 DEF DeleteEdge, InsertBetween, MouseEdit
<1>4. CASE \E n \in DOMAIN canvas.node :
             \/ Disconnect(n) \/ DeleteNode(n)
             \/ \E h \in {"true", "false"} : DeleteBranch(n, h)
  BY <1>4 DEF Disconnect, DeleteNode, DeleteBranch, MouseEdit
<1>5. CASE Confirm \/ Paste \/ \E S : DeleteBundle(S) \/ Copy(S)
  BY <1>5 DEF Confirm, Paste, DeleteBundle, Copy
<1>6. CASE Cancel \/ Save \/ Undo \/ Redo \/ UNCHANGED vars
  BY <1>6 DEF Cancel, Save, Undo, Redo, vars
<1> QED
  BY <1>1, <1>2, <1>3, <1>4, <1>5, <1>6 DEF Next, EditCanvas

(* The types of the canvas, the history, the clipboard, the dialog and the *)
(* counters: what was captured before stays a node's id and type.          *)
THEOREM TypeCorrect == Spec => []TypeOK
<1>1. CanvasInv /\ DroppedType => TypeOK
  <2>1. CanvasInv => pending \in Nat
    BY BoundsAssumption DEF CanvasInv, CountsInv
  <2> QED
    BY <2>1 DEF CanvasInv, CountsInv, Sound, TypeOK, DroppedType
<1>2. Init => DroppedType
  BY DEF Init, DroppedType
<1>3. Spec => []DroppedType
  BY <1>2, NextDrops, PTL DEF Spec
<1> QED
  BY <1>1, <1>3, CanvasInvariant, PTL

(* No handler, undo or redo leaves an edge that hangs on a node which is   *)
(* not there: on the canvas and in every state of the history.             *)
THEOREM EdgesJoined == Spec => []EdgesJoinNodes
<1>1. CanvasInv => EdgesJoinNodes
  BY DEF CanvasInv, Sound, EdgesJoinNodes
<1> QED
  BY <1>1, CanvasInvariant, PTL

(* No edge crosses the border of a container, unless containers were       *)
(* pasted in the same millisecond.                                         *)
THEOREM LevelsApart == Spec => []EdgesStayInLevel
<1>1. CanvasInv => EdgesStayInLevel
  BY CanvasIsSound DEF Sound, EdgesStayInLevel
<1> QED
  BY <1>1, CanvasInvariant, PTL

(* Every container has a start of its own inside, also after an undo and a *)
(* confirmation that came late, with the same exception.                   *)
THEOREM StartsKept == Spec => []ContainersHaveStart
<1>1. CanvasInv => ContainersHaveStart
  BY CanvasIsSound DEF Sound, ContainersHaveStart
<1> QED
  BY <1>1, CanvasInvariant, PTL

(* When no save is to come, the history's present state is the canvas: no  *)
(* edit was forgotten.                                                     *)
THEOREM NothingUnsaved == Spec => []SettledIsSaved
<1>1. CanvasInv => SettledIsSaved
  BY DEF CanvasInv
<1> QED
  BY <1>1, CanvasInvariant, PTL

-----------------------------------------------------------------------------
(* A set of numbers has a least one.                                       *)
LEMMA Least ==
  ASSUME NEW B \in SUBSET Nat, B # {}
  PROVE  \E k \in B : \A i \in B : k <= i
<1>1. PICK x \in B : \A y \in B : ~ (<<y, x>> \in OpToRel(<, Nat))
  <2>1. \E x \in B : \A y \in B : ~ (<<y, x>> \in OpToRel(<, Nat))
    BY NatLessThanWellFounded, WFMin
  <2> QED
    BY <2>1
<1>2. ASSUME NEW i \in B PROVE x <= i
  <2>1. ~ (i < x)
    BY <1>1 DEF OpToRel
  <2> QED
    BY <2>1
<1> QED
  BY <1>2

(* The walk that ReachedFrom is defined by.  That there is one is shown by *)
(* the paths: what is reached in k steps is the end of a path of k steps.  *)
IsWalk(R, g, S) ==
  R = [k \in Nat |-> IF k = 0 THEN S
                     ELSE LET before == R[k - 1]
                          IN before \cup Successors(g, before)]

LEMMA WalkExists ==
  ASSUME NEW g, EdgesJoin(g), NEW S \in SUBSET DOMAIN g.node
  PROVE  \E R : IsWalk(R, g, S)
<1> DEFINE D == DOMAIN g.node
           Stays(p, i) == p[i] = p[i - 1] \/ \E e \in g.edges :
                                               e.source = p[i - 1] /\ e.target = p[i]
           Paths(k) == {p \in [0..k -> D] : p[0] \in S /\ \A i \in 1..k : Stays(p, i)}
           R == [k \in Nat |-> {n \in D : \E p \in Paths(k) : p[k] = n}]
<1>1. \A e \in g.edges : e.source \in D /\ e.target \in D
  BY DEF EdgesJoin
<1>2. R[0] = S
  <2>1. ASSUME NEW n \in S PROVE n \in R[0]
    <3> DEFINE p == [i \in 0..0 |-> n]
    <3>1. p \in Paths(0) /\ p[0] = n
      OBVIOUS
    <3> QED
      BY <3>1
  <2> QED
    BY <2>1
<1>3. ASSUME NEW k \in Nat, k # 0
      PROVE  R[k] = R[k - 1] \cup Successors(g, R[k - 1])
  <2>1. ASSUME NEW n \in R[k] PROVE n \in R[k - 1] \cup Successors(g, R[k - 1])
    <3>1. PICK p \in Paths(k) : p[k] = n
      BY <2>1
    <3> DEFINE q == [i \in 0..(k - 1) |-> p[i]]
    <3>2. q \in [0..(k - 1) -> D] /\ q[0] = p[0] /\ k - 1 \in Nat /\ q[k - 1] = p[k - 1]
      BY <1>3
    <3>3. \A i \in 1..(k - 1) : q[i] = p[i] /\ q[i - 1] = p[i - 1] /\ i \in 1..k
      BY <1>3
    <3>4. \A i \in 1..k : Stays(p, i)
      OBVIOUS
    <3>5. \A i \in 1..(k - 1) : Stays(q, i)
      BY <3>3, <3>4
    <3>6. q \in Paths(k - 1)
      BY <3>2, <3>5
    <3>7. p[k - 1] \in R[k - 1]
      BY <3>2, <3>6
    <3>8. Stays(p, k)
      BY <3>4, <1>3
    <3> HIDE DEF R
    <3> QED
      BY <3>1, <3>7, <3>8 DEF Successors
  <2>2. ASSUME NEW m \in R[k - 1], NEW n \in D,
               n = m \/ \E e \in g.edges : e.source = m /\ e.target = n
        PROVE  n \in R[k]
    <3>1. k - 1 \in Nat
      BY <1>3
    <3>2. PICK p \in Paths(k - 1) : p[k - 1] = m
      BY <2>2, <3>1
    <3> DEFINE q == [i \in 0..k |-> IF i = k THEN n ELSE p[i]]
    <3>3. /\ q \in [0..k -> D] /\ q[0] = p[0] /\ q[k] = n /\ q[k - 1] = m
      BY <3>2, <1>3
    <3>4. \A i \in 1..(k - 1) : q[i] = p[i] /\ q[i - 1] = p[i - 1]
      BY <1>3
    <3>5. \A i \in 1..(k - 1) : Stays(p, i)
      OBVIOUS
    <3>6. \A i \in 1..(k - 1) : Stays(q, i)
      BY <3>4, <3>5
    <3>7. Stays(q, k)
      BY <2>2, <3>3
    <3>8. \A i \in 1..k : i = k \/ i \in 1..(k - 1)
      BY <1>3
    <3>9. q \in Paths(k)
      BY <3>3, <3>6, <3>7, <3>8
    <3> QED
      BY <3>3, <3>9
  <2>3. R[k - 1] \subseteq D
    BY <1>3
  <2> HIDE DEF R
  <2>4. ASSUME NEW n \in R[k - 1] \cup Successors(g, R[k - 1]) PROVE n \in R[k]
    <3>1. CASE n \in R[k - 1]
      BY <3>1, <2>2, <2>3
    <3>2. CASE n \in Successors(g, R[k - 1])
      BY <3>2, <2>2, <1>1 DEF Successors
    <3> QED
      BY <3>1, <3>2
  <2> QED
    BY <2>1, <2>4
<1>4. R = [k \in Nat |-> R[k]]
  OBVIOUS
<1> HIDE DEF R
<1>5. R = [k \in Nat |-> IF k = 0 THEN S ELSE R[k - 1] \cup Successors(g, R[k - 1])]
  <2>1. \A k \in Nat : R[k] = IF k = 0 THEN S ELSE R[k - 1] \cup Successors(g, R[k - 1])
    BY <1>2, <1>3
  <2> QED
    BY <1>4, <2>1
<1>6. IsWalk(R, g, S)
  BY <1>5 DEF IsWalk
<1> QED
  BY <1>6

LEMMA ReachedIsWalked ==
  ASSUME NEW g, EdgesJoin(g), NEW S \in SUBSET DOMAIN g.node
  PROVE  \E R : IsWalk(R, g, S) /\ ReachedFrom(g, S) = R[Cardinality(DOMAIN g.node)]
<1> DEFINE R == CHOOSE f : IsWalk(f, g, S)
<1>1. IsWalk(R, g, S)
  BY WalkExists
<1>2. ReachedFrom(g, S) = R[Cardinality(DOMAIN g.node)]
  BY DEF ReachedFrom, IsWalk
<1> QED
  BY <1>1, <1>2

(* What is reached from S is the least set of nodes that S is part of and  *)
(* no edge leaves.                                                         *)
Closed(g, T) == \A e \in g.edges : e.source \in T => e.target \in T

LEMMA Reached ==
  ASSUME NEW g, IsGraph(g), EdgesJoin(g), NEW S \in SUBSET DOMAIN g.node
  PROVE  /\ ReachedFrom(g, S) \subseteq DOMAIN g.node /\ S \subseteq ReachedFrom(g, S)
         /\ Closed(g, ReachedFrom(g, S))
         /\ \A T \in SUBSET DOMAIN g.node :
              S \subseteq T /\ Closed(g, T) => ReachedFrom(g, S) \subseteq T
<1> DEFINE D == DOMAIN g.node
<1>1. PICK R : IsWalk(R, g, S) /\ ReachedFrom(g, S) = R[Cardinality(D)]
  BY ReachedIsWalked
<1>2. IsFiniteSet(D) /\ Cardinality(D) \in Nat
  <2>1. IsFiniteSet(Ids) /\ D \subseteq Ids
    BY BoundsAssumption, FS_Interval DEF Ids, IsGraph
  <2> QED
    BY <2>1, FS_Subset, FS_CardinalityType
<1>3. /\ R[0] = S
      /\ \A k \in Nat \ {0} : R[k] = R[k - 1] \cup Successors(g, R[k - 1])
  BY <1>1 DEF IsWalk
<1>4. \A T : Closed(g, T) <=> Successors(g, T) \subseteq T
  BY DEF Closed, Successors
<1>5. \A T : Successors(g, T) \subseteq D
  BY DEF EdgesJoin, Successors
<1>6. \A U, T : U \subseteq T => Successors(g, U) \subseteq Successors(g, T)
  BY DEF Successors
<1> DEFINE P(k) ==
      /\ R[k] \subseteq D /\ S \subseteq R[k]
      /\ \A T \in SUBSET D : S \subseteq T /\ Closed(g, T) => R[k] \subseteq T
      /\ Cardinality(R[k]) >= k \/ Closed(g, R[k])
<1>7. P(0)
  <2>1. Cardinality(S) >= 0
    BY <1>2, FS_Subset, FS_CardinalityType
  <2> QED
    BY <1>3, <2>1
<1>8. ASSUME NEW k \in Nat \ {0}, P(k - 1) PROVE P(k)
  <2>1. R[k] = R[k - 1] \cup Successors(g, R[k - 1])
    BY <1>3
  <2>2. R[k] \subseteq D /\ S \subseteq R[k]
    BY <2>1, <1>5, <1>8
  <2>3. ASSUME NEW T \in SUBSET D, S \subseteq T, Closed(g, T) PROVE R[k] \subseteq T
    BY <2>1, <2>3, <1>4, <1>6, <1>8
  <2>4. CASE Closed(g, R[k - 1])
    <3>1. R[k] = R[k - 1]
      BY <2>1, <2>4, <1>4
    <3> QED
      BY <2>2, <2>3, <2>4, <3>1
  <2>5. CASE ~ Closed(g, R[k - 1])
    <3>1. R[k] # R[k - 1] /\ R[k - 1] \subseteq R[k]
      BY <2>1, <2>5, <1>4
    <3>2. IsFiniteSet(R[k]) /\ Cardinality(R[k]) \in Nat /\ IsFiniteSet(R[k - 1])
          /\ Cardinality(R[k - 1]) \in Nat
      BY <2>2, <1>2, <1>8, FS_Subset, FS_CardinalityType
    <3>3. Cardinality(R[k - 1]) < Cardinality(R[k])
      BY <3>1, <3>2, FS_Subset
    <3>4. Cardinality(R[k - 1]) >= k - 1
      BY <2>5, <1>8
    <3>5. Cardinality(R[k]) >= k
      BY <3>2, <3>3, <3>4
    <3> QED
      BY <2>2, <2>3, <3>5
  <2> QED
    BY <2>4, <2>5
<1> HIDE DEF P
<1>9. \A k \in Nat : P(k)
  <2> DEFINE B == {k \in Nat : ~ P(k)}
  <2>1. ASSUME B # {} PROVE FALSE
    <3>1. PICK k \in B : \A i \in B : k <= i
      BY <2>1, Least
    <3>2. k \in Nat \ {0} /\ k - 1 \in Nat
      BY <1>7
    <3>3. P(k - 1)
      BY <3>1, <3>2
    <3> QED
      BY <3>2, <3>3, <1>8
  <2> QED
    BY <2>1
<1>10. P(Cardinality(D))
  BY <1>2, <1>9
<1> DEFINE W == R[Cardinality(D)]
<1>11. Closed(g, W)
  <2>1. CASE Cardinality(W) >= Cardinality(D)
    <3>1. W = D
      BY <2>1, <1>2, <1>10, FS_Subset, FS_CardinalityType DEF P
    <3> QED
      BY <3>1 DEF Closed, EdgesJoin
  <2> QED
    BY <2>1, <1>10 DEF P
<1> QED
  BY <1>1, <1>10, <1>11 DEF P

(* An edge is part of no cycle when, and only when, some closed set has    *)
(* its target and not its source.                                          *)
Apart(g, e) ==
  \E W \in SUBSET DOMAIN g.node : Closed(g, W) /\ e.target \in W /\ e.source \notin W

LEMMA NoCycleIsApart ==
  ASSUME NEW g, IsGraph(g), EdgesJoin(g), NEW e \in g.edges
  PROVE  ~ OnCycle(g, e) <=> Apart(g, e)
<1> DEFINE R == ReachedFrom(g, {e.target})
<1>1. {e.target} \in SUBSET DOMAIN g.node
  BY DEF EdgesJoin
<1>2. /\ R \subseteq DOMAIN g.node /\ e.target \in R /\ Closed(g, R)
      /\ \A T \in SUBSET DOMAIN g.node : e.target \in T /\ Closed(g, T) => R \subseteq T
  BY <1>1, Reached
<1>3. OnCycle(g, e) <=> e.source \in R
  BY DEF OnCycle
<1> HIDE DEF R
<1> QED
  BY <1>2, <1>3 DEF Apart

(* New edges that all lead into a set that was closed, from outside of it, *)
(* close no cycle.                                                         *)
LEMMA LinksCloseNoCycle ==
  ASSUME NEW g, IsGraph(g), EdgesJoin(g), Acyclic(g), NEW T, Closed(g, T),
         NEW h, IsGraph(h), EdgesJoin(h),
         \A e \in h.edges : e \in g.edges \/ (e.source \notin T /\ e.target \in T)
  PROVE  Acyclic(h)
<1> DEFINE D == DOMAIN h.node
<1>1. \A e \in h.edges : e.source \in D /\ e.target \in D
  BY DEF EdgesJoin
<1>2. ASSUME NEW e \in h.edges PROVE Apart(h, e)
  <2>1. CASE e \in g.edges
    <3>1. Apart(g, e)
      BY <2>1, NoCycleIsApart DEF Acyclic
    <3>2. PICK W : Closed(g, W) /\ e.target \in W /\ e.source \notin W
      BY <3>1 DEF Apart
    <3>3. CASE e.source \in T
      <4> DEFINE V == W \cap T \cap D
      <4>1. Closed(h, V)
        BY <3>2, <1>1 DEF Closed
      <4>2. e.target \in V /\ e.source \notin V
        BY <2>1, <3>2, <3>3, <1>1 DEF Closed
      <4>3. V \in SUBSET DOMAIN h.node
        OBVIOUS
      <4> HIDE DEF V
      <4> QED
        BY <4>1, <4>2, <4>3 DEF Apart
    <3>4. CASE e.source \notin T
      <4> DEFINE V == (W \cup T) \cap D
      <4>1. Closed(h, V)
        BY <3>2, <1>1 DEF Closed
      <4>2. e.target \in V /\ e.source \notin V
        BY <3>2, <3>4, <1>1
      <4>3. V \in SUBSET DOMAIN h.node
        OBVIOUS
      <4> HIDE DEF V
      <4> QED
        BY <4>1, <4>2, <4>3 DEF Apart
    <3> QED
      BY <3>3, <3>4
  <2>2. CASE e \notin g.edges
    <3> DEFINE V == T \cap D
    <3>1. Closed(h, V)
      BY <1>1 DEF Closed
    <3>2. e.target \in V /\ e.source \notin V
      BY <2>2, <1>1
    <3>3. V \in SUBSET DOMAIN h.node
      OBVIOUS
    <3> HIDE DEF V
    <3> QED
      BY <3>1, <3>2, <3>3 DEF Apart
  <2> QED
    BY <2>1, <2>2
<1> QED
  BY <1>2, NoCycleIsApart DEF Acyclic

-----------------------------------------------------------------------------
(* Containers that collided share the start that one of them has inside,   *)
(* and from there edges lead into all of them.  So a level has a key: the  *)
(* start of its container, which it may share.  Every edge joins levels of *)
(* the same key: a paste copies no edge between two containers.            *)
IsStart(g, n) == g.node[n].type \in {"start", "inner-start"}
Keyed(g, key, limit) ==
  /\ key \in [Nat -> Nat] /\ \A c \in Nat : key[c] = Top <=> c = Top
  /\ \A n \in DOMAIN g.node :
       LET c == g.node[n].parent
       IN /\ c < limit
          /\ g.node[n].type = "start" => c = Top
          /\ g.node[n].type = "inner-start" => c # Top /\ key[c] = n
          /\ c \in DOMAIN g.node =>
               /\ g.node[c].start = key[c] /\ key[c] < limit
               /\ key[c] \in DOMAIN g.node => g.node[key[c]].type = "inner-start"
  /\ \A e \in g.edges :
       /\ ~ IsStart(g, e.target)
       /\ key[g.node[e.source].parent] = key[g.node[e.target].parent]
InPlace(g, limit) == \E key : Keyed(g, key, limit)

(* All states of the history, as undo brings any of them back.             *)
FreeInv == \A g \in States : InPlace(g, nextId) /\ (dropped \/ Acyclic(g))

-----------------------------------------------------------------------------
(* What all edits but a paste do: the nodes are of before, a new one in a  *)
(* level there was, or the start inside of the new one; only a container   *)
(* that starts at a block may come to start elsewhere.                     *)
Evolved(g) ==
  \A n \in DOMAIN g.node :
    \/ /\ n \in DOMAIN canvas.node /\ SameNode(g.node[n], canvas.node[n])
       /\ LET s == canvas.node[n].start
          IN \/ g.node[n].start = s
             \/ s \in DOMAIN canvas.node /\ canvas.node[s].type # "inner-start"
    \/ /\ n = nextId /\ ~ IsStart(g, n)
       /\ \E p \in DOMAIN canvas.node : g.node[n].parent = canvas.node[p].parent
    \/ /\ n = nextId + 1 /\ nextId \in DOMAIN g.node /\ g.node[nextId].start = n
       /\ g.node[n].type = "inner-start" /\ g.node[n].parent = nextId

(* New edges end at blocks, and join the levels of nodes of one key.       *)
NewEdgesFit(g) ==
  \A e \in g.edges \ canvas.edges :
    /\ ~ IsStart(g, e.target) /\ e.source # nextId + 1
    /\ \E u, v \in DOMAIN canvas.node :
         /\ g.node[e.source].parent = canvas.node[u].parent
         /\ g.node[e.target].parent = canvas.node[v].parent
         /\ u = v \/ \E d \in canvas.edges : u = d.source /\ v = d.target

LEMMA EditInPlace ==
  ASSUME CanvasInv, InPlace(canvas, nextId), NEW g, IsGraph(g), EdgesJoin(g),
         NEW limit \in Nat, limit >= nextId, \A n \in DOMAIN g.node : n < limit,
         Evolved(g), NewEdgesFit(g)
  PROVE  InPlace(g, limit)
<1>1. PICK key : Keyed(canvas, key, nextId)
  BY DEF InPlace
<1> DEFINE new == [key EXCEPT ![nextId] = nextId + 1]
           D == DOMAIN canvas.node
<1>2. /\ nextId \in Nat \ {0} /\ nextId + 1 \in Nat /\ D \subseteq Nat /\ 0 \notin D
      /\ EdgesJoin(canvas) /\ \A n \in D : n < nextId
  BY CanvasIsSound DEF CanvasInv, CountsInv, Sound, IdsUsed
<1>3. \A n \in D : canvas.node[n].parent \in Nat /\ canvas.node[n].parent < nextId
  BY <1>1, CanvasIsSound, BoundsAssumption DEF Sound, IsGraph, Nodes, Keyed, Top
<1>4. /\ new \in [Nat -> Nat] /\ \A c \in Nat : new[c] = Top <=> c = Top
      /\ new[nextId] = nextId + 1
      /\ \A c \in Nat : c < nextId => new[c] = key[c]
  BY <1>1, <1>2 DEF Keyed, Top
<1> HIDE DEF new
<1>5. ASSUME NEW n \in DOMAIN g.node
      PROVE  LET c == g.node[n].parent
             IN /\ c < limit
                /\ g.node[n].type = "start" => c = Top
                /\ g.node[n].type = "inner-start" => c # Top /\ new[c] = n
                /\ c \in DOMAIN g.node =>
                     /\ g.node[c].start = new[c] /\ new[c] < limit
                     /\ new[c] \in DOMAIN g.node => g.node[new[c]].type = "inner-start"
  <2> DEFINE c == g.node[n].parent
  <2>1. CASE \E p \in D : /\ c = canvas.node[p].parent
                          /\ \/ n = p /\ SameNode(g.node[n], canvas.node[n])
                             \/ ~ IsStart(g, n)
    <3>1. PICK p \in D : /\ c = canvas.node[p].parent
                         /\ \/ n = p /\ SameNode(g.node[n], canvas.node[n])
                            \/ ~ IsStart(g, n)
      BY <2>1
    <3>2. c \in Nat /\ c < nextId /\ c < limit /\ new[c] = key[c]
      BY <3>1, <1>2, <1>3, <1>4
    <3>3. /\ g.node[n].type = "start" => c = Top
          /\ g.node[n].type = "inner-start" => c # Top /\ new[c] = n
      BY <3>1, <3>2, <1>1 DEF Keyed, SameNode, IsStart
    <3>4. ASSUME c \in DOMAIN g.node
          PROVE  /\ g.node[c].start = new[c] /\ new[c] < limit
                 /\ new[c] \in DOMAIN g.node => g.node[new[c]].type = "inner-start"
      <4>1. /\ c \in D
            /\ \/ g.node[c].start = canvas.node[c].start
               \/ /\ canvas.node[c].start \in D
                  /\ canvas.node[canvas.node[c].start].type # "inner-start"
        BY <3>2, <3>4, <1>2 DEF Evolved
      <4>2. /\ canvas.node[c].start = key[c] /\ key[c] < nextId /\ key[c] \in Nat
            /\ key[c] \in D => canvas.node[key[c]].type = "inner-start"
        BY <3>1, <3>2, <4>1, <1>1 DEF Keyed
      <4>3. g.node[c].start = new[c] /\ new[c] < limit
        BY <3>2, <4>1, <4>2, <1>2
      <4>4. ASSUME new[c] \in DOMAIN g.node PROVE g.node[new[c]].type = "inner-start"
        <5>1. new[c] \in D /\ SameNode(g.node[new[c]], canvas.node[new[c]])
          BY <3>2, <4>2, <4>4, <1>2 DEF Evolved
        <5> QED
          BY <5>1, <3>2, <4>2 DEF SameNode
      <4> QED
        BY <4>3, <4>4
    <3> QED
      BY <3>2, <3>3, <3>4
  <2>2. CASE /\ n = nextId + 1 /\ nextId \in DOMAIN g.node /\ g.node[nextId].start = n
             /\ g.node[n].type = "inner-start" /\ c = nextId
    <3>1. c < limit /\ n < limit /\ new[c] = n /\ c # Top
      BY <2>2, <1>2, <1>4 DEF Top
    <3> QED
      BY <2>2, <3>1
  <2> QED
    BY <2>1, <2>2 DEF Evolved, SameNode
<1>6. ASSUME NEW e \in g.edges
      PROVE  /\ ~ IsStart(g, e.target)
             /\ new[g.node[e.source].parent] = new[g.node[e.target].parent]
  <2>1. CASE e \in canvas.edges
    <3>1. e.source \in D /\ e.target \in D /\ e.source \in DOMAIN g.node /\ e.target \in DOMAIN g.node
      BY <2>1, <1>2 DEF EdgesJoin
    <3>2. /\ SameNode(g.node[e.source], canvas.node[e.source])
          /\ SameNode(g.node[e.target], canvas.node[e.target])
      BY <3>1, <1>2 DEF Evolved
    <3>3. /\ ~ IsStart(canvas, e.target)
          /\ key[canvas.node[e.source].parent] = key[canvas.node[e.target].parent]
      BY <2>1, <1>1 DEF Keyed
    <3> QED
      BY <3>1, <3>2, <3>3, <1>3, <1>4 DEF SameNode, IsStart
  <2>2. CASE e \notin canvas.edges
    <3>1. PICK u \in D, v \in D :
            /\ g.node[e.source].parent = canvas.node[u].parent
            /\ g.node[e.target].parent = canvas.node[v].parent
            /\ u = v \/ \E d \in canvas.edges : u = d.source /\ v = d.target
      BY <2>2 DEF NewEdgesFit
    <3>2. key[canvas.node[u].parent] = key[canvas.node[v].parent]
      BY <3>1, <1>1 DEF Keyed
    <3> QED
      BY <2>2, <3>1, <3>2, <1>3, <1>4 DEF NewEdgesFit
  <2> QED
    BY <2>1, <2>2
<1>7. Keyed(g, new, limit)
  BY <1>4, <1>5, <1>6 DEF Keyed
<1> QED
  BY <1>7 DEF InPlace

(* The other states are states of before, and ids only grow.               *)
LEMMA FreeKept ==
  ASSUME CanvasInv, FreeInv, \A g \in States' : g \in States \/ g = canvas',
         nextId' \in Nat, nextId' >= nextId, dropped => dropped',
         InPlace(canvas', nextId'), dropped' \/ Acyclic(canvas')
  PROVE  FreeInv'
<1>1. ASSUME NEW g \in States PROVE InPlace(g, nextId')
  <2>1. PICK key : Keyed(g, key, nextId)
    BY DEF FreeInv, InPlace
  <2>2. nextId \in Nat /\ \A n \in DOMAIN g.node : g.node[n].parent \in Nat
    BY BoundsAssumption DEF CanvasInv, CountsInv, Sound, IsGraph, Nodes, Ids, Top
  <2>3. \A c \in Nat : key[c] \in Nat
    BY <2>1 DEF Keyed
  <2>4. \A k \in Nat : k < nextId => k < nextId'
    BY <2>2
  <2>5. Keyed(g, key, nextId')
    BY <2>1, <2>2, <2>3, <2>4 DEF Keyed
  <2> QED
    BY <2>5 DEF InPlace
<1>2. ASSUME NEW g \in States' PROVE InPlace(g, nextId') /\ (dropped' \/ Acyclic(g))
  BY <1>1, <1>2 DEF FreeInv
<1> QED
  BY <1>2 DEF FreeInv

LEMMA EditFrees ==
  ASSUME CanvasInv, FreeInv, CanvasInv', NEW g, Edit(g), nextId' >= nextId,
         Evolved(g), NewEdgesFit(g), dropped => dropped',
         IsGraph(g) /\ EdgesJoin(g) => dropped' \/ Acyclic(g)
  PROVE  FreeInv'
<1>1. canvas' = g /\ \A h \in States' : h \in States \/ h = canvas'
  BY DEF Edit, States
<1>2. /\ IsGraph(g) /\ EdgesJoin(g) /\ nextId' \in Nat
      /\ \A n \in DOMAIN g.node : n < nextId'
  <2>1. canvas' \in States'
    BY DEF States
  <2>2. Sound(canvas)'
    BY <2>1 DEF CanvasInv
  <2>3. IsGraph(canvas') /\ EdgesJoin(canvas') /\ \A n \in DOMAIN canvas'.node : n < nextId'
    BY <2>2 DEF Sound, IdsUsed
  <2> QED
    BY <2>3, <1>1 DEF CanvasInv, CountsInv
<1>3. InPlace(g, nextId')
  <2>1. InPlace(canvas, nextId)
    BY CanvasIsSound DEF FreeInv
  <2> QED
    BY <2>1, <1>2, EditInPlace
<1> QED
  BY <1>1, <1>2, <1>3, FreeKept

(* An edit whose new edges lead into a closed set of the canvas.           *)
LEMMA LinkFrees ==
  ASSUME CanvasInv, FreeInv, CanvasInv', NEW g, Edit(g), nextId' >= nextId,
         Evolved(g), NewEdgesFit(g), dropped => dropped',
         NEW T, Closed(canvas, T),
         \A e \in g.edges : e \in canvas.edges \/ (e.source \notin T /\ e.target \in T)
  PROVE  FreeInv'
<1>1. IsGraph(canvas) /\ EdgesJoin(canvas) /\ (dropped \/ Acyclic(canvas))
  BY CanvasIsSound DEF Sound, FreeInv
<1>2. ASSUME IsGraph(g), EdgesJoin(g), Acyclic(canvas) PROVE Acyclic(g)
  BY <1>1, <1>2, LinksCloseNoCycle
<1> QED
  BY <1>1, <1>2, EditFrees

(* Deletions: the canvas loses nodes and edges.                            *)
LEMMA PartFrees ==
  ASSUME CanvasInv, FreeInv, CanvasInv', NEW g, Edit(g), nextId' = nextId, dropped => dropped',
         PartOfCanvas(g)
  PROVE  FreeInv'
<1>1. g.edges \subseteq canvas.edges
  BY DEF PartOfCanvas
<1>2. \A n \in DOMAIN g.node : n \in DOMAIN canvas.node /\ g.node[n] = canvas.node[n]
  BY DEF PartOfCanvas
<1>3. Evolved(g)
  BY <1>2 DEF Evolved, SameNode
<1>4. NewEdgesFit(g)
  BY <1>1 DEF NewEdgesFit
<1>5. nextId' >= nextId
  BY CanvasIsSound
<1>6. Closed(canvas, {})
  BY DEF Closed
<1> QED
  BY <1>1, <1>3, <1>4, <1>5, <1>6, LinkFrees

LEMMA Parts ==
  ASSUME CanvasInv
  PROVE  /\ \A E : PartOfCanvas(WithoutEdges(canvas, E))
         /\ \A g, S : g = canvas \/ PartOfCanvas(g) => PartOfCanvas(Without(g, S))
<1>1. canvas.node = [n \in DOMAIN canvas.node |-> canvas.node[n]]
  BY CanvasIsSound DEF Sound, IsGraph
<1>2. ASSUME NEW E PROVE PartOfCanvas(WithoutEdges(canvas, E))
  BY <1>1 DEF WithoutEdges, PartOfCanvas
<1>3. ASSUME NEW g, NEW S, g = canvas \/ PartOfCanvas(g) PROVE PartOfCanvas(Without(g, S))
  <2>1. /\ DOMAIN g.node \subseteq DOMAIN canvas.node /\ g.edges \subseteq canvas.edges
        /\ \A n \in DOMAIN g.node : g.node[n] = canvas.node[n]
    BY <1>3 DEF PartOfCanvas
  <2>2. [n \in DOMAIN g.node \ S |-> g.node[n]] = [n \in DOMAIN g.node \ S |-> canvas.node[n]]
    BY <2>1
  <2> DEFINE h == Without(g, S)
  <2>3. /\ h = [node |-> [n \in DOMAIN g.node \ S |-> canvas.node[n]],
                edges |-> g.edges \ Connected(g, S)]
        /\ h.edges = g.edges \ Connected(g, S) /\ DOMAIN h.node = DOMAIN g.node \ S
    BY <2>2 DEF Without
  <2> HIDE DEF h
  <2>4. PartOfCanvas(h)
    BY <2>1, <2>3 DEF PartOfCanvas
  <2> QED
    BY <2>4 DEF h
<1> QED
  BY <1>2, <1>3

LEMMA DeletionsFree ==
  ASSUME CanvasInv, FreeInv, CanvasInv',
         \/ \E n : Disconnect(n) \/ \E h : DeleteBranch(n, h)
         \/ \E e : DeleteEdge(e)
         \/ \E S : DeleteBundle(S)
         \/ Confirm
  PROVE  FreeInv'
<1>1. \E g : Edit(g) /\ PartOfCanvas(g) /\ nextId' = nextId /\ dropped' = dropped
  <2>1. CASE \/ \E n : Disconnect(n) \/ \E h : DeleteBranch(n, h)
             \/ \E e : DeleteEdge(e)
    <3>1. \E E : Edit(WithoutEdges(canvas, E)) /\ nextId' = nextId /\ dropped' = dropped
      BY <2>1 DEF Disconnect, DeleteBranch, DeleteEdge, MouseEdit
    <3> QED
      BY <3>1, Parts
  <2>2. CASE \E S : DeleteBundle(S)
    <3>1. \E S : Edit(Without(canvas, S)) /\ nextId' = nextId /\ dropped' = dropped
      BY <2>2 DEF DeleteBundle
    <3> QED
      BY <3>1, Parts
  <2>3. CASE Confirm
    <3> DEFINE c == showConfirm.container
               g == Without(canvas, showConfirm.children)
               rest == Children(g, c)
               S == {c} \cup IF Cardinality(rest) = 1 THEN rest ELSE {}
    <3>1. Edit(IF c \notin DOMAIN g.node THEN g ELSE Without(g, S)) /\ nextId' = nextId /\ dropped' = dropped
      BY <2>3 DEF Confirm
    <3>2. PartOfCanvas(g)
      BY Parts
    <3> HIDE DEF g, S
    <3>3. PartOfCanvas(Without(g, S))
      BY <3>2, Parts
    <3> QED
      BY <3>1, <3>2, <3>3
  <2> QED
    BY <2>1, <2>2, <2>3
<1> QED
  BY <1>1, PartFrees

(* The history and the canvas are as they were.                            *)
LEMMA FreeStays ==
  ASSUME FreeInv, \A g \in States' : g \in States, nextId' = nextId, dropped' = dropped
  PROVE  FreeInv'
BY DEF FreeInv

LEMMA DeleteNodeFrees ==
  ASSUME CanvasInv, FreeInv, CanvasInv', NEW n, DeleteNode(n)
  PROVE  FreeInv'
<1>1. CASE UNCHANGED <<canvas, present, past, future>>
  <2>1. States' = States /\ nextId' = nextId /\ dropped' = dropped
    BY <1>1 DEF States, DeleteNode
  <2> QED
    BY <2>1, FreeStays
<1>2. CASE \E S : Edit(Without(canvas, S))
  <2>1. PICK S : Edit(Without(canvas, S))
    BY <1>2
  <2>2. PartOfCanvas(Without(canvas, S)) /\ nextId' = nextId /\ dropped' = dropped
    BY Parts DEF DeleteNode
  <2> QED
    BY <2>1, <2>2, PartFrees
<1> QED
  BY <1>1, <1>2 DEF DeleteNode

(* What is asked for leads into the set of what its target leads to, and   *)
(* its source is not there: what is not asked for is, or dropped is set.   *)
LEMMA ConnectFrees ==
  ASSUME CanvasInv, FreeInv, CanvasInv', NEW s \in DOMAIN canvas.node,
         NEW t \in DOMAIN canvas.node, Connect(s, t) \/ ConnectEnd(s, t)
  PROVE  FreeInv'
<1>1. PICK h \in Handles(canvas.node[s].type) : ConnectTo(s, h, t)
  BY DEF Connect, ConnectEnd
<1> DEFINE g == WithEdges(canvas, {Edge(s, h, t)})
           R == ReachedFrom(canvas, Successors(canvas, {t}))
<1>2. /\ Edit(g) /\ nextId' = nextId /\ canvas.node[t].parent = canvas.node[s].parent
      /\ s # t
  BY <1>1 DEF ConnectTo
<1>3. ~ IsStart(canvas, t)
  BY DEF Connect, ConnectEnd, IsValidConnection, IsStart
<1>4. /\ g.node = canvas.node /\ g.edges = canvas.edges \cup {Edge(s, h, t)}
      /\ Edge(s, h, t).source = s /\ Edge(s, h, t).target = t
  BY DEF WithEdges, Edge
<1>5. (dropped => dropped') /\ (dropped' \/ dropped \/ s \notin R)
  <2>1. CASE Connect(s, t)
    BY <2>1 DEF Connect, IsValidConnection, HasCycle
  <2>2. CASE ConnectEnd(s, t)
    <3>1. dropped' = (dropped \/ HasCycle(s, t))
      BY <2>2 DEF ConnectEnd
    <3>2. CASE HasCycle(s, t)
      BY <3>1, <3>2
    <3>3. CASE ~ HasCycle(s, t)
      BY <3>1, <3>3 DEF HasCycle
    <3> QED
      BY <3>2, <3>3
  <2> QED
    BY <2>1, <2>2
<1> HIDE DEF g
<1>6. Evolved(g)
  BY <1>4 DEF Evolved, SameNode
<1>7. /\ nextId \in Nat /\ s # nextId + 1 /\ IsGraph(canvas) /\ EdgesJoin(canvas)
      /\ nextId' >= nextId
  BY <1>2, CanvasIsSound DEF Sound, IdsUsed
<1>8. NewEdgesFit(g)
  BY <1>2, <1>3, <1>4, <1>7 DEF NewEdgesFit, IsStart
<1>9. CASE dropped'
  BY <1>2, <1>5, <1>6, <1>7, <1>8, <1>9, EditFrees
<1>10. CASE s \notin R /\ ~ dropped /\ ~ dropped'
  <2> DEFINE T == R \cup {t}
  <2>1. Successors(canvas, {t}) \in SUBSET DOMAIN canvas.node
    BY <1>7 DEF Successors, EdgesJoin
  <2>2. Closed(canvas, R) /\ Successors(canvas, {t}) \subseteq R
    BY <2>1, <1>7, Reached
  <2>3. Closed(canvas, T)
    BY <2>2 DEF Closed, Successors
  <2>4. \A e \in g.edges : e \in canvas.edges \/ (e.source \notin T /\ e.target \in T)
    BY <1>2, <1>4, <1>10
  <2> HIDE DEF T, R
  <2> QED
    BY <2>3, <2>4, <1>2, <1>6, <1>7, <1>8, <1>10, LinkFrees
<1> QED
  BY <1>5, <1>9, <1>10

(* The edits that make a node in the level of another one.                 *)
LEMMA GrownEvolves ==
  ASSUME CanvasInv, NEW base, NEW g, NEW type \in NewTypes, NEW p \in DOMAIN canvas.node,
         Grown(base, g, type, canvas.node[p].parent),
         DOMAIN base.node \subseteq DOMAIN canvas.node,
         \A n \in DOMAIN base.node : base.node[n] = canvas.node[n],
         \A n \in DOMAIN base.node :
           LET s == canvas.node[n].start
           IN \/ g.node[n].start = s
              \/ s \in DOMAIN canvas.node /\ canvas.node[s].type # "inner-start"
  PROVE  /\ Evolved(g) /\ nextId \in DOMAIN g.node /\ ~ IsStart(g, nextId)
         /\ g.node[nextId].parent = canvas.node[p].parent
         /\ \A n \in DOMAIN base.node : SameNode(g.node[n], canvas.node[n])
<1>1. nextId \in Nat
  BY CanvasIsSound
<1>2. /\ DOMAIN g.node = DOMAIN base.node \cup Fresh(type) /\ nextId \in Fresh(type)
      /\ \A i \in Fresh(type) : i = nextId \/ (i = nextId + 1 /\ type \in Containers)
  BY <1>1, FreshIds DEF Grown
<1>3. ~ IsStart(g, nextId) /\ g.node[nextId].parent = canvas.node[p].parent
  BY BoundsAssumption DEF Grown, IsStart
<1>4. type \in Containers => /\ g.node[nextId].start = nextId + 1
                             /\ g.node[nextId + 1].type = "inner-start"
                             /\ g.node[nextId + 1].parent = nextId
  BY DEF Grown
<1>5. \A n \in DOMAIN base.node : SameNode(g.node[n], canvas.node[n])
  BY DEF Grown, SameNode
<1>6. Evolved(g)
  <2>1. ASSUME NEW n \in DOMAIN base.node
        PROVE  /\ n \in DOMAIN canvas.node /\ SameNode(g.node[n], canvas.node[n])
               /\ LET s == canvas.node[n].start
                  IN \/ g.node[n].start = s
                     \/ s \in DOMAIN canvas.node /\ canvas.node[s].type # "inner-start"
    BY <1>5
  <2> QED
    BY <2>1, <1>2, <1>3, <1>4 DEF Evolved
<1> QED
  BY <1>2, <1>3, <1>5, <1>6

LEMMA ClockGrows ==
  ASSUME CanvasInv, NEW type, nextId' = nextId + Cardinality(Fresh(type))
  PROVE  nextId \in Nat /\ nextId' >= nextId
<1>1. nextId \in Nat
  BY CanvasIsSound
<1>2. Cardinality(Fresh(type)) \in Nat
  BY <1>1, FreshIds
<1> QED
  BY <1>1, <1>2

LEMMA AddAfterFrees ==
  ASSUME CanvasInv, FreeInv, CanvasInv', NEW prev \in DOMAIN canvas.node, NEW type,
         AddAfter(prev, type)
  PROVE  FreeInv'
<1> DEFINE parent == canvas.node[prev].parent
<1>1. PICK h \in Handles(canvas.node[prev].type) :
        LET g == WithEdges(WithNew(canvas, type, parent), {Edge(prev, h, nextId)})
        IN /\ type \in Offered(parent)
           /\ MouseEdit(g)
           /\ nextId' = nextId + Cardinality(Fresh(type))
  BY DEF AddAfter
<1> DEFINE E == {Edge(prev, h, nextId)}
           g == WithEdges(WithNew(canvas, type, parent), E)
<1>2. Edit(g) /\ type \in NewTypes /\ dropped' = dropped
  BY <1>1 DEF MouseEdit, Offered
<1>3. /\ Grown(canvas, g, type, parent) /\ g.edges = canvas.edges \cup E
      /\ \A n \in DOMAIN canvas.node : g.node[n] = canvas.node[n]
  BY CanvasIsSound, NewIsGrown
<1> HIDE DEF g
<1>4. /\ Evolved(g) /\ nextId \in DOMAIN g.node /\ ~ IsStart(g, nextId)
      /\ g.node[nextId].parent = parent
  BY <1>2, <1>3, GrownEvolves
<1>5. nextId' >= nextId /\ nextId \in Nat /\ prev # nextId + 1
  BY <1>1, ClockGrows, CanvasIsSound DEF Sound, IdsUsed
<1>6. \A e \in g.edges \ canvas.edges : e.source = prev /\ e.target = nextId
  BY <1>3 DEF Edge
<1>7. NewEdgesFit(g)
  BY <1>3, <1>4, <1>5, <1>6 DEF NewEdgesFit
<1>8. Closed(canvas, {nextId}) /\ prev # nextId
  <2>1. nextId \notin DOMAIN canvas.node /\ EdgesJoin(canvas)
    BY CanvasIsSound DEF Sound, IdsUsed
  <2> QED
    BY <2>1 DEF Closed, EdgesJoin
<1>9. \A e \in g.edges : e \in canvas.edges \/ (e.source \notin {nextId} /\ e.target \in {nextId})
  BY <1>6, <1>8
<1> QED
  BY <1>2, <1>4, <1>5, <1>7, <1>8, <1>9, LinkFrees

LEMMA ChangeFrees ==
  ASSUME CanvasInv, FreeInv, CanvasInv', NEW n \in DOMAIN canvas.node, NEW type,
         Change(n, type)
  PROVE  FreeInv'
<1> DEFINE parent == canvas.node[n].parent
           base == Without(canvas, {n})
           g == WithNew(base, type, parent)
<1>1. /\ Edit(g) /\ type \in NewTypes /\ nextId' = nextId + Cardinality(Fresh(type))
      /\ dropped' = dropped
  BY DEF Change, MouseEdit, Offered
<1>2. Sound(base)
  BY LessNodes DEF Change
<1>3. /\ DOMAIN base.node \subseteq DOMAIN canvas.node /\ base.edges \subseteq canvas.edges
      /\ \A m \in DOMAIN base.node : base.node[m] = canvas.node[m]
  BY DEF Without
<1>4. g = WithEdges(g, {}) /\ g.edges = base.edges
  BY DEF WithNew, WithEdges
<1> HIDE DEF base
<1>5. /\ Grown(base, g, type, parent)
      /\ \A m \in DOMAIN base.node : g.node[m] = base.node[m]
  BY <1>2, <1>3, <1>4, NewIsGrown
<1> HIDE DEF g
<1>6. Evolved(g)
  BY <1>1, <1>3, <1>5, GrownEvolves
<1>7. NewEdgesFit(g) /\ g.edges \ canvas.edges = {}
  BY <1>3, <1>4 DEF NewEdgesFit
<1>8. nextId' >= nextId
  BY <1>1, ClockGrows
<1>9. Closed(canvas, {}) /\ \A e \in g.edges : e \in canvas.edges
  BY <1>7 DEF Closed
<1> QED
  BY <1>1, <1>6, <1>7, <1>8, <1>9, LinkFrees

LEMMA AddBeforeFrees ==
  ASSUME CanvasInv, FreeInv, CanvasInv', NEW next \in DOMAIN canvas.node, NEW type,
         AddBefore(next, type)
  PROVE  FreeInv'
<1> DEFINE parent == canvas.node[next].parent
           new == WithNew(canvas, type, parent)
           added == EdgeFromNew(type, next)
           g == [node |-> [n \in DOMAIN new.node |->
                             IF IsContainer(new, n) /\ new.node[n].start = next
                             THEN [new.node[n] EXCEPT !.start = nextId]
                             ELSE new.node[n]],
                 edges |-> canvas.edges \cup added]
<1>1. /\ Edit(g) /\ type \in NewTypes /\ nextId' = nextId + Cardinality(Fresh(type))
      /\ dropped' = dropped /\ ~ IsStart(canvas, next)
  BY DEF AddBefore, MouseEdit, Offered, IsStart
<1>2. /\ Grown(canvas, new, type, parent)
      /\ \A n \in DOMAIN canvas.node : new.node[n] = canvas.node[n]
  <2>1. new = WithEdges(new, {})
    BY DEF WithNew, WithEdges
  <2> QED
    BY <2>1, CanvasIsSound, NewIsGrown
<1>3. /\ Evolved(new) /\ nextId \in DOMAIN new.node /\ ~ IsStart(new, nextId)
      /\ new.node[nextId].parent = parent
      /\ \A n \in DOMAIN canvas.node : SameNode(new.node[n], canvas.node[n])
  BY <1>1, <1>2, GrownEvolves
<1>4. /\ DOMAIN g.node = DOMAIN new.node
      /\ \A n \in DOMAIN new.node :
           g.node[n] = IF IsContainer(new, n) /\ new.node[n].start = next
                       THEN [new.node[n] EXCEPT !.start = nextId] ELSE new.node[n]
      /\ g.edges = canvas.edges \cup added
  OBVIOUS
<1> HIDE DEF g, new
<1>5. nextId' >= nextId /\ nextId \in Nat /\ \A n \in DOMAIN canvas.node : n \in Nat /\ n < nextId
  BY <1>1, ClockGrows, CanvasIsSound DEF Sound, IdsUsed
(* Only the start of a container may change, and not if it is the new one. *)
<1>6. ASSUME NEW n \in DOMAIN new.node
      PROVE  /\ g.node[n].type = new.node[n].type /\ g.node[n].parent = new.node[n].parent
             /\ g.node[n].start = new.node[n].start \/ new.node[n].start = next
  <2>1. new.node[n] \in Nodes
    <3>1. n \in DOMAIN canvas.node => canvas.node[n] \in Nodes
      BY CanvasIsSound DEF Sound, IsGraph
    <3>2. canvas' = g
      BY <1>1 DEF Edit
    <3>3. IsGraph(canvas')
      BY DEF CanvasInv, Sound, States
    <3>4. nextId \in Ids /\ (type \in Containers => nextId + 1 \in Ids)
      BY <3>2, <3>3, <1>2, <1>4, <1>5, FreshIds DEF IsGraph, Grown
    <3>5. parent \in Ids \cup {Top} /\ type \in Types
      BY CanvasIsSound, BoundsAssumption, <1>1 DEF Sound, IsGraph, Nodes
    <3>6. n \in DOMAIN canvas.node \/ n = nextId \/ (n = nextId + 1 /\ type \in Containers)
      BY <1>2, <1>5, FreshIds DEF Grown
    <3> HIDE DEF parent
    <3>7. n = nextId => new.node[n] \in Nodes
      BY <3>4, <3>5, <1>2 DEF Grown, Nodes
    <3>8. n = nextId + 1 /\ type \in Containers => new.node[n] \in Nodes
      BY <3>4, <1>2 DEF Grown, Nodes, Types
    <3> QED
      BY <3>1, <3>6, <3>7, <3>8, <1>2
  <2> QED
    BY <2>1, <1>4 DEF Nodes
<1>7. Evolved(g)
  <2>1. ASSUME NEW n \in DOMAIN canvas.node
        PROVE  /\ n \in DOMAIN new.node /\ SameNode(g.node[n], canvas.node[n])
               /\ LET s == canvas.node[n].start
                  IN \/ g.node[n].start = s
                     \/ s \in DOMAIN canvas.node /\ canvas.node[s].type # "inner-start"
    BY <1>1, <1>2, <1>6 DEF Grown, SameNode, IsStart
  <2>2. /\ nextId \notin DOMAIN canvas.node /\ nextId + 1 \notin DOMAIN canvas.node
        /\ nextId + 1 # nextId
    BY <1>5
  <2>3. ASSUME nextId + 1 \in DOMAIN g.node
        PROVE  /\ g.node[nextId].start = nextId + 1
               /\ g.node[nextId + 1].type = "inner-start" /\ g.node[nextId + 1].parent = nextId
    <3>1. /\ new.node[nextId].start = nextId + 1
          /\ new.node[nextId + 1].type = "inner-start" /\ new.node[nextId + 1].parent = nextId
      BY <2>2, <2>3, <1>3, <1>4 DEF Evolved
    <3> QED
      BY <2>2, <2>3, <3>1, <1>3, <1>4, <1>6
  <2>4. \A n \in DOMAIN g.node : n \in DOMAIN canvas.node \/ n = nextId \/ n = nextId + 1
    BY <1>3, <1>4 DEF Evolved
  <2>5. ~ IsStart(g, nextId) /\ g.node[nextId].parent = parent
    BY <1>3, <1>6 DEF IsStart
  <2> QED
    BY <2>1, <2>3, <2>4, <2>5, <1>3, <1>4 DEF Evolved
<1>8. \A e \in g.edges \ canvas.edges : e.source = nextId /\ e.target = next /\ added # {}
  BY <1>4 DEF EdgeFromNew, Edge
<1>9. /\ g.node[nextId].parent = parent
      /\ next \in DOMAIN new.node /\ g.node[next].parent = parent /\ ~ IsStart(g, next)
  BY <1>1, <1>2, <1>3, <1>6 DEF Grown, SameNode, IsStart
<1>10. NewEdgesFit(g)
  BY <1>5, <1>8, <1>9 DEF NewEdgesFit
<1>11. /\ Closed(canvas, DOMAIN canvas.node)
       /\ \A e \in g.edges : \/ e \in canvas.edges
                             \/ e.source \notin DOMAIN canvas.node /\ e.target \in DOMAIN canvas.node
  <2>1. EdgesJoin(canvas) /\ nextId \notin DOMAIN canvas.node
    BY CanvasIsSound, <1>5 DEF Sound
  <2> QED
    BY <2>1, <1>8 DEF Closed, EdgesJoin
<1> HIDE DEF parent, added
<1> QED
  BY <1>1, <1>5, <1>7, <1>10, <1>11, LinkFrees

(* The edge to the new node and the one from it are added one by one.      *)
LEMMA InsertFrees ==
  ASSUME CanvasInv, FreeInv, CanvasInv', NEW e \in canvas.edges, NEW type,
         InsertBetween(e, type)
  PROVE  FreeInv'
<1> DEFINE parent == canvas.node[e.source].parent
           E == {Edge(e.source, e.handle, nextId)} \cup EdgeFromNew(type, e.target)
<1>1. PICK gone \in canvas.edges :
        /\ type \in Offered(parent)
        /\ MouseEdit(WithEdges(WithNew(WithoutEdges(canvas, {gone}), type, parent), E))
        /\ nextId' = nextId + Cardinality(Fresh(type))
  BY DEF InsertBetween
<1> DEFINE base == WithoutEdges(canvas, {gone})
           g == WithEdges(WithNew(base, type, parent), E)
<1>2. Edit(g) /\ type \in NewTypes /\ dropped' = dropped
  BY <1>1 DEF MouseEdit, Offered
<1>3. Sound(base)
  BY LessEdges
<1>4. base.node = canvas.node /\ base.edges \subseteq canvas.edges
  BY DEF WithoutEdges
<1>5. /\ nextId \in Nat /\ IsGraph(canvas) /\ EdgesJoin(canvas) /\ (dropped \/ Acyclic(canvas))
      /\ \A n \in DOMAIN canvas.node : n \in Nat /\ n < nextId
      /\ InPlace(canvas, nextId)
  BY CanvasIsSound DEF Sound, IdsUsed, FreeInv
<1>6. e.source \in DOMAIN canvas.node /\ e.target \in DOMAIN canvas.node
  BY <1>5 DEF EdgesJoin
<1> HIDE DEF base
<1>7. /\ Grown(base, g, type, parent) /\ g.edges = base.edges \cup E
      /\ \A n \in DOMAIN base.node : g.node[n] = base.node[n]
  BY <1>3, <1>4, NewIsGrown
<1> HIDE DEF g
<1>8. /\ Evolved(g) /\ nextId \in DOMAIN g.node /\ ~ IsStart(g, nextId)
      /\ g.node[nextId].parent = parent
      /\ \A n \in DOMAIN canvas.node : n \in DOMAIN g.node /\ g.node[n] = canvas.node[n]
  <2>1. \A n \in DOMAIN canvas.node : n \in DOMAIN g.node /\ g.node[n] = canvas.node[n]
    BY <1>4, <1>7 DEF Grown
  <2>2. /\ Grown(base, g, type, canvas.node[e.source].parent)
        /\ \A n \in DOMAIN base.node : base.node[n] = canvas.node[n]
        /\ DOMAIN base.node \subseteq DOMAIN canvas.node
        /\ \A n \in DOMAIN base.node :
             LET s == canvas.node[n].start
             IN \/ g.node[n].start = s
                \/ s \in DOMAIN canvas.node /\ canvas.node[s].type # "inner-start"
    BY <1>4, <1>7, <2>1
  <2>3. PICK p \in DOMAIN canvas.node : p = e.source
    BY <1>6
  <2>4. Grown(base, g, type, canvas.node[p].parent)
    BY <2>2, <2>3
  <2>5. /\ \A n \in DOMAIN base.node : base.node[n] = canvas.node[n]
        /\ DOMAIN base.node \subseteq DOMAIN canvas.node /\ type \in NewTypes
    BY <2>2, <1>2
  <2>6. \A n \in DOMAIN base.node :
          LET s == canvas.node[n].start
          IN \/ g.node[n].start = s
             \/ s \in DOMAIN canvas.node /\ canvas.node[s].type # "inner-start"
    BY <2>2
  <2>7. /\ Evolved(g) /\ nextId \in DOMAIN g.node /\ ~ IsStart(g, nextId)
        /\ g.node[nextId].parent = canvas.node[p].parent
    BY <2>4, <2>5, <2>6, GrownEvolves
  <2> QED
    BY <2>1, <2>3, <2>7
<1>9. nextId' >= nextId
  BY <1>1, ClockGrows
<1>10. \A d \in g.edges : \/ d \in canvas.edges
                          \/ d.source = e.source /\ d.target = nextId
                          \/ d.source = nextId /\ d.target = e.target
  BY <1>4, <1>7 DEF EdgeFromNew, Edge
<1>11. ~ IsStart(g, e.target)
  <2>1. ~ IsStart(canvas, e.target)
    BY <1>5 DEF InPlace, Keyed
  <2> QED
    BY <2>1, <1>6, <1>8 DEF IsStart
<1>12. NewEdgesFit(g)
  <2>1. ASSUME NEW d \in g.edges \ canvas.edges
        PROVE  /\ ~ IsStart(g, d.target) /\ d.source # nextId + 1
               /\ \E u, v \in DOMAIN canvas.node :
                    /\ g.node[d.source].parent = canvas.node[u].parent
                    /\ g.node[d.target].parent = canvas.node[v].parent
                    /\ u = v \/ \E b \in canvas.edges : u = b.source /\ v = b.target
    <3>1. CASE d.source = e.source /\ d.target = nextId
      BY <3>1, <1>5, <1>6, <1>8
    <3>2. CASE d.source = nextId /\ d.target = e.target
      BY <3>2, <1>5, <1>6, <1>8, <1>11
    <3> QED
      BY <2>1, <3>1, <3>2, <1>10
  <2> QED
    BY <2>1 DEF NewEdgesFit
<1>13. ASSUME IsGraph(g), EdgesJoin(g), Acyclic(canvas) PROVE Acyclic(g)
  <2>1. Apart(canvas, e)
    BY <1>5, <1>13, NoCycleIsApart DEF Acyclic
  <2>2. PICK W \in SUBSET DOMAIN canvas.node :
          Closed(canvas, W) /\ e.target \in W /\ e.source \notin W
    BY <2>1 DEF Apart
  <2> DEFINE h == [node |-> g.node, edges |-> {d \in g.edges : d.target # nextId}]
             T == W \cup {nextId}
  <2>3. /\ h.node = g.node /\ h.edges = {d \in g.edges : d.target # nextId}
        /\ IsGraph(h) /\ EdgesJoin(h)
    BY <1>13 DEF IsGraph, EdgesJoin
  <2>4. nextId \notin DOMAIN canvas.node /\ nextId # e.target /\ nextId # e.source
    BY <1>5, <1>6
  <2> HIDE DEF h
  <2>5. Acyclic(h)
    <3>1. \A d \in h.edges : d \in canvas.edges \/ (d.source \notin W /\ d.target \in W)
      BY <2>2, <2>3, <2>4, <1>10
    <3> QED
      BY <3>1, <2>2, <2>3, <1>5, <1>13, LinksCloseNoCycle
  <2>6. Closed(h, T)
    <3>1. ASSUME NEW d \in h.edges, d.source \in T PROVE d.target \in T
      <4>1. CASE d \in canvas.edges
        BY <4>1, <3>1, <2>2, <2>4, <1>5 DEF Closed, EdgesJoin
      <4>2. CASE d \notin canvas.edges
        BY <4>2, <2>2, <2>3, <1>10
      <4> QED
        BY <4>1, <4>2
    <3> QED
      BY <3>1 DEF Closed
  <2>7. \A d \in g.edges : d \in h.edges \/ (d.source \notin T /\ d.target \in T)
    <3>1. ASSUME NEW d \in g.edges, d.target = nextId PROVE d.source = e.source
      BY <3>1, <2>4, <1>5, <1>10 DEF EdgesJoin
    <3> QED
      BY <3>1, <2>2, <2>3, <2>4
  <2> HIDE DEF T
  <2> QED
    BY <2>3, <2>5, <2>6, <2>7, <1>13, LinksCloseNoCycle
<1> HIDE DEF E, parent
<1> QED
  BY <1>2, <1>5, <1>8, <1>9, <1>12, <1>13, EditFrees

-----------------------------------------------------------------------------
(* What a paste adds to the canvas.                                        *)
PasteAdds(g, together) ==
  /\ DOMAIN g.node = DOMAIN canvas.node \cup PastedIds(together)
  /\ \A i \in DOMAIN canvas.node : g.node[i] = canvas.node[i]
  /\ \A i \in PastedIds(together) :
       /\ i \in Nat /\ i >= nextId /\ i \notin DOMAIN canvas.node
       /\ \/ \E c \in DOMAIN clipboard : i = CopyId(c, c)
          \/ \E c \in CopiedContainers : \E n \in InnerNodes(c) : n # c /\ i = CopyId(c, n)
          \/ \E c \in CopiedContainers : i = StartId(c, together)
  /\ \A p \in Copies : /\ CopyId(p[1], p[2]) \in PastedIds(together)
                       /\ g.node[CopyId(p[1], p[2])] = CopyNode(p[1], p[2], together)
  /\ \A c \in CopiedContainers :
       /\ StartId(c, together) \in PastedIds(together)
       /\ \E d \in CopiedContainers :
            /\ g.node[StartId(c, together)] = PastedStart(d)
            /\ StartId(d, together) = StartId(c, together)
  /\ \A e \in g.edges \ canvas.edges : \E d \in canvas.edges :
       /\ d.source \in InIteration /\ d.target \in InIteration
       /\ e.source = IdMapping(d.source, together)
       /\ e.target = IdMapping(d.target, together)

LEMMA PasteMakes ==
  ASSUME CanvasInv, NEW together \in BOOLEAN PROVE PasteAdds(Pasted(together), together)
<1> DEFINE g == Pasted(together)
<1>1. /\ DOMAIN canvas.node \subseteq Nat /\ nextId \in Nat
      /\ \A n \in DOMAIN canvas.node : n < nextId
  BY CanvasIsSound DEF Sound, IdsUsed
<1>2. PasteNumbers(together)
  BY PasteIds
<1>3. /\ DOMAIN g.node = DOMAIN canvas.node \cup PastedIds(together)
      /\ \A i \in DOMAIN canvas.node : g.node[i] = canvas.node[i]
      /\ \A i \in PastedIds(together) :
           i \notin DOMAIN canvas.node => g.node[i] = NodeWithId(i, together)
      /\ \A e \in g.edges \ canvas.edges : \E d \in canvas.edges :
           /\ {d.source, d.target} \subseteq InIteration
           /\ e = Edge(IdMapping(d.source, together), d.handle, IdMapping(d.target, together))
  BY DEF Pasted
<1> HIDE DEF g
<1>4. \A i \in PastedIds(together) : i \in Nat /\ i >= nextId /\ i \notin DOMAIN canvas.node
  BY <1>1, <1>2 DEF PasteNumbers
<1>5. /\ \A p \in Copies : CopyId(p[1], p[2]) \in PastedIds(together)
      /\ \A c \in CopiedContainers : StartId(c, together) \in PastedIds(together)
  BY DEF PastedIds
<1>6. \A p \in Copies : g.node[CopyId(p[1], p[2])] = CopyNode(p[1], p[2], together)
  BY <1>3, <1>4, <1>5, PastedNodes
<1>7. \A c \in CopiedContainers : \E d \in CopiedContainers :
        /\ g.node[StartId(c, together)] = PastedStart(d)
        /\ StartId(d, together) = StartId(c, together)
  BY <1>3, <1>4, <1>5, PastedNodes
<1>8. ASSUME NEW i \in PastedIds(together)
      PROVE  \/ \E c \in DOMAIN clipboard : i = CopyId(c, c)
             \/ \E c \in CopiedContainers : \E n \in InnerNodes(c) : n # c /\ i = CopyId(c, n)
             \/ \E c \in CopiedContainers : i = StartId(c, together)
  <2>1. CASE \E p \in Copies : i = CopyId(p[1], p[2])
    <3>1. PICK p \in Copies : i = CopyId(p[1], p[2])
      BY <2>1
    <3>2. /\ p[1] \in DOMAIN clipboard
          /\ p[2] = p[1] \/ (p[1] \in CopiedContainers /\ p[2] \in InnerNodes(p[1]))
      BY CopiesAre
    <3>3. CASE p[2] = p[1]
      BY <3>1, <3>2, <3>3
    <3>4. CASE p[2] # p[1]
      BY <3>1, <3>2, <3>4
    <3> QED
      BY <3>3, <3>4
  <2> QED
    BY <2>1 DEF PastedIds
<1>9. \A e \in g.edges \ canvas.edges : \E d \in canvas.edges :
        /\ d.source \in InIteration /\ d.target \in InIteration
        /\ e.source = IdMapping(d.source, together)
        /\ e.target = IdMapping(d.target, together)
  BY <1>3 DEF Edge
<1>10. PasteAdds(g, together)
  BY <1>3, <1>4, <1>5, <1>6, <1>7, <1>8, <1>9 DEF PasteAdds
<1> QED
  BY <1>10 DEF g

(* An edge of a paste is of an edge inside of one container, to a block of *)
(* it, from its start or from another block.                               *)
IsCopiedEdge(e, d, c, together) ==
  /\ d.target \in InnerNodes(c) /\ d.target # c /\ ~ IsStart(canvas, d.target)
  /\ e.target = CopyId(c, d.target)
  /\ \/ /\ canvas.node[d.source].type = "inner-start"
        /\ e.source = StartId(c, together)
     \/ /\ d.source \in InnerNodes(c) /\ <<c, d.source>> \in Copies
        /\ d.source # c /\ e.source = CopyId(c, d.source)

(* An iteration that is pasted has its start inside, so that two of one    *)
(* key are the same: no edge between containers is copied.                 *)
LEMMA CopiedEdges ==
  ASSUME CanvasInv, NEW key, Keyed(canvas, key, nextId), NEW together \in BOOLEAN,
         NEW g, PasteAdds(g, together),
         \A c \in CopiedIterations : Children(canvas, c) # InnerNodes(c),
         NEW e \in g.edges, e \notin canvas.edges
  PROVE  \E d \in canvas.edges, c \in CopiedContainers : IsCopiedEdge(e, d, c, together)
<1>1. PICK d \in canvas.edges :
        /\ d.source \in InIteration /\ d.target \in InIteration
        /\ e.source = IdMapping(d.source, together)
        /\ e.target = IdMapping(d.target, together)
  BY DEF PasteAdds
<1> DEFINE b == canvas.node[d.source].parent
           c == canvas.node[d.target].parent
<1>2. /\ d.source \in Children(canvas, b) /\ b \in CopiedIterations
      /\ d.target \in Children(canvas, c) /\ c \in CopiedIterations
  BY <1>1 DEF InIteration, Children
<1>3. \A a \in CopiedIterations : \E m \in Children(canvas, a) :
        canvas.node[m].type = "inner-start" /\ key[a] = m /\ canvas.node[m].parent = a
  BY DEF InnerNodes, Children, Keyed
<1>4. key[b] = key[c] /\ ~ IsStart(canvas, d.target)
  BY DEF Keyed
<1>5. b = c
  <2>1. PICK m \in Children(canvas, b) : key[b] = m /\ canvas.node[m].parent = b
    BY <1>2, <1>3
  <2>2. PICK n \in Children(canvas, c) : key[c] = n /\ canvas.node[n].parent = c
    BY <1>2, <1>3
  <2> QED
    BY <2>1, <2>2, <1>4
<1>6. /\ c \in CopiedContainers
      /\ \/ /\ canvas.node[d.source].type = "inner-start"
            /\ e.source = StartId(c, together)
         \/ /\ <<c, d.source>> \in Copies /\ d.source # c /\ e.source = CopyId(c, d.source)
      /\ d.target # c /\ e.target = CopyId(c, d.target)
  <2>1. canvas.node[d.target].type # "inner-start"
    BY <1>4 DEF IsStart
  <2> QED
    BY <2>1, <1>1, <1>5, MappedNodes
<1>7. \/ canvas.node[d.source].type = "inner-start"
      \/ d.source \in InnerNodes(c)
  BY <1>2, <1>5 DEF InnerNodes
<1>8. d.target \in InnerNodes(c)
  BY <1>2, <1>4 DEF InnerNodes, IsStart
<1>9. canvas.node[d.source].type = "inner-start" => e.source = StartId(c, together)
  BY <1>1, <1>5 DEF IdMapping
<1>10. canvas.node[d.source].type # "inner-start" => e.source = CopyId(c, d.source)
  BY <1>1, <1>5 DEF IdMapping
<1>11. canvas.node[d.source].type # "inner-start" => <<c, d.source>> \in Copies /\ d.source # c
  BY <1>1, <1>5, MappedNodes
<1> QED
  BY <1>1, <1>2, <1>4, <1>5, <1>6, <1>7, <1>8, <1>9, <1>10, <1>11 DEF IsCopiedEdge

(* What is inside of a container is no start where it is copied, and its   *)
(* copy is inside of the container's.                                      *)
LEMMA CopiesInside ==
  ASSUME CanvasInv, NEW key, Keyed(canvas, key, nextId), NEW together \in BOOLEAN,
         NEW g, PasteAdds(g, together), NEW c \in CopiedContainers,
         NEW n \in InnerNodes(c), n # c
  PROVE  /\ n \in DOMAIN canvas.node /\ <<c, n>> \in Copies
         /\ CopyId(c, n) \in PastedIds(together)
         /\ g.node[CopyId(c, n)].type = canvas.node[n].type
         /\ g.node[CopyId(c, n)].parent = CopyId(c, c)
         /\ ~ IsStart(canvas, n)
<1>1. <<c, n>>[1] = c /\ <<c, n>>[2] = n /\ <<c, n>> \in Copies
  BY CopiesAre
<1>2. g.node[CopyId(c, n)] = CopyNode(c, n, together) /\ CopyId(c, n) \in PastedIds(together)
  BY <1>1 DEF PasteAdds
<1>3. /\ n \in DOMAIN canvas.node /\ canvas.node[n].parent = c /\ c # Top
      /\ canvas.node[n].type # "inner-start"
  <2>1. c \in Ids
    BY DEF CopiedContainers, CanvasInv, CountsInv
  <2> QED
    BY <2>1, BoundsAssumption DEF InnerNodes, Children, Top, Ids
<1>4. canvas.node[n].type # "start"
  BY <1>3 DEF Keyed
<1> QED
  BY <1>1, <1>2, <1>3, <1>4 DEF CopyNode, IsStart

(* The copy of a container has the key of its start, which all that        *)
(* collided share.                                                         *)
LEMMA PasteInPlace ==
  ASSUME CanvasInv, InPlace(canvas, nextId), NEW together \in BOOLEAN,
         NEW g, PasteAdds(g, together),
         \A c \in CopiedIterations : Children(canvas, c) # InnerNodes(c),
         EdgesJoin(g)
  PROVE  InPlace(g, nextId + Cardinality(PastedIds(together)))
<1>1. PICK key : Keyed(canvas, key, nextId)
  BY DEF InPlace
<1> DEFINE limit == nextId + Cardinality(PastedIds(together))
           D == DOMAIN canvas.node
           Start(c) == StartId(c, together)
           of(k) == {c \in CopiedContainers : CopyId(c, c) = k}
           new == [k \in Nat |-> IF of(k) # {} THEN Start(CHOOSE c \in of(k) : TRUE)
                                 ELSE key[k]]
<1>2. /\ nextId \in Nat \ {0} /\ D \subseteq Ids /\ D \subseteq Nat /\ 0 \notin Ids
      /\ EdgesJoin(canvas) /\ \A n \in D : n < nextId
  BY CanvasIsSound DEF CanvasInv, CountsInv, Sound, IdsUsed, IsGraph, Ids
<1>3. PasteNumbers(together)
  BY PasteIds
<1>4. /\ limit \in Nat /\ limit >= nextId
      /\ \A i \in PastedIds(together) : i \in Nat /\ i >= nextId /\ i < limit /\ i \notin D
  BY <1>2, <1>3 DEF PasteNumbers
<1>5. \A n \in D : canvas.node[n].parent \in Nat /\ canvas.node[n].parent < nextId
  BY <1>1, CanvasIsSound, BoundsAssumption DEF Sound, IsGraph, Nodes, Keyed, Top
<1>6. \A c \in CopiedContainers : /\ c \in DOMAIN clipboard /\ c \in Ids /\ <<c, c>> \in Copies
                                  /\ CopyId(c, c) \in PastedIds(together)
                                  /\ Start(c) \in PastedIds(together)
  <2>1. ASSUME NEW c \in CopiedContainers
        PROVE  c \in DOMAIN clipboard /\ c \in Ids /\ <<c, c>> \in Copies
    BY CopiesAre DEF CopiedContainers, CanvasInv, CountsInv
  <2>2. \A p \in Copies : CopyId(p[1], p[2]) \in PastedIds(together)
    BY DEF PastedIds
  <2>3. ASSUME NEW c \in CopiedContainers PROVE CopyId(c, c) \in PastedIds(together)
    BY <2>1, <2>2, <2>3
  <2>4. ASSUME NEW c \in CopiedContainers PROVE Start(c) \in PastedIds(together)
    BY DEF PastedIds
  <2> QED
    BY <2>1, <2>3, <2>4
<1>7. \A c \in CopiedContainers : of(CopyId(c, c)) = {c}
  <2>1. ASSUME NEW c \in CopiedContainers, NEW d \in CopiedContainers,
               CopyId(c, c) = CopyId(d, d)
        PROVE  c = d
    <3>1. <<c, c>> \in Copies /\ <<d, d>> \in Copies
      BY <1>6
    <3>2. CopyId(<<c, c>>[1], <<c, c>>[2]) = CopyId(<<d, d>>[1], <<d, d>>[2])
      BY <2>1
    <3>3. <<c, c>> = <<d, d>>
      BY <3>1, <3>2, <1>3 DEF PasteNumbers
    <3> QED
      BY <3>3
  <2> QED
    BY <2>1
<1>8. ASSUME NEW k \in Nat, k < nextId PROVE of(k) = {}
  <2>1. ASSUME NEW c \in CopiedContainers, CopyId(c, c) = k PROVE FALSE
    <3>1. CopyId(c, c) \in PastedIds(together)
      BY <1>6
    <3>2. CopyId(c, c) \in Nat /\ CopyId(c, c) >= nextId
      BY <3>1, <1>4
    <3> QED
      BY <3>2, <2>1, <1>2, <1>8
  <2> QED
    BY <2>1
<1> HIDE DEF of
<1>9. \A k \in Nat : of(k) # {} =>
        \E c \in CopiedContainers : k = CopyId(c, c) /\ of(k) = {c} /\ new[k] = Start(c)
  <2>1. ASSUME NEW k \in Nat, of(k) # {}
        PROVE  \E c \in CopiedContainers : k = CopyId(c, c) /\ of(k) = {c} /\ new[k] = Start(c)
    <3>1. PICK c \in CopiedContainers : CopyId(c, c) = k
      BY <2>1 DEF of
    <3>2. of(k) = {c} /\ (CHOOSE b \in of(k) : TRUE) = c
      BY <3>1, <1>7
    <3>3. new[k] = Start(CHOOSE b \in of(k) : TRUE)
      BY <2>1
    <3> QED
      BY <3>1, <3>2, <3>3
  <2> QED
    BY <2>1
<1>10. /\ \A k \in Nat : of(k) = {} => new[k] = key[k]
       /\ new = [k \in Nat |-> new[k]]
  OBVIOUS
<1> HIDE DEF new
<1>11. /\ new \in [Nat -> Nat] /\ \A k \in Nat : new[k] = Top <=> k = Top
       /\ \A k \in Nat : k < nextId => new[k] = key[k]
  <2>1. ASSUME NEW k \in Nat PROVE new[k] \in Nat /\ (new[k] = Top <=> k = Top)
    <3>1. CASE of(k) = {}
      BY <3>1, <1>1, <1>10 DEF Keyed
    <3>2. CASE of(k) # {}
      <4>1. PICK c \in CopiedContainers : k = CopyId(c, c) /\ new[k] = Start(c)
        BY <3>2, <1>9
      <4>2. Start(c) \in PastedIds(together) /\ k \in PastedIds(together)
        BY <4>1, <1>6
      <4>3. \A i \in PastedIds(together) : i \in Nat /\ i # 0
        BY <1>2, <1>4
      <4> QED
        BY <4>1, <4>2, <4>3 DEF Top
    <3> QED
      BY <3>1, <3>2
  <2> QED
    BY <2>1, <1>8, <1>10
<1> HIDE DEF Start
<1>12. ASSUME NEW c \in CopiedContainers
       PROVE  /\ CopyId(c, c) \in Nat /\ CopyId(c, c) < limit /\ CopyId(c, c) # Top
              /\ new[CopyId(c, c)] = Start(c)
              /\ CopyId(c, c) \in DOMAIN g.node /\ g.node[CopyId(c, c)].start = Start(c)
              /\ Start(c) < limit
              /\ Start(c) \in DOMAIN g.node /\ g.node[Start(c)].type = "inner-start"
  <2>1. CopyId(c, c) \in PastedIds(together) /\ Start(c) \in PastedIds(together)
    BY <1>6
  <2>2. new[CopyId(c, c)] = Start(c)
    <3>1. of(CopyId(c, c)) = {c} /\ CopyId(c, c) \in Nat
      BY <2>1, <1>4, <1>7
    <3>2. PICK d \in CopiedContainers : of(CopyId(c, c)) = {d} /\ new[CopyId(c, c)] = Start(d)
      BY <3>1, <1>9
    <3> QED
      BY <3>1, <3>2
  <2>3. g.node[CopyId(c, c)] = CopyNode(c, c, together)
    <3>1. <<c, c>>[1] = c /\ <<c, c>>[2] = c /\ <<c, c>> \in Copies
      BY <1>6
    <3> QED
      BY <3>1 DEF PasteAdds
  <2>4. g.node[CopyId(c, c)].start = Start(c)
    BY <2>3 DEF CopyNode, Start
  <2>5. g.node[Start(c)].type = "inner-start"
    <3>1. PICK d \in CopiedContainers : g.node[Start(c)] = PastedStart(d)
      BY DEF PasteAdds, Start
    <3> QED
      BY <3>1 DEF PastedStart
  <2> QED
    BY <2>1, <2>2, <2>4, <2>5, <1>2, <1>4 DEF PasteAdds, Top
<1>13. ASSUME NEW c \in CopiedContainers, NEW n \in InnerNodes(c), n # c
       PROVE  /\ g.node[CopyId(c, n)].type = canvas.node[n].type
              /\ g.node[CopyId(c, n)].parent = CopyId(c, c)
              /\ ~ IsStart(canvas, n)
  BY <1>1, <1>13, CopiesInside
<1>14. \A c \in CopiedContainers : \E d \in CopiedContainers :
         g.node[Start(c)] = PastedStart(d) /\ Start(d) = Start(c)
  BY DEF PasteAdds, Start
<1>15. DOMAIN g.node = D \cup PastedIds(together) /\ \A n \in D : g.node[n] = canvas.node[n]
  BY DEF PasteAdds
<1>16. \A n \in PastedIds(together) :
         \/ \E c \in DOMAIN clipboard : n = CopyId(c, c)
         \/ \E c \in CopiedContainers : \E k \in InnerNodes(c) : k # c /\ n = CopyId(c, k)
         \/ \E c \in CopiedContainers : n = Start(c)
  BY DEF PasteAdds, Start
<1> HIDE DEF limit
<1>17. ASSUME NEW n \in DOMAIN g.node
       PROVE  LET c == g.node[n].parent
              IN /\ c < limit
                 /\ g.node[n].type = "start" => c = Top
                 /\ g.node[n].type = "inner-start" => c # Top /\ new[c] = n
                 /\ c \in DOMAIN g.node =>
                      /\ g.node[c].start = new[c] /\ new[c] < limit
                      /\ new[c] \in DOMAIN g.node => g.node[new[c]].type = "inner-start"
  <2> DEFINE c == g.node[n].parent
  <2>1. CASE n \in D
    <3>1. /\ c = canvas.node[n].parent /\ c \in Nat /\ c < nextId /\ c < limit
          /\ new[c] = key[c] /\ key[c] \in Nat /\ g.node[n] = canvas.node[n]
      BY <2>1, <1>1, <1>2, <1>4, <1>5, <1>11, <1>15 DEF Keyed
    <3>2. ASSUME c \in DOMAIN g.node
          PROVE  /\ g.node[c].start = new[c] /\ new[c] < limit
                 /\ new[c] \in DOMAIN g.node => g.node[new[c]].type = "inner-start"
      <4>1. c \in D
        BY <3>1, <3>2, <1>2, <1>4, <1>15
      <4>2. /\ canvas.node[c].start = key[c] /\ key[c] < nextId
            /\ key[c] \in D => canvas.node[key[c]].type = "inner-start"
        BY <2>1, <3>1, <4>1, <1>1 DEF Keyed
      <4>3. new[c] \in DOMAIN g.node => new[c] \in D
        BY <3>1, <4>2, <1>2, <1>4, <1>15
      <4> QED
        BY <3>1, <4>1, <4>2, <4>3, <1>2, <1>4, <1>15
    <3>3. /\ g.node[n].type = "start" => c = Top
          /\ g.node[n].type = "inner-start" => c # Top /\ new[c] = n
      BY <2>1, <3>1, <1>1 DEF Keyed
    <3> QED
      BY <3>1, <3>2, <3>3
  <2>2. CASE \E b \in DOMAIN clipboard : n = CopyId(b, b)
    <3>1. PICK b \in DOMAIN clipboard : n = CopyId(b, b)
      BY <2>2
    <3>2. <<b, b>>[1] = b /\ <<b, b>>[2] = b /\ <<b, b>> \in Copies
      BY CopiesAre
    <3>3. g.node[n] = CopyNode(b, b, together)
      BY <3>1, <3>2 DEF PasteAdds
    <3>4. c = Top /\ g.node[n].type = clipboard[b]
      BY <3>3 DEF CopyNode
    <3>5. clipboard[b] \notin {"start", "inner-start"}
      BY DEF CanvasInv, CountsInv
    <3>6. Top \notin DOMAIN g.node /\ Top < limit
      BY <1>2, <1>4, <1>15 DEF Top
    <3> QED
      BY <3>4, <3>5, <3>6
  <2>3. CASE \E b \in CopiedContainers : \E k \in InnerNodes(b) : k # b /\ n = CopyId(b, k)
    <3>1. PICK b \in CopiedContainers : \E k \in InnerNodes(b) : k # b /\ n = CopyId(b, k)
      BY <2>3
    <3>2. PICK k \in InnerNodes(b) : k # b /\ n = CopyId(b, k)
      BY <3>1
    <3> QED
      BY <3>2, <1>12, <1>13 DEF IsStart
  <2>4. CASE \E b \in CopiedContainers : n = Start(b)
    <3>1. PICK b \in CopiedContainers : n = Start(b)
      BY <2>4
    <3>2. PICK d \in CopiedContainers : g.node[n] = PastedStart(d) /\ Start(d) = n
      BY <3>1, <1>14
    <3>3. c = CopyId(d, d) /\ g.node[n].type = "inner-start"
      BY <3>2 DEF PastedStart
    <3> QED
      BY <3>2, <3>3, <1>12
  <2> QED
    BY <2>1, <2>2, <2>3, <2>4, <1>15, <1>16
<1>18. ASSUME NEW e \in g.edges
       PROVE  /\ ~ IsStart(g, e.target)
              /\ new[g.node[e.source].parent] = new[g.node[e.target].parent]
  <2>1. CASE e \in canvas.edges
    <3>1. e.source \in D /\ e.target \in D
      BY <2>1, <1>2 DEF EdgesJoin
    <3>2. /\ ~ IsStart(canvas, e.target)
          /\ key[canvas.node[e.source].parent] = key[canvas.node[e.target].parent]
      BY <2>1, <1>1 DEF Keyed
    <3> QED
      BY <3>1, <3>2, <1>5, <1>11, <1>15 DEF IsStart
  <2>2. CASE e \notin canvas.edges
    <3>1. PICK d \in canvas.edges, c \in CopiedContainers : IsCopiedEdge(e, d, c, together)
      BY <2>2, <1>1, CopiedEdges
    <3>2. ~ IsStart(g, e.target) /\ new[g.node[e.target].parent] = Start(c)
      BY <3>1, <1>12, <1>13 DEF IsStart, IsCopiedEdge
    <3>3. CASE e.source = Start(c)
      <4>1. PICK b \in CopiedContainers : g.node[Start(c)] = PastedStart(b) /\ Start(b) = Start(c)
        BY <1>14
      <4>2. new[g.node[e.source].parent] = Start(c)
        BY <3>3, <4>1, <1>12 DEF PastedStart
      <4> QED
        BY <3>2, <4>2
    <3>4. CASE d.source \in InnerNodes(c) /\ d.source # c /\ e.source = CopyId(c, d.source)
      <4>1. new[g.node[e.source].parent] = Start(c)
        BY <3>4, <1>12, <1>13
      <4> QED
        BY <3>2, <4>1
    <3> QED
      BY <3>1, <3>3, <3>4 DEF Start, IsCopiedEdge
  <2> QED
    BY <2>1, <2>2
<1>19. Keyed(g, new, limit)
  BY <1>11, <1>17, <1>18 DEF Keyed
<1> QED
  BY <1>19 DEF InPlace, limit

(* What was on the canvas leads nowhere new; nothing leads to a pasted     *)
(* start; and among the copies of what is inside of a container, an edge   *)
(* is as far from a cycle as the one it is a copy of.                      *)
LEMMA PasteIsAcyclic ==
  ASSUME CanvasInv, InPlace(canvas, nextId), Acyclic(canvas), NEW together \in BOOLEAN,
         NEW g, PasteAdds(g, together), IsGraph(g), EdgesJoin(g), NEW limit, InPlace(g, limit),
         \A c \in CopiedIterations : Children(canvas, c) # InnerNodes(c)
  PROVE  Acyclic(g)
<1> DEFINE D == DOMAIN canvas.node
           P == PastedIds(together)
<1>1. PICK key : Keyed(canvas, key, nextId)
  BY DEF InPlace
<1>2. IsGraph(canvas) /\ EdgesJoin(canvas) /\ PasteNumbers(together)
  BY CanvasIsSound, PasteIds DEF Sound
<1>3. /\ DOMAIN g.node = D \cup P
      /\ \A i \in P : i \notin D
      /\ \A c \in CopiedContainers :
           StartId(c, together) \in P /\ IsStart(g, StartId(c, together))
  <2>1. DOMAIN g.node = D \cup P
    BY DEF PasteAdds
  <2>2. \A i \in P : i \notin D
    BY DEF PasteAdds
  <2>3. ASSUME NEW c \in CopiedContainers
        PROVE  StartId(c, together) \in P /\ IsStart(g, StartId(c, together))
    <3>1. /\ StartId(c, together) \in P
          /\ \E d \in CopiedContainers : g.node[StartId(c, together)] = PastedStart(d)
      BY DEF PasteAdds
    <3> QED
      BY <3>1 DEF PastedStart, IsStart
  <2> QED
    BY <2>1, <2>2, <2>3
<1>4. ASSUME NEW c \in CopiedContainers, NEW n \in InnerNodes(c), n # c
      PROVE  CopyId(c, n) \in P /\ <<c, n>> \in Copies
  BY <1>1, <1>4, CopiesInside
<1>5. ASSUME NEW b, NEW m, <<b, m>> \in Copies, NEW c, NEW n, <<c, n>> \in Copies,
             CopyId(b, m) = CopyId(c, n)
      PROVE  b = c /\ m = n
  <2> DEFINE p == <<b, m>>
             q == <<c, n>>
  <2>1. p \in Copies /\ q \in Copies /\ CopyId(p[1], p[2]) = CopyId(q[1], q[2])
    BY <1>5
  <2> HIDE DEF p, q
  <2>2. p = q
    BY <2>1, <1>2 DEF PasteNumbers
  <2> QED
    BY <2>2 DEF p, q
<1>6. ASSUME NEW e \in g.edges, e \notin canvas.edges
      PROVE  /\ e.source \in P /\ e.target \in P
             /\ \E d \in canvas.edges, c \in CopiedContainers : IsCopiedEdge(e, d, c, together)
  <2>1. PICK d \in canvas.edges, c \in CopiedContainers : IsCopiedEdge(e, d, c, together)
    BY <1>1, <1>6, CopiedEdges
  <2>2. CASE e.source = StartId(c, together)
    BY <2>1, <2>2, <1>3, <1>4 DEF IsCopiedEdge
  <2>3. CASE /\ d.source \in InnerNodes(c) /\ d.source # c /\ e.source = CopyId(c, d.source)
    BY <2>1, <2>3, <1>4 DEF IsCopiedEdge
  <2> QED
    BY <2>1, <2>2, <2>3 DEF IsCopiedEdge
<1>7. \A e \in canvas.edges : e.source \in D /\ e.target \in D
  BY <1>2 DEF EdgesJoin
<1> HIDE DEF D, P
<1>8. ASSUME NEW e \in g.edges, e \in canvas.edges PROVE Apart(g, e)
  <2>1. PICK W \in SUBSET D : Closed(canvas, W) /\ e.target \in W /\ e.source \notin W
    <3>1. Apart(canvas, e)
      BY <1>2, <1>8, NoCycleIsApart DEF Acyclic
    <3> QED
      BY <3>1 DEF Apart, D
  <2>2. Closed(g, W)
    BY <2>1, <1>3, <1>6 DEF Closed
  <2> QED
    BY <2>1, <2>2, <1>3 DEF Apart
<1>9. ASSUME NEW e \in g.edges, e \notin canvas.edges, IsStart(g, e.source)
      PROVE  Apart(g, e)
  <2> DEFINE W == P \ {e.source}
  <2>1. \A d \in g.edges : d.target # e.source
    BY <1>9 DEF InPlace, Keyed
  <2>2. Closed(g, W)
    <3>1. ASSUME NEW d \in g.edges, d.source \in P PROVE d.target \in P
      BY <3>1, <1>3, <1>6, <1>7
    <3> QED
      BY <2>1, <3>1 DEF Closed
  <2>3. e.target \in W /\ e.source \notin W /\ W \in SUBSET DOMAIN g.node
    BY <2>1, <1>3, <1>6, <1>9
  <2> HIDE DEF W
  <2> QED
    BY <2>2, <2>3 DEF Apart
<1>10. ASSUME NEW e \in g.edges, e \notin canvas.edges, ~ IsStart(g, e.source)
       PROVE  Apart(g, e)
  <2>1. PICK d \in canvas.edges, c \in CopiedContainers : IsCopiedEdge(e, d, c, together)
    BY <1>6, <1>10
  <2>2. /\ d.source \in InnerNodes(c) /\ d.source # c /\ e.source = CopyId(c, d.source)
        /\ d.target \in InnerNodes(c) /\ d.target # c /\ e.target = CopyId(c, d.target)
    BY <2>1, <1>3, <1>10 DEF IsCopiedEdge
  <2>3. PICK V \in SUBSET D : Closed(canvas, V) /\ d.target \in V /\ d.source \notin V
    <3>1. Apart(canvas, d)
      BY <1>2, NoCycleIsApart DEF Acyclic
    <3> QED
      BY <3>1 DEF Apart, D
  <2> DEFINE K == {k \in InnerNodes(c) : k # c /\ k \in V}
             W == {CopyId(c, k) : k \in K}
  <2>4. ASSUME NEW x \in g.edges, x.source \in W PROVE x.target \in W
    <3>1. PICK k \in K : x.source = CopyId(c, k)
      BY <2>4
    <3>2. x.source \in P /\ <<c, k>> \in Copies /\ k \in V
      BY <3>1, <1>4
    <3>3. x \notin canvas.edges
      BY <3>2, <1>3, <1>7
    <3>4. PICK y \in canvas.edges, b \in CopiedContainers : IsCopiedEdge(x, y, b, together)
      BY <3>3, <1>6
    <3>5. x.source # StartId(b, together)
      <4>1. <<c, k>>[1] = c /\ <<c, k>>[2] = k
        OBVIOUS
      <4>2. /\ CopyId(c, k) \in Nat /\ StartId(b, together) \in Nat
            /\ CopyId(c, k) < StartId(b, together)
        BY <3>2, <4>1, <1>2 DEF PasteNumbers
      <4> QED
        BY <3>1, <4>2
    <3>6. <<b, y.source>> \in Copies /\ x.source = CopyId(b, y.source)
      BY <3>4, <3>5 DEF IsCopiedEdge
    <3>7. b = c /\ y.source = k
      BY <3>1, <3>2, <3>6, <1>5
    <3>8. /\ y.target \in InnerNodes(c) /\ y.target # c
          /\ x.target = CopyId(c, y.target)
      BY <3>4, <3>7 DEF IsCopiedEdge
    <3>9. y.target \in V
      BY <3>2, <3>7, <2>3 DEF Closed
    <3> QED
      BY <3>8, <3>9
  <2>5. e.source \notin W
    <3>1. ASSUME NEW k \in K, e.source = CopyId(c, k) PROVE FALSE
      <4>1. <<c, k>> \in Copies /\ <<c, d.source>> \in Copies /\ k \in V
        BY <2>2, <1>4
      <4>2. CopyId(c, k) = CopyId(c, d.source)
        BY <3>1, <2>2
      <4> DEFINE m == d.source
      <4>3. <<c, m>> \in Copies /\ CopyId(c, k) = CopyId(c, m)
        BY <4>1, <4>2
      <4> HIDE DEF m
      <4>4. k = m
        BY <4>1, <4>3, <1>5
      <4> QED
        BY <4>1, <4>4, <2>3 DEF m
    <3> QED
      BY <3>1
  <2>6. e.target \in W /\ W \in SUBSET DOMAIN g.node
    <3>1. \A k \in K : CopyId(c, k) \in DOMAIN g.node
      BY <1>3, <1>4
    <3> QED
      BY <3>1, <2>2, <2>3
  <2> HIDE DEF W, K
  <2>7. Closed(g, W)
    BY <2>4 DEF Closed
  <2> QED
    BY <2>5, <2>6, <2>7 DEF Apart
<1> QED
  BY <1>8, <1>9, <1>10, NoCycleIsApart DEF Acyclic

LEMMA PasteFrees ==
  ASSUME CanvasInv, FreeInv, CanvasInv', Paste
  PROVE  FreeInv'
<1>1. PICK together \in BOOLEAN :
        /\ Edit(Pasted(together))
        /\ nextId' = nextId + Cardinality(PastedIds(together))
  BY DEF Paste
<1>2. \A c \in CopiedIterations : Children(canvas, c) # InnerNodes(c)
  BY DEF Paste
<1> DEFINE g == Pasted(together)
<1>3. PasteAdds(g, together)
  BY PasteMakes
<1>4. canvas' = g /\ \A h \in States' : h \in States \/ h = canvas'
  BY <1>1 DEF Edit, States
<1> HIDE DEF g
<1>5. IsGraph(g) /\ EdgesJoin(g)
  <2>1. canvas' \in States'
    BY DEF States
  <2>2. IsGraph(canvas') /\ EdgesJoin(canvas')
    BY <2>1 DEF CanvasInv, Sound
  <2> QED
    BY <2>2, <1>4
<1>6. InPlace(canvas, nextId) /\ (dropped \/ Acyclic(canvas)) /\ dropped' = dropped
  BY CanvasIsSound DEF FreeInv, Paste
<1>7. InPlace(g, nextId')
  BY <1>1, <1>2, <1>3, <1>5, <1>6, PasteInPlace
<1>8. dropped' \/ Acyclic(g)
  BY <1>2, <1>3, <1>5, <1>6, <1>7, PasteIsAcyclic
<1>9. nextId' \in Nat /\ nextId' >= nextId
  <2>1. Cardinality(PastedIds(together)) \in Nat /\ nextId \in Nat
    BY PasteIds, CanvasIsSound DEF PasteNumbers
  <2> QED
    BY <2>1, <1>1
<1> QED
  BY <1>4, <1>6, <1>7, <1>8, <1>9, FreeKept

-----------------------------------------------------------------------------
LEMMA InitFrees == Init => FreeInv
<1> SUFFICES ASSUME Init PROVE FreeInv
  OBVIOUS
<1> DEFINE D == DOMAIN canvas.node
           Type(n) == canvas.node[n].type
           inside(c) == {m \in D : Type(m) = "inner-start" /\ canvas.node[m].parent = c}
           key == [c \in Nat |-> IF c \in D /\ Type(c) \in Containers THEN canvas.node[c].start
                                 ELSE IF c # Top /\ inside(c) # {} THEN CHOOSE m \in inside(c) : TRUE
                                 ELSE c]
<1>1. /\ EdgesJoin(canvas) /\ StaysInLevel(canvas) /\ HasStarts(canvas)
      /\ StartsInPlace(canvas) /\ Acyclic(canvas)
  BY CanvasesAssumption, DraftsAssumption DEF Init
<1>2. /\ \A n \in D : n \in Nat /\ n # 0 /\ n < nextId
      /\ nextId \in Nat /\ \A n \in D : canvas.node[n].parent \in Nat
  BY InitCanvas, CanvasIsSound, BoundsAssumption DEF Sound, IdsUsed, IsGraph, Nodes, Ids, Top
<1>3. \A c \in Nat :
        /\ c \in D /\ Type(c) \in Containers => key[c] = canvas.node[c].start
        /\ ~ (c \in D /\ Type(c) \in Containers) =>
             key[c] = IF c # Top /\ inside(c) # {} THEN CHOOSE m \in inside(c) : TRUE ELSE c
  OBVIOUS
<1>4. key = [c \in Nat |-> key[c]]
  OBVIOUS
<1> HIDE DEF key
<1>5. \A c \in D : Type(c) \in Containers =>
        /\ canvas.node[c].start \in D /\ Type(canvas.node[c].start) = "inner-start"
        /\ canvas.node[canvas.node[c].start].parent = c
  BY <1>1 DEF HasStarts
<1>6. key \in [Nat -> Nat] /\ \A c \in Nat : key[c] = Top <=> c = Top
  <2>1. ASSUME NEW c \in Nat PROVE key[c] \in Nat /\ (key[c] = Top <=> c = Top)
    <3>1. CASE c \in D /\ Type(c) \in Containers
      BY <3>1, <1>2, <1>3, <1>5 DEF Top
    <3>2. CASE ~ (c \in D /\ Type(c) \in Containers) /\ c # Top /\ inside(c) # {}
      <4>1. key[c] \in D
        BY <3>2, <1>3
      <4> QED
        BY <4>1, <3>2, <1>2 DEF Top
    <3>3. CASE ~ (c \in D /\ Type(c) \in Containers) /\ ~ (c # Top /\ inside(c) # {})
      BY <3>3, <1>3
    <3> QED
      BY <3>1, <3>2, <3>3
  <2> QED
    BY <2>1, <1>4
<1>7. ASSUME NEW n \in D
      PROVE  LET c == canvas.node[n].parent
             IN /\ c < nextId
                /\ Type(n) = "start" => c = Top
                /\ Type(n) = "inner-start" => c # Top /\ key[c] = n
                /\ c \in D => /\ canvas.node[c].start = key[c] /\ key[c] < nextId
                              /\ key[c] \in D => Type(key[c]) = "inner-start"
  <2> DEFINE c == canvas.node[n].parent
  <2>1. /\ c < n
        /\ c \in D => Type(c) \in Containers
        /\ Type(n) = "start" => c = Top
        /\ Type(n) = "inner-start" => c # Top /\ \A m \in inside(c) : m = n
    BY <1>1 DEF StartsInPlace
  <2>2. c \in Nat /\ c < nextId
    <3>1. c \in Nat /\ n \in Nat /\ nextId \in Nat /\ n < nextId /\ c < n
      BY <2>1, <1>2
    <3> HIDE DEF c
    <3> QED
      BY <3>1
  <2>3. ASSUME c \in D
        PROVE  /\ canvas.node[c].start = key[c] /\ key[c] < nextId
               /\ key[c] \in D => Type(key[c]) = "inner-start"
    <3>1. Type(c) \in Containers /\ key[c] = canvas.node[c].start
      BY <2>1, <2>2, <2>3, <1>3
    <3>2. key[c] \in D /\ Type(key[c]) = "inner-start"
      BY <2>3, <3>1, <1>5
    <3> QED
      BY <3>1, <3>2, <1>2
  <2>4. ASSUME Type(n) = "inner-start" PROVE key[c] = n
    <3>1. n \in inside(c) /\ \A m \in inside(c) : m = n
      BY <2>1, <2>4
    <3>2. CASE c \in D
      <4>1. canvas.node[c].start \in inside(c)
        <5>1. Type(c) \in Containers
          BY <2>1, <3>2
        <5> QED
          BY <3>2, <5>1, <1>5
      <4> QED
        BY <2>3, <3>1, <3>2, <4>1
    <3>3. CASE c \notin D
      <4>1. key[c] = CHOOSE m \in inside(c) : TRUE
        BY <2>1, <2>2, <2>4, <3>1, <3>3, <1>3
      <4>2. key[c] \in inside(c)
        BY <3>1, <4>1
      <4> QED
        BY <3>1, <4>2
    <3> QED
      BY <3>2, <3>3
  <2> QED
    BY <2>1, <2>2, <2>3, <2>4
<1>8. \A e \in canvas.edges :
        /\ ~ IsStart(canvas, e.target)
        /\ key[canvas.node[e.source].parent] = key[canvas.node[e.target].parent]
  BY <1>1 DEF StartsInPlace, StaysInLevel, IsStart
<1>9. Keyed(canvas, key, nextId)
  BY <1>6, <1>7, <1>8 DEF Keyed
<1>10. States = {canvas}
  BY DEF Init, States
<1> QED
  BY <1>1, <1>9, <1>10 DEF FreeInv, InPlace

LEMMA NextFrees == CanvasInv /\ FreeInv /\ CanvasInv' /\ [Next]_vars => FreeInv'
<1> SUFFICES ASSUME CanvasInv, FreeInv, CanvasInv', [Next]_vars PROVE FreeInv'
  OBVIOUS
<1>1. CASE \E s, t \in DOMAIN canvas.node : Connect(s, t) \/ ConnectEnd(s, t)
  BY <1>1, ConnectFrees
<1>2. CASE \E n \in DOMAIN canvas.node, type \in NewTypes :
             AddAfter(n, type) \/ AddBefore(n, type) \/ Change(n, type)
  BY <1>2, AddAfterFrees, AddBeforeFrees, ChangeFrees
<1>3. CASE \E e \in canvas.edges :
             DeleteEdge(e) \/ \E type \in NewTypes : InsertBetween(e, type)
  BY <1>3, DeletionsFree, InsertFrees
<1>4. CASE \E n \in DOMAIN canvas.node :
             \/ Disconnect(n) \/ DeleteNode(n)
             \/ \E h \in {"true", "false"} : DeleteBranch(n, h)
  BY <1>4, DeletionsFree, DeleteNodeFrees
<1>5. CASE Confirm \/ \E S : DeleteBundle(S)
  BY <1>5, DeletionsFree
<1>6. CASE Cancel \/ (\E S : Copy(S)) \/ UNCHANGED vars
  <2>1. States' = States /\ nextId' = nextId /\ dropped' = dropped
    BY <1>6 DEF Cancel, Copy, vars, States
  <2> QED
    BY <2>1, FreeStays
<1>7. CASE Save \/ Undo \/ Redo
  <2>1. \A g \in States' : g \in States
    BY <1>7, SaveKeeps, UndoKeeps, RedoKeeps
  <2>2. nextId' = nextId /\ dropped' = dropped
    BY <1>7 DEF Save, Undo, Redo
  <2> QED
    BY <2>1, <2>2, FreeStays
<1>8. CASE Paste
  BY <1>8, PasteFrees
<1> QED
  BY <1>1, <1>2, <1>3, <1>4, <1>5, <1>6, <1>7, <1>8 DEF Next, EditCanvas

(* No connection that is asked for, no insertion, paste, undo or redo      *)
(* closes a cycle anywhere on the canvas, also not in the containers that  *)
(* were pasted in the same millisecond: where there is one, a connection   *)
(* that isValidConnection would have refused was dropped on an aggregator  *)
(* (use-nodes-interactions.ts:491-526).                                    *)
THEOREM NoCycles == Spec => []NoCycleUnlessDropped
<1>1. CanvasInv /\ FreeInv => NoCycleUnlessDropped
  BY CanvasIsSound DEF FreeInv, NoCycleUnlessDropped
<1>2. Init => CanvasInv /\ FreeInv
  BY InitCanvas, InitFrees
<1>3. CanvasInv /\ FreeInv /\ [Next]_vars => CanvasInv' /\ FreeInv'
  BY NextKeeps, NextFrees
<1> QED
  BY <1>1, <1>2, <1>3, PTL DEF Spec

=============================================================================
