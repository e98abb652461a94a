------------------------ MODULE GraphEngineStreamProofs ------------------------
(***************************************************************************)
(* Theorems about what a run of GraphEngine tells, for any graph, pool and *)
(* limits that its assumptions allow: a run that ends as succeeded is over *)
(* in every branch and has told everything, run() yields the stream of     *)
(* events that EngineStream specifies, and nodes run side by side only in  *)
(* different branches of one fork.                                         *)
(***************************************************************************)
EXTENDS GraphEngineProofs

-----------------------------------------------------------------------------
(* Queues: what comes once, in which order, and last.                      *)

OnceIn(s, e) == \A i, j \in DOMAIN s : s[i] = e /\ s[j] = e => i = j
InOrder(s, e, f) == \A i, j \in DOMAIN s : s[i] = e /\ s[j] = f => i < j
LastOf(s) == s[Len(s)]

\* A queue without its head.
LEMMA TailQueue ==
  ASSUME NEW S, NEW s \in Seq(S), s # <<>>
  PROVE  /\ Tail(s) \in Seq(S) /\ Head(s) \in S
         /\ Range(s) = {Head(s)} \cup Range(Tail(s))
         /\ \A e : OnceIn(s, e) => /\ OnceIn(Tail(s), e)
                                   /\ Head(s) = e => e \notin Range(Tail(s))
         /\ \A e, f : InOrder(s, e, f) => /\ InOrder(Tail(s), e, f)
                                          /\ Head(s) = f => e \notin Range(s)
         /\ Tail(s) # <<>> => LastOf(Tail(s)) = LastOf(s)
<1>1. /\ Len(s) \in Nat /\ Len(s) > 0 /\ DOMAIN s = 1..Len(s) /\ Head(s) = s[1] /\ Head(s) \in S
  BY LenProperties, EmptySeq, HeadTailProperties
<1>2. /\ Tail(s) \in Seq(S) /\ Len(Tail(s)) = Len(s) - 1
      /\ \A i \in 1..Len(Tail(s)) : Tail(s)[i] = s[i + 1]
  BY HeadTailProperties
<1>3. DOMAIN Tail(s) = 1..(Len(s) - 1)
  BY <1>2, LenProperties
<1>4. \A i \in DOMAIN Tail(s) : i + 1 \in DOMAIN s /\ Tail(s)[i] = s[i + 1] /\ i + 1 # 1
  BY <1>1, <1>2, <1>3
<1>5. \A j \in DOMAIN s : j # 1 => j - 1 \in DOMAIN Tail(s) /\ (j - 1) + 1 = j
  BY <1>1, <1>3
<1>6. 1 \in DOMAIN s
  BY <1>1
<1>7. Range(s) = {Head(s)} \cup Range(Tail(s))
  <2>1. ASSUME NEW x \in Range(s) PROVE x = Head(s) \/ x \in Range(Tail(s))
    <3>1. PICK j \in DOMAIN s : x = s[j]
      BY <2>1 DEF Range
    <3>2. CASE j = 1
      BY <1>1, <3>1, <3>2
    <3>3. CASE j # 1
      <4>1. j - 1 \in DOMAIN Tail(s) /\ x = Tail(s)[j - 1]
        BY <1>4, <1>5, <3>1, <3>3
      <4> QED
        BY <4>1 DEF Range
    <3> QED
      BY <3>2, <3>3
  <2>2. ASSUME NEW x \in Range(Tail(s)) PROVE x \in Range(s)
    BY <1>4, <2>2 DEF Range
  <2>3. Head(s) \in Range(s)
    BY <1>1, <1>6 DEF Range
  <2> QED
    BY <2>1, <2>2, <2>3
<1>8. ASSUME NEW e, OnceIn(s, e)
      PROVE  OnceIn(Tail(s), e) /\ (Head(s) = e => e \notin Range(Tail(s)))
  <2>1. ASSUME NEW i \in DOMAIN Tail(s), NEW j \in DOMAIN Tail(s), Tail(s)[i] = e, Tail(s)[j] = e
        PROVE  i = j
    <3>1. i + 1 = j + 1
      BY <1>4, <1>8, <2>1 DEF OnceIn
    <3>2. i \in Int /\ j \in Int
      BY <1>3
    <3> QED
      BY <3>1, <3>2
  <2>2. ASSUME NEW i \in DOMAIN Tail(s), Tail(s)[i] = e, Head(s) = e PROVE FALSE
    BY <1>1, <1>4, <1>6, <1>8, <2>2 DEF OnceIn
  <2> QED
    BY <2>1, <2>2 DEF OnceIn, Range
<1>9. ASSUME NEW e, NEW f, InOrder(s, e, f)
      PROVE  InOrder(Tail(s), e, f) /\ (Head(s) = f => e \notin Range(s))
  <2>1. ASSUME NEW i \in DOMAIN Tail(s), NEW j \in DOMAIN Tail(s), Tail(s)[i] = e, Tail(s)[j] = f
        PROVE  i < j
    <3>1. i + 1 < j + 1
      BY <1>4, <1>9, <2>1 DEF InOrder
    <3>2. i \in Int /\ j \in Int
      BY <1>3
    <3> QED
      BY <3>1, <3>2
  <2>2. ASSUME NEW i \in DOMAIN s, s[i] = e, Head(s) = f PROVE FALSE
    <3>1. i < 1
      BY <1>1, <1>6, <1>9, <2>2 DEF InOrder
    <3> QED
      BY <1>1, <3>1
  <2> QED
    BY <2>1, <2>2 DEF InOrder, Range
<1>10. Tail(s) # <<>> => LastOf(Tail(s)) = LastOf(s)
  <2>1. SUFFICES ASSUME Tail(s) # <<>> PROVE LastOf(Tail(s)) = LastOf(s)
    OBVIOUS
  <2>2. Len(Tail(s)) # 0 /\ Len(Tail(s)) \in Nat
    BY <1>2, <2>1, EmptySeq, LenProperties
  <2>3. Len(Tail(s)) \in 1..Len(Tail(s)) /\ Len(Tail(s)) + 1 = Len(s)
    BY <1>1, <1>2, <2>2
  <2> QED
    BY <1>2, <2>3 DEF LastOf
<1> QED
  BY <1>1, <1>2, <1>7, <1>8, <1>9, <1>10

\* A queue with something at its end.
LEMMA AppendQueue ==
  ASSUME NEW S, NEW s \in Seq(S), NEW x \in S
  PROVE  /\ Append(s, x) \in Seq(S) /\ Append(s, x) # <<>> /\ LastOf(Append(s, x)) = x
         /\ Range(Append(s, x)) = Range(s) \cup {x}
         /\ \A e : OnceIn(s, e) /\ (x = e => e \notin Range(s)) => OnceIn(Append(s, x), e)
         /\ \A e, f : e # f /\ InOrder(s, e, f) /\ (x = e => f \notin Range(s))
                         => InOrder(Append(s, x), e, f)
<1>1. /\ Len(s) \in Nat /\ DOMAIN s = 1..Len(s) /\ Append(s, x) \in Seq(S)
      /\ Len(Append(s, x)) = Len(s) + 1
      /\ DOMAIN Append(s, x) = 1..(Len(s) + 1)
      /\ \A i \in 1..Len(s) : Append(s, x)[i] = s[i]
      /\ Append(s, x)[Len(s) + 1] = x
  BY LenProperties, AppendProperties
<1>2. \A i \in DOMAIN Append(s, x) : \/ i \in DOMAIN s /\ Append(s, x)[i] = s[i]
                                     \/ i = Len(s) + 1 /\ Append(s, x)[i] = x
  BY <1>1
<1>3. \A i \in DOMAIN s : i \in DOMAIN Append(s, x) /\ Append(s, x)[i] = s[i] /\ i < Len(s) + 1
  BY <1>1
<1>4. Len(s) + 1 \in DOMAIN Append(s, x)
  BY <1>1
<1>5. Append(s, x) # <<>>
  BY <1>1, EmptySeq
<1>6. Range(Append(s, x)) = Range(s) \cup {x}
  BY <1>1, <1>2, <1>3, <1>4 DEF Range
<1>7. ASSUME NEW e, OnceIn(s, e), x = e => e \notin Range(s) PROVE OnceIn(Append(s, x), e)
  BY <1>2, <1>7 DEF OnceIn, Range
<1>8. ASSUME NEW e, NEW f, e # f, InOrder(s, e, f), x = e => f \notin Range(s)
      PROVE  InOrder(Append(s, x), e, f)
  <2>1. SUFFICES ASSUME NEW i \in DOMAIN Append(s, x), NEW j \in DOMAIN Append(s, x),
                        Append(s, x)[i] = e, Append(s, x)[j] = f
                 PROVE  i < j
    BY DEF InOrder
  <2>2. CASE i \in DOMAIN s
    BY <1>2, <1>3, <1>8, <2>1, <2>2 DEF InOrder
  <2>3. CASE i \notin DOMAIN s
    <3>1. x = e
      BY <1>2, <2>1, <2>3
    <3>2. j \in DOMAIN s /\ s[j] = f
      BY <1>2, <1>8, <2>1, <3>1
    <3> QED
      BY <1>8, <3>1, <3>2 DEF Range
  <2> QED
    BY <2>2, <2>3
<1> QED
  BY <1>1, <1>5, <1>6, <1>7, <1>8 DEF LastOf

\* An empty queue holds nothing.
LEMMA EmptyQueue ==
  /\ Range(<<>>) = {} /\ \A e : OnceIn(<<>>, e)
  /\ \A S : \A s \in Seq(S) : (Range(s) = {} => s = <<>>) /\ (s = <<>> => Range(s) = {})
<1>1. DOMAIN <<>> = {}
  OBVIOUS
<1>2. ASSUME NEW S, NEW s \in Seq(S), s # <<>> PROVE Range(s) # {}
  BY <1>2, TailQueue
<1> QED
  BY <1>1, <1>2 DEF Range, OnceIn

\* A queue of one.
LEMMA OneQueue ==
  ASSUME NEW x
  PROVE  Range(<<x>>) = {x} /\ Tail(<<x>>) = <<>> /\ Head(<<x>>) = x
BY DEF Range

-----------------------------------------------------------------------------
(* The tree of tasks.                                                      *)

USE NodesAssumption, ParallelAssumption

\* A task u may fork b: b is a branch of a node u's walk may come to.
IsParent(u, b) == \E n \in Walk[u] : b \in Forked(n)

\* A task with those that may have forked it, directly or through others.
Above == [t \in Node |->
  {w \in Node : \A S \in SUBSET Node :
     t \in S /\ (\A x \in S : \A v \in Task : IsParent(v, x) => v \in S) => w \in S}]

\* Tasks are nodes.
LEMMA TaskInNode == Task \subseteq Node
BY ForkedInNode DEF Task

\* The nodes of a walk are its first one and nodes downstream of it.
LEMMA WalkIsDown ==
  ASSUME NEW t \in Node, NEW n \in Walk[t]
  PROVE  n \in Node /\ (n = t \/ n \in Downstream[t])
<1> DEFINE S == {m \in Node : m = t \/ m \in Downstream[t]}
<1>1. ASSUME NEW m \in S, NEW k \in Onward(m) PROVE k \in S
  <2>1. k \in Node /\ k \in Downstream[m] /\ m \in Node
    BY <1>1, OnwardIsDown
  <2>2. CASE m = t
    BY <2>1, <2>2
  <2>3. CASE m \in Downstream[t]
    BY <2>1, <2>3, DownIsTransitive
  <2> QED
    BY <1>1, <2>1, <2>2, <2>3
<1>2. S \in SUBSET Node /\ t \in S
  OBVIOUS
<1> HIDE DEF S
<1>3. n \in S
  BY <1>1, <1>2 DEF Walk
<1> QED
  BY <1>3 DEF S

\* A branch is downstream of the task that forks it, which is another one.
LEMMA ChildIsDown ==
  ASSUME NEW u \in Node, NEW b, IsParent(u, b)
  PROVE  b \in Branch /\ b \in Node /\ b \in Downstream[u] /\ b # u /\ b \in Task
<1>1. PICK n \in Walk[u] : b \in Forked(n)
  BY DEF IsParent
<1>2. n \in Node /\ (n = u \/ n \in Downstream[u])
  BY WalkIsDown
<1>3. b \in Branch /\ b \in Node /\ b \in Downstream[n] /\ b \in Task
  BY <1>1, <1>2, ForkedTypes DEF Task
<1>4. b \in Downstream[u]
  BY <1>2, <1>3, DownIsTransitive
<1> QED
  BY <1>3, <1>4, AcyclicAssumption

\* Nobody has two parents.
LEMMA OneParent ==
  ASSUME NEW u \in Task, NEW v \in Task, NEW b, IsParent(u, b), IsParent(v, b)
  PROVE  u = v
BY OneForker DEF IsParent

\* A task is above itself, and with a task its parents are above it.
LEMMA AboveTypes ==
  ASSUME NEW t \in Node
  PROVE  /\ t \in Above[t] /\ Above[t] \subseteq Node
         /\ \A x \in Above[t] : \A v \in Task : IsParent(v, x) => v \in Above[t]
<1>1. t \in Above[t] /\ Above[t] \subseteq Node
  BY DEF Above
<1>2. ASSUME NEW x \in Above[t], NEW v \in Task, IsParent(v, x) PROVE v \in Above[t]
  <2>1. v \in Node
    BY TaskInNode
  <2>2. ASSUME NEW S \in SUBSET Node, t \in S,
               \A y \in S : \A w \in Task : IsParent(w, y) => w \in S
        PROVE  v \in S
    <3>1. x \in S
      BY <2>2 DEF Above
    <3> QED
      BY <1>2, <2>2, <3>1
  <2> QED
    BY <2>1, <2>2 DEF Above
<1> QED
  BY <1>1, <1>2

\* A set of tasks that holds the parents of its tasks holds all above them.
LEMMA AboveLeast ==
  ASSUME NEW t \in Node, NEW S \in SUBSET Node, t \in S,
         \A x \in S : \A v \in Task : IsParent(v, x) => v \in S
  PROVE  Above[t] \subseteq S
BY DEF Above

\* What is above a task above t is above t.
LEMMA AboveTrans ==
  ASSUME NEW t \in Node, NEW w \in Above[t]
  PROVE  Above[w] \subseteq Above[t]
<1>1. w \in Node /\ Above[t] \in SUBSET Node
  BY AboveTypes
<1> QED
  BY <1>1, AboveTypes, AboveLeast

\* A task is downstream of those above it.
LEMMA AboveIsDown ==
  ASSUME NEW t \in Node, NEW w \in Above[t]
  PROVE  w \in Node /\ (w = t \/ t \in Downstream[w])
<1> DEFINE S == {x \in Node : x = t \/ t \in Downstream[x]}
<1>1. ASSUME NEW x \in S, NEW v \in Task, IsParent(v, x) PROVE v \in S
  <2>1. v \in Node /\ x \in Downstream[v]
    BY <1>1, TaskInNode, ChildIsDown
  <2>2. x = t \/ t \in Downstream[x]
    BY <1>1
  <2>3. t \in Downstream[v]
    BY <2>1, <2>2, DownIsTransitive
  <2> QED
    BY <2>1, <2>3
<1>2. S \in SUBSET Node /\ t \in S
  OBVIOUS
<1> HIDE DEF S
<1>3. w \in S
  BY <1>1, <1>2, AboveLeast
<1> QED
  BY <1>3 DEF S

\* No two tasks are above each other.
LEMMA AboveApart ==
  ASSUME NEW t \in Node, NEW w \in Node, w \in Above[t], t \in Above[w]
  PROVE  t = w
<1>1. SUFFICES ASSUME t # w PROVE FALSE
  OBVIOUS
<1>2. t \in Downstream[w] /\ w \in Downstream[t]
  BY <1>1, AboveIsDown
<1>3. t \in Downstream[t]
  BY <1>2, DownIsTransitive
<1> QED
  BY <1>3, AcyclicAssumption

\* Who is above a task is above its parent, which is strictly above it.
LEMMA AboveParent ==
  ASSUME NEW u \in Task, NEW t \in Node, IsParent(u, t)
  PROVE  /\ u \in Node /\ u # t /\ u \in Above[t] /\ t \notin Above[u]
         /\ Above[u] \subseteq Above[t]
         /\ \A w \in Above[t] : w # t => w \in Above[u]
<1>1. u \in Node /\ u # t
  BY TaskInNode, ChildIsDown
<1>2. u \in Above[t]
  BY AboveTypes
<1>3. t \notin Above[u]
  BY <1>1, <1>2, AboveApart
<1>4. Above[u] \subseteq Above[t]
  BY <1>2, AboveTrans
<1> DEFINE S == {t} \cup Above[u]
<1>5. S \in SUBSET Node /\ t \in S
  BY <1>1, AboveTypes
<1>6. ASSUME NEW x \in S, NEW v \in Task, IsParent(v, x) PROVE v \in S
  <2>1. CASE x = t
    BY <1>1, <1>6, <2>1, OneParent, AboveTypes
  <2>2. CASE x \in Above[u]
    BY <1>1, <1>6, <2>2, AboveTypes
  <2> QED
    BY <1>6, <2>1, <2>2
<1> HIDE DEF S
<1>7. Above[t] \subseteq S
  BY <1>5, <1>6, AboveLeast
<1> QED
  BY <1>1, <1>2, <1>3, <1>4, <1>7 DEF S

\* Nobody is above the root.
LEMMA AboveRoot == Above[Root] = {Root}
<1>1. ASSUME NEW v \in Task, IsParent(v, Root) PROVE FALSE
  BY <1>1, ChildIsDown, TaskInNode DEF Branch
<1>2. \A x \in {Root} : \A v \in Task : IsParent(v, x) => v \in {Root}
  BY <1>1
<1>3. Above[Root] \subseteq {Root}
  BY <1>2, AboveLeast
<1> QED
  BY <1>3, AboveTypes

\* Where a task's events are on their way, strictly above it, so they are after the
\* next step up.
LEMMA AboveNext ==
  ASSUME NEW t \in Node, NEW v \in Above[t], v # t, NEW p \in Task, IsParent(p, v)
  PROVE  p \in Above[t] /\ p # t
<1>1. v \in Node /\ p \in Node
  BY AboveTypes, TaskInNode
<1>2. p \in Above[v] /\ p # v
  BY <1>1, AboveParent
<1>3. p \in Above[t]
  BY <1>2, AboveTrans
<1>4. p # t
  BY <1>1, <1>2, AboveApart
<1> QED
  BY <1>3, <1>4

-----------------------------------------------------------------------------
(* The tasks that are lost: an invariant of the state's places P, queues   *)
(* Q, submitted branches F, counts K and forkers G, kept by the parts that *)
(* the steps are made of.                                                  *)

\* Where a fork waits for its branches, where a task has ended, where nothing is
\* left to wait for.
Waiting == {"fork", "submit", "listen", "join"}
Ended == {"ending", "finished", "done"}
Quiet == {"idle", "finished", "done"}

IsEnd(e) == e.kind \in {"BranchSucceeded", "BranchFailed"}
Won(b)  == [kind |-> "BranchSucceeded", node |-> b]
Lost(b) == [kind |-> "BranchFailed", node |-> b]

\* The branches whose success a fork has counted: they have ended, are not lost, and
\* their success is not in its queue s any more.
Counted(s, ended, L) == {b \in ended : b \notin L /\ Won(b) \notin Range(s)}

\* What a fork at p that has submitted f, of which some have ended, and has counted k
\* knows of them: with its queue s that is all there is to know.
Listened(p, s, f, ended, k, L) ==
  /\ f = {} => s = <<>>
  /\ \A b \in f : OnceIn(s, Won(b))
  /\ k = Cardinality(Counted(s, ended, L))
  /\ None \in Range(s) => s = <<None>> /\ Counted(s, ended, L) = f /\ p = "listen"
  /\ ended = f /\ s # <<>> /\ None \notin Range(s) => IsEnd(LastOf(s)) /\ LastOf(s).node \in f
  /\ p = "join" => Counted(s, ended, L) = f /\ s = <<>>

EndedOf(f, P) == {b \in f : P[b] \in Ended}

Typed(P, Q, F, K, G) ==
  /\ P \in [Node -> Where] /\ Q \in [Node -> Seq(Event)]
  /\ F \in [Node -> SUBSET Branch] /\ K \in [Node -> Nat] /\ G \in [Node -> Node \cup {NoNode}]

\* Branches are forked by who may fork them, all of them under the root.
Rooted(P, F, G) ==
  /\ \A b \in Branch : P[b] # "idle" => G[b] \in Task /\ IsParent(G[b], b) /\ Root \in Above[b]
  /\ \A t \in Node : \A b \in F[t] : P[b] # "idle" /\ G[b] = t

\* L: the tasks that are lost, whose walk raised or whose run was given up.
LostPlaces(P, L) ==
  /\ L \subseteq Node /\ \A t \in L : P[t] \in Ended \cup {"raise"}
  /\ \A t \in Node : P[t] = "raise" => t \in L

\* A branch that is at work or lost is waited for, or its fork is lost too; the loss of
\* one that has ended is in the fork's queue.
Answered(P, Q, F, G, L) ==
  \A b \in Branch : P[b] \notin Quiet \/ b \in L =>
    /\ b \in F[G[b]]
    /\ G[b] \notin L => /\ P[G[b]] \in Waiting
                        /\ b \in L /\ P[b] \in Ended => Lost(b) \in Range(Q[G[b]])

\* Nothing is put in the queue of a task that does not listen.
Drained(P, Q, L) == \A t \in Node \ L : P[t] \notin Waiting => Q[t] = <<>>

\* An end in a queue is that of a branch that ended so, on its way up.
EndsRight(P, Q, L) ==
  \A v \in Node : \A e \in Range(Q[v]) : IsEnd(e) =>
    /\ e.node \in Branch /\ P[e.node] \in Ended /\ (e.kind = "BranchFailed" <=> e.node \in L)
    /\ v \in Above[e.node] /\ v # e.node

QueuesRight(P, Q, F, K, L) ==
  \A t \in Node : P[t] \in Waiting =>
    Listened(P[t], Q[t], F[t], EndedOf(F[t], P), K[t], L)

LostRight(P, Q, F, K, G, L) ==
  /\ Typed(P, Q, F, K, G) /\ Rooted(P, F, G) /\ LostPlaces(P, L) /\ Answered(P, Q, F, G, L)
  /\ Drained(P, Q, L) /\ EndsRight(P, Q, L) /\ QueuesRight(P, Q, F, K, L)

LostInv == \E L \in SUBSET Node : LostRight(pc, q, futures, okay, forker, L)

\* A fork under way has submitted what was started of the branches of its node.
ForkedInv ==
  \A t \in Node : pc[t] \in Waiting =>
    \A b \in Forked(node[t]) : pc[b] # "idle" => b \in futures[t]

\* What is counted of a fork's branches does not hang on who else is lost.
LEMMA CountedSame ==
  ASSUME NEW s, NEW d, NEW L, NEW x, x \notin d
  PROVE  Counted(s, d, L \cup {x}) = Counted(s, d, L)
BY DEF Counted

\* The kinds of events.
LEMMA EventKinds ==
  /\ None \in Event /\ ~IsEnd(None) /\ None.kind \notin NodeStatus
  /\ \A b \in Branch : Won(b) \in Event /\ Lost(b) \in Event /\ Won(b) # Lost(b)
                       /\ Won(b) # None /\ Lost(b) # None
  /\ \A b \in Branch : IsEnd(Won(b)) /\ IsEnd(Lost(b)) /\ Won(b).node = b /\ Lost(b).node = b
                       /\ Won(b).kind = "BranchSucceeded" /\ Lost(b).kind = "BranchFailed"
  /\ \A e \in Event : IsEnd(e) => /\ e.node \in Node /\ e.kind \notin NodeStatus
                                  /\ e = IF e.kind = "BranchFailed" THEN Lost(e.node) ELSE Won(e.node)
  /\ \A e \in Event : e # None => e.node \in Node /\ (IsEnd(e) \/ e.kind \in NodeStatus \ {"idle"})
<1>1. ASSUME NEW b \in Branch
      PROVE  /\ Won(b) \in Event /\ Lost(b) \in Event /\ Won(b) # Lost(b)
             /\ Won(b) # None /\ Lost(b) # None
             /\ IsEnd(Won(b)) /\ IsEnd(Lost(b)) /\ Won(b).node = b /\ Lost(b).node = b
             /\ Won(b).kind = "BranchSucceeded" /\ Lost(b).kind = "BranchFailed"
  BY DEF Won, Lost, None, Event, IsEnd, Branch
<1>2. None \in Event /\ ~IsEnd(None) /\ None.kind \notin NodeStatus
  BY DEF None, Event, IsEnd, NodeStatus
<1>3. ASSUME NEW e \in Event
      PROVE  /\ IsEnd(e) => /\ e.node \in Node /\ e.kind \notin NodeStatus
                            /\ e = IF e.kind = "BranchFailed" THEN Lost(e.node) ELSE Won(e.node)
             /\ e # None => e.node \in Node /\ (IsEnd(e) \/ e.kind \in NodeStatus \ {"idle"})
  BY DEF Won, Lost, None, Event, IsEnd, NodeStatus
<1> QED
  BY <1>1, <1>2, <1>3

\* A task goes from one place to another, in nobody's disfavour.
LEMMA Moving ==
  ASSUME NEW P, NEW Q, NEW F, NEW K, NEW G, NEW L, LostRight(P, Q, F, K, G, L),
         NEW t \in Node, NEW p \in Where \ {"idle", "raise"}, P[t] # "idle",
         t \in L => p \in Ended,
         t \in Branch => (P[t] \in Ended <=> p \in Ended) /\ (P[t] \in Quiet => p \in Quiet),
         p \in Waiting => \/ P[t] \in {"fork", "submit"} /\ p # "join"
                          \/ p = "join" /\ Q[t] = <<>> /\ P[t] \in Waiting
                             /\ Counted(Q[t], EndedOf(F[t], P), L) = F[t],
         P[t] \in Waiting /\ p \notin Waiting => P[t] = "join" /\ \A b \in F[t] : P[b] \in Quiet
  PROVE  LostRight([P EXCEPT ![t] = p], Q, F, K, G, L)
<1> DEFINE R == [P EXCEPT ![t] = p]
<1>1. /\ Typed(P, Q, F, K, G) /\ Rooted(P, F, G) /\ LostPlaces(P, L) /\ Answered(P, Q, F, G, L)
      /\ Drained(P, Q, L) /\ EndsRight(P, Q, L) /\ QueuesRight(P, Q, F, K, L)
  BY DEF LostRight
<1>2. /\ R[t] = p /\ (\A u \in Node : u # t => R[u] = P[u]) /\ R \in [Node -> Where]
      /\ P \in [Node -> Where]
  BY <1>1 DEF Typed
<1>3. \A u \in Node : EndedOf(F[u], R) = EndedOf(F[u], P)
  <2>1. ASSUME NEW f \in SUBSET Branch PROVE EndedOf(f, R) = EndedOf(f, P)
    <3> HIDE DEF R
    <3> QED
      BY <1>2 DEF EndedOf, Branch
  <2> QED
    BY <1>1, <2>1 DEF Typed
<1> HIDE DEF R
<1>4. Typed(R, Q, F, K, G)
  BY <1>1, <1>2 DEF Typed
<1>5. Rooted(R, F, G)
  BY <1>1, <1>2 DEF Rooted, Typed, Branch
<1>6. LostPlaces(R, L)
  BY <1>1, <1>2 DEF LostPlaces
<1>7. QueuesRight(R, Q, F, K, L)
  <2>1. SUFFICES ASSUME NEW u \in Node, R[u] \in Waiting
                 PROVE  Listened(R[u], Q[u], F[u], EndedOf(F[u], P), K[u], L)
    BY <1>3 DEF QueuesRight
  <2>2. CASE u # t
    BY <1>1, <1>2, <2>1, <2>2 DEF QueuesRight
  <2>3. CASE u = t
    <3>1. P[t] \in Waiting /\ Listened(P[t], Q[t], F[t], EndedOf(F[t], P), K[t], L)
      BY <1>1, <1>2, <2>1, <2>3 DEF QueuesRight, Waiting
    <3>2. Q[t] = <<>> => None \notin Range(Q[t])
      BY EmptyQueue
    <3> QED
      BY <1>2, <2>1, <2>3, <3>1, <3>2 DEF Listened
  <2> QED
    BY <2>2, <2>3
<1>8. Drained(R, Q, L)
  <2>1. SUFFICES ASSUME NEW u \in Node \ L, R[u] \notin Waiting PROVE Q[u] = <<>>
    BY DEF Drained
  <2>2. CASE P[u] \notin Waiting
    BY <1>1, <2>1, <2>2 DEF Drained
  <2>3. CASE P[u] \in Waiting
    <3>1. u = t /\ P[t] = "join"
      BY <1>2, <2>1, <2>3
    <3> QED
      BY <1>1, <3>1 DEF QueuesRight, Listened, Waiting
  <2> QED
    BY <2>2, <2>3
<1>9. EndsRight(R, Q, L)
  <2>1. ASSUME NEW v \in Node, NEW e \in Range(Q[v]), IsEnd(e)
        PROVE  e.node \in Branch /\ R[e.node] \in Ended
    BY <1>1, <1>2, <2>1 DEF EndsRight, Branch
  <2> QED
    BY <1>1, <2>1 DEF EndsRight
<1>10. Answered(R, Q, F, G, L)
  <2>1. SUFFICES ASSUME NEW b \in Branch, R[b] \notin Quiet \/ b \in L
                 PROVE  /\ b \in F[G[b]]
                        /\ G[b] \notin L => /\ R[G[b]] \in Waiting
                                            /\ b \in L /\ R[b] \in Ended => Lost(b) \in Range(Q[G[b]])
    BY DEF Answered
  <2>2. (P[b] \notin Quiet \/ b \in L) /\ b \in Node
    BY <1>2, <2>1 DEF Branch
  <2>3. R[b] \in Ended => P[b] \in Ended
    BY <1>2, <2>2
  <2>4. /\ b \in F[G[b]]
        /\ G[b] \notin L => /\ P[G[b]] \in Waiting
                            /\ b \in L /\ P[b] \in Ended => Lost(b) \in Range(Q[G[b]])
    BY <1>1, <2>2 DEF Answered
  <2>5. P[b] # "idle"
    BY <1>1, <2>2 DEF LostPlaces, Quiet, Ended
  <2>6. G[b] \in Node
    BY <1>1, <2>5, TaskInNode DEF Rooted
  <2>7. ASSUME G[b] \notin L PROVE R[G[b]] \in Waiting
    <3>1. SUFFICES ASSUME G[b] = t, p \notin Waiting PROVE FALSE
      BY <1>2, <2>4, <2>6, <2>7
    <3>2. P[t] = "join" /\ P[b] \in Quiet
      BY <2>4, <2>7, <3>1
    <3>3. b \in L
      BY <2>2, <3>2
    <3>4. b \notin L
      BY <1>1, <2>4, <3>1, <3>2 DEF QueuesRight, Listened, Counted, Waiting
    <3> QED
      BY <3>3, <3>4
  <2> QED
    BY <2>3, <2>4, <2>7
<1> QED
  BY <1>4, <1>5, <1>6, <1>7, <1>8, <1>9, <1>10 DEF LostRight, R

\* A task at work raises, or its run is given up: it is lost.
LEMMA Losing ==
  ASSUME NEW P, NEW Q, NEW F, NEW K, NEW G, NEW L, LostRight(P, Q, F, K, G, L),
         NEW t \in Node, NEW p \in {"raise", "done"}, P[t] # "idle",
         t \in Branch => p = "raise" /\ P[t] \notin Ended
  PROVE  LostRight([P EXCEPT ![t] = p], Q, F, K, G, L \cup {t})
<1> DEFINE R == [P EXCEPT ![t] = p]
           M == L \cup {t}
<1>1. /\ Typed(P, Q, F, K, G) /\ Rooted(P, F, G) /\ LostPlaces(P, L) /\ Answered(P, Q, F, G, L)
      /\ Drained(P, Q, L) /\ EndsRight(P, Q, L) /\ QueuesRight(P, Q, F, K, L)
  BY DEF LostRight
<1>2. /\ R[t] = p /\ (\A u \in Node : u # t => R[u] = P[u]) /\ R \in [Node -> Where]
      /\ P \in [Node -> Where] /\ p \notin Waiting /\ p \in Ended \cup {"raise"}
  BY <1>1 DEF Typed, Where, Waiting, Ended
<1>3. \A u \in Node : EndedOf(F[u], R) = EndedOf(F[u], P) /\ t \notin EndedOf(F[u], P)
  <2>1. ASSUME NEW f \in SUBSET Branch
        PROVE  EndedOf(f, R) = EndedOf(f, P) /\ t \notin EndedOf(f, P)
    <3>1. "raise" \notin Ended
      BY DEF Ended
    <3> HIDE DEF R
    <3> QED
      BY <1>2, <3>1 DEF EndedOf, Branch
  <2> QED
    BY <1>1, <2>1 DEF Typed
<1> HIDE DEF R
<1>4. Typed(R, Q, F, K, G)
  BY <1>1, <1>2 DEF Typed
<1>5. Rooted(R, F, G)
  BY <1>1, <1>2 DEF Rooted, Typed, Branch
<1>6. LostPlaces(R, M)
  BY <1>1, <1>2 DEF LostPlaces
<1>7. QueuesRight(R, Q, F, K, M)
  <2>1. SUFFICES ASSUME NEW u \in Node, R[u] \in Waiting
                 PROVE  Listened(R[u], Q[u], F[u], EndedOf(F[u], P), K[u], M)
    BY <1>3 DEF QueuesRight
  <2>2. u # t
    BY <1>2, <2>1
  <2>3. Listened(P[u], Q[u], F[u], EndedOf(F[u], P), K[u], L)
    BY <1>1, <1>2, <2>1, <2>2 DEF QueuesRight
  <2>4. Counted(Q[u], EndedOf(F[u], P), M) = Counted(Q[u], EndedOf(F[u], P), L)
    BY <1>3, CountedSame
  <2> QED
    BY <1>2, <2>2, <2>3, <2>4 DEF Listened
<1>8. Drained(R, Q, M)
  BY <1>1, <1>2 DEF Drained
<1>9. EndsRight(R, Q, M)
  <2>1. SUFFICES ASSUME NEW v \in Node, NEW e \in Range(Q[v]), IsEnd(e)
        PROVE  e.node \in Branch /\ R[e.node] \in Ended /\ (e.node \in M <=> e.node \in L)
    BY <1>1 DEF EndsRight
  <2>2. e.node \in Branch /\ P[e.node] \in Ended
    BY <1>1, <2>1 DEF EndsRight
  <2>3. e.node # t /\ e.node \in Node
    BY <2>2 DEF Branch
  <2> QED
    BY <1>2, <2>2, <2>3
<1>10. Answered(R, Q, F, G, M)
  <2>1. SUFFICES ASSUME NEW b \in Branch, R[b] \notin Quiet \/ b \in M
                 PROVE  /\ b \in F[G[b]]
                        /\ G[b] \notin M => /\ R[G[b]] \in Waiting
                                            /\ b \in M /\ R[b] \in Ended => Lost(b) \in Range(Q[G[b]])
    BY DEF Answered
  <2>2. (P[b] \notin Quiet \/ b \in L) /\ b \in Node
    <3>1. t \in Branch => P[t] \notin Quiet
      BY DEF Quiet, Ended
    <3> QED
      BY <1>2, <2>1, <3>1 DEF Branch
  <2>3. R[b] \in Ended => P[b] \in Ended /\ b # t
    BY <1>2, <2>2 DEF Ended
  <2>4. /\ b \in F[G[b]]
        /\ G[b] \notin L => /\ P[G[b]] \in Waiting
                            /\ b \in L /\ P[b] \in Ended => Lost(b) \in Range(Q[G[b]])
    BY <1>1, <2>2 DEF Answered
  <2>5. P[b] # "idle"
    BY <1>1, <2>2 DEF LostPlaces, Quiet, Ended
  <2>6. G[b] \in Node
    BY <1>1, <2>5, TaskInNode DEF Rooted
  <2> QED
    BY <1>2, <2>3, <2>4, <2>6
<1> QED
  BY <1>4, <1>5, <1>6, <1>7, <1>8, <1>9, <1>10 DEF LostRight, R

\* What is put in a queue that its fork counts by: something that is no end of one of
\* its branches.
LEMMA ListenedPut ==
  ASSUME NEW p, NEW s \in Seq(Event), NEW f \in SUBSET Branch, NEW d \in SUBSET Branch, NEW k, NEW L,
         NEW e \in Event, e # None, Listened(p, s, f, d, k, L), d \subseteq f, d # f,
         \A b \in f : e # Won(b)
  PROVE  Listened(p, Append(s, e), f, d, k, L)
<1>1. /\ Range(Append(s, e)) = Range(s) \cup {e} /\ Append(s, e) # <<>>
      /\ \A x : OnceIn(s, x) /\ (e = x => x \notin Range(s)) => OnceIn(Append(s, e), x)
  BY AppendQueue
<1>2. Counted(Append(s, e), d, L) = Counted(s, d, L)
  BY <1>1 DEF Counted
<1>3. Counted(s, d, L) # f
  BY DEF Counted
<1>4. None \notin Range(Append(s, e)) /\ p # "join" /\ f # {}
  BY <1>1, <1>3 DEF Listened
<1>5. \A b \in f : OnceIn(Append(s, e), Won(b))
  BY <1>1 DEF Listened
<1> QED
  BY <1>2, <1>4, <1>5 DEF Listened

\* A branch at work tells something, or passes on what it was told.
LEMMA Putting ==
  ASSUME NEW P, NEW Q, NEW F, NEW K, NEW G, NEW L, LostRight(P, Q, F, K, G, L),
         NEW t \in Branch, P[t] # "idle", P[t] \notin Ended,
         NEW e \in Event, e # None, IsEnd(e) => e \in Range(Q[t])
  PROVE  LostRight(P, [Q EXCEPT ![G[t]] = Append(@, e)], F, K, G, L)
<1> DEFINE u == G[t]
           R == [Q EXCEPT ![u] = Append(@, e)]
<1>1. /\ Typed(P, Q, F, K, G) /\ Rooted(P, F, G) /\ LostPlaces(P, L) /\ Answered(P, Q, F, G, L)
      /\ Drained(P, Q, L) /\ EndsRight(P, Q, L) /\ QueuesRight(P, Q, F, K, L)
  BY DEF LostRight
<1>2. u \in Task /\ IsParent(u, t) /\ u \in Node /\ t \in Node
  BY <1>1, TaskInNode DEF Rooted, Branch
<1>3. /\ t \in F[u] /\ (u \in L \/ P[u] \in Waiting)
  <2>1. P[t] \notin Quiet
    BY DEF Quiet, Ended
  <2> QED
    BY <1>1, <2>1 DEF Answered
<1>4. /\ Q \in [Node -> Seq(Event)] /\ F \in [Node -> SUBSET Branch]
      /\ R[u] = Append(Q[u], e) /\ (\A v \in Node : v # u => R[v] = Q[v])
      /\ R \in [Node -> Seq(Event)]
  <2>1. Q \in [Node -> Seq(Event)] /\ F \in [Node -> SUBSET Branch] /\ Append(Q[u], e) \in Seq(Event)
    BY <1>1, <1>2, AppendQueue DEF Typed
  <2> QED
    BY <1>2, <2>1
<1>5. Range(R[u]) = Range(Q[u]) \cup {e}
  BY <1>2, <1>4, AppendQueue
<1> HIDE DEF R, u
<1>6. IsEnd(e) => u \in Above[e.node] /\ u # e.node
  <2>1. SUFFICES ASSUME IsEnd(e) PROVE u \in Above[e.node] /\ u # e.node
    OBVIOUS
  <2>2. t \in Above[e.node] /\ t # e.node /\ e.node \in Node
    BY <1>1, <1>2, <2>1 DEF EndsRight, Branch
  <2> QED
    BY <1>2, <2>2, AboveNext
<1>7. Typed(P, R, F, K, G)
  BY <1>1, <1>4 DEF Typed
<1>8. Answered(P, R, F, G, L)
  BY <1>1, <1>4, <1>5, TaskInNode DEF Answered, Rooted, LostPlaces, Quiet, Ended
<1>9. Drained(P, R, L)
  BY <1>1, <1>3, <1>4 DEF Drained
<1>10. EndsRight(P, R, L)
  <2>1. SUFFICES ASSUME NEW v \in Node, NEW x \in Range(R[v]), IsEnd(x)
                 PROVE  /\ x.node \in Branch /\ P[x.node] \in Ended
                        /\ (x.kind = "BranchFailed" <=> x.node \in L)
                        /\ v \in Above[x.node] /\ v # x.node
    BY DEF EndsRight
  <2>2. CASE x \in Range(Q[v])
    BY <1>1, <2>1, <2>2 DEF EndsRight
  <2>3. CASE x \notin Range(Q[v])
    <3>1. v = u /\ x = e
      BY <1>4, <1>5, <2>1, <2>3
    <3>2. e \in Range(Q[t])
      BY <2>1, <3>1
    <3> QED
      BY <1>1, <1>2, <1>6, <2>1, <3>1, <3>2 DEF EndsRight
  <2> QED
    BY <2>2, <2>3
<1>11. QueuesRight(P, R, F, K, L)
  <2>1. SUFFICES ASSUME NEW v \in Node, P[v] \in Waiting
                 PROVE  Listened(P[v], R[v], F[v], EndedOf(F[v], P), K[v], L)
    BY DEF QueuesRight
  <2>2. Listened(P[v], Q[v], F[v], EndedOf(F[v], P), K[v], L)
    BY <1>1, <2>1 DEF QueuesRight
  <2>3. CASE v # u
    BY <1>4, <2>1, <2>2, <2>3
  <2>4. CASE v = u
    <3>1. t \in F[u] /\ t \notin EndedOf(F[u], P)
      BY <1>3 DEF EndedOf
    <3>2. ASSUME NEW b \in F[u], e = Won(b) PROVE FALSE
      <4>1. b \in Branch
        BY <1>2, <1>4
      <4>2. IsEnd(e) /\ e.node = b
        BY <3>2, <4>1, EventKinds
      <4>3. G[b] = u /\ P[b] # "idle"
        BY <1>1, <1>2 DEF Rooted
      <4>4. b \in Node /\ IsParent(u, b)
        BY <1>1, <4>1, <4>3 DEF Rooted, Branch
      <4>5. e \in Range(Q[t])
        BY <4>2
      <4>6. t \in Above[b] /\ t # b
        BY <1>1, <1>2, <4>2, <4>5 DEF EndsRight
      <4>7. t \in Above[u]
        BY <1>2, <4>4, <4>6, AboveParent
      <4> QED
        BY <1>2, <4>7, AboveParent
    <3>3. Q[u] \in Seq(Event) /\ F[u] \in SUBSET Branch
      BY <1>2, <1>4
    <3>4. EndedOf(F[u], P) \in SUBSET Branch /\ EndedOf(F[u], P) \subseteq F[u]
      BY <3>3 DEF EndedOf
    <3>5. Listened(P[u], Append(Q[u], e), F[u], EndedOf(F[u], P), K[u], L)
      BY <2>2, <2>4, <3>1, <3>2, <3>3, <3>4, ListenedPut
    <3> QED
      BY <1>4, <2>4, <3>5
  <2> QED
    BY <2>3, <2>4
<1> QED
  BY <1>1, <1>7, <1>8, <1>9, <1>10, <1>11 DEF LostRight, R, u

\* A fork takes from its queue what is neither None nor the failure of one of its
\* branches, and counts the successes among its branches.
LEMMA ListenedTaken ==
  ASSUME NEW s \in Seq(Event), s # <<>>, Head(s) # None,
         NEW f \in SUBSET Branch, NEW d \in SUBSET Branch, NEW k \in Nat, NEW L,
         Listened("listen", s, f, d, k, L), d \subseteq f,
         \A b \in f : Head(s) = Won(b) => b \in d /\ b \notin L
  PROVE  Listened("listen", Tail(s), f, d, IF \E b \in f : Head(s) = Won(b) THEN k + 1 ELSE k, L)
<1>1. /\ Range(s) = {Head(s)} \cup Range(Tail(s))
      /\ \A e : OnceIn(s, e) => OnceIn(Tail(s), e) /\ (Head(s) = e => e \notin Range(Tail(s)))
      /\ Tail(s) # <<>> => LastOf(Tail(s)) = LastOf(s)
  BY TailQueue
<1>2. f # {} /\ \A b \in f : OnceIn(s, Won(b))
  BY DEF Listened
<1>3. None \notin Range(s) /\ None \notin Range(Tail(s))
  BY <1>1, OneQueue DEF Listened
<1>4. \A b \in f : OnceIn(Tail(s), Won(b))
  BY <1>1, <1>2
<1>5. d = f /\ Tail(s) # <<>> => IsEnd(LastOf(Tail(s))) /\ LastOf(Tail(s)).node \in f
  BY <1>1, <1>3 DEF Listened
<1>6. IsFiniteSet(Counted(s, d, L)) /\ k = Cardinality(Counted(s, d, L))
  <2>1. Counted(s, d, L) \subseteq Node
    BY DEF Counted, Branch
  <2> QED
    BY <2>1, FS_Subset DEF Listened
<1>7. (IF \E b \in f : Head(s) = Won(b) THEN k + 1 ELSE k) = Cardinality(Counted(Tail(s), d, L))
  <2>1. ASSUME NEW b \in f, Head(s) = Won(b)
        PROVE  k + 1 = Cardinality(Counted(Tail(s), d, L))
    <3>1. b \in d /\ b \notin L /\ Won(b) \in Range(s) /\ Won(b) \notin Range(Tail(s))
      BY <1>1, <1>2, <2>1
    <3>2. \A c \in d : Won(c) = Won(b) => c = b
      BY DEF Won
    <3>3. Counted(Tail(s), d, L) = Counted(s, d, L) \cup {b} /\ b \notin Counted(s, d, L)
      BY <1>1, <2>1, <3>1, <3>2 DEF Counted
    <3> QED
      BY <1>6, <3>3, FS_AddElement
  <2>2. ASSUME ~\E b \in f : Head(s) = Won(b)
        PROVE  Counted(Tail(s), d, L) = Counted(s, d, L)
    BY <1>1, <2>2 DEF Counted
  <2> QED
    BY <1>6, <2>1, <2>2
<1> QED
  BY <1>2, <1>3, <1>4, <1>5, <1>7 DEF Listened

\* A task that takes an event from its queue, counting it when a branch of its has won.
LEMMA Taking ==
  ASSUME NEW P, NEW Q, NEW F, NEW K, NEW G, NEW L, LostRight(P, Q, F, K, G, L),
         NEW t \in Node, Q[t] # <<>>, Head(Q[t]) # None, P[t] = "listen" \/ t \in L,
         t \notin L => \A b \in F[t] : Head(Q[t]) # Lost(b),
         NEW k \in Nat,
         t \notin L => k = IF \E b \in F[t] : Head(Q[t]) = Won(b) THEN K[t] + 1 ELSE K[t]
  PROVE  LostRight(P, [Q EXCEPT ![t] = Tail(@)], F, [K EXCEPT ![t] = k], G, L)
<1> DEFINE R == [Q EXCEPT ![t] = Tail(@)]
           J == [K EXCEPT ![t] = k]
<1>1. /\ Typed(P, Q, F, K, G) /\ Rooted(P, F, G) /\ LostPlaces(P, L) /\ Answered(P, Q, F, G, L)
      /\ Drained(P, Q, L) /\ EndsRight(P, Q, L) /\ QueuesRight(P, Q, F, K, L)
  BY DEF LostRight
<1>2. /\ Q \in [Node -> Seq(Event)] /\ F \in [Node -> SUBSET Branch] /\ K \in [Node -> Nat]
      /\ R[t] = Tail(Q[t]) /\ (\A v \in Node : v # t => R[v] = Q[v] /\ J[v] = K[v])
      /\ J[t] = k /\ J \in [Node -> Nat]
  BY <1>1 DEF Typed
<1>3. /\ R \in [Node -> Seq(Event)] /\ Range(Q[t]) = {Head(Q[t])} \cup Range(R[t])
  <2>1. Tail(Q[t]) \in Seq(Event) /\ Range(Q[t]) = {Head(Q[t])} \cup Range(Tail(Q[t]))
    BY <1>2, TailQueue
  <2> QED
    BY <1>2, <2>1
<1> HIDE DEF R, J
<1>4. Typed(P, R, F, J, G)
  BY <1>1, <1>2, <1>3 DEF Typed
<1>5. P[t] = "listen" => t \notin L
  BY <1>1 DEF LostPlaces, Ended
<1>6. Answered(P, R, F, G, L)
  <2>1. SUFFICES ASSUME NEW b \in Branch, P[b] \in Ended, b \in L, G[b] \notin L,
                        b \in F[G[b]], Lost(b) \in Range(Q[G[b]])
                 PROVE  Lost(b) \in Range(R[G[b]])
    BY <1>1 DEF Answered
  <2>2. G[b] \in Node
    BY <1>1, <2>1, TaskInNode DEF Rooted, Ended
  <2> QED
    BY <1>2, <1>3, <2>1, <2>2
<1>7. Drained(P, R, L)
  <2>1. SUFFICES ASSUME NEW u \in Node \ L, P[u] \notin Waiting PROVE R[u] = <<>>
    BY DEF Drained
  <2>2. Q[u] = <<>>
    BY <1>1, <2>1 DEF Drained
  <2> QED
    BY <1>2, <2>1, <2>2
<1>8. EndsRight(P, R, L)
  <2>1. \A v \in Node : Range(R[v]) \subseteq Range(Q[v])
    BY <1>2, <1>3
  <2> QED
    BY <1>1, <2>1 DEF EndsRight
<1>9. QueuesRight(P, R, F, J, L)
  <2>1. SUFFICES ASSUME NEW v \in Node, P[v] \in Waiting
                 PROVE  Listened(P[v], R[v], F[v], EndedOf(F[v], P), J[v], L)
    BY DEF QueuesRight
  <2>2. Listened(P[v], Q[v], F[v], EndedOf(F[v], P), K[v], L)
    BY <1>1, <2>1 DEF QueuesRight
  <2>3. CASE v # t
    BY <1>2, <2>1, <2>2, <2>3
  <2>4. CASE v = t
    <3>1. P[t] = "listen" /\ t \notin L
      BY <1>1, <1>5, <2>1, <2>4 DEF LostPlaces, Waiting, Ended
    <3>2. Q[t] \in Seq(Event) /\ F[t] \in SUBSET Branch /\ K[t] \in Nat
      BY <1>2
    <3>3. EndedOf(F[t], P) \in SUBSET Branch /\ EndedOf(F[t], P) \subseteq F[t]
      BY <3>2 DEF EndedOf
    <3>4. ASSUME NEW b \in F[t], Head(Q[t]) = Won(b) PROVE b \in EndedOf(F[t], P) /\ b \notin L
      <4>1. Won(b) \in Range(Q[t]) /\ b \in Branch
        BY <1>3, <3>2, <3>4
      <4>2. P[b] \in Ended /\ b \notin L
        BY <1>1, <4>1, EventKinds DEF EndsRight
      <4> QED
        BY <4>2 DEF EndedOf
    <3>5. Listened("listen", Tail(Q[t]), F[t], EndedOf(F[t], P),
                   IF \E b \in F[t] : Head(Q[t]) = Won(b) THEN K[t] + 1 ELSE K[t], L)
      <4> DEFINE d == EndedOf(F[t], P)
      <4>1. /\ Listened("listen", Q[t], F[t], d, K[t], L) /\ d \in SUBSET Branch /\ d \subseteq F[t]
            /\ \A b \in F[t] : Head(Q[t]) = Won(b) => b \in d /\ b \notin L
        BY <2>2, <2>4, <3>1, <3>3, <3>4
      <4> HIDE DEF d
      <4>2. Listened("listen", Tail(Q[t]), F[t], d,
                     IF \E b \in F[t] : Head(Q[t]) = Won(b) THEN K[t] + 1 ELSE K[t], L)
        BY <3>2, <4>1, ListenedTaken
      <4> QED
        BY <4>2 DEF d
    <3> QED
      BY <1>2, <2>4, <3>1, <3>5
  <2> QED
    BY <2>3, <2>4
<1> QED
  BY <1>1, <1>4, <1>6, <1>7, <1>8, <1>9 DEF LostRight, R, J

\* When all the branches of a fork have been counted its queue is empty.
LEMMA AllCounted ==
  ASSUME NEW P, NEW Q, NEW F, NEW K, NEW G, NEW L, LostRight(P, Q, F, K, G, L),
         NEW t \in Node, P[t] = "listen", None \notin Range(Q[t]),
         Counted(Q[t], EndedOf(F[t], P), L) = F[t]
  PROVE  Q[t] = <<>>
<1>1. SUFFICES ASSUME Q[t] # <<>> PROVE FALSE
  OBVIOUS
<1>2. EndsRight(P, Q, L) /\ Q[t] \in Seq(Event) /\ F[t] \in SUBSET Branch
      /\ Listened(P[t], Q[t], F[t], EndedOf(F[t], P), K[t], L)
  BY DEF LostRight, Typed, QueuesRight, Waiting
<1>3. EndedOf(F[t], P) = F[t]
  BY DEF Counted, EndedOf
<1> DEFINE e == LastOf(Q[t])
<1>4. IsEnd(e) /\ e.node \in F[t]
  BY <1>1, <1>2, <1>3 DEF Listened
<1>5. e \in Range(Q[t]) /\ e \in Event
  <2>1. Len(Q[t]) \in DOMAIN Q[t]
    BY <1>1, <1>2, LenProperties, EmptySeq
  <2> QED
    BY <1>2, <2>1, LenProperties, ElementOfSeq DEF Range, LastOf
<1> HIDE DEF e
<1>6. e.kind = "BranchFailed" <=> e.node \in L
  BY <1>2, <1>4, <1>5 DEF EndsRight
<1>7. e.node \notin L /\ Won(e.node) \notin Range(Q[t])
  BY <1>4 DEF Counted
<1>8. e = Won(e.node)
  BY <1>4, <1>5, <1>6, <1>7, EventKinds
<1> QED
  BY <1>5, <1>7, <1>8

\* The queues of a fork that has counted all its branches.
Closed == {<<>>, <<None>>}

\* None is put in the queue of a fork whose branches have all been counted, and
\* taken from it.
LEMMA Closing ==
  ASSUME NEW P, NEW Q, NEW F, NEW K, NEW G, NEW L, LostRight(P, Q, F, K, G, L),
         NEW t \in Node, P[t] = "listen", Counted(Q[t], EndedOf(F[t], P), L) = F[t], F[t] # {},
         NEW s \in Closed, None \in Range(Q[t]) \/ Q[t] = <<>>
  PROVE  /\ LostRight(P, [Q EXCEPT ![t] = s], F, K, G, L)
         /\ Counted(s, EndedOf(F[t], P), L) = F[t]
<1> DEFINE R == [Q EXCEPT ![t] = s]
<1>1. /\ Typed(P, Q, F, K, G) /\ Rooted(P, F, G) /\ LostPlaces(P, L) /\ Answered(P, Q, F, G, L)
      /\ Drained(P, Q, L) /\ EndsRight(P, Q, L) /\ QueuesRight(P, Q, F, K, L)
  BY DEF LostRight
<1>0. ~IsEnd(None) /\ \A b \in Branch : Won(b) # None /\ Lost(b) # None
  BY EventKinds
<1>2. Listened("listen", Q[t], F[t], EndedOf(F[t], P), K[t], L)
  BY <1>1 DEF QueuesRight, Waiting
<1>3. Range(Q[t]) \subseteq {None} /\ F[t] \in SUBSET Branch
  <2>1. Q[t] = <<>> \/ Q[t] = <<None>>
    BY <1>2 DEF Listened
  <2> QED
    BY <1>1, <2>1, EmptyQueue, OneQueue DEF Typed
<1>4. s \in Seq(Event) /\ Range(s) \subseteq {None}
  <2>1. None \in Event
    BY EventKinds
  <2>2. <<>> \in Seq(Event) /\ <<None>> \in Seq(Event)
    BY <2>1
  <2>3. Range(<<>>) = {} /\ Range(<<None>>) = {None}
    BY EmptyQueue, OneQueue
  <2> QED
    BY <2>2, <2>3 DEF Closed
<1>5. /\ Q \in [Node -> Seq(Event)] /\ R \in [Node -> Seq(Event)]
      /\ R[t] = s /\ (\A v \in Node : v # t => R[v] = Q[v])
  BY <1>1, <1>4 DEF Typed
<1> HIDE DEF R
<1>6. Typed(P, R, F, K, G)
  BY <1>1, <1>5 DEF Typed
<1>7. Answered(P, R, F, G, L)
  <2>1. SUFFICES ASSUME NEW b \in Branch, P[b] \in Ended, b \in L, G[b] \notin L,
                        b \in F[G[b]], Lost(b) \in Range(Q[G[b]])
                 PROVE  Lost(b) \in Range(R[G[b]])
    BY <1>1 DEF Answered
  <2>2. G[b] \in Node
    BY <1>1, <2>1, TaskInNode DEF Rooted, Ended
  <2>3. G[b] # t
    BY <1>3, <2>1, EventKinds
  <2> QED
    BY <1>5, <2>1, <2>2, <2>3
<1>8. Drained(P, R, L)
  BY <1>1, <1>5 DEF Drained, Waiting
<1>9. EndsRight(P, R, L)
  <2>1. ASSUME NEW v \in Node, NEW e \in Range(R[v]), IsEnd(e) PROVE e \in Range(Q[v])
    BY <1>0, <1>4, <1>5, <2>1
  <2> QED
    BY <1>1, <2>1 DEF EndsRight
<1>10. Counted(s, EndedOf(F[t], P), L) = F[t]
       /\ Counted(s, EndedOf(F[t], P), L) = Counted(Q[t], EndedOf(F[t], P), L)
  <2>1. \A b \in F[t] : Won(b) \notin Range(s)
    BY <1>0, <1>3, <1>4
  <2>2. \A b \in F[t] : Won(b) \notin Range(Q[t])
    BY <1>0, <1>3
  <2>3. EndedOf(F[t], P) \subseteq F[t]
    BY DEF EndedOf
  <2>4. \A b \in F[t] : b \in EndedOf(F[t], P) /\ b \notin L
    BY DEF Counted
  <2>5. Counted(s, EndedOf(F[t], P), L) = F[t]
    BY <2>1, <2>3, <2>4 DEF Counted
  <2> QED
    BY <2>5
<1>11. Listened("listen", s, F[t], EndedOf(F[t], P), K[t], L)
  <2>1. \A b \in F[t] : OnceIn(s, Won(b))
    <3>1. ASSUME NEW b \in F[t], NEW i \in DOMAIN s, s[i] = Won(b) PROVE FALSE
      <4>1. s[i] = None
        BY <1>4 DEF Range
      <4> QED
        BY <1>3, <3>1, <4>1, EventKinds
    <3> QED
      BY <3>1 DEF OnceIn
  <2>2. None \notin Range(s) => s = <<>>
    BY OneQueue DEF Closed
  <2>3. None \in Range(s) => s = <<None>>
    BY EmptyQueue DEF Closed
  <2> QED
    BY <1>2, <1>10, <2>1, <2>2, <2>3 DEF Listened
<1>12. QueuesRight(P, R, F, K, L)
  BY <1>1, <1>5, <1>11 DEF QueuesRight
<1> QED
  BY <1>1, <1>6, <1>7, <1>8, <1>9, <1>10, <1>12 DEF LostRight, R

\* A fork submits a branch.
LEMMA Starting ==
  ASSUME NEW P, NEW Q, NEW F, NEW K, NEW G, NEW L, LostRight(P, Q, F, K, G, L),
         NEW t \in Task, P[t] = "submit", NEW b \in Branch, P[b] = "idle", IsParent(t, b)
  PROVE  LostRight([P EXCEPT ![b] = "queued"], Q, [F EXCEPT ![t] = @ \cup {b}], K,
                   [G EXCEPT ![b] = t], L)
<1> DEFINE R == [P EXCEPT ![b] = "queued"]
           E == [F EXCEPT ![t] = @ \cup {b}]
           H == [G EXCEPT ![b] = t]
<1>1. /\ Typed(P, Q, F, K, G) /\ Rooted(P, F, G) /\ LostPlaces(P, L) /\ Answered(P, Q, F, G, L)
      /\ Drained(P, Q, L) /\ EndsRight(P, Q, L) /\ QueuesRight(P, Q, F, K, L)
  BY DEF LostRight
<1>2. t \in Node /\ b \in Node /\ t # b /\ t \notin L /\ b \notin L
  BY <1>1, TaskInNode DEF Branch, LostPlaces, Ended
<1>3. /\ R[b] = "queued" /\ (\A u \in Node : u # b => R[u] = P[u]) /\ R \in [Node -> Where]
      /\ E[t] = F[t] \cup {b} /\ (\A u \in Node : u # t => E[u] = F[u]) /\ E \in [Node -> SUBSET Branch]
      /\ H[b] = t /\ (\A u \in Node : u # b => H[u] = G[u]) /\ H \in [Node -> Node \cup {NoNode}]
      /\ F \in [Node -> SUBSET Branch]
  BY <1>1, <1>2 DEF Typed, Where
<1> HIDE DEF R, E, H
<1>4. \A u \in Node : b \notin F[u]
  BY <1>1 DEF Rooted
<1>5. \A u \in Node : EndedOf(E[u], R) = EndedOf(F[u], P)
  BY <1>2, <1>3, <1>4 DEF EndedOf, Ended, Branch
<1>6. Typed(R, Q, E, K, H)
  BY <1>1, <1>3 DEF Typed
<1>7. Root \in Above[b]
  <2>1. Root \in Above[t]
    <3>1. CASE t = Root
      BY <1>2, <3>1, AboveTypes
    <3>2. CASE t # Root
      BY <1>1, <1>2, <3>2 DEF Rooted, Branch
    <3> QED
      BY <3>1, <3>2
  <2> QED
    BY <1>2, <2>1, AboveParent
<1>8. Rooted(R, E, H)
  <2>1. ASSUME NEW c \in Branch, R[c] # "idle"
        PROVE  H[c] \in Task /\ IsParent(H[c], c) /\ Root \in Above[c]
    BY <1>1, <1>3, <1>7, <2>1 DEF Rooted, Branch
  <2>2. ASSUME NEW u \in Node, NEW c \in E[u] PROVE R[c] # "idle" /\ H[c] = u
    <3>1. CASE c = b
      BY <1>3, <1>4, <2>2, <3>1
    <3>2. CASE c # b
      <4>1. c \in F[u] /\ c \in Node
        BY <1>3, <2>2, <3>2 DEF Branch
      <4> QED
        BY <1>1, <1>3, <3>2, <4>1 DEF Rooted
    <3> QED
      BY <3>1, <3>2
  <2> QED
    BY <2>1, <2>2 DEF Rooted
<1>9. LostPlaces(R, L)
  BY <1>1, <1>2, <1>3 DEF LostPlaces
<1>10. Answered(R, Q, E, H, L)
  <2>1. SUFFICES ASSUME NEW c \in Branch, R[c] \notin Quiet \/ c \in L
                 PROVE  /\ c \in E[H[c]]
                        /\ H[c] \notin L => /\ R[H[c]] \in Waiting
                                            /\ c \in L /\ R[c] \in Ended => Lost(c) \in Range(Q[H[c]])
    BY DEF Answered
  <2>2. CASE c = b
    BY <1>2, <1>3, <2>2 DEF Ended, Waiting
  <2>3. CASE c # b
    <3>1. R[c] = P[c] /\ H[c] = G[c] /\ c \in Node
      BY <1>3, <2>3 DEF Branch
    <3>2. P[c] # "idle"
      BY <1>1, <2>1, <3>1 DEF LostPlaces, Quiet, Ended
    <3>3. G[c] \in Node
      BY <1>1, <3>2, TaskInNode DEF Rooted
    <3>4. /\ c \in F[G[c]]
          /\ G[c] \notin L => /\ P[G[c]] \in Waiting
                              /\ c \in L /\ P[c] \in Ended => Lost(c) \in Range(Q[G[c]])
      BY <1>1, <2>1, <3>1 DEF Answered
    <3>5. P[G[c]] \in Waiting => R[G[c]] \in Waiting
      BY <1>3, <3>3 DEF Waiting
    <3>6. c \in E[G[c]]
      BY <1>3, <3>3, <3>4
    <3> QED
      BY <3>1, <3>4, <3>5, <3>6
  <2> QED
    BY <2>2, <2>3
<1>11. Drained(R, Q, L)
  BY <1>1, <1>3 DEF Drained, Waiting
<1>12. EndsRight(R, Q, L)
  <2>1. ASSUME NEW v \in Node, NEW e \in Range(Q[v]), IsEnd(e) PROVE R[e.node] \in Ended
    <3>1. e.node \in Branch /\ P[e.node] \in Ended
      BY <1>1, <2>1 DEF EndsRight
    <3> QED
      BY <1>3, <3>1 DEF Ended, Branch
  <2> QED
    BY <1>1, <2>1 DEF EndsRight
<1>13. QueuesRight(R, Q, E, K, L)
  <2>1. SUFFICES ASSUME NEW u \in Node, R[u] \in Waiting
                 PROVE  Listened(R[u], Q[u], E[u], EndedOf(F[u], P), K[u], L)
    BY <1>5 DEF QueuesRight
  <2>2. R[u] = P[u]
    BY <1>3, <2>1 DEF Waiting
  <2>3. Listened(P[u], Q[u], F[u], EndedOf(F[u], P), K[u], L)
    BY <1>1, <2>1, <2>2 DEF QueuesRight
  <2>4. CASE u # t
    BY <1>3, <2>2, <2>3, <2>4
  <2>5. CASE u = t
    <3>1. None \notin Range(Q[t]) /\ EndedOf(F[t], P) # E[t]
      BY <1>3, <1>4, <2>3, <2>5 DEF Listened, EndedOf
    <3>2. Won(b) \notin Range(Q[t])
      BY <1>1, <1>2, EventKinds DEF EndsRight, Ended
    <3>3. \A c \in E[t] : OnceIn(Q[t], Won(c))
      BY <1>3, <2>3, <2>5, <3>2 DEF Listened, OnceIn, Range
    <3> QED
      BY <1>3, <2>2, <2>3, <2>5, <3>1, <3>3 DEF Listened
  <2> QED
    BY <2>4, <2>5
<1> QED
  BY <1>6, <1>8, <1>9, <1>10, <1>11, <1>12, <1>13 DEF LostRight, R, E, H

\* A walk comes to a fork: nobody is left of the one before.
LEMMA Forking ==
  ASSUME NEW P, NEW Q, NEW F, NEW K, NEW G, NEW L, LostRight(P, Q, F, K, G, L),
         NEW t \in Node, P[t] = "run"
  PROVE  LostRight([P EXCEPT ![t] = "fork"], Q, [F EXCEPT ![t] = {}], [K EXCEPT ![t] = 0], G, L)
<1> DEFINE R == [P EXCEPT ![t] = "fork"]
           E == [F EXCEPT ![t] = {}]
           J == [K EXCEPT ![t] = 0]
<1>1. /\ Typed(P, Q, F, K, G) /\ Rooted(P, F, G) /\ LostPlaces(P, L) /\ Answered(P, Q, F, G, L)
      /\ Drained(P, Q, L) /\ EndsRight(P, Q, L) /\ QueuesRight(P, Q, F, K, L)
  BY DEF LostRight
<1>2. t \notin L /\ P[t] \notin Waiting /\ Q[t] = <<>>
  <2>1. t \notin L /\ P[t] \notin Waiting
    BY <1>1 DEF LostPlaces, Ended, Waiting
  <2> QED
    BY <1>1, <2>1 DEF Drained
<1>3. /\ R[t] = "fork" /\ (\A u \in Node : u # t => R[u] = P[u]) /\ R \in [Node -> Where]
      /\ E[t] = {} /\ (\A u \in Node : u # t => E[u] = F[u]) /\ E \in [Node -> SUBSET Branch]
      /\ J[t] = 0 /\ (\A u \in Node : u # t => J[u] = K[u]) /\ J \in [Node -> Nat]
      /\ F \in [Node -> SUBSET Branch]
  BY <1>1 DEF Typed, Where
<1> HIDE DEF R, E, J
<1>4. \A u \in Node : EndedOf(E[u], R) = EndedOf(E[u], P)
  BY <1>3 DEF EndedOf, Ended, Branch
<1>5. Typed(R, Q, E, J, G)
  BY <1>1, <1>3 DEF Typed
<1>6. Rooted(R, E, G)
  BY <1>1, <1>3 DEF Rooted, Branch
<1>7. LostPlaces(R, L)
  BY <1>1, <1>2, <1>3 DEF LostPlaces
<1>8. Answered(R, Q, E, G, L)
  <2>1. SUFFICES ASSUME NEW c \in Branch, R[c] \notin Quiet \/ c \in L
                 PROVE  /\ c \in E[G[c]]
                        /\ G[c] \notin L => /\ R[G[c]] \in Waiting
                                            /\ c \in L /\ R[c] \in Ended => Lost(c) \in Range(Q[G[c]])
    BY DEF Answered
  <2>2. (P[c] \notin Quiet \/ c \in L) /\ c \in Node
    BY <1>3, <2>1 DEF Branch, Quiet
  <2>3. P[c] # "idle"
    BY <1>1, <2>2 DEF LostPlaces, Quiet, Ended
  <2>4. G[c] \in Node
    BY <1>1, <2>3, TaskInNode DEF Rooted
  <2>5. /\ c \in F[G[c]]
        /\ G[c] \notin L => /\ P[G[c]] \in Waiting
                            /\ c \in L /\ P[c] \in Ended => Lost(c) \in Range(Q[G[c]])
    BY <1>1, <2>2 DEF Answered
  <2>6. G[c] # t
    BY <1>2, <2>5
  <2>7. R[c] \in Ended => P[c] \in Ended
    BY <1>3, <2>2 DEF Ended
  <2> QED
    BY <1>3, <2>4, <2>5, <2>6, <2>7
<1>9. Drained(R, Q, L)
  BY <1>1, <1>2, <1>3 DEF Drained
<1>10. EndsRight(R, Q, L)
  <2>1. ASSUME NEW v \in Node, NEW e \in Range(Q[v]), IsEnd(e) PROVE R[e.node] \in Ended
    <3>1. e.node \in Branch /\ P[e.node] \in Ended
      BY <1>1, <2>1 DEF EndsRight
    <3> QED
      BY <1>3, <3>1 DEF Ended, Branch
  <2> QED
    BY <1>1, <2>1 DEF EndsRight
<1>11. QueuesRight(R, Q, E, J, L)
  <2>1. SUFFICES ASSUME NEW u \in Node, R[u] \in Waiting
                 PROVE  Listened(R[u], Q[u], E[u], EndedOf(E[u], P), J[u], L)
    BY <1>4 DEF QueuesRight
  <2>2. CASE u # t
    BY <1>1, <1>3, <2>1, <2>2 DEF QueuesRight
  <2>3. CASE u = t
    <3>1. Range(Q[t]) = {} /\ EndedOf(E[t], P) = {} /\ Counted(Q[t], EndedOf(E[t], P), L) = {}
      BY <1>2, <1>3, EmptyQueue DEF EndedOf, Counted
    <3>2. Cardinality({}) = 0
      BY FS_EmptySet
    <3> QED
      BY <1>2, <1>3, <2>3, <3>1, <3>2 DEF Listened
  <2> QED
    BY <2>2, <2>3
<1> QED
  BY <1>5, <1>6, <1>7, <1>8, <1>9, <1>10, <1>11 DEF LostRight, R, E, J

\* A branch tells its fork that it ended, and how.
LEMMA Ending ==
  ASSUME NEW P, NEW Q, NEW F, NEW K, NEW G, NEW L, LostRight(P, Q, F, K, G, L),
         NEW b \in Branch, P[b] \in {"over", "raise"},
         NEW e \in {Won(b), Lost(b)}, e = Won(b) <=> P[b] = "over"
  PROVE  LostRight([P EXCEPT ![b] = "ending"], [Q EXCEPT ![G[b]] = Append(@, e)], F, K, G, L)
<1> DEFINE u == G[b]
           R == [P EXCEPT ![b] = "ending"]
           S == [Q EXCEPT ![u] = Append(@, e)]
<1>1. /\ Typed(P, Q, F, K, G) /\ Rooted(P, F, G) /\ LostPlaces(P, L) /\ Answered(P, Q, F, G, L)
      /\ Drained(P, Q, L) /\ EndsRight(P, Q, L) /\ QueuesRight(P, Q, F, K, L)
  BY DEF LostRight
<1>2. u \in Task /\ IsParent(u, b) /\ u \in Node /\ b \in Node /\ u # b /\ u \in Above[b]
  <2>1. u \in Task /\ IsParent(u, b) /\ u \in Node /\ b \in Node
    BY <1>1, TaskInNode DEF Rooted, Branch
  <2> QED
    BY <2>1, AboveParent
<1>3. b \in F[u] /\ (u \in L \/ P[u] \in Waiting)
  <2>1. P[b] \notin Quiet
    BY DEF Quiet
  <2> QED
    BY <1>1, <2>1 DEF Answered
<1>4. /\ e \in Event /\ e # None /\ IsEnd(e) /\ e.node = b
      /\ (e.kind = "BranchFailed" <=> b \in L)
      /\ b \in L => e = Lost(b)
      /\ b \notin L => e = Won(b)
  <2>1. b \in L <=> P[b] = "raise"
    BY <1>1, <1>2 DEF LostPlaces, Ended
  <2> QED
    BY <2>1, EventKinds
<1>5. /\ Q \in [Node -> Seq(Event)] /\ F \in [Node -> SUBSET Branch]
      /\ S[u] = Append(Q[u], e) /\ (\A v \in Node : v # u => S[v] = Q[v])
      /\ S \in [Node -> Seq(Event)] /\ Append(Q[u], e) \in Seq(Event)
  <2>1. Q \in [Node -> Seq(Event)] /\ F \in [Node -> SUBSET Branch] /\ Append(Q[u], e) \in Seq(Event)
    BY <1>1, <1>2, <1>4, AppendQueue DEF Typed
  <2> QED
    BY <1>2, <2>1
<1>6. /\ R[b] = "ending" /\ (\A v \in Node : v # b => R[v] = P[v]) /\ R \in [Node -> Where]
  <2>1. P \in [Node -> Where] /\ "ending" \in Where
    BY <1>1 DEF Typed, Where
  <2> QED
    BY <1>2, <2>1
<1> HIDE DEF R, S, u
<1>7. /\ "ending" \in Ended /\ "ending" \notin Waiting /\ P[b] \notin Ended /\ P[b] \notin Waiting
  BY DEF Ended, Waiting
<1>8. Range(S[u]) = Range(Q[u]) \cup {e} /\ S[u] # <<>> /\ LastOf(S[u]) = e
      /\ \A x : OnceIn(Q[u], x) /\ (e = x => x \notin Range(Q[u])) => OnceIn(S[u], x)
  <2>1. Q[u] \in Seq(Event) /\ e \in Event /\ S[u] = Append(Q[u], e)
    BY <1>2, <1>4, <1>5
  <2>2. /\ Append(Q[u], e) # <<>> /\ LastOf(Append(Q[u], e)) = e
        /\ Range(Append(Q[u], e)) = Range(Q[u]) \cup {e}
        /\ \A x : OnceIn(Q[u], x) /\ (e = x => x \notin Range(Q[u])) => OnceIn(Append(Q[u], e), x)
    BY <2>1, AppendQueue
  <2> QED
    BY <2>1, <2>2
<1>9. Typed(R, S, F, K, G)
  <2>1. R \in [Node -> Where] /\ S \in [Node -> Seq(Event)]
    BY <1>5, <1>6
  <2>2. F \in [Node -> SUBSET Branch] /\ K \in [Node -> Nat] /\ G \in [Node -> Node \cup {NoNode}]
    BY <1>1 DEF Typed
  <2> QED
    BY <2>1, <2>2 DEF Typed
<1>10. Rooted(R, F, G)
  <2>1. \A c \in Branch : R[c] # "idle" <=> P[c] # "idle"
    BY <1>6 DEF Branch
  <2>2. \A t \in Node : F[t] \subseteq Branch
    BY <1>5
  <2> QED
    BY <1>1, <2>1, <2>2 DEF Rooted
<1>11. LostPlaces(R, L)
  BY <1>1, <1>6, <1>7 DEF LostPlaces
<1>12. Answered(R, S, F, G, L)
  <2>1. SUFFICES ASSUME NEW c \in Branch, R[c] \notin Quiet \/ c \in L
                 PROVE  /\ c \in F[G[c]]
                        /\ G[c] \notin L => /\ R[G[c]] \in Waiting
                                            /\ c \in L /\ R[c] \in Ended => Lost(c) \in Range(S[G[c]])
    BY DEF Answered
  <2>2. (P[c] \notin Quiet \/ c \in L) /\ c \in Node
    BY <1>6, <1>7, <2>1 DEF Branch, Quiet
  <2>3. P[c] # "idle"
    BY <1>1, <2>2 DEF LostPlaces, Quiet, Ended
  <2>4. G[c] \in Node
    BY <1>1, <2>3, TaskInNode DEF Rooted
  <2>5. /\ c \in F[G[c]]
        /\ G[c] \notin L => /\ P[G[c]] \in Waiting
                            /\ c \in L /\ P[c] \in Ended => Lost(c) \in Range(Q[G[c]])
    BY <1>1, <2>2 DEF Answered
  <2>6. G[c] \notin L => R[G[c]] \in Waiting
    BY <1>6, <1>7, <2>4, <2>5
  <2>7. ASSUME G[c] \notin L, c \in L, R[c] \in Ended PROVE Lost(c) \in Range(S[G[c]])
    <3>1. CASE c = b
      BY <1>4, <1>8, <2>7, <3>1 DEF u
    <3>2. CASE c # b
      <4>1. Lost(c) \in Range(Q[G[c]])
        BY <1>6, <1>7, <2>2, <2>5, <2>7, <3>2
      <4> QED
        BY <1>5, <1>8, <2>4, <4>1
    <3> QED
      BY <3>1, <3>2
  <2> QED
    BY <2>5, <2>6, <2>7
<1>13. Drained(R, S, L)
  BY <1>1, <1>3, <1>5, <1>6, <1>7 DEF Drained
<1>14. EndsRight(R, S, L)
  <2>1. SUFFICES ASSUME NEW v \in Node, NEW x \in Range(S[v]), IsEnd(x)
                 PROVE  /\ x.node \in Branch /\ R[x.node] \in Ended
                        /\ (x.kind = "BranchFailed" <=> x.node \in L)
                        /\ v \in Above[x.node] /\ v # x.node
    BY DEF EndsRight
  <2>2. CASE x \in Range(Q[v])
    <3>1. /\ x.node \in Branch /\ P[x.node] \in Ended
          /\ (x.kind = "BranchFailed" <=> x.node \in L)
          /\ v \in Above[x.node] /\ v # x.node
      BY <1>1, <2>1, <2>2 DEF EndsRight
    <3> QED
      BY <1>6, <1>7, <3>1 DEF Branch
  <2>3. CASE x \notin Range(Q[v])
    <3>1. v = u /\ x = e
      BY <1>5, <1>8, <2>1, <2>3
    <3> QED
      BY <1>2, <1>4, <1>6, <1>7, <3>1
  <2> QED
    BY <2>2, <2>3
<1>15. QueuesRight(R, S, F, K, L)
  <2>1. SUFFICES ASSUME NEW v \in Node, R[v] \in Waiting
                 PROVE  Listened(R[v], S[v], F[v], EndedOf(F[v], R), K[v], L)
    BY DEF QueuesRight
  <2>2. v # b /\ R[v] = P[v]
    BY <1>6, <1>7, <2>1
  <2>3. Listened(P[v], Q[v], F[v], EndedOf(F[v], P), K[v], L)
    BY <1>1, <2>1, <2>2 DEF QueuesRight
  <2>4. CASE v # u
    <3>1. b \notin F[v]
      BY <1>1, <2>4 DEF Rooted, u
    <3>2. EndedOf(F[v], R) = EndedOf(F[v], P)
      BY <1>5, <1>6, <1>7, <3>1 DEF EndedOf, Branch
    <3> QED
      BY <1>5, <2>2, <2>3, <2>4, <3>2
  <2>5. CASE v = u
    <3>1. EndedOf(F[u], R) = EndedOf(F[u], P) \cup {b} /\ b \notin EndedOf(F[u], P)
      BY <1>2, <1>3, <1>5, <1>6, <1>7 DEF EndedOf, Branch
    <3>2. Won(b) \notin Range(Q[u])
      BY <1>1, <1>2, <1>6, <1>7, EventKinds DEF EndsRight
    <3>3. \A c \in F[u] : OnceIn(S[u], Won(c))
      <4>1. \A c \in F[u] : e = Won(c) => c = b
        BY <1>4, EventKinds DEF Won, Lost
      <4> QED
        BY <1>8, <2>3, <2>5, <3>2, <4>1 DEF Listened
    <3>4. Counted(S[u], EndedOf(F[u], R), L) = Counted(Q[u], EndedOf(F[u], P), L)
      <4>1. \A c \in EndedOf(F[u], P) : Won(c) # e
        BY <1>4, <3>1, EventKinds DEF Won, Lost
      <4>2. b \in L \/ Won(b) \in Range(S[u])
        BY <1>4, <1>8
      <4> QED
        BY <1>8, <3>1, <4>1, <4>2 DEF Counted
    <3>5. Counted(Q[u], EndedOf(F[u], P), L) # F[u]
      BY <1>3, <3>1 DEF Counted
    <3>6. None \notin Range(S[u]) /\ P[u] # "join" /\ F[u] # {}
      BY <1>3, <1>4, <1>8, <2>3, <2>5, <3>5 DEF Listened
    <3>7. IsEnd(LastOf(S[u])) /\ LastOf(S[u]).node \in F[u]
      BY <1>3, <1>4, <1>8
    <3> QED
      BY <2>2, <2>3, <2>5, <3>3, <3>4, <3>6, <3>7 DEF Listened
  <2> QED
    BY <2>4, <2>5
<1> QED
  BY <1>9, <1>10, <1>11, <1>12, <1>13, <1>14, <1>15 DEF LostRight, R, S, u

\* Where the root's walk goes on or has come to its end, nothing else is at work, lost or untold.
LEMMA AllQuiet ==
  ASSUME NEW P, NEW Q, NEW F, NEW K, NEW G, NEW L, LostRight(P, Q, F, K, G, L),
         P[Root] \notin Waiting \cup Ended \cup {"raise"}
  PROVE  (\A b \in Branch : P[b] \in Quiet) /\ (\A t \in Node : Q[t] = <<>>)
<1>1. /\ Typed(P, Q, F, K, G) /\ Rooted(P, F, G) /\ LostPlaces(P, L) /\ Answered(P, Q, F, G, L)
      /\ Drained(P, Q, L)
  BY DEF LostRight
<1>2. Root \notin L /\ P[Root] \notin Waiting
  BY <1>1 DEF LostPlaces
<1> DEFINE S == {b \in Branch : P[b] \notin Quiet \/ b \in L}
<1>3. ASSUME NEW b \in S PROVE G[b] \in S /\ P[b] # "idle" /\ Root \in Above[b] /\ IsParent(G[b], b) /\ G[b] \in Task
  <2>1. G[b] \in L \/ P[G[b]] \in Waiting
    BY <1>1, <1>3 DEF Answered
  <2>2. P[b] # "idle"
    BY <1>1, <1>3 DEF LostPlaces, Quiet, Ended
  <2>3. G[b] \in Task /\ IsParent(G[b], b) /\ Root \in Above[b] /\ G[b] \in Node
    BY <1>1, <1>3, <2>2, TaskInNode DEF Rooted
  <2>4. P[G[b]] \in Waiting => P[G[b]] \notin Quiet
    BY DEF Waiting, Quiet
  <2> QED
    BY <1>2, <2>1, <2>2, <2>3, <2>4 DEF Branch
<1>4. ASSUME NEW b \in S PROVE FALSE
  <2>1. S \in SUBSET Node /\ b \in Node
    BY <1>4 DEF Branch
  <2>2. \A x \in S : \A v \in Task : IsParent(v, x) => v \in S
    BY <1>3, OneParent
  <2> HIDE DEF S
  <2>3. Above[b] \subseteq S
    BY <1>4, <2>1, <2>2, AboveLeast
  <2>4. Root \in S
    BY <1>3, <1>4, <2>3
  <2> QED
    BY <2>4 DEF S, Branch
<1>5. \A b \in Branch : P[b] \in Quiet /\ b \notin L
  BY <1>4
<1>6. ASSUME NEW t \in Node PROVE t \notin L /\ P[t] \notin Waiting
  BY <1>2, <1>5 DEF Branch, Quiet, Waiting
<1> QED
  BY <1>1, <1>5, <1>6 DEF Drained

-----------------------------------------------------------------------------
(* The steps keep the invariant.                                           *)

\* A task listens to what its fork has submitted only.
LEMMA StaysWaiting ==
  ASSUME ForkInv, [Next]_vars, ~(\E u \in Node : Submits(u)), NEW t \in Node, pc'[t] \in Waiting
  PROVE  /\ node'[t] = node[t]
         /\ pc[t] = "run" \/ (pc[t] \in Waiting /\ futures'[t] = futures[t])
<1>1. /\ pc \in [Node -> Where] /\ node \in [Node -> Node] /\ futures \in [Node -> SUBSET Branch]
      /\ \A b \in Branch : b \in Node
  BY DEF ForkInv, FInv, TInv, TypeOK, Branch
<1>2. ASSUME NEW u \in Node, Walks(u)
      PROVE  /\ node'[t] = node[t]
             /\ pc[t] = "run" \/ (pc[t] \in Waiting /\ futures'[t] = futures[t])
  <2>1. CASE ChecksLimits(u) \/ StartsNode(u) \/ FailsUnstarted(u)
    <3>1. /\ \E p \in {"raise", "enter", "run"} : Goes(u, p)
          /\ node' = node /\ futures' = futures
      BY <2>1 DEF ChecksLimits, StartsNode, FailsUnstarted, forkVars
    <3> QED
      BY <1>1, <3>1 DEF Goes, Waiting
  <2>2. ASSUME NEW o \in Outcome, EndsNode(u, o)
        PROVE  /\ node'[t] = node[t]
               /\ pc[t] = "run" \/ (pc[t] \in Waiting /\ futures'[t] = futures[t])
    <3>1. \/ (\E p \in {"raise", "over"} : Goes(u, p)) /\ node' = node /\ futures' = futures
          \/ (Goes(u, "top") /\ (\E n \in Branch : node' = [node EXCEPT ![u] = n]) /\ futures' = futures)
          \/ (Goes(u, "top") /\ (\E n : node' = [node EXCEPT ![u] = n]) /\ futures' = futures)
          \/ (Goes(u, "fork") /\ node' = node /\ futures' = [futures EXCEPT ![u] = {}])
      BY <2>2, Zenon DEF EndsNode, Follows, StepTo
    <3>2. pc[u] = "run"
      BY <2>2 DEF EndsNode, At
    <3> QED
      BY <1>1, <3>1, <3>2 DEF Goes, Waiting
  <2> QED
    BY <1>2, <2>1, <2>2 DEF Walks
<1>3. ASSUME NEW u \in Node, Forks(u), ~Submits(u)
      PROVE  /\ node'[t] = node[t]
             /\ pc[t] = "run" \/ (pc[t] \in Waiting /\ futures'[t] = futures[t])
  <2>1. CASE Joins(u)
    <3>1. /\ futures' = futures
          /\ \/ Goes(u, "over") /\ UNCHANGED node
             \/ Goes(u, "top") /\ \E n : node' = [node EXCEPT ![u] = n]
      BY <2>1, Zenon DEF Joins, StepTo, forkVars
    <3> QED
      BY <1>1, <3>1 DEF Goes, Waiting
  <2>2. CASE ~Joins(u)
    <3>1. /\ node' = node /\ futures' = futures /\ pc[u] \in Waiting
          /\ pc' = pc \/ \E p \in {"raise", "submit", "fork", "listen", "join"} : Goes(u, p)
      BY <1>3, <2>2 DEF Forks, Skips, CountsSubmit, Refused, Listens, StopsListening, At,
         NextEdge, forkVars, Waiting
    <3> QED
      BY <1>1, <3>1 DEF Goes, Waiting
  <2> QED
    BY <2>1, <2>2
<1>4. ASSUME NEW u \in Node, Ends(u)
      PROVE  /\ node'[t] = node[t]
             /\ pc[t] = "run" \/ (pc[t] \in Waiting /\ futures'[t] = futures[t])
  <2>1. /\ \E p \in {"ending", "finished", "done"} : Goes(u, p)
        /\ node' = node /\ futures' = futures
    BY <1>4 DEF Ends, EndsBranch, SetsFuture, CallsBack, forkVars
  <2> QED
    BY <1>1, <2>1 DEF Goes, Waiting
<1>5. ASSUME NEW b \in Branch, TakesBranch(b)
      PROVE  /\ node'[t] = node[t]
             /\ pc[t] = "run" \/ (pc[t] \in Waiting /\ futures'[t] = futures[t])
  <2>1. Goes(b, "top") /\ node' = node /\ futures' = futures
    BY <1>5 DEF TakesBranch
  <2> QED
    BY <1>1, <2>1 DEF Goes, Waiting
<1>6. CASE EndsRun \/ Resumes \/ Closes \/ TimePasses \/ UNCHANGED vars
  <2>1. /\ pc' = pc \/ Goes(Root, "done")
        /\ node' = node /\ futures' = futures
    BY <1>6 DEF EndsRun, Resumes, Closes, TimePasses, vars, forkVars
  <2> QED
    BY <1>1, <2>1 DEF Goes, Waiting
<1> QED
  BY <1>2, <1>3, <1>4, <1>5, <1>6 DEF Next, Over

\* Every step keeps ForkedInv.
LEMMA StepForked ==
  ASSUME ForkInv, ForkedInv, [Next]_vars
  PROVE  ForkedInv'
<1> SUFFICES ASSUME NEW t \in Node, pc'[t] \in Waiting, NEW b \in Forked(node'[t]), pc'[b] # "idle"
             PROVE  b \in futures'[t]
  BY DEF ForkedInv
<1>1. /\ pc \in [Node -> Where] /\ node \in [Node -> Node] /\ futures \in [Node -> SUBSET Branch]
      /\ b \in Branch /\ b \in Node /\ FInv /\ WalksInv /\ TodoInv
      /\ \A u \in Node : todo[u] \in Seq(Branch)
  BY ForkedInNode DEF ForkInv, FInv, TInv, TypeOK
<1>2. ASSUME NEW u \in Node, Submits(u) PROVE b \in futures'[t]
  <2> DEFINE c == Head(todo[u])
  <2>1. /\ pc[u] = "submit" /\ node' = node
        /\ futures' = [futures EXCEPT ![u] = @ \cup {c}]
        /\ \E p \in {"listen", "fork"} : pc' = [pc EXCEPT ![c] = "queued", ![u] = p]
    BY <1>2 DEF Submits, At, NextEdge
  <2>2. ToSubmit(u) /\ todo[u] # <<>>
    BY <1>1, <2>1 DEF TodoInv, ForkInv, FInv, TInv, ForksWellFormed
  <2>3. c \in Range(todo[u]) /\ c \in Branch /\ c \in Node
    BY <1>1, <2>2, TailQueue DEF Branch
  <2>4. c \in Forked(node[u]) /\ pc[c] = "idle"
    BY <2>1, <2>2, <2>3 DEF ToSubmit
  <2> HIDE DEF c
  <2>5. u # c /\ t # c
    BY <1>1, <2>1, <2>3, <2>4 DEF Waiting
  <2>6. pc[t] \in Waiting
    BY <1>1, <2>1, <2>3, <2>5 DEF Waiting
  <2>7. CASE b = c
    <3>1. t \in Task /\ node[t] \in Walk[t] /\ u \in Task /\ node[u] \in Walk[u]
      BY <1>1, <2>1, <2>6 DEF WalksInv, Waiting
    <3>2. t = u
      BY <2>1, <2>4, <2>7, <3>1, OneForker
    <3> QED
      BY <1>1, <2>1, <2>7, <3>2
  <2>8. CASE b # c
    <3>1. pc[b] # "idle"
      BY <1>1, <2>1, <2>3, <2>8
    <3>2. b \in futures[t]
      BY <2>1, <2>6, <3>1 DEF ForkedInv
    <3> QED
      BY <1>1, <2>1, <3>2
  <2> QED
    BY <2>7, <2>8
<1>3. CASE ~(\E u \in Node : Submits(u))
  <2>1. pc[b] # "idle"
    <3>1. CASE \E c \in Branch : TakesBranch(c)
      <4>1. PICK c \in Branch : TakesBranch(c)
        BY <3>1
      <4>2. pc[c] = "queued"
        <5>1. pool \in Seq(Branch) /\ pool # <<>> /\ c = Head(pool)
          BY <4>1 DEF TakesBranch, ForkInv, FInv, TInv, TypeOK
        <5>2. c \in Range(pool)
          BY <5>1, TailQueue
        <5> QED
          BY <5>2 DEF ForkInv, PoolInv
      <4> QED
        BY <1>1, <4>1, <4>2 DEF TakesBranch, Goes
    <3>2. CASE ~(\E c \in Branch : TakesBranch(c))
      <4>1. \/ pc' = pc
            \/ \E u \in Node, p \in Where \ {"idle", "queued"} :
                 Goes(u, p) /\ pc[u] \notin {"idle", "queued"}
        BY <1>3, <3>2, StepMoves
      <4> QED
        BY <1>1, <4>1 DEF Goes
    <3> QED
      BY <3>1, <3>2
  <2>2. node'[t] = node[t] /\ (pc[t] = "run" \/ (pc[t] \in Waiting /\ futures'[t] = futures[t]))
    BY <1>3, StaysWaiting
  <2>3. pc[t] # "run"
    BY <1>1, <2>1, <2>2, FreshBranches
  <2> QED
    BY <2>1, <2>2, <2>3 DEF ForkedInv
<1> QED
  BY <1>2, <1>3
\* What a task yields goes up, and changes nobody's loss.
LEMMA LostYields ==
  ASSUME NEW P, NEW L, LostRight(P, q, futures, okay, forker, L),
         NEW t \in Node, P[t] # "idle", P[t] \notin Ended,
         NEW e \in Event, e # None, IsEnd(e) => e \in Range(q[t]), Yields(t, e, q)
  PROVE  LostRight(P, q', futures, okay, forker, L)
<1>1. CASE t = Root
  BY <1>1 DEF Yields
<1>2. CASE t # Root
  <2>1. t \in Branch /\ q' = [q EXCEPT ![forker[t]] = Append(@, e)]
    BY <1>2 DEF Yields, Branch
  <2> QED
    BY <2>1, Putting
<1> QED
  BY <1>1, <1>2

\* Who is neither over nor raising is not lost.
LEMMA NotLost ==
  ASSUME NEW L, LostRight(pc, q, futures, okay, forker, L), NEW t \in Node,
         pc[t] \notin Ended \cup {"raise"}
  PROVE  t \notin L
BY DEF LostRight, LostPlaces

\* A set of lost tasks is a witness of LostInv.
LEMMA LostGives ==
  ASSUME NEW L \in SUBSET Node, LostRight(pc', q', futures', okay', forker', L)
  PROVE  LostInv'
BY DEF LostInv

\* A step of a walk: a task that raises is lost from then on.
LEMMA WalksLost ==
  ASSUME ForkInv, NEW L \in SUBSET Node, LostRight(pc, q, futures, okay, forker, L),
         NEW t \in Node, Walks(t)
  PROVE  LostInv'
<1>1. pc \in [Node -> Where] /\ node \in [Node -> Node] /\ L \cup {t} \in SUBSET Node
  BY DEF ForkInv, FInv, TInv, TypeOK
<1>2. /\ pc[t] \in {"top", "enter", "run"} /\ pc[t] \notin Ended /\ pc[t] \notin Quiet
      /\ pc[t] \notin Waiting
  BY DEF Walks, ChecksLimits, StartsNode, FailsUnstarted, EndsNode, At, Ended, Quiet, Waiting
<1>3. t \notin L
  BY <1>2, NotLost
<1>4. ASSUME NEW Q, LostRight(pc, Q, futures, okay, forker, L)
      PROVE  /\ \A p \in {"top", "enter", "run", "over"} :
                  LostRight([pc EXCEPT ![t] = p], Q, futures, okay, forker, L)
             /\ LostRight([pc EXCEPT ![t] = "raise"], Q, futures, okay, forker, L \cup {t})
  <2>1. ASSUME NEW p \in {"top", "enter", "run", "over"}
        PROVE  LostRight([pc EXCEPT ![t] = p], Q, futures, okay, forker, L)
    <3>1. p \in Where \ {"idle", "raise"} /\ p \notin Ended /\ p \notin Waiting
      BY DEF Where, Ended, Waiting
    <3> QED
      BY <1>2, <1>3, <1>4, <3>1, Moving
  <2>2. LostRight([pc EXCEPT ![t] = "raise"], Q, futures, okay, forker, L \cup {t})
    BY <1>2, <1>4, Losing
  <2> QED
    BY <2>1, <2>2
<1>5. ASSUME NEW k \in NodeStatus \ {"idle"}
      PROVE  /\ [kind |-> k, node |-> node[t]] \in Event
             /\ [kind |-> k, node |-> node[t]] # None
             /\ ~IsEnd([kind |-> k, node |-> node[t]])
  BY <1>1 DEF Event, None, IsEnd, NodeStatus
<1>6. CASE ChecksLimits(t)
  <2>1. /\ \E p \in {"raise", "enter"} : pc' = [pc EXCEPT ![t] = p]
        /\ q' = q /\ futures' = futures /\ okay' = okay /\ forker' = forker
    BY <1>6 DEF ChecksLimits, Goes, forkVars
  <2>2. PICK p \in {"raise", "enter"} : pc' = [pc EXCEPT ![t] = p]
    BY <2>1
  <2>3. LostRight(pc', q, futures, okay, forker, IF p = "raise" THEN L \cup {t} ELSE L)
    BY <1>4, <2>2
  <2>4. LostRight(pc', q', futures', okay', forker', IF p = "raise" THEN L \cup {t} ELSE L)
    BY <2>1, <2>3
  <2> QED
    BY <1>1, <2>4, LostGives
<1>7. CASE StartsNode(t)
  <2>1. /\ pc' = [pc EXCEPT ![t] = "run"] /\ Yields(t, [kind |-> "running", node |-> node[t]], q)
        /\ futures' = futures /\ okay' = okay /\ forker' = forker
    BY <1>7 DEF StartsNode, Goes, forkVars
  <2>2. LostRight(pc, q', futures, okay, forker, L)
    BY <1>2, <1>5, <2>1, LostYields DEF NodeStatus
  <2> QED
    BY <1>4, <2>1, <2>2, LostGives
<1>8. CASE FailsUnstarted(t)
  <2>1. /\ pc' = [pc EXCEPT ![t] = "raise"] /\ Yields(t, [kind |-> "failed", node |-> node[t]], q)
        /\ futures' = futures /\ okay' = okay /\ forker' = forker
    BY <1>8 DEF FailsUnstarted, Goes, forkVars
  <2>2. LostRight(pc, q', futures, okay, forker, L)
    BY <1>2, <1>5, <2>1, LostYields DEF NodeStatus
  <2> QED
    BY <1>1, <1>4, <2>1, <2>2, LostGives
<1>9. ASSUME NEW o \in Outcome, EndsNode(t, o)
      PROVE  LostInv'
  <2> DEFINE k == IF o = "raised" THEN "failed" ELSE o
  <2>1. /\ k \in NodeStatus \ {"idle"} /\ Yields(t, [kind |-> k, node |-> node[t]], q)
        /\ forker' = forker /\ pc[t] = "run"
    BY <1>9 DEF EndsNode, NodeStatus, Outcome, At
  <2> HIDE DEF k
  <2>2. LostRight(pc, q', futures, okay, forker, L)
    BY <1>2, <1>5, <2>1, LostYields
  <2>3. \/ /\ \E p \in {"raise", "over", "top"} : Goes(t, p)
           /\ futures' = futures /\ okay' = okay
        \/ /\ Goes(t, "fork")
           /\ futures' = [futures EXCEPT ![t] = {}] /\ okay' = [okay EXCEPT ![t] = 0]
    BY <1>9, Zenon DEF EndsNode, Follows, StepTo
  <2>4. CASE Goes(t, "fork") /\ futures' = [futures EXCEPT ![t] = {}] /\ okay' = [okay EXCEPT ![t] = 0]
    <3>1. LostRight([pc EXCEPT ![t] = "fork"], q', [futures EXCEPT ![t] = {}],
                    [okay EXCEPT ![t] = 0], forker, L)
      BY <2>1, <2>2, Forking
    <3> QED
      BY <2>1, <2>4, <3>1, LostGives DEF Goes
  <2>5. ASSUME NEW p \in {"raise", "over", "top"}, Goes(t, p), futures' = futures, okay' = okay
        PROVE  LostInv'
    BY <1>1, <1>4, <2>1, <2>2, <2>5, LostGives DEF Goes
  <2> QED
    BY <2>3, <2>4, <2>5
<1> QED
  BY <1>6, <1>7, <1>8, <1>9 DEF Walks

\* Two queues are written one by one, in either order.
LEMMA TwoQueues ==
  ASSUME NEW S, NEW T, NEW f \in [S -> T], NEW t \in S, NEW u \in S, u # t, NEW s, NEW e
  PROVE  [[f EXCEPT ![t] = s] EXCEPT ![u] = Append(@, e)]
           = [[[f EXCEPT ![u] = Append(@, e)] EXCEPT ![t] = Tail(@)] EXCEPT ![t] = s]
OBVIOUS

\* An end in a fork's queue is of its parallel if and only if it is of a branch it has
\* submitted.
LEMMA OwnEnds ==
  ASSUME ForkInv, ForkedInv, NEW L, LostRight(pc, q, futures, okay, forker, L),
         NEW t \in Node, pc[t] = "listen", NEW e \in Range(q[t]), IsEnd(e)
  PROVE  /\ e \in Event /\ e.node \in Branch /\ pc[e.node] \in Ended
         /\ (e.kind = "BranchFailed" <=> e.node \in L)
         /\ OfFork(t, e.node) <=> e.node \in futures[t]
<1> DEFINE c == e.node
<1>1. /\ FInv /\ futures[t] \subseteq Branch /\ pc \in [Node -> Where] /\ node \in [Node -> Node]
      /\ q[t] \in Seq(Event)
  BY DEF ForkInv, FInv, TInv, TypeOK
<1>2. /\ c \in Branch /\ pc[c] \in Ended /\ (e.kind = "BranchFailed" <=> c \in L)
      /\ EndsRight(pc, q, L) /\ Rooted(pc, futures, forker)
  BY DEF LostRight, EndsRight
<1>3. e \in Event
  BY <1>1 DEF Range
<1>4. /\ futures[t] # {} /\ futures[t] \subseteq Forked(node[t])
      /\ \A b, d \in futures[t] : ParallelOf[b] = ParallelOf[d]
  BY <1>1 DEF FInv, TInv, ForksWellFormed, FuturesInv, Submitted
<1>5. PICK b \in futures[t] : ForkParallel(t) = ParallelOf[b]
  BY <1>4 DEF ForkParallel
<1> HIDE DEF c
<1>6. c \in futures[t] => OfFork(t, c)
  BY <1>4, <1>5 DEF OfFork
<1>7. ASSUME OfFork(t, c) PROVE c \in futures[t]
  <2>1. ParallelOf[c] = ParallelOf[b] /\ b \in Forked(node[t]) /\ node[t] \in Node
    BY <1>1, <1>4, <1>5, <1>7 DEF OfFork
  <2>2. pc[c] # "idle"
    BY <1>2 DEF Ended
  <2>3. forker[c] \in Task /\ IsParent(forker[c], c)
    BY <1>2, <2>2 DEF Rooted
  <2>4. PICK m \in Walk[forker[c]] : c \in Forked(m)
    BY <2>3 DEF IsParent
  <2>5. m \in Node
    BY <2>3, <2>4, TaskInNode, WalkGoesOn
  <2>6. m = node[t]
    BY <2>1, <2>4, <2>5, WalksAssumption
  <2> QED
    BY <2>2, <2>4, <2>6 DEF ForkedInv, Waiting
<1> QED
  BY <1>2, <1>3, <1>6, <1>7 DEF c

\* A fork listens to its branches.
LEMMA ListensLost ==
  ASSUME ForkInv, ForkedInv, NEW L \in SUBSET Node, LostRight(pc, q, futures, okay, forker, L),
         NEW t \in Node, Listens(t)
  PROVE  LostInv'
<1> DEFINE e == Head(q[t])
           won == e.kind = "BranchSucceeded" /\ OfFork(t, e.node)
           lost == e.kind = "BranchFailed" /\ OfFork(t, e.node)
           last == won /\ AllSucceeded(t, okay[t] + 1)
           queues == [q EXCEPT ![t] = Tail(@) \o (IF last THEN <<None>> ELSE <<>>)]
           k == IF won THEN okay[t] + 1 ELSE okay[t]
           R == IF lost THEN [pc EXCEPT ![t] = "raise"] ELSE pc
           M == IF lost THEN L \cup {t} ELSE L
           J == [okay EXCEPT ![t] = k]
           Up == IF t = Root THEN q ELSE [q EXCEPT ![forker[t]] = Append(@, e)]
           Down == [Up EXCEPT ![t] = Tail(@)]
<1>1. /\ pc \in [Node -> Where] /\ q \in [Node -> Seq(Event)] /\ okay \in [Node -> Nat]
      /\ futures \in [Node -> SUBSET Branch] /\ forker \in [Node -> Node \cup {NoNode}]
  BY DEF ForkInv, FInv, TInv, TypeOK
<1>2. /\ pc[t] = "listen" /\ q[t] # <<>> /\ e # None /\ J = okay' /\ R = pc'
      /\ Yields(t, e, queues) /\ futures' = futures /\ forker' = forker
  BY <1>1 DEF Listens, At, Goes
<1>3. e \in Event /\ e \in Range(q[t]) /\ pc[t] \notin Ended /\ pc[t] \in Waiting /\ k \in Nat
  BY <1>1, <1>2, TailQueue DEF Ended, Waiting
<1>4. t \notin L
  BY <1>2, NotLost DEF Ended
<1>5. won <=> \E b \in futures[t] : e = Won(b)
  <2>1. ASSUME won PROVE e.node \in futures[t] /\ e = Won(e.node)
    <3>1. IsEnd(e) /\ OfFork(t, e.node)
      BY <2>1 DEF IsEnd
    <3> QED
      BY <1>2, <1>3, <2>1, <3>1, OwnEnds, EventKinds
  <2>2. ASSUME NEW b \in futures[t], e = Won(b) PROVE won
    <3>1. IsEnd(e) /\ e.kind = "BranchSucceeded" /\ e.node = b
      BY <1>1, <2>2, EventKinds
    <3> QED
      BY <1>2, <1>3, <3>1, OwnEnds
  <2> QED
    BY <2>1, <2>2
<1>6. ASSUME NEW b \in futures[t], e = Lost(b) PROVE lost
  <2>1. IsEnd(e) /\ e.kind = "BranchFailed" /\ e.node = b
    BY <1>1, <1>6, EventKinds
  <2> QED
    BY <1>2, <1>3, <2>1, OwnEnds
<1>7. t # Root => /\ forker[t] \in Node /\ forker[t] # t /\ t \in Branch
  <2>1. Rooted(pc, futures, forker)
    BY DEF LostRight
  <2> QED
    BY <1>2, <2>1, TaskInNode, AboveParent DEF Rooted, Branch
<1>8. None \notin Range(q[t])
  <2>1. Listened(pc[t], q[t], futures[t], EndedOf(futures[t], pc), okay[t], L)
    BY <1>3 DEF LostRight, QueuesRight
  <2>2. None \in Range(q[t]) => q[t] = <<None>>
    BY <2>1 DEF Listened
  <2> QED
    BY <1>2, <2>2, OneQueue
<1> HIDE DEF e, won, lost, last, k, R, M, J
<1>9. LostRight(R, q, futures, okay, forker, M)
  BY <1>2, <1>3, Losing DEF R, M, Ended
<1>10. M \in SUBSET Node /\ (lost => t \in M) /\ (~lost => t \notin M) /\ R[t] \notin Ended /\ R[t] # "idle"
       /\ (~lost => R[t] = "listen")
  BY <1>1, <1>2, <1>4 DEF R, M, Ended
<1>11. LostRight(R, Up, futures, okay, forker, M)
  BY <1>2, <1>3, <1>7, <1>9, <1>10, Putting
<1>12. Up \in [Node -> Seq(Event)] /\ Up[t] = q[t]
  BY <1>1, <1>7, <1>11 DEF LostRight, Typed
<1> HIDE DEF Up
<1>13. LostRight(R, Down, futures, J, forker, M)
  <2>1. Up[t] # <<>> /\ Head(Up[t]) = e /\ e # None
    BY <1>2, <1>12 DEF e
  <2>2. t \notin M => \A b \in futures[t] : e # Lost(b)
    BY <1>6, <1>10
  <2>3. t \notin M => k = IF \E b \in futures[t] : e = Won(b) THEN okay[t] + 1 ELSE okay[t]
    BY <1>5 DEF k
  <2>4. R[t] = "listen" \/ t \in M
    BY <1>10
  <2> QED
    BY <1>3, <1>11, <2>1, <2>2, <2>3, <2>4, Taking DEF J
<1>14. /\ Tail(q[t]) \in Seq(Event) /\ Tail(q[t]) \o <<>> = Tail(q[t])
       /\ <<>> \o <<None>> = <<None>> /\ Down[t] = Tail(q[t])
  BY <1>1, <1>2, <1>12, TailQueue
<1>15. q' = [Down EXCEPT ![t] = Tail(q[t]) \o (IF last THEN <<None>> ELSE <<>>)]
  <2> DEFINE s == Tail(q[t]) \o (IF last THEN <<None>> ELSE <<>>)
  <2>1. queues = [q EXCEPT ![t] = s]
    BY <1>1
  <2> HIDE DEF s
  <2>2. CASE t = Root
    BY <1>1, <1>2, <2>1, <2>2 DEF Yields, Up
  <2>3. CASE t # Root
    <3>1. q' = [[q EXCEPT ![t] = s] EXCEPT ![forker[t]] = Append(@, e)]
      BY <1>2, <2>1, <2>3 DEF Yields
    <3>2. q \in [Node -> Seq(Event)] /\ forker[t] \in Node /\ forker[t] # t
      BY <1>1, <1>7, <2>3
    <3> DEFINE V == [[q EXCEPT ![t] = s] EXCEPT ![forker[t]] = Append(@, e)]
               W == [[[q EXCEPT ![forker[t]] = Append(@, e)] EXCEPT ![t] = Tail(@)] EXCEPT ![t] = s]
               X == [Down EXCEPT ![t] = s]
    <3>3. V = W
      BY <3>2, TwoQueues
    <3>4. X = W
      BY <2>3 DEF Up
    <3>5. q' = V
      BY <3>1
    <3> HIDE DEF V, W, X
    <3>6. q' = X
      BY <3>3, <3>4, <3>5
    <3> QED
      BY <3>6 DEF X, s
  <2> QED
    BY <2>2, <2>3 DEF s
<1> HIDE DEF Down
<1>16. CASE ~last
  <2>1. q' = [Down EXCEPT ![t] = Down[t]]
    BY <1>14, <1>15, <1>16
  <2>2. q' = Down
    BY <1>13, <2>1 DEF LostRight, Typed
  <2> QED
    BY <1>2, <1>10, <1>13, <2>2, LostGives
<1>17. CASE last
  <2>1. won /\ ~lost /\ k = Cardinality(futures[t])
    BY <1>17 DEF last, won, lost, k, AllSucceeded
  <2>2. R[t] = "listen"
    BY <1>10, <2>1
  <2> DEFINE C == Counted(Down[t], EndedOf(futures[t], R), M)
  <2>3. k = Cardinality(C) /\ C \subseteq futures[t]
    <3>1. Listened(R[t], Down[t], futures[t], EndedOf(futures[t], R), J[t], M) /\ J[t] = k
      BY <1>1, <1>13, <2>2 DEF LostRight, QueuesRight, Waiting, J
    <3> QED
      BY <3>1 DEF Listened, Counted, EndedOf
  <2>4. C = futures[t]
    <3>1. IsFiniteSet(futures[t])
      BY <1>1, FS_Subset DEF Branch
    <3> HIDE DEF C
    <3> QED
      BY <2>1, <2>3, <3>1, FS_Subset
  <2>5. None \notin Range(Down[t])
    BY <1>1, <1>2, <1>8, <1>14, TailQueue
  <2>6. Down[t] = <<>>
    BY <1>13, <2>2, <2>4, <2>5, AllCounted
  <2>7. futures[t] # {}
    BY <1>2 DEF ForkInv, FInv, TInv, ForksWellFormed
  <2>8. LostRight(R, [Down EXCEPT ![t] = <<None>>], futures, J, forker, M)
    <3>1. <<None>> \in Closed
      BY DEF Closed
    <3> QED
      BY <1>13, <2>2, <2>4, <2>6, <2>7, <3>1, Closing
  <2>9. q' = [Down EXCEPT ![t] = <<None>>]
    BY <1>14, <1>15, <1>17, <2>6
  <2> QED
    BY <1>2, <1>10, <2>8, <2>9, LostGives
<1> QED
  BY <1>16, <1>17

\* A fork that hears that it may go on joins its branches.
LEMMA Joining ==
  ASSUME NEW P, NEW Q, NEW F, NEW K, NEW G, NEW L, LostRight(P, Q, F, K, G, L),
         NEW t \in Node, P[t] = "listen", None \in Range(Q[t]), F[t] # {}
  PROVE  LostRight([P EXCEPT ![t] = "join"], [Q EXCEPT ![t] = Tail(@)], F, K, G, L)
<1>1. Q \in [Node -> Seq(Event)] /\ Listened("listen", Q[t], F[t], EndedOf(F[t], P), K[t], L)
  BY DEF LostRight, Typed, QueuesRight, Waiting
<1>2. None \in Range(Q[t])
  OBVIOUS
<1>3. Counted(Q[t], EndedOf(F[t], P), L) = F[t] /\ Tail(Q[t]) = <<>>
  BY <1>1, <1>2, OneQueue DEF Listened
<1> DEFINE s == Tail(Q[t])
           R == [Q EXCEPT ![t] = s]
<1>4. s \in Closed
  BY <1>3 DEF Closed
<1> HIDE DEF s
<1>5. LostRight(P, R, F, K, G, L) /\ Counted(s, EndedOf(F[t], P), L) = F[t]
  BY <1>2, <1>3, <1>4, Closing
<1>6. R[t] = <<>>
  BY <1>1, <1>3 DEF s
<1>7. Counted(R[t], EndedOf(F[t], P), L) = F[t]
  BY <1>1, <1>5
<1> HIDE DEF R
<1>8. LostRight([P EXCEPT ![t] = "join"], R, F, K, G, L)
  <2>1. /\ "join" \in Where \ {"idle", "raise"} /\ "join" \notin Ended /\ "join" \in Waiting
        /\ P[t] \in Waiting /\ P[t] \notin Ended /\ P[t] \notin Quiet /\ P[t] \notin {"idle", "raise"}
    BY DEF Where, Ended, Waiting, Quiet
  <2>2. t \notin L
    BY <2>1 DEF LostRight, LostPlaces
  <2> QED
    BY <1>5, <1>6, <1>7, <2>1, <2>2, Moving
<1> QED
  BY <1>8 DEF R, s

\* A fork submits its branches, hears that it may go on, and goes on.
LEMMA ForksLost ==
  ASSUME ForkInv, ForkedInv, NEW L \in SUBSET Node, LostRight(pc, q, futures, okay, forker, L),
         NEW t \in Node, Forks(t)
  PROVE  LostInv'
<1>1. /\ pc \in [Node -> Where] /\ q \in [Node -> Seq(Event)] /\ futures \in [Node -> SUBSET Branch]
      /\ L \cup {t} \in SUBSET Node /\ \A u \in Node : todo[u] \in Seq(Branch)
  BY DEF ForkInv, FInv, TInv, TypeOK
<1>2. /\ pc[t] \in Waiting /\ pc[t] \notin Ended /\ pc[t] \notin Quiet /\ pc[t] # "idle" /\ t \notin L
  <2>1. pc[t] \in Waiting
    BY DEF Forks, Skips, CountsSubmit, Refused, Submits, Listens, StopsListening, Joins, At, Waiting
  <2>2. pc[t] \notin Ended /\ pc[t] \notin Quiet /\ pc[t] \notin {"raise", "idle"}
    BY <2>1 DEF Waiting, Ended, Quiet
  <2> QED
    BY <2>1, <2>2, NotLost
<1>3. Listened(pc[t], q[t], futures[t], EndedOf(futures[t], pc), okay[t], L)
  BY <1>2 DEF LostRight, QueuesRight
<1>4. /\ \A p \in {"fork", "submit", "listen"} : p \in Where \ {"idle", "raise"} /\ p \notin Ended
      /\ "join" \in Where \ {"idle", "raise"} /\ "join" \notin Ended
      /\ \A p \in {"top", "over"} : p \in Where \ {"idle", "raise"} /\ p \notin Ended /\ p \notin Waiting
  BY DEF Where, Ended, Waiting
<1>5. ASSUME NEW p \in {"fork", "submit", "listen"}, pc[t] \in {"fork", "submit"}
      PROVE  LostRight([pc EXCEPT ![t] = p], q, futures, okay, forker, L)
  <2>1. p # "join" /\ p \in Waiting
    BY DEF Waiting
  <2> QED
    BY <1>2, <1>4, <1>5, <2>1, Moving
<1>6. CASE Skips(t)
  <2>1. /\ pc[t] = "fork" /\ futures' = futures /\ okay' = okay /\ forker' = forker /\ q' = q
    BY <1>6 DEF Skips, At
  <2>2. PICK p \in {"fork", "listen"} : pc' = [pc EXCEPT ![t] = p]
    BY <1>6 DEF Skips, NextEdge, Goes
  <2>3. LostRight(pc', q, futures, okay, forker, L)
    BY <1>5, <2>1, <2>2
  <2>4. LostRight(pc', q', futures', okay', forker', L)
    BY <2>1, <2>3
  <2> QED
    BY <2>4, LostGives
<1>7. CASE CountsSubmit(t)
  <2>1. /\ pc[t] = "fork" /\ futures' = futures /\ okay' = okay /\ forker' = forker
        /\ pc' = [pc EXCEPT ![t] = "submit"]
        /\ q' = IF futures[t] = {} THEN [q EXCEPT ![t] = <<>>] ELSE q
    BY <1>7 DEF CountsSubmit, At, Goes, forkVars
  <2>2. futures[t] = {} => q[t] = <<>>
    BY <1>3 DEF Listened
  <2>3. q' = q
    BY <1>1, <2>1, <2>2
  <2>4. LostRight(pc', q, futures, okay, forker, L)
    BY <1>5, <2>1
  <2>5. LostRight(pc', q', futures', okay', forker', L)
    BY <2>1, <2>3, <2>4
  <2> QED
    BY <2>5, LostGives
<1>8. CASE Refused(t)
  <2>1. /\ pc' = [pc EXCEPT ![t] = "raise"]
        /\ futures' = futures /\ okay' = okay /\ forker' = forker /\ q' = q
    BY <1>8 DEF Refused, Goes
  <2>2. LostRight(pc', q, futures, okay, forker, L \cup {t})
    BY <1>2, <2>1, Losing
  <2>3. LostRight(pc', q', futures', okay', forker', L \cup {t})
    BY <2>1, <2>2
  <2> QED
    BY <1>1, <2>3, LostGives
<1>9. CASE Submits(t)
  <2> DEFINE b == Head(todo[t])
             R == [pc EXCEPT ![b] = "queued"]
             E == [futures EXCEPT ![t] = @ \cup {b}]
             H == [forker EXCEPT ![b] = t]
  <2>1. /\ pc[t] = "submit" /\ futures' = E /\ okay' = okay /\ forker' = H /\ q' = q
        /\ \E p \in {"fork", "listen"} : pc' = [R EXCEPT ![t] = p]
    BY <1>9 DEF Submits, At, NextEdge
  <2>2. ToSubmit(t) /\ todo[t] # <<>> /\ t \in Task /\ node[t] \in Walk[t]
    BY <1>2, <2>1 DEF TodoInv, WalksInv, ForkInv, FInv, TInv, ForksWellFormed
  <2>3. b \in Range(todo[t]) /\ b \in Branch /\ b \in Node
    BY <1>1, <2>2, TailQueue DEF Branch
  <2>4. b \in Forked(node[t]) /\ pc[b] = "idle" /\ b # t
    BY <1>2, <2>1, <2>2, <2>3 DEF ToSubmit
  <2>5. IsParent(t, b)
    BY <2>2, <2>4 DEF IsParent
  <2>6. LostRight(R, q, E, okay, H, L)
    BY <2>1, <2>2, <2>3, <2>4, <2>5, Starting
  <2>7. PICK p \in {"fork", "listen"} : pc' = [R EXCEPT ![t] = p]
    BY <2>1
  <2>8. R[t] = "submit"
    BY <1>1, <2>1, <2>3, <2>4
  <2> HIDE DEF b, R, E, H
  <2>9. LostRight([R EXCEPT ![t] = p], q, E, okay, H, L)
    <3>1. p # "join" /\ p \in Waiting /\ R[t] \notin Quiet /\ R[t] \notin Ended
      BY <2>8 DEF Waiting, Quiet, Ended
    <3> QED
      BY <1>2, <1>4, <2>6, <2>8, <3>1, Moving
  <2>10. LostRight(pc', q', futures', okay', forker', L)
    BY <2>1, <2>7, <2>9
  <2> QED
    BY <2>10, LostGives
<1>10. CASE StopsListening(t)
  <2>1. /\ pc[t] = "listen" /\ pc' = [pc EXCEPT ![t] = "join"] /\ q[t] # <<>> /\ Head(q[t]) = None
        /\ q' = [q EXCEPT ![t] = Tail(@)]
        /\ futures' = futures /\ okay' = okay /\ forker' = forker
    BY <1>10 DEF StopsListening, At, Goes, forkVars
  <2>2. futures[t] # {}
    BY <2>1 DEF ForkInv, FInv, TInv, ForksWellFormed
  <2>3. None \in Range(q[t])
    BY <1>1, <2>1, TailQueue
  <2>4. LostRight([pc EXCEPT ![t] = "join"], [q EXCEPT ![t] = Tail(@)], futures, okay, forker, L)
    BY <2>1, <2>2, <2>3, Joining
  <2>9. LostRight(pc', q', futures', okay', forker', L)
    BY <2>1, <2>4
  <2> QED
    BY <2>9, LostGives
<1>11. CASE Joins(t)
  <2>1. /\ pc[t] = "join" /\ \A b \in futures[t] : pc[b] \in Quiet
        /\ futures' = futures /\ okay' = okay /\ forker' = forker /\ q' = q
    BY <1>11 DEF Joins, At, IsOver, Quiet, forkVars
  <2>2. PICK p \in {"top", "over"} : pc' = [pc EXCEPT ![t] = p]
    BY <1>11 DEF Joins, StepTo, Goes
  <2>3. LostRight(pc', q, futures, okay, forker, L)
    BY <1>2, <1>4, <2>1, <2>2, Moving
  <2>4. LostRight(pc', q', futures', okay', forker', L)
    BY <2>1, <2>3
  <2> QED
    BY <2>4, LostGives
<1> QED
  BY <1>6, <1>7, <1>8, <1>9, <1>10, <1>11, ListensLost DEF Forks

\* A branch that ends tells its fork; its thread goes after that.
LEMMA EndsLost ==
  ASSUME ForkInv, NEW L \in SUBSET Node, LostRight(pc, q, futures, okay, forker, L),
         NEW t \in Node, Ends(t)
  PROVE  LostInv'
<1>1. pc \in [Node -> Where] /\ futures' = futures /\ okay' = okay /\ forker' = forker
  BY DEF ForkInv, FInv, TInv, TypeOK, Ends, EndsBranch, SetsFuture, CallsBack, forkVars
<1>2. CASE EndsBranch(t)
  <2> DEFINE e == IF pc[t] = "over" THEN Won(t) ELSE Lost(t)
  <2>1. /\ t \in Branch /\ pc[t] \in {"over", "raise"} /\ pc' = [pc EXCEPT ![t] = "ending"]
        /\ q' = [q EXCEPT ![forker[t]] = Append(@, e)]
    BY <1>2 DEF EndsBranch, Branch, Goes, Yields, Won, Lost
  <2>2. e \in {Won(t), Lost(t)} /\ (e = Won(t) <=> pc[t] = "over")
    BY <2>1, EventKinds
  <2> HIDE DEF e
  <2>3. LostRight(pc', q', futures, okay, forker, L)
    BY <2>1, <2>2, Ending
  <2>4. LostRight(pc', q', futures', okay', forker', L)
    BY <1>1, <2>3
  <2> QED
    BY <2>4, LostGives
<1>3. CASE SetsFuture(t) \/ CallsBack(t)
  <2>1. /\ q' = q
        /\ \/ pc[t] = "ending" /\ pc' = [pc EXCEPT ![t] = "finished"]
           \/ pc[t] = "finished" /\ pc' = [pc EXCEPT ![t] = "done"]
    BY <1>3 DEF SetsFuture, CallsBack, Goes
  <2>2. /\ pc[t] \in Ended /\ pc[t] \notin Waiting /\ pc[t] # "idle"
        /\ \A p \in {"finished", "done"} : p \in Where \ {"idle", "raise"} /\ p \in Ended
                                           /\ p \in Quiet /\ p \notin Waiting
    BY <2>1 DEF Ended, Quiet, Waiting, Where
  <2>3. LostRight(pc', q, futures, okay, forker, L)
    BY <2>1, <2>2, Moving
  <2>4. LostRight(pc', q', futures', okay', forker', L)
    BY <1>1, <2>1, <2>3
  <2> QED
    BY <2>4, LostGives
<1> QED
  BY <1>2, <1>3 DEF Ends

\* A run that ends early leaves its branches: they are lost to it, and it to them.
LEMMA RunLost ==
  ASSUME ForkInv, NEW L \in SUBSET Node, LostRight(pc, q, futures, okay, forker, L),
         EndsRun \/ Resumes \/ Closes \/ TimePasses \/ UNCHANGED vars
  PROVE  LostInv'
<1>1. /\ pc \in [Node -> Where] /\ pc[Root] # "idle" /\ Root \notin Branch
      /\ L \cup {Root} \in SUBSET Node
  BY DEF ForkInv, FInv, TInv, TypeOK, RootInv, Branch
<1>2. futures' = futures /\ okay' = okay /\ forker' = forker /\ q' = q
  BY DEF EndsRun, Resumes, Closes, TimePasses, vars, forkVars
<1>3. pc' = pc \/ pc' = [pc EXCEPT ![Root] = "done"]
  BY DEF EndsRun, Resumes, Closes, TimePasses, vars, Goes
<1>4. CASE pc' = pc
  <2>1. LostRight(pc', q', futures', okay', forker', L)
    BY <1>2, <1>4
  <2> QED
    BY <2>1, LostGives
<1>5. CASE EndsRun
  <2>1. pc' = [pc EXCEPT ![Root] = "done"] /\ pc[Root] \notin Waiting
    BY <1>5 DEF EndsRun, Goes, At, Waiting
  <2>2. "done" \in Where \ {"idle", "raise"} /\ "done" \in Ended /\ "done" \notin Waiting
    BY DEF Where, Ended, Waiting
  <2>3. LostRight(pc', q, futures, okay, forker, L)
    BY <1>1, <2>1, <2>2, Moving
  <2>4. LostRight(pc', q', futures', okay', forker', L)
    BY <1>2, <2>3
  <2> QED
    BY <2>4, LostGives
<1>6. CASE ~EndsRun /\ pc' # pc
  <2>1. LostRight([pc EXCEPT ![Root] = "done"], q, futures, okay, forker, L \cup {Root})
    BY <1>1, Losing
  <2>2. LostRight(pc', q', futures', okay', forker', L \cup {Root})
    BY <1>2, <1>3, <1>6, <2>1
  <2> QED
    BY <1>1, <2>2, LostGives
<1> QED
  BY <1>4, <1>5, <1>6

\* A branch that a worker takes is not lost.
LEMMA TakesLost ==
  ASSUME ForkInv, NEW L \in SUBSET Node, LostRight(pc, q, futures, okay, forker, L),
         NEW b \in Branch, TakesBranch(b)
  PROVE  LostInv'
<1>1. /\ pc' = [pc EXCEPT ![b] = "top"] /\ b \in Node
      /\ futures' = futures /\ okay' = okay /\ forker' = forker /\ q' = q
  BY DEF TakesBranch, Goes, Branch
<1>2. pc[b] = "queued"
  <2>1. pool \in Seq(Branch) /\ pool # <<>> /\ b = Head(pool)
    BY DEF TakesBranch, ForkInv, FInv, TInv, TypeOK
  <2>2. b \in Range(pool)
    BY <2>1, TailQueue
  <2> QED
    BY <2>2 DEF ForkInv, PoolInv
<1>3. /\ "top" \in Where \ {"idle", "raise"} /\ "top" \notin Ended /\ "top" \notin Waiting
      /\ pc[b] \notin Ended /\ pc[b] \notin Quiet /\ pc[b] \notin Waiting
  BY <1>2 DEF Where, Ended, Waiting, Quiet
<1>4. b \notin L
  BY <1>1, <1>2, <1>3, NotLost
<1>5. LostRight(pc', q, futures, okay, forker, L)
  BY <1>1, <1>2, <1>3, <1>4, Moving
<1>6. LostRight(pc', q', futures', okay', forker', L)
  BY <1>1, <1>5
<1> QED
  BY <1>6, LostGives

\* What is preserved on the way of an event up the queues.
StreamInv == ForkInv /\ ForkedInv /\ LostInv

\* Every step keeps StreamInv.
LEMMA StepStream ==
  ASSUME StreamInv, [Next]_vars
  PROVE  StreamInv'
<1>1. PICK L \in SUBSET Node : LostRight(pc, q, futures, okay, forker, L)
  BY DEF StreamInv, LostInv
<1>2. ForkInv' /\ ForkedInv'
  BY StepForks, StepPool, StepRoot, StepForked DEF StreamInv, ForkInv
<1>3. LostInv'
  BY <1>1, WalksLost, ForksLost, EndsLost, TakesLost, RunLost DEF Next, Over, StreamInv
<1> QED
  BY <1>2, <1>3 DEF StreamInv

-----------------------------------------------------------------------------
(* What has been told: an invariant of the queues Q, the nodes' statuses   *)
(* St and what run() has reported of them Rp.                              *)

Told(n, k) == [kind |-> k, node |-> n]
IsTold(e) == e.kind \in NodeStatus

\* An event in a queue tells how its node is, or was when it started, and is above the
\* task that ran the node.
EventsRight(Q, St, Rp) ==
  \A v \in Node : \A e \in Range(Q[v]) : IsTold(e) =>
    /\ St[e.node] # "idle" /\ e.kind \in {"running", St[e.node]}
    /\ Rp[e.node] \in {"idle", "running"} /\ (e.kind = "running" => Rp[e.node] = "idle")
    /\ \A t \in Task : e.node \in Walk[t] => v \in Above[t] /\ v # t

\* It is in one queue, once.
OnceTold(Q) ==
  \A v \in Node : \A e \in Range(Q[v]) : IsTold(e) =>
    OnceIn(Q[v], e) /\ \A u \in Node : e \in Range(Q[u]) => u = v

\* A node's start is ahead of its end.
OrderRight(Q) ==
  \A v, u \in Node : \A e \in Range(Q[v]) : \A f \in Range(Q[u]) :
    e.kind = "running" /\ IsTold(f) /\ f.node = e.node /\ f # e =>
      v \in Above[u] /\ (v = u => InOrder(Q[v], e, f))

Queued(Q, e) == \E v \in Node : e \in Range(Q[v])

\* Only what was started is told to have succeeded.
BegunTold(Q, Rp) ==
  \A u \in Node : \A f \in Range(Q[u]) : f.kind \in {"succeeded", "exception"} =>
    Rp[f.node] = "running" \/ Queued(Q, Told(f.node, "running"))

\* What was not reported yet is on its way.
AllTold(Q, St, Rp) ==
  \A n \in Node : /\ Rp[n] = St[n] \/ Queued(Q, Told(n, St[n]))
                  /\ St[n] = "idle" => Rp[n] = "idle"

ToldRight(Q, St, Rp) ==
  /\ Q \in [Node -> Seq(Event)] /\ St \in [Node -> NodeStatus] /\ Rp \in [Node -> NodeStatus]
  /\ EventsRight(Q, St, Rp) /\ OnceTold(Q) /\ OrderRight(Q)
  /\ BegunTold(Q, Rp) /\ AllTold(Q, St, Rp)

ToldInv == ToldRight(q, status, report)

\* Events that tell of a node are neither ends of branches nor None.
LEMMA ToldKinds ==
  /\ ~IsTold(None) /\ \A b : ~IsTold(Won(b)) /\ ~IsTold(Lost(b))
  /\ \A e \in Event : IsTold(e) => /\ e.node \in Node /\ e = Told(e.node, e.kind) /\ e # None
                                   /\ e.kind \in {"running", "succeeded", "exception", "failed"}
  /\ \A n \in Node, k \in NodeStatus \ {"idle"} : /\ Told(n, k) \in Event /\ IsTold(Told(n, k))
                                                  /\ Told(n, k).node = n /\ Told(n, k).kind = k
  /\ \A e, f \in Event : IsTold(e) /\ IsTold(f) /\ e.node = f.node /\ e.kind = f.kind => e = f
  /\ \A e \in Event : IsTold(e) => ~IsEnd(e)
<1>1. ~IsTold(None) /\ \A b : ~IsTold(Won(b)) /\ ~IsTold(Lost(b))
  BY DEF IsTold, None, Won, Lost, NodeStatus
<1>2. ASSUME NEW e \in Event, IsTold(e)
      PROVE  /\ e.node \in Node /\ e = Told(e.node, e.kind) /\ e # None /\ ~IsEnd(e)
             /\ e.kind \in {"running", "succeeded", "exception", "failed"}
  <2>1. e # None
    BY <1>1, <1>2
  <2>2. e \in [kind : (NodeStatus \ {"idle"}) \cup {"BranchSucceeded", "BranchFailed"}, node : Node]
    BY <2>1 DEF Event
  <2>3. e.node \in Node /\ e = Told(e.node, e.kind) /\ e.kind # "idle"
    BY <2>2 DEF Told, NodeStatus
  <2> QED
    BY <1>2, <2>1, <2>3 DEF IsTold, NodeStatus, IsEnd
<1>3. ASSUME NEW n \in Node, NEW k \in NodeStatus \ {"idle"}
      PROVE  /\ Told(n, k) \in Event /\ IsTold(Told(n, k))
             /\ Told(n, k).node = n /\ Told(n, k).kind = k
  BY DEF Told, Event, IsTold
<1>4. ASSUME NEW e \in Event, NEW f \in Event, IsTold(e), IsTold(f), e.node = f.node, e.kind = f.kind
      PROVE  e = f
  <2>1. e = Told(e.node, e.kind) /\ f = Told(f.node, f.kind)
    BY <1>2, <1>4
  <2> QED
    BY <1>4, <2>1
<1> QED
  BY <1>1, <1>2, <1>3, <1>4

\* What a queue holds is an event, and it tells of a node.
LEMMA InQueue ==
  ASSUME NEW Q \in [Node -> Seq(Event)], NEW v \in Node, NEW e \in Range(Q[v])
  PROVE  e \in Event /\ (IsTold(e) => e.node \in Node)
<1>1. Q[v] \in Seq(Event)
  OBVIOUS
<1>2. e \in Event
  BY <1>1 DEF Range
<1> QED
  BY <1>2, ToldKinds

\* Queues that tell the same in the same order are as right.
LEMMA SameTold ==
  ASSUME NEW Q, NEW St, NEW Rp, ToldRight(Q, St, Rp), NEW R \in [Node -> Seq(Event)],
         \A v \in Node : \A e : IsTold(e) =>
           /\ e \in Range(R[v]) <=> e \in Range(Q[v])
           /\ OnceIn(Q[v], e) => OnceIn(R[v], e)
           /\ \A f : IsTold(f) /\ e # f /\ InOrder(Q[v], e, f) => InOrder(R[v], e, f)
  PROVE  ToldRight(R, St, Rp)
<1>1. \A e : IsTold(e) => (Queued(R, e) <=> Queued(Q, e))
  BY DEF Queued
<1>2. /\ Q \in [Node -> Seq(Event)] /\ St \in [Node -> NodeStatus] /\ Rp \in [Node -> NodeStatus]
      /\ EventsRight(Q, St, Rp) /\ OnceTold(Q) /\ OrderRight(Q)
      /\ BegunTold(Q, Rp) /\ AllTold(Q, St, Rp)
  BY DEF ToldRight
<1>3. EventsRight(R, St, Rp)
  BY <1>2 DEF EventsRight
<1>4. OnceTold(R)
  BY <1>2 DEF OnceTold
<1>5. OrderRight(R)
  <2>1. SUFFICES ASSUME NEW v \in Node, NEW u \in Node, NEW e \in Range(R[v]), NEW f \in Range(R[u]),
                        e.kind = "running", IsTold(f), f.node = e.node, f # e
                 PROVE  v \in Above[u] /\ (v = u => InOrder(R[v], e, f))
    BY DEF OrderRight
  <2>2. IsTold(e)
    BY <2>1 DEF IsTold, NodeStatus
  <2>3. e \in Range(Q[v]) /\ f \in Range(Q[u])
    BY <2>1, <2>2
  <2>4. v \in Above[u] /\ (v = u => InOrder(Q[v], e, f))
    BY <1>2, <2>1, <2>3 DEF OrderRight
  <2> QED
    BY <2>1, <2>2, <2>4
<1>6. BegunTold(R, Rp)
  <2>1. SUFFICES ASSUME NEW u \in Node, NEW f \in Range(R[u]), f.kind \in {"succeeded", "exception"}
                 PROVE  Rp[f.node] = "running" \/ Queued(R, Told(f.node, "running"))
    BY DEF BegunTold
  <2>2. IsTold(f) /\ f \in Event /\ f.node \in Node
    BY <2>1, InQueue DEF IsTold, NodeStatus
  <2>3. Rp[f.node] = "running" \/ Queued(Q, Told(f.node, "running"))
    BY <1>2, <2>1, <2>2 DEF BegunTold
  <2>4. IsTold(Told(f.node, "running"))
    BY <2>2, ToldKinds DEF NodeStatus
  <2> QED
    BY <1>1, <2>3, <2>4
<1>7. AllTold(R, St, Rp)
  <2>1. SUFFICES ASSUME NEW n \in Node
                 PROVE  /\ Rp[n] = St[n] \/ Queued(R, Told(n, St[n]))
                        /\ St[n] = "idle" => Rp[n] = "idle"
    BY DEF AllTold
  <2>2. IsTold(Told(n, St[n]))
    BY <1>2 DEF IsTold, Told
  <2> QED
    BY <1>1, <1>2, <2>2 DEF AllTold
<1> QED
  BY <1>2, <1>3, <1>4, <1>5, <1>6, <1>7 DEF ToldRight

\* Something else is put in a queue.
LEMMA OtherPut ==
  ASSUME NEW Q, NEW St, NEW Rp, ToldRight(Q, St, Rp), NEW u \in Node, NEW x \in Event, ~IsTold(x)
  PROVE  ToldRight([Q EXCEPT ![u] = Append(@, x)], St, Rp)
<1> DEFINE R == [Q EXCEPT ![u] = Append(@, x)]
<1>1. /\ Q \in [Node -> Seq(Event)] /\ Q[u] \in Seq(Event) /\ Append(Q[u], x) \in Seq(Event)
  BY AppendQueue DEF ToldRight
<1>2. R[u] = Append(Q[u], x) /\ (\A v \in Node : v # u => R[v] = Q[v]) /\ R \in [Node -> Seq(Event)]
  BY <1>1
<1> HIDE DEF R
<1>3. ASSUME NEW e, IsTold(e)
      PROVE  /\ e \in Range(R[u]) <=> e \in Range(Q[u])
             /\ OnceIn(Q[u], e) => OnceIn(R[u], e)
             /\ \A f : IsTold(f) /\ e # f /\ InOrder(Q[u], e, f) => InOrder(R[u], e, f)
  <2>1. e # x
    BY <1>3
  <2>2. Range(Append(Q[u], x)) = Range(Q[u]) \cup {x}
    BY <1>1, AppendQueue
  <2>3. OnceIn(Q[u], e) => OnceIn(Append(Q[u], x), e)
    BY <1>1, <2>1, AppendQueue
  <2>4. \A f : e # f /\ InOrder(Q[u], e, f) => InOrder(Append(Q[u], x), e, f)
    BY <1>1, <2>1, AppendQueue
  <2> QED
    BY <1>2, <2>1, <2>2, <2>3, <2>4
<1>4. ToldRight(R, St, Rp)
  BY <1>2, <1>3, SameTold
<1> QED
  BY <1>4 DEF R

\* Something else is taken from a queue.
LEMMA OtherTaken ==
  ASSUME NEW Q, NEW St, NEW Rp, ToldRight(Q, St, Rp), NEW u \in Node, Q[u] # <<>>, ~IsTold(Head(Q[u]))
  PROVE  ToldRight([Q EXCEPT ![u] = Tail(@)], St, Rp)
<1> DEFINE R == [Q EXCEPT ![u] = Tail(@)]
<1>1. /\ Q \in [Node -> Seq(Event)] /\ Q[u] \in Seq(Event) /\ Tail(Q[u]) \in Seq(Event)
  BY TailQueue DEF ToldRight
<1>2. R[u] = Tail(Q[u]) /\ (\A v \in Node : v # u => R[v] = Q[v]) /\ R \in [Node -> Seq(Event)]
  BY <1>1
<1> HIDE DEF R
<1>3. ASSUME NEW e, IsTold(e)
      PROVE  /\ e \in Range(R[u]) <=> e \in Range(Q[u])
             /\ OnceIn(Q[u], e) => OnceIn(R[u], e)
             /\ \A f : IsTold(f) /\ e # f /\ InOrder(Q[u], e, f) => InOrder(R[u], e, f)
  <2>1. e # Head(Q[u])
    BY <1>3
  <2>2. Range(Q[u]) = {Head(Q[u])} \cup Range(Tail(Q[u]))
    BY <1>1, TailQueue
  <2>3. OnceIn(Q[u], e) => OnceIn(Tail(Q[u]), e)
    BY <1>1, TailQueue
  <2>4. \A f : InOrder(Q[u], e, f) => InOrder(Tail(Q[u]), e, f)
    BY <1>1, TailQueue
  <2> QED
    BY <1>2, <2>1, <2>2, <2>3, <2>4
<1>4. ToldRight(R, St, Rp)
  BY <1>2, <1>3, SameTold
<1> QED
  BY <1>4 DEF R

\* How a node's status may go on.
MayBecome(from, to) ==
  (from = "idle" /\ to \in {"running", "failed"})
    \/ (from = "running" /\ to \in {"succeeded", "exception", "failed"})

\* What is queued of a node is not what it becomes; its start is all that may be.
LEMMA NotYetTold ==
  ASSUME NEW Q, NEW St, NEW Rp, ToldRight(Q, St, Rp), NEW n \in Node, NEW s, MayBecome(St[n], s)
  PROVE  /\ Told(n, s) \in Event /\ IsTold(Told(n, s)) /\ s \in NodeStatus /\ ~Queued(Q, Told(n, s))
         /\ Told(n, s).node = n /\ Told(n, s).kind = s
         /\ \A v \in Node : \A e \in Range(Q[v]) : IsTold(e) /\ e.node = n =>
              St[n] = "running" /\ e.kind = "running" /\ Rp[n] = "idle" /\ e = Told(n, "running")
         /\ Rp[n] \in {"idle", "running"} /\ (St[n] = "idle" => Rp[n] = "idle")
         /\ St[n] = "running" => Rp[n] = "running" \/ Queued(Q, Told(n, "running"))
<1>1. /\ Q \in [Node -> Seq(Event)] /\ EventsRight(Q, St, Rp) /\ AllTold(Q, St, Rp)
  BY DEF ToldRight
<1>2. /\ s \in NodeStatus \ {"idle"} /\ St[n] \in {"idle", "running"} /\ s # St[n] /\ s # "idle"
      /\ (s = "running" => St[n] = "idle")
  BY DEF MayBecome, NodeStatus
<1>3. Told(n, s) \in Event /\ IsTold(Told(n, s)) /\ Told(n, s).node = n /\ Told(n, s).kind = s
  BY <1>2, ToldKinds
<1>4. ASSUME NEW v \in Node, NEW e \in Range(Q[v]), IsTold(e), e.node = n
      PROVE  St[n] = "running" /\ e.kind = "running" /\ Rp[n] = "idle" /\ e = Told(n, "running")
  <2>1. St[n] # "idle" /\ e.kind \in {"running", St[n]} /\ (e.kind = "running" => Rp[n] = "idle")
    BY <1>1, <1>4 DEF EventsRight
  <2>2. e \in Event
    BY <1>1, InQueue
  <2>3. e = Told(n, e.kind)
    BY <1>4, <2>2, ToldKinds
  <2> QED
    BY <1>2, <2>1, <2>3
<1>5. ~Queued(Q, Told(n, s))
  BY <1>2, <1>3, <1>4 DEF Queued
<1>6. /\ St[n] = "idle" => Rp[n] = "idle"
      /\ St[n] = "running" => Rp[n] = "running" \/ Queued(Q, Told(n, "running"))
  BY <1>1 DEF AllTold
<1>7. Queued(Q, Told(n, "running")) => Rp[n] = "idle"
  <2>1. Told(n, "running").node = n /\ IsTold(Told(n, "running"))
    BY ToldKinds DEF NodeStatus
  <2> QED
    BY <1>4, <2>1 DEF Queued
<1> QED
  BY <1>2, <1>3, <1>4, <1>5, <1>6, <1>7

\* A branch tells its fork of a node.
LEMMA NewsUp ==
  ASSUME NEW Q, NEW St, NEW Rp, ToldRight(Q, St, Rp), NEW b \in Task, NEW u \in Task, IsParent(u, b),
         NEW n \in Walk[b], NEW s, MayBecome(St[n], s)
  PROVE  ToldRight([Q EXCEPT ![u] = Append(@, Told(n, s))], [St EXCEPT ![n] = s], Rp)
<1> DEFINE x == Told(n, s)
           R == [Q EXCEPT ![u] = Append(@, x)]
           V == [St EXCEPT ![n] = s]
<1>1. b \in Node /\ u \in Node /\ n \in Node /\ u \in Above[b] /\ u # b
      /\ \A w \in Above[b] : w # b => w \in Above[u]
  BY TaskInNode, AboveParent, WalkIsDown
<1>2. /\ x \in Event /\ IsTold(x) /\ s \in NodeStatus /\ ~Queued(Q, x) /\ x.node = n /\ x.kind = s
      /\ \A v \in Node : \A e \in Range(Q[v]) : IsTold(e) /\ e.node = n =>
           St[n] = "running" /\ e.kind = "running" /\ Rp[n] = "idle" /\ e = Told(n, "running")
      /\ Rp[n] \in {"idle", "running"} /\ (St[n] = "idle" => Rp[n] = "idle")
      /\ St[n] = "running" => Rp[n] = "running" \/ Queued(Q, Told(n, "running"))
  BY <1>1, NotYetTold
<1>3. /\ Q \in [Node -> Seq(Event)] /\ St \in [Node -> NodeStatus] /\ Rp \in [Node -> NodeStatus]
      /\ EventsRight(Q, St, Rp) /\ OnceTold(Q) /\ OrderRight(Q)
      /\ BegunTold(Q, Rp) /\ AllTold(Q, St, Rp)
  BY DEF ToldRight
<1>4. s # "idle" /\ (s = "running" => St[n] = "idle")
      /\ (s \in {"succeeded", "exception"} => St[n] = "running")
  BY DEF MayBecome
<1> HIDE DEF x
<1>5. Q[u] \in Seq(Event) /\ Append(Q[u], x) \in Seq(Event)
  BY <1>1, <1>2, <1>3, AppendQueue
<1>6. /\ R[u] = Append(Q[u], x) /\ (\A v \in Node : v # u => R[v] = Q[v]) /\ R \in [Node -> Seq(Event)]
      /\ V[n] = s /\ (\A m \in Node : m # n => V[m] = St[m]) /\ V \in [Node -> NodeStatus]
  BY <1>1, <1>2, <1>3, <1>5
<1> HIDE DEF R, V
<1>7. /\ Range(R[u]) = Range(Q[u]) \cup {x}
      /\ \A e : e # x => (OnceIn(Q[u], e) => OnceIn(R[u], e))
      /\ \A e, f : e # f /\ InOrder(Q[u], e, f) /\ e # x => InOrder(R[u], e, f)
      /\ OnceIn(R[u], x)
  <2>1. x \notin Range(Q[u])
    BY <1>1, <1>2 DEF Queued
  <2>2. OnceIn(Q[u], x)
    BY <2>1 DEF OnceIn, Range
  <2>3. Range(Append(Q[u], x)) = Range(Q[u]) \cup {x}
    BY <1>2, <1>5, AppendQueue
  <2>4. \A e : OnceIn(Q[u], e) /\ (x = e => e \notin Range(Q[u])) => OnceIn(Append(Q[u], x), e)
    BY <1>2, <1>5, AppendQueue
  <2>5. \A e, f : e # f /\ InOrder(Q[u], e, f) /\ (x = e => f \notin Range(Q[u]))
                    => InOrder(Append(Q[u], x), e, f)
    BY <1>2, <1>5, AppendQueue
  <2> QED
    BY <1>6, <2>1, <2>2, <2>3, <2>4, <2>5
<1>8. \A v \in Node : \A e \in Range(R[v]) : e \in Range(Q[v]) \/ (v = u /\ e = x)
  BY <1>6, <1>7
<1>9. (\A e : Queued(Q, e) => Queued(R, e)) /\ Queued(R, x)
  <2>1. \A v \in Node : Range(Q[v]) \subseteq Range(R[v])
    BY <1>6, <1>7
  <2>2. x \in Range(R[u])
    BY <1>7
  <2> QED
    BY <1>1, <2>1, <2>2 DEF Queued
<1>10. EventsRight(R, V, Rp)
  <2>1. SUFFICES ASSUME NEW v \in Node, NEW e \in Range(R[v]), IsTold(e)
                 PROVE  /\ V[e.node] # "idle" /\ e.kind \in {"running", V[e.node]}
                        /\ Rp[e.node] \in {"idle", "running"}
                        /\ (e.kind = "running" => Rp[e.node] = "idle")
                        /\ \A t \in Task : e.node \in Walk[t] => v \in Above[t] /\ v # t
    BY DEF EventsRight
  <2>2. CASE e \in Range(Q[v])
    <3>1. /\ St[e.node] # "idle" /\ e.kind \in {"running", St[e.node]}
          /\ Rp[e.node] \in {"idle", "running"}
          /\ (e.kind = "running" => Rp[e.node] = "idle")
          /\ \A t \in Task : e.node \in Walk[t] => v \in Above[t] /\ v # t
      BY <1>3, <2>1, <2>2 DEF EventsRight
    <3>2. e.node \in Node
      BY <1>3, <2>1, <2>2, InQueue
    <3>3. CASE e.node = n
      <4>1. e.kind = "running"
        BY <1>2, <2>1, <2>2, <3>3
      <4> QED
        BY <1>4, <1>6, <3>1, <3>3, <4>1
    <3>4. CASE e.node # n
      BY <1>6, <3>1, <3>2, <3>4
    <3> QED
      BY <3>3, <3>4
  <2>3. CASE v = u /\ e = x
    <3>1. \A t \in Task : n \in Walk[t] => t = b
      BY WalksAssumption
    <3>2. s = "running" => Rp[n] = "idle"
      BY <1>2, <1>4
    <3> QED
      BY <1>1, <1>2, <1>4, <1>6, <2>3, <3>1, <3>2
  <2> QED
    BY <1>8, <2>2, <2>3
<1>11. OnceTold(R)
  <2>1. SUFFICES ASSUME NEW v \in Node, NEW e \in Range(R[v]), IsTold(e)
                 PROVE  OnceIn(R[v], e) /\ \A w \in Node : e \in Range(R[w]) => w = v
    BY DEF OnceTold
  <2>2. CASE e = x
    <3>1. \A w \in Node : e \in Range(R[w]) => w = u
      BY <1>2, <1>8, <2>2 DEF Queued
    <3> QED
      BY <1>7, <2>2, <3>1
  <2>3. CASE e # x
    <3>1. e \in Range(Q[v]) /\ \A w \in Node : e \in Range(R[w]) => e \in Range(Q[w])
      BY <1>8, <2>3
    <3>2. OnceIn(Q[v], e) /\ \A w \in Node : e \in Range(Q[w]) => w = v
      BY <1>3, <2>1, <3>1 DEF OnceTold
    <3>3. OnceIn(R[v], e)
      BY <1>6, <1>7, <2>3, <3>2
    <3> QED
      BY <3>1, <3>2, <3>3
  <2> QED
    BY <2>2, <2>3
<1>12. OrderRight(R)
  <2>1. SUFFICES ASSUME NEW v \in Node, NEW w \in Node, NEW e \in Range(R[v]), NEW f \in Range(R[w]),
                        e.kind = "running", IsTold(f), f.node = e.node, f # e
                 PROVE  v \in Above[w] /\ (v = w => InOrder(R[v], e, f))
    BY DEF OrderRight
  <2>2. IsTold(e)
    BY <2>1 DEF IsTold, NodeStatus
  <2>3. e # x
    <3>1. SUFFICES ASSUME e = x PROVE FALSE
      OBVIOUS
    <3>2. f \in Range(Q[w]) /\ f.node = n /\ St[n] = "idle"
      BY <1>2, <1>4, <1>8, <2>1, <3>1
    <3> QED
      BY <1>2, <2>1, <3>2
  <2>4. e \in Range(Q[v])
    BY <1>8, <2>3
  <2>5. CASE f \in Range(Q[w])
    <3>1. v \in Above[w] /\ (v = w => InOrder(Q[v], e, f))
      BY <1>3, <2>1, <2>4, <2>5 DEF OrderRight
    <3> QED
      BY <1>6, <1>7, <2>1, <2>3, <3>1
  <2>6. CASE w = u /\ f = x
    <3>1. v \in Above[b] /\ v # b
      BY <1>2, <1>3, <2>1, <2>2, <2>4, <2>6 DEF EventsRight
    <3>2. v \in Above[w]
      BY <1>1, <2>6, <3>1
    <3>3. ASSUME v = w PROVE InOrder(R[v], e, f)
      <4>1. f \notin Range(Q[u])
        BY <1>1, <1>2, <2>6 DEF Queued
      <4>2. InOrder(Q[u], e, f)
        BY <4>1 DEF InOrder, Range
      <4> QED
        BY <1>7, <2>1, <2>3, <2>6, <3>3, <4>2
    <3> QED
      BY <3>2, <3>3
  <2> QED
    BY <1>8, <2>5, <2>6
<1>13. BegunTold(R, Rp)
  <2>1. SUFFICES ASSUME NEW w \in Node, NEW f \in Range(R[w]), f.kind \in {"succeeded", "exception"}
                 PROVE  Rp[f.node] = "running" \/ Queued(R, Told(f.node, "running"))
    BY DEF BegunTold
  <2>2. CASE f \in Range(Q[w])
    <3>1. Rp[f.node] = "running" \/ Queued(Q, Told(f.node, "running"))
      BY <1>3, <2>1, <2>2 DEF BegunTold
    <3> QED
      BY <1>9, <3>1
  <2>3. CASE f = x
    BY <1>2, <1>4, <1>9, <2>1, <2>3
  <2> QED
    BY <1>8, <2>2, <2>3
<1>14. AllTold(R, V, Rp)
  <2>1. SUFFICES ASSUME NEW m \in Node
                 PROVE  /\ Rp[m] = V[m] \/ Queued(R, Told(m, V[m]))
                        /\ V[m] = "idle" => Rp[m] = "idle"
    BY DEF AllTold
  <2>2. CASE m = n
    BY <1>4, <1>6, <1>9, <2>2 DEF x
  <2>3. CASE m # n
    BY <1>3, <1>6, <1>9, <2>3 DEF AllTold
  <2> QED
    BY <2>2, <2>3
<1>15. ToldRight(R, V, Rp)
  BY <1>3, <1>6, <1>10, <1>11, <1>12, <1>13, <1>14 DEF ToldRight
<1> QED
  BY <1>15 DEF R, V, x

\* The root tells the consumer of a node of its own walk, which no queue holds anything
\* of, whatever it becomes.
LEMMA NewsOut ==
  ASSUME NEW Q, NEW St, NEW Rp, ToldRight(Q, St, Rp), NEW n \in Walk[Root], NEW s, MayBecome(St[n], s)
  PROVE  /\ ToldRight(Q, [St EXCEPT ![n] = s], [Rp EXCEPT ![n] = s])
         /\ Rp[n] = St[n]
<1> DEFINE V == [St EXCEPT ![n] = s]
           W == [Rp EXCEPT ![n] = s]
<1>1. n \in Node /\ Root \in Task
  BY WalkIsDown DEF Task
<1>2. /\ Q \in [Node -> Seq(Event)] /\ St \in [Node -> NodeStatus] /\ Rp \in [Node -> NodeStatus]
      /\ EventsRight(Q, St, Rp) /\ OnceTold(Q) /\ OrderRight(Q)
      /\ BegunTold(Q, Rp) /\ AllTold(Q, St, Rp) /\ s \in NodeStatus
  BY <1>1, NotYetTold DEF ToldRight
<1>3. ASSUME NEW v \in Node, NEW e \in Range(Q[v]), IsTold(e) PROVE e.node # n /\ e.node \in Node
  <2>1. e.node = n => v \in Above[Root] /\ v # Root
    BY <1>1, <1>2, <1>3 DEF EventsRight
  <2> QED
    BY <1>2, <1>3, <2>1, AboveRoot, InQueue
<1>4. /\ V[n] = s /\ (\A m \in Node : m # n => V[m] = St[m]) /\ V \in [Node -> NodeStatus]
      /\ W[n] = s /\ (\A m \in Node : m # n => W[m] = Rp[m]) /\ W \in [Node -> NodeStatus]
  BY <1>1, <1>2
<1>5. Rp[n] = St[n]
  <2>1. Told(n, St[n]).node = n /\ IsTold(Told(n, St[n]))
    BY <1>1, <1>2 DEF Told, IsTold
  <2>2. ~Queued(Q, Told(n, St[n]))
    BY <1>3, <2>1 DEF Queued
  <2> QED
    BY <1>1, <1>2, <2>2 DEF AllTold
<1> HIDE DEF V, W
<1>6. EventsRight(Q, V, W)
  BY <1>2, <1>3, <1>4 DEF EventsRight
<1>7. BegunTold(Q, W)
  <2>1. SUFFICES ASSUME NEW w \in Node, NEW f \in Range(Q[w]), f.kind \in {"succeeded", "exception"}
                 PROVE  W[f.node] = "running" \/ Queued(Q, Told(f.node, "running"))
    BY DEF BegunTold
  <2>2. IsTold(f)
    BY <2>1 DEF IsTold, NodeStatus
  <2>3. f.node # n /\ f.node \in Node
    BY <1>3, <2>2
  <2> QED
    BY <1>2, <1>4, <2>1, <2>3 DEF BegunTold
<1>8. AllTold(Q, V, W)
  BY <1>2, <1>4 DEF AllTold
<1>9. ToldRight(Q, V, W)
  BY <1>2, <1>4, <1>6, <1>7, <1>8 DEF ToldRight
<1> QED
  BY <1>5, <1>9 DEF V, W

\* A fork passes what it hears of a node on to its own fork.
LEMMA NewsOn ==
  ASSUME NEW Q, NEW St, NEW Rp, ToldRight(Q, St, Rp), NEW t \in Node, NEW u \in Task, IsParent(u, t),
         Q[t] # <<>>, NEW x, x = Head(Q[t]), IsTold(x)
  PROVE  ToldRight([[Q EXCEPT ![t] = Tail(@)] EXCEPT ![u] = Append(@, x)], St, Rp)
<1> DEFINE R == [[Q EXCEPT ![t] = Tail(@)] EXCEPT ![u] = Append(@, x)]
<1>1. /\ Q \in [Node -> Seq(Event)] /\ St \in [Node -> NodeStatus] /\ Rp \in [Node -> NodeStatus]
      /\ EventsRight(Q, St, Rp) /\ OnceTold(Q) /\ OrderRight(Q)
      /\ BegunTold(Q, Rp) /\ AllTold(Q, St, Rp)
  BY DEF ToldRight
<1>2. u \in Node /\ u # t /\ u \in Above[t] /\ t \notin Above[u] /\ Above[u] \subseteq Above[t]
      /\ \A w \in Above[t] : w # t => w \in Above[u]
  BY AboveParent
<1>3. Q[t] \in Seq(Event) /\ Q[u] \in Seq(Event) /\ x \in Event /\ Tail(Q[t]) \in Seq(Event)
      /\ Append(Q[u], x) \in Seq(Event)
  <2>1. Q[t] \in Seq(Event) /\ Q[u] \in Seq(Event)
    BY <1>1, <1>2
  <2>2. x \in Event /\ Tail(Q[t]) \in Seq(Event)
    BY <2>1, TailQueue
  <2> QED
    BY <2>1, <2>2, AppendQueue
<1>4. /\ R[t] = Tail(Q[t]) /\ R[u] = Append(Q[u], x) /\ R \in [Node -> Seq(Event)]
      /\ \A v \in Node : v # t /\ v # u => R[v] = Q[v]
  BY <1>1, <1>2, <1>3
<1> HIDE DEF R
<1>5. /\ Range(Q[t]) = {x} \cup Range(R[t])
      /\ \A e : OnceIn(Q[t], e) => OnceIn(R[t], e) /\ (e = x => e \notin Range(R[t]))
      /\ \A e, f : InOrder(Q[t], e, f) => InOrder(R[t], e, f) /\ (f = x => e \notin Range(Q[t]))
  <2>1. /\ Range(Q[t]) = {Head(Q[t])} \cup Range(Tail(Q[t]))
        /\ \A e : OnceIn(Q[t], e) => /\ OnceIn(Tail(Q[t]), e)
                                     /\ Head(Q[t]) = e => e \notin Range(Tail(Q[t]))
        /\ \A e, f : InOrder(Q[t], e, f) => /\ InOrder(Tail(Q[t]), e, f)
                                            /\ Head(Q[t]) = f => e \notin Range(Q[t])
    BY <1>3, TailQueue
  <2> QED
    BY <1>4, <2>1
<1>6. /\ Range(R[u]) = Range(Q[u]) \cup {x}
      /\ \A e : OnceIn(Q[u], e) /\ (x = e => e \notin Range(Q[u])) => OnceIn(R[u], e)
      /\ \A e, f : e # f /\ InOrder(Q[u], e, f) /\ (x = e => f \notin Range(Q[u]))
                     => InOrder(R[u], e, f)
  <2>1. /\ Range(Append(Q[u], x)) = Range(Q[u]) \cup {x}
        /\ \A e : OnceIn(Q[u], e) /\ (x = e => e \notin Range(Q[u])) => OnceIn(Append(Q[u], x), e)
        /\ \A e, f : e # f /\ InOrder(Q[u], e, f) /\ (x = e => f \notin Range(Q[u]))
                       => InOrder(Append(Q[u], x), e, f)
    BY <1>3, AppendQueue
  <2> QED
    BY <1>4, <2>1
<1>7. /\ x \in Range(Q[t]) /\ OnceIn(Q[t], x) /\ x \notin Range(R[t]) /\ x \notin Range(Q[u])
      /\ \A v \in Node : x \in Range(Q[v]) => v = t
  <2>1. x \in Range(Q[t])
    BY <1>5
  <2>2. OnceIn(Q[t], x) /\ \A v \in Node : x \in Range(Q[v]) => v = t
    BY <1>1, <2>1 DEF OnceTold
  <2> QED
    BY <1>2, <1>5, <2>1, <2>2
<1>8. ASSUME NEW v \in Node, NEW e \in Range(R[v])
      PROVE  (e = x /\ v = u) \/ (e # x /\ e \in Range(Q[v]))
  BY <1>4, <1>5, <1>6, <1>7, <1>8
<1>9. ASSUME NEW v \in Node, NEW e \in Range(Q[v]), e # x
      PROVE  e \in Range(R[v])
  BY <1>4, <1>5, <1>6, <1>9
<1>10. \A e : Queued(Q, e) => Queued(R, e)
  <2>1. ASSUME NEW e, NEW v \in Node, e \in Range(Q[v]) PROVE Queued(R, e)
    <3>1. CASE e = x
      BY <1>2, <1>6, <3>1 DEF Queued
    <3>2. CASE e # x
      BY <1>9, <2>1, <3>2 DEF Queued
    <3> QED
      BY <3>1, <3>2
  <2> QED
    BY <2>1 DEF Queued
<1>11. EventsRight(R, St, Rp)
  <2>1. SUFFICES ASSUME NEW v \in Node, NEW e \in Range(R[v]), IsTold(e)
                 PROVE  /\ St[e.node] # "idle" /\ e.kind \in {"running", St[e.node]}
                        /\ Rp[e.node] \in {"idle", "running"}
                        /\ (e.kind = "running" => Rp[e.node] = "idle")
                        /\ \A w \in Task : e.node \in Walk[w] => v \in Above[w] /\ v # w
    BY DEF EventsRight
  <2>2. CASE e # x /\ e \in Range(Q[v])
    BY <1>1, <2>1, <2>2 DEF EventsRight
  <2>3. CASE e = x /\ v = u
    <3>1. /\ St[e.node] # "idle" /\ e.kind \in {"running", St[e.node]}
          /\ Rp[e.node] \in {"idle", "running"}
          /\ (e.kind = "running" => Rp[e.node] = "idle")
          /\ \A w \in Task : e.node \in Walk[w] => t \in Above[w] /\ t # w
      BY <1>1, <1>7, <2>1, <2>3 DEF EventsRight
    <3>2. \A w \in Task : e.node \in Walk[w] => u \in Above[w] /\ u # w
      <4>1. ASSUME NEW w \in Task, e.node \in Walk[w] PROVE u \in Above[w] /\ u # w
        BY <3>1, <4>1, TaskInNode, AboveNext
      <4> QED
        BY <4>1
    <3> QED
      BY <2>3, <3>1, <3>2
  <2> QED
    BY <1>8, <2>2, <2>3
<1>12. OnceTold(R)
  <2>1. SUFFICES ASSUME NEW v \in Node, NEW e \in Range(R[v]), IsTold(e)
                 PROVE  OnceIn(R[v], e) /\ \A w \in Node : e \in Range(R[w]) => w = v
    BY DEF OnceTold
  <2>2. CASE e = x /\ v = u
    <3>1. OnceIn(Q[u], e)
      BY <1>7, <2>2 DEF OnceIn, Range
    <3> QED
      BY <1>6, <1>7, <1>8, <2>2, <3>1
  <2>3. CASE e # x /\ e \in Range(Q[v])
    <3>1. OnceIn(Q[v], e) /\ \A w \in Node : e \in Range(Q[w]) => w = v
      BY <1>1, <2>1, <2>3 DEF OnceTold
    <3>2. OnceIn(R[v], e)
      BY <1>4, <1>5, <1>6, <2>3, <3>1
    <3> QED
      BY <1>8, <2>3, <3>1, <3>2
  <2> QED
    BY <1>8, <2>2, <2>3
<1>13. OrderRight(R)
  <2>1. SUFFICES ASSUME NEW v \in Node, NEW w \in Node, NEW e \in Range(R[v]), NEW f \in Range(R[w]),
                        e.kind = "running", IsTold(f), f.node = e.node, f # e
                 PROVE  v \in Above[w] /\ (v = w => InOrder(R[v], e, f))
    BY DEF OrderRight
  <2>2. CASE e = x /\ v = u
    <3>1. f # x /\ f \in Range(Q[w])
      BY <1>8, <2>1, <2>2
    <3>2. t \in Above[w]
      BY <1>1, <1>7, <2>1, <2>2, <3>1 DEF OrderRight
    <3>3. u \in Above[w] /\ u # w
      BY <1>2, <3>2, AboveTrans
    <3> QED
      BY <2>2, <3>3
  <2>3. CASE e # x /\ e \in Range(Q[v]) /\ f # x /\ f \in Range(Q[w])
    <3>1. v \in Above[w] /\ (v = w => InOrder(Q[v], e, f))
      BY <1>1, <2>1, <2>3 DEF OrderRight
    <3>2. v = w => InOrder(R[v], e, f)
      BY <1>4, <1>5, <1>6, <2>1, <2>3, <3>1
    <3> QED
      BY <3>1, <3>2
  <2>4. CASE e # x /\ e \in Range(Q[v]) /\ f = x /\ w = u
    <3>1. v \in Above[t] /\ (v = t => InOrder(Q[t], e, x))
      BY <1>1, <1>7, <2>1, <2>4 DEF OrderRight
    <3>2. v # t
      BY <1>5, <2>4, <3>1
    <3>3. v \in Above[u]
      BY <1>2, <3>1, <3>2
    <3>4. InOrder(Q[u], e, x)
      BY <1>7 DEF InOrder, Range
    <3>5. v = u => InOrder(R[u], e, x)
      BY <1>6, <2>4, <3>4
    <3> QED
      BY <2>4, <3>3, <3>5
  <2> QED
    BY <1>8, <2>2, <2>3, <2>4
<1>14. BegunTold(R, Rp)
  <2>1. SUFFICES ASSUME NEW w \in Node, NEW f \in Range(R[w]), f.kind \in {"succeeded", "exception"}
                 PROVE  Rp[f.node] = "running" \/ Queued(R, Told(f.node, "running"))
    BY DEF BegunTold
  <2>2. \E v \in Node : f \in Range(Q[v])
    BY <1>7, <1>8
  <2> QED
    BY <1>1, <1>10, <2>1, <2>2 DEF BegunTold
<1>15. AllTold(R, St, Rp)
  BY <1>1, <1>10 DEF AllTold
<1>16. ToldRight(R, St, Rp)
  BY <1>1, <1>4, <1>11, <1>12, <1>13, <1>14, <1>15 DEF ToldRight
<1> QED
  BY <1>16 DEF R

\* The root passes what it hears of a node on to the consumer.
LEMMA NewsTold ==
  ASSUME NEW Q, NEW St, NEW Rp, ToldRight(Q, St, Rp), Q[Root] # <<>>, NEW x, x = Head(Q[Root]), IsTold(x)
  PROVE  /\ ToldRight([Q EXCEPT ![Root] = Tail(@)], St, [Rp EXCEPT ![x.node] = x.kind])
         /\ x.node \in Node /\ MayBecome(Rp[x.node], x.kind)
<1> DEFINE n == x.node
           R == [Q EXCEPT ![Root] = Tail(@)]
           W == [Rp EXCEPT ![n] = x.kind]
<1>1. /\ Q \in [Node -> Seq(Event)] /\ St \in [Node -> NodeStatus] /\ Rp \in [Node -> NodeStatus]
      /\ EventsRight(Q, St, Rp) /\ OnceTold(Q) /\ OrderRight(Q)
      /\ BegunTold(Q, Rp) /\ AllTold(Q, St, Rp)
  BY DEF ToldRight
<1>2. Q[Root] \in Seq(Event) /\ x \in Event /\ Tail(Q[Root]) \in Seq(Event)
  BY <1>1, TailQueue
<1>3. /\ n \in Node /\ x.kind \in {"running", "succeeded", "exception", "failed"}
      /\ x.kind \in NodeStatus \ {"idle"} /\ x = Told(n, x.kind)
  BY <1>2, ToldKinds DEF NodeStatus
<1>4. /\ Range(Q[Root]) = {x} \cup Range(Tail(Q[Root]))
      /\ \A e : OnceIn(Q[Root], e) => OnceIn(Tail(Q[Root]), e) /\ (e = x => e \notin Range(Tail(Q[Root])))
      /\ \A e, f : InOrder(Q[Root], e, f) => /\ InOrder(Tail(Q[Root]), e, f)
                                             /\ f = x => e \notin Range(Q[Root])
  BY <1>2, TailQueue
<1>5. /\ R[Root] = Tail(Q[Root]) /\ (\A v \in Node : v # Root => R[v] = Q[v])
      /\ R \in [Node -> Seq(Event)]
      /\ W[n] = x.kind /\ (\A m \in Node : m # n => W[m] = Rp[m]) /\ W \in [Node -> NodeStatus]
  BY <1>1, <1>2, <1>3
<1> HIDE DEF R, W, n
<1>6. /\ x \in Range(Q[Root]) /\ x \notin Range(R[Root]) /\ (\A v \in Node : x \in Range(Q[v]) => v = Root)
      /\ St[n] # "idle" /\ x.kind \in {"running", St[n]} /\ Rp[n] \in {"idle", "running"}
      /\ x.kind = "running" => Rp[n] = "idle"
  <2>1. x \in Range(Q[Root])
    BY <1>4
  <2>2. OnceIn(Q[Root], x) /\ \A v \in Node : x \in Range(Q[v]) => v = Root
    BY <1>1, <2>1 DEF OnceTold
  <2>3. /\ St[n] # "idle" /\ x.kind \in {"running", St[n]} /\ Rp[n] \in {"idle", "running"}
        /\ x.kind = "running" => Rp[n] = "idle"
    BY <1>1, <2>1 DEF EventsRight, n
  <2> QED
    BY <1>4, <1>5, <2>1, <2>2, <2>3
<1>7. ASSUME NEW v \in Node, NEW e \in Range(R[v])
      PROVE  e # x /\ e \in Range(Q[v]) /\ e \in Event
  <2>1. e # x /\ e \in Range(Q[v])
    BY <1>4, <1>5, <1>6, <1>7
  <2> QED
    BY <1>1, <2>1, InQueue
<1>8. ASSUME NEW v \in Node, NEW e \in Range(Q[v]), e # x
      PROVE  e \in Range(R[v])
  BY <1>4, <1>5, <1>8
\* The start of n is not behind an end of it, which is its only one.
<1>9. ASSUME NEW v \in Node, NEW e \in Range(Q[v]), e # x, IsTold(e), e.node = n
      PROVE  x.kind = "running" /\ e.kind # "running" /\ e.kind = St[n]
  <2>1. e \in Event /\ e.kind \in {"running", St[n]}
    BY <1>1, <1>9, InQueue DEF EventsRight
  <2>2. e.kind # x.kind
    BY <1>2, <1>9, <2>1, ToldKinds DEF n
  <2>3. e.kind # "running"
    <3>1. SUFFICES ASSUME e.kind = "running" PROVE FALSE
      OBVIOUS
    <3>2. v \in Above[Root] /\ (v = Root => InOrder(Q[Root], e, x))
      BY <1>1, <1>6, <1>9, <3>1 DEF OrderRight, n
    <3>3. v = Root
      BY <3>2, AboveRoot
    <3> QED
      BY <1>4, <1>9, <3>2, <3>3
  <2> QED
    BY <1>6, <2>1, <2>2, <2>3
<1>10. x.kind \in {"succeeded", "exception"} => Rp[n] = "running"
  <2>1. SUFFICES ASSUME x.kind \in {"succeeded", "exception"}, Rp[n] # "running" PROVE FALSE
    OBVIOUS
  <2>2. Queued(Q, Told(n, "running"))
    BY <1>1, <1>6, <2>1 DEF BegunTold, n
  <2>3. Told(n, "running").kind = "running" /\ Told(n, "running").node = n /\ IsTold(Told(n, "running"))
    BY <1>3, ToldKinds DEF NodeStatus
  <2>4. Told(n, "running") # x
    BY <2>1, <2>3
  <2> QED
    BY <1>9, <2>1, <2>2, <2>3, <2>4 DEF Queued
<1>11. MayBecome(Rp[n], x.kind)
  BY <1>3, <1>6, <1>10 DEF MayBecome
<1>12. EventsRight(R, St, W)
  <2>1. SUFFICES ASSUME NEW v \in Node, NEW e \in Range(R[v]), IsTold(e)
                 PROVE  /\ St[e.node] # "idle" /\ e.kind \in {"running", St[e.node]}
                        /\ W[e.node] \in {"idle", "running"}
                        /\ (e.kind = "running" => W[e.node] = "idle")
                        /\ \A t \in Task : e.node \in Walk[t] => v \in Above[t] /\ v # t
    BY DEF EventsRight
  <2>2. e # x /\ e \in Range(Q[v]) /\ e.node \in Node
    BY <1>7, <2>1, ToldKinds
  <2>3. /\ St[e.node] # "idle" /\ e.kind \in {"running", St[e.node]}
        /\ Rp[e.node] \in {"idle", "running"}
        /\ (e.kind = "running" => Rp[e.node] = "idle")
        /\ \A t \in Task : e.node \in Walk[t] => v \in Above[t] /\ v # t
    BY <1>1, <2>1, <2>2 DEF EventsRight
  <2>4. CASE e.node = n
    BY <1>5, <1>9, <2>1, <2>2, <2>3, <2>4
  <2>5. CASE e.node # n
    BY <1>5, <2>2, <2>3, <2>5
  <2> QED
    BY <2>4, <2>5
<1>13. OnceTold(R)
  <2>1. SUFFICES ASSUME NEW v \in Node, NEW e \in Range(R[v]), IsTold(e)
                 PROVE  OnceIn(R[v], e) /\ \A w \in Node : e \in Range(R[w]) => w = v
    BY DEF OnceTold
  <2>2. OnceIn(Q[v], e) /\ \A w \in Node : e \in Range(Q[w]) => w = v
    BY <1>1, <1>7, <2>1 DEF OnceTold
  <2>3. OnceIn(R[v], e)
    BY <1>4, <1>5, <2>2
  <2> QED
    BY <1>7, <2>2, <2>3
<1>14. OrderRight(R)
  <2>1. SUFFICES ASSUME NEW v \in Node, NEW w \in Node, NEW e \in Range(R[v]), NEW f \in Range(R[w]),
                        e.kind = "running", IsTold(f), f.node = e.node, f # e
                 PROVE  v \in Above[w] /\ (v = w => InOrder(R[v], e, f))
    BY DEF OrderRight
  <2>2. v \in Above[w] /\ (v = w => InOrder(Q[v], e, f))
    BY <1>1, <1>7, <2>1 DEF OrderRight
  <2> QED
    BY <1>4, <1>5, <2>2
<1>15. BegunTold(R, W)
  <2>1. SUFFICES ASSUME NEW w \in Node, NEW f \in Range(R[w]), f.kind \in {"succeeded", "exception"}
                 PROVE  W[f.node] = "running" \/ Queued(R, Told(f.node, "running"))
    BY DEF BegunTold
  <2>2. IsTold(f) /\ f # x /\ f \in Range(Q[w]) /\ f \in Event
    BY <1>7, <2>1 DEF IsTold, NodeStatus
  <2>3. f.node \in Node
    BY <2>2, ToldKinds
  <2>4. CASE f.node = n
    BY <1>5, <1>9, <2>2, <2>4
  <2>5. CASE f.node # n
    <3>1. Rp[f.node] = "running" \/ Queued(Q, Told(f.node, "running"))
      BY <1>1, <2>1, <2>2 DEF BegunTold
    <3>2. Told(f.node, "running") # x
      BY <2>5 DEF Told, n
    <3>3. Queued(Q, Told(f.node, "running")) => Queued(R, Told(f.node, "running"))
      BY <1>8, <3>2 DEF Queued
    <3> QED
      BY <1>5, <2>3, <2>5, <3>1, <3>3
  <2> QED
    BY <2>4, <2>5
<1>16. AllTold(R, St, W)
  <2>1. SUFFICES ASSUME NEW m \in Node
                 PROVE  /\ W[m] = St[m] \/ Queued(R, Told(m, St[m]))
                        /\ St[m] = "idle" => W[m] = "idle"
    BY DEF AllTold
  <2>2. Rp[m] = St[m] \/ Queued(Q, Told(m, St[m]))
    BY <1>1 DEF AllTold
  <2>3. CASE m # n
    <3>1. Told(m, St[m]) # x
      BY <2>3 DEF Told, n
    <3>2. Queued(Q, Told(m, St[m])) => Queued(R, Told(m, St[m]))
      BY <1>8, <3>1 DEF Queued
    <3> QED
      BY <1>1, <1>5, <2>2, <2>3, <3>2 DEF AllTold
  <2>4. CASE m = n /\ x.kind = St[n]
    BY <1>5, <1>6, <2>4
  <2>5. CASE m = n /\ x.kind # St[n]
    <3>1. Rp[n] = "idle" /\ St[n] # "idle"
      BY <1>6, <2>5
    <3>2. Queued(Q, Told(n, St[n]))
      BY <2>2, <2>5, <3>1
    <3>3. Told(n, St[n]) # x
      BY <2>5 DEF Told
    <3> QED
      BY <1>8, <2>5, <3>1, <3>2, <3>3 DEF Queued
  <2> QED
    BY <2>3, <2>4, <2>5
<1>17. ToldRight(R, St, W)
  BY <1>1, <1>5, <1>12, <1>13, <1>14, <1>15, <1>16 DEF ToldRight
<1> QED
  BY <1>3, <1>11, <1>17 DEF R, W, n

-----------------------------------------------------------------------------
(* What has been run.                                                      *)

\* Where a task has not run the node it is at.
Before == {"idle", "queued", "top", "enter"}

\* Task t has come to n and has run it.
Visited(t, n) ==
  /\ pc[t] # "idle" /\ n \in Walk[t]
  /\ (n = node[t] /\ pc[t] \notin Before) \/ node[t] \in Downstream[n]

VisitedInv == \A n \in Node : status[n] # "idle" => \E t \in Node : Visited(t, n)

\* The run is over, but for the branches' callbacks.
Rests == verdict # "open" /\ \A b \in Branch : pc[b] \in Quiet

\* What is running is run by a task, unless it was the root that was given up amid it.
RunsInv ==
  /\ \A t \in Node : pc[t] = "run" => status[node[t]] = "running"
  /\ \A n \in Node : status[n] = "running" =>
       Rests \/ \E t \in Node : pc[t] = "run" /\ node[t] = n

ExcInv == excepted <=> \E n \in Node : status[n] = "exception"

\* Nothing follows a report of failure but the verdict.
FailInv == (\E n \in Node : report[n] = "failed") => out.kind = "failed" \/ verdict # "open"

VerdictInv == (pc[Root] = "done" <=> verdict # "open") /\ (verdict # "open" => out = None)

RunInv == VisitedInv /\ RunsInv /\ ExcInv /\ FailInv /\ VerdictInv

\* A node changes its status while its task starts or ends it.
Runs(t) == StartsNode(t) \/ FailsUnstarted(t) \/ \E o \in Outcome : EndsNode(t, o)

\* A task goes on from a join to a node after the parallel.
LEMMA JoinsOnward ==
  ASSUME ForkInv, NEW t \in Node, Joins(t)
  PROVE  \/ Goes(t, "over") /\ UNCHANGED node
         \/ \E n \in Onward(node[t]) : Goes(t, "top") /\ node' = [node EXCEPT ![t] = n]
<1> DEFINE n == EndTo[ForkParallel(t)]
<1>1. pc[t] = "join" /\ IF n = NoNode THEN Goes(t, "over") /\ UNCHANGED node ELSE StepTo(t, n)
  BY DEF Joins, At
<1>2. CASE n = NoNode
  BY <1>1, <1>2
<1>3. CASE n # NoNode
  <2>1. futures[t] # {} /\ futures[t] \subseteq Forked(node[t]) /\ node[t] \in Node
    BY <1>1 DEF ForkInv, FInv, TInv, TypeOK, ForksWellFormed, FuturesInv, Submitted
  <2>2. PICK b \in futures[t] : ForkParallel(t) = ParallelOf[b]
    BY <2>1 DEF ForkParallel
  <2>3. ParallelOf[b] \in Parallel
    BY <2>1, ForkedTypes
  <2>4. n \in Node
    BY <1>3, <2>2, <2>3
  <2>5. n \in Onward(node[t])
    BY <2>1, <2>2, <2>4 DEF Onward
  <2> HIDE DEF n
  <2> QED
    BY <1>1, <1>3, <2>5 DEF StepTo
<1> QED
  BY <1>2, <1>3

\* A task goes on from a node by itself to one that follows it.
LEMMA EndsOnward ==
  ASSUME ForkInv, NEW t \in Node, NEW o \in Outcome, EndsNode(t, o)
  PROVE  \/ (\E p \in {"raise", "over", "fork"} : Goes(t, p)) /\ UNCHANGED node
         \/ \E n \in Onward(node[t]) : Goes(t, "top") /\ node' = [node EXCEPT ![t] = n]
<1>1. /\ pc[t] = "run" /\ o \in DOMAIN Routes[node[t]] /\ node[t] \in Node
  BY DEF EndsNode, At, ForkInv, FInv, TInv, TypeOK
<1>2. CASE o = "raised"
  BY <1>2 DEF EndsNode
<1>3. CASE o # "raised"
  <2>1. PICK edges \in Routes[node[t]][o] : Follows(t, edges)
    BY <1>3 DEF EndsNode
  <2>2. edges \in UNION Range(Routes[node[t]]) /\ edges \in Seq(Branch)
    BY <1>1, RoutesAssumption DEF Range
  <2>3. CASE Len(edges) = 1 /\ StepTo(t, edges[1])
    <3>1. edges[1] \in Branch
      <4>1. 1 \in 1..Len(edges)
        BY <2>3
      <4> QED
        BY <2>2, <4>1, ElementOfSeq
    <3>2. edges[1] \in Onward(node[t])
      BY <2>2, <2>3, <3>1 DEF Onward, Branch
    <3> QED
      BY <2>3, <3>2 DEF StepTo
  <2> QED
    BY <2>1, <2>3 DEF Follows
<1> QED
  BY <1>2, <1>3

\* A task may be anywhere but it does not go back, and it stays where it has come to.
GoesForward(t) ==
  /\ pc[t] # "idle" => pc'[t] # "idle"
  /\ \/ node'[t] = node[t] /\ (pc[t] \notin Before => pc'[t] \notin Before)
     \/ node'[t] \in Downstream[node[t]]

\* Every step leaves every task where it was or takes it further down the graph.
LEMMA StepForward ==
  ASSUME ForkInv, [Next]_vars, NEW u \in Node
  PROVE  GoesForward(u)
<1>1. pc \in [Node -> Where] /\ node \in [Node -> Node] /\ pc[Root] # "idle"
      /\ \A b \in Branch : b \in Node
  BY DEF ForkInv, FInv, TInv, TypeOK, RootInv, Branch
<1>2. ASSUME NEW t \in Node, NEW n \in Onward(node[t]), Goes(t, "top"), node' = [node EXCEPT ![t] = n]
      PROVE  GoesForward(u)
  <2>1. node[t] \in Node
    BY <1>1
  <2>2. n \in Downstream[node[t]]
    BY <2>1, OnwardIsDown
  <2> QED
    BY <1>1, <1>2, <2>2 DEF GoesForward, Goes
<1>3. ASSUME NEW t \in Node, NEW p \in Where \ Before, Goes(t, p), node' = node
      PROVE  GoesForward(u)
  BY <1>1, <1>3 DEF GoesForward, Goes, Before
<1>4. ASSUME NEW t \in Node, NEW p \in {"top", "enter"}, Goes(t, p), node' = node, pc[t] \in Before
      PROVE  GoesForward(u)
  BY <1>1, <1>4 DEF GoesForward, Goes
<1>5. {"run", "fork", "submit", "listen", "join", "over", "raise", "ending", "finished", "done"}
        \subseteq Where \ Before
  BY DEF Where, Before
<1>6. ASSUME NEW t \in Node, Walks(t) PROVE GoesForward(u)
  <2>1. CASE ChecksLimits(t)
    <3>1. pc[t] = "top" /\ node' = node /\ (Goes(t, "raise") \/ Goes(t, "enter"))
      BY <2>1 DEF ChecksLimits, At
    <3> QED
      BY <1>3, <1>4, <1>5, <3>1 DEF Before
  <2>2. CASE StartsNode(t) \/ FailsUnstarted(t)
    BY <1>3, <1>5, <2>2 DEF StartsNode, FailsUnstarted
  <2>3. ASSUME NEW o \in Outcome, EndsNode(t, o) PROVE GoesForward(u)
    BY <1>2, <1>3, <1>5, <2>3, EndsOnward
  <2> QED
    BY <1>6, <2>1, <2>2, <2>3 DEF Walks
<1>7. ASSUME NEW t \in Node, Forks(t) PROVE GoesForward(u)
  <2>1. CASE Joins(t)
    BY <1>2, <1>3, <1>5, <2>1, JoinsOnward
  <2>2. CASE Submits(t)
    <3>1. PICK b \in Branch : /\ b # t /\ pc[b] = "idle" /\ pc'[b] = "queued"
                              /\ pc[t] = "submit" /\ pc'[t] \in {"fork", "listen"}
                              /\ \A w \in Node \ {t, b} : pc'[w] = pc[w]
      <4>1. FInv'
        BY StepForks
      <4> QED
        BY <2>2, <4>1, SubmitsForks DEF ForkInv, FInv
    <3>2. node' = node
      BY <2>2 DEF Submits
    <3> QED
      BY <1>1, <3>1, <3>2 DEF GoesForward, Before
  <2>3. CASE Skips(t) \/ CountsSubmit(t) \/ Refused(t) \/ Listens(t) \/ StopsListening(t)
    <3>1. node' = node /\ (pc' = pc \/ \E p \in {"fork", "submit", "listen", "join", "raise"} : Goes(t, p))
      BY <2>3 DEF Skips, CountsSubmit, Refused, Listens, StopsListening, NextEdge
    <3>2. CASE pc' = pc
      BY <3>1, <3>2 DEF GoesForward
    <3> QED
      BY <1>3, <1>5, <3>1, <3>2
  <2> QED
    BY <1>7, <2>1, <2>2, <2>3 DEF Forks
<1>8. ASSUME NEW t \in Node, Ends(t) PROVE GoesForward(u)
  <2>1. node' = node /\ \E p \in {"ending", "finished", "done"} : Goes(t, p)
    BY <1>8 DEF Ends, EndsBranch, SetsFuture, CallsBack
  <2> QED
    BY <1>3, <1>5, <2>1
<1>9. ASSUME NEW b \in Branch, TakesBranch(b) PROVE GoesForward(u)
  <2>1. node' = node /\ Goes(b, "top") /\ pc[b] = "queued" /\ b \in Node
    BY <1>1, <1>9, TakenWaited DEF TakesBranch
  <2> QED
    BY <1>4, <2>1 DEF Before
<1>10. CASE EndsRun \/ Resumes \/ Closes \/ TimePasses \/ UNCHANGED vars
  <2>1. node' = node /\ (pc' = pc \/ Goes(Root, "done"))
    BY <1>10 DEF EndsRun, Resumes, Closes, TimePasses, vars
  <2>2. CASE pc' = pc
    BY <2>1, <2>2 DEF GoesForward
  <2>3. CASE Goes(Root, "done")
    BY <1>3, <1>5, <2>1, <2>3
  <2> QED
    BY <2>1, <2>2, <2>3
<1> QED
  BY <1>6, <1>7, <1>8, <1>9, <1>10 DEF Next, Over

\* What was visited stays so.
LEMMA StaysVisited ==
  ASSUME ForkInv, [Next]_vars, NEW t \in Node, NEW n \in Node, Visited(t, n)
  PROVE  Visited(t, n)'
<1>1. node[t] \in Node /\ GoesForward(t)
  BY StepForward DEF ForkInv, FInv, TInv, TypeOK
<1>2. CASE node'[t] = node[t] /\ (pc[t] \notin Before => pc'[t] \notin Before)
  BY <1>1, <1>2 DEF Visited, GoesForward
<1>3. CASE node'[t] \in Downstream[node[t]]
  <2>1. node'[t] \in Downstream[n]
    BY <1>1, <1>3, DownIsTransitive DEF Visited
  <2> QED
    BY <1>1, <2>1 DEF Visited, GoesForward
<1> QED
  BY <1>1, <1>2, <1>3 DEF GoesForward

\* Nobody has been at the node a task is about to run.
LEMMA NodeIsNew ==
  ASSUME ForkInv, VisitedInv, NEW t \in Node, pc[t] = "enter"
  PROVE  status[node[t]] = "idle"
<1>1. SUFFICES ASSUME status[node[t]] # "idle" PROVE FALSE
  OBVIOUS
<1>2. node[t] \in Node /\ t \in Task /\ node[t] \in Walk[t]
  BY DEF ForkInv, FInv, TInv, TypeOK, WalksInv
<1>3. PICK u \in Node : Visited(u, node[t])
  BY <1>1, <1>2 DEF VisitedInv
<1>4. u \in Task /\ node[t] \in Walk[u]
  BY <1>3 DEF Visited, ForkInv, FInv, WalksInv
<1>5. u = t
  BY <1>2, <1>4, WalksAssumption
<1> QED
  BY <1>2, <1>3, <1>5, AcyclicAssumption DEF Visited, Before

-----------------------------------------------------------------------------
(* The steps keep what has been run.                                       *)

\* No two tasks are at one node.
LEMMA AloneAtNode ==
  ASSUME ForkInv, NEW t \in Node, NEW u \in Node, pc[t] # "idle", pc[u] # "idle", node[t] = node[u]
  PROVE  t = u
<1>1. /\ t \in Task /\ node[t] \in Walk[t] /\ u \in Task /\ node[u] \in Walk[u]
  BY DEF ForkInv, FInv, WalksInv
<1> QED
  BY <1>1, WalksAssumption

\* Task t comes to run n, or has run it, and tells how n is now.
TellsOf(t, n) ==
  \E s : /\ MayBecome(status[n], s) /\ status' = [status EXCEPT ![n] = s]
         /\ Yields(t, Told(n, s), q)
         /\ excepted' = (excepted \/ s = "exception")
         /\ (pc'[t] = "run" <=> s = "running")
         /\ pc[t] \in {"enter", "run"} /\ At(t, pc[t]) /\ pc'[t] \notin {"idle", "done"}
         /\ \A u \in Node : u # t => pc'[u] = pc[u] /\ node'[u] = node[u]
         /\ Visited(t, n)' /\ verdict' = verdict
         /\ (s = "running" => node'[t] = n)

\* A task that starts or ends its node tells so.
LEMMA RunsTell ==
  ASSUME ForkInv, VisitedInv, RunsInv, NEW t \in Node, Runs(t),
         NEW n, n = node[t]
  PROVE  TellsOf(t, n)
<1>1. /\ pc \in [Node -> Where] /\ node \in [Node -> Node] /\ node[t] \in Node
      /\ pc[t] \in {"enter", "run"} /\ At(t, pc[t])
  BY DEF ForkInv, FInv, TInv, TypeOK, Runs, StartsNode, FailsUnstarted, EndsNode, At
<1>2. node[t] \in Walk[t]
  BY <1>1 DEF ForkInv, FInv, WalksInv
<1>3. ASSUME NEW p \in {"run", "raise", "over", "fork"}, Goes(t, p), node' = node
      PROVE  /\ pc'[t] = p /\ pc'[t] \notin {"idle", "done"}
             /\ \A u \in Node : u # t => pc'[u] = pc[u] /\ node'[u] = node[u]
             /\ Visited(t, n)' /\ node'[t] = n
  BY <1>1, <1>2, <1>3 DEF Goes, Visited, Before
<1>4. CASE StartsNode(t)
  <2>1. /\ pc[t] = "enter" /\ Goes(t, "run") /\ node' = node /\ verdict' = verdict /\ excepted' = excepted
        /\ status' = [status EXCEPT ![node[t]] = "running"]
        /\ Yields(t, Told(node[t], "running"), q)
    BY <1>4 DEF StartsNode, At, Told
  <2>2. status[node[t]] = "idle" /\ excepted \in BOOLEAN
    BY <2>1, NodeIsNew DEF ForkInv, FInv, TInv, TypeOK
  <2>3. MayBecome(status[node[t]], "running")
    BY <2>2 DEF MayBecome
  <2>4. excepted' = (excepted \/ "running" = "exception")
    BY <2>1, <2>2
  <2> QED
    BY <1>1, <1>3, <2>1, <2>3, <2>4 DEF TellsOf
<1>5. CASE FailsUnstarted(t)
  <2>1. /\ pc[t] = "enter" /\ Goes(t, "raise") /\ node' = node /\ verdict' = verdict /\ excepted' = excepted
        /\ status' = [status EXCEPT ![node[t]] = "failed"]
        /\ Yields(t, Told(node[t], "failed"), q)
    BY <1>5 DEF FailsUnstarted, At, Told
  <2>2. status[node[t]] = "idle" /\ excepted \in BOOLEAN
    BY <2>1, NodeIsNew DEF ForkInv, FInv, TInv, TypeOK
  <2>3. MayBecome(status[node[t]], "failed")
    BY <2>2 DEF MayBecome
  <2>4. excepted' = (excepted \/ "failed" = "exception")
    BY <2>1, <2>2
  <2> QED
    BY <1>1, <1>3, <2>1, <2>3, <2>4 DEF TellsOf
<1>6. ASSUME NEW o \in Outcome, EndsNode(t, o)
      PROVE  \E s \in {"succeeded", "exception", "failed"} :
                /\ MayBecome(status[node[t]], s) /\ status' = [status EXCEPT ![node[t]] = s]
                /\ Yields(t, Told(node[t], s), q)
                /\ excepted' = (excepted \/ s = "exception")
                /\ pc'[t] \notin {"run", "idle", "done"}
                /\ \A u \in Node : u # t => pc'[u] = pc[u] /\ node'[u] = node[u]
                /\ Visited(t, n)' /\ verdict' = verdict
  <2> DEFINE end == IF o = "raised" THEN "failed" ELSE o
  <2>1. /\ pc[t] = "run" /\ verdict' = verdict /\ status' = [status EXCEPT ![node[t]] = end]
        /\ Yields(t, Told(node[t], end), q) /\ excepted' = (excepted \/ o = "exception")
    BY <1>6 DEF EndsNode, At, Told
  <2>2. end \in {"succeeded", "exception", "failed"} /\ (end = "exception" <=> o = "exception")
    BY DEF Outcome
  <2>3. MayBecome(status[node[t]], end)
    BY <2>1, <2>2 DEF MayBecome, RunsInv
  <2>4. /\ pc'[t] \notin {"run", "idle", "done"}
        /\ \A u \in Node : u # t => pc'[u] = pc[u] /\ node'[u] = node[u]
        /\ Visited(t, n)'
    <3>1. CASE (\E p \in {"raise", "over", "fork"} : Goes(t, p)) /\ node' = node
      BY <1>3, <3>1
    <3>2. ASSUME NEW m \in Onward(node[t]), Goes(t, "top"), node' = [node EXCEPT ![t] = m]
          PROVE  /\ pc'[t] \notin {"run", "idle", "done"}
                 /\ \A u \in Node : u # t => pc'[u] = pc[u] /\ node'[u] = node[u]
                 /\ Visited(t, n)'
      <4>1. m \in Downstream[node[t]] /\ m \in Node
        BY <1>1, OnwardIsDown
      <4> QED
        BY <1>1, <1>2, <3>2, <4>1 DEF Goes, Visited
    <3> QED
      BY <1>6, <3>1, <3>2, EndsOnward
  <2>5. excepted' = (excepted \/ end = "exception")
    BY <2>1, <2>2
  <2> HIDE DEF end
  <2> QED
    BY <2>1, <2>2, <2>3, <2>4, <2>5
<1>7. ASSUME NEW o \in Outcome, EndsNode(t, o)
      PROVE  TellsOf(t, n)
  BY <1>1, <1>6, <1>7 DEF TellsOf
<1> QED
  BY <1>4, <1>5, <1>7 DEF Runs

\* The consumer, or a failure, ends the run while its root's walk is under way.
GivesUp == verdict' # "open" /\ pc' = [pc EXCEPT ![Root] = "done"]

\* Nobody else comes to run a node, and who runs one goes on, unless the run is given up.
LEMMA StaysRunning ==
  ASSUME ForkInv, VerdictInv, [Next]_vars, ~(\E t \in Node : Runs(t)), NEW u \in Node
  PROVE  /\ pc'[u] = "run" => pc[u] = "run"
         /\ pc[u] = "run" => /\ node'[u] = node[u]
                             /\ pc'[u] = "run" \/ (u = Root /\ GivesUp)
         /\ status' = status /\ excepted' = excepted
<1>1. pc \in [Node -> Where] /\ node \in [Node -> Node] /\ \A b \in Branch : b \in Node
  BY DEF ForkInv, FInv, TInv, TypeOK, Branch
<1>2. ASSUME NEW t \in Node, NEW p \in Where \ {"run"}, Goes(t, p), pc[t] # "run",
             \A v \in Node : v # t => node'[v] = node[v]
      PROVE  (pc'[u] = "run" <=> pc[u] = "run") /\ (pc[u] = "run" => node'[u] = node[u])
  BY <1>1, <1>2 DEF Goes
<1>3. {"top", "raise", "enter", "fork", "submit", "listen", "join", "over", "ending", "finished", "done"}
        \subseteq Where \ {"run"}
  BY DEF Where
<1>4. ASSUME NEW t \in Node, ChecksLimits(t)
      PROVE  /\ (pc'[u] = "run" <=> pc[u] = "run") /\ (pc[u] = "run" => node'[u] = node[u])
             /\ status' = status /\ excepted' = excepted
  <2>1. pc[t] = "top" /\ node' = node /\ (Goes(t, "raise") \/ Goes(t, "enter"))
    BY <1>4 DEF ChecksLimits, At
  <2>2. status' = status /\ excepted' = excepted
    BY <1>4 DEF ChecksLimits, graphVars
  <2> QED
    BY <1>2, <1>3, <2>1, <2>2
<1>5. ASSUME NEW t \in Node, Forks(t)
      PROVE  /\ (pc'[u] = "run" <=> pc[u] = "run") /\ (pc[u] = "run" => node'[u] = node[u])
             /\ status' = status /\ excepted' = excepted
  <2>1. status' = status /\ excepted' = excepted
    BY <1>5 DEF Forks, Skips, CountsSubmit, Refused, Submits, Listens, StopsListening, Joins, graphVars
  <2>2. CASE Joins(t)
    <3>1. /\ pc[t] = "join" /\ (\A v \in Node : v # t => node'[v] = node[v])
          /\ \E p \in {"over", "top"} : Goes(t, p)
      BY <1>1, <2>2 DEF Joins, At, StepTo
    <3> QED
      BY <1>2, <1>3, <2>1, <3>1
  <2>3. CASE Submits(t)
    <3>1. FInv'
      BY StepForks
    <3>2. PICK b \in Branch : /\ b # t /\ pc[b] = "idle" /\ pc'[b] = "queued"
                              /\ pc[t] = "submit" /\ pc'[t] \in {"fork", "listen"}
                              /\ \A w \in Node \ {t, b} : pc'[w] = pc[w]
      BY <2>3, <3>1, SubmitsForks DEF ForkInv, FInv
    <3>3. node' = node
      BY <2>3 DEF Submits
    <3> QED
      BY <1>1, <2>1, <3>2, <3>3
  <2>4. CASE Skips(t) \/ CountsSubmit(t) \/ Refused(t) \/ Listens(t) \/ StopsListening(t)
    <3>1. /\ node' = node /\ pc[t] \in {"fork", "submit", "listen"}
          /\ pc' = pc \/ \E p \in {"fork", "submit", "listen", "join", "raise"} : Goes(t, p)
      BY <2>4 DEF Skips, CountsSubmit, Refused, Listens, StopsListening, NextEdge, At
    <3>2. CASE pc' = pc
      BY <2>1, <3>1, <3>2
    <3> QED
      BY <1>2, <1>3, <2>1, <3>1, <3>2
  <2> QED
    BY <1>5, <2>2, <2>3, <2>4 DEF Forks
<1>6. ASSUME NEW t \in Node, Ends(t)
      PROVE  /\ (pc'[u] = "run" <=> pc[u] = "run") /\ (pc[u] = "run" => node'[u] = node[u])
             /\ status' = status /\ excepted' = excepted
  <2>1. /\ node' = node /\ pc[t] # "run" /\ (\E p \in {"ending", "finished", "done"} : Goes(t, p))
        /\ status' = status /\ excepted' = excepted
    BY <1>6 DEF Ends, EndsBranch, SetsFuture, CallsBack, graphVars
  <2> QED
    BY <1>2, <1>3, <2>1
<1>7. ASSUME NEW b \in Branch, TakesBranch(b)
      PROVE  /\ (pc'[u] = "run" <=> pc[u] = "run") /\ (pc[u] = "run" => node'[u] = node[u])
             /\ status' = status /\ excepted' = excepted
  <2>1. /\ node' = node /\ pc[b] = "queued" /\ Goes(b, "top")
        /\ status' = status /\ excepted' = excepted
    BY <1>7, TakenWaited DEF TakesBranch, graphVars
  <2> QED
    BY <1>1, <1>2, <1>3, <2>1
<1>8. CASE EndsRun \/ Resumes \/ Closes \/ TimePasses \/ UNCHANGED vars
  <2>1. node' = node /\ status' = status /\ excepted' = excepted
    BY <1>8 DEF EndsRun, Resumes, Closes, TimePasses, vars, graphVars
  <2>2. pc' = pc \/ (pc[Root] # "run" /\ Goes(Root, "done")) \/ GivesUp
    BY <1>8 DEF EndsRun, Resumes, Closes, TimePasses, vars, At, Goes, GivesUp
  <2> QED
    BY <1>1, <2>1, <2>2 DEF Goes, GivesUp
<1> QED
  BY <1>4, <1>5, <1>6, <1>7, <1>8 DEF Next, Over, Walks, Runs

\* The root's walk and its consumer are all that change what run() has said.
RootMoves ==
  \/ /\ (pc'[Root] = "done" <=> pc[Root] = "done") /\ out' = out
     /\ report' = report /\ verdict' = verdict
  \/ /\ pc[Root] # "done" /\ out = None /\ pc'[Root] # "done" /\ verdict' = verdict
     /\ report' = report \/ report' = [report EXCEPT ![out'.node] = out'.kind]
  \/ /\ EndsRun \/ Resumes \/ Closes

\* Every step is one of RootMoves.
LEMMA StepRootMoves ==
  ASSUME ForkInv, [Next]_vars
  PROVE  RootMoves
<1>1. pc \in [Node -> Where] /\ RootInv /\ \A b \in Branch : b \in Node /\ b # Root
  BY DEF ForkInv, FInv, TInv, TypeOK, Branch
<1>2. ASSUME NEW t \in Node, Submits(t) PROVE RootMoves
  <2>1. FInv'
    BY StepForks
  <2>2. PICK b \in Branch : /\ b # t /\ pc[b] = "idle" /\ pc'[b] = "queued"
                            /\ pc[t] = "submit" /\ pc'[t] \in {"fork", "listen"}
                            /\ \A u \in Node \ {t, b} : pc'[u] = pc[u]
    BY <1>2, <2>1, SubmitsForks DEF ForkInv, FInv
  <2>3. out' = out /\ report' = report /\ verdict' = verdict
    BY <1>2 DEF Submits
  <2> QED
    BY <1>1, <2>2, <2>3 DEF RootMoves
<1>3. ASSUME NEW t \in Node, t # Root, Walks(t) \/ (Forks(t) /\ ~Submits(t)) \/ Ends(t)
      PROVE  RootMoves
  <2>1. out' = out /\ report' = report /\ verdict' = verdict
    BY <1>3 DEF Walks, ChecksLimits, StartsNode, FailsUnstarted, EndsNode, Forks, Skips,
       CountsSubmit, Refused, Listens, StopsListening, Joins, Ends, EndsBranch, SetsFuture,
       CallsBack, Yields
  <2>2. pc' = pc \/ \E p \in Where : Goes(t, p)
    BY <1>3 DEF Walks, ChecksLimits, StartsNode, FailsUnstarted, EndsNode, Follows, StepTo,
       Forks, Skips, CountsSubmit, Refused, Listens, StopsListening, Joins, NextEdge, Ends,
       EndsBranch, SetsFuture, CallsBack, Where
  <2> QED
    BY <1>1, <1>3, <2>1, <2>2 DEF Goes, RootMoves
<1>4. ASSUME Walks(Root) \/ (Forks(Root) /\ ~Submits(Root))
      PROVE  RootMoves
  <2>1. /\ out = None /\ verdict' = verdict /\ pc[Root] \in Where \ {"done"}
        /\ pc' = pc \/ \E p \in Where \ {"done"} : Goes(Root, p)
    BY <1>4 DEF Walks, ChecksLimits, StartsNode, FailsUnstarted, EndsNode, Follows, StepTo,
       Forks, Skips, CountsSubmit, Refused, Listens, StopsListening, Joins, NextEdge, At, Where
  <2>2. report' = report \/ report' = [report EXCEPT ![out'.node] = out'.kind]
    BY <1>4 DEF Walks, ChecksLimits, StartsNode, FailsUnstarted, EndsNode,
       Forks, Skips, CountsSubmit, Refused, Listens, StopsListening, Joins, Yields
  <2> QED
    BY <1>1, <2>1, <2>2 DEF Goes, RootMoves
<1>5. ~Ends(Root)
  BY <1>1 DEF Ends, EndsBranch, SetsFuture, CallsBack, RootInv
<1>6. ASSUME NEW b \in Branch, TakesBranch(b)
      PROVE  RootMoves
  BY <1>1, <1>6 DEF TakesBranch, Goes, RootMoves
<1>7. CASE TimePasses \/ UNCHANGED vars
  BY <1>7 DEF TimePasses, vars, RootMoves
<1>8. CASE EndsRun \/ Resumes \/ Closes
  BY <1>8 DEF RootMoves
<1>9. ASSUME NEW t \in Node, Walks(t) \/ Forks(t) \/ Ends(t)
      PROVE  RootMoves
  BY <1>2, <1>3, <1>4, <1>5, <1>9
<1> QED
  BY <1>6, <1>7, <1>8, <1>9 DEF Next, Over

\* What run() has said of a failure and of its end.
LEMMA StepSaid ==
  ASSUME ForkInv, FailInv, VerdictInv, [Next]_vars
  PROVE  FailInv' /\ VerdictInv'
<1>1. /\ report \in [Node -> NodeStatus] /\ pc \in [Node -> Where] /\ None.kind # "failed"
      /\ RootMoves
  BY StepRootMoves DEF ForkInv, FInv, TInv, TypeOK, None
<1>2. CASE /\ (pc'[Root] = "done" <=> pc[Root] = "done") /\ out' = out
           /\ report' = report /\ verdict' = verdict
  BY <1>2 DEF FailInv, VerdictInv
<1>3. CASE /\ pc[Root] # "done" /\ out = None /\ pc'[Root] # "done" /\ verdict' = verdict
           /\ report' = report \/ report' = [report EXCEPT ![out'.node] = out'.kind]
  <2>1. verdict = "open" /\ \A n \in Node : report[n] # "failed"
    BY <1>1, <1>3 DEF FailInv, VerdictInv
  <2>2. ASSUME NEW n \in Node, report'[n] = "failed" PROVE out'.kind = "failed"
    BY <1>1, <1>3, <2>1, <2>2
  <2> QED
    BY <1>3, <2>1, <2>2 DEF FailInv, VerdictInv
<1>4. CASE EndsRun
  <2>1. /\ out = None /\ out' = out /\ report' = report /\ verdict' # "open" /\ pc'[Root] = "done"
    BY <1>1, <1>4 DEF EndsRun, At, Goes
  <2> QED
    BY <2>1 DEF FailInv, VerdictInv
<1>5. CASE Resumes \/ Closes
  <2>1. /\ out # None /\ out' = None /\ report' = report
        /\ \/ verdict' # "open" /\ pc'[Root] = "done"
           \/ verdict' = verdict /\ pc' = pc /\ out.kind # "failed"
    BY <1>1, <1>5 DEF Resumes, Closes, Goes
  <2> QED
    BY <1>1, <2>1 DEF FailInv, VerdictInv
<1> QED
  BY <1>1, <1>2, <1>3, <1>4, <1>5 DEF RootMoves

\* Who rests does nothing but call back.
LEMMA RestingSteps ==
  ASSUME ForkInv, VerdictInv, Rests, [Next]_vars
  PROVE  (\E b \in Branch : CallsBack(b)) \/ TimePasses \/ UNCHANGED vars
<1>1. /\ pc[Root] = "done" /\ out = None /\ \A b \in Branch : pc[b] \in {"idle", "finished", "done"}
  BY DEF Rests, Quiet, VerdictInv
<1>2. \A t \in Node : pc[t] \in {"idle", "finished", "done"}
  BY <1>1 DEF Branch
<1>3. ASSUME NEW t \in Node
      PROVE  ~Walks(t) /\ ~Forks(t) /\ (Ends(t) => t \in Branch /\ CallsBack(t))
  BY <1>1, <1>2 DEF Walks, ChecksLimits, StartsNode, FailsUnstarted, EndsNode, Forks, Skips, CountsSubmit,
     Refused, Submits, Listens, StopsListening, Joins, Ends, EndsBranch, SetsFuture, CallsBack, At, Branch
<1>4. ASSUME NEW b \in Branch PROVE ~TakesBranch(b)
  <2>1. pc[b] # "queued"
    BY <1>1
  <2> QED
    BY <2>1, TakenWaited
<1>5. ~EndsRun /\ ~Resumes /\ ~Closes
  BY <1>1 DEF EndsRun, Resumes, Closes, At
<1> QED
  BY <1>3, <1>4, <1>5 DEF Next, Over

\* A run that rests goes on doing so.
LEMMA StaysResting ==
  ASSUME ForkInv, VerdictInv, Rests, [Next]_vars
  PROVE  Rests'
<1>1. pc \in [Node -> Where]
  BY DEF ForkInv, FInv, TInv, TypeOK
<1>2. ASSUME NEW b \in Branch, CallsBack(b) PROVE Rests'
  <2>1. Goes(b, "done") /\ verdict' = verdict
    BY <1>2 DEF CallsBack
  <2> QED
    BY <1>1, <2>1 DEF Rests, Goes, Quiet, Branch
<1>3. CASE TimePasses \/ UNCHANGED vars
  BY <1>3 DEF TimePasses, vars, Rests
<1> QED
  BY <1>2, <1>3, RestingSteps

\* What has been run, in each step.
LEMMA StepRun ==
  ASSUME StreamInv, RunInv, [Next]_vars
  PROVE  RunInv'
<1>1. /\ ForkInv /\ VisitedInv /\ RunsInv /\ ExcInv /\ FailInv /\ VerdictInv
      /\ status \in [Node -> NodeStatus] /\ node \in [Node -> Node] /\ excepted \in BOOLEAN
      /\ FInv' /\ node' \in [Node -> Node]
  BY StepForks DEF StreamInv, ForkInv, FInv, TInv, TypeOK, RunInv
<1>2. \A t, n \in Node : Visited(t, n) => Visited(t, n)'
  BY <1>1, StaysVisited
<1>3. CASE \E t \in Node : Runs(t)
  <2>1. PICK t \in Node : Runs(t)
    BY <1>3
  <2>2. PICK n \in Node : n = node[t]
    BY <1>1
  <2>3. TellsOf(t, n)
    BY <1>1, <2>2, <2>1, RunsTell
  <2>4. PICK s : /\ MayBecome(status[n], s) /\ status' = [status EXCEPT ![n] = s]
                 /\ excepted' = (excepted \/ s = "exception")
                 /\ (pc'[t] = "run" <=> s = "running")
                 /\ pc[t] \in {"enter", "run"}
                 /\ \A u \in Node : u # t => pc'[u] = pc[u] /\ node'[u] = node[u]
                 /\ Visited(t, n)' /\ verdict' = verdict
                 /\ (s = "running" => node'[t] = n)
    BY <2>3 DEF TellsOf
  <2>5. \A u \in Node : u # t /\ pc[u] = "run" => node[u] # n
    BY <1>1, <2>2, <2>4, AloneAtNode
  <2>6. status'[n] = s /\ (\A m \in Node : m # n => status'[m] = status[m]) /\ s # "idle"
    BY <1>1, <2>4 DEF MayBecome
  <2>7. VisitedInv'
    <3>1. ASSUME NEW m \in Node, status'[m] # "idle" PROVE \E u \in Node : Visited(u, m)'
      <4>1. CASE m = n
        BY <2>4, <4>1
      <4>2. CASE m # n
        BY <1>1, <1>2, <2>6, <3>1, <4>2 DEF VisitedInv
      <4> QED
        BY <4>1, <4>2
    <3> QED
      BY <3>1 DEF VisitedInv
  <2>8. RunsInv'
    <3>1. ASSUME NEW u \in Node, pc'[u] = "run" PROVE status'[node'[u]] = "running"
      <4>1. CASE u = t
        BY <2>4, <2>6, <3>1, <4>1
      <4>2. CASE u # t
        BY <1>1, <2>4, <2>5, <2>6, <3>1, <4>2 DEF RunsInv
      <4> QED
        BY <4>1, <4>2
    <3>2. ~Rests
      BY <1>1, <2>4 DEF Rests, VerdictInv, Quiet, Branch
    <3>3. ASSUME NEW m \in Node, status'[m] = "running"
          PROVE  \E u \in Node : pc'[u] = "run" /\ node'[u] = m
      <4>1. CASE m = n
        BY <2>4, <2>6, <3>3, <4>1
      <4>2. CASE m # n
        <5>1. PICK u \in Node : pc[u] = "run" /\ node[u] = m
          BY <1>1, <2>6, <3>2, <3>3, <4>2 DEF RunsInv
        <5>2. u # t
          BY <2>2, <4>2, <5>1
        <5> QED
          BY <2>4, <5>1, <5>2
      <4> QED
        BY <4>1, <4>2
    <3> QED
      BY <3>1, <3>3 DEF RunsInv
  <2>9. ExcInv'
    <3>1. status[n] # "exception"
      BY <2>4 DEF MayBecome
    <3> QED
      BY <1>1, <2>3, <2>4, <2>6, <3>1 DEF ExcInv
  <2> QED
    BY <1>1, <2>7, <2>8, <2>9, StepSaid DEF RunInv
<1>4. CASE ~(\E t \in Node : Runs(t))
  <2>1. ASSUME NEW u \in Node
        PROVE  /\ pc'[u] = "run" => pc[u] = "run"
               /\ pc[u] = "run" => /\ node'[u] = node[u]
                                   /\ pc'[u] = "run" \/ (u = Root /\ GivesUp)
               /\ status' = status /\ excepted' = excepted
    BY <1>1, <1>4, StaysRunning
  <2>2. status' = status /\ excepted' = excepted
    BY <2>1 DEF ForkInv, RootInv, FInv, TInv, NodesAssumption
  <2>3. VisitedInv'
    BY <1>1, <1>2, <2>2 DEF VisitedInv
  <2>4. RunsInv'
    <3>1. \A u \in Node : pc'[u] = "run" => status'[node'[u]] = "running"
      BY <1>1, <2>1, <2>2 DEF RunsInv
    <3>2. ASSUME NEW m \in Node, status'[m] = "running", ~(Rests')
          PROVE  \E u \in Node : pc'[u] = "run" /\ node'[u] = m
      <4>1. ~Rests
        BY <1>1, <3>2, StaysResting
      <4>2. PICK u \in Node : pc[u] = "run" /\ node[u] = m
        BY <1>1, <2>2, <3>2, <4>1 DEF RunsInv
      <4>3. ~(u = Root /\ GivesUp)
        <5>1. SUFFICES ASSUME pc[Root] = "run", GivesUp PROVE Rests'
          BY <3>2, <4>2
        <5>2. \A b \in Branch : pc[b] \in Quiet
          <6>1. pc[Root] \notin Waiting \cup Ended \cup {"raise"}
            BY <5>1 DEF Waiting, Ended
          <6> QED
            BY <6>1, AllQuiet DEF StreamInv, LostInv
        <5> QED
          BY <5>1, <5>2 DEF Rests, GivesUp, Branch
      <4> QED
        BY <2>1, <4>2, <4>3
    <3> QED
      BY <3>1, <3>2 DEF RunsInv
  <2>5. ExcInv'
    BY <1>1, <2>2 DEF ExcInv
  <2> QED
    BY <1>1, <2>3, <2>4, <2>5, StepSaid DEF RunInv
<1> QED
  BY <1>3, <1>4

-----------------------------------------------------------------------------
(* The steps keep what has been told.                                      *)

\* What run() may say next of a node, before it has failed or ended.
Says(s) ==
  \E n \in Node : /\ MayBecome(report[n], s) /\ report' = [report EXCEPT ![n] = s]
                  /\ pc[Root] # "done" /\ out = None /\ verdict' = verdict

\* A branch's fork is known.
LEMMA ForkerOf ==
  ASSUME ForkInv, LostInv, NEW t \in Node, t # Root, pc[t] # "idle"
  PROVE  /\ t \in Task /\ forker[t] \in Task /\ IsParent(forker[t], t)
         /\ t \in Branch /\ forker[t] \in Node
<1>1. PICK L \in SUBSET Node : LostRight(pc, q, futures, okay, forker, L)
  BY DEF LostInv
<1>2. t \in Branch /\ Rooted(pc, futures, forker) /\ t \in Task
  BY <1>1 DEF LostRight, Branch, ForkInv, FInv, WalksInv
<1> QED
  BY <1>2, TaskInNode DEF Rooted

\* A node starts or ends.
LEMMA RunsTold ==
  ASSUME ForkInv, LostInv, RunInv, ToldInv, NEW t \in Node, Runs(t)
  PROVE  ToldInv' /\ (report' = report \/ \E s : Says(s))
<1>1. PICK n \in Node : n = node[t]
  BY DEF ForkInv, FInv, TInv, TypeOK
<1>2. TellsOf(t, n)
  BY <1>1, RunsTell DEF RunInv
<1>3. PICK s : /\ MayBecome(status[n], s) /\ status' = [status EXCEPT ![n] = s]
               /\ Yields(t, Told(n, s), q)
               /\ pc[t] \in {"enter", "run"} /\ At(t, pc[t]) /\ verdict' = verdict
  BY <1>2 DEF TellsOf
<1>4. n \in Walk[t] /\ t \in Task
  BY <1>1, <1>3 DEF ForkInv, FInv, WalksInv
<1>5. ToldRight(q, status, report)
  BY DEF ToldInv
<1>6. CASE t = Root
  <2>1. s \in NodeStatus /\ Told(n, s).kind = s /\ Told(n, s).node = n
    BY <1>3 DEF MayBecome, NodeStatus, Told
  <2>2. q' = q /\ report' = [report EXCEPT ![n] = s]
    BY <1>3, <1>6, <2>1 DEF Yields
  <2>3. ToldRight(q, [status EXCEPT ![n] = s], [report EXCEPT ![n] = s]) /\ report[n] = status[n]
    <3>1. n \in Walk[Root] /\ MayBecome(status[n], s)
      BY <1>3, <1>4, <1>6
    <3> QED
      BY <1>5, <3>1, NewsOut
  <2>4. ToldRight(q', status', report')
    BY <1>3, <2>2, <2>3
  <2>5. pc[Root] # "done" /\ out = None
    BY <1>3, <1>6 DEF At
  <2> QED
    BY <1>3, <2>2, <2>3, <2>4, <2>5 DEF ToldInv, Says
<1>7. CASE t # Root
  <2>1. t \in Task /\ forker[t] \in Task /\ IsParent(forker[t], t)
    BY <1>3, <1>7, ForkerOf
  <2>2. q' = [q EXCEPT ![forker[t]] = Append(@, Told(n, s))] /\ report' = report
    BY <1>3, <1>7 DEF Yields
  <2>3. ToldRight([q EXCEPT ![forker[t]] = Append(@, Told(n, s))], [status EXCEPT ![n] = s], report)
    BY <1>3, <1>4, <1>5, <2>1, NewsUp
  <2>4. ToldRight(q', status', report')
    BY <1>3, <2>2, <2>3
  <2> QED
    BY <2>2, <2>4 DEF ToldInv
<1> QED
  BY <1>6, <1>7

\* A fork passes on what it hears, and says None to itself.
LEMMA ListensTold ==
  ASSUME ForkInv, LostInv, ToldInv, NEW t \in Node, Listens(t)
  PROVE  ToldInv' /\ (report' = report \/ \E s : Says(s))
<1> DEFINE e == Head(q[t])
           last == e.kind = "BranchSucceeded" /\ OfFork(t, e.node) /\ AllSucceeded(t, okay[t] + 1)
           s == Tail(q[t]) \o (IF last THEN <<None>> ELSE <<>>)
           R == [q EXCEPT ![t] = Tail(@)]
           S == [q EXCEPT ![t] = s]
<1>1. /\ q \in [Node -> Seq(Event)] /\ q[t] \in Seq(Event) /\ report \in [Node -> NodeStatus]
  BY DEF ForkInv, FInv, TInv, TypeOK
<1>2. /\ pc[t] = "listen" /\ (t = Root => out = None) /\ q[t] # <<>> /\ e # None
      /\ Yields(t, e, [q EXCEPT ![t] = s]) /\ status' = status /\ verdict' = verdict
  BY <1>1 DEF Listens, At, graphVars
<1>3. ToldRight(q, status, report) /\ status' = status
  BY <1>2 DEF ToldInv
<1>4. /\ e \in Event /\ Tail(q[t]) \in Seq(Event) /\ Tail(q[t]) \o <<>> = Tail(q[t])
      /\ Tail(q[t]) \o <<None>> = Append(Tail(q[t]), None) /\ None \in Event
  BY <1>1, <1>2, TailQueue, EventKinds
<1>5. ~last => s = R[t] /\ S = R
  BY <1>1, <1>4
<1>6. last => S = [R EXCEPT ![t] = Append(@, None)]
  BY <1>1, <1>4
<1>7. IsTold(e) => ~last
  BY DEF IsTold, NodeStatus
<1>8. Yields(t, e, S)
  BY <1>2
<1>9. t # Root => forker[t] \in Task /\ IsParent(forker[t], t) /\ forker[t] \in Node
  BY <1>2, ForkerOf
<1> HIDE DEF s, S, last
<1>10. CASE ~IsTold(e)
  <2>1. ToldRight(R, status, report)
    BY <1>2, <1>3, <1>10, OtherTaken
  <2>2. ~IsTold(None)
    BY ToldKinds
  <2> HIDE DEF R, e
  <2>3. ToldRight([R EXCEPT ![t] = Append(@, None)], status, report)
    BY <1>4, <2>1, <2>2, OtherPut
  <2>4. ToldRight(S, status, report)
    BY <1>5, <1>6, <2>1, <2>3
  <2>5. CASE t = Root
    <3>1. q' = S /\ report' = report
      BY <1>8, <1>10, <2>5 DEF Yields, IsTold
    <3>2. ToldRight(q', status', report')
      BY <1>3, <2>4, <3>1
    <3> QED
      BY <3>1, <3>2 DEF ToldInv
  <2>6. CASE t # Root
    <3>1. q' = [S EXCEPT ![forker[t]] = Append(@, e)] /\ report' = report
      BY <1>8, <2>6 DEF Yields
    <3>2. ToldRight([S EXCEPT ![forker[t]] = Append(@, e)], status, report)
      BY <1>4, <1>9, <1>10, <2>4, <2>6, OtherPut
    <3>3. ToldRight(q', status', report')
      BY <1>3, <3>1, <3>2
    <3> QED
      BY <3>1, <3>3 DEF ToldInv
  <2> QED
    BY <2>5, <2>6
<1>11. CASE IsTold(e)
  <2>1. S = R
    BY <1>5, <1>7, <1>11
  <2>2. CASE t = Root
    <3>1. /\ ToldRight([q EXCEPT ![Root] = Tail(@)], status, [report EXCEPT ![e.node] = e.kind])
          /\ e.node \in Node /\ MayBecome(report[e.node], e.kind)
      BY <1>2, <1>3, <1>11, <2>2, NewsTold
    <3>2. q' = R /\ report' = [report EXCEPT ![e.node] = e.kind]
      BY <1>8, <1>11, <2>1, <2>2 DEF Yields, IsTold
    <3>3. ToldRight(q', status', report')
      BY <1>3, <2>2, <3>1, <3>2
    <3>4. pc[Root] # "done" /\ out = None
      BY <1>2, <2>2
    <3> QED
      BY <1>2, <3>1, <3>2, <3>3, <3>4 DEF ToldInv, Says
  <2>3. CASE t # Root
    <3>1. q' = [R EXCEPT ![forker[t]] = Append(@, e)] /\ report' = report
      BY <1>8, <2>1, <2>3 DEF Yields
    <3>2. ToldRight([R EXCEPT ![forker[t]] = Append(@, e)], status, report)
      BY <1>2, <1>3, <1>9, <1>11, <2>3, NewsOn
    <3>3. ToldRight(q', status', report')
      BY <1>3, <3>1, <3>2
    <3> QED
      BY <3>1, <3>3 DEF ToldInv
  <2> QED
    BY <2>2, <2>3
<1> QED
  BY <1>10, <1>11

\* Every other step tells nothing of a node.
LEMMA StepTold ==
  ASSUME StreamInv, RunInv, ToldInv, [Next]_vars
  PROVE  ToldInv' /\ (report' = report \/ \E s : Says(s))
<1>1. /\ ForkInv /\ LostInv /\ VerdictInv /\ ToldRight(q, status, report)
      /\ q \in [Node -> Seq(Event)] /\ Root \in Node
  BY DEF StreamInv, RunInv, ToldInv, ForkInv, FInv, TInv, TypeOK, RootInv, ToldRight, NodesAssumption
<1>2. ASSUME q' = q, report' = report, status' = status PROVE ToldInv'
  <2>1. ToldRight(q', status', report')
    BY <1>1, <1>2
  <2> QED
    BY <2>1 DEF ToldInv
<1>3. ASSUME NEW t \in Node, Forks(t), ~Listens(t)
      PROVE  ToldInv' /\ report' = report
  <2>1. status' = status /\ report' = report
    BY <1>3 DEF Forks, Skips, CountsSubmit, Refused, Submits, StopsListening, Joins, graphVars
  <2>2. CASE StopsListening(t)
    <3>1. q[t] # <<>> /\ Head(q[t]) = None /\ q' = [q EXCEPT ![t] = Tail(@)]
      BY <2>2 DEF StopsListening
    <3>2. ToldRight([q EXCEPT ![t] = Tail(@)], status, report)
      BY <1>1, <3>1, OtherTaken, ToldKinds
    <3>3. ToldRight(q', status', report')
      BY <2>1, <3>1, <3>2
    <3> QED
      BY <2>1, <3>3 DEF ToldInv
  <2>3. CASE CountsSubmit(t)
    <3>1. /\ pc[t] = "fork" /\ q' = IF futures[t] = {} THEN [q EXCEPT ![t] = <<>>] ELSE q
      BY <2>3 DEF CountsSubmit, At
    <3>2. PICK L \in SUBSET Node : LostRight(pc, q, futures, okay, forker, L)
      BY <1>1 DEF LostInv
    <3>3. futures[t] = {} => q[t] = <<>>
      BY <3>1, <3>2 DEF LostRight, QueuesRight, Waiting, Listened
    <3>4. q' = q
      BY <1>1, <3>1, <3>3
    <3> QED
      BY <1>2, <2>1, <3>4
  <2>4. CASE Skips(t) \/ Refused(t) \/ Submits(t) \/ Joins(t)
    <3>1. q' = q
      BY <2>4 DEF Skips, Refused, Submits, Joins
    <3> QED
      BY <1>2, <2>1, <3>1
  <2> QED
    BY <1>3, <2>2, <2>3, <2>4 DEF Forks
<1>4. ASSUME NEW b \in Node, Ends(b) PROVE ToldInv' /\ report' = report
  <2>1. status' = status
    BY <1>4 DEF Ends, EndsBranch, SetsFuture, CallsBack, graphVars
  <2>2. CASE EndsBranch(b)
    <3> DEFINE e == IF pc[b] = "over" THEN Won(b) ELSE Lost(b)
    <3>1. /\ b # Root /\ pc[b] # "idle" /\ report' = report
          /\ q' = [q EXCEPT ![forker[b]] = Append(@, e)]
      BY <2>2 DEF EndsBranch, Yields, Won, Lost
    <3>2. b \in Branch /\ forker[b] \in Node
      BY <1>1, <3>1, ForkerOf
    <3>3. e \in Event /\ ~IsTold(e)
      BY <3>2, EventKinds, ToldKinds
    <3> HIDE DEF e
    <3>4. ToldRight([q EXCEPT ![forker[b]] = Append(@, e)], status, report)
      BY <1>1, <3>2, <3>3, OtherPut
    <3>5. ToldRight(q', status', report')
      BY <2>1, <3>1, <3>4
    <3> QED
      BY <3>1, <3>5 DEF ToldInv
  <2>3. CASE SetsFuture(b) \/ CallsBack(b)
    <3>1. q' = q /\ report' = report
      BY <2>3 DEF SetsFuture, CallsBack
    <3> QED
      BY <1>2, <2>1, <3>1
  <2> QED
    BY <1>4, <2>2, <2>3 DEF Ends
<1>5. ASSUME NEW t \in Node, ChecksLimits(t) PROVE ToldInv' /\ report' = report
  BY <1>2, <1>5 DEF ChecksLimits, graphVars
<1>6. ASSUME NEW b \in Branch, TakesBranch(b) PROVE ToldInv' /\ report' = report
  BY <1>2, <1>6 DEF TakesBranch, graphVars
<1>7. CASE EndsRun \/ Resumes \/ Closes \/ TimePasses \/ UNCHANGED vars
  <2>1. q' = q /\ report' = report /\ status' = status
    BY <1>7 DEF EndsRun, Resumes, Closes, TimePasses, vars, graphVars
  <2> QED
    BY <1>2, <2>1
<1>8. ASSUME NEW t \in Node, Runs(t) \/ Listens(t) PROVE ToldInv' /\ (report' = report \/ \E s : Says(s))
  BY <1>1, <1>8, RunsTold, ListensTold
<1> QED
  BY <1>3, <1>4, <1>5, <1>6, <1>7, <1>8 DEF Next, Over, Walks, Runs

-----------------------------------------------------------------------------
(* What run() promises.                                                    *)

\* The inductive invariant.
SuccessInv == StreamInv /\ RunInv /\ ToldInv /\ SuccessIsComplete

\* A root that is over has everything told and nothing at work.
LEMMA OverIsComplete ==
  ASSUME StreamInv, RunInv, ToldInv, pc[Root] = "over", out = None
  PROVE  /\ verdict = "open" /\ \A b \in Branch : pc[b] \in Quiet
         /\ \A t \in Node : q[t] = <<>>
         /\ report = status /\ \A n \in Node : status[n] \in {"idle", "succeeded", "exception"}
<1>1. /\ VerdictInv /\ FailInv /\ RunsInv /\ None.kind # "failed"
      /\ status \in [Node -> NodeStatus] /\ report \in [Node -> NodeStatus]
  BY DEF StreamInv, RunInv, ForkInv, FInv, TInv, TypeOK, None
<1>2. PICK L \in SUBSET Node : LostRight(pc, q, futures, okay, forker, L)
  BY DEF StreamInv, LostInv
<1>3. (\A b \in Branch : pc[b] \in Quiet) /\ (\A t \in Node : q[t] = <<>>)
  <2>1. pc[Root] \notin Waiting \cup Ended \cup {"raise"}
    BY DEF Waiting, Ended
  <2> QED
    BY <1>2, <2>1, AllQuiet
<1>4. verdict = "open"
  BY <1>1 DEF VerdictInv
<1>5. \A t \in Node : pc[t] # "run"
  BY <1>3 DEF Branch, Quiet
<1>6. report = status
  <2>1. \A e : ~Queued(q, e)
    BY <1>3, EmptyQueue DEF Queued
  <2>2. \A n \in Node : report[n] = status[n]
    BY <2>1 DEF ToldInv, ToldRight, AllTold
  <2> QED
    BY <1>1, <2>2
<1>7. ASSUME NEW n \in Node PROVE status[n] \in {"idle", "succeeded", "exception"}
  <2>1. status[n] # "running"
    BY <1>1, <1>4, <1>5 DEF RunsInv, Rests
  <2>2. status[n] # "failed"
    BY <1>1, <1>4, <1>6 DEF FailInv
  <2> QED
    BY <1>1, <2>1, <2>2 DEF NodeStatus
<1> QED
  BY <1>3, <1>4, <1>6, <1>7

\* After a run's success only the callbacks of its branches are left.
LEMMA CompleteStays ==
  ASSUME SuccessInv, [Next]_vars, verdict \in {"succeeded", "partial"}
  PROVE  SuccessIsComplete'
<1>1. /\ pc \in [Node -> Where] /\ ForkInv /\ VerdictInv /\ Rests
      /\ \A t \in Node : q[t] = <<>>
      /\ report = status /\ \A n \in Node : status[n] \in {"idle", "succeeded", "exception"}
  BY DEF SuccessInv, StreamInv, RunInv, Rests, Quiet, ForkInv, FInv, TInv, TypeOK, SuccessIsComplete
<1>2. q' = q /\ report' = report /\ status' = status
  BY <1>1, RestingSteps DEF CallsBack, TimePasses, vars, graphVars
<1>3. Rests'
  BY <1>1, StaysResting
<1> QED
  BY <1>1, <1>2, <1>3 DEF SuccessIsComplete, Rests, Quiet

\* Every step keeps SuccessInv.
LEMMA StepSuccess ==
  ASSUME SuccessInv, [Next]_vars
  PROVE  SuccessInv'
<1>1. StreamInv /\ ForkInv /\ RunInv /\ ToldInv /\ VerdictInv
  BY DEF SuccessInv, StreamInv, RunInv
<1>2. StreamInv' /\ RunInv' /\ ToldInv'
  BY <1>1, StepStream, StepRun, StepTold
<1>3. SuccessIsComplete'
  <2>1. CASE verdict \in {"succeeded", "partial"}
    BY <2>1, CompleteStays
  <2>2. CASE EndsRun /\ pc[Root] = "over"
    <3>1. /\ out = None /\ q' = q /\ report' = report /\ status' = status
          /\ pc' = [pc EXCEPT ![Root] = "done"] /\ pc \in [Node -> Where]
      BY <1>1, <2>2 DEF EndsRun, At, Goes, graphVars, ForkInv, FInv, TInv, TypeOK
    <3>2. /\ \A b \in Branch : pc[b] \in Quiet
          /\ \A t \in Node : q[t] = <<>>
          /\ report = status /\ \A n \in Node : status[n] \in {"idle", "succeeded", "exception"}
      BY <1>1, <2>2, <3>1, OverIsComplete
    <3> QED
      BY <3>1, <3>2 DEF SuccessIsComplete, Quiet, Branch
  <2>3. CASE verdict \notin {"succeeded", "partial"} /\ ~(EndsRun /\ pc[Root] = "over")
    <3>1. verdict' \notin {"succeeded", "partial"}
      BY <1>1, <2>3, StepRootMoves DEF RootMoves, EndsRun, Resumes, Closes, At
    <3> QED
      BY <3>1 DEF SuccessIsComplete
  <2> QED
    BY <2>1, <2>2, <2>3
<1> QED
  BY <1>2, <1>3 DEF SuccessInv

\* In the beginning there is the root's walk only.
LEMMA InitSuccess == Init => SuccessInv
<1> SUFFICES ASSUME Init PROVE SuccessInv
  OBVIOUS
<1>1. /\ ForkInv /\ Root \in Node /\ Root \notin Branch /\ \A b \in Branch : b \in Node
      /\ pc = [t \in Node |-> IF t = Root THEN "top" ELSE "idle"]
      /\ q = [t \in Node |-> <<>>] /\ status = [n \in Node |-> "idle"]
      /\ report = [n \in Node |-> "idle"] /\ futures = [t \in Node |-> {}]
      /\ excepted = FALSE /\ verdict = "open" /\ out = None
  BY InitForks, NodesAssumption DEF Init, Branch
<1>2. ForkedInv
  BY <1>1 DEF ForkedInv, Waiting
<1>3. LostRight(pc, q, futures, okay, forker, {})
  <2>1. Typed(pc, q, futures, okay, forker)
    BY <1>1 DEF Typed, ForkInv, FInv, TInv, TypeOK
  <2>2. Rooted(pc, futures, forker) /\ LostPlaces(pc, {})
    BY <1>1 DEF Rooted, LostPlaces
  <2>3. Answered(pc, q, futures, forker, {}) /\ Drained(pc, q, {})
    BY <1>1 DEF Answered, Drained, Quiet
  <2>4. EndsRight(pc, q, {})
    BY <1>1, EmptyQueue DEF EndsRight
  <2>5. QueuesRight(pc, q, futures, okay, {})
    BY <1>1 DEF QueuesRight, Waiting
  <2> QED
    BY <2>1, <2>2, <2>3, <2>4, <2>5 DEF LostRight
<1>4. RunInv
  <2>1. VisitedInv
    BY <1>1 DEF VisitedInv
  <2>2. RunsInv
    BY <1>1 DEF RunsInv
  <2>3. ExcInv /\ FailInv /\ VerdictInv
    BY <1>1 DEF ExcInv, FailInv, VerdictInv
  <2> QED
    BY <2>1, <2>2, <2>3 DEF RunInv
<1>5. ToldInv
  <2>1. /\ q \in [Node -> Seq(Event)] /\ status \in [Node -> NodeStatus]
        /\ report \in [Node -> NodeStatus] /\ \A t \in Node : Range(q[t]) = {}
    BY <1>1, EmptyQueue DEF ForkInv, FInv, TInv, TypeOK
  <2> QED
    BY <1>1, <2>1 DEF ToldInv, ToldRight, EventsRight, OnceTold, OrderRight, BegunTold, AllTold
<1>6. SuccessIsComplete
  BY <1>1 DEF SuccessIsComplete
<1> QED
  BY <1>1, <1>2, <1>3, <1>4, <1>5, <1>6 DEF SuccessInv, StreamInv, LostInv

\* A run ends as succeeded, fully or partly, only when every branch has ended, no event
\* is left in a queue, and every node that was run has been reported with the status it
\* ended with, none as failed.
THEOREM SuccessComplete == Spec => []SuccessIsComplete
<1>1. SuccessInv => SuccessIsComplete
  BY DEF SuccessInv
<1> QED
  BY <1>1, InitSuccess, StepSuccess, PTL DEF Spec

\* Every step of run() is one of the stream it promises, or none of it.
LEMMA StepOfStream ==
  ASSUME SuccessInv, [Next]_vars
  PROVE  [Stream!Next]_<<report, verdict>>
<1>1. /\ StreamInv /\ ForkInv /\ RunInv /\ ToldInv /\ VerdictInv /\ FailInv /\ ExcInv
      /\ report \in [Node -> NodeStatus] /\ excepted \in BOOLEAN /\ None.kind # "failed"
      /\ verdict \in {"open", "succeeded", "partial", "failed", "closed"}
  BY DEF SuccessInv, StreamInv, RunInv, ForkInv, FInv, TInv, TypeOK, None
<1>2. ASSUME NEW s, Says(s) PROVE Stream!Next
  <2>1. PICK n \in Node : /\ MayBecome(report[n], s) /\ report' = [report EXCEPT ![n] = s]
                          /\ pc[Root] # "done" /\ out = None /\ verdict' = verdict
    BY <1>2 DEF Says
  <2>2. verdict = "open" /\ \A m \in Node : report[m] # "failed"
    BY <1>1, <2>1 DEF VerdictInv, FailInv
  <2>3. s \in {"running", "succeeded", "exception", "failed"}
    BY <2>1 DEF MayBecome
  <2>4. Stream!Tell(n, s)
    BY <2>1, <2>2 DEF Stream!Tell, Stream!Reports, MayBecome
  <2> QED
    BY <2>3, <2>4 DEF Stream!Next
<1>3. CASE EndsRun
  <2>1. /\ out = None /\ report' = report /\ pc[Root] \in {"over", "raise"}
        /\ pc[Root] = "raise" => verdict' = "failed"
        /\ pc[Root] = "over" => verdict' = IF excepted THEN "partial" ELSE "succeeded"
    BY <1>1, <1>3 DEF EndsRun, At
  <2>2. verdict = "open"
    BY <1>1, <2>1 DEF VerdictInv
  <2>3. CASE pc[Root] = "raise"
    BY <2>1, <2>2, <2>3 DEF Stream!Next, Stream!Fail
  <2>4. CASE pc[Root] = "over"
    <3>1. report = status /\ \A n \in Node : status[n] \in {"idle", "succeeded", "exception"}
      BY <1>1, <2>1, <2>4, OverIsComplete
    <3>2. excepted <=> \E n \in Node : report[n] = "exception"
      BY <1>1, <3>1 DEF ExcInv
    <3>3. ~Stream!Reports("running") /\ ~Stream!Reports("failed")
      BY <3>1 DEF Stream!Reports
    <3>4. verdict' = IF Stream!Reports("exception") THEN "partial" ELSE "succeeded"
      BY <2>1, <2>4, <3>2 DEF Stream!Reports
    <3> QED
      BY <2>1, <2>2, <3>3, <3>4 DEF Stream!Next, Stream!Succeed
  <2> QED
    BY <2>1, <2>3, <2>4
<1>4. CASE Resumes \/ Closes
  <2>1. /\ out # None /\ report' = report
        /\ verdict' = verdict \/ verdict' \in {"failed", "closed"}
    BY <1>4 DEF Resumes, Closes
  <2>2. verdict = "open"
    BY <1>1, <2>1 DEF VerdictInv
  <2> QED
    BY <2>1, <2>2 DEF Stream!Next, Stream!Fail, Stream!Close
<1>5. CASE ~EndsRun /\ ~Resumes /\ ~Closes
  <2>1. verdict' = verdict
    BY <1>1, <1>5, StepRootMoves DEF RootMoves
  <2>2. report' = report \/ \E s : Says(s)
    BY <1>1, StepTold
  <2> QED
    BY <1>2, <2>1, <2>2
<1> QED
  BY <1>3, <1>4, <1>5

\* run() yields the stream of events it promises: a node's start before its end, each
\* once, nothing but the verdict after a failure, and a success told in full.
THEOREM RunImplementsStream == Spec => ImplementsStream
<1>1. Init => Stream!Init
  BY DEF Init, Stream!Init
<1> QED
  BY <1>1, InitSuccess, StepSuccess, StepOfStream, PTL DEF Spec, ImplementsStream, Stream!Spec

-----------------------------------------------------------------------------
(* Branches under way at the same time.                                    *)

\* A walk of a branch is within the branch, and so are those it forks.
LEMMA WithinCloses ==
  ASSUME NEW b \in Node
  PROVE  /\ b \in Within[b] /\ Within[b] \subseteq Node
         /\ \A n \in Within[b] : /\ Forked(n) \subseteq Within[b]
                                 /\ \A k \in Onward(n) : ParallelOf[k] = ParallelOf[n] => k \in Within[b]
<1>1. b \in Within[b] /\ Within[b] \subseteq Node
  BY DEF Within
<1>2. ASSUME NEW n \in Within[b], NEW k,
             k \in Forked(n) \/ (k \in Onward(n) /\ ParallelOf[k] = ParallelOf[n])
      PROVE  k \in Within[b]
  <2>1. k \in Node
    BY <1>1, <1>2, ForkedInNode, OnwardIsDown
  <2>2. ASSUME NEW S \in SUBSET Node, b \in S,
               \A m \in S : /\ Forked(m) \subseteq S
                            /\ \A l \in Onward(m) : ParallelOf[l] = ParallelOf[m] => l \in S
        PROVE  k \in S
    <3>1. n \in S
      BY <2>2 DEF Within
    <3> QED
      BY <1>2, <2>2, <3>1
  <2> QED
    BY <2>1, <2>2 DEF Within
<1> QED
  BY <1>1, <1>2

\* A set that is closed the same way and holds b holds what b runs.
LEMMA WithinLeast ==
  ASSUME NEW b \in Node, NEW S \in SUBSET Node, b \in S,
         \A n \in S : /\ Forked(n) \subseteq S
                      /\ \A k \in Onward(n) : ParallelOf[k] = ParallelOf[n] => k \in S
  PROVE  Within[b] \subseteq S
BY DEF Within

\* A branch walks over nodes it runs.
LEMMA WalkIsWithin ==
  ASSUME NEW t \in Node, t # Root
  PROVE  Walk[t] \subseteq Within[t]
<1> DEFINE S == {n \in Within[t] : ParallelOf[n] = ParallelOf[t]}
<1>1. S \in SUBSET Node /\ t \in S
  BY WithinCloses
<1>2. \A n \in S : \A k \in Onward(n) : ParallelOf[k] = ParallelOf[t] => k \in S
  BY WithinCloses
<1>3. S \subseteq Within[t]
  OBVIOUS
<1> HIDE DEF S
<1>4. Walk[t] \subseteq S
  BY <1>1, <1>2 DEF Walk
<1> QED
  BY <1>3, <1>4

\* What a task runs is within every branch above it.
LEMMA WithinAbove ==
  ASSUME NEW t \in Node, t # Root, NEW b \in Above[t], b # Root
  PROVE  Walk[t] \subseteq Within[b]
<1> DEFINE S == {w \in Node : w = Root \/ Within[t] \subseteq Within[w]}
<1>1. S \in SUBSET Node /\ t \in S
  OBVIOUS
<1>2. ASSUME NEW x \in S, NEW v \in Task, IsParent(v, x) PROVE v \in S
  <2>1. x # Root /\ v \in Node
    BY <1>2, ChildIsDown, TaskInNode DEF Branch
  <2>2. CASE v = Root
    BY <2>1, <2>2
  <2>3. CASE v # Root
    <3>1. PICK n \in Walk[v] : x \in Forked(n)
      BY <1>2 DEF IsParent
    <3>2. n \in Within[v]
      BY <2>1, <2>3, <3>1, WalkIsWithin
    <3>3. x \in Within[v]
      BY <2>1, <3>1, <3>2, WithinCloses
    <3>4. Within[x] \subseteq Within[v]
      <4>1. x \in Node /\ Within[v] \in SUBSET Node
        BY <2>1, WithinCloses
      <4>2. \A m \in Within[v] : /\ Forked(m) \subseteq Within[v]
                                 /\ \A k \in Onward(m) : ParallelOf[k] = ParallelOf[m] => k \in Within[v]
        BY <2>1, WithinCloses
      <4> QED
        BY <3>3, <4>1, <4>2, WithinLeast
    <3> QED
      BY <1>2, <2>1, <3>4
  <2> QED
    BY <2>2, <2>3
<1> HIDE DEF S
<1>3. b \in S
  BY <1>1, <1>2, AboveLeast
<1> QED
  BY <1>3, WalkIsWithin DEF S

\* Of the tasks above one each but the first was forked by another of them.
LEMMA NextDown ==
  ASSUME NEW t \in Node, Root \in Above[t], NEW v \in Above[t], v # t
  PROVE  \E b \in Above[t] : IsParent(v, b) /\ v \in Task
<1>1. SUFFICES ASSUME \A b \in Above[t] : ~(IsParent(v, b) /\ v \in Task) PROVE FALSE
  OBVIOUS
<1> DEFINE S == {y \in Above[t] : v \in Above[y] /\ v # y}
<1>2. S \in SUBSET Node /\ t \in S
  BY AboveTypes
<1>3. ASSUME NEW x \in S, NEW p \in Task, IsParent(p, x) PROVE p \in S
  <2>1. x \in Node /\ p \in Above[t]
    BY <1>3, AboveTypes
  <2>2. v \in Above[p]
    BY <1>3, <2>1, AboveParent
  <2>3. p # v
    BY <1>1, <1>3
  <2> QED
    BY <2>1, <2>2, <2>3
<1> HIDE DEF S
<1>4. Root \in S
  BY <1>2, <1>3, AboveLeast
<1> QED
  BY <1>4, AboveRoot DEF S

\* Where a task is at work, the tasks above it wait or are lost, and their branches on
\* the way to it are among those they have submitted.
LEMMA WayDown ==
  ASSUME NEW P, NEW Q, NEW F, NEW K, NEW G, NEW L, LostRight(P, Q, F, K, G, L),
         NEW t \in Node, P[t] \notin Quiet \cup Waiting, t \notin L
  PROVE  /\ Root \in Above[t]
         /\ \A w \in Above[t] : w # t => w \in L \/ P[w] \in Waiting
         /\ \A v \in Task : \A b \in Above[t] : IsParent(v, b) => b \in F[v]
<1>1. /\ Rooted(P, F, G) /\ LostPlaces(P, L) /\ Answered(P, Q, F, G, L)
  BY DEF LostRight
<1>2. Root \in Above[t]
  <2>1. CASE t = Root
    BY <2>1, AboveRoot
  <2>2. CASE t # Root
    BY <1>1, <2>2 DEF Rooted, Branch, Quiet
  <2> QED
    BY <2>1, <2>2
<1> DEFINE S == {w \in Above[t] : P[w] \notin Quiet \/ w \in L}
           T == {w \in S : w # t => w \in L \/ P[w] \in Waiting}
<1>3. ASSUME NEW x \in S, NEW v \in Task, IsParent(v, x)
      PROVE  x \in F[v] /\ v \in T
  <2>1. x \in Branch /\ P[x] # "idle"
    BY <1>1, <1>3, TaskInNode, ChildIsDown DEF LostPlaces, Quiet, Ended
  <2>2. G[x] = v
    BY <1>1, <1>3, <2>1, OneParent DEF Rooted
  <2>3. x \in F[v] /\ (v \in L \/ P[v] \in Waiting)
    BY <1>1, <1>3, <2>1, <2>2 DEF Answered
  <2>4. v \in Above[t] /\ (P[v] \in Waiting => P[v] \notin Quiet)
    BY <1>3, AboveTypes DEF Waiting, Quiet
  <2> QED
    BY <2>3, <2>4
<1>4. T \in SUBSET Node /\ t \in T
  BY AboveTypes
<1>5. \A x \in T : \A v \in Task : IsParent(v, x) => v \in T
  BY <1>3
<1>6. T \subseteq S
  OBVIOUS
<1>7. Above[t] \subseteq T
  <2> HIDE DEF S, T
  <2> QED
    BY <1>4, <1>5, AboveLeast
<1> QED
  BY <1>2, <1>3, <1>6, <1>7

\* Two tasks at work are in different branches of one fork.
LEMMA AtWorkApart ==
  ASSUME ForkInv, LostInv, NEW t \in Node, NEW u \in Node, t # u,
         pc[t] \notin Quiet \cup Waiting \cup Ended \cup {"raise"},
         pc[u] \notin Quiet \cup Waiting \cup Ended \cup {"raise"}
  PROVE  \E n \in Node : \E b, c \in Forked(n) :
           b # c /\ ParallelOf[b] = ParallelOf[c] /\ b \in Above[t] /\ c \in Above[u]
<1>1. PICK L \in SUBSET Node : LostRight(pc, q, futures, okay, forker, L)
  BY DEF LostInv
<1>2. t \notin L /\ u \notin L
  BY <1>1 DEF LostRight, LostPlaces
<1>3. /\ Root \in Above[t] /\ (\A w \in Above[t] : w # t => w \in L \/ pc[w] \in Waiting)
      /\ \A v \in Task : \A b \in Above[t] : IsParent(v, b) => b \in futures[v]
  BY <1>1, <1>2, WayDown
<1>4. /\ Root \in Above[u] /\ (\A w \in Above[u] : w # u => w \in L \/ pc[w] \in Waiting)
      /\ \A v \in Task : \A b \in Above[u] : IsParent(v, b) => b \in futures[v]
  BY <1>1, <1>2, WayDown
<1>5. u \notin Above[t] /\ t \notin Above[u]
  BY <1>2, <1>3, <1>4
\* The last task that is above both forks them apart.
<1>6. PICK c \in Above[u] : c \notin Above[t] /\ \E v \in Task : IsParent(v, c) /\ v \in Above[t]
  <2>1. SUFFICES ASSUME \A c \in Above[u] : c \notin Above[t] =>
                          \A v \in Task : IsParent(v, c) => v \notin Above[t]
                 PROVE  FALSE
    OBVIOUS
  <2> DEFINE S == {x \in Above[u] : x \notin Above[t]}
  <2>2. S \in SUBSET Node /\ u \in S
    BY <1>5, AboveTypes
  <2>3. \A x \in S : \A v \in Task : IsParent(v, x) => v \in S
    BY <2>1, AboveTypes
  <2> HIDE DEF S
  <2>4. Root \in S
    BY <1>4, <2>2, <2>3, AboveLeast
  <2> QED
    BY <1>3, <2>4 DEF S
<1>7. PICK v \in Task : IsParent(v, c) /\ v \in Above[t]
  BY <1>6
<1>8. v \in Node /\ v \in Above[u]
  BY <1>6, <1>7, TaskInNode, AboveTypes
<1>9. v # t
  BY <1>5, <1>8
<1>10. PICK b \in Above[t] : IsParent(v, b)
  BY <1>3, <1>7, <1>9, NextDown
<1>11. b # c /\ b \in futures[v] /\ c \in futures[v]
  BY <1>3, <1>4, <1>6, <1>7, <1>10
<1>12. ParallelOf[b] = ParallelOf[c]
  BY <1>8, <1>11 DEF ForkInv, FInv, FuturesInv, Submitted
<1>13. PICK n \in Walk[v] : b \in Forked(n)
  BY <1>10 DEF IsParent
<1>14. PICK m \in Walk[v] : c \in Forked(m)
  BY <1>7 DEF IsParent
<1>15. n \in Node /\ m \in Node
  BY <1>8, WalkIsDown
<1>16. n = m
  BY <1>12, <1>13, <1>14, <1>15, WalksAssumption
<1> QED
  BY <1>6, <1>10, <1>11, <1>12, <1>13, <1>14, <1>15, <1>16

\* Nodes run side by side only in different branches of one fork, however the threads
\* of the pool interleave and whichever of the branches fail, in a graph in which no
\* two tasks come to the same node.
THEOREM BranchesOverlap == Spec => []OnlyBranchesOverlap
<1>1. SuccessInv => OnlyBranchesOverlap
  <2>1. SUFFICES ASSUME SuccessInv, NEW t \in Node, pc[t] \in {"enter", "run"}, NEW n \in Node,
                        status[n] = "running", n # node[t]
                 PROVE  \E k \in Node : \E b, c \in Forked(k) :
                          /\ b # c /\ ParallelOf[b] = ParallelOf[c]
                          /\ node[t] \in Within[b] /\ n \in Within[c]
    BY DEF OnlyBranchesOverlap
  <2>2. /\ ForkInv /\ LostInv /\ VerdictInv /\ RunsInv /\ Root \in Node
        /\ \A w \in Node : pc[w] # "idle" => w \in Task /\ node[w] \in Walk[w]
    BY <2>1, NodesAssumption DEF SuccessInv, StreamInv, RunInv, ForkInv, FInv, WalksInv
  <2>3. ~Rests
    BY <2>1, <2>2 DEF Rests, VerdictInv, Quiet, Branch
  <2>4. PICK u \in Node : pc[u] = "run" /\ node[u] = n
    BY <2>1, <2>2, <2>3 DEF RunsInv
  <2>5. t # u
    BY <2>1, <2>4
  <2>6. PICK k \in Node : \E b, c \in Forked(k) :
          b # c /\ ParallelOf[b] = ParallelOf[c] /\ b \in Above[t] /\ c \in Above[u]
    <3>1. /\ pc[t] \notin Quiet \cup Waiting \cup Ended \cup {"raise"}
          /\ pc[u] \notin Quiet \cup Waiting \cup Ended \cup {"raise"}
      BY <2>1, <2>4 DEF Quiet, Waiting, Ended
    <3> QED
      BY <2>2, <2>5, <3>1, AtWorkApart
  <2>7. PICK b, c \in Forked(k) : b # c /\ ParallelOf[b] = ParallelOf[c] /\ b \in Above[t] /\ c \in Above[u]
    BY <2>6
  <2>8. b # Root /\ c # Root
    BY ForkedInNode DEF Branch
  <2>9. t # Root /\ u # Root
    BY <2>7, <2>8, AboveRoot
  <2>10. node[t] \in Within[b] /\ n \in Within[c]
    BY <2>1, <2>2, <2>4, <2>7, <2>8, <2>9, WithinAbove
  <2> QED
    BY <2>7, <2>10
<1> QED
  BY <1>1, InitSuccess, StepSuccess, PTL DEF Spec
=============================================================================
