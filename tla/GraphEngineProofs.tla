-------------------------- MODULE GraphEngineProofs --------------------------
(***************************************************************************)
(* Theorems about GraphEngine, for any finite graph without cycles in      *)
(* which no two tasks come to the same node, any routes through it and any *)
(* limits: types, the limit on the steps, forks and the pool's count.      *)
(***************************************************************************)
EXTENDS GraphEngine, SequenceTheorems, FiniteSetTheorems, TLAPS

-----------------------------------------------------------------------------
(* Lists without repetition.                                               *)

\* What is left of such a list after its head.
LEMMA TailOnce ==
  ASSUME NEW S, NEW seq \in Seq(S), seq # <<>>, IsInjective(seq)
  PROVE  /\ IsInjective(Tail(seq)) /\ Range(Tail(seq)) = Range(seq) \ {Head(seq)}
         /\ Head(seq) \in Range(seq) /\ Head(seq) = seq[1]
<1>1. /\ Len(seq) \in Nat /\ Len(seq) > 0 /\ DOMAIN seq = 1..Len(seq)
      /\ Head(seq) = seq[1]
  BY LenProperties, EmptySeq
<1>2. /\ Tail(seq) \in Seq(S) /\ Len(Tail(seq)) = Len(seq) - 1
      /\ \A i \in 1..Len(Tail(seq)) : Tail(seq)[i] = seq[i + 1]
  BY HeadTailProperties
<1>3. DOMAIN Tail(seq) = 1..(Len(seq) - 1)
  BY <1>2, LenProperties
<1>4. IsInjective(Tail(seq))
  <2>1. SUFFICES ASSUME NEW i \in 1..(Len(seq) - 1), NEW j \in 1..(Len(seq) - 1),
                        Tail(seq)[i] = Tail(seq)[j]
                 PROVE  i = j
    BY <1>3 DEF IsInjective
  <2>2. seq[i + 1] = seq[j + 1] /\ i + 1 \in DOMAIN seq /\ j + 1 \in DOMAIN seq
    BY <1>1, <1>2, <2>1
  <2>3. i + 1 = j + 1
    BY <2>2 DEF IsInjective
  <2> QED
    BY <2>3
<1>5. ASSUME NEW x \in Range(Tail(seq))
      PROVE  x \in Range(seq) /\ x # Head(seq)
  <2>1. PICK i \in 1..(Len(seq) - 1) : x = Tail(seq)[i]
    BY <1>3, <1>5 DEF Range
  <2>2. x = seq[i + 1] /\ i + 1 \in DOMAIN seq /\ 1 \in DOMAIN seq /\ i + 1 # 1
    BY <1>1, <1>2, <2>1
  <2> QED
    BY <1>1, <2>2 DEF Range, IsInjective
<1>6. ASSUME NEW x \in Range(seq), x # Head(seq)
      PROVE  x \in Range(Tail(seq))
  <2>1. PICK i \in 1..Len(seq) : x = seq[i]
    BY <1>1, <1>6 DEF Range
  <2>2. i - 1 \in 1..(Len(seq) - 1) /\ (i - 1) + 1 = i
    BY <1>1, <1>6, <2>1
  <2>3. x = Tail(seq)[i - 1]
    BY <1>2, <2>1, <2>2
  <2> QED
    BY <1>3, <2>2, <2>3 DEF Range
<1>7. Head(seq) \in Range(seq)
  BY <1>1 DEF Range
<1> QED
  BY <1>1, <1>4, <1>5, <1>6, <1>7

\* Such a list with something new at its end.
LEMMA AppendOnce ==
  ASSUME NEW S, NEW seq \in Seq(S), NEW e \in S, IsInjective(seq), e \notin Range(seq)
  PROVE  IsInjective(Append(seq, e)) /\ Range(Append(seq, e)) = Range(seq) \cup {e}
<1>1. /\ Len(seq) \in Nat /\ DOMAIN seq = 1..Len(seq)
      /\ DOMAIN Append(seq, e) = 1..(Len(seq) + 1)
      /\ \A i \in 1..Len(seq) : Append(seq, e)[i] = seq[i]
      /\ Append(seq, e)[Len(seq) + 1] = e
  BY LenProperties, AppendProperties
<1>2. \A i \in 1..(Len(seq) + 1) : i \in 1..Len(seq) \/ i = Len(seq) + 1
  BY <1>1
<1>3. \A i \in 1..Len(seq) : i \in 1..(Len(seq) + 1) /\ seq[i] # e
  BY <1>1 DEF Range
<1>4. Len(seq) + 1 \in 1..(Len(seq) + 1)
  BY <1>1
<1>5. IsInjective(Append(seq, e))
  BY <1>1, <1>2, <1>3 DEF IsInjective
<1>6. Range(Append(seq, e)) = Range(seq) \cup {e}
  BY <1>1, <1>2, <1>3, <1>4 DEF Range
<1> QED
  BY <1>5, <1>6

USE NodesAssumption, ParallelAssumption, LimitsAssumption

-----------------------------------------------------------------------------
(* Type correctness.                                                       *)

\* A fork that is under way has edges left or branches submitted, and the
\* parallel it is about is one of the graph's.
ForksWellFormed ==
  \A t \in Node :
    /\ \A b \in futures[t] : ParallelOf[b] \in Parallel
    /\ pc[t] \in {"fork", "submit"} => todo[t] # <<>>
    /\ pc[t] = "fork" /\ futures[t] = {} => ParallelOf[Head(todo[t])] \in Parallel
    /\ pc[t] = "submit" => ParallelOf[Head(todo[t])] \in Parallel
    /\ pc[t] \in {"listen", "join"} => futures[t] # {}

TInv == TypeOK /\ ForksWellFormed

\* The edges the conditions choose lead to nodes other than the root.
LEMMA RoutesType ==
  ASSUME NEW n \in Node, NEW o \in DOMAIN Routes[n], NEW edges \in Routes[n][o]
  PROVE  edges \in Seq(Branch)
BY RoutesAssumption

\* What is left of a list of edges or of a queue after its head.
LEMMA TailType ==
  ASSUME NEW S, NEW seq \in Seq(S), seq # <<>>
  PROVE  /\ Head(seq) \in S /\ Tail(seq) \in Seq(S)
         /\ Len(seq) # 1 => Tail(seq) # <<>>
<1>1. /\ Head(seq) \in S /\ Tail(seq) \in Seq(S) /\ Len(Tail(seq)) = Len(seq) - 1
  BY HeadTailProperties
<1>2. Len(seq) \in Nat
  BY LenProperties
<1>3. ASSUME Len(seq) # 1, Tail(seq) = <<>> PROVE FALSE
  <2>1. Len(Tail(seq)) = 0
    BY <1>1, <1>3, EmptySeq
  <2> QED
    BY <1>1, <1>2, <1>3, <2>1
<1> QED
  BY <1>1, <1>3

\* What a task yields goes to the consumer or to a queue, as an event.
LEMMA YieldsType ==
  ASSUME NEW t \in Node, NEW e \in Event, NEW queues \in [Node -> Seq(Event)],
         e.kind \in NodeStatus => e.node \in Node,
         out \in Event, report \in [Node -> NodeStatus],
         Yields(t, e, queues)
  PROVE  /\ q' \in [Node -> Seq(Event)]
         /\ out' \in Event /\ report' \in [Node -> NodeStatus]
<1>1. CASE t = Root
  BY <1>1 DEF Yields
<1>2. CASE t # Root
  <2>1. CASE forker[t] \in Node
    <3>1. Append(queues[forker[t]], e) \in Seq(Event)
      BY <2>1, AppendProperties
    <3> QED
      BY <1>2, <2>1, <3>1 DEF Yields
  <2>2. CASE forker[t] \notin Node
    <3>1. q' = queues
      BY <1>2, <2>2 DEF Yields
    <3> QED
      BY <1>2, <3>1 DEF Yields
  <2> QED
    BY <2>1, <2>2
<1> QED
  BY <1>1, <1>2

LEMMA InitType == Init => TInv
<1> SUFFICES ASSUME Init PROVE TInv
  OBVIOUS
<1>1. pc \in [Node -> Where] /\ status \in [Node -> NodeStatus] /\ report \in [Node -> NodeStatus]
  BY DEF Init, Where, NodeStatus
<1>2. /\ q \in [Node -> Seq(Event)] /\ todo \in [Node -> Seq(Branch)]
      /\ pool \in Seq(Branch) /\ out \in Event
  BY EmptySeq DEF Init, Event
<1>3. /\ node \in [Node -> Node] /\ futures \in [Node -> SUBSET Branch]
      /\ okay \in [Node -> Nat] /\ forker \in [Node -> Node \cup {NoNode}]
  BY DEF Init
<1>4. excepted \in BOOLEAN /\ overtime \in BOOLEAN /\ verdict = "open"
  BY Zenon DEF Init
<1>5. submits = 0 /\ refused = 0 /\ steps = 0
  BY Zenon DEF Init
<1>6. TypeOK
  BY <1>1, <1>2, <1>3, <1>4, <1>5 DEF TypeOK
<1>7. ForksWellFormed
  BY DEF Init, ForksWellFormed
<1> QED
  BY <1>6, <1>7 DEF TInv

\* The steps of the walk keep the types.
LEMMA ChecksLimitsType ==
  ASSUME TInv, NEW t \in Node, ChecksLimits(t)
  PROVE  TInv'
BY DEF TInv, TypeOK, ForksWellFormed, ChecksLimits, Goes, At, Where, forkVars, graphVars

LEMMA StartsNodeType ==
  ASSUME TInv, NEW t \in Node, StartsNode(t)
  PROVE  TInv'
<1> DEFINE e == [kind |-> "running", node |-> node[t]]
<1>1. e \in Event /\ (e.kind \in NodeStatus => e.node \in Node)
  BY DEF TInv, TypeOK, Event, NodeStatus
<1>2. q \in [Node -> Seq(Event)] /\ out \in Event /\ report \in [Node -> NodeStatus]
  BY DEF TInv, TypeOK
<1>3. Yields(t, e, q)
  BY DEF StartsNode
<1>4. /\ q' \in [Node -> Seq(Event)]
      /\ out' \in Event /\ report' \in [Node -> NodeStatus]
  BY <1>1, <1>2, <1>3, YieldsType
<1>5. status' \in [Node -> NodeStatus] /\ steps' \in Nat /\ pc' \in [Node -> Where]
  BY DEF TInv, TypeOK, StartsNode, NodeStatus, Goes, Where
<1>6. TypeOK'
  BY <1>4, <1>5 DEF TInv, TypeOK, StartsNode, forkVars
<1>7. ForksWellFormed'
  BY DEF TInv, TypeOK, ForksWellFormed, StartsNode, Goes, forkVars
<1> QED
  BY <1>6, <1>7 DEF TInv

LEMMA FailsUnstartedType ==
  ASSUME TInv, NEW t \in Node, FailsUnstarted(t)
  PROVE  TInv'
<1> DEFINE e == [kind |-> "failed", node |-> node[t]]
<1>1. e \in Event /\ (e.kind \in NodeStatus => e.node \in Node)
  BY DEF TInv, TypeOK, Event, NodeStatus
<1>2. q \in [Node -> Seq(Event)] /\ out \in Event /\ report \in [Node -> NodeStatus]
  BY DEF TInv, TypeOK
<1>3. Yields(t, e, q)
  BY DEF FailsUnstarted
<1>4. /\ q' \in [Node -> Seq(Event)]
      /\ out' \in Event /\ report' \in [Node -> NodeStatus]
  BY <1>1, <1>2, <1>3, YieldsType
<1>5. status' \in [Node -> NodeStatus] /\ pc' \in [Node -> Where]
  BY DEF TInv, TypeOK, FailsUnstarted, NodeStatus, Goes, Where
<1>6. TypeOK'
  BY <1>4, <1>5 DEF TInv, TypeOK, FailsUnstarted, forkVars
<1>7. ForksWellFormed'
  BY DEF TInv, TypeOK, ForksWellFormed, FailsUnstarted, Goes, forkVars
<1> QED
  BY <1>6, <1>7 DEF TInv

\* Wherever the edges lead, the task, its node and its fork are well formed.
LEMMA FollowsType ==
  ASSUME TInv, NEW t \in Node, NEW edges \in Seq(Branch), Follows(t, edges)
  PROVE  /\ pc' \in [Node -> Where] /\ node' \in [Node -> Node]
         /\ todo' \in [Node -> Seq(Branch)] /\ futures' \in [Node -> SUBSET Branch]
         /\ okay' \in [Node -> Nat]
         /\ ForksWellFormed'
<1>1. CASE edges = <<>> /\ Goes(t, "over") /\ UNCHANGED <<node, todo, futures, okay>>
  BY <1>1 DEF TInv, TypeOK, ForksWellFormed, Goes, Where
<1>2. CASE Len(edges) = 1 /\ StepTo(t, edges[1]) /\ UNCHANGED <<todo, futures, okay>>
  <2>1. 1 \in 1..Len(edges)
    BY <1>2
  <2>2. edges[1] \in Branch
    BY <2>1, ElementOfSeq
  <2>3. edges[1] \in Node
    BY <2>2 DEF Branch
  <2> QED
    BY <1>2, <2>3 DEF TInv, TypeOK, ForksWellFormed, StepTo, Goes, Where
<1>3. CASE Goes(t, "raise") /\ UNCHANGED <<node, todo, futures, okay>>
  BY <1>3 DEF TInv, TypeOK, ForksWellFormed, Goes, Where
<1>4. CASE /\ Len(edges) > 1 /\ ParallelOf[edges[1]] # NoParallel
           /\ Goes(t, "fork") /\ UNCHANGED node
           /\ todo' = [todo EXCEPT ![t] = edges]
           /\ futures' = [futures EXCEPT ![t] = {}] /\ okay' = [okay EXCEPT ![t] = 0]
  <2>1. edges # <<>> /\ Head(edges) = edges[1] /\ edges[1] \in Node
    BY <1>4 DEF Branch
  <2>2. ParallelOf[Head(edges)] \in Parallel
    BY <1>4, <2>1
  <2>3. /\ pc' \in [Node -> Where] /\ node' \in [Node -> Node]
        /\ todo' \in [Node -> Seq(Branch)] /\ futures' \in [Node -> SUBSET Branch]
        /\ okay' \in [Node -> Nat]
    BY <1>4 DEF TInv, TypeOK, Goes, Where
  <2>4. pc'[t] = "fork" /\ todo'[t] = edges /\ futures'[t] = {}
    BY <1>4 DEF TInv, TypeOK, Goes
  <2>5. ASSUME NEW u \in Node, u # t
        PROVE  pc'[u] = pc[u] /\ todo'[u] = todo[u] /\ futures'[u] = futures[u]
    BY <1>4, <2>5 DEF TInv, TypeOK, Goes
  <2>6. ForksWellFormed'
    BY <2>1, <2>2, <2>4, <2>5 DEF TInv, ForksWellFormed
  <2> QED
    BY <2>3, <2>6
<1> QED
  BY <1>1, <1>2, <1>3, <1>4 DEF Follows

LEMMA EndsNodeType ==
  ASSUME TInv, NEW t \in Node, NEW o \in Outcome, EndsNode(t, o)
  PROVE  TInv'
<1> DEFINE s == IF o = "raised" THEN "failed" ELSE o
           e == [kind |-> s, node |-> node[t]]
<1>1. s \in NodeStatus \ {"idle"} /\ e \in Event /\ (e.kind \in NodeStatus => e.node \in Node)
  BY DEF TInv, TypeOK, Event, NodeStatus, Outcome
<1>2. q \in [Node -> Seq(Event)] /\ out \in Event /\ report \in [Node -> NodeStatus]
  BY DEF TInv, TypeOK
<1>3. Yields(t, e, q)
  BY DEF EndsNode
<1>4. /\ q' \in [Node -> Seq(Event)]
      /\ out' \in Event /\ report' \in [Node -> NodeStatus]
  BY <1>1, <1>2, <1>3, YieldsType
<1>5. status' \in [Node -> NodeStatus] /\ excepted' \in BOOLEAN
  BY <1>1 DEF TInv, TypeOK, EndsNode
<1>6. /\ pc' \in [Node -> Where] /\ node' \in [Node -> Node]
      /\ todo' \in [Node -> Seq(Branch)] /\ futures' \in [Node -> SUBSET Branch]
      /\ okay' \in [Node -> Nat]
      /\ ForksWellFormed'
  <2>1. CASE o = "raised"
    <3>1. Goes(t, "raise") /\ UNCHANGED <<node, todo, futures, okay>>
      BY <2>1 DEF EndsNode
    <3> QED
      BY <3>1 DEF TInv, TypeOK, ForksWellFormed, Goes, Where
  <2>2. CASE o # "raised"
    <3>1. PICK edges \in Routes[node[t]][o] : Follows(t, edges)
      BY <2>2 DEF EndsNode
    <3>2. edges \in Seq(Branch)
      BY RoutesType DEF EndsNode, TInv, TypeOK
    <3> QED
      BY <3>1, <3>2, FollowsType
  <2> QED
    BY <2>1, <2>2
<1>7. TypeOK'
  BY <1>4, <1>5, <1>6 DEF TInv, TypeOK, EndsNode
<1> QED
  BY <1>6, <1>7 DEF TInv

\* So do those of the fork.
LEMMA ForkParallelType ==
  ASSUME TInv, NEW t \in Node,
         pc[t] = "fork" \/ futures[t] # {}
  PROVE  ForkParallel(t) \in Parallel
<1>1. CASE futures[t] = {}
  BY <1>1 DEF TInv, ForksWellFormed, ForkParallel
<1>2. CASE futures[t] # {}
  <2>1. (CHOOSE b \in futures[t] : TRUE) \in futures[t]
    BY <1>2
  <2> QED
    BY <1>2, <2>1 DEF TInv, ForksWellFormed, ForkParallel
<1> QED
  BY <1>1, <1>2

LEMMA SkipsType ==
  ASSUME TInv, NEW t \in Node, Skips(t)
  PROVE  TInv'
<1>1. /\ todo[t] \in Seq(Branch) /\ todo[t] # <<>>
      /\ pc[t] = "fork" /\ futures[t] # {}
  BY DEF TInv, TypeOK, ForksWellFormed, Skips, At, ForkParallel
<1>2. Tail(todo[t]) \in Seq(Branch) /\ (Len(todo[t]) # 1 => Tail(todo[t]) # <<>>)
  BY <1>1, TailType
<1>3. TypeOK'
  BY <1>2 DEF TInv, TypeOK, Skips, Goes, NextEdge, Where, graphVars
<1>4. ForksWellFormed'
  BY <1>1, <1>2 DEF TInv, TypeOK, ForksWellFormed, Skips, Goes, NextEdge
<1> QED
  BY <1>3, <1>4 DEF TInv

LEMMA CountsSubmitType ==
  ASSUME TInv, NEW t \in Node, CountsSubmit(t)
  PROVE  TInv'
<1>1. ParallelOf[Head(todo[t])] \in Parallel
  BY ForkParallelType DEF CountsSubmit, At
<1>2. q' \in [Node -> Seq(Event)]
  BY EmptySeq DEF TInv, TypeOK, CountsSubmit
<1>3. TypeOK'
  BY <1>2 DEF TInv, TypeOK, CountsSubmit, Goes, Where, forkVars, graphVars
<1>4. ForksWellFormed'
  BY <1>1 DEF TInv, TypeOK, ForksWellFormed, CountsSubmit, At, Goes, forkVars
<1> QED
  BY <1>3, <1>4 DEF TInv

LEMMA RefusedType ==
  ASSUME TInv, NEW t \in Node, Refused(t)
  PROVE  TInv'
BY DEF TInv, TypeOK, ForksWellFormed, Refused, Goes, Where, graphVars

LEMMA SubmitsType ==
  ASSUME TInv, NEW t \in Node, Submits(t)
  PROVE  TInv'
<1> DEFINE b == Head(todo[t])
<1>1. /\ todo[t] \in Seq(Branch) /\ todo[t] # <<>>
      /\ pc[t] = "submit" /\ ParallelOf[b] \in Parallel
  BY DEF TInv, TypeOK, ForksWellFormed, Submits, At
<1>2. b \in Branch /\ Tail(todo[t]) \in Seq(Branch) /\ (Len(todo[t]) # 1 => Tail(todo[t]) # <<>>)
  BY <1>1, TailType
<1>3. pool' \in Seq(Branch)
  BY <1>2, AppendProperties DEF TInv, TypeOK, Submits
<1>4. /\ pc' \in [Node -> Where] /\ todo' \in [Node -> Seq(Branch)]
      /\ futures' \in [Node -> SUBSET Branch] /\ forker' \in [Node -> Node \cup {NoNode}]
  BY <1>2 DEF TInv, TypeOK, Submits, NextEdge, Where
<1>5. TypeOK'
  BY <1>3, <1>4 DEF TInv, TypeOK, Submits, graphVars
<1>6. /\ futures'[t] = futures[t] \cup {b} /\ todo'[t] = Tail(todo[t])
      /\ pc'[t] = NextEdge(t)
  BY <1>2 DEF TInv, TypeOK, Submits, Branch
<1>7. ASSUME NEW u \in Node, u # t
      PROVE  /\ futures'[u] = futures[u] /\ todo'[u] = todo[u]
             /\ pc'[u] = pc[u] \/ pc'[u] = "queued"
  BY <1>2, <1>7 DEF TInv, TypeOK, Submits, Branch
<1>8. ForksWellFormed'
  BY <1>1, <1>2, <1>6, <1>7 DEF TInv, ForksWellFormed, NextEdge
<1> QED
  BY <1>5, <1>8 DEF TInv

LEMMA TakesBranchType ==
  ASSUME TInv, NEW b \in Branch, TakesBranch(b)
  PROVE  TInv'
<1>1. pool' \in Seq(Branch)
  BY TailType DEF TInv, TypeOK, TakesBranch
<1>2. TypeOK'
  BY <1>1 DEF TInv, TypeOK, TakesBranch, Goes, Where, graphVars
<1>3. ForksWellFormed'
  BY DEF TInv, TypeOK, ForksWellFormed, TakesBranch, Goes, Branch
<1> QED
  BY <1>2, <1>3 DEF TInv

LEMMA ListensType ==
  ASSUME TInv, NEW t \in Node, Listens(t)
  PROVE  TInv'
<1> DEFINE e == Head(q[t])
           won == e.kind = "BranchSucceeded" /\ OfFork(t, e.node)
           lost == e.kind = "BranchFailed" /\ OfFork(t, e.node)
           last == won /\ AllSucceeded(t, okay[t] + 1)
           rest == Tail(q[t]) \o (IF last THEN <<None>> ELSE <<>>)
           queues == [q EXCEPT ![t] = rest]
<1>1. q[t] \in Seq(Event) /\ q[t] # <<>> /\ e # None
  BY DEF TInv, TypeOK, Listens
<1>2. e \in Event /\ Tail(q[t]) \in Seq(Event)
  BY <1>1, TailType
<1>3. e.kind \in NodeStatus => e.node \in Node
  BY <1>1, <1>2 DEF Event
<1>4. rest \in Seq(Event)
  <2>1. <<None>> \in Seq(Event) /\ <<>> \in Seq(Event)
    BY DEF Event
  <2> QED
    BY <1>2, <2>1, ConcatProperties
<1>5. queues \in [Node -> Seq(Event)]
  BY <1>4 DEF TInv, TypeOK
<1>6. Yields(t, e, queues)
  BY DEF Listens
<1>7. /\ q' \in [Node -> Seq(Event)]
      /\ out' \in Event /\ report' \in [Node -> NodeStatus]
  BY <1>2, <1>3, <1>5, <1>6, YieldsType DEF TInv, TypeOK
<1>8. okay' \in [Node -> Nat]
  BY DEF TInv, TypeOK, Listens
<1>9. pc' \in [Node -> Where] /\ \A u \in Node : pc'[u] = pc[u] \/ pc'[u] = "raise"
  BY DEF TInv, TypeOK, Listens, Goes, Where
<1>10. TypeOK'
  BY <1>7, <1>8, <1>9 DEF TInv, TypeOK, Listens, graphVars
<1>11. ForksWellFormed'
  BY <1>9 DEF TInv, ForksWellFormed, Listens
<1> QED
  BY <1>10, <1>11 DEF TInv

LEMMA StopsListeningType ==
  ASSUME TInv, NEW t \in Node, StopsListening(t)
  PROVE  TInv'
<1>1. q' \in [Node -> Seq(Event)]
  BY TailType DEF TInv, TypeOK, StopsListening
<1>2. TypeOK'
  BY <1>1 DEF TInv, TypeOK, StopsListening, Goes, Where, forkVars, graphVars
<1>3. ForksWellFormed'
  BY DEF TInv, TypeOK, ForksWellFormed, StopsListening, At, Goes, forkVars
<1> QED
  BY <1>2, <1>3 DEF TInv

LEMMA JoinsType ==
  ASSUME TInv, NEW t \in Node, Joins(t)
  PROVE  TInv'
<1>1. ForkParallel(t) \in Parallel
  BY ForkParallelType DEF TInv, ForksWellFormed, Joins, At
<1>2. EndTo[ForkParallel(t)] \in Node \cup {NoNode}
  BY <1>1
<1>3. /\ pc' \in [Node -> Where] /\ node' \in [Node -> Node]
      /\ \A u \in Node : pc'[u] = pc[u] \/ pc'[u] \in {"over", "top"}
  BY <1>2 DEF TInv, TypeOK, Joins, StepTo, Goes, Where
<1>4. TypeOK'
  BY <1>3 DEF TInv, TypeOK, Joins, forkVars, graphVars
<1>5. ForksWellFormed'
  BY <1>3 DEF TInv, ForksWellFormed, Joins, forkVars
<1> QED
  BY <1>4, <1>5 DEF TInv

\* So do the ends of the walks, the consumer and the clock.
LEMMA EndsBranchType ==
  ASSUME TInv, NEW t \in Node, EndsBranch(t)
  PROVE  TInv'
<1> DEFINE e == [kind |-> IF pc[t] = "over" THEN "BranchSucceeded" ELSE "BranchFailed",
                 node |-> t]
<1>1. e \in Event /\ (e.kind \in NodeStatus => e.node \in Node)
  BY DEF Event, NodeStatus
<1>2. Yields(t, e, q)
  BY DEF EndsBranch
<1>3. /\ q' \in [Node -> Seq(Event)]
      /\ out' \in Event /\ report' \in [Node -> NodeStatus]
  BY <1>1, <1>2, YieldsType DEF TInv, TypeOK
<1>4. TypeOK'
  BY <1>3 DEF TInv, TypeOK, EndsBranch, Goes, Where, forkVars, graphVars
<1>5. ForksWellFormed'
  BY DEF TInv, TypeOK, ForksWellFormed, EndsBranch, Goes, forkVars
<1> QED
  BY <1>4, <1>5 DEF TInv

LEMMA EndsType ==
  ASSUME TInv, NEW t \in Node, SetsFuture(t) \/ CallsBack(t)
  PROVE  TInv'
<1>1. CASE SetsFuture(t)
  BY <1>1 DEF TInv, TypeOK, ForksWellFormed, SetsFuture, Goes, Where, forkVars, graphVars
<1>2. CASE CallsBack(t)
  BY <1>2 DEF TInv, TypeOK, ForksWellFormed, CallsBack, Goes, Where, forkVars, graphVars
<1> QED
  BY <1>1, <1>2

LEMMA RunType ==
  ASSUME TInv, EndsRun \/ Resumes \/ Closes \/ TimePasses
  PROVE  TInv'
<1>1. None \in Event
  BY DEF Event
<1>2. CASE EndsRun
  BY <1>2 DEF TInv, TypeOK, ForksWellFormed, EndsRun, Goes, Where, forkVars, graphVars
<1>3. CASE Resumes
  BY <1>1, <1>3 DEF TInv, TypeOK, ForksWellFormed, Resumes, Goes, Where, forkVars, graphVars
<1>4. CASE Closes
  BY <1>1, <1>4 DEF TInv, TypeOK, ForksWellFormed, Closes, Goes, Where, forkVars, graphVars
<1>5. CASE TimePasses
  BY <1>5 DEF TInv, TypeOK, ForksWellFormed, TimePasses, forkVars, graphVars
<1> QED
  BY <1>2, <1>3, <1>4, <1>5

LEMMA StepType ==
  ASSUME TInv, [Next]_vars
  PROVE  TInv'
<1>1. ASSUME NEW t \in Node, Walks(t)
      PROVE  TInv'
  BY <1>1, ChecksLimitsType, StartsNodeType, FailsUnstartedType, EndsNodeType DEF Walks
<1>2. ASSUME NEW t \in Node, Forks(t)
      PROVE  TInv'
  BY <1>2, SkipsType, CountsSubmitType, RefusedType, SubmitsType, ListensType,
     StopsListeningType, JoinsType DEF Forks
<1>3. ASSUME NEW t \in Node, Ends(t)
      PROVE  TInv'
  BY <1>3, EndsBranchType, EndsType DEF Ends
<1>4. CASE UNCHANGED vars
  BY <1>4 DEF TInv, TypeOK, ForksWellFormed, vars, forkVars, graphVars
<1> QED
  BY <1>1, <1>2, <1>3, <1>4, TakesBranchType, RunType DEF Next, Over

\* Every variable of a run keeps its type, whatever the graph; a fork that
\* listens has branches to listen to.
THEOREM TypeCorrect == Spec => []TypeOK
<1>1. TInv => TypeOK
  BY DEF TInv
<1> QED
  BY <1>1, InitType, StepType, PTL DEF Spec

-----------------------------------------------------------------------------
(* The limit on the steps.                                                 *)

\* The branches a worker has, and the tasks past the check of the limits that
\* have yet to start their node.
Busy     == {b \in Branch : HasWorker(b)}
Entering == {t \in Node : pc[t] = "enter"}

\* The workers are no more than there may be, and even if every entering task
\* takes its step the steps stay within the bound.
StepsInv ==
  /\ TInv
  /\ Cardinality(Busy) <= Workers
  /\ steps + Cardinality(Entering) <= MaxSteps + Workers + 1

\* A set with one element more is at most one larger.
LEMMA OneMore ==
  ASSUME NEW S, IsFiniteSet(S), NEW x
  PROVE  /\ IsFiniteSet(S \cup {x}) /\ Cardinality(S \cup {x}) \in Nat
         /\ Cardinality(S \cup {x}) <= Cardinality(S) + 1
<1>1. /\ IsFiniteSet(S \cup {x})
      /\ Cardinality(S \cup {x}) = IF x \in S THEN Cardinality(S) ELSE Cardinality(S) + 1
  BY FS_AddElement
<1>2. Cardinality(S) \in Nat
  BY FS_CardinalityType
<1> QED
  BY <1>1, <1>2

\* Where a move of one task to p leaves both sets no larger.
LEMMA QuietMove ==
  ASSUME TInv, NEW t \in Node, NEW p, Goes(t, p), p # "enter",
         t = Root \/ HasWorker(t) \/ p \in {"idle", "queued", "done"}
  PROVE  Busy' \in SUBSET Busy /\ Entering' \in SUBSET Entering
<1>1. pc \in [Node -> Where] /\ pc' = [pc EXCEPT ![t] = p]
  BY DEF TInv, TypeOK, Goes
<1>2. \A u \in Node : u # t => pc'[u] = pc[u]
  BY <1>1
<1>3. pc'[t] = p
  BY <1>1
<1> QED
  BY <1>2, <1>3 DEF Busy, Entering, HasWorker, Branch

\* Both sets are finite, and the tasks that enter have a worker or are the root.
LEMMA EnteringBound ==
  ASSUME TInv
  PROVE  /\ IsFiniteSet(Busy) /\ Cardinality(Busy) \in Nat
         /\ IsFiniteSet(Entering) /\ Cardinality(Entering) \in Nat
         /\ Cardinality(Entering) <= Cardinality(Busy) + 1
<1>1. IsFiniteSet(Busy) /\ IsFiniteSet(Entering)
  BY FS_Subset DEF Busy, Entering, Branch
<1>2. Entering \in SUBSET (Busy \cup {Root})
  BY DEF Entering, Busy, HasWorker, Branch
<1>3. /\ IsFiniteSet(Busy \cup {Root}) /\ Cardinality(Busy \cup {Root}) \in Nat
      /\ Cardinality(Busy \cup {Root}) <= Cardinality(Busy) + 1
  BY <1>1, OneMore
<1>4. Cardinality(Entering) <= Cardinality(Busy \cup {Root})
  BY <1>2, <1>3, FS_Subset
<1>5. Cardinality(Busy) \in Nat /\ Cardinality(Entering) \in Nat
  BY <1>1, FS_CardinalityType
<1> QED
  BY <1>1, <1>3, <1>4, <1>5

\* A step that gives no branch a worker, lets no task enter and takes no step.
LEMMA QuietStep ==
  ASSUME StepsInv, TInv', Busy' \in SUBSET Busy, Entering' \in SUBSET Entering, steps' = steps
  PROVE  StepsInv'
<1>1. Cardinality(Busy') <= Cardinality(Busy) /\ Cardinality(Entering') <= Cardinality(Entering)
  BY EnteringBound, FS_Subset DEF StepsInv
<1>2. Cardinality(Busy') \in Nat /\ Cardinality(Entering') \in Nat
  BY EnteringBound, FS_Subset, FS_CardinalityType DEF StepsInv
<1>3. /\ Cardinality(Busy) <= Workers /\ Cardinality(Busy) \in Nat /\ Cardinality(Entering) \in Nat
      /\ steps + Cardinality(Entering) <= MaxSteps + Workers + 1
  BY EnteringBound DEF StepsInv
<1>4. steps \in Nat
  BY DEF StepsInv, TInv, TypeOK
<1>5. Cardinality(Busy') <= Workers
  BY <1>1, <1>2, <1>3
<1>6. steps' + Cardinality(Entering') <= MaxSteps + Workers + 1
  BY <1>1, <1>2, <1>3, <1>4
<1> QED
  BY <1>5, <1>6 DEF StepsInv

\* A task passes the check only while the limit is not reached.
LEMMA ChecksLimitsSteps ==
  ASSUME StepsInv, TInv', NEW t \in Node, ChecksLimits(t)
  PROVE  StepsInv'
<1>1. Busy' \in SUBSET Busy
  BY DEF StepsInv, TInv, TypeOK, Busy, HasWorker, ChecksLimits, At, Goes
<1>2. Cardinality(Busy') <= Workers /\ Cardinality(Busy') \in Nat
  BY <1>1, EnteringBound, FS_Subset, FS_CardinalityType DEF StepsInv
<1>3. CASE LimitReached
  <2>1. Entering' \in SUBSET Entering
    BY <1>3 DEF StepsInv, TInv, TypeOK, Entering, ChecksLimits, Goes
  <2> QED
    BY <1>1, <2>1, QuietStep DEF ChecksLimits, graphVars
<1>4. CASE ~LimitReached
  <2>1. steps <= MaxSteps /\ steps' = steps /\ steps \in Nat
    BY <1>4 DEF LimitReached, ChecksLimits, graphVars, StepsInv, TInv, TypeOK
  <2>2. /\ Cardinality(Entering') \in Nat
        /\ Cardinality(Entering') <= Cardinality(Busy') + 1
    <3>1. IsFiniteSet(Busy') /\ IsFiniteSet(Entering')
      BY FS_Subset DEF Busy, Entering, Branch
    <3>2. Entering' \in SUBSET (Busy' \cup {Root})
      BY DEF Entering, Busy, HasWorker, Branch
    <3>3. /\ IsFiniteSet(Busy' \cup {Root}) /\ Cardinality(Busy' \cup {Root}) \in Nat
          /\ Cardinality(Busy' \cup {Root}) <= Cardinality(Busy') + 1
      BY <3>1, OneMore
    <3> QED
      BY <3>1, <3>2, <3>3, FS_Subset, FS_CardinalityType
  <2> QED
    BY <1>2, <2>1, <2>2 DEF StepsInv
<1> QED
  BY <1>3, <1>4

\* A step is taken by a task that was entering.
LEMMA StartsNodeSteps ==
  ASSUME StepsInv, TInv', NEW t \in Node, StartsNode(t)
  PROVE  StepsInv'
<1>1. Busy' \in SUBSET Busy
  BY QuietMove DEF StepsInv, HasWorker, StartsNode, At
<1>2. Cardinality(Busy') <= Workers
  BY <1>1, EnteringBound, FS_Subset, FS_CardinalityType DEF StepsInv
<1>3. Entering' = Entering \ {t} /\ t \in Entering
  BY DEF StepsInv, TInv, TypeOK, Entering, StartsNode, At, Goes
<1>4. Cardinality(Entering') = Cardinality(Entering) - 1
  BY <1>3, EnteringBound, FS_RemoveElement DEF StepsInv
<1>5. steps' = steps + 1 /\ steps \in Nat
  BY DEF StartsNode, StepsInv, TInv, TypeOK
<1> QED
  <2>1. /\ Cardinality(Entering) \in Nat
        /\ steps + Cardinality(Entering) <= MaxSteps + Workers + 1
    BY EnteringBound DEF StepsInv
  <2>2. steps' + Cardinality(Entering') <= MaxSteps + Workers + 1
    BY <1>4, <1>5, <2>1
  <2> QED
    BY <1>2, <2>2 DEF StepsInv

\* The pool takes a branch only while a worker is free.
LEMMA TakesBranchSteps ==
  ASSUME StepsInv, TInv', NEW b \in Branch, TakesBranch(b)
  PROVE  StepsInv'
<1>1. Entering' \in SUBSET Entering /\ steps' = steps
  BY DEF StepsInv, TInv, TypeOK, Entering, TakesBranch, Goes, graphVars
<1>2. Busy' \in SUBSET (Busy \cup {b})
  BY DEF StepsInv, TInv, TypeOK, Busy, HasWorker, TakesBranch, Goes
<1>3. Cardinality(Busy) < Workers
  BY DEF TakesBranch, Busy
<1>4. /\ IsFiniteSet(Busy \cup {b}) /\ Cardinality(Busy \cup {b}) \in Nat
      /\ Cardinality(Busy \cup {b}) <= Cardinality(Busy) + 1
  BY EnteringBound, OneMore DEF StepsInv
<1>5. Cardinality(Busy') <= Cardinality(Busy \cup {b}) /\ Cardinality(Busy') \in Nat
  BY <1>2, <1>4, FS_Subset, FS_CardinalityType
<1>6. Cardinality(Busy') <= Workers
  BY <1>3, <1>4, <1>5, EnteringBound DEF StepsInv
<1>7. Cardinality(Entering') <= Cardinality(Entering) /\ Cardinality(Entering') \in Nat
  BY <1>1, EnteringBound, FS_Subset, FS_CardinalityType DEF StepsInv
<1>8. /\ Cardinality(Entering) \in Nat /\ steps \in Nat
      /\ steps + Cardinality(Entering) <= MaxSteps + Workers + 1
  BY EnteringBound DEF StepsInv, TInv, TypeOK
<1>9. steps' + Cardinality(Entering') <= MaxSteps + Workers + 1
  BY <1>1, <1>7, <1>8
<1> QED
  BY <1>6, <1>9 DEF StepsInv

\* Nothing else gives a worker, enters or takes a step.
LEMMA OtherSteps ==
  ASSUME StepsInv, [Next]_vars
  PROVE  StepsInv'
<1>0. TInv /\ TInv'
  BY StepType DEF StepsInv
<1>1. ASSUME NEW t \in Node, Walks(t)
      PROVE  StepsInv'
  <2>1. CASE FailsUnstarted(t)
    <3>1. Goes(t, "raise") /\ (t = Root \/ HasWorker(t)) /\ steps' = steps
      BY <2>1 DEF FailsUnstarted, At, HasWorker
    <3> QED
      BY <1>0, <3>1, QuietMove, QuietStep
  <2>2. ASSUME NEW o \in Outcome, EndsNode(t, o)
        PROVE  StepsInv'
    <3>1. PICK p \in {"over", "top", "raise", "fork"} : Goes(t, p)
      BY <2>2 DEF EndsNode, Follows, StepTo
    <3>2. t = Root \/ HasWorker(t)
      BY <2>2 DEF EndsNode, At, HasWorker
    <3>3. steps' = steps
      BY <2>2 DEF EndsNode
    <3> QED
      BY <1>0, <3>1, <3>2, <3>3, QuietMove, QuietStep
  <2> QED
    BY <1>0, <1>1, <2>1, <2>2, ChecksLimitsSteps, StartsNodeSteps DEF Walks
<1>2. ASSUME NEW t \in Node, Forks(t)
      PROVE  StepsInv'
  <2>1. /\ \A u \in Node : pc'[u] = pc[u] \/ pc'[u] \notin {"enter"}
        /\ steps' = steps
    BY <1>0, <1>2 DEF TInv, TypeOK, Forks, Skips, CountsSubmit, Refused, Submits, Listens,
       StopsListening, Joins, StepTo, NextEdge, Goes, graphVars
  <2>2. \A u \in Branch : HasWorker(u)' => HasWorker(u)
    BY <1>0, <1>2 DEF TInv, TypeOK, Forks, Skips, CountsSubmit, Refused, Submits, Listens,
       StopsListening, Joins, StepTo, NextEdge, Goes, At, HasWorker, Branch
  <2>3. Busy' \in SUBSET Busy /\ Entering' \in SUBSET Entering
    BY <2>1, <2>2 DEF Busy, Entering
  <2> QED
    BY <1>0, <2>1, <2>3, QuietStep
<1>3. ASSUME NEW t \in Node, Ends(t)
      PROVE  StepsInv'
  <2>1. PICK p \in {"ending", "finished", "done"} : Goes(t, p)
    BY <1>3 DEF Ends, EndsBranch, SetsFuture, CallsBack
  <2>2. (t = Root \/ HasWorker(t)) /\ steps' = steps
    BY <1>3 DEF Ends, EndsBranch, SetsFuture, CallsBack, HasWorker, graphVars
  <2> QED
    BY <1>0, <2>1, <2>2, QuietMove, QuietStep
<1>4. CASE EndsRun \/ Resumes \/ Closes \/ TimePasses \/ UNCHANGED vars
  <2>1. steps' = steps /\ (Goes(Root, "done") \/ pc' = pc)
    BY <1>4 DEF EndsRun, Resumes, Closes, TimePasses, graphVars, vars
  <2>2. CASE pc' = pc
    <3>1. Busy' = Busy /\ Entering' = Entering
      BY <2>2 DEF Busy, Entering, HasWorker
    <3> QED
      BY <1>0, <2>1, <3>1, QuietStep
  <2>3. CASE Goes(Root, "done")
    BY <1>0, <2>1, <2>3, QuietMove, QuietStep
  <2> QED
    BY <2>1, <2>2, <2>3
<1> QED
  BY <1>0, <1>1, <1>2, <1>3, <1>4, TakesBranchSteps DEF Next, Over

LEMMA InitSteps == Init => StepsInv
<1> SUFFICES ASSUME Init PROVE StepsInv
  OBVIOUS
<1>1. Busy = {} /\ Entering = {} /\ steps = 0
  BY DEF Init, Busy, Entering, HasWorker, Branch
<1> QED
  BY <1>1, InitType, FS_EmptySet DEF StepsInv

\* Whatever the graph and however its branches interleave, the number of nodes
\* started passes the limit by at most one per thread.
THEOREM StepLimit == Spec => []StepsBounded
<1>1. StepsInv => StepsBounded
  BY EnteringBound DEF StepsInv, StepsBounded, TInv, TypeOK
<1> QED
  BY <1>1, InitSteps, OtherSteps, PTL DEF Spec

-----------------------------------------------------------------------------
(* The graph: what follows a node, and the walks.                          *)

\* A node that follows n directly is downstream of it.
LEMMA NextIsDown ==
  ASSUME NEW n \in Node, NEW m \in Node, m \in Successors(n)
  PROVE  m \in Downstream[n]
BY DEF Downstream

\* What is downstream of a node downstream of n is downstream of n.
LEMMA DownIsTransitive ==
  ASSUME NEW n \in Node, NEW m \in Downstream[n], NEW k \in Downstream[m]
  PROVE  k \in Downstream[n]
<1>1. m \in Node
  BY DEF Downstream
<1>2. k \in Node
  BY <1>1 DEF Downstream
<1>3. ASSUME NEW S \in SUBSET Node, Successors(n) \subseteq S,
             \A j \in S : Successors(j) \subseteq S
      PROVE  k \in S
  <2>1. m \in S
    BY <1>3 DEF Downstream
  <2>2. Successors(m) \subseteq S
    BY <1>3, <2>1
  <2> QED
    BY <1>1, <1>3, <2>2 DEF Downstream
<1> QED
  BY <1>2, <1>3 DEF Downstream

\* The first of several edges, if in a parallel, is one of the branches forked.
LEMMA ForkedTypes ==
  ASSUME NEW n \in Node, NEW b \in Forked(n)
  PROVE  /\ b \in Branch /\ b \in Node /\ b # Root
         /\ ParallelOf[b] \in Parallel /\ b \in Successors(n) /\ b \in Downstream[n]
<1>1. PICK edges \in UNION Range(Routes[n]) :
        /\ Len(edges) > 1 /\ ParallelOf[edges[1]] # NoParallel
        /\ b \in Range(edges) /\ ParallelOf[b] = ParallelOf[edges[1]]
  BY DEF Forked
<1>2. b \in Branch /\ b \in Node /\ b # Root
  BY DEF Forked, Branch
<1>3. b \in Successors(n)
  BY <1>1 DEF Successors
<1>4. ParallelOf[b] \in Parallel
  BY <1>1, <1>2
<1> QED
  BY <1>2, <1>3, <1>4, NextIsDown

LEMMA ForkedInNode == ASSUME NEW n, NEW b \in Forked(n) PROVE b \in Node /\ b \in Branch
BY DEF Forked, Branch

\* Where a walk goes on to is downstream of where it was.
LEMMA OnwardIsDown ==
  ASSUME NEW n \in Node, NEW m \in Onward(n)
  PROVE  m \in Node /\ m \in Downstream[n]
<1>1. m \in Node
  BY DEF Onward
<1>2. ASSUME NEW edges \in UNION Range(Routes[n]), Len(edges) = 1, edges[1] = m
      PROVE  m \in Downstream[n]
  <2>1. edges \in Seq(Branch)
    BY RoutesAssumption DEF Range
  <2>2. 1 \in DOMAIN edges
    BY <1>2, <2>1, LenProperties
  <2>3. m \in Range(edges)
    BY <1>2, <2>2 DEF Range
  <2>4. m \in Successors(n)
    BY <2>3 DEF Successors
  <2> QED
    BY <1>1, <2>4, NextIsDown
<1>3. ASSUME NEW b \in Forked(n), EndTo[ParallelOf[b]] = m
      PROVE  m \in Downstream[n]
  <2>1. b \in Node /\ ParallelOf[b] \in Parallel /\ b \in Downstream[n]
    BY ForkedTypes
  <2>2. \E p \in Parallel : EndTo[p] = m /\ ParallelOf[b] = p
    BY <1>3, <2>1
  <2>3. m \in Successors(b)
    BY <1>1, <2>2, Zenon DEF Successors
  <2> QED
    BY <1>1, <2>1, <2>3, NextIsDown, DownIsTransitive
<1> QED
  BY <1>1, <1>2, <1>3 DEF Onward

\* A walk begins at the task's node and goes on from each of its nodes.
LEMMA WalkGoesOn ==
  ASSUME NEW t \in Node
  PROVE  /\ t \in Walk[t]
         /\ \A n \in Walk[t] : \A k \in Onward(n) :
              t = Root \/ ParallelOf[k] = ParallelOf[t] => k \in Walk[t]
         /\ Walk[t] \in SUBSET Node
<1>1. t \in Walk[t] /\ Walk[t] \in SUBSET Node
  BY DEF Walk
<1>2. ASSUME NEW n \in Walk[t], NEW k \in Onward(n), t = Root \/ ParallelOf[k] = ParallelOf[t]
      PROVE  k \in Walk[t]
  <2>1. k \in Node
    BY DEF Onward
  <2>2. ASSUME NEW S \in SUBSET Node, t \in S,
               \A m \in S : \A j \in Onward(m) :
                 t = Root \/ ParallelOf[j] = ParallelOf[t] => j \in S
        PROVE  k \in S
    <3>1. n \in S
      BY <2>2 DEF Walk
    <3> QED
      BY <1>2, <2>2, <3>1
  <2> QED
    BY <2>1, <2>2 DEF Walk
<1> QED
  BY <1>1, <1>2

\* What a task forks it alone forks, at one node of its walk.
LEMMA OneForker ==
  ASSUME NEW t \in Task, NEW u \in Task, NEW n \in Walk[t], NEW m \in Walk[u],
         NEW b \in Forked(n), b \in Forked(m)
  PROVE  t = u /\ n = m
<1>1. t \in Node /\ u \in Node
  BY ForkedTypes DEF Task
<1>2. n \in Node /\ m \in Node
  BY <1>1, WalkGoesOn
<1>3. n = m
  BY <1>2, WalksAssumption
<1> QED
  BY <1>3, WalksAssumption

-----------------------------------------------------------------------------
(* The inductive invariant.                                                *)

\* What n forked is behind task u.
Passed(u, n) ==
  \/ n = node[u] /\ pc[u] \notin {"idle", "queued", "top", "enter", "run"}
  \/ node[u] \in Downstream[n]

\* A task at work is one of the graph's, in its own walk.
WalksInv == \A t \in Node : pc[t] # "idle" => t \in Task /\ node[t] \in Walk[t]

\* Every branch that was started was forked at a node some task has passed.
StartedInv ==
  \A b \in Branch : pc[b] # "idle" =>
    \E u \in Node : pc[u] # "idle" /\ \E n \in Walk[u] : b \in Forked(n) /\ Passed(u, n)

\* A fork submits each of its branches once, and for the first time.
ToSubmit(t) ==
  /\ IsInjective(todo[t])
  /\ \A b \in Range(todo[t]) :
       ParallelOf[b] = ForkParallel(t) => b \in Forked(node[t]) /\ pc[b] = "idle"
  /\ pc[t] = "submit" => ParallelOf[Head(todo[t])] = ForkParallel(t)

TodoInv == \A t \in Node : pc[t] \in {"fork", "submit"} => ToSubmit(t)

\* What it has submitted are branches of the node it is at, all of one parallel.
Submitted(t) ==
  /\ pc[t] \in {"fork", "submit", "listen", "join"} => futures[t] \subseteq Forked(node[t])
  /\ \A b, c \in futures[t] : ParallelOf[b] = ParallelOf[c]
  /\ pc[t] \in {"idle", "queued"} => futures[t] = {} /\ node[t] = t

FuturesInv == \A t \in Node : Submitted(t)

\* A task that goes on has left no branch at work.
Outlived(t) ==
  \A b \in futures[t] : pc[t] \in {"top", "enter", "run", "over"} => IsOver(b)

OutlivesInv == \A t \in Node : Outlived(t)

FInv == TInv /\ WalksInv /\ StartedInv /\ TodoInv /\ FuturesInv /\ OutlivesInv

\* The parallel of a fork is decided by its edges and futures alone.
LEMMA SameForkParallel ==
  ASSUME NEW t \in Node, todo'[t] = todo[t], futures'[t] = futures[t]
  PROVE  ForkParallel(t)' = ForkParallel(t)
BY DEF ForkParallel

\* A branch stays behind who forked it while nobody goes back.
LEMMA StartedKept ==
  ASSUME FInv, \A u \in Node : pc'[u] = "idle" <=> pc[u] = "idle",
         \A u, n \in Node : Passed(u, n) => Passed(u, n)'
  PROVE  StartedInv'
<1> SUFFICES ASSUME NEW b \in Branch, pc'[b] # "idle"
             PROVE  \E u \in Node : pc'[u] # "idle" /\ \E n \in Walk[u] : b \in Forked(n) /\ Passed(u, n)'
  BY DEF StartedInv
<1>1. PICK u \in Node : pc[u] # "idle" /\ \E n \in Walk[u] : b \in Forked(n) /\ Passed(u, n)
  BY DEF FInv, StartedInv, Branch
<1>2. PICK n \in Walk[u] : b \in Forked(n) /\ Passed(u, n)
  BY <1>1
<1>3. n \in Node
  BY <1>1, <1>2, WalkGoesOn
<1> QED
  BY <1>1, <1>2, <1>3

\* A fork that another task's step does not touch still has the same to submit.
LEMMA ToSubmitKept ==
  ASSUME FInv, NEW u \in Node, ToSubmit(u), pc'[u] = pc[u], todo'[u] = todo[u],
         node'[u] = node[u], futures'[u] = futures[u],
         \A b \in Forked(node[u]) : pc[b] = "idle" /\ b \in Range(todo[u]) => pc'[b] = "idle"
  PROVE  ToSubmit(u)'
<1>1. ForkParallel(u)' = ForkParallel(u)
  BY SameForkParallel
<1>2. ASSUME NEW b \in Range(todo[u]), ParallelOf[b] = ForkParallel(u)
      PROVE  b \in Forked(node[u]) /\ pc'[b] = "idle"
  BY <1>2 DEF ToSubmit
<1> QED
  BY <1>1, <1>2 DEF ToSubmit

\* Where a task may go by itself: not into a fork, never back to its start, and to
\* a place from which it goes on only while its branches are over.
MayGo(t, p) ==
  /\ p \in Where \ {"idle", "queued", "fork", "submit"} /\ pc[t] \notin {"idle", "queued"}
  /\ p \in {"top", "enter", "run"} => pc[t] \in {"top", "enter", "run"}
  /\ p \in {"listen", "join"} => pc[t] \in {"fork", "submit", "listen", "join"}
  /\ p \in {"top", "enter", "run", "over"} => \A b \in futures[t] : IsOver(b)
  /\ IsOver(t) => p \in {"finished", "done"}

LEMMA GoesOn ==
  ASSUME FInv, TInv', NEW t \in Node, NEW p, Goes(t, p), MayGo(t, p),
         UNCHANGED <<node, futures>>, \A u \in Node : u # t => todo'[u] = todo[u]
  PROVE  FInv'
<1>1. /\ pc'[t] = p /\ p \notin {"idle", "queued", "fork", "submit"} /\ pc[t] # "idle"
      /\ \A u \in Node : u # t => pc'[u] = pc[u]
  BY DEF FInv, TInv, TypeOK, Goes, MayGo
<1>2. \A u \in Node : (pc'[u] = "idle" <=> pc[u] = "idle") /\ node'[u] = node[u]
  BY <1>1
<1>3. WalksInv'
  BY <1>2 DEF FInv, WalksInv
<1>4. \A u, n \in Node : Passed(u, n) => Passed(u, n)'
  BY <1>1 DEF Passed, MayGo
<1>5. StartedInv'
  BY <1>2, <1>4, StartedKept
<1>6. TodoInv'
  <2>1. SUFFICES ASSUME NEW u \in Node, pc'[u] \in {"fork", "submit"}
                 PROVE  ToSubmit(u)'
    BY DEF TodoInv
  <2>2. u # t /\ todo'[u] = todo[u] /\ pc'[u] = pc[u] /\ node'[u] = node[u] /\ futures'[u] = futures[u]
    BY <1>1, <1>2, <2>1
  <2>3. ToSubmit(u)
    BY <2>1, <2>2 DEF FInv, TodoInv
  <2> QED
    BY <1>2, <2>2, <2>3, ForkedInNode, ToSubmitKept
<1>7. FuturesInv'
  BY <1>1, <1>2 DEF FInv, FuturesInv, Submitted, MayGo
<1>8. \A u \in Node : IsOver(u) => IsOver(u)'
  BY <1>1 DEF IsOver, MayGo
<1>9. OutlivesInv'
  <2>1. SUFFICES ASSUME NEW u \in Node, NEW b \in futures[u],
                        pc'[u] \in {"top", "enter", "run", "over"}
                 PROVE  IsOver(b)'
    BY DEF OutlivesInv, Outlived
  <2>2. IsOver(b)
    BY <1>1, <2>1 DEF FInv, OutlivesInv, Outlived, MayGo
  <2>3. b \in Node
    BY DEF FInv, TInv, TypeOK, Branch
  <2> QED
    BY <1>8, <2>2, <2>3
<1> QED
  BY <1>3, <1>5, <1>6, <1>7, <1>9 DEF FInv

\* A task that takes the next of its edges, or decides about it, stays in its fork.
LEMMA StaysInFork ==
  ASSUME FInv, TInv', NEW t \in Node, NEW p \in {"fork", "submit"}, Goes(t, p), pc[t] = "fork",
         UNCHANGED <<node, futures>>, \A u \in Node : u # t => todo'[u] = todo[u],
         Range(todo'[t]) \subseteq Range(todo[t]), IsInjective(todo'[t]),
         ForkParallel(t)' = ForkParallel(t),
         p = "submit" => ParallelOf[Head(todo'[t])] = ForkParallel(t)
  PROVE  FInv'
<1>1. pc'[t] = p /\ \A u \in Node : u # t => pc'[u] = pc[u]
  BY DEF FInv, TInv, TypeOK, Goes
<1>2. \A u \in Node : (pc'[u] = "idle" <=> pc[u] = "idle") /\ node'[u] = node[u]
  BY <1>1
<1>3. WalksInv'
  BY <1>2 DEF FInv, WalksInv
<1>4. \A u, n \in Node : Passed(u, n) => Passed(u, n)'
  BY <1>1 DEF Passed
<1>5. StartedInv'
  BY <1>2, <1>4, StartedKept
<1>6. TodoInv'
  <2>1. SUFFICES ASSUME NEW u \in Node, pc'[u] \in {"fork", "submit"}
                 PROVE  ToSubmit(u)'
    BY DEF TodoInv
  <2>2. pc[u] \in {"fork", "submit"}
    BY <1>1, <2>1
  <2>3. ToSubmit(u)
    BY <2>2 DEF FInv, TodoInv
  <2>4. CASE u # t
    BY <1>1, <1>2, <2>3, <2>4, ForkedInNode, ToSubmitKept
  <2>5. CASE u = t
    <3>1. ASSUME NEW b \in Range(todo'[t]), ParallelOf[b] = ForkParallel(t)
          PROVE  b \in Forked(node[t]) /\ pc'[b] = "idle"
      BY <1>2, <2>3, <2>5, <3>1, ForkedInNode DEF ToSubmit
    <3> QED
      BY <1>1, <2>5, <3>1 DEF ToSubmit
  <2> QED
    BY <2>4, <2>5
<1>7. FuturesInv'
  BY <1>1, <1>2 DEF FInv, FuturesInv, Submitted
<1>8. OutlivesInv'
  BY <1>1 DEF FInv, TInv, TypeOK, OutlivesInv, Outlived, IsOver, Branch
<1> QED
  BY <1>3, <1>5, <1>6, <1>7, <1>8 DEF FInv

\* A task goes on to the next node of its walk, with its branches over.
LEMMA GoesOnto ==
  ASSUME FInv, TInv', NEW t \in Node, NEW m \in Onward(node[t]), pc[t] \in {"run", "join"},
         t = Root \/ ParallelOf[m] = ParallelOf[t],
         Goes(t, "top"), node' = [node EXCEPT ![t] = m],
         UNCHANGED <<futures, todo>>, \A b \in futures[t] : IsOver(b)
  PROVE  FInv'
<1>1. /\ pc'[t] = "top" /\ node'[t] = m
      /\ \A u \in Node : u # t => pc'[u] = pc[u] /\ node'[u] = node[u]
  BY DEF FInv, TInv, TypeOK, Goes
<1>2. \A u \in Node : pc'[u] = "idle" <=> pc[u] = "idle"
  BY <1>1
<1>3. node[t] \in Walk[t] /\ t \in Task /\ node[t] \in Node
  BY DEF FInv, WalksInv, TInv, TypeOK
<1>4. m \in Node /\ m \in Downstream[node[t]] /\ m \in Walk[t]
  BY <1>3, OnwardIsDown, WalkGoesOn
<1>5. WalksInv'
  BY <1>1, <1>2, <1>3, <1>4 DEF FInv, WalksInv
<1>6. ASSUME NEW u \in Node, NEW n \in Node, Passed(u, n)
      PROVE  Passed(u, n)'
  <2>1. CASE u # t
    BY <1>1, <1>6, <2>1 DEF Passed
  <2>2. CASE u = t /\ n = node[t]
    BY <1>1, <1>4, <2>2 DEF Passed
  <2>3. CASE u = t /\ n # node[t]
    <3>1. m \in Downstream[n]
      BY <1>4, <1>6, <2>3, DownIsTransitive DEF Passed
    <3> QED
      BY <1>1, <2>3, <3>1 DEF Passed
  <2> QED
    BY <2>1, <2>2, <2>3
<1>7. StartedInv'
  BY <1>2, <1>6, StartedKept
<1>8. TodoInv'
  <2>1. SUFFICES ASSUME NEW u \in Node, pc'[u] \in {"fork", "submit"}
                 PROVE  ToSubmit(u)'
    BY DEF TodoInv
  <2>2. u # t /\ pc'[u] = pc[u] /\ node'[u] = node[u]
    BY <1>1, <2>1
  <2>3. ToSubmit(u)
    BY <2>1, <2>2 DEF FInv, TodoInv
  <2> QED
    BY <1>2, <2>2, <2>3, ForkedInNode, ToSubmitKept
<1>9. FuturesInv'
  BY <1>1, <1>2 DEF FInv, FuturesInv, Submitted
<1>10. OutlivesInv'
  BY <1>1 DEF FInv, TInv, TypeOK, OutlivesInv, Outlived, IsOver, Branch
<1> QED
  BY <1>5, <1>7, <1>8, <1>9, <1>10 DEF FInv

\* Where a task is at a node it has yet to end, what the node may fork is idle.
LEMMA FreshBranches ==
  ASSUME FInv, NEW t \in Node, pc[t] = "run", NEW b \in Forked(node[t])
  PROVE  pc[b] = "idle"
<1>1. SUFFICES ASSUME pc[b] # "idle" PROVE FALSE
  OBVIOUS
<1>2. PICK u \in Node : pc[u] # "idle" /\ \E n \in Walk[u] : b \in Forked(n) /\ Passed(u, n)
  BY <1>1, ForkedInNode DEF FInv, StartedInv
<1>3. PICK n \in Walk[u] : b \in Forked(n) /\ Passed(u, n)
  BY <1>2
<1>4. u \in Task /\ t \in Task /\ node[t] \in Walk[t]
  BY <1>2 DEF FInv, WalksInv
<1>5. u = t /\ n = node[t]
  BY <1>3, <1>4, OneForker
<1>6. node[t] \in Node /\ node[t] \notin Downstream[node[t]]
  BY AcyclicAssumption DEF FInv, TInv, TypeOK
<1> QED
  BY <1>3, <1>5, <1>6 DEF Passed

\* A node's end may set up a fork.
LEMMA SetsUpFork ==
  ASSUME FInv, TInv', NEW t \in Node, NEW edges \in UNION Range(Routes[node[t]]), pc[t] = "run",
         Len(edges) > 1, ParallelOf[edges[1]] # NoParallel, Goes(t, "fork"), UNCHANGED node,
         todo' = [todo EXCEPT ![t] = edges], futures' = [futures EXCEPT ![t] = {}]
  PROVE  FInv'
<1>1. /\ pc'[t] = "fork" /\ todo'[t] = edges /\ futures'[t] = {}
      /\ \A u \in Node : u # t => /\ pc'[u] = pc[u] /\ todo'[u] = todo[u]
                                  /\ futures'[u] = futures[u]
  BY DEF FInv, TInv, TypeOK, Goes
<1>2. \A u \in Node : (pc'[u] = "idle" <=> pc[u] = "idle") /\ node'[u] = node[u]
  BY <1>1
<1>3. WalksInv'
  BY <1>2 DEF FInv, WalksInv
<1>4. \A u, n \in Node : Passed(u, n) => Passed(u, n)'
  BY <1>1 DEF Passed
<1>5. StartedInv'
  BY <1>2, <1>4, StartedKept
<1>6. ToSubmit(t)'
  <2>1. node[t] \in Node
    BY DEF FInv, TInv, TypeOK
  <2>2. edges \in Seq(Branch)
    BY <2>1, RoutesAssumption DEF Range
  <2>3. IsInjective(edges)
    BY <2>1, WalksAssumption
  <2>4. Head(edges) = edges[1]
    BY <2>2
  <2>5. ForkParallel(t)' = ParallelOf[edges[1]]
    BY <1>1, <2>4 DEF ForkParallel
  <2>6. ASSUME NEW b \in Range(edges), ParallelOf[b] = ParallelOf[edges[1]]
        PROVE  b \in Forked(node[t]) /\ pc'[b] = "idle"
    <3>1. b \in Branch
      BY <2>2, LenProperties, ElementOfSeq DEF Range
    <3>2. b \in Forked(node[t])
      BY <2>6, <3>1 DEF Forked
    <3> QED
      BY <1>2, <3>2, FreshBranches, ForkedInNode
  <2> QED
    BY <1>1, <2>3, <2>5, <2>6 DEF ToSubmit
<1>7. TodoInv'
  <2>1. SUFFICES ASSUME NEW u \in Node, u # t, pc'[u] \in {"fork", "submit"}
                 PROVE  ToSubmit(u)'
    BY <1>6 DEF TodoInv
  <2>2. ToSubmit(u)
    BY <1>1, <2>1 DEF FInv, TodoInv
  <2> QED
    BY <1>1, <1>2, <2>1, <2>2, ForkedInNode, ToSubmitKept
<1>8. FuturesInv'
  BY <1>1, <1>2 DEF FInv, FuturesInv, Submitted
<1>9. OutlivesInv'
  BY <1>1 DEF FInv, TInv, TypeOK, OutlivesInv, Outlived, IsOver, Branch
<1> QED
  BY <1>3, <1>5, <1>7, <1>8, <1>9 DEF FInv

\* A submission starts a branch that no task has started.
LEMMA SubmitsForks ==
  ASSUME FInv, TInv', NEW t \in Node, Submits(t)
  PROVE  /\ FInv'
         /\ \E b \in Branch : /\ b # t /\ pc[b] = "idle" /\ pc'[b] = "queued"
                              /\ pc[t] = "submit" /\ pc'[t] \in {"fork", "listen"}
                              /\ \A u \in Node \ {t, b} : pc'[u] = pc[u]
                              /\ pool' = Append(pool, b)
<1> DEFINE b == Head(todo[t])
<1>1. /\ pc[t] = "submit" /\ todo[t] \in Seq(Branch) /\ todo[t] # <<>> /\ ToSubmit(t)
      /\ ParallelOf[b] = ForkParallel(t)
  BY DEF FInv, TInv, TypeOK, ForksWellFormed, TodoInv, ToSubmit, Submits, At
<1>2. /\ IsInjective(Tail(todo[t])) /\ b \in Range(todo[t])
      /\ Range(Tail(todo[t])) = Range(todo[t]) \ {b}
  BY <1>1, TailOnce DEF ToSubmit
<1>3. b \in Forked(node[t]) /\ pc[b] = "idle" /\ b \in Branch /\ b \in Node /\ b # t
  BY <1>1, <1>2, ForkedInNode DEF ToSubmit
<1>4. /\ pc'[b] = "queued" /\ pc'[t] \in {"fork", "listen"}
      /\ \A u \in Node \ {t, b} : pc'[u] = pc[u]
      /\ node' = node /\ todo'[t] = Tail(todo[t]) /\ futures'[t] = futures[t] \cup {b}
      /\ \A u \in Node \ {t} : todo'[u] = todo[u] /\ futures'[u] = futures[u]
      /\ pool' = Append(pool, b)
  BY <1>3 DEF FInv, TInv, TypeOK, Submits, NextEdge
<1> HIDE DEF b
<1>5. t \in Task /\ node[t] \in Walk[t] /\ node[t] \in Node
  BY <1>1 DEF FInv, WalksInv, TInv, TypeOK
<1>6. futures[b] = {} /\ node[b] = b
  BY <1>3 DEF FInv, FuturesInv, Submitted
<1>7. WalksInv'
  <2>1. b \in Task /\ b \in Walk[b]
    BY <1>3, <1>5, WalkGoesOn DEF Task
  <2> QED
    BY <1>4, <1>5, <1>6, <2>1 DEF FInv, WalksInv
<1>8. \A u, n \in Node : Passed(u, n) => Passed(u, n)'
  BY <1>1, <1>3, <1>4 DEF Passed
<1>9. StartedInv'
  <2>1. SUFFICES ASSUME NEW c \in Branch, pc'[c] # "idle"
                 PROVE  \E u \in Node : pc'[u] # "idle" /\ \E n \in Walk[u] : c \in Forked(n) /\ Passed(u, n)'
    BY DEF StartedInv
  <2>2. CASE c = b
    <3>1. PICK n \in Walk[t] : n = node[t]
      BY <1>5
    <3>2. pc'[t] # "idle" /\ Passed(t, n)'
      BY <1>4, <3>1 DEF Passed
    <3> QED
      BY <1>3, <2>2, <3>1, <3>2
  <2>3. CASE c # b
    <3>1. pc[c] # "idle"
      BY <1>1, <1>4, <2>1, <2>3 DEF Branch
    <3>2. PICK u \in Node : pc[u] # "idle" /\ \E n \in Walk[u] : c \in Forked(n) /\ Passed(u, n)
      BY <3>1 DEF FInv, StartedInv
    <3>3. PICK n \in Walk[u] : c \in Forked(n) /\ Passed(u, n)
      BY <3>2
    <3>4. n \in Node /\ pc'[u] # "idle"
      BY <1>4, <3>2, <3>3, WalkGoesOn
    <3> QED
      BY <1>8, <3>3, <3>4
  <2> QED
    BY <2>2, <2>3
<1>10. ASSUME NEW c \in futures[t]
       PROVE  ParallelOf[c] = ParallelOf[b]
  <2>1. (CHOOSE d \in futures[t] : TRUE) \in futures[t]
    BY <1>10
  <2> QED
    BY <1>1, <1>10, <2>1 DEF ForkParallel, FInv, FuturesInv, Submitted
<1>11. ForkParallel(t)' = ParallelOf[b]
  <2>1. (CHOOSE d \in futures'[t] : TRUE) \in futures'[t] /\ futures'[t] # {}
    BY <1>4
  <2> QED
    BY <1>4, <1>10, <2>1 DEF ForkParallel
<1>12. ToSubmit(t)'
  <2>1. ASSUME NEW c \in Range(Tail(todo[t])), ParallelOf[c] = ParallelOf[b]
        PROVE  c \in Forked(node[t]) /\ pc'[c] = "idle"
    <3>1. c \in Forked(node[t]) /\ pc[c] = "idle" /\ c # b /\ c # t /\ c \in Node
      BY <1>1, <1>2, <2>1, ForkedInNode DEF ToSubmit
    <3> QED
      BY <1>4, <3>1
  <2> QED
    BY <1>2, <1>4, <1>11, <2>1 DEF ToSubmit
<1>13. TodoInv'
  <2>1. SUFFICES ASSUME NEW u \in Node, u # t, pc'[u] \in {"fork", "submit"}
                 PROVE  ToSubmit(u)'
    BY <1>12 DEF TodoInv
  <2>2. u # b /\ pc'[u] = pc[u] /\ ToSubmit(u) /\ u \in Task /\ node[u] \in Walk[u]
    BY <1>4, <2>1 DEF FInv, TodoInv, WalksInv
  <2>3. ASSUME NEW c \in Forked(node[u]), pc[c] = "idle"
        PROVE  pc'[c] = "idle"
    BY <1>1, <1>3, <1>4, <1>5, <2>1, <2>2, <2>3, OneForker, ForkedInNode
  <2> QED
    BY <1>4, <2>1, <2>2, <2>3, ToSubmitKept
<1>14. FuturesInv'
  <2>1. Submitted(t)'
    <3>1. futures'[t] \subseteq Forked(node[t])
      BY <1>1, <1>3, <1>4 DEF FInv, FuturesInv, Submitted
    <3>2. \A c, d \in futures'[t] : ParallelOf[c] = ParallelOf[d]
      BY <1>4, <1>10
    <3> QED
      BY <1>4, <3>1, <3>2 DEF Submitted
  <2>2. ASSUME NEW u \in Node \ {t}
        PROVE  Submitted(u)'
    BY <1>4, <1>6, <2>2 DEF FInv, FuturesInv, Submitted
  <2> QED
    BY <2>1, <2>2 DEF FuturesInv
<1>15. OutlivesInv'
  <2>1. SUFFICES ASSUME NEW u \in Node, NEW c \in futures'[u],
                        pc'[u] \in {"top", "enter", "run", "over"}
                 PROVE  IsOver(c)'
    BY DEF OutlivesInv, Outlived
  <2>2. u # t /\ u # b /\ pc'[u] = pc[u] /\ futures'[u] = futures[u]
    BY <1>4, <2>1
  <2>3. IsOver(c) /\ c \in Node
    BY <2>1, <2>2 DEF FInv, OutlivesInv, Outlived, TInv, TypeOK, Branch
  <2>4. c # t /\ c # b
    BY <1>1, <1>3, <2>3 DEF IsOver
  <2> QED
    BY <1>4, <2>3, <2>4 DEF IsOver
<1>16. FInv'
  BY <1>7, <1>9, <1>13, <1>14, <1>15 DEF FInv
<1> QED
  BY <1>1, <1>3, <1>4, <1>16

\* The pool starts the walk of a branch that waited.
LEMMA TakesForks ==
  ASSUME FInv, TInv', NEW b \in Node, pc[b] = "queued", Goes(b, "top"),
         UNCHANGED <<node, todo, futures>>
  PROVE  FInv'
<1>1. /\ pc'[b] = "top" /\ futures[b] = {}
      /\ \A u \in Node : u # b => pc'[u] = pc[u]
  BY DEF FInv, TInv, TypeOK, Goes, FuturesInv, Submitted
<1>2. \A u \in Node : (pc'[u] = "idle" <=> pc[u] = "idle") /\ node'[u] = node[u]
  BY <1>1
<1>3. WalksInv'
  BY <1>2 DEF FInv, WalksInv
<1>4. \A u, n \in Node : Passed(u, n) => Passed(u, n)'
  BY <1>1 DEF Passed
<1>5. StartedInv'
  BY <1>2, <1>4, StartedKept
<1>6. TodoInv'
  <2>1. SUFFICES ASSUME NEW u \in Node, pc'[u] \in {"fork", "submit"}
                 PROVE  ToSubmit(u)'
    BY DEF TodoInv
  <2>2. u # b /\ pc'[u] = pc[u] /\ ToSubmit(u)
    BY <1>1, <2>1 DEF FInv, TodoInv
  <2> QED
    BY <1>2, <2>2, ForkedInNode, ToSubmitKept
<1>7. FuturesInv'
  BY <1>1, <1>2 DEF FInv, FuturesInv, Submitted
<1>8. OutlivesInv'
  BY <1>1 DEF FInv, TInv, TypeOK, OutlivesInv, Outlived, IsOver, Branch
<1> QED
  BY <1>3, <1>5, <1>6, <1>7, <1>8 DEF FInv

\* A step that leaves the tasks where they are leaves the forks as they are.
LEMMA NothingMoves ==
  ASSUME FInv, TInv', UNCHANGED <<pc, node, todo, futures>>
  PROVE  FInv'
<1>1. WalksInv' /\ FuturesInv' /\ OutlivesInv'
  BY DEF FInv, WalksInv, FuturesInv, Submitted, OutlivesInv, Outlived, IsOver
<1>2. \A u, n \in Node : Passed(u, n) => Passed(u, n)'
  BY DEF Passed
<1>3. StartedInv'
  BY <1>2, StartedKept
<1>4. TodoInv'
  BY ForkedInNode, ToSubmitKept DEF FInv, TodoInv
<1> QED
  BY <1>1, <1>3, <1>4 DEF FInv

-----------------------------------------------------------------------------
(* The steps.                                                              *)

\* The pool's queue holds branches that wait, each once.
PoolInv == IsInjective(pool) /\ \A b \in Range(pool) : pc[b] = "queued"

\* The root is no branch, and its consumer does not look at it amid a submission.
RootInv ==
  /\ pc[Root] \notin {"idle", "queued", "ending", "finished"}
  /\ pc[Root] = "submit" => out = None

ForkInv == FInv /\ PoolInv /\ RootInv

\* A task's end of a node, or of a fork, leads it out of the graph's sight, to a
\* node of its walk, or into a fork.
LEMMA StepsTo ==
  ASSUME FInv, TInv', NEW t \in Node, NEW m \in Onward(node[t]), pc[t] \in {"run", "join"},
         StepTo(t, m), UNCHANGED <<todo, futures>>, \A b \in futures[t] : IsOver(b)
  PROVE  FInv'
<1>1. CASE LeavesParallel(t, m)
  <2>1. Goes(t, "over") /\ UNCHANGED node
    BY <1>1 DEF StepTo
  <2>2. MayGo(t, "over")
    BY DEF MayGo, Where, IsOver
  <2> QED
    BY <2>1, <2>2, GoesOn
<1>2. CASE ~LeavesParallel(t, m)
  BY <1>2, GoesOnto DEF StepTo, LeavesParallel
<1> QED
  BY <1>1, <1>2

LEMMA EndsNodeForks ==
  ASSUME FInv, TInv', NEW t \in Node, NEW o \in Outcome, EndsNode(t, o)
  PROVE  FInv'
<1>1. /\ pc[t] = "run" /\ o \in DOMAIN Routes[node[t]] /\ node[t] \in Node
      /\ \A b \in futures[t] : IsOver(b)
  BY DEF EndsNode, At, FInv, TInv, TypeOK, OutlivesInv, Outlived
<1>2. \A p \in {"raise", "over"} : MayGo(t, p)
  BY <1>1 DEF MayGo, Where, IsOver
<1>3. ASSUME NEW p \in {"raise", "over"}, Goes(t, p), UNCHANGED <<node, todo, futures>>
      PROVE  FInv'
  BY <1>2, <1>3, GoesOn
<1>4. CASE o = "raised"
  BY <1>3, <1>4 DEF EndsNode
<1>5. CASE o # "raised"
  <2>1. PICK edges \in Routes[node[t]][o] : Follows(t, edges)
    BY <1>5 DEF EndsNode
  <2>2. edges \in UNION Range(Routes[node[t]]) /\ edges \in Seq(Branch)
    BY <1>1, RoutesAssumption DEF Range
  <2>3. CASE edges = <<>> /\ Goes(t, "over") /\ UNCHANGED <<node, todo, futures, okay>>
    BY <1>3, <2>3
  <2>4. CASE Len(edges) = 1 /\ StepTo(t, edges[1]) /\ UNCHANGED <<todo, futures, okay>>
    <3>1. edges[1] \in Branch
      <4>1. 1 \in 1..Len(edges)
        BY <2>4
      <4> QED
        BY <2>2, <4>1, ElementOfSeq
    <3>2. edges[1] \in Onward(node[t])
      BY <2>2, <2>4, <3>1 DEF Onward, Branch
    <3> QED
      BY <1>1, <2>4, <3>2, StepsTo
  <2>5. CASE Goes(t, "raise") /\ UNCHANGED <<node, todo, futures, okay>>
    BY <1>3, <2>5
  <2>6. CASE /\ Len(edges) > 1 /\ ParallelOf[edges[1]] # NoParallel
             /\ Goes(t, "fork") /\ UNCHANGED node
             /\ todo' = [todo EXCEPT ![t] = edges]
             /\ futures' = [futures EXCEPT ![t] = {}] /\ okay' = [okay EXCEPT ![t] = 0]
    BY <1>1, <2>2, <2>6, SetsUpFork
  <2> QED
    BY <2>1, <2>3, <2>4, <2>5, <2>6 DEF Follows
<1> QED
  BY <1>4, <1>5

LEMMA WalksForks ==
  ASSUME FInv, TInv', NEW t \in Node, Walks(t)
  PROVE  FInv'
<1>1. CASE ChecksLimits(t)
  <2>1. PICK p \in {"raise", "enter"} : Goes(t, p)
    BY <1>1 DEF ChecksLimits
  <2>2. MayGo(t, p)
    BY <1>1 DEF MayGo, Where, IsOver, ChecksLimits, At, FInv, OutlivesInv, Outlived
  <2>3. UNCHANGED <<node, todo, futures>>
    BY <1>1 DEF ChecksLimits, forkVars
  <2> QED
    BY <2>1, <2>2, <2>3, GoesOn
<1>2. CASE StartsNode(t) \/ FailsUnstarted(t)
  <2>1. PICK p \in {"raise", "run"} : Goes(t, p)
    BY <1>2 DEF StartsNode, FailsUnstarted
  <2>2. MayGo(t, p)
    BY <1>2 DEF MayGo, Where, IsOver, StartsNode, FailsUnstarted, At, FInv, OutlivesInv, Outlived
  <2>3. UNCHANGED <<node, todo, futures>>
    BY <1>2 DEF StartsNode, FailsUnstarted, forkVars
  <2> QED
    BY <2>1, <2>2, <2>3, GoesOn
<1> QED
  BY <1>1, <1>2, EndsNodeForks DEF Walks

LEMMA SkipsForks ==
  ASSUME FInv, TInv', NEW t \in Node, Skips(t)
  PROVE  FInv'
<1>1. /\ pc[t] = "fork" /\ todo[t] \in Seq(Branch) /\ todo[t] # <<>> /\ ToSubmit(t)
      /\ ParallelOf[Head(todo[t])] # ForkParallel(t)
  BY DEF FInv, TInv, TypeOK, ForksWellFormed, TodoInv, Skips, At
<1>2. futures[t] # {}
  BY <1>1 DEF ForkParallel
<1>3. IsInjective(Tail(todo[t])) /\ Range(Tail(todo[t])) \subseteq Range(todo[t])
  BY <1>1, TailOnce DEF ToSubmit
<1>4. /\ todo'[t] = Tail(todo[t]) /\ UNCHANGED <<node, futures>>
      /\ \A u \in Node : u # t => todo'[u] = todo[u]
  BY DEF Skips, FInv, TInv, TypeOK
<1>5. ForkParallel(t)' = ForkParallel(t)
  BY <1>2, <1>4 DEF ForkParallel
<1>6. CASE Goes(t, "listen")
  <2>1. MayGo(t, "listen")
    BY <1>1 DEF MayGo, Where, IsOver
  <2> QED
    BY <1>4, <1>6, <2>1, GoesOn
<1>7. CASE Goes(t, "fork")
  BY <1>1, <1>3, <1>4, <1>5, <1>7, StaysInFork
<1> QED
  BY <1>6, <1>7 DEF Skips, NextEdge

LEMMA ForksForks ==
  ASSUME FInv, TInv', NEW t \in Node, Forks(t)
  PROVE  FInv'
<1>1. CASE CountsSubmit(t)
  <2>1. /\ pc[t] = "fork" /\ Goes(t, "submit") /\ UNCHANGED <<node, todo, futures>>
        /\ ParallelOf[Head(todo[t])] = ForkParallel(t)
    BY <1>1 DEF CountsSubmit, At, forkVars
  <2>2. ToSubmit(t) /\ ForkParallel(t)' = ForkParallel(t)
    BY <2>1, SameForkParallel DEF FInv, TodoInv
  <2> QED
    BY <2>1, <2>2, StaysInFork DEF ToSubmit
<1>2. CASE Refused(t)
  <2>1. MayGo(t, "raise")
    BY <1>2 DEF MayGo, Where, IsOver, Refused, At
  <2> QED
    BY <1>2, <2>1, GoesOn DEF Refused
<1>3. CASE Listens(t)
  <2>1. MayGo(t, "raise") /\ UNCHANGED <<node, todo, futures>> /\ (Goes(t, "raise") \/ pc' = pc)
    BY <1>3 DEF MayGo, Where, IsOver, Listens, At
  <2> QED
    BY <2>1, GoesOn, NothingMoves
<1>4. CASE StopsListening(t)
  <2>1. MayGo(t, "join") /\ Goes(t, "join") /\ UNCHANGED <<node, todo, futures>>
    BY <1>4 DEF MayGo, Where, IsOver, StopsListening, At, forkVars
  <2> QED
    BY <2>1, GoesOn
<1>5. CASE Joins(t)
  <2> DEFINE n == EndTo[ForkParallel(t)]
  <2>1. /\ pc[t] = "join" /\ UNCHANGED <<todo, futures>> /\ \A b \in futures[t] : IsOver(b)
        /\ IF n = NoNode THEN Goes(t, "over") /\ UNCHANGED node ELSE StepTo(t, n)
    BY <1>5 DEF Joins, At, forkVars
  <2>2. CASE n = NoNode
    <3>1. MayGo(t, "over")
      BY <2>1 DEF MayGo, Where, IsOver
    <3> QED
      BY <2>1, <2>2, <3>1, GoesOn
  <2>3. CASE n # NoNode
    <3>1. futures[t] # {} /\ futures[t] \subseteq Forked(node[t])
      BY <2>1 DEF FInv, TInv, ForksWellFormed, FuturesInv, Submitted
    <3>2. PICK b \in futures[t] : ForkParallel(t) = ParallelOf[b]
      BY <3>1 DEF ForkParallel
    <3>3. ParallelOf[b] \in Parallel
      BY <3>1, ForkedTypes DEF FInv, TInv, TypeOK
    <3>4. n \in Node
      BY <2>3, <3>2, <3>3
    <3>5. n \in Onward(node[t])
      BY <3>1, <3>2, <3>4 DEF Onward
    <3> QED
      BY <2>1, <2>3, <3>5, StepsTo
  <2> QED
    BY <2>2, <2>3
<1> QED
  BY <1>1, <1>2, <1>3, <1>4, <1>5, SkipsForks, SubmitsForks DEF Forks

LEMMA EndsForks ==
  ASSUME FInv, TInv', NEW t \in Node, Ends(t)
  PROVE  FInv'
<1>1. PICK p \in {"ending", "finished", "done"} : Goes(t, p)
  BY DEF Ends, EndsBranch, SetsFuture, CallsBack
<1>2. MayGo(t, p) /\ UNCHANGED <<node, todo, futures>>
  <2>1. pc' = [pc EXCEPT ![t] = p] /\ pc \in [Node -> Where]
    BY <1>1 DEF Goes, FInv, TInv, TypeOK
  <2>2. pc'[t] = p
    BY <2>1
  <2>3. CASE EndsBranch(t)
    BY <2>1, <2>2, <2>3 DEF EndsBranch, Goes, MayGo, Where, IsOver, forkVars
  <2>4. CASE SetsFuture(t)
    BY <2>1, <2>2, <2>4 DEF SetsFuture, Goes, MayGo, Where, IsOver, forkVars
  <2>5. CASE CallsBack(t)
    BY <2>1, <2>2, <2>5 DEF CallsBack, Goes, MayGo, Where, IsOver, forkVars
  <2> QED
    BY <2>3, <2>4, <2>5 DEF Ends
<1> QED
  BY <1>1, <1>2, GoesOn

\* The root ends, or is paused, where its consumer finds it.
LEMMA RunForks ==
  ASSUME FInv, RootInv, TInv', EndsRun \/ Resumes \/ Closes \/ TimePasses \/ UNCHANGED vars
  PROVE  FInv'
<1>1. UNCHANGED <<node, todo, futures>> /\ (Goes(Root, "done") \/ pc' = pc)
  BY DEF EndsRun, Resumes, Closes, TimePasses, forkVars, vars
<1>2. MayGo(Root, "done")
  BY DEF MayGo, Where, RootInv
<1> QED
  BY <1>1, <1>2, GoesOn, NothingMoves

\* Every step but a submission and the pool's leaves the pool alone, and moves one
\* task at most, which was neither idle nor queued and does not become so.
LEMMA StepMoves ==
  ASSUME ForkInv, [Next]_vars
  PROVE  \/ \E t \in Node : Submits(t)
         \/ \E b \in Branch : TakesBranch(b)
         \/ /\ pool' = pool
            /\ \/ pc' = pc
               \/ \E t \in Node, p \in Where \ {"idle", "queued"} :
                    Goes(t, p) /\ pc[t] \notin {"idle", "queued"}
<1> DEFINE Moved(t) == \E p \in Where \ {"idle", "queued"} :
                         Goes(t, p) /\ pc[t] \notin {"idle", "queued"}
<1>1. ASSUME NEW t \in Node, Walks(t)
      PROVE  pool' = pool /\ Moved(t)
  <2>1. pool' = pool /\ pc[t] \notin {"idle", "queued"}
    BY <1>1 DEF Walks, ChecksLimits, StartsNode, FailsUnstarted, EndsNode, At, forkVars
  <2>2. \E p \in {"raise", "enter", "run", "over", "top", "fork"} : Goes(t, p)
    BY <1>1 DEF Walks, ChecksLimits, StartsNode, FailsUnstarted, EndsNode, Follows, StepTo
  <2> QED
    BY <2>1, <2>2 DEF Where
<1>2. ASSUME NEW t \in Node, Forks(t), ~Submits(t)
      PROVE  pool' = pool /\ (pc' = pc \/ Moved(t))
  <2>1. pool' = pool /\ pc[t] \notin {"idle", "queued"}
    BY <1>2 DEF Forks, Skips, CountsSubmit, Refused, Listens, StopsListening, Joins, At, forkVars
  <2>2. pc' = pc \/ \E p \in {"raise", "submit", "over", "top", "fork", "listen", "join"} : Goes(t, p)
    BY <1>2 DEF Forks, Skips, CountsSubmit, Refused, Listens, StopsListening, Joins, StepTo, NextEdge
  <2> QED
    BY <2>1, <2>2 DEF Where
<1>3. ASSUME NEW t \in Node, Ends(t)
      PROVE  pool' = pool /\ Moved(t)
  <2>1. pool' = pool /\ pc[t] \notin {"idle", "queued"}
    BY <1>3 DEF Ends, EndsBranch, SetsFuture, CallsBack, forkVars
  <2>2. \E p \in {"ending", "finished", "done"} : Goes(t, p)
    BY <1>3 DEF Ends, EndsBranch, SetsFuture, CallsBack
  <2> QED
    BY <2>1, <2>2 DEF Where
<1>4. CASE EndsRun \/ Resumes \/ Closes \/ TimePasses \/ UNCHANGED vars
  <2>1. pool' = pool /\ (pc' = pc \/ Goes(Root, "done"))
    BY <1>4 DEF EndsRun, Resumes, Closes, TimePasses, forkVars, vars
  <2>2. Goes(Root, "done") => Moved(Root)
    BY DEF Where, ForkInv, RootInv
  <2> QED
    BY <2>1, <2>2
<1> HIDE DEF Moved
<1>5. CASE \E t \in Node : Walks(t) \/ Forks(t) \/ Ends(t)
  <2>1. PICK t \in Node : Walks(t) \/ Forks(t) \/ Ends(t)
    BY <1>5
  <2>2. Submits(t) \/ (pool' = pool /\ (pc' = pc \/ Moved(t)))
    BY <1>1, <1>2, <1>3, <2>1
  <2> QED
    BY <2>2 DEF Moved
<1> QED
  BY <1>4, <1>5 DEF Next, Over

LEMMA StepPool ==
  ASSUME ForkInv, FInv', [Next]_vars
  PROVE  PoolInv'
<1>1. /\ PoolInv /\ pool \in Seq(Branch) /\ pc \in [Node -> Where]
      /\ \A b \in Range(pool) : b \in Node
  <2>1. pool \in Seq(Branch) /\ DOMAIN pool = 1..Len(pool)
    BY LenProperties DEF ForkInv, FInv, TInv, TypeOK
  <2>2. \A b \in Range(pool) : b \in Branch
    BY <2>1, ElementOfSeq DEF Range
  <2> QED
    BY <2>1, <2>2 DEF ForkInv, FInv, TInv, TypeOK, Branch
<1>2. ASSUME NEW t \in Node, Submits(t)
      PROVE  PoolInv'
  <2>1. PICK b \in Branch : /\ b # t /\ pc[b] = "idle" /\ pc'[b] = "queued"
                            /\ pc[t] = "submit" /\ pc'[t] \in {"fork", "listen"}
                            /\ \A u \in Node \ {t, b} : pc'[u] = pc[u]
                            /\ pool' = Append(pool, b)
    BY <1>2, SubmitsForks DEF ForkInv, FInv
  <2>2. b \notin Range(pool) /\ t \notin Range(pool)
    BY <1>1, <2>1 DEF PoolInv
  <2>3. IsInjective(pool') /\ Range(pool') = Range(pool) \cup {b}
    BY <1>1, <2>1, <2>2, AppendOnce DEF PoolInv
  <2> QED
    BY <1>1, <2>1, <2>2, <2>3 DEF PoolInv
<1>3. ASSUME NEW b \in Branch, TakesBranch(b)
      PROVE  PoolInv'
  <2>1. pool # <<>> /\ b = Head(pool) /\ pool' = Tail(pool) /\ Goes(b, "top")
    BY <1>3 DEF TakesBranch
  <2>2. IsInjective(pool') /\ Range(pool') = Range(pool) \ {b}
    BY <1>1, <2>1, TailOnce DEF PoolInv
  <2> QED
    BY <1>1, <2>1, <2>2 DEF PoolInv, Goes
<1>4. CASE pool' = pool /\ pc' = pc
  BY <1>1, <1>4 DEF PoolInv
<1>5. ASSUME pool' = pool, NEW t \in Node, NEW p \in Where, Goes(t, p), pc[t] # "queued"
      PROVE  PoolInv'
  BY <1>1, <1>5 DEF PoolInv, Goes
<1> QED
  BY <1>2, <1>3, <1>4, <1>5, StepMoves

\* The pool only takes who waits.
LEMMA TakenWaited ==
  ASSUME ForkInv, NEW b \in Branch, TakesBranch(b)
  PROVE  pc[b] = "queued"
<1>1. pool \in Seq(Branch) /\ pool # <<>> /\ b = Head(pool) /\ PoolInv
  BY DEF ForkInv, FInv, TInv, TypeOK, TakesBranch
<1> QED
  BY <1>1, TailOnce DEF PoolInv

LEMMA StepForks ==
  ASSUME ForkInv, [Next]_vars
  PROVE  FInv'
<1>1. FInv /\ RootInv /\ TInv'
  BY StepType DEF ForkInv, FInv
<1>2. ASSUME NEW b \in Branch, TakesBranch(b)
      PROVE  FInv'
  BY <1>1, <1>2, TakenWaited, TakesForks DEF TakesBranch, Branch
<1> QED
  BY <1>1, <1>2, WalksForks, ForksForks, EndsForks, RunForks DEF Next, Over

LEMMA StepRoot ==
  ASSUME ForkInv, FInv', [Next]_vars
  PROVE  RootInv'
<1>1. pc \in [Node -> Where] /\ RootInv
  BY DEF ForkInv, FInv, TInv, TypeOK
<1>2. ASSUME NEW t \in Node, t # Root, Walks(t) \/ (Forks(t) /\ ~Submits(t)) \/ Ends(t)
      PROVE  pc'[Root] = pc[Root] /\ out' = out
  <2>1. out' = out
    BY <1>2 DEF Walks, ChecksLimits, StartsNode, FailsUnstarted, EndsNode, Forks, Skips,
       CountsSubmit, Refused, Listens, StopsListening, Joins, Ends, EndsBranch, SetsFuture,
       CallsBack, Yields
  <2>2. pc' = pc \/ \E p \in Where : Goes(t, p)
    BY <1>2 DEF Walks, ChecksLimits, StartsNode, FailsUnstarted, EndsNode, Follows, StepTo,
       Forks, Skips, CountsSubmit, Refused, Listens, StopsListening, Joins, NextEdge, Ends,
       EndsBranch, SetsFuture, CallsBack, Where
  <2> QED
    BY <1>1, <1>2, <2>1, <2>2 DEF Goes
<1>3. ASSUME Walks(Root) \/ (Forks(Root) /\ ~Submits(Root))
      PROVE  RootInv'
  <2>1. CASE CountsSubmit(Root)
    BY <1>1, <2>1 DEF CountsSubmit, At, Goes, RootInv
  <2>2. CASE ~CountsSubmit(Root)
    <3>1. \/ pc' = pc /\ pc[Root] = "listen"
          \/ \E p \in Where \ {"idle", "queued", "ending", "finished", "submit"} : Goes(Root, p)
      BY <1>3, <2>2 DEF Walks, ChecksLimits, StartsNode, FailsUnstarted, EndsNode, Follows, StepTo,
         Forks, Skips, Refused, Listens, StopsListening, Joins, NextEdge, At, Where
    <3> QED
      BY <1>1, <3>1 DEF Goes, RootInv
  <2> QED
    BY <2>1, <2>2
<1>4. ~Ends(Root)
  BY DEF Ends, EndsBranch, SetsFuture, CallsBack, ForkInv, RootInv
<1>5. ASSUME NEW t \in Node, Submits(t)
      PROVE  RootInv'
  <2>1. PICK b \in Branch : /\ b # t /\ pc[b] = "idle" /\ pc'[b] = "queued"
                            /\ pc[t] = "submit" /\ pc'[t] \in {"fork", "listen"}
                            /\ \A u \in Node \ {t, b} : pc'[u] = pc[u]
                            /\ pool' = Append(pool, b)
    BY <1>5, SubmitsForks DEF ForkInv, FInv
  <2>2. out' = out /\ Root # b
    BY <1>5 DEF Submits, Branch
  <2> QED
    BY <1>1, <2>1, <2>2 DEF RootInv
<1>6. ASSUME NEW b \in Branch, TakesBranch(b)
      PROVE  RootInv'
  BY <1>1, <1>6 DEF TakesBranch, Goes, RootInv, Branch
<1>7. CASE EndsRun \/ Resumes \/ Closes \/ TimePasses \/ UNCHANGED vars
  <2>1. (pc' = pc /\ (out' = out \/ out' = None)) \/ Goes(Root, "done")
    BY <1>7 DEF EndsRun, Resumes, Closes, TimePasses, vars
  <2> QED
    BY <1>1, <2>1 DEF Goes, RootInv
<1>8. ASSUME NEW t \in Node, Walks(t) \/ Forks(t) \/ Ends(t)
      PROVE  RootInv'
  <2>1. CASE t = Root
    BY <1>3, <1>4, <1>5, <1>8, <2>1
  <2>2. CASE t # Root
    BY <1>1, <1>2, <1>5, <1>8, <2>2 DEF RootInv
  <2> QED
    BY <2>1, <2>2
<1> QED
  BY <1>6, <1>7, <1>8 DEF Next, Over

LEMMA InitForks == Init => ForkInv
<1> SUFFICES ASSUME Init PROVE ForkInv
  OBVIOUS
<1>1. /\ TInv /\ pc[Root] = "top" /\ node[Root] = Root
      /\ \A t \in Node : /\ t # Root => pc[t] = "idle"
                         /\ futures[t] = {} /\ node[t] = t
      /\ pool = <<>>
  BY InitType DEF Init
<1>2. WalksInv
  BY <1>1, WalkGoesOn DEF WalksInv, Task
<1>3. StartedInv /\ TodoInv
  BY <1>1 DEF StartedInv, TodoInv, Branch
<1>4. FuturesInv /\ OutlivesInv
  BY <1>1 DEF FuturesInv, Submitted, OutlivesInv, Outlived
<1>5. PoolInv
  <2>1. DOMAIN pool = {}
    BY <1>1
  <2> QED
    BY <2>1 DEF PoolInv, IsInjective, Range
<1>6. RootInv
  BY <1>1 DEF RootInv
<1> QED
  BY <1>1, <1>2, <1>3, <1>4, <1>5, <1>6 DEF ForkInv, FInv

\* A task that goes on has left no branch of its forks at work, however the branches
\* and the pool's threads interleave - in the graphs WalksAssumption admits, in which
\* no two tasks come to the same node.  Where branches meet in part before the end of
\* their parallel, the code runs what follows once for each of them, and nothing is
\* proved.
THEOREM ForksWait == Spec => []ForksOutliveBranches
<1>1. ForkInv => ForksOutliveBranches
  BY DEF ForkInv, FInv, OutlivesInv, Outlived, ForksOutliveBranches
<1>2. ForkInv /\ [Next]_vars => ForkInv'
  BY StepForks, StepPool, StepRoot DEF ForkInv
<1> QED
  BY <1>1, <1>2, InitForks, PTL DEF Spec

-----------------------------------------------------------------------------
(* The count of the pool.                                                  *)

\* The branches that were granted and not given back, the tasks that ask.
AtWork == {b \in Branch : pc[b] \notin {"idle", "done"}}
Asking == {t \in Node : pc[t] = "submit"}

BalanceInv == ForkInv /\ SubmitsBalance

LEMMA BothFinite ==
  /\ IsFiniteSet(AtWork) /\ Cardinality(AtWork) \in Nat
  /\ IsFiniteSet(Asking) /\ Cardinality(Asking) \in Nat
<1>1. IsFiniteSet(AtWork) /\ IsFiniteSet(Asking)
  BY FS_Subset DEF AtWork, Asking, Branch
<1> QED
  BY <1>1, FS_CardinalityType

\* What a step does to the two sets and to the counts.
LEMMA SameSets ==
  ASSUME BalanceInv, AtWork' = AtWork, Asking' = Asking, submits' = submits, refused' = refused
  PROVE  SubmitsBalance'
BY DEF BalanceInv, SubmitsBalance, UnderWay, Asked, AtWork, Asking

LEMMA StepBalance ==
  ASSUME BalanceInv, [Next]_vars
  PROVE  SubmitsBalance'
<1>1. /\ ForkInv /\ TInv /\ pc \in [Node -> Where] /\ RootInv
      /\ submits \in Int /\ refused \in Nat
      /\ submits = Cardinality(AtWork) + Cardinality(Asking) + refused
      /\ SubmitsBalance' <=> submits' = Cardinality(AtWork') + Cardinality(Asking') + refused'
  BY DEF BalanceInv, ForkInv, FInv, TInv, TypeOK, SubmitsBalance, UnderWay, Asked, AtWork, Asking
<1>2. ASSUME NEW t \in Node, NEW p \in Where \ {"idle", "submit"}, Goes(t, p),
             pc[t] \notin {"idle", "submit"}, t = Root \/ (p # "done" /\ pc[t] # "done")
      PROVE  AtWork' = AtWork /\ Asking' = Asking
  BY <1>1, <1>2 DEF Goes, AtWork, Asking, Branch
<1>3. ASSUME NEW t \in Node, Walks(t)
      PROVE  SubmitsBalance'
  <2>1. PICK p \in {"raise", "enter", "run", "over", "top", "fork"} : Goes(t, p)
    BY <1>3 DEF Walks, ChecksLimits, StartsNode, FailsUnstarted, EndsNode, Follows, StepTo
  <2>2. pc[t] \in {"top", "enter", "run"} /\ submits' = submits /\ refused' = refused
    BY <1>3 DEF Walks, ChecksLimits, StartsNode, FailsUnstarted, EndsNode, At, forkVars
  <2>3. AtWork' = AtWork /\ Asking' = Asking
    BY <1>2, <2>1, <2>2 DEF Where
  <2> QED
    BY <2>2, <2>3, SameSets
<1>4. ASSUME NEW t \in Node, CountsSubmit(t)
      PROVE  SubmitsBalance'
  <2>1. /\ pc[t] = "fork" /\ Goes(t, "submit") /\ submits' = submits + 1 /\ refused' = refused
    BY <1>4 DEF CountsSubmit, At, forkVars
  <2>2. AtWork' = AtWork /\ Asking' = Asking \cup {t} /\ t \notin Asking
    BY <1>1, <2>1 DEF Goes, AtWork, Asking, Branch
  <2>3. Cardinality(Asking') = Cardinality(Asking) + 1
    BY <2>2, BothFinite, FS_AddElement
  <2> QED
    BY <1>1, <2>1, <2>2, <2>3, BothFinite
<1>5. ASSUME NEW t \in Node, Refused(t)
      PROVE  SubmitsBalance'
  <2>1. /\ pc[t] = "submit" /\ Goes(t, "raise") /\ submits' = submits /\ refused' = refused + 1
    BY <1>5 DEF Refused, At
  <2>2. AtWork' = AtWork /\ Asking' = Asking \ {t} /\ t \in Asking
    BY <1>1, <2>1 DEF Goes, AtWork, Asking, Branch
  <2>3. Cardinality(Asking') = Cardinality(Asking) - 1
    BY <2>2, BothFinite, FS_RemoveElement
  <2> QED
    BY <1>1, <2>1, <2>2, <2>3, BothFinite
<1>6. ASSUME NEW t \in Node, Submits(t)
      PROVE  SubmitsBalance'
  <2>1. PICK b \in Branch : /\ b # t /\ pc[b] = "idle" /\ pc'[b] = "queued"
                            /\ pc[t] = "submit" /\ pc'[t] \in {"fork", "listen"}
                            /\ \A u \in Node \ {t, b} : pc'[u] = pc[u]
                            /\ pool' = Append(pool, b)
    BY <1>1, <1>6, StepForks, SubmitsForks DEF ForkInv, FInv
  <2>2. submits' = submits /\ refused' = refused
    BY <1>6 DEF Submits
  <2>3. AtWork' = AtWork \cup {b} /\ b \notin AtWork
    BY <1>1, <2>1 DEF AtWork, Branch
  <2>4. Asking' = Asking \ {t} /\ t \in Asking
    BY <1>1, <2>1 DEF Asking, Branch
  <2>5. Cardinality(AtWork') = Cardinality(AtWork) + 1
    BY <2>3, BothFinite, FS_AddElement
  <2>6. Cardinality(Asking') = Cardinality(Asking) - 1
    BY <2>4, BothFinite, FS_RemoveElement
  <2> QED
    BY <1>1, <2>2, <2>5, <2>6, BothFinite
<1>7. ASSUME NEW t \in Node, Skips(t) \/ Listens(t) \/ StopsListening(t) \/ Joins(t)
      PROVE  SubmitsBalance'
  <2>1. pc' = pc \/ \E p \in {"raise", "over", "top", "fork", "listen", "join"} : Goes(t, p)
    BY <1>7 DEF Skips, Listens, StopsListening, Joins, StepTo, NextEdge
  <2>2. pc[t] \in {"fork", "listen", "join"} /\ submits' = submits /\ refused' = refused
    BY <1>7 DEF Skips, Listens, StopsListening, Joins, At, forkVars
  <2>3. AtWork' = AtWork /\ Asking' = Asking
    <3>1. CASE pc' = pc
      BY <3>1 DEF AtWork, Asking
    <3>2. ASSUME NEW p \in {"raise", "over", "top", "fork", "listen", "join"}, Goes(t, p)
          PROVE  AtWork' = AtWork /\ Asking' = Asking
      BY <1>2, <2>2, <3>2 DEF Where
    <3> QED
      BY <2>1, <3>1, <3>2
  <2> QED
    BY <2>2, <2>3, SameSets
<1>8. ASSUME NEW t \in Node, Ends(t)
      PROVE  SubmitsBalance'
  <2>0. t # Root /\ t \in Branch
    BY <1>1, <1>8 DEF Ends, EndsBranch, SetsFuture, CallsBack, RootInv, Branch
  <2>1. CASE EndsBranch(t) \/ SetsFuture(t)
    <3>1. PICK p \in {"ending", "finished"} : Goes(t, p)
      BY <2>1 DEF EndsBranch, SetsFuture
    <3>2. pc[t] \in {"over", "raise", "ending"} /\ submits' = submits /\ refused' = refused
      BY <2>1 DEF EndsBranch, SetsFuture, forkVars
    <3>3. AtWork' = AtWork /\ Asking' = Asking
      BY <1>2, <3>1, <3>2 DEF Where
    <3> QED
      BY <3>2, <3>3, SameSets
  <2>2. CASE CallsBack(t)
    <3>1. pc[t] = "finished" /\ Goes(t, "done") /\ submits' = submits - 1 /\ refused' = refused
      BY <2>2 DEF CallsBack, forkVars
    <3>2. AtWork' = AtWork \ {t} /\ t \in AtWork /\ Asking' = Asking
      BY <1>1, <2>0, <3>1 DEF Goes, AtWork, Asking, Branch
    <3>3. Cardinality(AtWork') = Cardinality(AtWork) - 1
      BY <3>2, BothFinite, FS_RemoveElement
    <3> QED
      BY <1>1, <3>1, <3>2, <3>3, BothFinite
  <2> QED
    BY <1>8, <2>1, <2>2 DEF Ends
<1>9. ASSUME NEW b \in Branch, TakesBranch(b)
      PROVE  SubmitsBalance'
  <2>1. /\ pc[b] = "queued" /\ b \in Node /\ Goes(b, "top")
        /\ submits' = submits /\ refused' = refused
    BY <1>1, <1>9, TakenWaited DEF TakesBranch, Branch
  <2>2. AtWork' = AtWork /\ Asking' = Asking
    BY <1>2, <2>1 DEF Where
  <2> QED
    BY <2>1, <2>2, SameSets
<1>10. CASE EndsRun \/ Resumes \/ Closes \/ TimePasses \/ UNCHANGED vars
  <2>1. /\ pc' = pc \/ (Goes(Root, "done") /\ pc[Root] \notin {"idle", "submit"})
        /\ submits' = submits /\ refused' = refused
    BY <1>1, <1>10 DEF EndsRun, Resumes, Closes, TimePasses, At, RootInv, forkVars, vars
  <2>2. AtWork' = AtWork /\ Asking' = Asking
    <3>1. CASE pc' = pc
      BY <3>1 DEF AtWork, Asking
    <3>2. CASE pc' # pc
      BY <1>2, <2>1, <3>2 DEF Where
    <3> QED
      BY <3>1, <3>2
  <2> QED
    BY <2>1, <2>2, SameSets
<1> QED
  BY <1>3, <1>4, <1>5, <1>6, <1>7, <1>8, <1>9, <1>10 DEF Next, Over, Forks

LEMMA InitBalance == Init => SubmitsBalance
<1> SUFFICES ASSUME Init PROVE SubmitsBalance
  OBVIOUS
<1>1. AtWork = {} /\ Asking = {} /\ submits = 0 /\ refused = 0
  BY DEF Init, AtWork, Asking, Branch
<1>2. Cardinality(AtWork) = 0 /\ Cardinality(Asking) = 0
  BY <1>1, FS_EmptySet
<1> QED
  BY <1>1, <1>2 DEF SubmitsBalance, UnderWay, Asked, AtWork, Asking

\* The pool counts what it has granted and what it is asked, and never gives back
\* what it has refused.
THEOREM PoolCounts == Spec => []SubmitsBalance
<1>1. BalanceInv /\ [Next]_vars => BalanceInv'
  BY StepForks, StepPool, StepRoot, StepBalance DEF BalanceInv, ForkInv
<1>2. Init => BalanceInv
  BY InitForks, InitBalance DEF BalanceInv
<1>3. BalanceInv => SubmitsBalance
  BY DEF BalanceInv
<1> QED
  BY <1>1, <1>2, <1>3, PTL DEF Spec
=============================================================================
