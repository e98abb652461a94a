----------------------------- MODULE GraphEngine -----------------------------
(***************************************************************************)
(* GraphEngine (api/core/workflow/graph_engine/graph_engine.py): one run   *)
(* of a workflow graph.  The root task walks the graph in the thread that  *)
(* iterates over run(); where a node has several successors the walk forks *)
(* a task per branch on a thread pool of bounded size, and listens to a    *)
(* queue the branches put their events in until all of them have           *)
(* succeeded.  A branch forks in the same way and keeps its worker         *)
(* meanwhile.  A task is named by the node its walk starts at.             *)
(*                                                                         *)
(* Of the events only those are kept that some consumer tells apart: a     *)
(* node's start and end, a branch's success and failure.                   *)
(***************************************************************************)
EXTENDS Integers, Sequences, FiniteSets, Functions

CONSTANTS Node, Root,   \* the graph's nodes, and the one it starts with
          Routes,       \* Routes[n][o]: the lists of edges (of target nodes) the
                        \* conditions may choose when n ends with outcome o
          ParallelOf,   \* graph.node_parallel_mapping
          EndTo,        \* end_to_node_id of each parallel
          Agents,       \* nodes that may fail before their start is reported
          NoNode, NoParallel,
          Workers,      \* max_workers of the thread pool
          MaxSubmit,    \* MAX_SUBMIT_COUNT
          MaxSteps      \* WORKFLOW_MAX_EXECUTION_STEPS

Outcome == {"succeeded", "exception", "failed", "raised"}
Parallel == DOMAIN EndTo
Branch == Node \ {Root}

ASSUME NodesAssumption ==
  IsFiniteSet(Node) /\ Root \in Node /\ NoNode \notin Node /\ Agents \subseteq Node
ASSUME RoutesAssumption ==
  /\ DOMAIN Routes = Node
  /\ \A n \in Node : /\ DOMAIN Routes[n] \subseteq Outcome
                     /\ \A o \in DOMAIN Routes[n] : Routes[n][o] \subseteq Seq(Branch)
ASSUME ParallelAssumption ==
  /\ NoParallel \notin Parallel
  /\ ParallelOf \in [Node -> Parallel \cup {NoParallel}]
  /\ EndTo \in [Parallel -> Node \cup {NoNode}]
\* The nodes a node's end may lead to, at once or after a join.
Successors(n) ==
  (UNION {Range(edges) : edges \in UNION Range(Routes[n])})
    \cup {m \in Node : \E p \in Parallel : EndTo[p] = m /\ ParallelOf[n] = p}

Downstream == [n \in Node |->
  {m \in Node : \A S \in SUBSET Node :
     Successors(n) \subseteq S /\ (\A k \in S : Successors(k) \subseteq S) => m \in S}]

\* Graph.init refuses a graph with a cycle.
ASSUME AcyclicAssumption == \A n \in Node : n \notin Downstream[n]

\* The branches that n's end may fork: the chosen targets in the first one's parallel.
Forked(n) ==
  {b \in Branch : \E edges \in UNION Range(Routes[n]) :
     /\ Len(edges) > 1 /\ ParallelOf[edges[1]] # NoParallel
     /\ b \in Range(edges) /\ ParallelOf[b] = ParallelOf[edges[1]]}

\* The nodes a walk may go on to from n, by itself or after a join.
Onward(n) ==
  {m \in Node : \/ \E edges \in UNION Range(Routes[n]) : Len(edges) = 1 /\ edges[1] = m
                \/ \E b \in Forked(n) : EndTo[ParallelOf[b]] = m}

\* The nodes task t may be at, were it started.  Only the root's walk changes parallels.
Walk == [t \in Node |->
  {m \in Node : \A S \in SUBSET Node :
     t \in S /\ (\A n \in S : \A k \in Onward(n) :
                   t = Root \/ ParallelOf[k] = ParallelOf[t] => k \in S) => m \in S}]

Task == {Root} \cup (UNION {Forked(n) : n \in Node})

\* A task has the name of its first node, and a node one status: the graphs are
\* those in which no two tasks come to the same node, and a parallel is forked at
\* one node, its start_from_node_id.  (Where only some branches of a parallel meet
\* before its end, the code runs what follows once for each of them.)
ASSUME WalksAssumption ==
  /\ \A n \in Node : \A edges \in UNION Range(Routes[n]) : IsInjective(edges)
  /\ \A n, m \in Node : n # m =>
       \A b \in Forked(n), c \in Forked(m) : ParallelOf[b] # ParallelOf[c]
  /\ \A t, u \in Task : t # u => Walk[t] \cap Walk[u] = {}

\* What a branch runs, with the branches it forks, up to the end of its parallel.
Within == [b \in Node |->
  {m \in Node : \A S \in SUBSET Node :
     b \in S /\ (\A n \in S : /\ Forked(n) \subseteq S
                            /\ \A k \in Onward(n) : ParallelOf[k] = ParallelOf[n] => k \in S) => m \in S}]

ASSUME LimitsAssumption == Workers \in Nat /\ MaxSubmit \in Nat /\ MaxSteps \in Nat

VARIABLES
  pc,        \* where each task is, see Where
  node,      \* the node each task is at
  todo,      \* branches a fork has yet to submit
  futures,   \* branches a fork has submitted
  okay,      \* succeeded_count of a fork's listening loop
  forker,    \* the task that forked each task
  q,         \* the queue each fork listens to
  pool,      \* work queue of the thread pool
  submits,   \* submit_count of the thread pool
  refused,   \* history: submissions the pool refused
  status,    \* route_node_state.status of each node
  steps,     \* node_run_steps
  excepted,  \* handle_exceptions is not empty
  overtime,  \* WORKFLOW_MAX_EXECUTION_TIME has passed
  out,       \* the event run() has yielded and was not resumed from
  report,    \* the last event run() has yielded of each node
  verdict    \* how run() ended

forkVars  == <<todo, futures, okay, forker, pool, refused>>
graphVars == <<status, steps, excepted>>
vars == <<pc, node, forkVars, q, submits, graphVars, overtime, out, report, verdict>>

Where == {"idle", "queued", "top", "enter", "run", "fork", "submit", "listen",
          "join", "over", "raise", "ending", "finished", "done"}

NodeStatus == {"idle", "running", "succeeded", "exception", "failed"}

\* None is the one that ends a listening loop.
None == [kind |-> "None", node |-> NoNode]
Event == [kind : (NodeStatus \ {"idle"}) \cup {"BranchSucceeded", "BranchFailed"}, node : Node]
           \cup {None}
-----------------------------------------------------------------------------
Init ==
  /\ pc = [t \in Node |-> IF t = Root THEN "top" ELSE "idle"]
  /\ node = [t \in Node |-> t]
  /\ todo = [t \in Node |-> <<>>] /\ futures = [t \in Node |-> {}]
  /\ okay = [t \in Node |-> 0] /\ forker = [t \in Node |-> NoNode]
  /\ q = [t \in Node |-> <<>>] /\ pool = <<>> /\ submits = 0 /\ refused = 0
  /\ status = [n \in Node |-> "idle"] /\ steps = 0
  /\ excepted = FALSE /\ overtime = FALSE
  /\ out = None /\ report = [n \in Node |-> "idle"] /\ verdict = "open"

\* Task t is at p, and is not the root paused at a yield of run().
At(t, p) == pc[t] = p /\ (t = Root => out = None)

Goes(t, p) == pc' = [pc EXCEPT ![t] = p]

\* A task's generator yields e: run() passes the root's events to its consumer,
\* _run_parallel_node puts a branch's in the forker's queue.  queues: what the
\* queues hold but for that.
Yields(t, e, queues) ==
  IF t = Root
  THEN /\ out' = e /\ q' = queues
       /\ report' = IF e.kind \in NodeStatus
                    THEN [report EXCEPT ![e.node] = e.kind] ELSE report
  ELSE /\ q' = [queues EXCEPT ![forker[t]] = Append(@, e)]
       /\ UNCHANGED <<out, report>>

-----------------------------------------------------------------------------
(* The walk: _run and _run_node.                                           *)

\* Mutant of LimitReached: the steps are not looked at.
LimitReached_TimeOnly == overtime

LimitReached == steps > MaxSteps \/ overtime

\* The head of the loop.
ChecksLimits(t) ==
  /\ At(t, "top")
  /\ Goes(t, IF LimitReached THEN "raise" ELSE "enter")
  /\ UNCHANGED <<node, forkVars, q, submits, graphVars, overtime, out, report, verdict>>

StartsNode(t) ==
  /\ At(t, "enter") /\ Goes(t, "run")
  /\ status' = [status EXCEPT ![node[t]] = "running"]
  /\ steps' = steps + 1
  /\ Yields(t, [kind |-> "running", node |-> node[t]], q)
  /\ UNCHANGED <<node, forkVars, submits, excepted, overtime, verdict>>

\* agent_strategy_icon raised: the node fails without having started.
FailsUnstarted(t) ==
  /\ At(t, "enter") /\ node[t] \in Agents /\ Goes(t, "raise")
  /\ status' = [status EXCEPT ![node[t]] = "failed"]
  /\ Yields(t, [kind |-> "failed", node |-> node[t]], q)
  /\ UNCHANGED <<node, forkVars, submits, steps, excepted, overtime, verdict>>

\* Mutant of LeavesParallel: a branch walks on past its parallel.
LeavesParallel_Never(t, n) == FALSE

\* A branch ends at the first node that is not in its parallel.
LeavesParallel(t, n) == t # Root /\ ParallelOf[n] # ParallelOf[t]

StepTo(t, n) ==
  IF LeavesParallel(t, n) THEN Goes(t, "over") /\ UNCHANGED node
                          ELSE Goes(t, "top") /\ node' = [node EXCEPT ![t] = n]

\* The edges that were chosen: none, one, or a fork.
Follows(t, edges) ==
  \/ edges = <<>> /\ Goes(t, "over") /\ UNCHANGED <<node, todo, futures, okay>>
  \/ Len(edges) = 1 /\ StepTo(t, edges[1]) /\ UNCHANGED <<todo, futures, okay>>
  \/ Len(edges) > 1 /\ ParallelOf[edges[1]] = NoParallel
     /\ Goes(t, "raise") /\ UNCHANGED <<node, todo, futures, okay>>
  \/ Len(edges) > 1 /\ ParallelOf[edges[1]] # NoParallel
     /\ Goes(t, "fork") /\ UNCHANGED node
     /\ todo' = [todo EXCEPT ![t] = edges]
     /\ futures' = [futures EXCEPT ![t] = {}] /\ okay' = [okay EXCEPT ![t] = 0]

\* Mutant of EndsNode: an exception handled in a branch is not recorded.
EndsNode_ForgetsException(t, o) ==
  /\ At(t, "run") /\ o \in DOMAIN Routes[node[t]]
  /\ LET end == IF o = "raised" THEN "failed" ELSE o IN
       /\ status' = [status EXCEPT ![node[t]] = end]
       /\ Yields(t, [kind |-> end, node |-> node[t]], q)
  /\ excepted' = (excepted \/ (o = "exception" /\ t = Root))
  /\ IF o = "raised" THEN Goes(t, "raise") /\ UNCHANGED <<node, todo, futures, okay>>
     ELSE \E edges \in Routes[node[t]][o] : Follows(t, edges)
  /\ UNCHANGED <<forker, pool, refused, submits, steps, overtime, verdict>>

\* The node is over.  One that failed is reported and the walk goes on from it;
\* only one whose run() raised ends the walk.
EndsNode(t, o) ==
  /\ At(t, "run") /\ o \in DOMAIN Routes[node[t]]
  /\ LET end == IF o = "raised" THEN "failed" ELSE o IN
       /\ status' = [status EXCEPT ![node[t]] = end]
       /\ Yields(t, [kind |-> end, node |-> node[t]], q)
  /\ excepted' = (excepted \/ o = "exception")
  /\ IF o = "raised" THEN Goes(t, "raise") /\ UNCHANGED <<node, todo, futures, okay>>
     ELSE \E edges \in Routes[node[t]][o] : Follows(t, edges)
  /\ UNCHANGED <<forker, pool, refused, submits, steps, overtime, verdict>>

-----------------------------------------------------------------------------
(* The fork: _run_parallel_branches and the thread pool.                   *)

\* parallel_id: the parallel of the first target, which is always submitted.
ForkParallel(t) ==
  ParallelOf[IF futures[t] = {} THEN Head(todo[t]) ELSE CHOOSE b \in futures[t] : TRUE]

\* Where the loop over the edges goes after Head(todo[t]).
NextEdge(t) == IF Len(todo[t]) = 1 THEN "listen" ELSE "fork"

\* A target that is in another parallel, or in none, is left out.
Skips(t) ==
  /\ At(t, "fork") /\ ParallelOf[Head(todo[t])] # ForkParallel(t)
  /\ Goes(t, NextEdge(t)) /\ todo' = [todo EXCEPT ![t] = Tail(@)]
  /\ UNCHANGED <<node, futures, okay, forker, pool, refused, q, submits, graphVars,
                 overtime, out, report, verdict>>

\* submit(): the count goes up before it is checked.  The fork's queue is new.
CountsSubmit(t) ==
  /\ At(t, "fork") /\ ParallelOf[Head(todo[t])] = ForkParallel(t)
  /\ submits' = submits + 1 /\ Goes(t, "submit")
  /\ q' = IF futures[t] = {} THEN [q EXCEPT ![t] = <<>>] ELSE q
  /\ UNCHANGED <<node, forkVars, graphVars, overtime, out, report, verdict>>

PoolIsFull == submits > MaxSubmit

Refused(t) ==
  /\ At(t, "submit") /\ PoolIsFull /\ Goes(t, "raise") /\ refused' = refused + 1
  /\ UNCHANGED <<node, todo, futures, okay, forker, pool, q, submits, graphVars, overtime, out, report, verdict>>

Submits(t) ==
  /\ At(t, "submit") /\ ~PoolIsFull
  /\ LET target == Head(todo[t]) IN
       /\ pool' = Append(pool, target)
       /\ forker' = [forker EXCEPT ![target] = t]
       /\ futures' = [futures EXCEPT ![t] = @ \cup {target}]
       /\ pc' = [pc EXCEPT ![target] = "queued", ![t] = NextEdge(t)]
  /\ todo' = [todo EXCEPT ![t] = Tail(@)]
  /\ UNCHANGED <<node, okay, refused, q, submits, graphVars, overtime, out, report, verdict>>

\* A branch has a worker from when it is taken until its callback has run, the
\* time it waits for branches of its own included.
HasWorker(b) == b # Root /\ pc[b] \notin {"idle", "queued", "done"}

TakesBranch(b) ==
  /\ pool # <<>> /\ b = Head(pool) /\ Cardinality({c \in Branch : HasWorker(c)}) < Workers
  /\ pool' = Tail(pool) /\ Goes(b, "top")
  /\ UNCHANGED <<node, todo, futures, okay, forker, refused, q, submits, graphVars, overtime,
                 out, report, verdict>>

\* Is b, whose end is told by an event, a branch of the fork t listens to?
\* The code compares the event's parallel with its own.
OfFork(t, b) == ParallelOf[b] = ForkParallel(t)

\* Mutant of AllSucceeded: one success too many is asked for.
AllSucceeded_OffByOne(t, count) == count > Cardinality(futures[t])

AllSucceeded(t, count) == count = Cardinality(futures[t])

\* The listening loop: the event is yielded, then looked at.  None is put when
\* as many branches have succeeded as were submitted.
Listens(t) ==
  /\ At(t, "listen") /\ q[t] # <<>> /\ Head(q[t]) # None
  /\ LET e == Head(q[t])
         won == e.kind = "BranchSucceeded" /\ OfFork(t, e.node)
         lost == e.kind = "BranchFailed" /\ OfFork(t, e.node)
         last == won /\ AllSucceeded(t, okay[t] + 1)
     IN /\ okay' = [okay EXCEPT ![t] = IF won THEN @ + 1 ELSE @]
        /\ Yields(t, e, [q EXCEPT ![t] = Tail(@) \o (IF last THEN <<None>> ELSE <<>>)])
        /\ IF lost THEN Goes(t, "raise") ELSE UNCHANGED pc
  /\ UNCHANGED <<node, todo, futures, forker, pool, refused, submits, graphVars, overtime, verdict>>

StopsListening(t) ==
  /\ At(t, "listen") /\ q[t] # <<>> /\ Head(q[t]) = None
  /\ q' = [q EXCEPT ![t] = Tail(@)] /\ Goes(t, "join")
  /\ UNCHANGED <<node, forkVars, submits, graphVars, overtime, out, report, verdict>>

IsOver(b) == pc[b] \in {"finished", "done"}

\* Mutant of Joins: a parallel that ends nowhere is not looked for.
Joins_NoEnd(t) ==
  /\ At(t, "join") /\ \A b \in futures[t] : IsOver(b)
  /\ LET n == EndTo[ForkParallel(t)] IN
       IF n # NoNode THEN StepTo(t, n)
       ELSE IF t = Root THEN Goes(t, "top") /\ node' = [node EXCEPT ![t] = n]
                        ELSE Goes(t, "over") /\ UNCHANGED node
  /\ UNCHANGED <<forkVars, q, submits, graphVars, overtime, out, report, verdict>>

\* Mutant of Joins: wait(futures) is left out.
Joins_NoWait(t) ==
  /\ At(t, "join")
  /\ LET n == EndTo[ForkParallel(t)] IN
       IF n = NoNode THEN Goes(t, "over") /\ UNCHANGED node ELSE StepTo(t, n)
  /\ UNCHANGED <<forkVars, q, submits, graphVars, overtime, out, report, verdict>>

\* wait(futures), then on to the parallel's end node.
Joins(t) ==
  /\ At(t, "join") /\ \A b \in futures[t] : IsOver(b)
  /\ LET n == EndTo[ForkParallel(t)] IN
       IF n = NoNode THEN Goes(t, "over") /\ UNCHANGED node ELSE StepTo(t, n)
  /\ UNCHANGED <<forkVars, q, submits, graphVars, overtime, out, report, verdict>>

-----------------------------------------------------------------------------
(* The end of a walk: _run_parallel_node, the pool's callback and run().   *)

\* Mutant of EndsBranch: a branch that failed says nothing.
EndsBranch_QuietFailure(b) ==
  /\ b # Root /\ pc[b] \in {"over", "raise"} /\ Goes(b, "ending")
  /\ IF pc[b] = "over" THEN Yields(b, [kind |-> "BranchSucceeded", node |-> b], q)
                       ELSE UNCHANGED <<q, out, report>>
  /\ UNCHANGED <<node, forkVars, submits, graphVars, overtime, verdict>>

EndsBranch(b) ==
  /\ b # Root /\ pc[b] \in {"over", "raise"} /\ Goes(b, "ending")
  /\ Yields(b, [kind |-> IF pc[b] = "over" THEN "BranchSucceeded" ELSE "BranchFailed",
                node |-> b], q)
  /\ UNCHANGED <<node, forkVars, submits, graphVars, overtime, verdict>>

\* The future is set, then its callback gives the submission back.
SetsFuture(b) ==
  /\ pc[b] = "ending" /\ Goes(b, "finished")
  /\ UNCHANGED <<node, forkVars, q, submits, graphVars, overtime, out, report, verdict>>

\* Mutant of CallsBack: no callback was added to the future.
CallsBack_Never(b) ==
  /\ pc[b] = "finished" /\ Goes(b, "done")
  /\ UNCHANGED <<node, forkVars, q, submits, graphVars, overtime, out, report, verdict>>

CallsBack(b) ==
  /\ pc[b] = "finished" /\ Goes(b, "done") /\ submits' = submits - 1
  /\ UNCHANGED <<node, forkVars, q, graphVars, overtime, out, report, verdict>>

\* The graph event run() ends with.
EndsRun ==
  /\ At(Root, "over") \/ At(Root, "raise")
  /\ Goes(Root, "done")
  /\ verdict' = CASE pc[Root] = "raise" -> "failed"
                  [] pc[Root] = "over" /\ excepted -> "partial"
                  [] OTHER -> "succeeded"
  /\ UNCHANGED <<node, forkVars, q, submits, graphVars, overtime, out, report>>

\* The consumer asks for more.  run() returns after the first failed node; no
\* branch is told.
Resumes ==
  /\ out # None /\ out' = None
  /\ IF out.kind = "failed" THEN verdict' = "failed" /\ Goes(Root, "done")
                            ELSE UNCHANGED <<verdict, pc>>
  /\ UNCHANGED <<node, forkVars, q, submits, graphVars, overtime, report>>

\* The consumer gives up (a stop, an error): the generator is closed.
Closes ==
  /\ out # None /\ out' = None
  /\ verdict' = "closed" /\ Goes(Root, "done")
  /\ UNCHANGED <<node, forkVars, q, submits, graphVars, overtime, report>>

TimePasses ==
  /\ ~overtime /\ overtime' = TRUE
  /\ UNCHANGED <<pc, node, forkVars, q, submits, graphVars, out, report, verdict>>

\* run() has ended and so has every task it left behind.
Over ==
  /\ verdict # "open" /\ \A b \in Branch : pc[b] \in {"idle", "done"}
  /\ UNCHANGED vars

Walks(t) == ChecksLimits(t) \/ StartsNode(t) \/ FailsUnstarted(t)
              \/ (\E o \in Outcome : EndsNode(t, o))
Forks(t) == Skips(t) \/ CountsSubmit(t) \/ Refused(t) \/ Submits(t)
              \/ Listens(t) \/ StopsListening(t) \/ Joins(t)
Ends(b)  == EndsBranch(b) \/ SetsFuture(b) \/ CallsBack(b)

Next == (\E t \in Node : Walks(t) \/ Forks(t) \/ Ends(t))
          \/ (\E b \in Branch : TakesBranch(b))
          \/ EndsRun \/ Resumes \/ Closes \/ TimePasses \/ Over

\* Threads go on, nodes end, the pool starts what it can, the consumer pulls.
Spec == /\ Init /\ [][Next]_vars
        /\ \A t \in Node : WF_vars(Walks(t) \/ Forks(t) \/ Ends(t))
        /\ \A b \in Branch : WF_vars(TakesBranch(b))
        /\ WF_vars(EndsRun) /\ WF_vars(Resumes) /\ WF_vars(TimePasses)
-----------------------------------------------------------------------------
(* Properties.                                                             *)

\* The tasks, forks, queues and the pool keep their types: a walk is always at a
\* node of the graph and every queue holds events some consumer knows.
TypeOK ==
  /\ pc \in [Node -> Where] /\ node \in [Node -> Node]
  /\ todo \in [Node -> Seq(Branch)] /\ futures \in [Node -> SUBSET Branch]
  /\ okay \in [Node -> Nat] /\ forker \in [Node -> Node \cup {NoNode}]
  /\ q \in [Node -> Seq(Event)] /\ pool \in Seq(Branch) /\ submits \in Int
  /\ refused \in Nat
  /\ status \in [Node -> NodeStatus] /\ steps \in Nat
  /\ excepted \in BOOLEAN /\ overtime \in BOOLEAN
  /\ out \in Event /\ report \in [Node -> NodeStatus]
  /\ verdict \in {"open", "succeeded", "partial", "failed", "closed"}

\* Nodes run side by side only in different branches of one fork, or in what these
\* forked: what follows a join never overlaps with a branch, of whatever depth, and
\* a branch that goes on past its parallel's end would overlap with its fork.
OnlyBranchesOverlap ==
  \A t \in Node : pc[t] \in {"enter", "run"} =>
    \A m \in Node : status[m] = "running" /\ m # node[t] =>
      \E n \in Node : \E b, c \in Forked(n) :
        /\ b # c /\ ParallelOf[b] = ParallelOf[c]
        /\ node[t] \in Within[b] /\ m \in Within[c]

\* While a node is run, no node it comes after is still running, in whatever
\* branch: a join counts the successes of its own branches only and waits for
\* their threads.
PredecessorsOver ==
  \A t \in Node : pc[t] \in {"enter", "run"} =>
    \A n \in Node : status[n] = "running" /\ n # node[t] => node[t] \notin Downstream[n]

\* A run ends as succeeded, fully or partly, only when every branch has ended,
\* no event is left in a queue, and every node that was run has been reported
\* with the status it ended with, none as failed.
SuccessIsComplete ==
  verdict \in {"succeeded", "partial"} =>
    /\ \A b \in Branch : pc[b] \in {"idle", "finished", "done"}
    /\ \A t \in Node : q[t] = <<>>
    /\ report = status /\ \A n \in Node : status[n] \in {"idle", "succeeded", "exception"}

\* Submissions that were granted and not given back, and those being decided.
UnderWay == Cardinality({b \in Branch : pc[b] \notin {"idle", "done"}})
Asked    == Cardinality({t \in Node : pc[t] = "submit"})

\* The count of the pool is what is under way or asked for, and whatever was
\* refused since the pool exists: a refused submission is never given back.
SubmitsBalance == submits = UnderWay + Asked + refused

\* The limit on the steps is looked at by each task for itself before it starts
\* a node: it is passed by one step per thread at most, the pool's and the one
\* that iterates over run().
StepsBounded == steps <= MaxSteps + Workers + 1

\* A branch's walk never outlives the fork that waits for it, unless the fork
\* failed or the run did: a task that goes on has no branch at work.
ForksOutliveBranches ==
  \A t \in Node, b \in Branch :
    b \in futures[t] /\ pc[t] \in {"top", "enter", "run", "over"} => IsOver(b)

\* run() yields the stream of events it promises.
Stream == INSTANCE EngineStream
ImplementsStream == Stream!Spec

\* Once the nodes end and the pool serves its branches, the run ends.
RunEnds == <>(verdict # "open")

\* The configuration calls it the maximum execution time of one workflow.
TimeLimitEndsRun == overtime ~> verdict # "open"
=============================================================================
