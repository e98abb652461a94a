------------------------------- MODULE AppRun -------------------------------
(***************************************************************************)
(* One run of a workflow app (api/core/app/apps).  A worker thread drives  *)
(* the graph engine and publishes its events to an in-process FIFO queue;  *)
(* the request thread listens to the queue, writes the workflow_runs and   *)
(* workflow_node_executions rows and streams responses to the client.      *)
(* Redis holds the task's stop flag, which any other request may raise.    *)
(*                                                                         *)
(* A publish is not atomic: the message is put, then, for an event that    *)
(* ends the run, a None (the terminator), then the flag is looked at.  The *)
(* listener publishes to the queue it reads: a stop event when the flag is *)
(* up or the time limit has passed, and pings.                             *)
(***************************************************************************)
EXTENDS Naturals, Sequences

CONSTANTS Node,        \* executions of the graph's nodes
          Inner,       \* those inside an iteration or a loop
          User, Owner, \* who may ask to stop the task, and who started it
          NoNode,      \* the node field of an event that concerns no node
          MaxPings,    \* bound on the pings of a run
          MaxBacklog   \* bound on the queue's length when the worker puts

ASSUME OwnerAssumption == Owner \in User
ASSUME NodeAssumption == NoNode \notin Node /\ Inner \subseteq Node
ASSUME BoundsAssumption == MaxPings \in Nat /\ MaxBacklog \in Nat

VARIABLES
  q,         \* AppQueueManager._q
  flag,      \* the generate_task_stopped key exists
  overdue,   \* APP_MAX_EXECUTION_TIME has passed since listen() began
  streaming, \* stream mode (TRUE) or blocking mode (FALSE)
  wpc,       \* worker thread
  eng,       \* the graph engine's generator
  enode,     \* what the engine has reported of each node execution
  excepted,  \* the engine's handle_exceptions is not empty
  lpc,       \* request thread
  lmsg,      \* the event the request thread handles
  lnext,     \* what the request thread does after listen()'s finally block
  pings,     \* pings published
  outcome,   \* how the response ended
  run,       \* status of the workflow_runs row
  rows,      \* status of the workflow_node_executions row of each execution
  finishes,  \* history: the finishing events handled, in order
  late       \* history: events the worker put while the flag was up

workerVars   == <<wpc, eng, enode, excepted, late>>
listenerVars == <<lpc, lmsg, lnext, pings, outcome>>
dbVars       == <<run, rows, finishes>>
vars == <<q, flag, overdue, streaming, workerVars, listenerVars, dbVars>>

-----------------------------------------------------------------------------
(* Events.                                                                 *)

NodeEndKinds == {"NodeSucceeded", "NodeFailed", "NodeException", "NodeInnerFailed"}
NodeKinds    == NodeEndKinds \cup {"NodeStarted"}
FinishKinds  == {"Succeeded", "PartialSuccess", "Failed", "Stop"}
OtherKinds   == {"Started", "Progress", "Error", "Ping"}

\* the terminator is the queue's None
None == [kind |-> "None", node |-> NoNode]

Ev(k)         == [kind |-> k, node |-> NoNode]
NodeEv(k, n)  == [kind |-> k, node |-> n]

Message == [kind : NodeKinds, node : Node]
             \cup [kind : FinishKinds \cup OtherKinds \cup {"None"}, node : {NoNode}]

\* The events after which _publish calls stop_listen.
EndsListening(k) == k \in FinishKinds \cup {"Error"}

Final == {"succeeded", "partial-succeeded", "failed", "stopped"}

-----------------------------------------------------------------------------
Init ==
  /\ q = <<>> /\ flag = FALSE /\ overdue = FALSE /\ streaming \in BOOLEAN
  /\ wpc = "run"
  /\ eng = "created" /\ enode = [n \in Node |-> "idle"] /\ excepted = FALSE
  /\ lpc = "get" /\ lmsg = None /\ lnext = "get" /\ pings = 0
  /\ outcome = "open"
  /\ run = "none" /\ rows = [n \in Node |-> "none"]
  /\ finishes = <<>> /\ late = 0

-----------------------------------------------------------------------------
(* The worker thread.                                                      *)

\* First half of publish(event, APPLICATION_MANAGER): the message goes in.
WorkerPut(m) ==
  /\ wpc = "run" /\ Len(q) < MaxBacklog
  /\ q' = Append(q, m)
  /\ wpc' = IF EndsListening(m.kind) THEN "close" ELSE "check"
  /\ late' = IF flag THEN late + 1 ELSE late
  /\ UNCHANGED <<flag, overdue, streaming, listenerVars, dbVars>>

EngineStarts ==
  /\ eng = "created" /\ eng' = "running"
  /\ WorkerPut(Ev("Started"))
  /\ UNCHANGED <<enode, excepted>>

\* An iteration or a loop is at work: a node of the outer graph.
ContainerRuns == \E n \in Node \ Inner : enode[n] = "running"

NodeStarts(n) ==
  /\ eng = "running" /\ enode[n] = "idle" /\ (n \in Inner => ContainerRuns)
  /\ enode' = [enode EXCEPT ![n] = "running"]
  /\ WorkerPut(NodeEv("NodeStarted", n))
  /\ UNCHANGED <<eng, excepted>>

\* Retries, parallel branches, iterations and loops report on the run.
RunProgresses ==
  /\ eng = "running" /\ \E n \in Node : enode[n] = "running"
  /\ WorkerPut(Ev("Progress"))
  /\ UNCHANGED <<eng, enode, excepted>>

\* An iteration that goes on after a failed node (or, its items in parallel, that
\* stops at one), and a loop that breaks, close the nested engine's generator: what
\* its other branches would still report is lost.  The next event is the container's.
RoundCut ==
  /\ eng = "running" /\ ContainerRuns
  /\ \E cut \in SUBSET {n \in Inner : enode[n] = "running"} \ {{}} :
       enode' = [n \in Node |-> IF n \in cut THEN "abandoned" ELSE enode[n]]
  /\ WorkerPut(Ev("Progress"))
  /\ UNCHANGED <<eng, excepted>>

\* A node's own failure ends the run; one that its iteration handles
\* ("NodeInnerFailed") does not.  Exceptions are counted by the engine they are in.
NodeEnds(n, k) ==
  /\ eng = "running" /\ enode[n] = "running"
  /\ k = "NodeInnerFailed" => n \in Inner
  /\ enode' = [enode EXCEPT ![n] = "done"]
  /\ excepted' = (excepted \/ (k = "NodeException" /\ n \notin Inner))
  /\ eng' = IF k = "NodeFailed" THEN "failing" ELSE "running"
  /\ WorkerPut(NodeEv(k, n))

\* An agent node may fail before _run_node reports its start.
NodeFailsUnstarted(n, k) ==
  /\ eng = "running" /\ enode[n] = "idle" /\ (n \in Inner => ContainerRuns)
  /\ k = "NodeFailed" \/ (k = "NodeInnerFailed" /\ n \in Inner)
  /\ enode' = [enode EXCEPT ![n] = "stillborn"]
  /\ eng' = IF k = "NodeFailed" THEN "failing" ELSE "running"
  /\ WorkerPut(NodeEv(k, n))
  /\ UNCHANGED excepted

\* Mutant of EngineSucceeds: the branches still running are not waited for.
EngineSucceeds_NoJoin ==
  /\ eng = "running" /\ eng' = "over"
  /\ WorkerPut(Ev(IF excepted THEN "PartialSuccess" ELSE "Succeeded"))
  /\ UNCHANGED <<enode, excepted>>

\* The outer graph's branches are joined; of the nested ones, some are abandoned.
EngineSucceeds ==
  /\ eng = "running" /\ eng' = "over"
  /\ \A n \in Node : enode[n] # "running"
  /\ WorkerPut(Ev(IF excepted THEN "PartialSuccess" ELSE "Succeeded"))
  /\ UNCHANGED <<enode, excepted>>

\* After a failed node, or by a limit or an exception, whatever still runs.
EngineFails ==
  /\ eng \in {"running", "failing"} /\ eng' = "over"
  /\ WorkerPut(Ev("Failed"))
  /\ UNCHANGED <<enode, excepted>>

\* _generate_worker's except clauses: the runner raised outside the engine.
WorkerErrs ==
  /\ eng # "over" /\ eng' = "over"
  /\ WorkerPut(Ev("Error"))
  /\ UNCHANGED <<enode, excepted>>

\* stop_listen(), called by the worker's _publish.
WorkerCloses ==
  /\ wpc = "close"
  /\ q' = Append(q, None)
  /\ wpc' = "check"
  /\ UNCHANGED <<flag, overdue, streaming, eng, enode, excepted, late,
                 listenerVars, dbVars>>

\* Mutant of WorkerChecks: the flag is not looked at.
WorkerChecks_NoFlag ==
  /\ wpc = "check"
  /\ wpc' = IF eng = "over" THEN "exit" ELSE "run"
  /\ UNCHANGED <<q, flag, overdue, streaming, eng, enode, excepted, late,
                 listenerVars, dbVars>>

\* Last step of _publish: GenerateTaskStoppedError ends the thread silently.
WorkerChecks ==
  /\ wpc = "check"
  /\ wpc' = IF flag \/ eng = "over" THEN "exit" ELSE "run"
  /\ UNCHANGED <<q, flag, overdue, streaming, eng, enode, excepted, late,
                 listenerVars, dbVars>>

Worker ==
  \/ EngineStarts
  \/ RunProgresses
  \/ \E n \in Node : NodeStarts(n)
  \/ \E n \in Node, k \in NodeEndKinds : NodeEnds(n, k)
  \/ \E n \in Node, k \in NodeEndKinds : NodeFailsUnstarted(n, k)
  \/ RoundCut
  \/ EngineSucceeds
  \/ EngineFails
  \/ WorkerErrs
  \/ WorkerCloses
  \/ WorkerChecks

-----------------------------------------------------------------------------
(* The request thread: listen() and the pipeline that consumes it.         *)

\* listen() hands a message to the pipeline.
Get ==
  /\ lpc = "get" /\ q # <<>> /\ Head(q) # None
  /\ q' = Tail(q) /\ lmsg' = Head(q)
  /\ lpc' = "handle"
  /\ UNCHANGED <<flag, overdue, streaming, workerVars, lnext, pings,
                 outcome, dbVars>>

\* get(timeout=1) raised Empty: the finally block runs, then the loop goes on.
GetNothing ==
  /\ lpc = "get" /\ q = <<>>
  /\ lpc' = "finally" /\ lnext' = "get"
  /\ UNCHANGED <<q, flag, overdue, streaming, workerVars, lmsg, pings,
                 outcome, dbVars>>

\* The terminator breaks the loop; the finally block still runs.
GetNone ==
  /\ lpc = "get" /\ q # <<>> /\ Head(q) = None
  /\ q' = Tail(q)
  /\ lpc' = "finally" /\ lnext' = "done" /\ outcome' = "drained"
  /\ UNCHANGED <<flag, overdue, streaming, workerVars, lmsg, pings, dbVars>>

\* Mutant of ShouldStop: the listener's time limit is not looked at.
ShouldStop_NoTimeout == flag

\* The listener's time is over, or the flag is up.
ShouldStop == overdue \/ flag

\* Mutant of FinallyStops: the terminator is published without the event.
FinallyStops_NoEvent ==
  /\ lpc = "finally" /\ ShouldStop
  /\ q' = Append(q, None)
  /\ lpc' = "close"
  /\ UNCHANGED <<flag, overdue, streaming, workerVars, lmsg, lnext, pings,
                 outcome, dbVars>>

\* The stop event published by the finally block.
FinallyStops ==
  /\ lpc = "finally" /\ ShouldStop
  /\ q' = Append(q, Ev("Stop"))
  /\ lpc' = "close"
  /\ UNCHANGED <<flag, overdue, streaming, workerVars, lmsg, lnext, pings,
                 outcome, dbVars>>

\* Mutant of FinallyCloses: the stop is published without its terminator.
FinallyCloses_NoTerminator ==
  /\ lpc = "close" /\ lpc' = "ping"
  /\ UNCHANGED <<q, flag, overdue, streaming, workerVars, lmsg, lnext, pings,
                 outcome, dbVars>>

\* stop_listen(), called by the listener's own _publish.
FinallyCloses ==
  /\ lpc = "close"
  /\ q' = Append(q, None)
  /\ lpc' = "ping"
  /\ UNCHANGED <<flag, overdue, streaming, workerVars, lmsg, lnext, pings,
                 outcome, dbVars>>

FinallyContinues ==
  /\ lpc = "finally" /\ ~ShouldStop
  /\ lpc' = "ping"
  /\ UNCHANGED <<q, flag, overdue, streaming, workerVars, lmsg, lnext, pings,
                 outcome, dbVars>>

\* The end of the finally block: a ping when ten more seconds have passed.
Ping ==
  /\ lpc = "ping" /\ lpc' = lnext
  /\ \/ UNCHANGED <<q, pings>>
     \/ pings < MaxPings /\ pings' = pings + 1 /\ q' = Append(q, Ev("Ping"))
  /\ UNCHANGED <<flag, overdue, streaming, workerVars, lmsg, lnext,
                 outcome, dbVars>>

Listen == Get \/ GetNothing \/ GetNone \/ FinallyStops \/ FinallyCloses
            \/ FinallyContinues \/ Ping

-----------------------------------------------------------------------------
(* WorkflowCycleManager: the rows a handler writes.                        *)

RunStart == run' = "running"

\* No handler looks at the status the run already has.
RunEnd(status) ==
  /\ run' = status
  /\ finishes' = Append(finishes, lmsg.kind)

\* Mutant of NodeExecutionStart: the execution is not saved.
NodeExecutionStart_NotSaved(n) == rows' = rows

NodeExecutionStart(n) == rows' = [rows EXCEPT ![n] = "running"]

ExecutionFound(n) == rows[n] # "none"

NodeExecutionEnd(n, status) == rows' = [rows EXCEPT ![n] = status]

RunningExecutions == {n \in Node : rows[n] = "running"}

\* Mutant of CloseRunningExecutions: an execution gets the status of the run, which
\* may be "stopped".
CloseRunningExecutions_AsRun ==
  rows' = [n \in Node |-> IF n \in RunningExecutions THEN run' ELSE rows[n]]

\* Whatever the run's status, an execution is closed as failed.
CloseRunningExecutions ==
  rows' = [n \in Node |-> IF n \in RunningExecutions THEN "failed" ELSE rows[n]]

-----------------------------------------------------------------------------
(* _process_stream_response, one action per kind of event.                 *)

Handling(k) == lpc = "handle" /\ lmsg.kind = k

\* A response was yielded: the thread waits for the consumer to ask for more.
Yields  == lpc' = "yielded" /\ UNCHANGED <<lnext, outcome>>
\* The pipeline leaves its loop: the generator is closed, its finally runs.
Leaves(how) == lpc' = "finally" /\ lnext' = "done" /\ outcome' = how

\* Mutant of FinishYields: blocking mode, too, goes on to the terminator.
FinishYields_Always == Yields

\* Blocking mode returns on the first finish response; stream mode goes on.
FinishYields == IF streaming THEN Yields ELSE Leaves("finished")

HandlerFrame == lmsg' = None /\ UNCHANGED <<q, flag, overdue, streaming, workerVars, pings>>

HandlePing ==
  /\ Handling("Ping") /\ Yields
  /\ UNCHANGED dbVars /\ HandlerFrame

\* No row is written: the run keeps the status it has.
HandleError ==
  /\ Handling("Error") /\ Leaves("error")
  /\ UNCHANGED dbVars /\ HandlerFrame

HandleStarted ==
  /\ Handling("Started") /\ RunStart /\ Yields
  /\ UNCHANGED <<rows, finishes>> /\ HandlerFrame

\* "workflow run not initialized."
HandleBeforeStart ==
  /\ lpc = "handle" /\ run = "none"
  /\ lmsg.kind \in FinishKinds \cup {"Progress", "NodeStarted"}
  /\ Leaves("raised")
  /\ UNCHANGED dbVars /\ HandlerFrame

HandleProgress ==
  /\ Handling("Progress") /\ run # "none" /\ Yields
  /\ UNCHANGED dbVars /\ HandlerFrame

HandleNodeStarted ==
  /\ Handling("NodeStarted") /\ run # "none"
  /\ NodeExecutionStart(lmsg.node) /\ Yields
  /\ UNCHANGED <<run, finishes>> /\ HandlerFrame

HandleNodeSucceeded ==
  /\ Handling("NodeSucceeded") /\ ExecutionFound(lmsg.node)
  /\ NodeExecutionEnd(lmsg.node, "succeeded") /\ Yields
  /\ UNCHANGED <<run, finishes>> /\ HandlerFrame

HandleNodeFailed ==
  /\ lpc = "handle" /\ lmsg.kind \in NodeEndKinds \ {"NodeSucceeded"}
  /\ ExecutionFound(lmsg.node)
  /\ NodeExecutionEnd(lmsg.node, IF lmsg.kind = "NodeException" THEN "exception"
                                                                ELSE "failed")
  /\ Yields
  /\ UNCHANGED <<run, finishes>> /\ HandlerFrame

\* "Domain node execution not found"
HandleUnknownNode ==
  /\ lpc = "handle" /\ lmsg.kind \in NodeEndKinds
  /\ ~ExecutionFound(lmsg.node)
  /\ Leaves("raised")
  /\ UNCHANGED dbVars /\ HandlerFrame

HandleSucceeded ==
  /\ Handling("Succeeded") /\ run # "none"
  /\ RunEnd("succeeded") /\ FinishYields
  /\ UNCHANGED rows /\ HandlerFrame

HandlePartialSuccess ==
  /\ Handling("PartialSuccess") /\ run # "none"
  /\ RunEnd("partial-succeeded") /\ FinishYields
  /\ UNCHANGED rows /\ HandlerFrame

\* Mutant of HandleFailedOrStop: the run row is not required.
HandleFailedOrStop_NoRun ==
  /\ lpc = "handle" /\ lmsg.kind \in {"Failed", "Stop"}
  /\ RunEnd(IF lmsg.kind = "Failed" THEN "failed" ELSE "stopped")
  /\ CloseRunningExecutions /\ FinishYields
  /\ HandlerFrame

HandleFailedOrStop ==
  /\ lpc = "handle" /\ lmsg.kind \in {"Failed", "Stop"} /\ run # "none"
  /\ RunEnd(IF lmsg.kind = "Failed" THEN "failed" ELSE "stopped")
  /\ CloseRunningExecutions /\ FinishYields
  /\ HandlerFrame

Handle == HandlePing \/ HandleError \/ HandleStarted \/ HandleBeforeStart
            \/ HandleProgress \/ HandleNodeStarted \/ HandleNodeSucceeded
            \/ HandleNodeFailed \/ HandleUnknownNode \/ HandleSucceeded
            \/ HandlePartialSuccess \/ HandleFailedOrStop

-----------------------------------------------------------------------------
(* The consumer of the response, the clock, and stop requests.             *)

\* The server asks for the next chunk: listen() resumes in its finally block.
ClientPulls ==
  /\ lpc = "yielded"
  /\ lpc' = "finally" /\ lnext' = "get"
  /\ UNCHANGED <<q, flag, overdue, streaming, workerVars, lmsg, pings,
                 outcome, dbVars>>

\* The connection broke: GeneratorExit is raised at the yield.
ClientLeaves ==
  /\ lpc = "yielded" /\ streaming
  /\ Leaves("gone")
  /\ UNCHANGED <<q, flag, overdue, streaming, workerVars, lmsg, pings, dbVars>>

TimePasses ==
  /\ ~overdue /\ overdue' = TRUE
  /\ UNCHANGED <<q, flag, streaming, workerVars, listenerVars, dbVars>>

\* set_stop_flag: returns early unless the caller owns the task.
SetStopFlag(user) ==
  /\ flag' = (flag \/ user = Owner)
  /\ UNCHANGED <<q, overdue, streaming, workerVars, listenerVars, dbVars>>

\* setex(stopped_cache_key, 600, 1): the flag does not outlive 600 seconds.
StopFlagExpires ==
  /\ flag /\ flag' = FALSE
  /\ late' = 0
  /\ UNCHANGED <<q, overdue, streaming, wpc, eng, enode, excepted, listenerVars, dbVars>>

\* Nothing is left to do: the request is over and the worker thread is gone.
Over ==
  /\ lpc = "done" /\ wpc = "exit"
  /\ UNCHANGED vars

Client == ClientPulls \/ ClientLeaves

Next == Worker \/ Listen \/ Handle \/ Client \/ TimePasses
          \/ (\E user \in User : SetStopFlag(user))
          \/ StopFlagExpires \/ Over

\* Both threads and the clock go on and the consumer pulls or leaves.  Nothing
\* is assumed of the engine: a node may run forever.
Spec == /\ Init /\ [][Next]_vars
        /\ WF_vars(Listen) /\ WF_vars(Handle) /\ WF_vars(Client)
        /\ WF_vars(WorkerCloses \/ WorkerChecks)
        /\ WF_vars(TimePasses)
-----------------------------------------------------------------------------
(* Properties.                                                             *)

\* The queue, the two threads, the rows and the histories keep their types: a
\* handler meets only the messages that _publish puts, an execution's row has a
\* status of an execution and never one of a run, and only what is inside an
\* iteration or a loop is abandoned.
TypeOK ==
  /\ q \in Seq(Message)
  /\ flag \in BOOLEAN /\ overdue \in BOOLEAN /\ streaming \in BOOLEAN
  /\ wpc \in {"run", "close", "check", "exit"}
  /\ eng \in {"created", "running", "failing", "over"}
  /\ enode \in [Node -> {"idle", "running", "done", "stillborn", "abandoned"}]
  /\ \A n \in Node : enode[n] = "abandoned" => n \in Inner
  /\ excepted \in BOOLEAN
  /\ lpc \in {"get", "handle", "yielded", "finally", "close", "ping", "done"}
  /\ lmsg \in Message
  /\ lnext \in {"get", "done"}
  /\ pings \in Nat
  /\ outcome \in {"open", "drained", "error", "raised", "finished", "gone"}
  /\ run \in {"none", "running"} \cup Final
  /\ rows \in [Node -> {"none", "running", "succeeded", "failed", "exception"}]
  /\ finishes \in Seq(FinishKinds)
  /\ late \in Nat

\* The listener reaches the terminator only after the event that put it was
\* handled, whichever thread put either: listen() never runs dry over a run
\* that is still open, so the "queue listening stopped unexpectedly." error of
\* blocking mode is unreachable.
NeverEndsUnexpectedly == outcome = "drained" => run \in Final

\* Blocking mode returns a run only with its final status in the database, and
\* never sees the terminator at all.
BlockingAnswersFinal ==
  ~streaming => /\ outcome = "finished" => run \in Final
                /\ outcome # "drained"

\* The pipeline raises only at an event of a run that was never recorded, or at the
\* end of a node that failed before its start was reported: every other event finds
\* the rows it updates, though two threads feed the queue.
RaisesOnlyUnstarted ==
  [][outcome # "raised" /\ outcome' = "raised" =>
       \/ run = "none" /\ finishes = <<>>
       \/ lmsg.kind \in NodeEndKinds /\ enode[lmsg.node] = "stillborn"]_vars

\* In a run recorded as succeeded, fully or partly, the only executions left in
\* status running are inside an iteration or a loop that cut its round short before
\* they had reported their end, although the run's end and a stop may meet in the queue.
SucceededRunIsQuiet ==
  run \in {"succeeded", "partial-succeeded"} =>
    \A n \in Node : rows[n] = "running" => enode[n] = "abandoned"

\* Once the flag is up the worker publishes at most one more event, however
\* its publishing and the stop request interleave.
StopReachesWorker == late <= 1

\* Without a break the run may be finished twice, but never twice by the
\* engine nor twice by a stop: one finish per cause.
OneFinishPerCause ==
  /\ Len(finishes) <= 2
  /\ \A i, j \in DOMAIN finishes :
       i # j => (finishes[i] = "Stop") # (finishes[j] = "Stop")

\* A comment of listen() says the client stops listening once the stop signal
\* is processed: no row would change after that.
QuietAfterStop ==
  [][(\E i \in DOMAIN finishes : finishes[i] = "Stop") => UNCHANGED <<run, rows>>]_vars

\* The request thread always comes to its end, even when a node never returns
\* and nobody asks to stop; the run it recorded is finished then, unless the
\* client left, the worker failed outside the engine, or a node failed before
\* its start was reported.
RequestsEnd ==
  <>(/\ lpc = "done"
     /\ \/ run # "running"
        \/ outcome \in {"gone", "error"}
        \/ outcome = "raised" /\ \E n \in Node : enode[n] = "stillborn")

\* The response as its holder sees it.
Response == CASE outcome = "open" -> "open"
              [] outcome \in {"drained", "finished"} -> "ended"
              [] OTHER -> "cut"

Lifecycle == INSTANCE RunLifecycle WITH response <- Response

\* AppRun implements RunLifecycle.
ImplementsLifecycle == Lifecycle!Spec
-----------------------------------------------------------------------------
(* The inductive invariant behind NeverEndsUnexpectedly and the refinement. *)

\* An event that ends the listening was, or is being, dealt with.
Concluding ==
  \/ run \in Final
  \/ lnext = "done"
  \/ lpc = "handle" /\ EndsListening(lmsg.kind)

\* Such an event is in the queue, before position i.
EndsBefore(i) == \E j \in 1..Len(q) : j < i /\ EndsListening(q[j].kind)

\* A terminator never overtakes the event that put it.
TerminatorFollows ==
  /\ \A i \in 1..Len(q) : q[i].kind = "None" => Concluding \/ EndsBefore(i)
  /\ wpc = "close" \/ lpc = "close" => Concluding \/ EndsBefore(Len(q) + 1)

\* The run is started by one event, and not after it was finished.
StartsOnce ==
  /\ eng = "created" => /\ run = "none" /\ lmsg.kind # "Started"
                        /\ \A i \in 1..Len(q) : q[i].kind # "Started"
  /\ lmsg.kind = "Started" => /\ run = "none"
                              /\ \A i \in 1..Len(q) : q[i].kind # "Started"
  /\ \A i \in 1..Len(q) :
       q[i].kind = "Started" => /\ run = "none"
                                /\ \A j \in 1..Len(q) : q[j].kind = "Started" => i = j

\* The response is open exactly while the listener means to go on.
OpenWhileListening ==
  /\ outcome = "open" <=> lnext = "get"
  /\ lnext = "done" => lpc \in {"finally", "close", "ping", "done"}
  /\ lpc = "done" => lnext = "done"
  /\ lpc # "handle" => lmsg = None
  /\ lpc = "handle" => lmsg.kind # "None"

\* What the queue, the two threads and the rows owe each other at every step
\* of listen() and _publish.
IInv == TerminatorFollows /\ StartsOnce /\ OpenWhileListening /\ NeverEndsUnexpectedly
=============================================================================
