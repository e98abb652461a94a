---------------------------- MODULE EngineStream ----------------------------
(***************************************************************************)
(* What GraphEngine.run() promises to whoever iterates over it: the order  *)
(* of the node events it yields and the condition of the verdict it ends   *)
(* with.  AppRun's engine publishes such a stream.                         *)
(***************************************************************************)
CONSTANT Node

VARIABLES report,      \* the last event yielded of each node
          verdict      \* "open", the graph event that ended the run, "closed"

Reports(s) == \E n \in Node : report[n] = s

Init == report = [n \in Node |-> "idle"] /\ verdict = "open"

\* A node is reported once as started and once as ended; an agent node may be
\* reported as failed only.  A failed node leaves nothing but the verdict.
Tell(n, s) ==
  /\ verdict = "open" /\ ~Reports("failed")
  /\ \/ report[n] = "idle" /\ s \in {"running", "failed"}
     \/ report[n] = "running" /\ s \in {"succeeded", "exception", "failed"}
  /\ report' = [report EXCEPT ![n] = s]
  /\ UNCHANGED verdict

\* Success is told when every started node was reported as ended, and it is
\* partial exactly when some node ended by its error strategy.
Succeed ==
  /\ verdict = "open" /\ ~Reports("running") /\ ~Reports("failed")
  /\ verdict' = IF Reports("exception") THEN "partial" ELSE "succeeded"
  /\ UNCHANGED report

Fail ==
  /\ verdict = "open" /\ verdict' = "failed"
  /\ UNCHANGED report

\* The consumer closed the generator.
Close ==
  /\ verdict = "open" /\ verdict' = "closed"
  /\ UNCHANGED report

Next == (\E n \in Node, s \in {"running", "succeeded", "exception", "failed"} : Tell(n, s))
          \/ Succeed \/ Fail \/ Close

Spec == Init /\ [][Next]_<<report, verdict>>
=============================================================================
