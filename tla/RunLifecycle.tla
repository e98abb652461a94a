---------------------------- MODULE RunLifecycle ----------------------------
(***************************************************************************)
(* What a workflow run promises to whoever holds its response: the run is  *)
(* recorded as running before it is finished; the response may be cut at   *)
(* any time, but it ends of itself only once the record holds a final      *)
(* status.  Of the final status it promises little: while the response is  *)
(* open the record may pass from one final status to another.              *)
(***************************************************************************)
CONSTANT Final         \* the final statuses of a run

VARIABLES run,         \* status of the run's record
          response     \* "open", "ended" (of itself) or "cut"

Init == run = "none" /\ response = "open"

Start ==
  /\ response = "open" /\ run = "none"
  /\ run' = "running"
  /\ UNCHANGED response

\* Blocking mode answers in the step that finishes the run.
Finish(status) ==
  /\ response = "open" /\ run # "none"
  /\ run' = status
  /\ response' \in {"open", "ended"}

End ==
  /\ response = "open" /\ run \in Final
  /\ response' = "ended"
  /\ UNCHANGED run

Cut ==
  /\ response = "open" /\ response' = "cut"
  /\ UNCHANGED run

Next == Start \/ (\E status \in Final : Finish(status)) \/ End \/ Cut

Spec == Init /\ [][Next]_<<run, response>>
=============================================================================
