----------------------------- MODULE AppRunProofs -----------------------------
(***************************************************************************)
(* Theorems about AppRun, for any set of node executions, any users, both  *)
(* modes and any bounds.                                                   *)
(***************************************************************************)
EXTENDS AppRun, SequenceTheorems, TLAPS

USE OwnerAssumption, NodeAssumption, BoundsAssumption

\* The kinds of Next's steps, by the variables they leave alone.
LEMMA NextSteps ==
  ASSUME [Next]_vars
  PROVE  \/ Worker \/ Listen \/ Handle \/ Client
         \/ TimePasses \/ (\E user \in User : SetStopFlag(user))
         \/ StopFlagExpires \/ UNCHANGED vars
BY DEF Next, Over

\* The messages the two threads put are messages.
LEMMA Messages ==
  /\ None \in Message
  /\ \A k \in FinishKinds \cup OtherKinds : Ev(k) \in Message
  /\ \A k \in NodeKinds, n \in Node : NodeEv(k, n) \in Message
BY DEF None, Ev, NodeEv, Message, NodeKinds, NodeEndKinds, FinishKinds, OtherKinds

-----------------------------------------------------------------------------
(* Type correctness.                                                       *)

\* Whatever the worker puts, its step keeps the types.
LEMMA WorkerPutType ==
  ASSUME TypeOK, NEW m \in Message, WorkerPut(m),
         eng' \in {"created", "running", "failing", "over"},
         enode' \in [Node -> {"idle", "running", "done", "stillborn", "abandoned"}],
         \A n \in Node : enode'[n] = "abandoned" => n \in Inner,
         excepted' \in BOOLEAN
  PROVE  TypeOK'
<1>1. q' \in Seq(Message)
  BY AppendProperties DEF TypeOK, WorkerPut
<1>2. late' \in Nat /\ wpc' \in {"run", "close", "check", "exit"}
  BY DEF TypeOK, WorkerPut
<1> QED
  BY <1>1, <1>2 DEF TypeOK, WorkerPut, listenerVars, dbVars

\* The worker's steps keep the types.
LEMMA WorkerType ==
  ASSUME TypeOK, Worker
  PROVE  TypeOK'
<1>1. CASE EngineStarts
  BY <1>1, WorkerPutType, Messages DEF EngineStarts, OtherKinds, TypeOK
<1>2. CASE RunProgresses
  BY <1>2, WorkerPutType, Messages DEF RunProgresses, OtherKinds, TypeOK
<1>3. ASSUME NEW n \in Node, NodeStarts(n)
      PROVE  TypeOK'
  <2>1. /\ enode' \in [Node -> {"idle", "running", "done", "stillborn", "abandoned"}]
        /\ \A m \in Node : enode'[m] = "abandoned" => m \in Inner
    BY <1>3 DEF NodeStarts, TypeOK
  <2> QED
    BY <1>3, <2>1, WorkerPutType, Messages DEF NodeStarts, NodeKinds, TypeOK
<1>4. ASSUME NEW n \in Node, NEW k \in NodeEndKinds, NodeEnds(n, k)
      PROVE  TypeOK'
  <2>1. /\ enode' \in [Node -> {"idle", "running", "done", "stillborn", "abandoned"}]
        /\ \A m \in Node : enode'[m] = "abandoned" => m \in Inner
    BY <1>4 DEF NodeEnds, TypeOK
  <2>2. excepted' \in BOOLEAN
    BY <1>4 DEF NodeEnds, TypeOK
  <2>3. eng' \in {"created", "running", "failing", "over"}
    BY <1>4 DEF NodeEnds
  <2> QED
    BY <1>4, <2>1, <2>2, <2>3, WorkerPutType, Messages DEF NodeEnds, NodeKinds
<1>5. ASSUME NEW n \in Node, NEW k \in NodeEndKinds, NodeFailsUnstarted(n, k)
      PROVE  TypeOK'
  <2>1. /\ enode' \in [Node -> {"idle", "running", "done", "stillborn", "abandoned"}]
        /\ \A m \in Node : enode'[m] = "abandoned" => m \in Inner
    BY <1>5 DEF NodeFailsUnstarted, TypeOK
  <2>2. eng' \in {"created", "running", "failing", "over"} /\ excepted' \in BOOLEAN
    BY <1>5 DEF NodeFailsUnstarted, TypeOK
  <2> QED
    BY <1>5, <2>1, <2>2, WorkerPutType, Messages DEF NodeFailsUnstarted, NodeKinds
<1>6. CASE EngineSucceeds
  BY <1>6, WorkerPutType, Messages DEF EngineSucceeds, FinishKinds, TypeOK
<1>7. CASE EngineFails
  BY <1>7, WorkerPutType, Messages DEF EngineFails, FinishKinds, TypeOK
<1>8. CASE WorkerErrs
  BY <1>8, WorkerPutType, Messages DEF WorkerErrs, OtherKinds, TypeOK
<1>9. CASE WorkerCloses
  <2>1. q' \in Seq(Message)
    BY <1>9, Messages, AppendProperties DEF WorkerCloses, TypeOK
  <2> QED
    BY <1>9, <2>1 DEF WorkerCloses, TypeOK, listenerVars, dbVars
<1>10. CASE WorkerChecks
  BY <1>10 DEF WorkerChecks, TypeOK, listenerVars, dbVars
<1>11. CASE RoundCut
  <2>1. /\ enode' \in [Node -> {"idle", "running", "done", "stillborn", "abandoned"}]
        /\ \A m \in Node : enode'[m] = "abandoned" => m \in Inner
    BY <1>11 DEF RoundCut, TypeOK
  <2> QED
    BY <1>11, <2>1, WorkerPutType, Messages DEF RoundCut, OtherKinds, TypeOK
<1> QED
  BY <1>1, <1>2, <1>3, <1>4, <1>5, <1>6, <1>7, <1>8, <1>9, <1>10, <1>11 DEF Worker

\* The listener's steps keep the types.
LEMMA ListenType ==
  ASSUME TypeOK, Listen
  PROVE  TypeOK'
<1> USE DEF TypeOK, workerVars, dbVars
<1>1. CASE Get
  BY <1>1, HeadTailProperties DEF Get
<1>2. CASE GetNothing
  BY <1>2 DEF GetNothing
<1>3. CASE GetNone
  BY <1>3, HeadTailProperties DEF GetNone
<1>4. CASE FinallyStops
  BY <1>4, Messages, AppendProperties DEF FinallyStops, FinishKinds
<1>5. CASE FinallyCloses
  BY <1>5, Messages, AppendProperties DEF FinallyCloses
<1>6. CASE FinallyContinues
  BY <1>6 DEF FinallyContinues
<1>7. CASE Ping
  <2>1. q' \in Seq(Message)
    BY <1>7, Messages, AppendProperties DEF Ping, OtherKinds
  <2> QED
    BY <1>7, <2>1 DEF Ping
<1> QED
  BY <1>1, <1>2, <1>3, <1>4, <1>5, <1>6, <1>7 DEF Listen

\* The handlers keep the types.
LEMMA HandleType ==
  ASSUME TypeOK, Handle
  PROVE  TypeOK'
<1>1. /\ lmsg' \in Message
      /\ UNCHANGED <<q, flag, overdue, streaming, workerVars, pings>>
  BY Messages DEF Handle, HandlePing, HandleError, HandleStarted, HandleBeforeStart,
     HandleProgress, HandleNodeStarted, HandleNodeSucceeded, HandleNodeFailed,
     HandleUnknownNode, HandleSucceeded, HandlePartialSuccess, HandleFailedOrStop,
     HandlerFrame
<1>2. /\ lpc' \in {"yielded", "finally"}
      /\ lnext' \in {"get", "done"}
      /\ outcome' \in {"open", "drained", "error", "raised", "finished", "gone"}
  BY DEF TypeOK, Handle, HandlePing, HandleError, HandleStarted, HandleBeforeStart,
     HandleProgress, HandleNodeStarted, HandleNodeSucceeded, HandleNodeFailed,
     HandleUnknownNode, HandleSucceeded, HandlePartialSuccess, HandleFailedOrStop,
     FinishYields, Yields, Leaves
<1>3. run' \in {"none", "running"} \cup Final
  BY DEF TypeOK, Handle, HandlePing, HandleError, HandleStarted, HandleBeforeStart,
     HandleProgress, HandleNodeStarted, HandleNodeSucceeded, HandleNodeFailed,
     HandleUnknownNode, HandleSucceeded, HandlePartialSuccess, HandleFailedOrStop,
     RunStart, RunEnd, Final, dbVars
<1>4. rows' \in [Node -> {"none", "running", "succeeded", "failed", "exception"}]
  BY DEF TypeOK, Handle, HandlePing, HandleError, HandleStarted, HandleBeforeStart,
     HandleProgress, HandleNodeStarted, HandleNodeSucceeded, HandleNodeFailed,
     HandleUnknownNode, HandleSucceeded, HandlePartialSuccess, HandleFailedOrStop,
     NodeExecutionStart, NodeExecutionEnd, CloseRunningExecutions, dbVars
<1>5. finishes' \in Seq(FinishKinds)
  <2>1. CASE UNCHANGED finishes
    BY <2>1 DEF TypeOK
  <2>2. CASE finishes' = Append(finishes, lmsg.kind) /\ lmsg.kind \in FinishKinds
    BY <2>2, AppendProperties DEF TypeOK
  <2> QED
    BY <2>1, <2>2
       DEF Handle, HandlePing, HandleError, HandleStarted, HandleBeforeStart,
       HandleProgress, HandleNodeStarted, HandleNodeSucceeded, HandleNodeFailed,
       HandleUnknownNode, HandleSucceeded, HandlePartialSuccess, HandleFailedOrStop,
       RunEnd, Handling, FinishKinds, dbVars
<1> QED
  BY <1>1, <1>2, <1>3, <1>4, <1>5 DEF TypeOK, workerVars

\* The client, the clock and the stop flag keep the types.
LEMMA EnvironmentType ==
  ASSUME TypeOK,
         \/ Client \/ TimePasses \/ (\E user \in User : SetStopFlag(user))
         \/ StopFlagExpires
  PROVE  TypeOK'
<1> USE DEF TypeOK, workerVars, listenerVars, dbVars
<1>1. CASE Client
  BY <1>1 DEF Client, ClientPulls, ClientLeaves, Leaves
<1>2. CASE TimePasses
  BY <1>2 DEF TimePasses
<1>3. ASSUME NEW user \in User, SetStopFlag(user)
      PROVE  TypeOK'
  BY <1>3 DEF SetStopFlag
<1>4. CASE StopFlagExpires
  <2>1. late' \in Nat /\ flag' \in BOOLEAN
    BY <1>4 DEF StopFlagExpires
  <2> QED
    BY <1>4, <2>1 DEF StopFlagExpires
<1> QED
  BY <1>1, <1>2, <1>3, <1>4

\* Every variable keeps its type, whatever the number of node executions, the
\* mode and the bounds.
THEOREM TypeCorrect == Spec => []TypeOK
<1>1. Init => TypeOK
  <2> SUFFICES ASSUME Init PROVE TypeOK
    OBVIOUS
  <2>1. q \in Seq(Message) /\ finishes \in Seq(FinishKinds)
    BY DEF Init
  <2>2. lmsg \in Message
    BY Messages DEF Init
  <2>3. late \in Nat /\ pings \in 0..MaxPings
    BY DEF Init
  <2>4. flag \in BOOLEAN /\ overdue \in BOOLEAN /\ excepted \in BOOLEAN
    BY DEF Init
  <2> QED
    BY <2>1, <2>2, <2>3, <2>4 DEF Init, TypeOK
<1>2. TypeOK /\ [Next]_vars => TypeOK'
  <2> SUFFICES ASSUME TypeOK, [Next]_vars PROVE TypeOK'
    OBVIOUS
  <2>1. CASE UNCHANGED vars
    BY <2>1 DEF TypeOK, vars, workerVars, listenerVars, dbVars
  <2> QED
    BY <2>1, NextSteps, WorkerType, ListenType, HandleType, EnvironmentType
<1> QED
  BY <1>1, <1>2, PTL DEF Spec

-----------------------------------------------------------------------------
(* The inductive invariant: one lemma per way of changing the queue.       *)

\* Putting an event, or a terminator whose event went before it, at the end of
\* the queue keeps every terminator behind its event.
LEMMA PutFollows ==
  ASSUME TypeOK, TerminatorFollows, NEW m \in Message, q' = Append(q, m),
         m.kind = "None" => Concluding \/ EndsBefore(Len(q) + 1),
         Concluding => Concluding'
  PROVE  /\ \A i \in 1..Len(q') : q'[i].kind = "None" => Concluding' \/ EndsBefore(i)'
         /\ EndsListening(m.kind) \/ EndsBefore(Len(q) + 1) => EndsBefore(Len(q) + 1)'
<1>1. /\ Len(q') = Len(q) + 1 /\ Len(q) \in Nat
      /\ \A i \in 1..Len(q) : q'[i] = q[i]
      /\ q'[Len(q) + 1] = m
  BY AppendProperties DEF TypeOK
<1>2. ASSUME NEW i \in 1..Len(q'), q'[i].kind = "None"
      PROVE  Concluding' \/ EndsBefore(i)'
  <2>1. CASE i \in 1..Len(q)
    BY <1>1, <1>2, <2>1 DEF TerminatorFollows, EndsBefore
  <2>2. CASE i = Len(q) + 1
    BY <1>1, <1>2, <2>2 DEF EndsBefore
  <2> QED
    BY <1>1, <2>1, <2>2
<1>3. EndsListening(m.kind) \/ EndsBefore(Len(q) + 1) => EndsBefore(Len(q) + 1)'
  BY <1>1 DEF EndsBefore
<1> QED
  BY <1>2, <1>3

\* Putting any event but Started keeps StartsOnce, and so does the engine's one
\* Started.
LEMMA PutStarts ==
  ASSUME TypeOK, StartsOnce, NEW m \in Message, q' = Append(q, m),
         UNCHANGED <<run, lmsg>>,
         eng' = "created" => eng = "created",
         m.kind = "Started" => eng = "created" /\ eng' # "created"
  PROVE  StartsOnce'
<1>1. /\ Len(q') = Len(q) + 1 /\ Len(q) \in Nat
      /\ \A i \in 1..Len(q) : q'[i] = q[i]
      /\ q'[Len(q) + 1] = m
  BY AppendProperties DEF TypeOK
<1>2. CASE m.kind = "Started"
  BY <1>1, <1>2 DEF StartsOnce
<1>3. CASE m.kind # "Started"
  BY <1>1, <1>3 DEF StartsOnce
<1> QED
  BY <1>2, <1>3

\* Taking an event off the head of the queue, to be handled, keeps both.
LEMMA GetKeeps ==
  ASSUME TypeOK, IInv, Get
  PROVE  TerminatorFollows' /\ StartsOnce'
<1>1. /\ Len(q') = Len(q) - 1 /\ Len(q) \in Nat \ {0}
      /\ \A i \in 1..Len(q') : q'[i] = q[i + 1]
      /\ q[1] = Head(q) /\ lmsg' = q[1]
  BY HeadTailProperties DEF TypeOK, Get
<1>2. lpc = "get" /\ lnext = "get" /\ lpc' = "handle" /\ wpc' = wpc
      /\ run' = run /\ lnext' = lnext /\ eng' = eng
  BY DEF Get, IInv, OpenWhileListening, workerVars, dbVars, TypeOK
<1>3. ASSUME NEW i \in 1..Len(q)
      PROVE  Concluding \/ EndsBefore(i + 1) => Concluding' \/ EndsBefore(i)'
  <2>1. Concluding => Concluding'
    BY <1>2 DEF Concluding
  <2>2. ASSUME NEW j \in 1..Len(q), j < i + 1, EndsListening(q[j].kind)
        PROVE  Concluding' \/ EndsBefore(i)'
    <3>1. CASE j = 1
      BY <1>1, <1>2, <2>2, <3>1 DEF Concluding
    <3>2. CASE j # 1
      <4>1. j - 1 \in 1..Len(q') /\ j - 1 < i /\ q'[j - 1] = q[j]
        BY <1>1, <2>2, <3>2
      <4> QED
        BY <2>2, <4>1 DEF EndsBefore
    <3> QED
      BY <3>1, <3>2
  <2> QED
    BY <2>1, <2>2 DEF EndsBefore
<1>4. TerminatorFollows'
  <2>1. ASSUME NEW i \in 1..Len(q'), q'[i].kind = "None"
        PROVE  Concluding' \/ EndsBefore(i)'
    BY <1>1, <1>3, <2>1 DEF IInv, TerminatorFollows
  <2>2. wpc' = "close" => Concluding' \/ EndsBefore(Len(q) + 1)'
    BY <1>1, <1>2, <1>3 DEF IInv, TerminatorFollows
  <2> QED
    BY <1>2, <2>1, <2>2 DEF TerminatorFollows
<1>5. StartsOnce'
  <2>1. eng' = "created" => /\ run' = "none" /\ lmsg'.kind # "Started"
                            /\ \A i \in 1..Len(q') : q'[i].kind # "Started"
    BY <1>1, <1>2 DEF IInv, StartsOnce
  <2>2. ASSUME lmsg'.kind = "Started"
        PROVE  run' = "none" /\ \A i \in 1..Len(q') : q'[i].kind # "Started"
    <3>1. q[1].kind = "Started" /\ 1 \in 1..Len(q)
      BY <1>1, <2>2
    <3>2. \A i \in 1..Len(q') : i + 1 \in 1..Len(q) /\ i + 1 # 1
      BY <1>1
    <3> QED
      BY <1>1, <1>2, <3>1, <3>2 DEF IInv, StartsOnce
  <2>3. ASSUME NEW i \in 1..Len(q'), q'[i].kind = "Started"
        PROVE  run' = "none" /\ \A j \in 1..Len(q') : q'[j].kind = "Started" => i = j
    <3>1. \A j \in 1..Len(q') : j + 1 \in 1..Len(q)
      BY <1>1
    <3>2. q[i + 1].kind = "Started" /\ run = "none"
      BY <1>1, <2>3, <3>1 DEF IInv, StartsOnce
    <3>3. ASSUME NEW j \in 1..Len(q'), q'[j].kind = "Started"
          PROVE  i = j
      <4>1. q[j + 1].kind = "Started"
        BY <1>1, <3>3
      <4>2. i + 1 = j + 1
        BY <3>1, <3>2, <4>1 DEF IInv, StartsOnce
      <4> QED
        BY <1>1, <4>2
    <3> QED
      BY <1>2, <3>2, <3>3
  <2> QED
    BY <2>1, <2>2, <2>3 DEF StartsOnce
<1> QED
  BY <1>4, <1>5

\* The worker keeps the invariant: its terminator follows its own event.
LEMMA WorkerInv ==
  ASSUME TypeOK, IInv, Worker
  PROVE  IInv'
<1>1. UNCHANGED <<lpc, lmsg, lnext, outcome, run>>
  BY DEF Worker, EngineStarts, RunProgresses, NodeStarts, NodeEnds,
     NodeFailsUnstarted, RoundCut, EngineSucceeds, EngineFails, WorkerErrs, WorkerCloses,
     WorkerChecks, WorkerPut, listenerVars, dbVars
<1>2. Concluding' = Concluding
  BY <1>1 DEF Concluding
<1>3. OpenWhileListening' /\ NeverEndsUnexpectedly'
  BY <1>1 DEF IInv, OpenWhileListening, NeverEndsUnexpectedly
<1>4. ASSUME NEW m \in Message, WorkerPut(m), m.kind # "None",
             eng' # "created", m.kind = "Started" => eng = "created"
      PROVE  TerminatorFollows' /\ StartsOnce'
  <2>1. q' = Append(q, m) /\ (wpc' = "close" => EndsListening(m.kind))
    BY <1>4 DEF WorkerPut
  <2>2. StartsOnce'
    BY <1>1, <1>4, <2>1, PutStarts DEF IInv
  <2>3. /\ \A i \in 1..Len(q') : q'[i].kind = "None" => Concluding' \/ EndsBefore(i)'
        /\ EndsListening(m.kind) \/ EndsBefore(Len(q) + 1) => EndsBefore(Len(q) + 1)'
    BY <1>2, <1>4, <2>1, PutFollows DEF IInv
  <2>4. wpc' = "close" \/ lpc' = "close" => Concluding' \/ EndsBefore(Len(q) + 1)'
    BY <1>1, <1>2, <2>1, <2>3 DEF IInv, TerminatorFollows
  <2> QED
    BY <2>2, <2>3, <2>4 DEF TerminatorFollows
<1>5. CASE WorkerCloses
  <2>1. q' = Append(q, None) /\ wpc = "close" /\ wpc' = "check" /\ eng' = eng
    BY <1>5 DEF WorkerCloses
  <2>2. None \in Message /\ None.kind = "None"
    BY Messages DEF None
  <2>3. StartsOnce'
    BY <1>1, <2>1, <2>2, PutStarts DEF IInv
  <2>4. Concluding \/ EndsBefore(Len(q) + 1)
    BY <2>1 DEF IInv, TerminatorFollows
  <2>5. /\ \A i \in 1..Len(q') : q'[i].kind = "None" => Concluding' \/ EndsBefore(i)'
        /\ EndsBefore(Len(q) + 1) => EndsBefore(Len(q) + 1)'
    BY <1>2, <2>1, <2>2, <2>4, PutFollows DEF IInv
  <2> QED
    BY <1>2, <1>3, <2>1, <2>3, <2>4, <2>5 DEF IInv, TerminatorFollows
<1>6. CASE WorkerChecks
  <2>1. UNCHANGED <<q, eng, lpc, lmsg, run>> /\ wpc' # "close"
    BY <1>1, <1>6 DEF WorkerChecks
  <2>2. TerminatorFollows' /\ StartsOnce'
    BY <1>2, <2>1 DEF IInv, TerminatorFollows, EndsBefore, StartsOnce
  <2> QED
    BY <1>3, <2>2 DEF IInv
<1>7. CASE EngineStarts
  <2>1. Ev("Started") \in Message /\ Ev("Started").kind # "None"
    BY Messages DEF OtherKinds, Ev
  <2> QED
    BY <1>3, <1>4, <1>7, <2>1 DEF EngineStarts, IInv
<1>8. ASSUME NEW m \in Message, WorkerPut(m), m.kind \notin {"None", "Started"},
             eng' # "created"
      PROVE  IInv'
  BY <1>3, <1>4, <1>8 DEF IInv
<1>9. CASE RunProgresses \/ RoundCut
  <2>1. Ev("Progress") \in Message /\ Ev("Progress").kind = "Progress"
    BY Messages DEF OtherKinds, Ev
  <2> QED
    BY <1>8, <1>9, <2>1 DEF RunProgresses, RoundCut
<1>10. ASSUME NEW n \in Node, NEW k \in NodeKinds, WorkerPut(NodeEv(k, n)),
              eng' # "created"
       PROVE  IInv'
  <2>1. NodeEv(k, n) \in Message /\ NodeEv(k, n).kind = k
    BY Messages DEF NodeEv
  <2>2. k \notin {"None", "Started"}
    BY DEF NodeKinds, NodeEndKinds
  <2> QED
    BY <1>8, <1>10, <2>1, <2>2
<1>11. ASSUME NEW k \in FinishKinds \cup {"Error"}, WorkerPut(Ev(k)), eng' # "created"
       PROVE  IInv'
  <2>1. Ev(k) \in Message /\ Ev(k).kind = k
    BY Messages DEF Ev, OtherKinds
  <2>2. k \notin {"None", "Started"}
    BY DEF FinishKinds
  <2> QED
    BY <1>8, <1>11, <2>1, <2>2
<1>12. ASSUME NEW n \in Node, NodeStarts(n)
       PROVE  IInv'
  BY <1>10, <1>12 DEF NodeStarts, NodeKinds
<1>13. ASSUME NEW n \in Node, NEW k \in NodeEndKinds, NodeEnds(n, k)
       PROVE  IInv'
  BY <1>10, <1>13 DEF NodeEnds, NodeKinds
<1>14. ASSUME NEW n \in Node, NEW k \in NodeEndKinds, NodeFailsUnstarted(n, k)
       PROVE  IInv'
  BY <1>10, <1>14 DEF NodeFailsUnstarted, NodeKinds
<1>15. CASE EngineSucceeds \/ EngineFails \/ WorkerErrs
  BY <1>11, <1>15 DEF EngineSucceeds, EngineFails, WorkerErrs, FinishKinds
<1> QED
  BY <1>5, <1>6, <1>7, <1>9, <1>12, <1>13, <1>14, <1>15 DEF Worker

\* A message that is not the terminator has another kind.
LEMMA NoneIsOne ==
  ASSUME NEW m \in Message, m.kind = "None"
  PROVE  m = None
<1>1. m \notin [kind : NodeKinds, node : Node]
  BY DEF NodeKinds, NodeEndKinds
<1> QED
  BY <1>1 DEF Message, None

\* The terminator is met only when the run is final.
LEMMA NoneMeansFinal ==
  ASSUME TypeOK, IInv, GetNone
  PROVE  run \in Final
<1>1. q[1] = None /\ 1 \in 1..Len(q)
  BY DEF GetNone, TypeOK
<1>2. Concluding \/ EndsBefore(1)
  BY <1>1 DEF IInv, TerminatorFollows, None
<1>3. ~EndsBefore(1)
  BY DEF EndsBefore, TypeOK
<1>4. lpc = "get" /\ lnext # "done"
  BY DEF GetNone, IInv, OpenWhileListening
<1> QED
  BY <1>2, <1>3, <1>4 DEF Concluding

\* listen() keeps the invariant: the stop it publishes goes before its
\* terminator, and it breaks only on a terminator whose event was handled.
LEMMA ListenInv ==
  ASSUME TypeOK, IInv, Listen
  PROVE  IInv'
<1>1. CASE Get
  <2>1. Head(q) \in Message /\ Head(q) # None
    BY <1>1, HeadTailProperties DEF Get, TypeOK
  <2>2. OpenWhileListening' /\ NeverEndsUnexpectedly'
    BY <1>1, <2>1, NoneIsOne
       DEF Get, IInv, OpenWhileListening, NeverEndsUnexpectedly, dbVars
  <2> QED
    BY <1>1, <2>2, GetKeeps DEF IInv
<1>2. CASE GetNothing
  <2>1. /\ UNCHANGED <<q, wpc, eng, lmsg, outcome, run>>
        /\ lpc = "get" /\ lpc' = "finally" /\ lnext' = "get" /\ lnext = "get"
    BY <1>2 DEF GetNothing, workerVars, dbVars, IInv, OpenWhileListening, TypeOK
  <2>2. Concluding => Concluding'
    BY <2>1 DEF Concluding
  <2>3. TerminatorFollows'
    BY <2>1, <2>2 DEF IInv, TerminatorFollows, EndsBefore
  <2> QED
    BY <2>1, <2>3
       DEF IInv, StartsOnce, OpenWhileListening, NeverEndsUnexpectedly
<1>3. CASE GetNone
  <2>1. run \in Final /\ run' = run
    BY <1>3, NoneMeansFinal DEF GetNone, dbVars
  <2>2. TerminatorFollows'
    BY <2>1 DEF TerminatorFollows, Concluding
  <2>3. /\ Len(q') = Len(q) - 1 /\ Len(q) \in Nat \ {0}
        /\ \A i \in 1..Len(q') : q'[i] = q[i + 1]
    BY <1>3, HeadTailProperties DEF GetNone, TypeOK
  <2>4. run # "none" /\ eng' = eng /\ lmsg' = lmsg
    BY <1>3, <2>1 DEF Final, GetNone, workerVars
  <2>5. eng # "created" /\ lmsg.kind # "Started"
        /\ \A i \in 1..Len(q) : q[i].kind # "Started"
    BY <2>4 DEF IInv, StartsOnce
  <2>6. \A i \in 1..Len(q') : q'[i].kind # "Started"
    BY <2>3, <2>5
  <2>7. StartsOnce'
    BY <2>4, <2>5, <2>6 DEF StartsOnce
  <2>8. OpenWhileListening' /\ NeverEndsUnexpectedly'
    BY <1>3, <2>1 DEF GetNone, IInv, OpenWhileListening, NeverEndsUnexpectedly
  <2> QED
    BY <2>2, <2>7, <2>8 DEF IInv
<1>4. CASE FinallyStops
  <2>1. Ev("Stop") \in Message /\ Ev("Stop").kind = "Stop" /\ EndsListening("Stop")
    BY Messages DEF FinishKinds, Ev, EndsListening
  <2>2. /\ q' = Append(q, Ev("Stop"))
        /\ UNCHANGED <<wpc, eng, lmsg, lnext, outcome, run>>
        /\ lpc = "finally" /\ lpc' = "close"
    BY <1>4 DEF FinallyStops, workerVars, dbVars
  <2>3. Concluding => Concluding'
    BY <2>2 DEF Concluding
  <2>4. /\ \A i \in 1..Len(q') : q'[i].kind = "None" => Concluding' \/ EndsBefore(i)'
        /\ EndsBefore(Len(q) + 1)'
    BY <2>1, <2>2, <2>3, PutFollows DEF IInv
  <2>5. StartsOnce'
    BY <2>1, <2>2, PutStarts DEF IInv
  <2> QED
    BY <2>2, <2>4, <2>5
       DEF IInv, TerminatorFollows, OpenWhileListening, NeverEndsUnexpectedly
<1>5. CASE FinallyCloses
  <2>1. None \in Message /\ None.kind = "None"
    BY Messages DEF None
  <2>2. /\ q' = Append(q, None)
        /\ UNCHANGED <<wpc, eng, lmsg, lnext, outcome, run>>
        /\ lpc = "close" /\ lpc' = "ping"
    BY <1>5 DEF FinallyCloses, workerVars, dbVars
  <2>3. Concluding => Concluding'
    BY <2>2 DEF Concluding
  <2>4. Concluding \/ EndsBefore(Len(q) + 1)
    BY <2>2 DEF IInv, TerminatorFollows
  <2>5. /\ \A i \in 1..Len(q') : q'[i].kind = "None" => Concluding' \/ EndsBefore(i)'
        /\ EndsBefore(Len(q) + 1) => EndsBefore(Len(q) + 1)'
    BY <2>1, <2>2, <2>3, <2>4, PutFollows DEF IInv
  <2>6. StartsOnce'
    BY <2>1, <2>2, PutStarts DEF IInv
  <2> QED
    BY <2>2, <2>3, <2>4, <2>5, <2>6
       DEF IInv, TerminatorFollows, OpenWhileListening, NeverEndsUnexpectedly
<1>6. CASE FinallyContinues
  <2>1. /\ UNCHANGED <<q, wpc, eng, lmsg, lnext, outcome, run>>
        /\ lpc = "finally" /\ lpc' = "ping"
    BY <1>6 DEF FinallyContinues, workerVars, dbVars
  <2>2. Concluding => Concluding'
    BY <2>1 DEF Concluding
  <2>3. TerminatorFollows'
    BY <2>1, <2>2 DEF IInv, TerminatorFollows, EndsBefore
  <2> QED
    BY <2>1, <2>3
       DEF IInv, StartsOnce, OpenWhileListening, NeverEndsUnexpectedly
<1>7. CASE Ping
  <2>1. /\ UNCHANGED <<wpc, eng, lmsg, lnext, outcome, run>>
        /\ lpc = "ping" /\ lpc' = lnext /\ lnext \in {"get", "done"}
    BY <1>7 DEF Ping, workerVars, dbVars, TypeOK
  <2>2. Concluding => Concluding'
    BY <2>1 DEF Concluding
  <2>3. OpenWhileListening' /\ NeverEndsUnexpectedly'
    BY <2>1 DEF IInv, OpenWhileListening, NeverEndsUnexpectedly
  <2>4. CASE q' = q
    BY <2>1, <2>2, <2>3, <2>4 DEF IInv, TerminatorFollows, EndsBefore, StartsOnce
  <2>5. CASE q' = Append(q, Ev("Ping"))
    <3>1. Ev("Ping") \in Message /\ Ev("Ping").kind = "Ping"
      BY Messages DEF OtherKinds, Ev
    <3>2. /\ \A i \in 1..Len(q') : q'[i].kind = "None" => Concluding' \/ EndsBefore(i)'
          /\ EndsBefore(Len(q) + 1) => EndsBefore(Len(q) + 1)'
      BY <2>2, <2>5, <3>1, PutFollows DEF IInv
    <3>3. StartsOnce'
      BY <2>1, <2>5, <3>1, PutStarts DEF IInv
    <3> QED
      BY <2>1, <2>2, <2>3, <3>2, <3>3 DEF IInv, TerminatorFollows
  <2> QED
    BY <1>7, <2>4, <2>5 DEF Ping
<1> QED
  BY <1>1, <1>2, <1>3, <1>4, <1>5, <1>6, <1>7 DEF Listen

\* What a handler does to the run and to the response.
LEMMA HandlerCases ==
  ASSUME TypeOK, IInv, Handle
  PROVE  /\ UNCHANGED <<q, wpc, eng>>
         /\ lpc = "handle" /\ lmsg' = None /\ outcome = "open"
         /\ \/ lpc' = "yielded" /\ UNCHANGED <<lnext, outcome>>
            \/ /\ lpc' = "finally" /\ lnext' = "done"
               /\ outcome' \in {"error", "raised"} /\ run' = run
            \/ /\ lpc' = "finally" /\ lnext' = "done"
               /\ outcome' = "finished" /\ run' \in Final
         /\ \/ run' = run
            \/ run = "none" /\ run' = "running" /\ lmsg.kind = "Started"
            \/ run # "none" /\ run' \in Final
         /\ EndsListening(lmsg.kind) => run' \in Final \/ lnext' = "done"
<1>1. UNCHANGED <<q, wpc, eng>> /\ lpc = "handle" /\ lmsg' = None
  BY DEF Handle, HandlePing, HandleError, HandleStarted, HandleBeforeStart,
     HandleProgress, HandleNodeStarted, HandleNodeSucceeded, HandleNodeFailed,
     HandleUnknownNode, HandleSucceeded, HandlePartialSuccess, HandleFailedOrStop,
     HandlerFrame, Handling, workerVars
<1>2. lnext = "get" /\ outcome = "open"
  BY <1>1 DEF IInv, OpenWhileListening, TypeOK
<1>3. CASE HandlePing \/ HandleProgress
  BY <1>1, <1>2, <1>3
     DEF HandlePing, HandleProgress, Handling, Yields, dbVars, EndsListening,
         FinishKinds
<1>4. CASE HandleError \/ HandleBeforeStart \/ HandleUnknownNode
  BY <1>1, <1>2, <1>4
     DEF HandleError, HandleBeforeStart, HandleUnknownNode, Leaves, dbVars
<1>5. CASE HandleStarted
  <2>1. run = "none"
    BY <1>5 DEF HandleStarted, Handling, IInv, StartsOnce
  <2> QED
    BY <1>1, <1>2, <1>5, <2>1
       DEF HandleStarted, RunStart, Handling, Yields, EndsListening, FinishKinds
<1>6. CASE HandleNodeStarted \/ HandleNodeSucceeded \/ HandleNodeFailed
  BY <1>1, <1>2, <1>6
     DEF HandleNodeStarted, HandleNodeSucceeded, HandleNodeFailed, Handling, Yields,
         EndsListening, FinishKinds, NodeEndKinds
<1>7. CASE HandleSucceeded \/ HandlePartialSuccess \/ HandleFailedOrStop
  <2>1. run # "none" /\ run' \in Final
    BY <1>7 DEF HandleSucceeded, HandlePartialSuccess, HandleFailedOrStop, RunEnd, Final
  <2>2. FinishYields
    BY <1>7 DEF HandleSucceeded, HandlePartialSuccess, HandleFailedOrStop
  <2> QED
    BY <1>1, <1>2, <2>1, <2>2 DEF FinishYields, Yields, Leaves
<1> QED
  BY <1>3, <1>4, <1>5, <1>6, <1>7 DEF Handle

\* Handling an event keeps the invariant.
LEMMA HandleInv ==
  ASSUME TypeOK, IInv, Handle
  PROVE  IInv'
<1> USE HandlerCases
<1>1. Concluding => Concluding'
  <2>1. lpc = "handle" /\ lnext = "get"
    BY DEF IInv, OpenWhileListening, TypeOK
  <2>2. run \in Final => run' \in Final
    BY DEF Final
  <2> QED
    BY <2>1, <2>2 DEF Concluding
<1>2. TerminatorFollows'
  BY <1>1 DEF IInv, TerminatorFollows, EndsBefore
<1>3. StartsOnce'
  <2>1. lmsg'.kind = "None"
    BY DEF None
  <2>2. eng = "created" \/ (\E i \in 1..Len(q) : q[i].kind = "Started") => run' = run
    BY DEF IInv, StartsOnce
  <2> QED
    BY <2>1, <2>2 DEF IInv, StartsOnce
<1>4. OpenWhileListening'
  BY DEF IInv, OpenWhileListening
<1>5. NeverEndsUnexpectedly'
  BY DEF NeverEndsUnexpectedly
<1> QED
  BY <1>2, <1>3, <1>4, <1>5 DEF IInv

\* The client, the clock and the stop flag keep the invariant.
LEMMA EnvironmentInv ==
  ASSUME TypeOK, IInv,
         \/ Client \/ TimePasses \/ (\E user \in User : SetStopFlag(user))
         \/ StopFlagExpires \/ UNCHANGED vars
  PROVE  IInv'
<1>1. CASE Client
  <2>1. /\ UNCHANGED <<q, wpc, eng, lmsg, run>>
        /\ lpc = "yielded" /\ lpc' = "finally"
        /\ \/ lnext' = "get" /\ outcome' = outcome
           \/ lnext' = "done" /\ outcome' = "gone"
    BY <1>1 DEF Client, ClientPulls, ClientLeaves, Leaves, workerVars, dbVars
  <2>2. lnext = "get" /\ outcome = "open"
    BY <2>1 DEF IInv, OpenWhileListening, TypeOK
  <2>3. Concluding => Concluding'
    BY <2>1, <2>2 DEF Concluding
  <2>4. TerminatorFollows'
    BY <2>1, <2>3 DEF IInv, TerminatorFollows, EndsBefore
  <2> QED
    BY <2>1, <2>2, <2>4
       DEF IInv, StartsOnce, OpenWhileListening, NeverEndsUnexpectedly
<1>2. CASE \/ TimePasses \/ (\E user \in User : SetStopFlag(user))
           \/ StopFlagExpires \/ UNCHANGED vars
  <2>1. UNCHANGED <<q, wpc, eng, lpc, lmsg, lnext, outcome, run>>
    BY <1>2 DEF TimePasses, SetStopFlag, StopFlagExpires, vars, workerVars,
                listenerVars, dbVars
  <2> QED
    BY <2>1 DEF IInv, TerminatorFollows, Concluding, EndsBefore, StartsOnce,
                OpenWhileListening, NeverEndsUnexpectedly
<1> QED
  BY <1>1, <1>2

\* The inductive invariant holds throughout.
THEOREM Invariance == Spec => []IInv
<1>1. Init => IInv
  BY DEF Init, IInv, TerminatorFollows, StartsOnce, OpenWhileListening,
         NeverEndsUnexpectedly, None
<1>2. TypeOK /\ IInv /\ [Next]_vars => IInv'
  BY NextSteps, WorkerInv, ListenInv, HandleInv, EnvironmentInv
<1> QED
  BY <1>1, <1>2, TypeCorrect, PTL DEF Spec

\* The listener runs dry only over a run that is final: the error "queue
\* listening stopped unexpectedly." cannot happen, for any number of node
\* executions and any interleaving of the two threads.
THEOREM ListenerNeverRunsDry == Spec => []NeverEndsUnexpectedly
<1>1. IInv => NeverEndsUnexpectedly
  BY DEF IInv
<1> QED
  BY <1>1, Invariance, PTL

\* In blocking mode the first finish ends the response, so that the response is
\* finished exactly while the run is.
BlockingInv == /\ ~streaming => (run \in Final <=> outcome = "finished")
               /\ ~streaming => outcome # "drained"

\* A handler of blocking mode finishes the run and the response together.
LEMMA BlockingHandles ==
  ASSUME TypeOK, IInv, BlockingInv, Handle
  PROVE  BlockingInv'
<1>1. outcome = "open" /\ streaming' = streaming
  BY HandlerCases
     DEF Handle, HandlePing, HandleError, HandleStarted, HandleBeforeStart,
     HandleProgress, HandleNodeStarted, HandleNodeSucceeded, HandleNodeFailed,
     HandleUnknownNode, HandleSucceeded, HandlePartialSuccess, HandleFailedOrStop,
     HandlerFrame
<1>2. CASE \/ HandleSucceeded \/ HandlePartialSuccess \/ HandleFailedOrStop
  BY <1>1, <1>2
     DEF HandleSucceeded, HandlePartialSuccess, HandleFailedOrStop, RunEnd, Final,
         FinishYields, Leaves, BlockingInv
<1>3. CASE \/ HandlePing \/ HandleError \/ HandleBeforeStart \/ HandleProgress
           \/ HandleUnknownNode \/ HandleNodeStarted \/ HandleNodeSucceeded
           \/ HandleNodeFailed
  BY <1>1, <1>3
     DEF HandlePing, HandleError, HandleBeforeStart, HandleProgress,
         HandleUnknownNode, HandleNodeStarted, HandleNodeSucceeded,
         HandleNodeFailed, Yields, Leaves, BlockingInv, dbVars
<1>4. CASE HandleStarted
  BY <1>1, <1>4 DEF HandleStarted, RunStart, Yields, BlockingInv, Final
<1> QED
  BY <1>2, <1>3, <1>4 DEF Handle

\* Blocking mode returns only runs that are final, and never meets the
\* terminator.
THEOREM BlockingIsFinal == Spec => []BlockingAnswersFinal
<1>1. Init => BlockingInv
  BY DEF Init, BlockingInv, Final
<1>2. TypeOK /\ IInv /\ BlockingInv /\ [Next]_vars => BlockingInv'
  <2> SUFFICES ASSUME TypeOK, IInv, BlockingInv, [Next]_vars PROVE BlockingInv'
    OBVIOUS
  <2>1. CASE Handle
    BY <2>1, BlockingHandles
  <2>2. CASE GetNone
    <3>1. lnext = "get" /\ outcome = "open"
      BY <2>2 DEF GetNone, IInv, OpenWhileListening, TypeOK
    <3>2. q # <<>> /\ q[1].kind = "None"
      BY <2>2 DEF GetNone, None, TypeOK
    <3>3. Concluding
      BY <3>2 DEF IInv, TerminatorFollows, EndsBefore, TypeOK
    <3>4. run \in Final
      BY <2>2, <3>1, <3>3 DEF Concluding, GetNone
    <3> QED
      BY <2>2, <3>1, <3>4 DEF GetNone, BlockingInv, dbVars
  <2>3. CASE ClientLeaves
    BY <2>3 DEF ClientLeaves, BlockingInv, Leaves, dbVars
  <2>4. CASE \/ Worker \/ Get \/ GetNothing \/ FinallyStops \/ FinallyCloses
             \/ FinallyContinues \/ Ping \/ ClientPulls \/ TimePasses
             \/ (\E user \in User : SetStopFlag(user)) \/ StopFlagExpires
             \/ UNCHANGED vars
    <3>1. UNCHANGED <<streaming, run, outcome>>
      BY <2>4
         DEF Worker, EngineStarts, RunProgresses, NodeStarts, NodeEnds,
             NodeFailsUnstarted, RoundCut, EngineSucceeds, EngineFails, WorkerErrs,
             WorkerPut, WorkerCloses, WorkerChecks, Get, GetNothing,
             FinallyStops, FinallyCloses, FinallyContinues, Ping, ClientPulls,
             TimePasses, SetStopFlag, StopFlagExpires, vars, listenerVars,
             dbVars
    <3> QED
      BY <3>1 DEF BlockingInv
  <2> QED
    BY <2>1, <2>2, <2>3, <2>4, NextSteps DEF Listen, Client
<1>3. BlockingInv => BlockingAnswersFinal
  BY DEF BlockingInv, BlockingAnswersFinal
<1> QED
  BY <1>1, <1>2, <1>3, TypeCorrect, Invariance, PTL DEF Spec

-----------------------------------------------------------------------------
(* The refinement.                                                         *)

\* A handler's step is a step of the run's life cycle, or a stutter.
LEMMA HandleRefines ==
  ASSUME TypeOK, IInv, Handle
  PROVE  [Lifecycle!Next]_<<run, Response>>
<1>1. Response = "open"
  BY HandlerCases DEF Response
<1>2. CASE lpc' = "yielded" /\ UNCHANGED <<lnext, outcome>>
  <2>1. Response' = "open"
    BY <1>2, HandlerCases DEF Response
  <2> QED
    BY <1>1, <2>1, HandlerCases DEF Lifecycle!Next, Lifecycle!Start, Lifecycle!Finish
<1>3. CASE outcome' \in {"error", "raised"} /\ run' = run
  <2>1. Response' = "cut"
    BY <1>3 DEF Response
  <2> QED
    BY <1>1, <1>3, <2>1 DEF Lifecycle!Next, Lifecycle!Cut
<1>4. CASE outcome' = "finished" /\ run' \in Final
  <2>1. Response' = "ended"
    BY <1>4 DEF Response
  <2>2. CASE run = "none" /\ run' = "running"
    BY <1>4, <2>2 DEF Final
  <2>3. CASE run # "none" /\ run' \in Final
    BY <1>1, <2>1, <2>3 DEF Lifecycle!Next, Lifecycle!Finish
  <2>4. CASE run' = run
    BY <1>1, <1>4, <2>1, <2>4 DEF Lifecycle!Next, Lifecycle!End
  <2> QED
    BY <2>2, <2>3, <2>4, HandlerCases
<1> QED
  BY <1>2, <1>3, <1>4, HandlerCases

\* Every step of the run is a step of its life cycle, or a stutter.
LEMMA StepRefines ==
  ASSUME TypeOK, IInv, [Next]_vars
  PROVE  [Lifecycle!Next]_<<run, Response>>
<1>1. CASE Worker
  <2>1. UNCHANGED <<run, outcome>>
    BY <1>1 DEF Worker, EngineStarts, RunProgresses, NodeStarts, NodeEnds,
       NodeFailsUnstarted, RoundCut, EngineSucceeds, EngineFails, WorkerErrs, WorkerCloses,
       WorkerChecks, WorkerPut, listenerVars, dbVars
  <2> QED
    BY <2>1 DEF Response
<1>2. CASE GetNone
  <2>1. run \in Final /\ run' = run
    BY <1>2, NoneMeansFinal DEF GetNone, dbVars
  <2>2. outcome = "open" /\ outcome' = "drained"
    BY <1>2 DEF GetNone, IInv, OpenWhileListening, TypeOK
  <2>3. Response = "open" /\ Response' = "ended"
    BY <2>2 DEF Response
  <2> QED
    BY <2>1, <2>3 DEF Lifecycle!Next, Lifecycle!End
<1>3. CASE \/ Get \/ GetNothing \/ FinallyStops \/ FinallyCloses \/ FinallyContinues
           \/ Ping
  <2>1. UNCHANGED <<run, outcome>>
    BY <1>3 DEF Get, GetNothing, FinallyStops, FinallyCloses, FinallyContinues,
       Ping, dbVars
  <2> QED
    BY <2>1 DEF Response
<1>4. CASE Client
  <2>1. run' = run /\ outcome = "open" /\ outcome' \in {"open", "gone"}
    BY <1>4 DEF Client, ClientPulls, ClientLeaves, Leaves, dbVars, IInv,
                OpenWhileListening, TypeOK
  <2>2. Response = "open" /\ Response' \in {"open", "cut"}
    BY <2>1 DEF Response
  <2> QED
    BY <2>1, <2>2 DEF Lifecycle!Next, Lifecycle!Cut
<1>5. CASE \/ TimePasses \/ (\E user \in User : SetStopFlag(user))
           \/ StopFlagExpires \/ UNCHANGED vars
  <2>1. UNCHANGED <<run, outcome>>
    BY <1>5 DEF TimePasses, SetStopFlag, StopFlagExpires, vars, listenerVars, dbVars
  <2> QED
    BY <2>1 DEF Response
<1> QED
  BY <1>1, <1>2, <1>3, <1>4, <1>5, NextSteps, HandleRefines DEF Listen

\* AppRun implements RunLifecycle: the response ends of itself only after the
\* run's record is final, and the record is started once, before it is finished.
THEOREM RefinesLifecycle == Spec => ImplementsLifecycle
<1>1. Init => Lifecycle!Init
  BY DEF Init, Lifecycle!Init, Response
<1>2. TypeOK /\ IInv /\ [Next]_vars => [Lifecycle!Next]_<<run, Response>>
  BY StepRefines
<1> QED
  BY <1>1, <1>2, TypeCorrect, Invariance, PTL DEF Spec, ImplementsLifecycle, Lifecycle!Spec

-----------------------------------------------------------------------------
(* The stop flag.                                                          *)

\* An event put under the flag is the worker's last: it is at the check.
LateIsLast == late \in {0, 1} /\ (late = 1 => flag /\ wpc # "run")

\* Once the stop flag is up the worker publishes at most one more event.
THEOREM StopIsSeen == Spec => []StopReachesWorker
<1>1. Init => LateIsLast
  BY DEF Init, LateIsLast
<1>2. LateIsLast /\ [Next]_vars => LateIsLast'
  <2> SUFFICES ASSUME LateIsLast, [Next]_vars PROVE LateIsLast'
    OBVIOUS
  <2>1. ASSUME NEW m, WorkerPut(m)
        PROVE  LateIsLast'
    BY <2>1 DEF WorkerPut, LateIsLast
  <2>2. CASE Worker
    BY <2>1, <2>2
       DEF Worker, EngineStarts, RunProgresses, NodeStarts, NodeEnds,
           NodeFailsUnstarted, RoundCut, EngineSucceeds, EngineFails, WorkerErrs, WorkerCloses,
           WorkerChecks, LateIsLast
  <2>3. CASE Listen
    BY <2>3 DEF Listen, Get, GetNothing, GetNone, FinallyStops, FinallyCloses,
                FinallyContinues, Ping, workerVars, LateIsLast
  <2>4. CASE Handle
    BY <2>4 DEF Handle, HandlePing, HandleError, HandleStarted, HandleBeforeStart,
       HandleProgress, HandleNodeStarted, HandleNodeSucceeded, HandleNodeFailed,
       HandleUnknownNode, HandleSucceeded, HandlePartialSuccess, HandleFailedOrStop,
       HandlerFrame, workerVars, LateIsLast
  <2>5. CASE Client \/ TimePasses
    BY <2>5 DEF Client, ClientPulls, ClientLeaves, TimePasses, workerVars, LateIsLast
  <2>6. ASSUME NEW user \in User, SetStopFlag(user)
        PROVE  LateIsLast'
    BY <2>6 DEF SetStopFlag, workerVars, LateIsLast
  <2>7. CASE StopFlagExpires
    BY <2>7 DEF StopFlagExpires, LateIsLast
  <2>8. CASE UNCHANGED vars
    BY <2>8 DEF vars, workerVars, LateIsLast
  <2> QED
    BY <2>2, <2>3, <2>4, <2>5, <2>6, <2>7, <2>8, NextSteps
<1>3. LateIsLast => StopReachesWorker
  BY DEF LateIsLast, StopReachesWorker
<1> QED
  BY <1>1, <1>2, <1>3, PTL DEF Spec

-----------------------------------------------------------------------------
(* The rows and the finishes.                                              *)

SuccessKinds    == {"Succeeded", "PartialSuccess"}
SuccessStatuses == {"succeeded", "partial-succeeded"}

IsStart(m, n) == m.kind = "NodeStarted" /\ m.node = n
IsEnd(m, n)   == m.kind \in NodeEndKinds /\ m.node = n

\* At position j the row of n is set to running: it was, or is being, if j = 0.
OpensRow(n, j) == IF j = 0 THEN rows[n] = "running" \/ IsStart(lmsg, n)
                           ELSE IsStart(q[j], n)

\* The end of n comes after position j and before i.
Shut(n, j, i) == \/ j = 0 /\ IsEnd(lmsg, n)
                 \/ \E k \in 1..Len(q) : j < k /\ k < i /\ IsEnd(q[k], n)

SuccessAt(i) == IF i = 0 THEN lmsg.kind \in SuccessKinds \/ run \in SuccessStatuses
                         ELSE q[i].kind \in SuccessKinds

\* The event of a node's end is put while the engine has the node, and the engine
\* succeeds after the ends of all nodes but the abandoned.
EndsFollow ==
  \A n \in Node, j \in 0..Len(q) :
    OpensRow(n, j) => enode[n] \in {"running", "abandoned"} \/ Shut(n, j, Len(q) + 1)
SuccessIsLast ==
  \A i \in 0..Len(q) : SuccessAt(i) =>
    /\ eng = "over"
    /\ \A n \in Node, j \in 0..Len(q) :
         enode[n] # "abandoned" /\ OpensRow(n, j) => j < i /\ Shut(n, j, i)

QuietInv == /\ SucceededRunIsQuiet
            /\ lnext = "get" => EndsFollow /\ SuccessIsLast

\* A start of n was handled, is being handled, or is in the queue before i.
StartKnown(n, i) == \/ rows[n] # "none" \/ IsStart(lmsg, n)
                    \/ \E j \in 1..Len(q) : j < i /\ IsStart(q[j], n)

\* The end of a node that was started comes after its start.
StartsFirst ==
  \A n \in Node :
    /\ enode[n] \in {"running", "done", "abandoned"} => StartKnown(n, Len(q) + 1)
    /\ \A i \in 1..Len(q) :
         IsEnd(q[i], n) => enode[n] = "stillborn" \/ StartKnown(n, i)
    /\ IsEnd(lmsg, n) => enode[n] = "stillborn" \/ rows[n] # "none"

RaiseInv == /\ run = "none" => finishes = <<>>
            /\ lnext = "get" => StartsFirst

\* What a step that raises is at.
RaisesAtUnstarted ==
  outcome # "raised" /\ outcome' = "raised" =>
    \/ run = "none" /\ finishes = <<>>
    \/ lmsg.kind \in NodeEndKinds /\ enode[lmsg.node] = "stillborn"

EngineKinds == FinishKinds \ {"Stop"}
StopKinds   == {"Stop"}

\* A finish of one of the kinds of K: handled or being handled, if i = 0, or to come.
Finished(K)    == \E i \in DOMAIN finishes : finishes[i] \in K
FinishAt(K, i) == IF i = 0 THEN lmsg.kind \in K \/ Finished(K) ELSE q[i].kind \in K
NoneBetween(i, j) == \E k \in 1..Len(q) : i < k /\ k < j /\ q[k].kind = "None"

\* The engine finishes once.  A terminator comes between any two stops: the listener
\* puts one after each stop before it puts another.
EngineFinishesOnce ==
  /\ \A i \in 0..Len(q) : FinishAt(EngineKinds, i) => eng = "over"
  /\ \A i, j \in 0..Len(q) :
       FinishAt(EngineKinds, i) /\ FinishAt(EngineKinds, j) => i = j
  /\ lmsg.kind \in EngineKinds => ~Finished(EngineKinds)
StopsApart ==
  /\ \A i, j \in 0..Len(q) :
       i < j /\ FinishAt(StopKinds, i) /\ FinishAt(StopKinds, j) => NoneBetween(i, j)
  /\ lpc # "close" =>
       \A i \in 0..Len(q) : FinishAt(StopKinds, i) => NoneBetween(i, Len(q) + 1)
  /\ lmsg.kind \in StopKinds => ~Finished(StopKinds)

FinishInv == /\ OneFinishPerCause
             /\ lnext = "get" => EngineFinishesOnce /\ StopsApart

\* What a handler does to the rows and the histories.
LEMMA HandlerEffects ==
  ASSUME TypeOK, IInv, Handle
  PROVE  /\ UNCHANGED <<q, eng, enode>>
         /\ lpc = "handle" /\ lpc' # "close" /\ lmsg' = None /\ lnext = "get"
         /\ outcome' \in {"open", "error", "raised", "finished"}
         /\ \/ /\ UNCHANGED <<run, rows, finishes>>
               /\ lnext' = "done" \/ lmsg.kind \in {"Ping", "Progress"}
               /\ outcome' = "raised" =>
                    \/ run = "none"
                    \/ lmsg.kind \in NodeEndKinds /\ rows[lmsg.node] = "none"
            \/ /\ run = "none" /\ run' = "running" /\ lmsg.kind = "Started"
               /\ UNCHANGED <<rows, finishes>> /\ outcome' # "raised"
            \/ /\ lmsg.kind = "NodeStarted"
               /\ rows' = [rows EXCEPT ![lmsg.node] = "running"]
               /\ UNCHANGED <<run, finishes>> /\ outcome' # "raised"
            \/ /\ lmsg.kind \in NodeEndKinds
               /\ \E s \in {"succeeded", "failed", "exception"} :
                    rows' = [rows EXCEPT ![lmsg.node] = s]
               /\ UNCHANGED <<run, finishes>> /\ outcome' # "raised"
            \/ /\ lmsg.kind \in FinishKinds /\ finishes' = Append(finishes, lmsg.kind)
               /\ run # "none" /\ run' \in Final /\ outcome' # "raised"
               /\ \/ rows' = rows /\ lmsg.kind \in SuccessKinds
                  \/ CloseRunningExecutions /\ run' \notin SuccessStatuses
<1>1. UNCHANGED <<q, eng, enode>> /\ lpc = "handle" /\ lmsg' = None
  BY DEF Handle, HandlePing, HandleError, HandleStarted, HandleBeforeStart,
     HandleProgress, HandleNodeStarted, HandleNodeSucceeded, HandleNodeFailed,
     HandleUnknownNode, HandleSucceeded, HandlePartialSuccess, HandleFailedOrStop,
     HandlerFrame, Handling, workerVars
<1>2. lnext = "get" /\ outcome = "open"
  BY <1>1 DEF IInv, OpenWhileListening, TypeOK
<1>3. CASE HandlePing \/ HandleProgress
  BY <1>1, <1>2, <1>3 DEF HandlePing, HandleProgress, Handling, Yields, dbVars
<1>4. CASE HandleError \/ HandleBeforeStart \/ HandleUnknownNode
  BY <1>1, <1>2, <1>4
     DEF HandleError, HandleBeforeStart, HandleUnknownNode, Leaves, dbVars, ExecutionFound
<1>5. CASE HandleStarted
  <2>1. run = "none"
    BY <1>5 DEF HandleStarted, Handling, IInv, StartsOnce
  <2> QED
    BY <1>1, <1>2, <1>5, <2>1 DEF HandleStarted, RunStart, Handling, Yields
<1>6. CASE HandleNodeStarted \/ HandleNodeSucceeded \/ HandleNodeFailed
  BY <1>1, <1>2, <1>6
     DEF HandleNodeStarted, HandleNodeSucceeded, HandleNodeFailed, Handling, Yields,
         NodeExecutionStart, NodeExecutionEnd, NodeEndKinds
<1>7. CASE HandleSucceeded \/ HandlePartialSuccess
  BY <1>1, <1>2, <1>7
     DEF HandleSucceeded, HandlePartialSuccess, RunEnd, Handling, Final, FinishKinds,
         SuccessKinds, FinishYields, Yields, Leaves
<1>8. CASE HandleFailedOrStop
  BY <1>1, <1>2, <1>8
     DEF HandleFailedOrStop, RunEnd, Final, FinishKinds, SuccessStatuses,
         FinishYields, Yields, Leaves
<1> QED
  BY <1>3, <1>4, <1>5, <1>6, <1>7, <1>8 DEF Handle

\* What is put is the last of the queue, and the rest is as it was.
LEMMA PutAt ==
  ASSUME TypeOK, NEW m \in Message, q' = Append(q, m)
  PROVE  /\ Len(q') = Len(q) + 1 /\ Len(q) \in Nat
         /\ \A i \in 1..Len(q) : q'[i] = q[i]
         /\ q'[Len(q) + 1] = m
BY AppendProperties DEF TypeOK

\* Get takes the first of the queue and moves the rest up.
LEMMA GetAt ==
  ASSUME TypeOK, IInv, Get
  PROVE  /\ Len(q') = Len(q) - 1 /\ Len(q) \in Nat \ {0}
         /\ \A i \in 1..Len(q') : q'[i] = q[i + 1]
         /\ lmsg' = q[1] /\ lmsg = None /\ lnext = "get" /\ lpc = "get" /\ lpc' = "handle"
         /\ UNCHANGED <<eng, enode, run, rows, finishes, lnext, outcome>>
         /\ q[1].kind # "None"
<1>1. /\ Len(q') = Len(q) - 1 /\ Len(q) \in Nat \ {0}
      /\ \A i \in 1..Len(q') : q'[i] = q[i + 1]
      /\ lmsg' = q[1] /\ q[1] \in Message /\ q[1] # None
  BY HeadTailProperties DEF TypeOK, Get
<1>2. q[1].kind # "None"
  BY <1>1, NoneIsOne
<1> QED
  BY <1>1, <1>2 DEF Get, IInv, OpenWhileListening, TypeOK, workerVars, dbVars

\* The steps other than the handlers', Get and those of the worker: what they put
\* is a stop, a terminator or a ping, and no row changes.
LEMMA QuietSteps ==
  ASSUME TypeOK, IInv, [Next]_vars
  PROVE  \/ Worker /\ UNCHANGED <<lpc, lmsg, lnext, outcome, run, rows, finishes>>
         \/ Handle
         \/ Get
         \/ /\ UNCHANGED <<eng, enode, lmsg, run, rows, finishes>>
            /\ outcome' = "raised" => outcome = "raised"
            /\ \/ lnext' = "done"
               \/ /\ lnext' = "get" /\ lnext = "get" /\ q' = q
                  /\ lpc' = "close" <=> lpc = "close"
               \/ /\ lnext' = "get" /\ lnext = "get"
                  /\ \/ q' = Append(q, Ev("Stop")) /\ lpc # "close" /\ lpc' = "close"
                     \/ q' = Append(q, None) /\ lpc = "close" /\ lpc' # "close"
                     \/ q' = Append(q, Ev("Ping")) /\ lpc # "close" /\ lpc' # "close"
<1>1. CASE Worker
  BY <1>1 DEF Worker, EngineStarts, RunProgresses, NodeStarts, NodeEnds,
     NodeFailsUnstarted, RoundCut, EngineSucceeds, EngineFails, WorkerErrs, WorkerCloses,
     WorkerChecks, WorkerPut, listenerVars, dbVars
<1>2. CASE GetNothing \/ GetNone
  BY <1>2 DEF GetNothing, GetNone, workerVars, dbVars, IInv, OpenWhileListening, TypeOK
<1>3. CASE FinallyStops \/ FinallyCloses \/ FinallyContinues
  BY <1>3 DEF FinallyStops, FinallyCloses, FinallyContinues, workerVars, dbVars, TypeOK
<1>4. CASE Ping
  BY <1>4 DEF Ping, workerVars, dbVars, TypeOK
<1>5. CASE Client
  BY <1>5 DEF Client, ClientPulls, ClientLeaves, Leaves, workerVars, dbVars, IInv,
              OpenWhileListening, TypeOK
<1>6. CASE \/ TimePasses \/ (\E user \in User : SetStopFlag(user))
           \/ StopFlagExpires \/ UNCHANGED vars
  BY <1>6 DEF TimePasses, SetStopFlag, StopFlagExpires, vars, workerVars, listenerVars,
              dbVars, TypeOK
<1> QED
  BY <1>1, <1>2, <1>3, <1>4, <1>5, <1>6, NextSteps DEF Listen

\* What the worker does to the queue, with what the engine knows of the nodes.
LEMMA WorkerEffects ==
  ASSUME TypeOK, Worker
  PROVE  \/ UNCHANGED <<q, eng, enode>>
         \/ q' = Append(q, None) /\ UNCHANGED <<eng, enode>>
         \/ /\ \E k \in {"Started", "Progress"} : q' = Append(q, Ev(k))
            /\ eng # "over" /\ enode' = enode
         \/ \E n \in Node :
              /\ q' = Append(q, NodeEv("NodeStarted", n)) /\ eng # "over"
              /\ enode[n] = "idle" /\ enode' = [enode EXCEPT ![n] = "running"]
         \/ \E n \in Node, k \in NodeEndKinds :
              /\ q' = Append(q, NodeEv(k, n)) /\ eng # "over"
              /\ \/ enode[n] = "running" /\ enode' = [enode EXCEPT ![n] = "done"]
                 \/ enode[n] = "idle" /\ enode' = [enode EXCEPT ![n] = "stillborn"]
         \/ /\ q' = Append(q, Ev("Progress")) /\ eng # "over"
            /\ \A n \in Node : \/ enode'[n] = enode[n]
                               \/ enode[n] = "running" /\ enode'[n] = "abandoned"
         \/ \E k \in EngineKinds \cup {"Error"} :
              /\ q' = Append(q, Ev(k)) /\ eng # "over" /\ eng' = "over" /\ enode' = enode
              /\ k \in SuccessKinds => \A n \in Node : enode[n] # "running"
<1>1. CASE WorkerCloses \/ WorkerChecks
  BY <1>1 DEF WorkerCloses, WorkerChecks
<1>2. CASE EngineStarts \/ RunProgresses
  BY <1>2 DEF EngineStarts, RunProgresses, WorkerPut
<1>3. ASSUME NEW n \in Node, NodeStarts(n)
      PROVE  /\ q' = Append(q, NodeEv("NodeStarted", n)) /\ eng # "over"
             /\ enode[n] = "idle" /\ enode' = [enode EXCEPT ![n] = "running"]
  BY <1>3 DEF NodeStarts, WorkerPut
<1>4. ASSUME NEW n \in Node, NEW k \in NodeEndKinds, NodeEnds(n, k)
      PROVE  /\ q' = Append(q, NodeEv(k, n)) /\ eng # "over"
             /\ enode[n] = "running" /\ enode' = [enode EXCEPT ![n] = "done"]
  BY <1>4 DEF NodeEnds, WorkerPut
<1>5. ASSUME NEW n \in Node, NEW k \in NodeEndKinds, NodeFailsUnstarted(n, k)
      PROVE  /\ q' = Append(q, NodeEv(k, n)) /\ eng # "over"
             /\ enode[n] = "idle" /\ enode' = [enode EXCEPT ![n] = "stillborn"]
  BY <1>5 DEF NodeFailsUnstarted, WorkerPut
<1>6. CASE EngineSucceeds
  BY <1>6 DEF EngineSucceeds, WorkerPut, EngineKinds, FinishKinds
<1>7. CASE EngineFails \/ WorkerErrs
  BY <1>7 DEF EngineFails, WorkerErrs, WorkerPut, EngineKinds, FinishKinds, SuccessKinds
<1>8. CASE RoundCut
  BY <1>8 DEF RoundCut, WorkerPut, TypeOK
<1> QED
  BY <1>1, <1>2, <1>3, <1>4, <1>5, <1>6, <1>7, <1>8 DEF Worker

\* Putting m keeps the starts before the ends, if m starts n or n is known.
LEMMA PutStartsFirst ==
  ASSUME TypeOK, StartsFirst, NEW m \in Message, q' = Append(q, m),
         UNCHANGED <<lmsg, rows>>,
         \A n \in Node : IsEnd(m, n) => enode'[n] = "stillborn" \/ StartKnown(n, Len(q) + 1),
         \A n \in Node : enode[n] = "stillborn" => enode'[n] = "stillborn",
         \A n \in Node : enode'[n] \in {"running", "done", "abandoned"} =>
                           IsStart(m, n) \/ enode[n] \in {"running", "done", "abandoned"}
  PROVE  StartsFirst'
<1> USE PutAt
<1>1. ASSUME NEW n \in Node, NEW i \in 1..(Len(q) + 1), StartKnown(n, i)
      PROVE  StartKnown(n, i)'
  BY <1>1 DEF StartKnown
<1>2. ASSUME NEW n \in Node, enode'[n] \in {"running", "done", "abandoned"}
      PROVE  StartKnown(n, Len(q) + 1)'
  <2>1. CASE IsStart(m, n)
    BY <2>1 DEF StartKnown
  <2>2. CASE enode[n] \in {"running", "done", "abandoned"}
    <3>1. StartKnown(n, Len(q) + 1)
      BY <2>2 DEF StartsFirst
    <3> QED
      BY <3>1 DEF StartKnown
  <2> QED
    BY <1>2, <2>1, <2>2
<1>3. ASSUME NEW n \in Node, NEW i \in 1..Len(q'), IsEnd(q'[i], n)
      PROVE  enode'[n] = "stillborn" \/ StartKnown(n, i)'
  <2>1. CASE i = Len(q) + 1
    BY <1>1, <1>3, <2>1
  <2>2. CASE i \in 1..Len(q)
    BY <1>1, <1>3, <2>2 DEF StartsFirst
  <2> QED
    BY <2>1, <2>2
<1>4. ASSUME NEW n \in Node, IsEnd(lmsg', n)
      PROVE  enode'[n] = "stillborn" \/ rows'[n] # "none"
  BY <1>4 DEF StartsFirst
<1> QED
  BY <1>2, <1>3, <1>4 DEF StartsFirst

\* Taking the first event keeps them, and if it is the end of a started node the
\* row of that node is there.
LEMMA GetStartsFirst ==
  ASSUME TypeOK, IInv, StartsFirst, Get
  PROVE  StartsFirst'
<1> USE GetAt
<1>1. ASSUME NEW n \in Node, NEW i \in 1..(Len(q) + 1), i # 1, StartKnown(n, i)
      PROVE  StartKnown(n, i - 1)'
  <2>1. CASE rows[n] # "none"
    BY <2>1 DEF StartKnown
  <2>2. ASSUME NEW j \in 1..Len(q), j < i, IsStart(q[j], n)
        PROVE  StartKnown(n, i - 1)'
    <3>1. CASE j = 1
      BY <2>2, <3>1 DEF StartKnown
    <3>2. CASE j # 1
      <4>1. j - 1 \in 1..Len(q') /\ j - 1 < i - 1 /\ q'[j - 1] = q[j]
        BY <2>2, <3>2
      <4> QED
        BY <2>2, <4>1 DEF StartKnown
    <3> QED
      BY <3>1, <3>2
  <2> QED
    BY <1>1, <2>1, <2>2 DEF StartKnown, IsStart, None
<1>2. ASSUME NEW n \in Node, enode'[n] \in {"running", "done", "abandoned"}
      PROVE  StartKnown(n, Len(q) + 1)'
  <2>1. StartKnown(n, Len(q) + 1)
    BY <1>2 DEF StartsFirst
  <2> QED
    BY <1>1, <2>1
<1>3. ASSUME NEW n \in Node, NEW i \in 1..Len(q'), IsEnd(q'[i], n)
      PROVE  enode'[n] = "stillborn" \/ StartKnown(n, i)'
  <2>1. i + 1 \in 1..Len(q) /\ IsEnd(q[i + 1], n)
    BY <1>3
  <2>2. enode[n] = "stillborn" \/ StartKnown(n, i + 1)
    BY <2>1 DEF StartsFirst
  <2> QED
    BY <1>1, <2>1, <2>2
<1>4. ASSUME NEW n \in Node, IsEnd(lmsg', n)
      PROVE  enode'[n] = "stillborn" \/ rows'[n] # "none"
  <2>1. enode[n] = "stillborn" \/ StartKnown(n, 1)
    BY <1>4 DEF StartsFirst
  <2> QED
    BY <2>1 DEF StartKnown, IsStart, None
<1> QED
  BY <1>2, <1>3, <1>4 DEF StartsFirst

\* A handler finds the row of a node that was started, or ends the response.
LEMMA HandleRaise ==
  ASSUME TypeOK, IInv, RaiseInv, Handle
  PROVE  RaiseInv' /\ RaisesAtUnstarted
<1> USE HandlerEffects
<1>1. StartsFirst /\ lmsg'.kind = "None"
  BY DEF RaiseInv, None
<1>2. ASSUME NEW n \in Node
      PROVE  /\ rows[n] # "none" => rows'[n] # "none"
             /\ IsStart(lmsg, n) => rows'[n] # "none" \/ lnext' = "done"
  <2>1. rows[n] # "none" => rows'[n] # "none"
    BY DEF TypeOK, CloseRunningExecutions
  <2>2. IsStart(lmsg, n) => rows'[n] # "none" \/ lnext' = "done"
    BY DEF TypeOK, IsStart, NodeEndKinds, FinishKinds
  <2> QED
    BY <2>1, <2>2
<1>3. lnext' = "get" => StartsFirst'
  <2> SUFFICES ASSUME lnext' = "get" PROVE StartsFirst'
    OBVIOUS
  <2>1. ASSUME NEW n \in Node, NEW i \in Nat, StartKnown(n, i)
        PROVE  StartKnown(n, i)'
    BY <1>2, <2>1 DEF StartKnown
  <2>2. Len(q) \in Nat
    BY DEF TypeOK
  <2> QED
    BY <1>1, <2>1, <2>2 DEF StartsFirst, IsEnd, NodeEndKinds
<1>4. run' = "none" => finishes' = <<>>
  BY DEF RaiseInv, Final
<1>5. RaisesAtUnstarted
  <2> SUFFICES ASSUME outcome' = "raised" PROVE RaisesAtUnstarted
    BY DEF RaisesAtUnstarted
  <2>1. CASE run = "none"
    BY <2>1 DEF RaiseInv, RaisesAtUnstarted
  <2>2. CASE lmsg.kind \in NodeEndKinds /\ rows[lmsg.node] = "none"
    <3>1. lmsg.node \in Node
      BY <2>2 DEF TypeOK, Message, NodeEndKinds, FinishKinds, OtherKinds
    <3>2. enode[lmsg.node] = "stillborn"
      BY <1>1, <2>2, <3>1 DEF StartsFirst, IsEnd
    <3> QED
      BY <2>2, <3>2 DEF RaisesAtUnstarted
  <2> QED
    BY <2>1, <2>2
<1> QED
  BY <1>3, <1>4, <1>5 DEF RaiseInv

\* The worker puts the end of a node it has started, or of one that is stillborn.
LEMMA WorkerRaise ==
  ASSUME TypeOK, RaiseInv, Worker,
         UNCHANGED <<lpc, lmsg, lnext, outcome, run, rows, finishes>>
  PROVE  RaiseInv'
<1>2. ASSUME StartsFirst
      PROVE  StartsFirst'
  <2>1. CASE UNCHANGED <<q, eng, enode>>
    BY <1>2, <2>1 DEF StartsFirst, StartKnown
  <2>2. ASSUME NEW m \in Message, m.kind \notin NodeKinds, q' = Append(q, m), enode' = enode
        PROVE  StartsFirst'
    BY <1>2, <2>2, PutStartsFirst DEF IsEnd, NodeKinds
  <2>3. /\ None.kind \notin NodeKinds
        /\ \A k \in FinishKinds \cup OtherKinds : Ev(k).kind \notin NodeKinds
    BY DEF None, Ev, NodeKinds, NodeEndKinds, FinishKinds, OtherKinds
  <2>4. CASE q' = Append(q, None) /\ UNCHANGED <<eng, enode>>
    BY <2>2, <2>3, <2>4, Messages
  <2>5. ASSUME NEW k \in FinishKinds \cup OtherKinds, q' = Append(q, Ev(k)), enode' = enode
        PROVE  StartsFirst'
    BY <2>2, <2>3, <2>5, Messages
  <2>6. ASSUME NEW n \in Node, q' = Append(q, NodeEv("NodeStarted", n)),
               enode[n] = "idle", enode' = [enode EXCEPT ![n] = "running"]
        PROVE  StartsFirst'
    <3> DEFINE m == NodeEv("NodeStarted", n)
    <3>1. m \in Message /\ IsStart(m, n) /\ \A k \in Node : ~IsEnd(m, k)
      BY Messages DEF NodeKinds, NodeEndKinds, NodeEv, IsStart, IsEnd
    <3>2. \A k \in Node : enode[k] = "stillborn" => enode'[k] = "stillborn"
      BY <2>6 DEF TypeOK
    <3>3. \A k \in Node : enode'[k] \in {"running", "done", "abandoned"} =>
                            k = n \/ enode[k] \in {"running", "done", "abandoned"}
      BY <2>6 DEF TypeOK
    <3> HIDE DEF m
    <3> QED
      BY <1>2, <2>6, <3>1, <3>2, <3>3, PutStartsFirst DEF m
  <2>7. ASSUME NEW n \in Node, NEW k \in NodeEndKinds, q' = Append(q, NodeEv(k, n)),
               \/ enode[n] = "running" /\ enode' = [enode EXCEPT ![n] = "done"]
               \/ enode[n] = "idle" /\ enode' = [enode EXCEPT ![n] = "stillborn"]
        PROVE  StartsFirst'
    <3> DEFINE m == NodeEv(k, n)
    <3>1. m \in Message /\ \A l \in Node : IsEnd(m, l) => l = n
      BY Messages DEF NodeKinds, NodeEv, IsEnd
    <3>2. \A l \in Node : enode[l] = "stillborn" => enode'[l] = "stillborn"
      BY <2>7 DEF TypeOK
    <3>3. \A l \in Node : enode'[l] \in {"running", "done", "abandoned"} => enode[l] \in {"running", "done", "abandoned"}
      BY <2>7 DEF TypeOK
    <3>4. enode'[n] = "stillborn" \/ StartKnown(n, Len(q) + 1)
      BY <1>2, <2>7 DEF TypeOK, StartsFirst
    <3> HIDE DEF m
    <3> QED
      BY <1>2, <2>7, <3>1, <3>2, <3>3, <3>4, PutStartsFirst DEF m
  <2>8. CASE /\ q' = Append(q, Ev("Progress"))
             /\ \A n \in Node : \/ enode'[n] = enode[n]
                                \/ enode[n] = "running" /\ enode'[n] = "abandoned"
    <3> DEFINE m == Ev("Progress")
    <3>1. m \in Message /\ \A n \in Node : ~IsEnd(m, n)
      BY <2>3, Messages DEF IsEnd, NodeKinds, OtherKinds
    <3> HIDE DEF m
    <3> QED
      BY <1>2, <2>8, <3>1, PutStartsFirst DEF m
  <2> QED
    BY <2>1, <2>4, <2>5, <2>6, <2>7, <2>8, WorkerEffects DEF EngineKinds, OtherKinds
<1> QED
  BY <1>2 DEF RaiseInv

LEMMA StepRaise ==
  ASSUME TypeOK, IInv, RaiseInv, [Next]_vars
  PROVE  RaiseInv' /\ RaisesAtUnstarted
<1>1. CASE Get
  <2>1. StartsFirst'
    BY <1>1, GetAt, GetStartsFirst DEF RaiseInv
  <2> QED
    BY <1>1, <2>1, GetAt DEF RaiseInv, RaisesAtUnstarted
<1>2. ASSUME UNCHANGED <<eng, enode, lmsg, run, rows, finishes>>
      PROVE  /\ run' = "none" => finishes' = <<>>
             /\ q' = q /\ StartsFirst => StartsFirst'
             /\ \A m \in {None, Ev("Stop"), Ev("Ping")} :
                  q' = Append(q, m) /\ StartsFirst => StartsFirst'
  <2>1. run' = "none" => finishes' = <<>>
    BY <1>2 DEF RaiseInv
  <2>2. q' = q /\ StartsFirst => StartsFirst'
    BY <1>2 DEF StartsFirst, StartKnown
  <2>3. ASSUME NEW m \in {None, Ev("Stop"), Ev("Ping")}, q' = Append(q, m), StartsFirst
        PROVE  StartsFirst'
    <3>1. m \in Message /\ m.kind \notin NodeEndKinds
      BY Messages DEF FinishKinds, OtherKinds, Ev, None, NodeEndKinds
    <3> QED
      BY <1>2, <2>3, <3>1, PutStartsFirst DEF IsEnd
  <2> QED
    BY <2>1, <2>2, <2>3
<1>3. CASE /\ UNCHANGED <<eng, enode, lmsg, run, rows, finishes>>
           /\ outcome' = "raised" => outcome = "raised"
           /\ \/ lnext' = "done"
              \/ lnext = "get" /\ q' = q
              \/ lnext = "get" /\ \E m \in {None, Ev("Stop"), Ev("Ping")} : q' = Append(q, m)
  BY <1>2, <1>3 DEF RaiseInv, RaisesAtUnstarted
<1>4. CASE Worker /\ UNCHANGED <<lpc, lmsg, lnext, outcome, run, rows, finishes>>
  BY <1>4, WorkerRaise DEF RaisesAtUnstarted
<1> QED
  BY <1>1, <1>3, <1>4, QuietSteps, HandleRaise

\* The pipeline raises only at an event of a run that was never recorded, or at the
\* end of a node whose start was never reported.
THEOREM RaisesUnstarted == Spec => RaisesOnlyUnstarted
<1>1. Init => RaiseInv
  BY DEF Init, RaiseInv, StartsFirst, None, IsEnd, NodeEndKinds
<1>2. TypeOK /\ IInv /\ RaiseInv /\ [Next]_vars => RaiseInv'
  BY StepRaise
<1>3. TypeOK /\ IInv /\ RaiseInv /\ [Next]_vars => [RaisesAtUnstarted]_vars
  BY StepRaise
<1>4. [][RaisesAtUnstarted]_vars => RaisesOnlyUnstarted
  <2>1. [RaisesAtUnstarted]_vars =>
          [outcome # "raised" /\ outcome' = "raised" =>
             \/ run = "none" /\ finishes = <<>>
             \/ lmsg.kind \in NodeEndKinds /\ enode[lmsg.node] = "stillborn"]_vars
    BY DEF RaisesAtUnstarted
  <2> QED
    BY <2>1, PTL DEF RaisesOnlyUnstarted
<1> QED
  BY <1>1, <1>2, <1>3, <1>4, TypeCorrect, Invariance, PTL DEF Spec

\* Putting m keeps the success last, if m is no success, or one after all ends, and
\* nothing follows a success.
LEMMA PutQuiet ==
  ASSUME TypeOK, EndsFollow, SuccessIsLast, NEW m \in Message, q' = Append(q, m),
         UNCHANGED <<lmsg, rows, run>>, eng = "over" => eng' = "over",
         m.kind \in NodeKinds => eng # "over",
         m.kind \in SuccessKinds => eng' = "over" /\ \A n \in Node : enode[n] # "running",
         \A n \in Node : IsStart(m, n) => enode'[n] = "running",
         \A n \in Node : enode[n] = "abandoned" => enode'[n] = "abandoned",
         \A n \in Node :
           enode[n] = "running" => enode'[n] \in {"running", "abandoned"} \/ IsEnd(m, n)
  PROVE  EndsFollow' /\ SuccessIsLast'
<1> USE PutAt
<1>1. ASSUME NEW n \in Node, NEW j \in 0..Len(q), NEW i \in 0..(Len(q) + 1), Shut(n, j, i)
      PROVE  Shut(n, j, i)'
  BY <1>1 DEF Shut
<1>2. ASSUME NEW n \in Node, NEW j \in 0..Len(q')
      PROVE  /\ j # Len(q) + 1 => j \in 0..Len(q) /\ OpensRow(n, j)' = OpensRow(n, j)
             /\ j = Len(q) + 1 => OpensRow(n, j)' = IsStart(m, n)
  BY <1>2 DEF OpensRow
<1>3. ASSUME NEW n \in Node, NEW j \in 0..Len(q), Shut(n, j, Len(q) + 1)
      PROVE  Shut(n, j, Len(q) + 1)'
  BY <1>3 DEF Shut
<1>4. EndsFollow'
  <2> SUFFICES ASSUME NEW n \in Node, NEW j \in 0..Len(q'), OpensRow(n, j)',
                      enode'[n] \notin {"running", "abandoned"}
               PROVE  Shut(n, j, Len(q) + 1)'
    BY DEF EndsFollow
  <2>1. j \in 0..Len(q) /\ OpensRow(n, j)
    BY <1>2
  <2>2. CASE Shut(n, j, Len(q) + 1)
    BY <1>3, <2>1, <2>2
  <2>3. CASE enode[n] = "running"
    <3>1. IsEnd(m, n)
      BY <2>3
    <3> QED
      BY <2>1, <3>1 DEF Shut
  <2> QED
    BY <2>1, <2>2, <2>3 DEF EndsFollow
<1>5. SuccessIsLast'
  <2> SUFFICES ASSUME NEW i \in 0..Len(q'), SuccessAt(i)'
               PROVE  /\ eng' = "over"
                      /\ \A n \in Node, j \in 0..Len(q') :
                           enode'[n] # "abandoned" /\ OpensRow(n, j)' => j < i /\ Shut(n, j, i)'
    BY DEF SuccessIsLast
  <2>1. CASE i = Len(q) + 1
    <3>1. m.kind \in SuccessKinds
      BY <2>1 DEF SuccessAt
    <3>2. ASSUME NEW n \in Node, NEW j \in 0..Len(q'), OpensRow(n, j)',
                 enode'[n] # "abandoned"
          PROVE  j < i /\ Shut(n, j, i)'
      <4>1. j \in 0..Len(q) /\ OpensRow(n, j)
        BY <1>2, <3>1, <3>2 DEF IsStart, SuccessKinds
      <4>2. Shut(n, j, i)
        BY <2>1, <3>1, <3>2, <4>1 DEF EndsFollow
      <4> QED
        BY <1>1, <2>1, <4>1, <4>2
    <3> QED
      BY <3>1, <3>2
  <2>2. CASE i \in 0..Len(q)
    <3>1. SuccessAt(i)
      BY <2>2 DEF SuccessAt
    <3>2. eng = "over" /\ m.kind \notin NodeKinds
      BY <2>2, <3>1 DEF SuccessIsLast
    <3>3. ASSUME NEW n \in Node, NEW j \in 0..Len(q'), OpensRow(n, j)',
                 enode'[n] # "abandoned"
          PROVE  j < i /\ Shut(n, j, i)'
      <4>1. j \in 0..Len(q) /\ OpensRow(n, j)
        BY <1>2, <3>2, <3>3 DEF IsStart, NodeKinds
      <4>2. j < i /\ Shut(n, j, i)
        BY <2>2, <3>1, <3>3, <4>1 DEF SuccessIsLast
      <4> QED
        BY <1>1, <2>2, <4>1, <4>2
    <3> QED
      BY <3>2, <3>3
  <2> QED
    BY <2>1, <2>2
<1> QED
  BY <1>4, <1>5

\* Taking the first event keeps it.
LEMMA GetQuiet ==
  ASSUME TypeOK, IInv, EndsFollow, SuccessIsLast, Get
  PROVE  EndsFollow' /\ SuccessIsLast'
<1> USE GetAt
<1>0. None.kind = "None" /\ lmsg.kind = "None"
  BY DEF None
\* the position before Get of what is at j after it
<1> DEFINE Old(n, j) == IF j = 0 THEN IF rows[n] = "running" THEN 0 ELSE 1 ELSE j + 1
<1>1. ASSUME NEW n \in Node, NEW j \in 0..Len(q'), OpensRow(n, j)'
      PROVE  Old(n, j) \in 0..Len(q) /\ OpensRow(n, Old(n, j)) /\ Old(n, j) >= j
  BY <1>1 DEF OpensRow
<1>2. ASSUME NEW n \in Node, NEW j \in 0..Len(q'), NEW i \in 0..Len(q),
             Shut(n, Old(n, j), i + 1)
      PROVE  j < i /\ Shut(n, j, i)'
  <2>1. PICK k \in 1..Len(q) : Old(n, j) < k /\ k < i + 1 /\ IsEnd(q[k], n)
    BY <1>0, <1>2 DEF Shut, IsEnd, NodeEndKinds
  <2>2. CASE k = 1
    <3>1. j = 0 /\ IsEnd(lmsg', n) /\ j < i
      BY <2>1, <2>2
    <3> QED
      BY <1>2, <2>1, <2>2, <3>1 DEF Shut
  <2>3. CASE k # 1
    <3>1. k - 1 \in 1..Len(q') /\ q'[k - 1] = q[k] /\ j < k - 1 /\ k - 1 < i
      BY <2>1, <2>3
    <3> QED
      BY <2>1, <3>1 DEF Shut
  <2> QED
    BY <2>2, <2>3
<1>3. EndsFollow'
  <2> SUFFICES ASSUME NEW n \in Node, NEW j \in 0..Len(q'), OpensRow(n, j)',
                      enode'[n] \notin {"running", "abandoned"}
               PROVE  Shut(n, j, Len(q) + 1)'
    BY DEF EndsFollow
  <2>1. PICK i \in 0..Len(q) : i = Len(q)
    OBVIOUS
  <2>2. Shut(n, Old(n, j), i + 1)
    BY <1>1, <2>1 DEF EndsFollow
  <2>3. Shut(n, j, i)' /\ i = Len(q') + 1
    BY <1>2, <2>1, <2>2
  <2> QED
    BY <2>3 DEF Shut
<1>4. SuccessIsLast'
  <2> SUFFICES ASSUME NEW i \in 0..Len(q'), SuccessAt(i)'
               PROVE  /\ eng' = "over"
                      /\ \A n \in Node, j \in 0..Len(q') :
                           enode'[n] # "abandoned" /\ OpensRow(n, j)' => j < i /\ Shut(n, j, i)'
    BY DEF SuccessIsLast
  <2>1. PICK o \in {0} \cup {i + 1} : SuccessAt(o) /\ (o = 0 => i = 0)
    BY <1>0 DEF SuccessAt, SuccessKinds
  <2>2. o \in 0..Len(q)
    BY <2>1
  <2>3. ASSUME NEW n \in Node, NEW j \in 0..Len(q'), OpensRow(n, j)',
               enode'[n] # "abandoned"
        PROVE  j < i /\ Shut(n, j, i)'
    <3>1. Old(n, j) < o /\ Shut(n, Old(n, j), o)
      BY <1>1, <2>1, <2>2, <2>3 DEF SuccessIsLast
    <3>2. o = i + 1
      BY <1>1, <2>1, <2>3, <3>1
    <3> QED
      BY <1>2, <3>1, <3>2
  <2> QED
    BY <2>1, <2>2, <2>3 DEF SuccessIsLast
<1> QED
  BY <1>3, <1>4

\* A handler opens no row after the success, and closes one at its end.
LEMMA HandleQuiet ==
  ASSUME TypeOK, IInv, QuietInv, Handle
  PROVE  QuietInv'
<1> USE HandlerEffects
<1>0. /\ EndsFollow /\ SuccessIsLast /\ Len(q) \in Nat
      /\ lmsg'.kind \notin NodeKinds /\ lmsg'.kind \notin SuccessKinds
  BY DEF QuietInv, None, NodeKinds, NodeEndKinds, SuccessKinds, TypeOK
<1>a. CASE UNCHANGED <<run, rows>> /\ lnext' = "done"
  BY <1>a DEF QuietInv, SucceededRunIsQuiet
<1>b. CASE ~(UNCHANGED <<run, rows>> /\ lnext' = "done")
  <2>1. ASSUME NEW n \in Node, rows'[n] = "running"
        PROVE  (rows[n] = "running" \/ IsStart(lmsg, n)) /\ ~IsEnd(lmsg, n)
    <3>1. CASE lmsg.kind \in NodeEndKinds
      BY <1>b, <2>1, <3>1 DEF TypeOK, IsEnd, NodeEndKinds, FinishKinds
    <3>2. CASE lmsg.kind = "NodeStarted"
      BY <1>b, <2>1, <3>2 DEF TypeOK, IsStart, IsEnd, NodeEndKinds, FinishKinds
    <3>3. CASE lmsg.kind \notin NodeKinds
      <4>1. rows[n] = "running"
        BY <2>1, <3>3 DEF NodeKinds, CloseRunningExecutions, RunningExecutions
      <4> QED
        BY <3>3, <4>1 DEF NodeKinds, IsEnd
    <3> QED
      BY <3>1, <3>2, <3>3 DEF NodeKinds
  <2>2. ASSUME NEW n \in Node, NEW j \in 0..Len(q), OpensRow(n, j)'
        PROVE  OpensRow(n, j) /\ (j = 0 => ~IsEnd(lmsg, n))
    <3>1. ~IsStart(lmsg', n)
      BY <1>0 DEF IsStart, NodeKinds
    <3> QED
      BY <2>1, <2>2, <3>1 DEF OpensRow
  <2>3. ASSUME NEW n \in Node, NEW j \in 0..Len(q), NEW i, OpensRow(n, j)', Shut(n, j, i)
        PROVE  \E k \in 1..Len(q) : j < k /\ k < i /\ IsEnd(q[k], n)
    BY <2>2, <2>3 DEF Shut
  <2>4. EndsFollow'
    <3> SUFFICES ASSUME NEW n \in Node, NEW j \in 0..Len(q), OpensRow(n, j)',
                        enode[n] \notin {"running", "abandoned"}
                 PROVE  Shut(n, j, Len(q) + 1)'
      BY DEF EndsFollow
    <3>1. Shut(n, j, Len(q) + 1)
      BY <1>0, <2>2 DEF EndsFollow
    <3> QED
      BY <2>3, <3>1 DEF Shut
  <2>5. SuccessAt(0)' => SuccessAt(0)
    <3>1. run' \in SuccessStatuses => run \in SuccessStatuses \/ lmsg.kind \in SuccessKinds
      BY DEF SuccessStatuses
    <3> QED
      BY <1>0, <3>1 DEF SuccessAt
  <2>6. SuccessIsLast'
    <3> SUFFICES ASSUME NEW i \in 0..Len(q), SuccessAt(i)'
                 PROVE  /\ eng' = "over"
                        /\ \A n \in Node, j \in 0..Len(q) :
                             enode'[n] # "abandoned" /\ OpensRow(n, j)' => j < i /\ Shut(n, j, i)'
      BY DEF SuccessIsLast
    <3>1. SuccessAt(i)
      BY <2>5 DEF SuccessAt
    <3>2. ASSUME NEW n \in Node, NEW j \in 0..Len(q), OpensRow(n, j)',
                 enode[n] # "abandoned"
          PROVE  j < i /\ Shut(n, j, i)'
      <4>1. j < i /\ Shut(n, j, i)
        BY <1>0, <2>2, <3>1, <3>2 DEF SuccessIsLast
      <4> QED
        BY <2>3, <3>2, <4>1 DEF Shut
    <3> QED
      BY <1>0, <3>1, <3>2 DEF SuccessIsLast
  <2>7. SucceededRunIsQuiet'
    <3> SUFFICES ASSUME run' \in SuccessStatuses, NEW n \in Node, rows'[n] = "running",
                        enode[n] # "abandoned"
                 PROVE  FALSE
      BY DEF SucceededRunIsQuiet, SuccessStatuses
    <3>1. SuccessAt(0)' /\ OpensRow(n, 0)' /\ 0 \in 0..Len(q)
      BY <1>0 DEF SuccessAt, OpensRow
    <3> QED
      BY <2>6, <3>1 DEF SuccessIsLast
  <2> QED
    BY <2>4, <2>6, <2>7 DEF QuietInv
<1> QED
  BY <1>a, <1>b

\* The worker puts its success after the ends of all nodes, and nothing after it.
LEMMA WorkerQuiet ==
  ASSUME TypeOK, QuietInv, Worker,
         UNCHANGED <<lpc, lmsg, lnext, outcome, run, rows, finishes>>
  PROVE  QuietInv'
<1>0. \A n \in Node : enode[n] = "abandoned" => enode'[n] = "abandoned"
  BY WorkerEffects DEF TypeOK
<1> SUFFICES ASSUME EndsFollow, SuccessIsLast
             PROVE  EndsFollow' /\ SuccessIsLast'
  BY <1>0 DEF QuietInv, SucceededRunIsQuiet
<1>1. CASE UNCHANGED <<q, eng, enode>>
  BY <1>1 DEF EndsFollow, SuccessIsLast, OpensRow, Shut, SuccessAt
<1>2. ASSUME NEW m \in Message, q' = Append(q, m), enode' = enode, eng = "over" => eng' = "over",
             m.kind \notin NodeKinds,
             m.kind \in SuccessKinds => eng' = "over" /\ \A n \in Node : enode[n] # "running"
      PROVE  EndsFollow' /\ SuccessIsLast'
  <2>1. \A n \in Node : ~IsStart(m, n)
    BY <1>2 DEF IsStart, NodeKinds
  <2> QED
    BY <1>2, <2>1, PutQuiet
<1>3. CASE q' = Append(q, None) /\ UNCHANGED <<eng, enode>>
  <2>1. None.kind \notin NodeKinds \cup SuccessKinds
    BY DEF None, NodeKinds, NodeEndKinds, SuccessKinds
  <2> QED
    BY <1>2, <1>3, <2>1, Messages
<1>4. ASSUME NEW k \in FinishKinds \cup OtherKinds, q' = Append(q, Ev(k)), eng # "over",
             enode' = enode,
             k \in SuccessKinds => eng' = "over" /\ \A n \in Node : enode[n] # "running"
      PROVE  EndsFollow' /\ SuccessIsLast'
  <2>1. Ev(k) \in Message /\ Ev(k).kind = k /\ k \notin NodeKinds
    BY Messages DEF Ev, NodeKinds, NodeEndKinds, FinishKinds, OtherKinds
  <2> QED
    BY <1>2, <1>4, <2>1
<1>5. ASSUME NEW n \in Node, q' = Append(q, NodeEv("NodeStarted", n)), eng # "over",
             enode[n] = "idle", enode' = [enode EXCEPT ![n] = "running"]
      PROVE  EndsFollow' /\ SuccessIsLast'
  <2> DEFINE m == NodeEv("NodeStarted", n)
  <2>1. m \in Message /\ m.kind \notin SuccessKinds /\ \A k \in Node : IsStart(m, k) => k = n
    BY Messages DEF NodeKinds, SuccessKinds, NodeEv, IsStart
  <2>2. enode'[n] = "running" /\ \A k \in Node : k # n => enode'[k] = enode[k]
    BY <1>5 DEF TypeOK
  <2> HIDE DEF m
  <2> QED
    BY <1>5, <2>1, <2>2, PutQuiet DEF m
<1>6. ASSUME NEW n \in Node, NEW k \in NodeEndKinds, q' = Append(q, NodeEv(k, n)), eng # "over",
             NEW e, enode' = [enode EXCEPT ![n] = e], enode[n] # "abandoned"
      PROVE  EndsFollow' /\ SuccessIsLast'
  <2> DEFINE m == NodeEv(k, n)
  <2>1. /\ m \in Message /\ m.kind \notin SuccessKinds /\ IsEnd(m, n)
        /\ \A l \in Node : ~IsStart(m, l)
    BY Messages DEF NodeKinds, NodeEndKinds, SuccessKinds, NodeEv, IsStart, IsEnd
  <2>2. \A l \in Node : l # n => enode'[l] = enode[l]
    BY <1>6 DEF TypeOK
  <2> HIDE DEF m
  <2> QED
    BY <1>6, <2>1, <2>2, PutQuiet DEF m
<1>7. CASE /\ q' = Append(q, Ev("Progress")) /\ eng # "over"
           /\ \A n \in Node : \/ enode'[n] = enode[n]
                              \/ enode[n] = "running" /\ enode'[n] = "abandoned"
  <2> DEFINE m == Ev("Progress")
  <2>1. /\ m \in Message /\ m.kind \notin SuccessKinds
        /\ \A n \in Node : ~IsStart(m, n)
    BY Messages DEF Ev, OtherKinds, SuccessKinds, IsStart
  <2> HIDE DEF m
  <2> QED
    BY <1>7, <2>1, PutQuiet DEF m
<1> QED
  BY <1>1, <1>3, <1>4, <1>5, <1>6, <1>7, WorkerEffects
     DEF EngineKinds, OtherKinds, SuccessKinds

LEMMA StepQuiet ==
  ASSUME TypeOK, IInv, QuietInv, [Next]_vars
  PROVE  QuietInv'
<1>1. CASE Get
  <2>1. EndsFollow' /\ SuccessIsLast'
    BY <1>1, GetAt, GetQuiet DEF QuietInv
  <2> QED
    BY <1>1, <2>1, GetAt DEF QuietInv, SucceededRunIsQuiet
<1>2. ASSUME UNCHANGED <<eng, enode, lmsg, run, rows, finishes>>, EndsFollow, SuccessIsLast
      PROVE  /\ q' = q => EndsFollow' /\ SuccessIsLast'
             /\ \A m \in {None, Ev("Stop"), Ev("Ping")} :
                  q' = Append(q, m) => EndsFollow' /\ SuccessIsLast'
  <2>1. q' = q => EndsFollow' /\ SuccessIsLast'
    BY <1>2 DEF EndsFollow, SuccessIsLast, OpensRow, Shut, SuccessAt
  <2>2. ASSUME NEW m \in {None, Ev("Stop"), Ev("Ping")}, q' = Append(q, m)
        PROVE  EndsFollow' /\ SuccessIsLast'
    <3>1. m \in Message /\ m.kind \notin NodeKinds /\ m.kind \notin SuccessKinds
      BY Messages DEF FinishKinds, OtherKinds, Ev, None, NodeKinds, NodeEndKinds, SuccessKinds
    <3>2. \A n \in Node : ~IsStart(m, n)
      BY <3>1 DEF IsStart, NodeKinds
    <3> QED
      BY <1>2, <2>2, <3>1, <3>2, PutQuiet
  <2> QED
    BY <2>1, <2>2
<1>3. CASE /\ UNCHANGED <<eng, enode, lmsg, run, rows, finishes>>
           /\ \/ lnext' = "done"
              \/ lnext = "get" /\ q' = q
              \/ lnext = "get" /\ \E m \in {None, Ev("Stop"), Ev("Ping")} : q' = Append(q, m)
  BY <1>2, <1>3 DEF QuietInv, SucceededRunIsQuiet
<1> QED
  BY <1>1, <1>3, QuietSteps, HandleQuiet, WorkerQuiet

\* A run that is recorded as succeeded has no execution left that runs, but those
\* that an iteration or a loop abandoned.
THEOREM SuccessIsQuiet == Spec => []SucceededRunIsQuiet
<1>1. Init => QuietInv
  BY DEF Init, QuietInv, SucceededRunIsQuiet, EndsFollow, SuccessIsLast, OpensRow, SuccessAt,
         None, IsStart, SuccessKinds, SuccessStatuses
<1>2. QuietInv => SucceededRunIsQuiet
  BY DEF QuietInv
<1> QED
  BY <1>1, <1>2, StepQuiet, TypeCorrect, Invariance, PTL DEF Spec

\* Putting m keeps the finishes apart, if the engine puts its finish as it ends, and
\* the listener its stop as it turns to the terminator.
LEMMA PutFinish ==
  ASSUME TypeOK, EngineFinishesOnce, StopsApart, NEW m \in Message, q' = Append(q, m),
         UNCHANGED <<lmsg, finishes>>, eng = "over" => eng' = "over",
         m.kind \in EngineKinds => eng # "over" /\ eng' = "over",
         m.kind \in StopKinds => lpc # "close" /\ lpc' = "close",
         lpc = "close" => lpc' = "close" \/ m.kind = "None"
  PROVE  EngineFinishesOnce' /\ StopsApart'
<1> USE PutAt
<1>1. ASSUME NEW K, NEW i \in 0..Len(q')
      PROVE  /\ i # Len(q) + 1 => i \in 0..Len(q) /\ FinishAt(K, i)' = FinishAt(K, i)
             /\ i = Len(q) + 1 => FinishAt(K, i)' = (m.kind \in K)
  BY <1>1 DEF FinishAt, Finished
<1>2. ASSUME NEW i \in 0..Len(q), NEW j \in 0..(Len(q) + 2), NoneBetween(i, j)
      PROVE  NoneBetween(i, j)'
  BY <1>2 DEF NoneBetween
<1>3. EngineFinishesOnce'
  <2>1. ASSUME NEW i \in 0..Len(q'), FinishAt(EngineKinds, i)'
        PROVE  /\ eng' = "over"
               /\ i = Len(q) + 1 => eng # "over"
               /\ i # Len(q) + 1 => eng = "over" /\ i \in 0..Len(q) /\ FinishAt(EngineKinds, i)
    BY <1>1, <2>1 DEF EngineFinishesOnce
  <2>2. ASSUME NEW i \in 0..Len(q'), NEW j \in 0..Len(q'),
               FinishAt(EngineKinds, i)', FinishAt(EngineKinds, j)'
        PROVE  i = j
    BY <2>1, <2>2 DEF EngineFinishesOnce
  <2>3. lmsg'.kind \in EngineKinds => ~Finished(EngineKinds)'
    BY DEF EngineFinishesOnce, Finished
  <2> QED
    BY <2>1, <2>2, <2>3 DEF EngineFinishesOnce
<1>4. StopsApart'
  <2>1. ASSUME NEW i \in 0..Len(q'), NEW j \in 0..Len(q'), i < j,
               FinishAt(StopKinds, i)', FinishAt(StopKinds, j)'
        PROVE  NoneBetween(i, j)'
    <3>1. i \in 0..Len(q) /\ FinishAt(StopKinds, i)
      BY <1>1, <2>1
    <3>2. NoneBetween(i, j)
      BY <1>1, <2>1, <3>1 DEF StopsApart
    <3> QED
      BY <1>2, <3>1, <3>2
  <2>2. ASSUME lpc' # "close", NEW i \in 0..Len(q'), FinishAt(StopKinds, i)'
        PROVE  NoneBetween(i, Len(q) + 1)'
    <3>1. i \in 0..Len(q) /\ FinishAt(StopKinds, i)
      BY <1>1, <2>2
    <3>a. PICK e \in 0..(Len(q) + 2) : e = Len(q) + 2
      OBVIOUS
    <3>2. CASE lpc # "close"
      <4>1. NoneBetween(i, Len(q) + 1)
        BY <3>1, <3>2 DEF StopsApart
      <4>2. NoneBetween(i, e)
        BY <3>a, <4>1 DEF NoneBetween
      <4>3. NoneBetween(i, e)' /\ e = Len(q') + 1
        BY <1>2, <3>1, <3>a, <4>2
      <4> QED
        BY <4>3 DEF NoneBetween
    <3>3. CASE m.kind = "None"
      BY <3>1, <3>3 DEF NoneBetween
    <3> QED
      BY <2>2, <3>2, <3>3
  <2>3. lmsg'.kind \in StopKinds => ~Finished(StopKinds)'
    BY DEF StopsApart, Finished
  <2> QED
    BY <2>1, <2>2, <2>3 DEF StopsApart
<1> QED
  BY <1>3, <1>4

\* Taking the first event keeps it.
LEMMA GetFinish ==
  ASSUME TypeOK, IInv, EngineFinishesOnce, StopsApart, Get
  PROVE  EngineFinishesOnce' /\ StopsApart'
<1> USE GetAt
<1>0. lmsg.kind = "None"
  BY DEF None
\* the position before Get of the finish that is at i after it
<1> DEFINE Old(K, i) == IF i = 0 THEN IF Finished(K) THEN 0 ELSE 1 ELSE i + 1
<1>1. ASSUME NEW K \in {EngineKinds, StopKinds}, NEW i \in 0..Len(q'), FinishAt(K, i)'
      PROVE  Old(K, i) \in 0..Len(q) /\ FinishAt(K, Old(K, i)) /\ Old(K, i) >= i
  BY <1>1 DEF FinishAt, Finished
<1>2. ASSUME NEW K, NEW i \in 0..Len(q'), NEW j \in 0..Len(q),
             NoneBetween(Old(K, i), j + 1)
      PROVE  NoneBetween(i, j)'
  <2>1. PICK k \in 1..Len(q) : Old(K, i) < k /\ k < j + 1 /\ q[k].kind = "None"
    BY <1>2 DEF NoneBetween
  <2>2. k - 1 \in 1..Len(q') /\ q'[k - 1] = q[k] /\ i < k - 1 /\ k - 1 < j
    BY <2>1
  <2> QED
    BY <2>1, <2>2 DEF NoneBetween
<1>3. ASSUME NEW K \in {EngineKinds, StopKinds}, lmsg'.kind \in K
      PROVE  1 \in 0..Len(q) /\ FinishAt(K, 1)
  BY <1>3 DEF FinishAt
<1>4. ASSUME NEW K, Finished(K)'
      PROVE  Finished(K) /\ 0 \in 0..Len(q) /\ FinishAt(K, 0)
  BY <1>4 DEF FinishAt, Finished
<1>a. \A K, i : /\ i = 0 => Old(K, i) \in {0, 1}
                /\ i # 0 => Old(K, i) = i + 1
  OBVIOUS
<1> HIDE DEF Old
<1>5. EngineFinishesOnce'
  <2>1. ASSUME NEW i \in 0..Len(q'), FinishAt(EngineKinds, i)'
        PROVE  eng' = "over"
    BY <1>1, <2>1 DEF EngineFinishesOnce
  <2>2. ASSUME NEW i \in 0..Len(q'), NEW j \in 0..Len(q'),
               FinishAt(EngineKinds, i)', FinishAt(EngineKinds, j)'
        PROVE  i = j
    <3>1. Old(EngineKinds, i) = Old(EngineKinds, j)
      BY <1>1, <2>2 DEF EngineFinishesOnce
    <3> QED
      BY <1>a, <2>2, <3>1
  <2>3. ASSUME lmsg'.kind \in EngineKinds, Finished(EngineKinds)'
        PROVE  FALSE
    BY <1>3, <1>4, <2>3 DEF EngineFinishesOnce
  <2> QED
    BY <2>1, <2>2, <2>3 DEF EngineFinishesOnce
<1>6. StopsApart'
  <2>1. ASSUME NEW i \in 0..Len(q'), NEW j \in 0..Len(q'), i < j,
               FinishAt(StopKinds, i)', FinishAt(StopKinds, j)'
        PROVE  NoneBetween(i, j)'
    <3>1. Old(StopKinds, j) = j + 1 /\ Old(StopKinds, i) < j + 1
      BY <1>a, <2>1
    <3>2. NoneBetween(Old(StopKinds, i), j + 1)
      BY <1>1, <2>1, <3>1 DEF StopsApart
    <3> QED
      BY <1>2, <3>2
  <2>2. ASSUME NEW i \in 0..Len(q'), FinishAt(StopKinds, i)'
        PROVE  NoneBetween(i, Len(q) + 1)'
    <3>1. PICK j \in 0..Len(q) : j = Len(q)
      OBVIOUS
    <3>2. NoneBetween(Old(StopKinds, i), j + 1)
      BY <1>1, <2>2, <3>1 DEF StopsApart
    <3>3. NoneBetween(i, j)' /\ j = Len(q') + 1
      BY <1>2, <3>1, <3>2
    <3> QED
      BY <3>3 DEF NoneBetween
  <2>3. ASSUME lmsg'.kind \in StopKinds, Finished(StopKinds)'
        PROVE  FALSE
    <3>1. NoneBetween(0, 1)
      BY <1>3, <1>4, <2>3 DEF StopsApart
    <3> QED
      BY <3>1 DEF NoneBetween
  <2> QED
    BY <2>1, <2>2, <2>3 DEF StopsApart
<1> QED
  BY <1>5, <1>6

\* Where a stop is paired with an engine's finish, there is no third.
LEMMA TwoFinishes ==
  ASSUME NEW s \in Seq(FinishKinds),
         \A i, j \in DOMAIN s : i # j => (s[i] = "Stop") # (s[j] = "Stop")
  PROVE  Len(s) <= 2
<1> SUFFICES ASSUME Len(s) > 2 PROVE FALSE
  OBVIOUS
<1>1. 1 \in DOMAIN s /\ 2 \in DOMAIN s /\ 3 \in DOMAIN s
  OBVIOUS
<1>2. /\ (s[1] = "Stop") # (s[2] = "Stop")
      /\ (s[1] = "Stop") # (s[3] = "Stop")
      /\ (s[2] = "Stop") # (s[3] = "Stop")
  BY <1>1
<1> QED
  BY <1>2

\* A handler moves the finish it handles from the listener's hand to the history.
LEMMA HandleFinish ==
  ASSUME TypeOK, IInv, FinishInv, Handle
  PROVE  FinishInv'
<1> USE HandlerEffects
<1>0. /\ EngineFinishesOnce /\ StopsApart /\ Len(q) \in Nat /\ lmsg'.kind = "None"
      /\ finishes \in Seq(FinishKinds)
  BY DEF FinishInv, None, TypeOK
<1>1. \/ finishes' = finishes
      \/ lmsg.kind \in FinishKinds /\ finishes' = Append(finishes, lmsg.kind)
  OBVIOUS
<1>2. ASSUME NEW K \in {EngineKinds, StopKinds}
      PROVE  Finished(K)' => FinishAt(K, 0)
  <2>1. CASE finishes' = finishes
    BY <2>1 DEF FinishAt, Finished
  <2>2. CASE lmsg.kind \in FinishKinds /\ finishes' = Append(finishes, lmsg.kind)
    BY <1>0, <2>2, AppendProperties DEF FinishAt, Finished
  <2> QED
    BY <1>1, <2>1, <2>2
<1>3. ASSUME NEW K \in {EngineKinds, StopKinds}, NEW i \in 0..Len(q), FinishAt(K, i)'
      PROVE  FinishAt(K, i)
  BY <1>0, <1>2, <1>3 DEF FinishAt, EngineKinds, StopKinds, FinishKinds
<1>4. \A i, j : NoneBetween(i, j)' <=> NoneBetween(i, j)
  BY DEF NoneBetween
<1>5. EngineFinishesOnce' /\ StopsApart'
  <2>1. EngineFinishesOnce'
    BY <1>0, <1>3 DEF EngineFinishesOnce, EngineKinds, FinishKinds
  <2>2. StopsApart'
    BY <1>0, <1>3, <1>4 DEF StopsApart, StopKinds
  <2> QED
    BY <2>1, <2>2
<1>6. OneFinishPerCause'
  <2>1. CASE finishes' = finishes
    BY <2>1 DEF FinishInv, OneFinishPerCause
  <2>2. CASE lmsg.kind \in FinishKinds /\ finishes' = Append(finishes, lmsg.kind)
    <3>1. \A i \in DOMAIN finishes : (finishes[i] = "Stop") # (lmsg.kind = "Stop")
      BY <1>0, <2>2
         DEF EngineFinishesOnce, StopsApart, Finished, EngineKinds, StopKinds, FinishKinds
    <3>2. /\ finishes' \in Seq(FinishKinds) /\ DOMAIN finishes' = 1..(Len(finishes) + 1)
          /\ \A i \in DOMAIN finishes : finishes'[i] = finishes[i]
          /\ finishes'[Len(finishes) + 1] = lmsg.kind
          /\ DOMAIN finishes = 1..Len(finishes) /\ Len(finishes) \in Nat
      BY <1>0, <2>2, AppendProperties
    <3>3. \A i, j \in DOMAIN finishes' :
             i # j => (finishes'[i] = "Stop") # (finishes'[j] = "Stop")
      BY <3>1, <3>2 DEF FinishInv, OneFinishPerCause
    <3> QED
      BY <3>2, <3>3, TwoFinishes DEF OneFinishPerCause
  <2> QED
    BY <1>1, <2>1, <2>2
<1> QED
  BY <1>5, <1>6 DEF FinishInv

\* The worker puts its finish once, as the engine ends, and no stop.
LEMMA WorkerFinish ==
  ASSUME TypeOK, FinishInv, Worker,
         UNCHANGED <<lpc, lmsg, lnext, outcome, run, rows, finishes>>
  PROVE  FinishInv'
<1> SUFFICES ASSUME EngineFinishesOnce, StopsApart
             PROVE  EngineFinishesOnce' /\ StopsApart'
  BY DEF FinishInv, OneFinishPerCause
<1>1. CASE UNCHANGED <<q, eng, enode>>
  BY <1>1 DEF EngineFinishesOnce, StopsApart, FinishAt, Finished, NoneBetween
<1>2. ASSUME NEW m \in Message, q' = Append(q, m), eng = "over" => eng' = "over",
             m.kind \in EngineKinds => eng # "over" /\ eng' = "over", m.kind # "Stop"
      PROVE  EngineFinishesOnce' /\ StopsApart'
  <2>1. m.kind \notin StopKinds
    BY <1>2 DEF StopKinds
  <2> QED
    BY <1>2, <2>1, PutFinish
<1>3. CASE q' = Append(q, None) /\ UNCHANGED <<eng, enode>>
  BY <1>2, <1>3, Messages DEF None, EngineKinds, FinishKinds
<1>4. ASSUME NEW k \in EngineKinds \cup OtherKinds, q' = Append(q, Ev(k)), eng # "over",
             k \in EngineKinds => eng' = "over"
      PROVE  EngineFinishesOnce' /\ StopsApart'
  <2>1. Ev(k) \in Message /\ Ev(k).kind = k /\ k # "Stop"
    BY Messages DEF Ev, EngineKinds, FinishKinds, OtherKinds
  <2> QED
    BY <1>2, <1>4, <2>1
<1>5. ASSUME NEW n \in Node, NEW k \in NodeKinds, q' = Append(q, NodeEv(k, n)), eng # "over"
      PROVE  EngineFinishesOnce' /\ StopsApart'
  <2>1. NodeEv(k, n) \in Message /\ NodeEv(k, n).kind = k /\ k # "Stop" /\ k \notin EngineKinds
    BY Messages DEF NodeEv, NodeKinds, NodeEndKinds, EngineKinds, FinishKinds
  <2> QED
    BY <1>2, <1>5, <2>1
<1>6. "NodeStarted" \in NodeKinds /\ NodeEndKinds \subseteq NodeKinds
  BY DEF NodeKinds
<1>7. /\ {"Started", "Progress", "Error"} \subseteq OtherKinds
      /\ \A k \in OtherKinds : k \notin EngineKinds
  BY DEF OtherKinds, EngineKinds, FinishKinds
<1> QED
  BY <1>1, <1>3, <1>4, <1>5, <1>6, <1>7, WorkerEffects

LEMMA StepFinish ==
  ASSUME TypeOK, IInv, FinishInv, [Next]_vars
  PROVE  FinishInv'
<1>1. CASE Get
  <2>1. EngineFinishesOnce' /\ StopsApart'
    BY <1>1, GetAt, GetFinish DEF FinishInv
  <2> QED
    BY <1>1, <2>1, GetAt DEF FinishInv, OneFinishPerCause
<1>2. CASE UNCHANGED <<eng, enode, lmsg, run, rows, finishes>> /\ lnext' = "done"
  BY <1>2 DEF FinishInv, OneFinishPerCause
<1>3. CASE /\ UNCHANGED <<eng, enode, lmsg, run, rows, finishes>>
           /\ lnext' = "get" /\ lnext = "get" /\ q' = q
           /\ lpc' = "close" <=> lpc = "close"
  <2>1. EngineFinishesOnce' /\ StopsApart'
    BY <1>3 DEF FinishInv, EngineFinishesOnce, StopsApart, FinishAt, Finished, NoneBetween
  <2> QED
    BY <1>3, <2>1 DEF FinishInv, OneFinishPerCause
<1>4. ASSUME NEW m \in {None, Ev("Stop"), Ev("Ping")}, q' = Append(q, m),
             UNCHANGED <<eng, lmsg, finishes>>, lnext = "get",
             m = Ev("Stop") => lpc # "close" /\ lpc' = "close",
             m # Ev("Stop") => (lpc = "close" => m = None)
      PROVE  FinishInv'
  <2>1. /\ m \in Message /\ m.kind \notin EngineKinds
        /\ m.kind \in StopKinds => m = Ev("Stop")
        /\ None.kind = "None"
    BY Messages DEF FinishKinds, OtherKinds, Ev, None, EngineKinds, StopKinds
  <2>2. EngineFinishesOnce' /\ StopsApart'
    BY <1>4, <2>1, PutFinish DEF FinishInv
  <2> QED
    BY <1>4, <2>2 DEF FinishInv, OneFinishPerCause
<1>5. Ev("Stop") # None /\ Ev("Stop") # Ev("Ping")
  BY DEF Ev, None
<1> QED
  BY <1>1, <1>2, <1>3, <1>4, <1>5, QuietSteps, HandleFinish, WorkerFinish

\* A run is finished at most once by the engine and at most once by a stop.
THEOREM FinishesOncePerCause == Spec => []OneFinishPerCause
<1>1. Init => FinishInv
  BY DEF Init, FinishInv, OneFinishPerCause, EngineFinishesOnce, StopsApart, FinishAt,
         Finished, None, EngineKinds, StopKinds, FinishKinds
<1>2. FinishInv => OneFinishPerCause
  BY DEF FinishInv
<1> QED
  BY <1>1, <1>2, StepFinish, TypeCorrect, Invariance, PTL DEF Spec
=============================================================================
