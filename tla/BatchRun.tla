------------------------------ MODULE BatchRun ------------------------------
(***************************************************************************)
(* The batch tab of the text generation web app: the list of tasks of      *)
(* share/text-generation/index.tsx and the result components of            *)
(* share/text-generation/result/index.tsx that send the requests.          *)
(*                                                                         *)
(* The list is read and written through refs, so handleCompleted sees the  *)
(* latest one whatever render its closure is of.  The result component of  *)
(* a task is mounted while the task is not pending and has its id as key;  *)
(* "Run once" mounts one component without a key, task 0 here.  A press of *)
(* either Run button starts an epoch (the Date.now() in controlSend).  An  *)
(* action is one callback with the render it causes and the effects of     *)
(* that render.                                                            *)
(***************************************************************************)
EXTENDS Naturals, Sequences, FiniteSets

CONSTANTS GroupSize, \* GROUP_SIZE
          MaxRows,   \* bound: rows of an uploaded file
          MaxEpochs  \* bound: presses of the Run buttons

ASSUME GroupSizeAssumption == GroupSize \in Nat \ {0}
ASSUME BoundsAssumption == MaxRows \in Nat \ {0} /\ MaxEpochs \in Nat

Statuses == {"pending", "running", "completed", "failed"}
Over == {"completed", "failed"}
Once == 0
Keys == {Once} \cup 1..MaxRows
Epochs == 0..MaxEpochs

VARIABLES
  isCallBatchAPI, \* which of the two result panes is rendered
  allTaskList,    \* status of each task, by task id
  currGroupNum,   \* the count at which a group was last added
  epoch,          \* controlSend
  controlRetry,   \* "retry all failed" was pressed at least once
  inst,           \* the epoch in which a key's component was mounted
  isResponding,   \* of the component of a key
  sends,          \* requests whose 60 s timer and answer are both to come
  strays,         \* history: a request of an earlier epoch ended since the
                  \* list was made
  beat            \* history: flips whenever a request ends

vars == <<isCallBatchAPI, allTaskList, currGroupNum, epoch, controlRetry,
          inst, isResponding, sends, strays, beat>>

TypeOK ==
  /\ isCallBatchAPI \in BOOLEAN
  /\ \E n \in 0..MaxRows : allTaskList \in [1..n -> Statuses]
  /\ currGroupNum \in 0..(MaxRows + 1)
  /\ epoch \in Epochs
  /\ controlRetry \in BOOLEAN
  /\ inst \in [Keys -> Epochs]
  /\ isResponding \in [Keys -> BOOLEAN]
  /\ \A s \in sends : /\ s.task \in Keys /\ s.inst \in Epochs
                      /\ s.epoch \in Epochs /\ s.no \in Nat
  /\ strays \in BOOLEAN /\ beat \in BOOLEAN

TasksIn(list, S) == {i \in DOMAIN list : list[i] \in S}

(* showTaskList and renderRes: the keys whose component is rendered. *)
MountedIn(batch, list) ==
  IF batch THEN TasksIn(list, Statuses \ {"pending"}) ELSE {Once}

Init ==
  /\ isCallBatchAPI = FALSE
  /\ allTaskList = <<>>
  /\ currGroupNum = 0
  /\ epoch = 0
  /\ controlRetry = FALSE
  /\ inst = [k \in Keys |-> 0]
  /\ isResponding = [k \in Keys |-> FALSE]
  /\ sends = {}
  /\ strays = FALSE
  /\ beat = FALSE

NewSend(k, in, ep, others) ==
  [task |-> k, inst |-> in, epoch |-> ep,
   no |-> CHOOSE n \in 0..Cardinality(others) :
            ~ \E s \in others : s.task = k /\ s.inst = in
                                /\ s.epoch = ep /\ s.no = n]

-----------------------------------------------------------------------------
Failed(list, k) == k \in DOMAIN list /\ list[k] = "failed"

\* Mutant of SendDue: a component mounted between two presses is forgotten.
SendDue_OnPressOnly(mounted, kept, ep) ==
  {k \in mounted : ep # 0 /\ ep # epoch}

(* The effect of controlSend runs in a component that was mounted by this  *)
(* render or that got a new value.                                         *)
SendDue(mounted, kept, ep) ==
  {k \in mounted : ep # 0 /\ (k \notin kept \/ ep # epoch)}

(* The effect of controlRetry: renderRes hands the value to a failed task  *)
(* only, so it also changes when a task fails after a press of the button. *)
RetryDue(mounted, kept, list, retry, clicked) ==
  {k \in mounted : /\ retry /\ Failed(list, k)
                   /\ k \notin kept \/ clicked \/ ~ Failed(allTaskList, k)}

(***************************************************************************)
(* A render and its effects.  batch, list, ep and retry are the new state, *)
(* clicked tells that controlRetry got a new value, resp is isResponding   *)
(* as the callback left it, may is checkCanSend, and left the requests     *)
(* that are still open.  A component is kept while its key is; a new one   *)
(* runs both effects.  handleSend is refused by the isResponding of this   *)
(* render, even when the effect of controlStopResponding, which runs       *)
(* first, has just asked to reset it.                                      *)
(***************************************************************************)
Render(batch, list, ep, retry, clicked, resp, may, left) ==
  LET mounted == MountedIn(batch, list)
      kept == mounted \cap MountedIn(isCallBatchAPI, allTaskList)
      free == {k \in mounted : may /\ (k \in kept => ~ resp[k])}
      sending == SendDue(mounted, kept, ep) \cap free
      retrying == RetryDue(mounted, kept, list, retry, clicked) \cap free
      inst2 == [k \in Keys |-> IF k \notin mounted THEN 0
                               ELSE IF k \in kept THEN inst[k] ELSE ep]
      first == left \cup {NewSend(k, inst2[k], ep, left) : k \in sending}
  IN /\ isCallBatchAPI' = batch
     /\ allTaskList' = list
     /\ epoch' = ep
     /\ controlRetry' = retry
     /\ inst' = inst2
     /\ sends' = first \cup {NewSend(k, inst2[k], ep, first) : k \in retrying}
     /\ isResponding' =
          [k \in Keys |-> \/ k \in sending \cup retrying
                          \/ k \in kept /\ resp[k] /\ ~ (batch /\ ep # epoch)]

(* "Run once": the batch list is cleared, whatever is still running. *)
RunOnce ==
  /\ epoch < MaxEpochs
  /\ \E may \in BOOLEAN :
       Render(FALSE, <<>>, epoch + 1, controlRetry, FALSE, isResponding, may,
              sends)
  /\ UNCHANGED <<currGroupNum, strays, beat>>

\* Mutant of RunBatch: every row is running from the start.
RunBatch_AtOnce(n) ==
  /\ epoch < MaxEpochs
  /\ TasksIn(allTaskList, Statuses \ {"completed"}) = {}
  /\ Render(TRUE, [i \in 1..n |-> "running"], epoch + 1, controlRetry, FALSE,
            isResponding, TRUE, sends)
  /\ currGroupNum' = 0
  /\ strays' = FALSE
  /\ UNCHANGED beat

(* handleRunBatch with a file of n valid rows; refused unless every task   *)
(* of the last batch was completed, which an empty list satisfies.         *)
RunBatch(n) ==
  /\ epoch < MaxEpochs
  /\ TasksIn(allTaskList, Statuses \ {"completed"}) = {}
  /\ Render(TRUE,
            [i \in 1..n |-> IF i <= GroupSize THEN "running" ELSE "pending"],
            epoch + 1, controlRetry, FALSE, isResponding, TRUE, sends)
  /\ currGroupNum' = 0
  /\ strays' = FALSE
  /\ UNCHANGED beat

(* "Retry all failed": each failed task's component gets a new value. *)
RetryAll ==
  /\ isCallBatchAPI /\ TasksIn(allTaskList, {"failed"}) # {}
  /\ Render(TRUE, allTaskList, epoch, TRUE, TRUE, isResponding, TRUE, sends)
  /\ UNCHANGED <<currGroupNum, strays, beat>>

(* The retry button of one failed task: its component's handleSend. *)
RetryOne(i) ==
  /\ isCallBatchAPI /\ i \in TasksIn(allTaskList, {"failed"})
  /\ ~ isResponding[i]
  /\ sends' = sends \cup {NewSend(i, inst[i], epoch, sends)}
  /\ isResponding' = [isResponding EXCEPT ![i] = TRUE]
  /\ UNCHANGED <<isCallBatchAPI, allTaskList, currGroupNum, epoch,
                 controlRetry, inst, strays, beat>>

-----------------------------------------------------------------------------
\* Mutant of RunTasksCount: the task that completes is not counted.
RunTasksCount_OffByOne(list) == Cardinality(TasksIn(list, Over))

(* handleCompleted: 1 + the tasks that are over, the one that completes    *)
(* among them when it is retried.                                          *)
RunTasksCount(list) == 1 + Cardinality(TasksIn(list, Over))

NeedToAddNextGroup(list, group) ==
  LET n == RunTasksCount(list)
      N == Len(list)
  IN /\ group # n
     /\ TasksIn(list, {"pending"}) # {}
     /\ n % GroupSize = 0 \/ N < n + GroupSize

(* The ids of the first GroupSize pending tasks. *)
NextPendingTaskIds(list, group) ==
  LET pending == TasksIn(list, {"pending"})
  IN IF NeedToAddNextGroup(list, group)
     THEN {i \in pending : Cardinality({j \in pending : j < i}) < GroupSize}
     ELSE {}

\* Mutant of ListAfter: a task that is not on the list is put on it.
ListAfter_Upserts(list, group, taskId, isSuccess) ==
  LET next == NextPendingTaskIds(list, group)
  IN [i \in DOMAIN list \cup {taskId} |->
        IF i = taskId THEN (IF isSuccess THEN "completed" ELSE "failed")
        ELSE IF i \in next THEN "running" ELSE list[i]]

(* What handleCompleted makes of the list, and of currGroupNum. *)
ListAfter(list, group, taskId, isSuccess) ==
  LET next == NextPendingTaskIds(list, group)
  IN [i \in DOMAIN list |->
        IF i = taskId THEN (IF isSuccess THEN "completed" ELSE "failed")
        ELSE IF i \in next THEN "running" ELSE list[i]]

GroupAfter(list, group) ==
  IF NeedToAddNextGroup(list, group) THEN RunTasksCount(list) ELSE group

(* A request ends: its component stops responding if it is still mounted,  *)
(* and handleCompleted has changed whatever list there is now.             *)
Ends(s, list, group) ==
  LET alive == s.task \in MountedIn(isCallBatchAPI, allTaskList)
               /\ inst[s.task] = s.inst
      resp == [isResponding EXCEPT ![s.task] = @ /\ ~ alive]
  IN /\ currGroupNum' = group
     /\ Render(isCallBatchAPI, list, epoch, controlRetry, FALSE, resp, TRUE,
               sends \ {s})
     /\ strays' = (strays \/ (s.epoch # epoch /\ s.task # Once))
     /\ beat' = ~ beat

Completes(s, isSuccess) ==
  Ends(s, ListAfter(allTaskList, currGroupNum, s.task, isSuccess),
       GroupAfter(allTaskList, currGroupNum))

(* onWorkflowFinished or onCompleted.                                      *)
Answer(s) == Completes(s, TRUE)

(* onError of a request that is refused, onWorkflowFinished with an error, *)
(* or the timer of 60 s, after which an answer is only notified.           *)
Fails(s) == Completes(s, FALSE)

(* An error in the stream of an answer: handleStream calls onError and     *)
(* then onCompleted, which does not look at its hasError.  Both run        *)
(* handleCompleted before the page is rendered: the row is completed.      *)
StreamError(s) ==
  LET list == ListAfter(allTaskList, currGroupNum, s.task, FALSE)
      group == GroupAfter(allTaskList, currGroupNum)
  IN Ends(s, ListAfter(list, group, s.task, TRUE), GroupAfter(list, group))

Next ==
  \/ RunOnce
  \/ \E n \in 1..MaxRows : RunBatch(n)
  \/ RetryAll
  \/ \E i \in DOMAIN allTaskList : RetryOne(i)
  \/ \E s \in sends : Answer(s) \/ Fails(s) \/ StreamError(s)

Spec == Init /\ [][Next]_vars

-----------------------------------------------------------------------------
(* Every request ends, by its timer: weak fairness of                      *)
(* \E s \in sends : Fails(s), which is enabled while a request is open,    *)
(* written out with beat.                                                  *)
Ended == beat' # beat
TimersFire == []<>(sends = {}) \/ []<><<Ended>>_vars
FairSpec == Spec /\ TimersFire

Running == TasksIn(allTaskList, {"running"})
Pending == TasksIn(allTaskList, {"pending"})

-----------------------------------------------------------------------------
(* No spinner is for ever: a running row has a request that will call      *)
(* handleCompleted for it, although handleSend is refused to a component   *)
(* that is still responding; and a component that says it is responding,   *)
(* and so refuses to send, has a request of its own open that resets it.   *)
SpinnersEnd ==
  /\ \A i \in Running : \E s \in sends : s.task = i
  /\ \A k \in MountedIn(isCallBatchAPI, allTaskList) :
       isResponding[k] => \E s \in sends : s.task = k /\ s.inst = inst[k]

(* A group is started early, when the count of what is over runs ahead     *)
(* (see NextGroupWaits): it does so by one at most, and never lets more    *)
(* than one row beyond a group run, whatever is retried or fails in its    *)
(* stream, unless an answer of an earlier batch changed the list.          *)
RunningBounded == strays \/ Cardinality(Running) <= GroupSize + 1

(* After the user's last press the page comes to rest with every row over: *)
(* no row is left pending because the count that decides when to add a     *)
(* group is off by one for every retried task, for answers of an earlier   *)
(* batch and of "Run once" (index.tsx:355); and sending a failed row       *)
(* again, which a press of "retry all" also causes for rows that fail      *)
(* later, does not go on for ever.                                         *)
Settles == \/ []<><<~ Ended>>_vars
           \/ <>[](sends = {} /\ Pending = {} /\ Running = {})

-----------------------------------------------------------------------------
(* What a comment says of GROUP_SIZE, and the code does not do.            *)

(* "The group task finished then the next group" (index.tsx:47): rows of a *)
(* list are started in a step that leaves no row running which ran before. *)
NextGroupWaits ==
  [][epoch' = epoch /\ Pending \cap Running' # {}
       => Running \cap Running' = {}]_vars
=============================================================================
