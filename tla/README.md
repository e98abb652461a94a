# TLA+ verification of the workflow runtime and its editor

The repository is a platform for building applications on language models. Its
backend (`src/api`, Python: Flask under gunicorn/gevent, Celery workers, Redis,
PostgreSQL) runs *workflows*: graphs of nodes, executed in threads, whose events
are streamed to a client and recorded in the database. Its web front end
(`src/web`, TypeScript) is where workflows are drawn, saved and run by hand. This
directory holds TLA+ models of both cores, the TLC configurations that check them
on small instances, and proofs, checked by TLAPS, of their main invariants for all
instances.

Paths below are relative to `src/api` unless they begin with `src/` or `web/`;
`components/` stands for `src/web/app/components/`.

## 1. Inventory

### Components, their state and how they interact

```
 HTTP request
   | AppGenerateService.generate ........ takes a slot of the app's RateLimit (Redis)
   v
 WorkflowAppGenerator  -- starts --> worker thread: WorkflowAppRunner
   |                                    | iterates over
   |                                    v
   |                                 WorkflowEntry.run -> GraphEngine.run
   |                                    |   forks branches on a GraphEngineThreadPool
   |       AppQueueManager._q           |   (queue per fork)
   | <----- queue, stop flag (Redis) ---+
   v
 task pipeline: listen(), handlers --> workflow_runs, workflow_node_executions
   | stream responses
   v
 RateLimitGenerator --> client (may go away at any time)

 Browser tab(s) of one user
   canvas (reactflow) <-- handlers of use-nodes-interactions --> undo history
     | debounced, immediate and page-hide syncs, with the hash of the draft
     v
   WorkflowService.sync_draft_workflow ... check the hash, write the draft row
   batch tab --> Result components --> one request per row, groups of five
   every request: 401 --> refresh-token.ts (lock in localStorage) --> AccountService
```

| component | state it keeps | operations | hard behaviours | what makes it correct |
|---|---|---|---|---|
| App run: `core/app/apps/base_app_queue_manager.py`, `.../workflow/*`, `workflow_app_generate_task_pipeline.py`, `workflow_cycle_manager.py` | queue, Redis stop flag, run row, node-execution rows, the response | publish, listen, one handler per event, stop | two threads publish to one queue in two steps each; stop and time limit race with the engine's end; the client leaves | the record is final when the response ends; every event finds the rows it updates; what stays running in a run that succeeded is only what an iteration or a loop abandoned; the request thread ends, and its run with it |
| Graph engine: `core/workflow/graph_engine/graph_engine.py` | walks, forks and their queues, thread pool, node states, step count, handled exceptions | walk, fork, join, relay, end | branches of branches on one bounded pool; failures while siblings run; limits read by many threads | joins wait; success is complete; the stream is well formed; a run ends |
| App rate limit: `core/app/features/rate_limiting/`, `services/app_generate_service.py` | object per process; Redis hash of slots, Redis limit | construct, enter, sweep, exit | check then set over Redis; sweeps racing with requests; crashes leave slots | a served request keeps its slot, an ended one gives it back, one that is lost or kept is swept |
| Graph construction: `graph_engine/entities/graph.py` | edge and parallel mappings | `Graph.init` | recursive search for parallels and their ends | cycles are refused; a parallel's end is where its branches meet |
| Iteration and loop nodes | nested engines, an inner pool | one engine per item, in sequence or parallel | events and failures of the nested engine; sharing the pool | one result per item, in order |
| Answer/end stream processors | nodes not yet decided, route positions | per event | order of chunks of parallel branches | a chunk is shown when all before it are |
| Chat, completion, agent, advanced-chat apps | as the app run, with messages and conversations | as the app run | as the app run | as the app run |
| Document indexing: `core/indexing_runner.py`, `tasks/*indexing*`, `services/dataset_service.py` | document and segment rows, Redis flags, vector index | index, pause, recover, retry, delete | tasks that overlap; a flag and a row that disagree; worker crashes | segments are stored and indexed once; a document comes to a final status |
| Segment and document switches, annotations | rows, index, Redis flags with expiry | enable, disable, delete | tasks out of order | row and index agree at rest |
| Embedding cache: `core/rag/embedding/cached_embedding.py` | embeddings table, Redis | embed, pair, store | an embedding that fails among many | a text's cached embedding is its own |
| Model load balancing: `core/model_manager.py` | round-robin index, cooldowns in Redis | fetch_next, cooldown | concurrent requests share the index | a configuration that is not cooling down is found |
| Metadata: `services/metadata_service.py` | lock in Redis, rows | lock, change, unlock | get, then set | one operation at a time |
| Trace queue: `core/ops/ops_trace_manager.py` | process-wide queue, timer | add, collect, send | timer alive but past collecting | every trace is sent |
| Batches: `components/share/text-generation/index.tsx`, `result/index.tsx` | task list (through refs), the mounted results and whether they respond, open requests, group count | run once, run batch, answer, time out, retry one, retry all | effects that run when a component is mounted or a prop changes; answers that arrive after their list is gone | every row ends and no spinner stays; groups bound what runs |
| Canvas: `components/workflow/hooks/*`, `nodes/*/use-interactions.ts` | nodes, edges, clipboard, dialog, undo and redo states | connect, add, insert, change, delete, copy, paste, undo, redo | a debounced history; a dialog that captured what is gone; ids made of the time | edges join nodes of one level; containers have their start; no cycle; no edit missing from the history |
| Draft: `components/workflow-app/hooks/*`, `services/workflow_service.py` | draft row, each page's graph, features and hash, backup, open requests | sync, refresh, view, restore, hide, show | overlapping requests answered out of order; check and write in two steps; two pages | no update is lost unseen; what a page at rest shows is saved |
| Sessions: `web/service/refresh-token.ts`, `base.ts`, `services/account_service.py` | lock in the tab and in localStorage, both tokens, refresh tokens in Redis | refuse, look, take, rotate, store, time out, close | tabs run in parallel; crashes leave the lock; a rotated token may get lost | the lock is somebody's; one refresh at a time; every call ends |
| One-time tokens: `services/account_service.py`, `libs/helper.py` | tokens, counters in Redis with expiry | issue, revoke, count | expiries, counts per second | one token per account; limits hold |
| DSL; tools, plugins, model runtime; retrieval; controllers; models and migrations; schedules; the rest of `src/web`; `src/sdks`, `src/docker` | rows, or none | one transaction, or I/O | none a model would show | - |

`PROJECT.json` lists every component with its status, and under `hazards` what in
this code is hardest to test, line by line, with the properties that watch it.

### Status

Modelled, wholly or in part: the app run, the graph engine, the app rate limit,
batches, the canvas, the draft, the sessions. Everything else in the table is not
modelled (section 6 says why) or not worth modelling (last row).

## 2. Plan

Order: what every run passes through first, then what persists.

1. `AppRun` with its abstract specification `RunLifecycle`; its invariants and the
   refinement proved. *Done.*
2. `GraphEngine` with `EngineStream`; every safety property of its runs and the
   refinement proved. *Done.* Left: the registry of pools and nested engines
   (iteration, loop, workflow tools).
3. `RateLimit`; its safety invariants proved. *Done.*
4. The front end: `BatchRun`, `WorkflowCanvas`, `DraftSync`, `TokenRefresh`; all
   their invariants proved. *Done.*

What would come next, in this order: `AppRunEngine`, a composition in which the
worker of `AppRun` is fed by an `EngineStream` in place of its own engine;
`DocumentIndexing` (a document's row, its segments, the pause flag, overlapping
tasks and worker crashes); `LoadBalancer`, `EmbeddingCache`, `TraceQueue`,
`TokenManager`, one hazard each; the stream processors and `Graph.init`'s search
for parallels, as pure operators against reference definitions.

Runs are one configuration per question, two to four actors, seconds to minutes.
Theorems: the invariants each module's liveness and refinement rest on.

## 3. Modules

| module | what it is |
|---|---|
| `AppRun` | one run of a workflow app: worker thread, request thread, queue, flag, rows |
| `RunLifecycle` | what the holder of the response is promised; refined by `AppRun` |
| `AppRunProofs` | theorems about `AppRun` |
| `MCAppRun` | instances for TLC |
| `GraphEngine` | one run of a graph: walks, forks, pool, limits, verdict |
| `EngineStream` | what the consumer of `GraphEngine.run` is promised; refined by `GraphEngine` |
| `GraphEngineProofs` | theorems about `GraphEngine`: types and steps, forks and the pool |
| `GraphEngineStreamProofs` | theorems about what its runs tell: success, stream, what overlaps |
| `MCGraphEngine`, `MCGraphEngineForks` | two graphs for TLC |
| `RateLimit` | the slots of an app's active requests, over processes and Redis |
| `RateLimitProofs` | theorems about `RateLimit` |
| `MCRateLimit` | instances for TLC |
| `BatchRun`, `MCBatchRun` | the batch tab of a text generation app |
| `BatchRunProofs` | theorems about `BatchRun` |
| `WorkflowCanvas`, `MCWorkflowCanvas` | the canvas of a workflow, with its undo history; four drafts for TLC |
| `WorkflowCanvasProofs` | theorems about `WorkflowCanvas` |
| `DraftSync`, `MCDraftSync` | the draft of a workflow and the pages that edit it |
| `DraftSyncProofs` | theorems about `DraftSync` |
| `TokenRefresh`, `MCTokenRefresh` | how tabs replace an expired access token; two tabs for TLC |
| `TokenRefreshProofs` | theorems about `TokenRefresh` |

Definitions whose names end in a suffix after `_` and that are introduced by the
word *mutant* (`ReadsSlots_Early`) are altered copies of the definition that
follows them. They model a plausible mistake; replacing the definition by its
mutant makes TLC refute a property. No specification uses them.

### AppRun

`q` is `AppQueueManager._q`; a message is an event kind with the node it is about,
or `None`. `flag` is the Redis key of the stopped task. The worker's `wpc` goes
through the steps of `_publish`: put the message, put the terminator if the event
ends the run (`stop_listen`), look at the flag (raise `GenerateTaskStoppedError`).
`eng` and `enode` abstract the engine to the stream it may produce: nodes start and
end in any order, failure ends the stream, and no event comes of a hanging node.
Executions in `Inner` are of nodes inside an iteration or a loop, which run while some
node of the outer graph does (`ContainerRuns`) and whose failure it may handle. Such a
container may cut its round short, by an error it tolerates or by a loop's break
condition (`iteration_node.py:462-504`, `loop_node.py:291`, `:310`): the end of what
its other branches run is then never published (`RoundCut`, status `abandoned`), and
the outer run goes on.
The request thread's `lpc` goes through `listen()` (get with a timeout, yield,
the finally block with its time check, its own publications) and through one
`Handle...` action per branch of `_process_stream_response`, which writes `run`
(the workflow_runs row) and `rows` (node executions) as the cycle manager does,
raising where the code raises. `streaming`, chosen at the start, tells stream from
blocking mode: in blocking mode the first final event is the answer.

Actions of the environment: the client pulls or leaves at a yield, the listener's
time limit passes, a user asks to stop (the code ignores all but the owner), the
flag expires after 600 s.

### GraphEngine

A task is a walk of `_run`, named by the node it starts at: the root's in the
thread of `run()`, the others on the pool. `pc` is the task's place in `_run`,
`_run_node`, `_run_parallel_branches` and `_run_parallel_node`; `todo`, `futures`
and `okay` are a fork's edges to submit, futures and success count; `q` the queue
it listens to. `CountsSubmit` and `Submits`/`Refused` are the two halves of
`GraphEngineThreadPool.submit`; `SetsFuture` and `CallsBack` the end of a thread.
`out` is the event at which `run()` is paused: the root goes on only when its
consumer resumes it.

Nodes end with one of four outcomes: they succeed, end by their error strategy
(`exception`), fail by result (`failed`), or `run()` raised (`raised`); where a
failed node leads is decided by its edges, as in the code. `Routes` gives, for a
node and an outcome, the lists of edges the run conditions may select.

Assumed of the graph, because `Graph.init` establishes it: nodes are finite, edges
lead to nodes other than the root, and following edges and joins never returns to
a node (`AcyclicAssumption`). `WalksAssumption` is a restriction of the model, not of
the code: a task is named by its first node and a node has one status, so no two
tasks may come to the same node, and a parallel is forked at one node (its
`start_from_node_id`). `Graph.init` does not refuse the others: where only
some of a parallel's branches meet before its end, each of them runs what follows.

`Within[b]` is what a branch runs up to the end of its parallel, with the branches
forked on the way. Nothing is assumed of where it leads: that what one branch runs
does not lead into what another runs is a matter of the graph, and so
`OnlyBranchesOverlap`, which is proved, says that two nodes run side by side only within
different branches of one fork; `PredecessorsOver` is checked on a graph in which no
branch leads into another.

### RateLimit

`made`, `max` and `last` are each process's one `RateLimit` object; `slots` and
`stamp` the Redis hash of active requests, `stored` the Redis key of the limit. A
request's `pc` passes one step per call to Redis, because other requests of the
process (gevent) and other processes run in between: `Arrives` (the app's row is
read), `Constructs` (`__new__`, `__init__`), `Enters`, the sweep (`FindsLimit`,
`StoresLimit`, `LoadsLimit`, `ReadsSlots`, `DropsSlots`), `Counts`, `Adds`, then
`Stops` and `Exits`, however the request ends but for one way: a `RateLimitError`
raised by what is served is raised again without `exit`, and the `finally` of
`generate()` exits only what does not stream (`app_generate_service.py:122-129`), so
that a stream refused in this way (`IsRefused`) is `stranded` and keeps its slot. A
process that crashes loses its object and its requests, not their slots. Time counts
units of five minutes: a slot is overdue after more than two units, an object sweeps
after more than one.

### BatchRun

`allTaskList` is the list of tasks behind `getLatestTaskList`, `currGroupNum` and
`controlRetry` the values of the same name, `epoch` the successive values of
`controlSend`. A result component is mounted while its task is not pending; `inst`
is the epoch it was mounted in, `isResponding` its state. `sends` are the requests
whose 60 s timer is to fire. An action is one callback with the render it causes and
the effects of that render (`Render`): `RunOnce`, `RunBatch`, `RetryAll`,
`RetryOne`, and the end of a request (`Ends`), which is `handleCompleted` on
whatever list there is by then: an `Answer`, a failure or the timer (`Fails`), or an
error in the stream (`StreamError`), at which `handleStream` calls `onError` and
then `onCompleted` (`web/service/base.ts:183-195`), so that `handleCompleted` runs
twice before the page is rendered and the row ends as completed. `SendDue` and
`RetryDue` are the two effects that send.

### WorkflowCanvas

`canvas` is the graph reactflow shows: a function from ids to type, parent and
`start_node_id`, and a set of edges. Each handler is an action that reads the canvas
and sets it in one go: `Connect`, `ConnectEnd`, `AddAfter`, `AddBefore`,
`InsertBetween`, `Change`, `Disconnect`, `DeleteBranch`, `DeleteEdge`, `DeleteNode`
with its dialog (`showConfirm`, `Confirm`, `Cancel`), `DeleteBundle`, `Copy`,
`Paste`. `Edit` is what all of them end with, a debounced save to the history
(`pending`, then `Save`); `Undo` and `Redo` move between `past`, `present` and
`future`, as zundo does.

A draft is a canvas that was saved and loaded, which is what `CanvasesAssumption` says
of it: edges join nodes of one level, containers are at the top (none is offered
inside another, `components/workflow/hooks/use-nodes-data.ts:49`) and have the node
they start at (`preprocessNodesAndEdges` in
`components/workflow/utils/workflow-init.ts` adds one where it is missing). Its starts
are in place (`StartsInPlace`): no edge ends at one, as they have no target handle, and
a container has one inside, both of which the handlers keep. `DraftsAssumption` is what
`initialEdges` does when a page is opened: `getCycleEdges` finds the nodes that its
depth-first search leaves unfinished, the edges among them are dropped, and what the
search has finished leads only to what it has finished, so that no cycle remains. What
a collided paste leaves behind is not taken as a draft.

`CheckNestedParallelLimit` walks the level from its start, to find parallels. On a
cycle it does not come back (the page hangs, the edit is not made, and the model has no
step); but it breaks off at the first node where branches meet and never walks what is
queued behind (`getParallelInfo`, `components/workflow/utils/workflow.ts:232-242`). So
the walk refuses a cycle only where nothing `Meets`; past such a node the edit may be
made, cycle or not. `dropped` says that a connection which `isValidConnection` would
have refused was dropped on an aggregator and made.

### DraftSync

The draft, or a page, is the set of the edits it contains, of the graph and of the
`features`, and its hash is this set: `unique_hash` covers both
(`models/workflow.py:247`) and a sync sends both. A refresh (`Refreshed`) replaces
the graph and the hash, and leaves the features what they are on the page
(`use-workflow-refresh-draft.ts:21-30`). A page has its `canvas`, the `hash` it
believes the draft has, a debounced sync that is `due`, and a `backup` while it
shows something else. A request in `syncs` is sent, checked, written and answered,
or rejected, in steps of its own, because the server's threads and the page run in
between; so is a refresh in `fetches`. `undone` collects what users have taken back
on purpose, `causes` what went wrong. Of the edits in `Gone` nothing is promised:
those taken back, and those of the features once a refresh has left a page with
other features than the draft's.

### TokenRefresh

The lock is `isRefreshing` of each tab and `sign` in localStorage, whose age is
`fresh`. A call's `pc` goes from its first fetch, by a refusal (401), to the look at
the lock (`Checks`) and its setting (`Takes`), or to the polling of who found it
taken; the refresh request is verified and rotated by the server in two steps, and
its answer stored, lost, or left with the page. `timer` is the race of 100 s, which
nothing clears. `result` is what the caller was told. Environment: the user signs
in or closes the tab, a tab crashes, access tokens expire, the sign gets old.

## 4. Runs

Every property below has a mutant of a modelled definition under which TLC refutes
it; they are listed in `PROJECT.json`.

| run | instance | properties |
|---|---|---|
| `app_run` | a node execution and one that may be inside it, two users, both modes, one ping, backlog of two | `TypeOK`, `NeverEndsUnexpectedly`, `RaisesOnlyUnstarted`, `SucceededRunIsQuiet`, `StopReachesWorker`, `OneFinishPerCause`, `BlockingAnswersFinal`, `ImplementsLifecycle`, `RequestsEnd` |
| `engine_nested` | a parallel in a branch of a parallel, two workers | `OnlyBranchesOverlap`, `PredecessorsOver`, `SuccessIsComplete`, `ImplementsStream` |
| `engine_ends` | one forking branch that may be skipped, beside a line and a target of no parallel, which the fork passes over; two workers, three submissions, three steps | `TypeOK`, `ForksOutliveBranches`, `SubmitsBalance`, `StepsBounded`, `RunEnds` |
| `rate_limit` | three requests, two processes, limit of two or none, three units of time | `TypeOK`, `LiveHolds`, `EndedHoldsNothing`, `CountsOnlyRecent` |
| `batch_run` | up to four rows in groups of two, three presses of a Run button | `TypeOK`, `SpinnersEnd`, `RunningBounded`, `Settles` |
| `canvas` | four drafts, two edits, undo and redo without bound | `TypeOK`, `EdgesJoinNodes`, `EdgesStayInLevel`, `ContainersHaveStart`, `NoCycleUnlessDropped`, `SettledIsSaved` |
| `draft_sync` | two tabs, either in the background at first; two edits, of graph or features; two syncs, one refresh | `TypeOK`, `HashIsSeen`, `RestIsSaved`, `NoLostUpdate` |
| `token_refresh` | two calls in one tab, one in another; one expiry, two more pairs of tokens | `TypeOK`, `LockIsHeld`, `OneCanSend`, `CallsEnd` |
| `app_run_stop` | refutes | `QuietAfterStop` |
| `engine_starved` | refutes | `TimeLimitEndsRun` |
| `rate_limit_overrun` | refutes | `ActiveWithinLimit` |
| `batch_groups` | refutes | `NextGroupWaits` |

### Bounds, and why they are enough

- *AppRun*: two executions give every order of two nodes' events, overlapping or
  not, and a failure beside a running node; one of the two may be of a node inside the
  other's, to be abandoned or to fail there; the handlers treat executions alike.
  `MaxBacklog = 2` bounds the queue when the worker puts, so that the worker is up
  to two messages ahead of the listener, whose own publications come on top: the
  races need an event, a stop and a terminator in either order. One ping shows the
  listener publishing among the others; the listener's clock is looked at with it.
  Either node may hang, fail, or end.
- *GraphEngine*: the nested graph has a fork in a fork, a join inside a branch, a
  node after the join, a skipped parallel, an error strategy and both kinds of
  failure; two workers make the pool both full and idle. In `engine_ends` room for
  three submissions and three steps makes both limits stop some runs and not others,
  and an agent fails before its start. The deep graph of `engine_starved` has as many
  forking branches as workers.
- *RateLimit*: two requests race, a third finds what they left; two processes
  sweep at once, one may crash and sweep anew. Three units let a slot of the first
  become overdue (more than two) and be swept, with the sweep itself stretched over
  time. `Alive` and `Interval` keep the code's ratio.
- *BatchRun*: four rows are two groups, so that the count that starts the second can
  be passed by, repeated or met early; three presses give a batch, an interrupting
  single run, and a second batch that meets the answers of the first. Four rows in
  groups of three, and one press, are enough for a group that starts early.
- *WorkflowCanvas*: `MaxEdits` counts edits, not undos, saves, copies or dialog
  steps, which come between without bound. The drafts hold what two edits would not
  reach: an iteration with an inside, two edges between the same two nodes, an aggregator
  that a dropped connection can close a cycle with where the walk comes round, and,
  inside an iteration, parallel branches that meet in part, with an aggregator where
  the walk does not come. New blocks are a
  container and a block of several handles, the two that differ; `MaxId` is never
  reached.
- *DraftSync*: two syncs of one page or of two overlap, a refresh crosses them, and
  either page is hidden, viewing or restoring. A tab may be in the background at first,
  so that it refreshes without having synced: with one sync of the other tab before and
  one of its own after, a refresh that leaves its features leads to a lost update
  within two syncs. A constraint stops at states in which a race has come that all the
  properties except (`Unexcused`), not where features were left; the states themselves
  are checked.
- *TokenRefresh*: in one tab a call that waits for another, in the second a call that
  races for the lock; the third pair of tokens is that of a second refresh or of a
  new sign-in.

`CHECK_DEADLOCK FALSE` is used where the modelled system may really stop:
requests or calls that are all over (`RateLimit`, `TokenRefresh`), a page whose
user has done all that the bounds allow (`BatchRun`, `WorkflowCanvas`, `DraftSync`),
and the engine runs that check with `RunEnds` and `TimeLimitEndsRun` whether the run
stops short.

### Fairness

`AppRun`: weak fairness of the listener and the handlers (a thread that can run is
run), of the two short steps of the worker after a put, of the client (gunicorn
pulls the next chunk or closes the generator), and of the clock. None of the
engine: a node may run for ever, which is why the listener has a time limit.

`GraphEngine`: weak fairness of each task's thread, which here includes that nodes
return (LLM and HTTP calls have time-outs of their own); of the pool taking the
first branch in its queue when a worker is free; of the consumer resuming; of the
clock. No fairness is assumed of closing.

`BatchRun`: every request ends, by its answer or by its timer. As `ENABLED` of that
disjunction is costly to evaluate, the fairness is written out (`TimersFire`) with a
history variable that flips at each end. The user may stop pressing at any time;
`Settles` says what holds then.

`TokenRefresh`: callbacks and timers of a tab run, fetches of `baseFetch` end (ky
gives them a time limit). Nothing is assumed of the refresh request, which has none.

`RateLimit`, `WorkflowCanvas` and `DraftSync` state no liveness. What the first
promises of lost slots is bounded in time by `CountsOnlyRecent`, which needs none; in
the other two nothing is retried, so that nothing must eventually happen.

### What the runs show

- The listener never sees the terminator before the run is final, so the error
  "queue listening stopped unexpectedly." is unreachable; a run can be finished
  twice, by the engine and by a stop, but by neither twice.
- In a run that succeeded an execution may stay recorded as running: that of a node
  inside an iteration or a loop that cut its round short, whose end is never published,
  as only a failed or stopped run closes its rows (`workflow_cycle_manager.py:262`).
  Nothing else does (`SucceededRunIsQuiet`). A handler raises for want of a row only at
  the end of a node that failed before its start was reported, which may come in the
  middle of a run (`RaisesOnlyUnstarted`).
- The comment in `listen()` that the client stops listening after the stop signal
  is not what happens: `app_run_stop` shows a node started after the run was
  recorded as stopped, which stays recorded as running.
- The engine's joins, its verdict and its stream are right under nested forks and
  failures, with as many workers as forks need. With as many *forking* branches as
  workers the run never ends, and the time limit, looked at between nodes only, does
  not end it (`engine_starved`). A refused submission is counted for good, as
  the last term of `SubmitsBalance` says. The limit on steps is overrun by one step, and in parallel by
  one per thread (`StepsBounded` is the bound that holds).
- The app limit can be exceeded by concurrent requests (`rate_limit_overrun`), and
  lifting it may turn away a request that counts with the limit of another. What
  holds is that a served request's slot is safe until overdue, that an ended request
  keeps one only if it streamed and ended by a `RateLimitError`, and that slots so kept
  or lost in a crash are counted for a bounded time.
- A batch comes to rest with every row over, although the count that starts its
  groups is one too high for a retried row or for an answer that belongs to no row
  (`index.tsx:355`): a group may start early, never not at all. That "the group task
  finished then the next group", as line 47 has it, is refuted by `batch_groups`: the
  last rows of a file are started while rows of the group before them run. What holds is
  that one row more than a group may run then (`RunningBounded`). It counts rows, as
  their status says: a row that is retried stays failed while its request is open, and
  "retry all" sends every failed row at once, so that open requests have no such bound.
  An answer of an earlier batch ends the row of the same number of the new one, which
  `RunningBounded` excludes.
- The graph that is drawn stays well formed under every sequence of edits, undos and
  late saves. Three things are excepted or not promised: two containers pasted in one
  millisecond share the node they start at (`collided`); children whose container was
  replaced, or deleted while a dialog was open, stay behind without it; and a
  connection dropped on an aggregator, beside its handle, is not asked for
  (`use-nodes-interactions.ts:491-526`). All that stands against a cycle there is the
  walk that looks for parallels, which hangs on one, or misses it behind a node where
  branches meet. So the editor may draw a cycle in this way, and in no other
  (`NoCycleUnlessDropped`).
- The hash protects the draft against a page that has not seen it, but not in three
  situations, which `causes` names: two syncs between check and write in the server,
  a refresh that crosses a sync, and a refresh while a run is shown, whose older
  backup is then brought back. This is all that can take back an edit of the graph. The
  features are less safe: the hash covers them, but a refresh brings the page the hash
  without them. A page that was refused for its features rests with features the draft
  has not, and one that refreshes after another's edit of the features overwrites it
  with its next sync, which passes the check. The properties are therefore stated of the
  features only until this has come (cause `features left`). Overlapping syncs of one
  page send the same hash: the second is refused, and the refresh that follows replaces
  the canvas.
- The lock of the token refresh is never left behind by a tab that lives. A second
  refresh token in flight, or a page sent to sign in, takes one of six causes: the
  race between look and set in two tabs, a lock over 100 s old, a timer of this or of
  an earlier call, a lost answer, a page left or crashed with the answer on its way.

## 5. Proofs

All theorems are about `Spec` for every value of the constants that the modules'
assumptions allow. TLC evaluates the assumptions on the instances.

**AppRunProofs.** `Invariance` proves `IInv`. The statement of
interest, `NeverEndsUnexpectedly` (`ListenerNeverRunsDry`), is not inductive: the
terminator may be two puts and several messages away. `TerminatorFollows` says
where the event that put it is: handled, being handled, or before it in the queue.
To know that handling it makes the run final, `StartsOnce` is needed (a run is
started by one event and never reopened) and `OpenWhileListening` (the response
is open exactly while the listener goes on). The proof has a step per action, with
lemmas on appending to and taking from the queue. `RefinesLifecycle` uses the same
invariant to map each step to one of `RunLifecycle` or a stutter. `StopIsSeen`
proves `StopReachesWorker` from the worker's place alone, and `BlockingIsFinal` proves
`BlockingAnswersFinal`: a blocking answer is only given by a handler that has made
the run final. `TypeCorrect` proves the types all of them need. Three more theorems
are about the order of messages, each with an invariant on every position of the queue
on top of `IInv`. `RaisesUnstarted` (`RaisesOnlyUnstarted`): the end of a node comes
after its start, handled, being handled or before it in the queue (`StartsFirst`).
It is an action property: a handler that raises does so at an event of a run that was
never recorded, or at the end of a node that failed unstarted, and at no other.
`SuccessIsQuiet` (`SucceededRunIsQuiet`): when the message of success is at some
position, the end of every node whose start comes before is before it too unless it was
abandoned, and no start comes after (`EndsFollow`, `SuccessIsLast`). `FinishesOncePerCause`
(`OneFinishPerCause`): the engine finishes once, and between any two stops there is a
terminator, which the listener stops at (`StopsApart`).

**GraphEngineProofs.** `TypeCorrect` proves `TypeOK` with `ForksWellFormed`, without
which it is not inductive: a fork's remaining edges are branches, its parallel is
one, and what it has submitted lies in it. `StepLimit` proves `StepsBounded`: the
tasks that are past the check and have not counted their step yet are at most one
per thread, so the count plus those tasks stays within the limit plus the threads;
this uses cardinalities of finite sets from the library.

`ForksWait` proves `ForksOutliveBranches` and `PoolCounts`
`SubmitsBalance`. Both rest on a fact no run states: what a fork submits has never
been started (`TodoInv`), so that a branch that is over stays over and the pool counts
each branch once. A branch that was started was forked at a node that some task has
`Passed` (`StartedInv`); were it forked anew, then by the same task at the same node,
because walks are apart (`OneForker`), but a task never comes back to a node it has
passed, because what follows it is `Downstream` and the graph has no cycle. This is
where `WalksAssumption` is needed, which `Graph.init` does not establish: where branches
meet in part before the end of their parallel, what follows is run, and its branches
forked, once for each of them, and neither theorem speaks of such a graph.

**GraphEngineStreamProofs.** None of the three properties is inductive, because an
event that tells of a node, or of a branch's end, passes from the queue of one fork to
that of the fork above, up to the root. `Above[t]` are the tasks on this way.

- *Losses* (`LostInv`): there is a set of lost tasks, whose walk raised or whose run
  was given up, that explains the queues. A branch that is at work or lost is waited
  for by its fork or its fork is lost too; the loss of one that has ended is in the
  fork's queue (`Answered`). A fork that is not lost knows of its branches what
  `Listened` says: each success comes once, `okay` is the number of those taken,
  `None` is there only when all were taken and nothing is behind it, and behind the
  events of branches that are all over there is the end of one of them. A task that
  does not listen has an empty queue (`Drained`). The set has no variable in the model:
  each step's lemma (`Moving`, `Taking`, `Ending`, ...) says how it grows. From it
  follows `AllQuiet`: a root that has come to its end by itself has no branch at work
  and no event in any queue.
- *What is told* (`ToldInv`): every event that tells of a node is in one queue, once,
  above the task that ran the node (`EventsRight`, `OnceTold`); a start is ahead of its
  end, in the same queue or higher up (`OrderRight`); what was not reported yet is on
  its way (`AllTold`). So at the root's end, `report` is `status`.
- *What was run* (`RunInv`): a node that is not idle was visited by a task, what is
  `running` is run by one, unless the consumer gave the root up, and a failure that was
  reported is followed by nothing but the verdict.

`SuccessComplete` proves `SuccessIsComplete` from the three, and that what comes after a
success are callbacks alone. `RunImplementsStream` proves `ImplementsStream`: `Init` maps
to `EngineStream!Init`, and each step, by what it changes of `report` and `verdict`
(`StepOfStream`), to `Tell`, `Succeed`, `Fail`, `Close` or a stutter. `BranchesOverlap`
proves `OnlyBranchesOverlap`: the task that is about to run a node and the one that runs
another are both at work and not lost, so that neither is above the other, and the last
task above both has forked two branches apart (`AtWorkApart`), each task being `Within`
its own. It needs `WalksAssumption` as the others do, and nothing of where the branches
lead; that no predecessor is running (`PredecessorsOver`) does, and is left to TLC.

**RateLimitProofs.** `LiveKeepsSlot`, `SlotGivenBack` and `LostSlotsAreSwept` prove
`LiveHolds`, `EndedHoldsNothing` and `CountsOnlyRecent` from one invariant; the stream
that was refused is an exception of the second, and a slot like another to the sweeps.
`SweepsOnlyOverdue` says of what a sweep has read and not yet deleted that it is
overdue and was taken by a request past admission, so that the key cannot be taken
anew before it is deleted. For the swept slots `CountsOnlyRecent` is not inductive
because sweeps of one process overlap: an earlier one may end last with an older
reading. `SweptOrSweeping` says that a process is clean, or that some sweep under
way `Covers` everything that was overdue when the last one began.

**BatchRunProofs.** `NoSpinnerIsForever` proves `SpinnersEnd`: a row that responds has
a request whose answer or timer is to come. It needs that what is mounted is what the
list shows (`ListIsShown`) and that requests are of rows that were started
(`SendsAreStarted`). `RunningIsBounded` proves `RunningBounded`, for which the groups
have to be counted: while nothing strayed and rows are pending, the rows that run and
those that are over are the groups of the last count and one more (`GroupsHold`). That
an end keeps this, and the bound with it, is a lemma on a list and its count (`ListEnds`)
rather than on the state, because a stream that ends in an error ends its row twice in
one step. `TypeCorrect` proves the types.

**WorkflowCanvasProofs.** An undo makes any state of the history the canvas, a dialog
confirms what it captured any number of edits ago, and a paste copies what the
clipboard captured. So `CanvasInv` speaks of all of them at once: every state of the
history is `Sound` (a graph whose edges join nodes of one level, containers at the top
with their starts, ids below the next), a node has the same type and parent in every
state it is in (`SameNodes`), and what was captured is right about every state
(`CapturedRight`). That new ids are new in every state, pasted ones included, is a
lemma on how `Paste` numbers what it copies (`Ranks`, `PasteIds`), which the edits that
add (`GrownIsSound`) and those that remove (`PartIsSound`) share. From it follow
`TypeCorrect`, `EdgesJoined`, `LevelsApart`, `StartsKept` and, as an edit is either in
the history or about to be, `NothingUnsaved` (`SettledIsSaved`).

`NoCycles` proves `NoCycleUnlessDropped`, without the exception for containers that were
pasted in one millisecond. `FreeInv` says of every state of the history that it has no
cycle, unless one was dropped, and that its starts are in place. Nothing is taken from
`CheckNestedParallelLimit`, which may refuse an edit and promises nothing. An edge is on
no cycle when some closed set of nodes, one that no edge leaves, has its target and not
its source (`Apart`, `NoCycleIsApart`), as what is reached is the least closed set
(`Reached`). New edges that all lead into a closed set from outside of it therefore close
no cycle (`LinksCloseNoCycle`): a connection that is asked for leads into what its target
leads to, the edges of a new node to it and then from it. A paste copies the edges inside
of an iteration, so that the copies are as far from a cycle as the originals, and no edge
leads back to them because none ends at a start (`PasteIsAcyclic`). Collided containers
share a start, which is inside of one of them, and edges lead from there into all of
them: so a level has a *key*, the start of its container, and what is inductive is that
every edge joins levels of one key (`Keyed`, `PasteInPlace`).

**DraftSyncProofs.** `HashSeen`, `UpdatesKept` and `RestSaved` prove `HashIsSeen`,
`NoLostUpdate` and `RestIsSaved`. None is inductive: between a page and the draft
there are requests. `Sound` says what a request of each status carries (its hash is
of something its graph includes; what it sent its page still has; what it wrote is in
the draft), `SyncsInv` says it of all of them while nothing is excused, and
`SavedInv` how an edit that is not in the draft will get there or visibly go. All of it
is said of the edits that are not in `Gone`: a refresh brings the graph and its hash
together, so that the graph is right in every step but those of the three races, while
the step that leaves other features takes the features out of what is promised.

**TokenRefreshProofs.** `LockHeld` proves `LockIsHeld`, which is inductive with the
types: whoever drops the lock drops it for one tab, and the requests of the others
are as they were. `OneSends` proves `OneCanSend` from `SendInv`: while nothing has
gone wrong, at most one call is between its look at the lock and its answer
(`OneSender`), the lock and the sign say so (`SenderHoldsLock`), and the refresh
token it sends, or the next one will send, is in Redis (`SessionGoesOn`), so that no
refresh is denied.

**Only model-checked.** The liveness properties (`RequestsEnd`, `RunEnds`, `Settles`,
`CallsEnd`), which involve fairness and `ENABLED` and are beyond the prover, and
`PredecessorsOver`, which is of the graph as much as of the engine. What
the recursive function of `ReachedFrom` computes is not proved by an induction over
data, but from its least failing step (`Reached`). Every other invariant, action
property and refinement the passing runs check is proved.

## 6. Not modelled

- In the app run: the text-to-speech wrapper around the pipeline, workflow_app_logs,
  the content of events and responses, database errors.
- In the engine: retries within a node (no event between them decides anything the
  properties tell apart), the variable pool and run conditions (nondeterministic
  choices of `Routes`), stream processors, the process-wide registry of pools and
  nested engines.
- In the rate limit: Redis errors, the keys' one-day TTL (renewed by every sweep),
  the daily limiter in front of it, and time passing within one call to Redis.
- In batches: the content of answers and files, the checks of a file's columns.
- On the canvas: positions, sizes and what is only drawn, notes, the limit on the
  depth of parallels, organizing, import; what `initialNodes` and `initialEdges` repair
  in a draft when it is loaded, which is assumed to be done.
- In the draft: environment and conversation variables (the hash does not cover
  them), the sync of a page that is unmounted (`workflow/index.tsx:156`), which is a
  sync that does not refresh, and that a run starts after a sync that failed.
- In the token refresh: tokens of public apps, which are not refreshed; the steps of
  dropping the lock, which are one here; Redis's expiry of refresh tokens.
- Document indexing, the switches of segments and documents, annotations, the
  embedding cache, load balancing, the metadata lock, the trace queue, one-time
  tokens, iteration and loop nodes, stream processors, the chat pipelines: each has a
  protocol worth a module (section 2 gives the order); none is written yet.
  `PROJECT.json` names, under `hazards`, where the worst of them bite.
- What remains has no protocol: single transactions, pure data, forms, or I/O whose
  outcomes the modelled components take as nondeterministic choices. That is most of
  the source by volume - translations, pages, model and tool adapters, migrations -
  which is why the definitions of these modules cover a small share of its lines.
