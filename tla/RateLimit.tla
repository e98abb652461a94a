------------------------------ MODULE RateLimit ------------------------------
(***************************************************************************)
(* The limit on the concurrent requests of one app                         *)
(* (api/core/app/features/rate_limiting, taken by AppGenerateService).     *)
(* Every API process keeps one RateLimit object for the app; the slots of  *)
(* the active requests are the fields of a Redis hash, each with the time  *)
(* it was taken.  Requests of a process, and processes, interleave at the  *)
(* calls to Redis.                                                         *)
(*                                                                         *)
(* A process that crashes leaves its slots behind, and so does a streaming *)
(* request that ends by a RateLimitError: a sweep deletes the slots older  *)
(* than Alive.  A process sweeps when it makes its object and at an        *)
(* admission more than Interval after its last sweep began.                *)
(*                                                                         *)
(* Left out: Redis errors and the one-day TTL of the two keys, which every *)
(* sweep renews.                                                           *)
(***************************************************************************)
EXTENDS Naturals, FiniteSets

CONSTANTS Request, Process,
          Limits,    \* values apps.max_active_requests may take; 0 is no limit
          Absent,    \* the Redis key of the limit does not exist
          Alive,     \* _REQUEST_MAX_ALIVE_TIME
          Interval,  \* _ACTIVE_REQUESTS_COUNT_FLUSH_INTERVAL
          MaxTime    \* bound on the clock

ASSUME LimitsAssumption == Limits \subseteq Nat /\ Absent \notin Limits \cup {0}
ASSUME TimeAssumption == Alive \in Nat /\ Interval \in Nat /\ MaxTime \in Nat

VARIABLES
  now,
  limit,   \* the app's row, which an administrator may change
  slots,   \* Redis: the keys of active_requests
  stamp,   \* Redis: the time each slot was taken
  stored,  \* Redis: max_active_requests
  made,    \* processes whose object is initialized
  max,     \* RateLimit.max_active_requests of each process
  last,    \* RateLimit.last_recalculate_time of each process
  pc,      \* where each request is
  home,    \* the process that serves it
  read,    \* the limit it read from the app's row, until it is used
  back,    \* where its sweep returns to
  doomed   \* timeout_requests of its sweep

redis    == <<slots, stamp, stored>>
objects  == <<made, max, last>>
requests == <<pc, home, read, back, doomed>>
vars == <<now, limit, redis, objects, requests>>

-----------------------------------------------------------------------------
\* flush_cache: the limit is stored, or loaded where it exists; then the slots
\* are read and the old ones deleted.
Sweeping  == {"exists", "load", "store", "sweep", "drop"}
\* A request is free when there is no limit: it takes no slot.
Serving   == {"arrived", "enter", "count", "add", "active", "free", "exit"} \cup Sweeping
\* A stranded request is over and was never sent to exit.
Locations == {"new", "ended", "stranded", "crashed"} \cup Serving

Goes(r, l) == pc' = [pc EXCEPT ![r] = l]

\* The object's sweep begins, at l: the time is noted before anything is done.
Sweeps(r, l, b) ==
  /\ last' = [last EXCEPT ![home[r]] = now]
  /\ back' = [back EXCEPT ![r] = b]
  /\ Goes(r, l)

Init ==
  /\ now = 0 /\ limit \in Limits
  /\ slots = {} /\ stamp = [r \in Request |-> 0] /\ stored = Absent
  /\ made = {} /\ max = [p \in Process |-> 0] /\ last = [p \in Process |-> 0]
  /\ pc = [r \in Request |-> "new"] /\ home \in [Request -> Process]
  /\ read = [r \in Request |-> 0]
  /\ back = [r \in Request |-> "enter"] /\ doomed = [r \in Request |-> {}]

-----------------------------------------------------------------------------
(* A request is admitted.                                                  *)

\* The request's process reads the app's row.
Arrives(r) ==
  /\ pc[r] = "new" /\ Goes(r, "arrived")
  /\ read' = [read EXCEPT ![r] = limit]
  /\ UNCHANGED <<now, limit, redis, objects, home, back, doomed>>

\* RateLimit(...): the process's one object takes the limit this request read;
\* the first time that is a limit, the object is initialized, with a sweep.
Constructs(r) ==
  LET p == home[r] IN
  /\ pc[r] = "arrived"
  /\ max' = [max EXCEPT ![p] = read[r]]
  /\ \/ /\ read[r] = 0 \/ p \in made
        /\ Goes(r, "enter")
        /\ UNCHANGED <<made, last, back>>
     \/ /\ read[r] > 0 /\ p \notin made
        /\ made' = made \cup {p}
        /\ Sweeps(r, "store", "enter")
  /\ read' = [read EXCEPT ![r] = 0]
  /\ UNCHANGED <<now, limit, redis, home, doomed>>

Enters(r) ==
  LET p == home[r] IN
  /\ pc[r] = "enter"
  /\ \/ /\ max[p] = 0
        /\ Goes(r, "free") /\ UNCHANGED <<last, back>>
     \/ /\ max[p] > 0 /\ now - last[p] > Interval
        /\ Sweeps(r, "exists", "count")
     \/ /\ max[p] > 0 /\ now - last[p] <= Interval
        /\ Goes(r, "count") /\ UNCHANGED <<last, back>>
  /\ UNCHANGED <<now, limit, redis, made, max, home, read, doomed>>

\* Mutant of FindsLimit: the stored limit is loaded whether it exists or not.
FindsLimit_Loads(r) ==
  /\ pc[r] = "exists" /\ Goes(r, "load")
  /\ UNCHANGED <<now, limit, redis, objects, home, read, back, doomed>>

FindsLimit(r) ==
  /\ pc[r] = "exists"
  /\ Goes(r, IF stored = Absent THEN "store" ELSE "load")
  /\ UNCHANGED <<now, limit, redis, objects, home, read, back, doomed>>

\* What is stored may by now be the limit of another request of the process.
StoresLimit(r) ==
  /\ pc[r] = "store" /\ Goes(r, "sweep")
  /\ stored' = max[home[r]]
  /\ UNCHANGED <<now, limit, slots, stamp, objects, home, read, back, doomed>>

LoadsLimit(r) ==
  /\ pc[r] = "load" /\ Goes(r, "sweep")
  /\ max' = [max EXCEPT ![home[r]] = stored]
  /\ UNCHANGED <<now, limit, redis, made, last, home, read, back, doomed>>

Overdue(k) == now - stamp[k] > Alive

\* Mutant of ReadsSlots: a slot is overdue a moment too early.
ReadsSlots_Early(r) ==
  LET overdue == {k \in slots : now - stamp[k] >= Alive} IN
  /\ pc[r] = "sweep"
  /\ doomed' = [doomed EXCEPT ![r] = overdue]
  /\ Goes(r, IF overdue = {} THEN back[r] ELSE "drop")
  /\ UNCHANGED <<now, limit, redis, objects, home, read, back>>

\* Mutant of ReadsSlots: the hash is left to its TTL.
ReadsSlots_Never(r) ==
  /\ pc[r] = "sweep" /\ Goes(r, back[r])
  /\ UNCHANGED <<now, limit, redis, objects, home, read, back, doomed>>

ReadsSlots(r) ==
  LET overdue == {k \in slots : Overdue(k)} IN
  /\ pc[r] = "sweep"
  /\ doomed' = [doomed EXCEPT ![r] = overdue]
  /\ Goes(r, IF overdue = {} THEN back[r] ELSE "drop")
  /\ UNCHANGED <<now, limit, redis, objects, home, read, back>>

DropsSlots(r) ==
  /\ pc[r] = "drop" /\ Goes(r, back[r])
  /\ slots' = slots \ doomed[r]
  /\ doomed' = [doomed EXCEPT ![r] = {}]
  /\ UNCHANGED <<now, limit, stamp, stored, objects, home, read, back>>

\* The slots are counted in Redis, then compared with the object's limit, which
\* other requests of the process set; a rejected request, too, goes to exit.
Counts(r) ==
  /\ pc[r] = "count"
  /\ Goes(r, IF Cardinality(slots) >= max[home[r]] THEN "exit" ELSE "add")
  /\ UNCHANGED <<now, limit, redis, objects, home, read, back, doomed>>

\* The time is read as the slot is set: a call to Redis takes no time.
Adds(r) ==
  /\ pc[r] = "add" /\ Goes(r, "active")
  /\ slots' = slots \cup {r}
  /\ stamp' = [stamp EXCEPT ![r] = now]
  /\ UNCHANGED <<now, limit, stored, objects, home, read, back, doomed>>

-----------------------------------------------------------------------------
(* A request is over.                                                      *)

\* Mutant of Stops: the stream is closed and its slot forgotten.
Stops_KeepsSlot(r) ==
  /\ pc[r] \in {"active", "free"} /\ Goes(r, "ended")
  /\ UNCHANGED <<now, limit, redis, objects, home, read, back, doomed>>

\* It fails in another way or without a stream, its answer is returned, or its
\* stream ends, fails or is closed.
Stops(r) ==
  /\ \/ pc[r] = "active" /\ Goes(r, "exit")
     \/ pc[r] = "free" /\ Goes(r, "ended")
  /\ UNCHANGED <<now, limit, redis, objects, home, read, back, doomed>>

\* The model's provider refuses it before its stream is handed out: RateLimitError
\* is raised again without exit, and finally exits only what does not stream.
IsRefused(r) ==
  /\ pc[r] = "active" /\ Goes(r, "stranded")
  /\ UNCHANGED <<now, limit, redis, objects, home, read, back, doomed>>

Exits(r) ==
  /\ pc[r] = "exit" /\ Goes(r, "ended")
  /\ slots' = slots \ {r}
  /\ UNCHANGED <<now, limit, stamp, stored, objects, home, read, back, doomed>>

-----------------------------------------------------------------------------
(* The environment.                                                        *)

\* Process p is restarted; its requests are lost, their slots stay.
Crashes(p) ==
  /\ \E r \in Request : home[r] = p /\ pc[r] \in Serving
  /\ made' = made \ {p}
  /\ max' = [max EXCEPT ![p] = 0] /\ last' = [last EXCEPT ![p] = 0]
  /\ pc' = [r \in Request |-> IF home[r] = p /\ pc[r] \in Serving
                              THEN "crashed" ELSE pc[r]]
  /\ doomed' = [r \in Request |-> IF home[r] = p THEN {} ELSE doomed[r]]
  /\ UNCHANGED <<now, limit, redis, home, read, back>>

Reconfigures ==
  /\ limit' \in Limits \ {limit}
  /\ UNCHANGED <<now, redis, objects, requests>>

Tick ==
  /\ now < MaxTime /\ now' = now + 1
  /\ UNCHANGED <<limit, redis, objects, requests>>

Step(r) ==
  \/ Arrives(r) \/ Constructs(r) \/ Enters(r)
  \/ FindsLimit(r) \/ StoresLimit(r) \/ LoadsLimit(r) \/ ReadsSlots(r) \/ DropsSlots(r)
  \/ Counts(r) \/ Adds(r) \/ Stops(r) \/ IsRefused(r) \/ Exits(r)

Next ==
  \/ \E r \in Request : Step(r)
  \/ \E p \in Process : Crashes(p)
  \/ Reconfigures
  \/ Tick

Spec == Init /\ [][Next]_vars

-----------------------------------------------------------------------------
(* Properties.                                                             *)

\* Every variable keeps its type; only a sweep has slots to delete, and a limit
\* that is loaded is there to be decoded (rate_limit.py:47-50).
TypeOK ==
  /\ now \in 0 .. MaxTime /\ limit \in Limits
  /\ slots \subseteq Request /\ stamp \in [Request -> 0 .. MaxTime]
  /\ stored \in Limits \cup {Absent, 0}
  /\ made \subseteq Process
  /\ max \in [Process -> Limits \cup {0}] /\ last \in [Process -> 0 .. MaxTime]
  /\ pc \in [Request -> Locations] /\ home \in [Request -> Process]
  /\ read \in [Request -> Limits \cup {0}]
  /\ back \in [Request -> {"enter", "count"}]
  /\ doomed \in [Request -> SUBSET Request]
  /\ \A r \in Request :
       /\ doomed[r] # {} => pc[r] = "drop"
       /\ pc[r] = "load" => stored # Absent

\* A request that is still served keeps the slot it took until it is overdue,
\* whichever processes sweep in the meantime (rate_limit.py:58-64).
LiveHolds ==
  \A r \in Request : pc[r] = "active" /\ ~Overdue(r) => r \in slots

\* A slot belongs to a request that is served, was lost with its process, or is
\* a stream its provider refused.  Every other end gives it back, and no sweep and
\* no other request's exit sets it again (app_generate_service.py:122-129,
\* rate_limit.py:112-126).
EndedHoldsNothing ==
  \A r \in slots : pc[r] \in {"active", "exit", "stranded", "crashed"}

\* When no sweep of a process is under way, the slots that a crash or a refused
\* stream left behind and that its counts still meet were alive when its last
\* sweep began: since it sweeps again after Interval, a lost slot turns no request
\* away in it for longer than Alive and Interval together (rate_limit.py:53-64,
\* 69-70).
CountsOnlyRecent ==
  \A p \in made :
    (\A r \in Request : home[r] = p => pc[r] \notin Sweeping)
      => \A k \in slots : last[p] <= stamp[k] + Alive

-----------------------------------------------------------------------------
(* What the configuration says, and the code does not do.                  *)

\* APP_MAX_ACTIVE_REQUESTS is the "Maximum number of concurrent active requests
\* per app" (configs/feature/__init__.py:61); the instance has one limit.
ActiveWithinLimit ==
  Cardinality({r \in Request : pc[r] = "active"}) <= limit
=============================================================================
