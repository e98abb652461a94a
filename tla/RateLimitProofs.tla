--------------------------- MODULE RateLimitProofs ---------------------------
(* Theorems about RateLimit, for any set of requests, processes and limits.*)
EXTENDS RateLimit, TLAPS

-----------------------------------------------------------------------------
(* The inductive invariant.                                                *)

\* The clock is past everything that was noted, and what a sweep is about to
\* delete are slots that were taken and are overdue: they will not be retaken.
SweepsOnlyOverdue ==
  /\ \A r \in Request : stamp[r] <= now
  /\ \A p \in Process : last[p] <= now
  /\ \A r \in Request : \A k \in doomed[r] :
       Overdue(k) /\ pc[k] \in {"active", "exit", "ended", "stranded", "crashed"}

\* Request r's sweep will leave no slot behind that was overdue when the last
\* sweep of its process began.
Covers(r) ==
  \/ pc[r] \in Sweeping \ {"drop"}
  \/ /\ pc[r] = "drop"
     /\ \A k \in slots : stamp[k] + Alive < last[home[r]] => k \in doomed[r]

Clean(p) == \A k \in slots : last[p] <= stamp[k] + Alive

\* A process is clean, or one of its requests is on the way to make it so: a
\* sweep that began earlier may end later, and does not count.
SweptOrSweeping ==
  \A p \in made : Clean(p) \/ \E r \in Request : home[r] = p /\ Covers(r)

IInv ==
  /\ TypeOK
  /\ SweepsOnlyOverdue
  /\ EndedHoldsNothing
  /\ LiveHolds
  /\ SweptOrSweeping

LEMMA InitIInv == Init => IInv
  BY LimitsAssumption, TimeAssumption
  DEF Init, IInv, TypeOK, SweepsOnlyOverdue, EndedHoldsNothing, LiveHolds,
      SweptOrSweeping, Locations, Serving, Sweeping

-----------------------------------------------------------------------------
LEMMA TypeStep == TypeOK /\ [Next]_vars => TypeOK'
<1> USE LimitsAssumption, TimeAssumption
<1> SUFFICES ASSUME TypeOK, [Next]_vars PROVE TypeOK'
  OBVIOUS
<1> USE DEF TypeOK, redis, objects, requests, Goes
<1>1. ASSUME NEW r \in Request, Arrives(r) PROVE TypeOK'
  BY <1>1 DEF Arrives, Locations, Serving
<1>2. ASSUME NEW r \in Request, Constructs(r) PROVE TypeOK'
  BY <1>2 DEF Constructs, Sweeps, Locations, Serving, Sweeping
<1>3. ASSUME NEW r \in Request, Enters(r) PROVE TypeOK'
  BY <1>3 DEF Enters, Sweeps, Locations, Serving, Sweeping
<1>4. ASSUME NEW r \in Request, FindsLimit(r) PROVE TypeOK'
  BY <1>4 DEF FindsLimit, Locations, Serving, Sweeping
<1>5. ASSUME NEW r \in Request, StoresLimit(r) PROVE TypeOK'
  BY <1>5 DEF StoresLimit, Locations, Serving, Sweeping
<1>6. ASSUME NEW r \in Request, LoadsLimit(r) PROVE TypeOK'
  BY <1>6 DEF LoadsLimit, Locations, Serving, Sweeping
<1>7. ASSUME NEW r \in Request, ReadsSlots(r) PROVE TypeOK'
  BY <1>7 DEF ReadsSlots, Locations, Serving, Sweeping
<1>8. ASSUME NEW r \in Request, DropsSlots(r) PROVE TypeOK'
  BY <1>8 DEF DropsSlots, Locations, Serving
<1>9. ASSUME NEW r \in Request, Counts(r) PROVE TypeOK'
  BY <1>9 DEF Counts, Locations, Serving
<1>10. ASSUME NEW r \in Request, Adds(r) PROVE TypeOK'
  BY <1>10 DEF Adds, Locations, Serving
<1>11. ASSUME NEW r \in Request, Stops(r) \/ IsRefused(r) PROVE TypeOK'
  BY <1>11 DEF Stops, IsRefused, Locations, Serving
<1>12. ASSUME NEW r \in Request, Exits(r) PROVE TypeOK'
  BY <1>12 DEF Exits, Locations
<1>13. ASSUME NEW p \in Process, Crashes(p) PROVE TypeOK'
  BY <1>13 DEF Crashes, Locations, Serving, Sweeping
<1>14. CASE Reconfigures
  BY <1>14 DEF Reconfigures
<1>15. CASE Tick
  BY <1>15 DEF Tick
<1>16. CASE UNCHANGED vars
  BY <1>16 DEF vars
<1> QED
  BY <1>1, <1>2, <1>3, <1>4, <1>5, <1>6, <1>7, <1>8, <1>9, <1>10, <1>11, <1>12,
     <1>13, <1>14, <1>15, <1>16 DEF Next, Step

-----------------------------------------------------------------------------
\* A step changes what the sweeps know, and what requests hold, at a few places.
LEMMA SweepsStep == TypeOK /\ SweepsOnlyOverdue /\ EndedHoldsNothing /\ [Next]_vars
                      => SweepsOnlyOverdue'
<1> USE LimitsAssumption, TimeAssumption
<1> SUFFICES ASSUME TypeOK, SweepsOnlyOverdue, EndedHoldsNothing, [Next]_vars
             PROVE SweepsOnlyOverdue'
  OBVIOUS
<1> USE DEF TypeOK, SweepsOnlyOverdue, Overdue, redis, objects, requests, Goes
<1>1. ASSUME NEW r \in Request,
             Arrives(r) \/ FindsLimit(r) \/ StoresLimit(r) \/ LoadsLimit(r)
               \/ Counts(r) \/ Stops(r) \/ IsRefused(r)
      PROVE SweepsOnlyOverdue'
  BY <1>1 DEF Arrives, FindsLimit, StoresLimit, LoadsLimit, Counts, Stops,
          IsRefused
<1>2. ASSUME NEW r \in Request, Constructs(r) \/ Enters(r) PROVE SweepsOnlyOverdue'
  BY <1>2 DEF Constructs, Enters, Sweeps
<1>3. ASSUME NEW r \in Request, ReadsSlots(r) PROVE SweepsOnlyOverdue'
  BY <1>3 DEF ReadsSlots, EndedHoldsNothing
<1>4. ASSUME NEW r \in Request, DropsSlots(r) \/ Exits(r) PROVE SweepsOnlyOverdue'
  BY <1>4 DEF DropsSlots, Exits
<1>5. ASSUME NEW r \in Request, Adds(r) PROVE SweepsOnlyOverdue'
  BY <1>5 DEF Adds
<1>6. ASSUME NEW p \in Process, Crashes(p) PROVE SweepsOnlyOverdue'
  BY <1>6 DEF Crashes, Serving
<1>7. CASE Reconfigures
  BY <1>7 DEF Reconfigures
<1>8. CASE Tick
  BY <1>8 DEF Tick
<1>9. CASE UNCHANGED vars
  BY <1>9 DEF vars
<1> QED
  BY <1>1, <1>2, <1>3, <1>4, <1>5, <1>6, <1>7, <1>8, <1>9 DEF Next, Step

-----------------------------------------------------------------------------
LEMMA SlotsStep == TypeOK /\ SweepsOnlyOverdue /\ EndedHoldsNothing /\ LiveHolds
                     /\ [Next]_vars
                     => EndedHoldsNothing' /\ LiveHolds'
<1> USE LimitsAssumption, TimeAssumption
<1> DEFINE Held == EndedHoldsNothing /\ LiveHolds
<1> SUFFICES ASSUME TypeOK, SweepsOnlyOverdue, Held, [Next]_vars PROVE Held'
  OBVIOUS
<1> USE DEF TypeOK, EndedHoldsNothing, LiveHolds, Overdue, redis, objects, requests, Goes
<1>1. ASSUME NEW r \in Request, Arrives(r) \/ Constructs(r) \/ Enters(r) PROVE Held'
  BY <1>1 DEF Arrives, Constructs, Enters, Sweeps
<1>2. ASSUME NEW r \in Request, FindsLimit(r) \/ StoresLimit(r) \/ LoadsLimit(r)
      PROVE Held'
  BY <1>2 DEF FindsLimit, StoresLimit, LoadsLimit
<1>3. ASSUME NEW r \in Request, ReadsSlots(r) PROVE Held'
  BY <1>3 DEF ReadsSlots
<1>4. ASSUME NEW r \in Request, DropsSlots(r) PROVE Held'
  BY <1>4 DEF DropsSlots, SweepsOnlyOverdue
<1>5. ASSUME NEW r \in Request, Counts(r) \/ Adds(r) PROVE Held'
  BY <1>5 DEF Counts, Adds
<1>6. ASSUME NEW r \in Request, Stops(r) \/ IsRefused(r) \/ Exits(r) PROVE Held'
  BY <1>6 DEF Stops, IsRefused, Exits
<1>7. ASSUME NEW p \in Process, Crashes(p) PROVE Held'
  BY <1>7 DEF Crashes
<1>8. CASE Reconfigures
  BY <1>8 DEF Reconfigures
<1>9. CASE Tick
  BY <1>9 DEF Tick
<1>10. CASE UNCHANGED vars
  BY <1>10 DEF vars
<1> QED
  BY <1>1, <1>2, <1>3, <1>4, <1>5, <1>6, <1>7, <1>8, <1>9, <1>10 DEF Next, Step

-----------------------------------------------------------------------------
LEMMA SweptStep == TypeOK /\ SweepsOnlyOverdue /\ SweptOrSweeping /\ [Next]_vars
                     => SweptOrSweeping'
<1> USE LimitsAssumption, TimeAssumption
<1> DEFINE Good(p) == Clean(p) \/ \E r \in Request : home[r] = p /\ Covers(r)
<1> SUFFICES ASSUME TypeOK, SweepsOnlyOverdue, SweptOrSweeping, [Next]_vars
             PROVE \A p \in made' : Good(p)'
  BY DEF SweptOrSweeping
<1>0. \A p \in made : Good(p)
  BY DEF SweptOrSweeping
<1> USE DEF TypeOK, Clean, Covers, Sweeping, redis, objects, requests, Goes
<1>1. ASSUME NEW r \in Request,
             Arrives(r) \/ FindsLimit(r) \/ StoresLimit(r) \/ LoadsLimit(r)
               \/ Counts(r) \/ Stops(r) \/ IsRefused(r)
      PROVE \A p \in made' : Good(p)'
  BY <1>0, <1>1 DEF Arrives, FindsLimit, StoresLimit, LoadsLimit, Counts, Stops,
          IsRefused
<1>2. ASSUME NEW r \in Request, Constructs(r) \/ Enters(r)
      PROVE \A p \in made' : Good(p)'
  BY <1>0, <1>2 DEF Constructs, Enters, Sweeps
<1>3. ASSUME NEW r \in Request, ReadsSlots(r) PROVE \A p \in made' : Good(p)'
  <2> SUFFICES ASSUME NEW p \in made PROVE Good(p)'
    BY <1>3 DEF ReadsSlots
  <2>1. CASE p # home[r]
    BY <1>0, <1>3, <2>1 DEF ReadsSlots
  <2>2. CASE p = home[r]
    BY <1>3, <2>2 DEF ReadsSlots, Overdue, SweepsOnlyOverdue
  <2> QED
    BY <2>1, <2>2
<1>4. ASSUME NEW r \in Request, DropsSlots(r) PROVE \A p \in made' : Good(p)'
  <2> SUFFICES ASSUME NEW p \in made PROVE Good(p)'
    BY <1>4 DEF DropsSlots
  <2>1. CASE p = home[r] /\ Covers(r)
    BY <1>4, <2>1 DEF DropsSlots
  <2>2. CASE \E q \in Request \ {r} : home[q] = p /\ Covers(q)
    BY <1>4, <2>2 DEF DropsSlots
  <2>3. CASE Clean(p)
    BY <1>4, <2>3 DEF DropsSlots
  <2> QED
    BY <1>0, <2>1, <2>2, <2>3
<1>5. ASSUME NEW r \in Request, Adds(r) PROVE \A p \in made' : Good(p)'
  <2> SUFFICES ASSUME NEW p \in made PROVE Good(p)'
    BY <1>5 DEF Adds
  <2>1. last[p] <= now /\ \A q \in Request : last[home[q]] <= now
    BY DEF SweepsOnlyOverdue
  <2>2. CASE Clean(p)
    BY <1>5, <2>1, <2>2 DEF Adds
  <2>3. ASSUME NEW q \in Request, home[q] = p, Covers(q) PROVE Good(p)'
    BY <1>5, <2>1, <2>3 DEF Adds
  <2> QED
    BY <1>0, <2>2, <2>3
<1>6. ASSUME NEW r \in Request, Exits(r) PROVE \A p \in made' : Good(p)'
  BY <1>0, <1>6 DEF Exits
<1>7. ASSUME NEW p \in Process, Crashes(p) PROVE \A c \in made' : Good(c)'
  BY <1>0, <1>7 DEF Crashes
<1>8. CASE Reconfigures
  BY <1>0, <1>8 DEF Reconfigures
<1>9. CASE Tick
  BY <1>0, <1>9 DEF Tick
<1>10. CASE UNCHANGED vars
  BY <1>0, <1>10 DEF vars
<1> QED
  BY <1>1, <1>2, <1>3, <1>4, <1>5, <1>6, <1>7, <1>8, <1>9, <1>10 DEF Next, Step

-----------------------------------------------------------------------------
\* The invariant holds in every state.
LEMMA Invariance == Spec => []IInv
<1>1. IInv /\ [Next]_vars => IInv'
  BY TypeStep, SweepsStep, SlotsStep, SweptStep DEF IInv
<1> QED
  BY InitIInv, <1>1, PTL DEF Spec

\* Every variable of the limiter keeps its type.
THEOREM TypeCorrect == Spec => []TypeOK
<1>1. IInv => TypeOK
  BY DEF IInv
<1> QED
  BY Invariance, <1>1, PTL

\* No sweep, of any process and however late it deletes what it read, takes the
\* slot of a request that is served and not overdue (rate_limit.py:54-64).
THEOREM LiveKeepsSlot == Spec => []LiveHolds
<1>1. IInv => LiveHolds
  BY DEF IInv
<1> QED
  BY Invariance, <1>1, PTL

\* A request that ended has given its slot back, and no interleaving sets it
\* again, unless its process crashed or a RateLimitError ended its stream, the
\* one way out that passes no exit (app_generate_service.py:122-129).
THEOREM SlotGivenBack == Spec => []EndedHoldsNothing
<1>1. IInv => EndedHoldsNothing
  BY DEF IInv
<1> QED
  BY Invariance, <1>1, PTL

\* A slot that nobody gave back is counted by a process that does not sweep only if
\* it was alive when the last sweep of the process began (rate_limit.py:53-64).
THEOREM LostSlotsAreSwept == Spec => []CountsOnlyRecent
<1>1. IInv => CountsOnlyRecent
  BY DEF IInv, SweptOrSweeping, Clean, Covers, CountsOnlyRecent, Sweeping
<1> QED
  BY Invariance, <1>1, PTL
=============================================================================
