-------------------------- MODULE TokenRefreshProofs --------------------------
(* What is proved of TokenRefresh for any tabs and calls: its types, that  *)
(* the lock is never left behind, and that one call at a time sends the    *)
(* refresh token while none of the six causes has occurred.                *)
EXTENDS TokenRefresh, TLAPS

(* While nothing has gone wrong: one call at most is between the look at   *)
(* the lock and the answer, what it holds in the browser says so, and the  *)
(* token that it sends, or that the next one will send, is in Redis.       *)
Sending(c) == pc[c] = "take" \/ InFlight(c)
OneSender == \A c, d \in Calls : Sending(c) /\ Sending(d) => c = d
SenderHoldsLock ==
  \A c \in Calls : InFlight(c) => isRefreshing[TabOf[c]] /\ sign
SessionGoesOn ==
  /\ \A t \in Tabs : page[t] # "signin"
  /\ \A c \in Calls : pc[c] # "denied"
  /\ \A c \in Calls : pc[c] \in {"post", "verified", "issued"} => tok[c] \in valid
  /\ refresh \in valid \/ \E c \in Calls : pc[c] = "issued"
SendInv == causes = {} => OneSender /\ SenderHoldsLock /\ SessionGoesOn
IInv == TypeOK /\ LockIsHeld /\ SendInv

-----------------------------------------------------------------------------
(* The part of the types that a page left behind and a released lock touch. *)
CallsTyped ==
  /\ page \in [Tabs -> {"app", "signin", "gone"}]
  /\ pc \in [Calls -> Pcs] /\ timer \in [Calls -> BOOLEAN]
  /\ result \in [Calls -> {"none", "answered", "failed", "left", "unanswered"}]
  /\ \A c \in Calls : page[TabOf[c]] # "app" =>
                        pc[c] \in {"idle", "over"} /\ ~ timer[c]

LEMMA UnloadTyped ==
  ASSUME TypeOK, NEW t \in Tabs, NEW next \in {"signin", "gone"},
         Unload(t, next)
  PROVE  CallsTyped'
BY CallsAssumption DEF TypeOK, Unload, CallsTyped, Pcs

LEMMA ReleaseTyped ==
  ASSUME TypeOK, NEW t \in Tabs, Release(t)
  PROVE  /\ isRefreshing' \in [Tabs -> BOOLEAN]
         /\ sign' \in BOOLEAN /\ fresh' \in BOOLEAN
BY DEF TypeOK, Release

LEMMA RejectedTyped ==
  ASSUME TypeOK, NEW c \in Calls, Rejected(c, "over")
  PROVE  CallsTyped'
<1>1. CASE result[c] = "none" /\ c \notin Sse
  BY <1>1, UnloadTyped, CallsAssumption DEF Rejected
<1>2. CASE ~ (result[c] = "none" /\ c \notin Sse)
  BY <1>2 DEF Rejected, CallsTyped, TypeOK, Pcs
<1> QED
  BY <1>1, <1>2

LEMMA ResolvedTyped ==
  ASSUME TypeOK, NEW c \in Calls, Resolved(c), pc[c] \notin {"idle", "over"},
         UNCHANGED <<page, timer>>
  PROVE  CallsTyped'
BY DEF Resolved, CallsTyped, TypeOK, Pcs, Racing, InFlightPcs

(* Every step keeps the types of the state. *)
LEMMA TypeStep == TypeOK /\ [Next]_vars => TypeOK'
<1> SUFFICES ASSUME TypeOK, [Next]_vars PROVE TypeOK'
  OBVIOUS
<1> USE CallsAssumption, BoundsAssumption
<1>1. ASSUME NEW c \in Calls, Start(c) PROVE TypeOK'
  BY <1>1 DEF TypeOK, Start, storage, server, Pcs, Racing, InFlightPcs
<1>2. ASSUME NEW c \in Calls, Fetched(c) PROVE TypeOK'
  BY <1>2 DEF TypeOK, Fetched, storage, server, Pcs, Racing, InFlightPcs
<1>3. ASSUME NEW c \in Calls, Checks(c) PROVE TypeOK'
  BY <1>3 DEF TypeOK, Checks, storage, server, Pcs, Racing, InFlightPcs, Causes
<1>4. ASSUME NEW c \in Calls, Takes(c) PROVE TypeOK'
  BY <1>4 DEF TypeOK, Takes, storage, server, Pcs, Racing, InFlightPcs
<1>5. ASSUME NEW c \in Calls, Polls(c) PROVE TypeOK'
  BY <1>5, ResolvedTyped DEF TypeOK, Polls, storage, server, CallsTyped
<1>6. ASSUME NEW c \in Calls, Verifies(c) PROVE TypeOK'
  BY <1>6 DEF TypeOK, Verifies, storage, server, Pcs, Racing, InFlightPcs
<1>7. ASSUME NEW c \in Calls, Rotates(c) PROVE TypeOK'
  <2>1. issued' \in Tokens
    BY <1>7 DEF Rotates, TypeOK, Tokens
  <2> QED
    BY <1>7, <2>1 DEF TypeOK, Rotates, storage, Pcs, Racing, InFlightPcs
<1>8. ASSUME NEW c \in Calls, Stores(c) PROVE TypeOK'
  BY <1>8, ResolvedTyped, ReleaseTyped DEF TypeOK, Stores, server, CallsTyped
<1>9. ASSUME NEW c \in Calls, Fails(c) PROVE TypeOK'
  BY <1>9, RejectedTyped, ReleaseTyped DEF TypeOK, Fails, server, CallsTyped, Causes
<1>10. ASSUME NEW c \in Calls, TimerFires(c) PROVE TypeOK'
  <2>1. CallsTyped'
    <3>1. CASE Unload(TabOf[c], "signin")
      BY <3>1, UnloadTyped
    <3>2. CASE /\ timer' = [timer EXCEPT ![c] = FALSE]
               /\ UNCHANGED <<page, pc>>
               /\ \/ result' = [result EXCEPT ![c] = "unanswered"]
                  \/ result' = [result EXCEPT ![c] = @]
      BY <3>2 DEF CallsTyped, TypeOK
    <3> QED
      BY <1>10, <3>1, <3>2 DEF TimerFires
  <2> QED
    BY <1>10, <2>1, ReleaseTyped DEF TypeOK, TimerFires, server, CallsTyped, Causes
<1>11. ASSUME NEW c \in Calls, Resends(c) PROVE TypeOK'
  BY <1>11 DEF TypeOK, Resends, storage, server, Pcs, Racing, InFlightPcs
<1>12. ASSUME NEW t \in Tabs, Close(t) PROVE TypeOK'
  BY <1>12, UnloadTyped, ReleaseTyped
  DEF TypeOK, Close, LeftCause, server, CallsTyped, Causes
<1>13. ASSUME NEW t \in Tabs, Crash(t) PROVE TypeOK'
  BY <1>13, UnloadTyped DEF TypeOK, Crash, storage, server, CallsTyped, Causes
<1>14. ASSUME NEW t \in Tabs, SignIn(t) PROVE TypeOK'
  <2>1. issued' \in Tokens
    BY <1>14 DEF SignIn, TypeOK, Tokens
  <2> QED
    BY <1>14, <2>1 DEF TypeOK, SignIn
<1>15. ASSUME Expire PROVE TypeOK'
  BY <1>15 DEF TypeOK, Expire, storage, Tokens
<1>16. ASSUME GetsOld PROVE TypeOK'
  BY <1>16 DEF TypeOK, GetsOld, server
<1>17. ASSUME UNCHANGED vars PROVE TypeOK'
  BY <1>17 DEF TypeOK, vars, storage, server
<1> QED
  BY <1>1, <1>2, <1>3, <1>4, <1>5, <1>6, <1>7, <1>8, <1>9, <1>10, <1>11, <1>12,
     <1>13, <1>14, <1>15, <1>16, <1>17 DEF Next

-----------------------------------------------------------------------------
(* A tab that drops the lock drops the sign only if the lock was its own,  *)
(* and the calls of the other tabs are as they were.                       *)
LEMMA ReleaseKeepsHeld ==
  ASSUME TypeOK, LockIsHeld, NEW t \in Tabs, Release(t),
         causes \subseteq causes',
         \A c \in Calls : TabOf[c] # t => pc'[c] = pc[c]
  PROVE  LockIsHeld'
<1>1. /\ isRefreshing' \in [Tabs -> BOOLEAN] /\ ~ isRefreshing'[t]
      /\ \A u \in Tabs : u # t => isRefreshing'[u] = isRefreshing[u]
      /\ sign' => sign /\ ~ isRefreshing[t]
  BY DEF Release, TypeOK
<1>2. ASSUME NEW u \in Tabs, isRefreshing'[u]
      PROVE \E c \in Calls : TabOf[c] = u /\ InFlight(c)'
  <2>1. u # t /\ isRefreshing[u]
    BY <1>1, <1>2
  <2>2. PICK c \in Calls : TabOf[c] = u /\ InFlight(c)
    BY <2>1 DEF LockIsHeld
  <2> QED
    BY <2>1, <2>2 DEF InFlight
<1>3. sign' => "crashed" \in causes' \/ \E u \in Tabs : isRefreshing'[u]
  BY <1>1 DEF LockIsHeld
<1> QED
  BY <1>2, <1>3 DEF LockIsHeld

LEMMA UnloadIsLocal ==
  ASSUME TypeOK, NEW t \in Tabs, NEW next, Unload(t, next)
  PROVE  \A c \in Calls : TabOf[c] # t => pc'[c] = pc[c]
BY DEF Unload

LEMMA RejectedIsLocal ==
  ASSUME TypeOK, NEW c \in Calls, Rejected(c, "over")
  PROVE  /\ \A d \in Calls : TabOf[d] # TabOf[c] => pc'[d] = pc[d]
         /\ pc'[c] = "over" \/ pc[c] \in {"idle", "over"}
BY CallsAssumption DEF Rejected, Unload, TypeOK

LEMMA ResolvedIsLocal ==
  ASSUME TypeOK, NEW c \in Calls, Resolved(c)
  PROVE  /\ \A d \in Calls : d # c => pc'[d] = pc[d]
         /\ pc'[c] \in {"over", "resend"}
BY DEF Resolved, TypeOK

(* A step that leaves the lock alone and no call in flight.                *)
LEMMA HeldIsKept ==
  ASSUME LockIsHeld, UNCHANGED <<isRefreshing, sign>>, causes \subseteq causes',
         \A c \in Calls : InFlight(c) => InFlight(c)'
  PROVE  LockIsHeld'
BY DEF LockIsHeld

(* Every step keeps the lock somebody's. *)
LEMMA HeldStep == TypeOK /\ LockIsHeld /\ [Next]_vars => LockIsHeld'
<1> SUFFICES ASSUME TypeOK, LockIsHeld, [Next]_vars PROVE LockIsHeld'
  OBVIOUS
<1> USE CallsAssumption
<1>1. ASSUME NEW c \in Calls, Start(c) \/ Fetched(c) \/ Checks(c) \/ Resends(c)
      PROVE LockIsHeld'
  <2>1. \A d \in Calls : InFlight(d) => InFlight(d)'
    BY <1>1 DEF Start, Fetched, Checks, Resends, InFlight, InFlightPcs, TypeOK
  <2> QED
    BY <1>1, <2>1, HeldIsKept DEF Start, Fetched, Checks, Resends, storage
<1>2. ASSUME NEW c \in Calls, Takes(c) PROVE LockIsHeld'
  <2>1. /\ isRefreshing'[TabOf[c]] /\ InFlight(c)'
        /\ \A u \in Tabs : u # TabOf[c] => isRefreshing'[u] = isRefreshing[u]
        /\ \A d \in Calls : InFlight(d) => InFlight(d)'
    BY <1>2 DEF Takes, InFlight, InFlightPcs, TypeOK
  <2> QED
    BY <2>1 DEF LockIsHeld
<1>3. ASSUME NEW c \in Calls, Polls(c) PROVE LockIsHeld'
  <2>1. \A d \in Calls : InFlight(d) => InFlight(d)'
    BY <1>3, ResolvedIsLocal DEF Polls, InFlight, InFlightPcs
  <2> QED
    BY <1>3, <2>1, HeldIsKept DEF Polls, storage
<1>4. ASSUME NEW c \in Calls, Verifies(c) \/ Rotates(c) PROVE LockIsHeld'
  <2>1. \A d \in Calls : InFlight(d) => InFlight(d)'
    BY <1>4 DEF Verifies, Rotates, InFlight, InFlightPcs, TypeOK
  <2> QED
    BY <1>4, <2>1, HeldIsKept DEF Verifies, Rotates, storage
<1>5. ASSUME NEW c \in Calls, Stores(c) PROVE LockIsHeld'
  BY <1>5, ReleaseKeepsHeld, ResolvedIsLocal DEF Stores
<1>6. ASSUME NEW c \in Calls, Fails(c) PROVE LockIsHeld'
  BY <1>6, ReleaseKeepsHeld, RejectedIsLocal DEF Fails
<1>7. ASSUME NEW c \in Calls, TimerFires(c) PROVE LockIsHeld'
  BY <1>7, ReleaseKeepsHeld, UnloadIsLocal DEF TimerFires
<1>8. ASSUME NEW t \in Tabs, Close(t) PROVE LockIsHeld'
  BY <1>8, ReleaseKeepsHeld, UnloadIsLocal DEF Close
<1>9. ASSUME NEW t \in Tabs, Crash(t) PROVE LockIsHeld'
  <2>1. "crashed" \in causes'
    BY <1>9 DEF Crash
  <2>2. ASSUME NEW u \in Tabs, isRefreshing'[u]
        PROVE \E c \in Calls : TabOf[c] = u /\ InFlight(c)'
    <3>1. u # t /\ isRefreshing[u]
      BY <1>9, <2>2 DEF Crash, TypeOK
    <3>2. PICK c \in Calls : TabOf[c] = u /\ InFlight(c)
      BY <3>1 DEF LockIsHeld
    <3> QED
      BY <1>9, <3>1, <3>2, UnloadIsLocal DEF Crash, InFlight
  <2> QED
    BY <2>1, <2>2 DEF LockIsHeld
<1>10. ASSUME (\E t \in Tabs : SignIn(t)) \/ Expire \/ GetsOld \/ UNCHANGED vars
       PROVE LockIsHeld'
  BY <1>10, HeldIsKept DEF SignIn, Expire, GetsOld, vars, storage, InFlight
<1> QED
  BY <1>1, <1>2, <1>3, <1>4, <1>5, <1>6, <1>7, <1>8, <1>9, <1>10 DEF Next

-----------------------------------------------------------------------------
(* A step that gives nobody a request to send, and none a token, and in    *)
(* which the lock of those who have one stays.                             *)
LEMMA SendersStay ==
  ASSUME SendInv, causes = {}, UNCHANGED <<refresh, valid>>,
         \A c \in Calls : Sending(c)' => pc'[c] = pc[c] /\ tok'[c] = tok[c],
         \A c \in Calls : pc[c] = "issued" => pc'[c] = "issued",
         \A c \in Calls : pc'[c] # "denied" \/ pc[c] = "denied",
         \A c \in Calls : InFlight(c)' => isRefreshing'[TabOf[c]] /\ sign',
         \A t \in Tabs : page'[t] # "signin"
  PROVE  SendInv'
<1>1. OneSender' /\ SenderHoldsLock'
  BY DEF SendInv, OneSender, SenderHoldsLock, Sending, InFlight
<1>2. SessionGoesOn'
  BY DEF SendInv, SessionGoesOn, Sending, InFlight, InFlightPcs
<1> QED
  BY <1>1, <1>2 DEF SendInv

(* The request of a call that has one is the only one, and a tab without   *)
(* a request of its own does not have the lock.                            *)
LEMMA NobodyElse ==
  ASSUME TypeOK, LockIsHeld, SendInv, causes = {}, NEW c \in Calls, Sending(c)
  PROVE  /\ \A d \in Calls : d # c => ~ Sending(d)
         /\ \A t \in Tabs : t # TabOf[c] => ~ isRefreshing[t]
BY DEF SendInv, OneSender, Sending, LockIsHeld

(* Every step, from a state with the types and the lock of somebody. *)
LEMMA SendStep == IInv /\ [Next]_vars => SendInv'
<1> SUFFICES ASSUME IInv, [Next]_vars, causes' = {} PROVE SendInv'
  BY DEF SendInv
<1> USE CallsAssumption
<1>0. /\ TypeOK /\ LockIsHeld /\ SendInv
      /\ causes \subseteq causes'
  <2>1. causes \subseteq causes'
    BY DEF Next, Start, Fetched, Checks, Takes, Polls, Verifies, Rotates, Stores,
           Fails, TimerFires, Resends, Close, Crash, SignIn, Expire, GetsOld, vars
  <2> QED
    BY <2>1 DEF IInv
<1>00. causes = {} /\ OneSender /\ SenderHoldsLock /\ SessionGoesOn
  BY <1>0 DEF SendInv
<1>1. ASSUME NEW c \in Calls, Start(c) \/ Fetched(c) \/ Resends(c)
      PROVE SendInv'
  <2>1. /\ UNCHANGED <<isRefreshing, sign, refresh, valid, page>>
        /\ pc[c] \in {"idle", "fetch", "resend"}
        /\ pc'[c] \in {"fetch", "over", "refused"}
        /\ \A d \in Calls : d # c => pc'[d] = pc[d] /\ tok'[d] = tok[d]
    BY <1>0, <1>1 DEF Start, Fetched, Resends, storage, server, TypeOK
  <2> QED
    BY <1>0, <1>00, <2>1, SendersStay
    DEF SenderHoldsLock, SessionGoesOn, Sending, InFlight, InFlightPcs
<1>2. ASSUME NEW c \in Calls, Checks(c) PROVE SendInv'
  <2>1. /\ UNCHANGED <<isRefreshing, sign, refresh, valid, page, tok>>
        /\ pc[c] = "refused" /\ pc'[c] = IF Locked(c) THEN "wait" ELSE "take"
        /\ \A d \in Calls : d # c => pc'[d] = pc[d]
    BY <1>0, <1>2 DEF Checks, storage, server, TypeOK
  <2>2. CASE Locked(c)
    BY <1>0, <1>00, <2>1, <2>2, SendersStay
    DEF SenderHoldsLock, SessionGoesOn, Sending, InFlight, InFlightPcs
  <2>3. CASE ~ Locked(c)
    <3>1. ~ sign /\ \A d \in Calls : pc[d] # "take"
      BY <1>2, <2>3 DEF Checks
    <3>2. \A d \in Calls : ~ Sending(d)
      BY <1>00, <3>1 DEF Sending, SenderHoldsLock
    <3>3. \A d \in Calls : /\ ~ InFlight(d)'
                           /\ d # c => ~ Sending(d)'
                           /\ pc'[d] \notin InFlightPcs
      BY <2>1, <2>3, <3>2 DEF Sending, InFlight, InFlightPcs
    <3>4. refresh \in valid
      BY <1>00, <3>2 DEF SessionGoesOn, Sending, InFlight, InFlightPcs
    <3> QED
      BY <1>00, <2>1, <3>3, <3>4
      DEF SendInv, OneSender, SenderHoldsLock, SessionGoesOn, InFlightPcs
  <2> QED
    BY <2>2, <2>3
<1>3. ASSUME NEW c \in Calls, Takes(c) PROVE SendInv'
  <2>1. /\ isRefreshing'[TabOf[c]] /\ sign' /\ pc'[c] = "post"
        /\ tok'[c] = refresh /\ UNCHANGED <<refresh, page, valid>>
        /\ \A d \in Calls : d # c => pc'[d] = pc[d]
    BY <1>0, <1>3 DEF Takes, server, TypeOK
  <2>2. \A d \in Calls : d # c => ~ Sending(d)
    BY <1>0, <1>00, <1>3, NobodyElse DEF Takes, Sending
  <2>3. refresh \in valid
    BY <1>00, <1>3, <2>2 DEF SessionGoesOn, Sending, InFlight, InFlightPcs, Takes
  <2> QED
    BY <1>00, <2>1, <2>2, <2>3
    DEF SendInv, OneSender, SenderHoldsLock, SessionGoesOn, Sending, InFlight,
        InFlightPcs
<1>4. ASSUME NEW c \in Calls, Polls(c) PROVE SendInv'
  <2>1. /\ \A d \in Calls : d # c => pc'[d] = pc[d]
        /\ pc'[c] \in {"over", "resend"} /\ pc[c] = "wait"
        /\ UNCHANGED <<isRefreshing, sign, refresh, valid, page, tok>>
    BY <1>0, <1>4, ResolvedIsLocal DEF Polls, storage, server
  <2> QED
    BY <1>0, <1>00, <2>1, SendersStay
    DEF SenderHoldsLock, SessionGoesOn, Sending, InFlight, InFlightPcs
<1>5. ASSUME NEW c \in Calls, Verifies(c) PROVE SendInv'
  <2>1. /\ pc[c] = "post" /\ pc'[c] = "verified"
        /\ \A d \in Calls : d # c => pc'[d] = pc[d]
        /\ UNCHANGED <<isRefreshing, sign, refresh, valid, page, tok>>
    BY <1>0, <1>00, <1>5 DEF Verifies, storage, server, TypeOK, SessionGoesOn
  <2> QED
    BY <1>00, <2>1
    DEF SendInv, OneSender, SenderHoldsLock, SessionGoesOn, Sending, InFlight,
        InFlightPcs
<1>6. ASSUME NEW c \in Calls, Rotates(c) PROVE SendInv'
  <2>1. /\ pc[c] = "verified" /\ pc'[c] = "issued" /\ tok'[c] \in valid'
        /\ \A d \in Calls : d # c => pc'[d] = pc[d]
        /\ UNCHANGED <<isRefreshing, sign, page>>
    BY <1>0, <1>6 DEF Rotates, storage, TypeOK
  <2>2. \A d \in Calls : d # c => ~ Sending(d)
    BY <1>0, <1>00, <2>1, NobodyElse DEF Sending, InFlight, InFlightPcs
  <2> QED
    BY <1>00, <2>1, <2>2
    DEF SendInv, OneSender, SenderHoldsLock, SessionGoesOn, Sending, InFlight,
        InFlightPcs
<1>7. ASSUME NEW c \in Calls, Stores(c) PROVE SendInv'
  <2>1. /\ pc[c] = "issued" /\ pc'[c] \in {"over", "resend"}
        /\ \A d \in Calls : d # c => pc'[d] = pc[d]
        /\ refresh' = tok[c] /\ tok[c] \in valid /\ UNCHANGED <<valid, page>>
    BY <1>0, <1>00, <1>7, ResolvedIsLocal DEF Stores, server, SessionGoesOn
  <2>2. \A d \in Calls : d # c => ~ Sending(d)
    BY <1>0, <1>00, <2>1, NobodyElse DEF Sending, InFlight, InFlightPcs
  <2>3. \A d \in Calls : ~ Sending(d)' /\ pc'[d] \notin InFlightPcs
    BY <2>1, <2>2 DEF Sending, InFlight, InFlightPcs
  <2> QED
    BY <1>00, <2>1, <2>3
    DEF SendInv, OneSender, SenderHoldsLock, SessionGoesOn, Sending, InFlight,
        InFlightPcs
<1>8. ASSUME NEW c \in Calls, Fails(c) PROVE FALSE
  BY <1>00, <1>8 DEF Fails, SessionGoesOn
<1>9. ASSUME NEW c \in Calls, TimerFires(c) PROVE SendInv'
  <2>1. /\ ~ isRefreshing[TabOf[c]]
        /\ ~ (pc[c] \in Racing /\ result[c] = "none")
    BY <1>9 DEF TimerFires
  <2>2. UNCHANGED <<isRefreshing, sign, refresh, valid, page, tok, pc>>
    BY <1>0, <1>9, <2>1 DEF TimerFires, Release, TypeOK, server
  <2> QED
    BY <1>0, <1>00, <2>2, SendersStay
    DEF SenderHoldsLock, SessionGoesOn, Sending, InFlight
<1>10. ASSUME NEW t \in Tabs, Close(t) PROVE SendInv'
  <2>1. \A c \in Calls : TabOf[c] = t => pc[c] \notin InFlightPcs
    BY <1>00, <1>10 DEF Close, LeftCause, SessionGoesOn
  <2>2. ~ isRefreshing[t]
    BY <1>0, <2>1 DEF LockIsHeld, InFlight
  <2>3. /\ UNCHANGED <<isRefreshing, sign, refresh, valid, tok>>
        /\ \A u \in Tabs : page'[u] # "signin"
        /\ \A c \in Calls : pc'[c] = pc[c] \/ (pc'[c] = "over" /\ TabOf[c] = t)
    <3>1. UNCHANGED <<isRefreshing, sign, refresh, valid, tok>>
      BY <1>0, <1>10, <2>2 DEF Close, Release, TypeOK, server
    <3>2. \A u \in Tabs : page'[u] # "signin"
      BY <1>0, <1>00, <1>10 DEF Close, Unload, TypeOK, SessionGoesOn
    <3>3. \A c \in Calls : pc'[c] = pc[c] \/ (pc'[c] = "over" /\ TabOf[c] = t)
      BY <1>10 DEF Close, Unload
    <3> QED
      BY <3>1, <3>2, <3>3
  <2> QED
    BY <1>0, <1>00, <2>1, <2>3, SendersStay
    DEF SenderHoldsLock, SessionGoesOn, Sending, InFlight, InFlightPcs
<1>11. ASSUME NEW t \in Tabs, Crash(t) \/ SignIn(t) PROVE FALSE
  BY <1>00, <1>11 DEF Crash, SignIn, SessionGoesOn
<1>12. ASSUME Expire \/ GetsOld \/ UNCHANGED vars PROVE SendInv'
  <2>1. UNCHANGED <<isRefreshing, sign, refresh, valid, page, tok, pc>>
    BY <1>12 DEF Expire, GetsOld, vars, storage, server
  <2> QED
    BY <1>0, <1>00, <2>1, SendersStay
    DEF SenderHoldsLock, SessionGoesOn, Sending, InFlight
<1> QED
  BY <1>1, <1>2, <1>3, <1>4, <1>5, <1>6, <1>7, <1>8, <1>9, <1>10, <1>11, <1>12
  DEF Next

LEMMA Inductive == (Init => IInv) /\ (IInv /\ [Next]_vars => IInv')
<1>1. ASSUME Init PROVE TypeOK
  <2>1. 1 \in Tokens
    BY BoundsAssumption DEF Tokens
  <2>2. \A c \in Calls : page[TabOf[c]] = "app"
    BY <1>1, CallsAssumption DEF Init
  <2>3. 0 \in 0..MaxTokens /\ 0 \in 0..MaxExpiries
    BY BoundsAssumption
  <2>4. valid \subseteq Tokens /\ tok \in [Calls -> Tokens]
    BY <1>1, <2>1 DEF Init
  <2> QED
    BY <1>1, <2>1, <2>2, <2>3, <2>4 DEF Init, TypeOK, Pcs, Causes
<1>2. Init => IInv
  BY <1>1
  DEF Init, IInv, LockIsHeld, SendInv, OneSender, SenderHoldsLock, SessionGoesOn,
      Sending, InFlight, InFlightPcs
<1> QED
  BY <1>2, TypeStep, HeldStep, SendStep DEF IInv

(* The state of the pages, of the calls, of the browser's storage and of   *)
(* the server has its type in every reachable state; a page that was left  *)
(* does nothing.                                                           *)
THEOREM TypeCorrect == Spec => []TypeOK
<1>1. IInv => TypeOK
  BY DEF IInv
<1> QED
  BY <1>1, Inductive, PTL DEF Spec

(* isRefreshing is only true while a refresh of the tab is open, and the   *)
(* sign in localStorage only while some tab's is, or after a crash.        *)
THEOREM LockHeld == Spec => []LockIsHeld
<1>1. IInv => LockIsHeld
  BY DEF IInv
<1> QED
  BY <1>1, Inductive, PTL DEF Spec

(* While none of the six causes has occurred one request at a time carries *)
(* a refresh token, and no page is sent to the sign-in page.               *)
THEOREM OneSends == Spec => []OneCanSend
<1>1. IInv => OneCanSend
  BY DEF IInv, SendInv, OneCanSend, OneSender, SessionGoesOn, Sending
<1> QED
  BY <1>1, Inductive, PTL DEF Spec
=============================================================================
