----------------------------- MODULE TokenRefresh -----------------------------
(***************************************************************************)
(* How the pages of one user replace an expired access token: request and  *)
(* ssePost of web/service/base.ts, refresh-token.ts, and                   *)
(* AccountService.refresh_token.                                           *)
(*                                                                         *)
(* A tab runs one callback at a time, tabs run side by side and share      *)
(* localStorage.  The lock is kept twice: isRefreshing in each tab, and a  *)
(* sign in localStorage with the time it was set.  Taking it is a check    *)
(* and, later, a set; dropping it is one step here.  Tokens are numbered   *)
(* in the order they are issued, an access token like the refresh token    *)
(* it comes with.                                                          *)
(***************************************************************************)
EXTENDS Naturals, FiniteSets

CONSTANTS Tabs, Calls,
          TabOf,      \* the tab each call is made in
          Sse,        \* the calls of ssePost; the others are of request
          MaxTokens,  \* bound: pairs of tokens issued
          MaxExpiries \* bound: times that access tokens expire

ASSUME CallsAssumption == TabOf \in [Calls -> Tabs] /\ Sse \subseteq Calls
ASSUME BoundsAssumption == MaxTokens \in Nat \ {0} /\ MaxExpiries \in Nat

Tokens == 1..MaxTokens
InFlightPcs == {"post", "verified", "issued", "denied"}
Racing == {"wait", "take"} \cup InFlightPcs
Pcs == {"idle", "fetch", "refused", "resend", "over"} \cup Racing
Causes == {"check raced", "old lock", "timeout", "lost", "left", "crashed"}

VARIABLES
  isRefreshing, \* per tab
  sign, fresh,  \* is_other_tab_refreshing; last_refresh_time is not too old
  access, refresh, \* console_token and refresh_token in localStorage
  page,         \* what each tab shows
  pc,           \* of each call
  tok,          \* the token the call sent or was sent last
  timer,        \* the 100 s timer of the call's refresh is to fire
  result,       \* what the caller was told
  valid,        \* refresh tokens in Redis
  issued,       \* pairs issued
  expired,      \* access tokens up to this one are refused
  expiries,
  causes        \* history: what went wrong so far

storage == <<sign, fresh, access, refresh>>
server == <<valid, issued, expired, expiries>>
vars == <<isRefreshing, storage, page, pc, tok, timer, result, server, causes>>

TypeOK ==
  /\ isRefreshing \in [Tabs -> BOOLEAN]
  /\ sign \in BOOLEAN /\ fresh \in BOOLEAN
  /\ access \in Tokens /\ refresh \in Tokens
  /\ page \in [Tabs -> {"app", "signin", "gone"}]
  /\ pc \in [Calls -> Pcs] /\ tok \in [Calls -> Tokens]
  /\ timer \in [Calls -> BOOLEAN]
  /\ result \in [Calls -> {"none", "answered", "failed", "left", "unanswered"}]
  /\ valid \subseteq Tokens /\ issued \in Tokens
  /\ expired \in 0..MaxTokens /\ expiries \in 0..MaxExpiries
  /\ causes \subseteq Causes
  /\ \A c \in Calls : page[TabOf[c]] # "app" =>
                        pc[c] \in {"idle", "over"} /\ ~ timer[c]

Init ==
  /\ isRefreshing = [t \in Tabs |-> FALSE] /\ sign = FALSE /\ fresh = FALSE
  /\ access = 1 /\ refresh = 1
  /\ page = [t \in Tabs |-> "app"]
  /\ pc = [c \in Calls |-> "idle"] /\ tok = [c \in Calls |-> 1]
  /\ timer = [c \in Calls |-> FALSE] /\ result = [c \in Calls |-> "none"]
  /\ valid = {1} /\ issued = 1 /\ expired = 0 /\ expiries = 0
  /\ causes = {}

InFlight(c) == pc[c] \in InFlightPcs

(* The tab of c is not in the middle of a callback of another call. *)
Turn(c) == \A d \in Calls : TabOf[d] = TabOf[c] /\ pc[d] = "take" => d = c

(* releaseRefreshLock *)
Release(t) ==
  /\ isRefreshing' = [isRefreshing EXCEPT ![t] = FALSE]
  /\ sign' = (sign /\ ~ isRefreshing[t])
  /\ fresh' = (fresh /\ ~ isRefreshing[t])

-----------------------------------------------------------------------------
\* Mutant of Unload: the calls of the page go on.
Unload_CallsGoOn(t, next) ==
  /\ page' = [page EXCEPT ![t] = next]
  /\ UNCHANGED <<pc, timer, result>>

(* The page is left: what it was doing is gone. *)
Unload(t, next) ==
  LET here == {c \in Calls : TabOf[c] = t /\ pc[c] \notin {"idle", "over"}}
  IN /\ page' = [page EXCEPT ![t] = next]
     /\ pc' = [c \in Calls |-> IF c \in here THEN "over" ELSE pc[c]]
     /\ timer' = [c \in Calls |-> timer[c] /\ TabOf[c] # t]
     /\ result' = [c \in Calls |->
                     IF c \in here /\ result[c] = "none" THEN "left" ELSE result[c]]

(* A refresh that may be answered is given up with the page. *)
LeftCause(t) == IF \E c \in Calls : TabOf[c] = t /\ pc[c] \in InFlightPcs \ {"denied"}
                THEN {"left"} ELSE {}

(* The tab is closed, or shows another site: beforeunload. *)
Close(t) ==
  /\ page[t] # "gone" /\ \A c \in Calls : TabOf[c] = t => pc[c] # "take"
  /\ Unload(t, "gone") /\ Release(t)
  /\ causes' = causes \cup LeftCause(t)
  /\ UNCHANGED <<access, refresh, tok, server>>

(* The browser dies, or discards the tab, and no handler runs. *)
Crash(t) ==
  /\ page[t] # "gone"
  /\ Unload(t, "gone")
  /\ isRefreshing' = [isRefreshing EXCEPT ![t] = FALSE]
  /\ causes' = causes \cup {"crashed"}
  /\ UNCHANGED <<storage, tok, server>>

-----------------------------------------------------------------------------
(* baseFetch, or the fetch of ssePost, is called. *)
Start(c) ==
  /\ pc[c] = "idle" /\ page[TabOf[c]] = "app" /\ Turn(c)
  /\ pc' = [pc EXCEPT ![c] = "fetch"] /\ tok' = [tok EXCEPT ![c] = access]
  /\ UNCHANGED <<isRefreshing, storage, page, timer, result, server, causes>>

(* Its answer, or its failure, which ky makes of a late answer. *)
Fetched(c) ==
  /\ pc[c] = "fetch" /\ Turn(c)
  /\ \/ /\ tok[c] > expired
        /\ pc' = [pc EXCEPT ![c] = "over"]
        /\ result' = [result EXCEPT ![c] = "answered"]
     \/ /\ tok[c] <= expired
        /\ pc' = [pc EXCEPT ![c] = "refused"] /\ UNCHANGED result
     \/ /\ pc' = [pc EXCEPT ![c] = "over"]
        /\ result' = [result EXCEPT ![c] = "failed"]
  /\ UNCHANGED <<isRefreshing, storage, page, tok, timer, server, causes>>

Locked(c) == (sign /\ fresh) \/ isRefreshing[TabOf[c]]

\* Mutant of Checks: the other tabs are not looked at.
Checks_ThisTab(c) ==
  /\ pc[c] = "refused" /\ Turn(c)
  /\ timer' = [timer EXCEPT ![c] = TRUE]
  /\ pc' = [pc EXCEPT ![c] = IF isRefreshing[TabOf[c]] THEN "wait" ELSE "take"]
  /\ causes' = causes
       \cup IF ~ Locked(c) /\ sign THEN {"old lock"} ELSE {}
       \cup IF ~ Locked(c) /\ \E d \in Calls : pc[d] = "take" THEN {"check raced"}
            ELSE {}
  /\ UNCHANGED <<isRefreshing, storage, page, tok, result, server>>

(* refreshAccessTokenOrRelogin sets its timer and getNewAccessToken looks  *)
(* at the lock.                                                            *)
Checks(c) ==
  /\ pc[c] = "refused" /\ Turn(c)
  /\ timer' = [timer EXCEPT ![c] = TRUE]
  /\ pc' = [pc EXCEPT ![c] = IF Locked(c) THEN "wait" ELSE "take"]
  /\ causes' = causes
       \cup IF ~ Locked(c) /\ sign THEN {"old lock"} ELSE {}
       \cup IF ~ Locked(c) /\ \E d \in Calls : pc[d] = "take" THEN {"check raced"}
            ELSE {}
  /\ UNCHANGED <<isRefreshing, storage, page, tok, result, server>>

(* ... takes it, and sends the refresh token. *)
Takes(c) ==
  /\ pc[c] = "take"
  /\ isRefreshing' = [isRefreshing EXCEPT ![TabOf[c]] = TRUE]
  /\ sign' = TRUE /\ fresh' = TRUE
  /\ pc' = [pc EXCEPT ![c] = "post"] /\ tok' = [tok EXCEPT ![c] = refresh]
  /\ UNCHANGED <<access, refresh, page, timer, result, server, causes>>

(* The race of c is won by getNewAccessToken: request sends its request    *)
(* again, ssePost calls itself.                                            *)
Resolved(c) ==
  IF result[c] = "none" /\ c \notin Sse
  THEN pc' = [pc EXCEPT ![c] = "resend"] /\ UNCHANGED result
  ELSE /\ pc' = [pc EXCEPT ![c] = "over"]
       /\ result' = [result EXCEPT ![c] = IF @ = "none" THEN "answered" ELSE @]

(* The race of c is lost: request shows the sign-in page, the caller of    *)
(* ssePost is told nothing.                                                *)
Rejected(c, next) ==
  IF result[c] = "none" /\ c \notin Sse
  THEN Unload(TabOf[c], "signin")
  ELSE /\ pc' = [pc EXCEPT ![c] = next]
       /\ result' = [result EXCEPT ![c] = IF @ = "none" THEN "unanswered" ELSE @]
       /\ UNCHANGED <<page, timer>>

(* waitUntilTokenRefreshed: every second, whatever the age of the sign. *)
Polls(c) ==
  /\ pc[c] = "wait" /\ Turn(c)
  /\ ~ sign /\ ~ isRefreshing[TabOf[c]]
  /\ Resolved(c)
  /\ UNCHANGED <<isRefreshing, storage, page, tok, timer, server, causes>>

-----------------------------------------------------------------------------
(* AccountService.refresh_token reads the token's key ... *)
Verifies(c) ==
  /\ pc[c] = "post"
  /\ pc' = [pc EXCEPT ![c] = IF tok[c] \in valid THEN "verified" ELSE "denied"]
  /\ UNCHANGED <<isRefreshing, storage, page, tok, timer, result, server, causes>>

(* ... and puts a new one in its place. *)
Rotates(c) ==
  /\ pc[c] = "verified"
  /\ issued < MaxTokens /\ issued' = issued + 1
  /\ valid' = (valid \ {tok[c]}) \cup {issued'}
  /\ tok' = [tok EXCEPT ![c] = issued'] /\ pc' = [pc EXCEPT ![c] = "issued"]
  /\ UNCHANGED <<isRefreshing, storage, page, timer, result, expired, expiries,
                 causes>>

\* Mutant of Stores: the new refresh token is not kept.
Stores_AccessOnly(c) ==
  /\ pc[c] = "issued" /\ Turn(c)
  /\ access' = tok[c] /\ UNCHANGED refresh
  /\ Release(TabOf[c]) /\ Resolved(c)
  /\ UNCHANGED <<page, tok, timer, server, causes>>

(* The new pair arrives. *)
Stores(c) ==
  /\ pc[c] = "issued" /\ Turn(c)
  /\ access' = tok[c] /\ refresh' = tok[c]
  /\ Release(TabOf[c]) /\ Resolved(c)
  /\ UNCHANGED <<page, tok, timer, server, causes>>

\* Mutant of Fails: the lock is dropped on success only.
Fails_KeepsLock(c) ==
  /\ InFlight(c) /\ Turn(c)
  /\ UNCHANGED <<isRefreshing, sign, fresh>> /\ Rejected(c, "over")
  /\ causes' = causes \cup IF pc[c] = "denied" THEN {} ELSE {"lost"}
  /\ UNCHANGED <<access, refresh, tok, server>>

(* 401 arrives, or the request is lost on its way there or back;           *)
(* fetchWithRetry awaits the same promise again.                           *)
Fails(c) ==
  /\ InFlight(c) /\ Turn(c)
  /\ Release(TabOf[c]) /\ Rejected(c, "over")
  /\ causes' = causes \cup IF pc[c] = "denied" THEN {} ELSE {"lost"}
  /\ UNCHANGED <<access, refresh, tok, server>>

\* Mutant of TimerFires: the lock is dropped, the call goes on waiting.
TimerFires_OnlyReleases(c) ==
  LET t == TabOf[c]
  IN /\ timer[c] /\ Turn(c) /\ pc[c] # "take"
     /\ Release(t)
     /\ timer' = [timer EXCEPT ![c] = FALSE]
     /\ UNCHANGED <<page, pc, result>>
     /\ causes' = causes \cup IF isRefreshing[t] THEN {"timeout"} ELSE {}
     /\ UNCHANGED <<access, refresh, tok, server>>

(* The timer is never cleared: it drops whatever lock its tab has by then, *)
(* and rejects if the race is still on; what c waits for goes on.          *)
TimerFires(c) ==
  LET t == TabOf[c]
      on == pc[c] \in Racing /\ result[c] = "none"
  IN /\ timer[c] /\ Turn(c) /\ pc[c] # "take"
     /\ Release(t)
     /\ IF on /\ c \notin Sse THEN Unload(t, "signin")
        ELSE /\ timer' = [timer EXCEPT ![c] = FALSE]
             /\ result' = [result EXCEPT ![c] = IF on THEN "unanswered" ELSE @]
             /\ UNCHANGED <<page, pc>>
     /\ causes' = causes \cup IF isRefreshing[t] \/ on THEN {"timeout"} ELSE {}
     /\ UNCHANGED <<access, refresh, tok, server>>

-----------------------------------------------------------------------------
(* baseFetch is called for the second time, with the token there is. *)
Resends(c) ==
  /\ pc[c] = "resend" /\ Turn(c)
  /\ pc' = [pc EXCEPT ![c] = "over"]
  /\ \/ /\ access > expired
        /\ result' = [result EXCEPT ![c] = "answered"]
     \/ result' = [result EXCEPT ![c] = "failed"]
  /\ UNCHANGED <<isRefreshing, storage, page, tok, timer, server, causes>>

(* The user signs in. *)
SignIn(t) ==
  /\ page[t] = "signin" /\ page' = [page EXCEPT ![t] = "app"]
  /\ issued < MaxTokens /\ issued' = issued + 1
  /\ valid' = valid \cup {issued'}
  /\ access' = issued' /\ refresh' = issued'
  /\ UNCHANGED <<isRefreshing, sign, fresh, pc, tok, timer, result, expired,
                 expiries, causes>>

(* The access tokens there are expire. *)
Expire ==
  /\ expired < issued /\ expired' = issued
  /\ expiries < MaxExpiries /\ expiries' = expiries + 1
  /\ UNCHANGED <<isRefreshing, storage, page, pc, tok, timer, result, valid,
                 issued, causes>>

(* last_refresh_time is more than 100 s ago. *)
GetsOld ==
  /\ fresh /\ fresh' = FALSE
  /\ UNCHANGED <<isRefreshing, sign, access, refresh, page, pc, tok, timer,
                 result, server, causes>>

Next ==
  \/ \E c \in Calls : \/ Start(c) \/ Fetched(c) \/ Checks(c) \/ Takes(c)
                      \/ Polls(c) \/ Verifies(c) \/ Rotates(c) \/ Stores(c)
                      \/ Fails(c) \/ TimerFires(c) \/ Resends(c)
  \/ \E t \in Tabs : Close(t) \/ Crash(t) \/ SignIn(t)
  \/ Expire \/ GetsOld

Spec == Init /\ [][Next]_vars

(* Fetches are answered or time out, callbacks and timers run; nothing is  *)
(* assumed of the refresh request, which has no time limit of its own.     *)
FairSpec ==
  /\ Spec
  /\ \A c \in Calls :
       /\ WF_vars(Fetched(c)) /\ WF_vars(Checks(c)) /\ WF_vars(Takes(c))
       /\ WF_vars(TimerFires(c)) /\ WF_vars(Resends(c))

-----------------------------------------------------------------------------
(* The lock is somebody's: a tab that says it is refreshing has a request  *)
(* open that will drop the lock, and the sign the others see is of such a  *)
(* tab, or of one that crashed.                                            *)
LockIsHeld ==
  /\ \A t \in Tabs : isRefreshing[t] => \E c \in Calls : TabOf[c] = t /\ InFlight(c)
  /\ sign => "crashed" \in causes \/ \E t \in Tabs : isRefreshing[t]

(* refresh-token.ts:33, "only one request can send": no refresh token is   *)
(* sent twice, and so no page is sent to the sign-in page while its user's *)
(* session could go on - unless the two tabs raced for the lock, an old    *)
(* lock was ignored, a timer dropped it, a page was left or crashed with   *)
(* the answer on its way, or a request was lost.                           *)
OneCanSend ==
  \/ causes # {}
  \/ /\ \A t \in Tabs : page[t] # "signin"
     /\ \A c, d \in Calls : InFlight(c) /\ InFlight(d) => c = d

(* Every call comes to an end, also behind the sign of a crashed tab and   *)
(* when the refresh request is never answered.                             *)
CallsEnd == \A c \in Calls : pc[c] = "fetch" ~> result[c] # "none"
=============================================================================
