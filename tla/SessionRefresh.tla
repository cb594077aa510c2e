--------------------------- MODULE SessionRefresh ---------------------------
(***************************************************************************)
(* The browser's Cognito session: frontend/src/services/auth (token        *)
(* storage, token manager, refresh service), the 401 handling of           *)
(* services/http-client.ts and services/workflow-templates-api.ts, and     *)
(* contexts/auth-context.tsx, with a remote backend (IS_REMOTE_BACKEND).   *)
(* The tokens are the tab's own (memory and sessionStorage); the marker    *)
(* is_authenticated and token_expiry are in localStorage, shared by all    *)
(* tabs.  A tab is a process, and an action is what it runs between two    *)
(* awaits: what resumes when an exchange settles is part of the settling.  *)
(*                                                                         *)
(* Time left to a bearer is kept in five steps.  How long a timer waits is *)
(* left out: an armed timer may fire at any moment.                        *)
(***************************************************************************)
EXTENDS Integers, Sequences

CONSTANTS Tabs,         \* browser tabs
          HttpCalls,    \* requests a tab has open through HttpClient
          ApiCalls,     \* requests through workflow-templates-api
          MaxFailures,  \* MAX_CONSECUTIVE_TRANSIENT_FAILURES
          MaxRejected,  \* MAX_POST_REFRESH_UNAUTHORIZED
          MaxMessages   \* bound: undelivered messages of a tab

ASSUME SessionAssumption ==
    /\ HttpCalls \cap ApiCalls = {}
    /\ MaxFailures \in Nat \ {0}
    /\ MaxRejected \in Nat \ {0}
    /\ MaxMessages \in Nat

VARIABLES
    auth,       \* localStorage is_authenticated
    expiry,     \* localStorage token_expiry
    bearer,     \* time left to the tab's bearer; its refresh token comes and
                \* goes with it
    revoked,    \* Cognito no longer accepts the tab's refresh token
    page,       \* "closed", "app" or "public"
    leaving,    \* window.location has been set, the page is not yet unloaded
    boot,       \* where checkAuth is
    user,       \* AuthProvider holds a user
    signedOut,  \* the user signed out and has not signed in since
    inbox,      \* messages of auth_channel on their way to the tab
    hidden,     \* document.visibilityState
    started,    \* proactiveStarted
    timer,      \* proactiveTimer is armed
    exchange,   \* refreshPromise: an exchange with Cognito is in flight
    renewing,   \* runProactiveRefresh awaits it
    fails,      \* consecutiveTransientFailures
    dispatched, \* sessionExpiryDispatched
    handled,    \* sessionExpiryHandled of HttpClient
    rejected,   \* postRefreshUnauthorizedCount
    calls,      \* the tab's requests
    announced   \* session-expired events since the session was last alive

store == <<auth, expiry>>
tokens == <<bearer, revoked>>
view == <<page, leaving, boot, user, signedOut, inbox, hidden>>
service == <<started, timer, exchange, renewing, fails, dispatched>>
client == <<handled, rejected, calls, announced>>
vars == <<auth, expiry, bearer, revoked, page, leaving, boot, user,
          signedOut, inbox, hidden, started, timer, exchange, renewing, fails,
          dispatched, handled, rejected, calls, announced>>

Calls == HttpCalls \cup ApiCalls

\* 3: outside the renewal window; 2: inside it; 1: in its last minute;
\* 0: past exp, within the validator's five minutes of grace; -1: expired.
Fresh == 3
RenewalLead == 2
LastMinute == 1
Lapsed == 0
Expired == -1
None == -2
TimeLeft == Expired..Fresh
Older(x) == IF x > Expired THEN x - 1 ELSE x

NoCall == [at |-> "idle", tok |-> None, old |-> FALSE]
CallType == [at : {"idle", "sent", "waiting", "replay"},
             tok : TimeLeft \cup {None}, old : BOOLEAN]
Inbox(t) == Len(inbox[t])

Init ==
    /\ auth = FALSE /\ expiry = None
    /\ bearer = [t \in Tabs |-> None]
    /\ revoked = [t \in Tabs |-> FALSE]
    /\ page = [t \in Tabs |-> "closed"]
    /\ leaving = [t \in Tabs |-> FALSE]
    /\ boot = [t \in Tabs |-> "done"]
    /\ user = [t \in Tabs |-> FALSE]
    /\ signedOut = [t \in Tabs |-> FALSE]
    /\ inbox = [t \in Tabs |-> <<>>]
    /\ hidden = [t \in Tabs |-> FALSE]
    /\ started = [t \in Tabs |-> FALSE]
    /\ timer = [t \in Tabs |-> FALSE]
    /\ exchange = [t \in Tabs |-> FALSE]
    /\ renewing = [t \in Tabs |-> FALSE]
    /\ fails = [t \in Tabs |-> 0]
    /\ dispatched = [t \in Tabs |-> FALSE]
    /\ handled = [t \in Tabs |-> FALSE]
    /\ rejected = [t \in Tabs |-> 0]
    /\ calls = [t \in Tabs |-> [c \in Calls |-> NoCall]]
    /\ announced = [t \in Tabs |-> 0]

-----------------------------------------------------------------------------
\* getAccessTokenExpiry: the held bearer speaks first, then the shared entry.
TimeUntil(t) == IF bearer[t] # None THEN bearer[t] ELSE expiry
\* Regression: a bearer outside the renewal window is due as well.
DueWhateverTime(t) == TimeUntil(t) # None
IsRefreshDue(t) == TimeUntil(t) # None /\ TimeUntil(t) <= RenewalLead
IsAccessTokenExpired(t) == TimeUntil(t) \in {None, Expired}
TokenStale(t) == TimeUntil(t) <= LastMinute
HadSession(t) == bearer[t] # None \/ auth

ClearTokens(t) ==
    /\ auth' = FALSE /\ expiry' = None
    /\ bearer' = [bearer EXCEPT ![t] = None]

SetTokens(t) ==
    /\ auth' = TRUE /\ expiry' = Fresh
    /\ bearer' = [bearer EXCEPT ![t] = Fresh]

\* The listener of session-expired: a protected page goes to /login.
HandleSessionExpired(t) ==
    /\ user' = [user EXCEPT ![t] = FALSE]
    /\ leaving' = [leaving EXCEPT ![t] = leaving[t] \/ page[t] = "app"]
    /\ announced' = [announced EXCEPT ![t] = IF announced[t] = 0 THEN 1 ELSE 2]

ExpireSession(t) ==
    /\ ClearTokens(t)
    /\ fails' = [fails EXCEPT ![t] = 0]
    /\ timer' = [timer EXCEPT ![t] = FALSE]
    /\ dispatched' = [dispatched EXCEPT ![t] = TRUE]
    /\ IF dispatched[t] THEN UNCHANGED <<user, leaving, announced>>
       ELSE HandleSessionExpired(t)

\* maybeHandleAuthRejection of HttpClient
MaybeHandleAuthRejection(t, tokenKnownRejected) ==
    IF /\ ~handled[t] /\ HadSession(t)
       /\ tokenKnownRejected \/ bearer[t] = None \/ IsAccessTokenExpired(t)
    THEN /\ handled' = [handled EXCEPT ![t] = TRUE]
         /\ ClearTokens(t)
         /\ HandleSessionExpired(t)
    ELSE UNCHANGED <<handled, auth, expiry, bearer, user, leaving,
                     announced>>

\* armProactiveTimer arms a timer in a visible tab.
MayArm(t) == started[t] /\ auth

\* The services of a page that has just been loaded.
NewPage(t) ==
    /\ leaving' = [leaving EXCEPT ![t] = FALSE]
    /\ started' = [started EXCEPT ![t] = FALSE]
    /\ timer' = [timer EXCEPT ![t] = FALSE]
    /\ renewing' = [renewing EXCEPT ![t] = FALSE]
    /\ fails' = [fails EXCEPT ![t] = 0]
    /\ dispatched' = [dispatched EXCEPT ![t] = FALSE]
    /\ handled' = [handled EXCEPT ![t] = FALSE]
    /\ rejected' = [rejected EXCEPT ![t] = 0]
    /\ calls' = [calls EXCEPT ![t] = [c \in Calls |-> NoCall]]
    /\ announced' = [announced EXCEPT ![t] = 0]

Send(t, m) ==
    inbox' = [u \in Tabs |-> IF u # t /\ page[u] # "closed"
                             THEN Append(inbox[u], m) ELSE inbox[u]]
RoomFor(t) == \A u \in Tabs \ {t} : Inbox(u) < MaxMessages

-----------------------------------------------------------------------------
\* A page is opened or reloaded, and checkAuth runs up to its first await.

\* purgeStaleSession: a marker without a bearer, or past the shared expiry
StaleSession(t) ==
    auth /\ (bearer[t] = None \/ (expiry # None /\ expiry <= Lapsed))

Load(t, p) ==
    /\ leaving[t] => p = "public"
    /\ page' = [page EXCEPT ![t] = p]
    /\ user' = [user EXCEPT ![t] = FALSE]
    /\ inbox' = [inbox EXCEPT ![t] = <<>>]
    /\ NewPage(t)
    /\ IF StaleSession(t) THEN ClearTokens(t)
       ELSE UNCHANGED <<auth, expiry, bearer>>
    /\ boot' = [boot EXCEPT ![t] =
          IF ~auth \/ StaleSession(t) THEN "probe"
          ELSE IF IsAccessTokenExpired(t) \/ IsRefreshDue(t) THEN "refresh"
          ELSE "user"]
    /\ exchange' = [exchange EXCEPT ![t] = boot'[t] = "refresh"]
    /\ UNCHANGED <<revoked, signedOut, hidden>>

CloseTab(t) ==
    /\ page[t] # "closed"
    /\ page' = [page EXCEPT ![t] = "closed"]
    /\ bearer' = [bearer EXCEPT ![t] = None]
    /\ user' = [user EXCEPT ![t] = FALSE]
    /\ boot' = [boot EXCEPT ![t] = "done"]
    /\ exchange' = [exchange EXCEPT ![t] = FALSE]
    /\ signedOut' = [signedOut EXCEPT ![t] = FALSE]
    /\ inbox' = [inbox EXCEPT ![t] = <<>>]
    /\ NewPage(t)
    /\ UNCHANGED <<auth, expiry, revoked, hidden>>

\* getCurrentUser of checkAuth answers; only a bearer with time left counts.
BootSucceeds(t) ==
    /\ boot[t] \in {"user", "probe"} /\ bearer[t] > Lapsed
    /\ boot' = [boot EXCEPT ![t] = "done"]
    /\ user' = [user EXCEPT ![t] = TRUE]
    /\ auth' = (auth \/ boot[t] = "probe")
    /\ UNCHANGED <<expiry, tokens, page, leaving, signedOut, inbox, hidden,
                   service, client>>

\* It is refused, or three attempts have failed: logout(false), except for
\* the probe.
BootFails(t) ==
    /\ boot[t] \in {"user", "probe"}
    /\ boot' = [boot EXCEPT ![t] = "done"]
    /\ IF boot[t] = "user" THEN ClearTokens(t)
       ELSE UNCHANGED <<auth, expiry, bearer>>
    /\ UNCHANGED <<revoked, page, leaving, user, signedOut, inbox, hidden,
                   service, client>>

\* AppAuthGate: a protected page without a user becomes /login.
Gate(t) ==
    /\ page[t] = "app" /\ boot[t] = "done" /\ ~user[t]
    /\ page' = [page EXCEPT ![t] = "public"]
    /\ UNCHANGED <<store, tokens, leaving, boot, user, signedOut, inbox,
                   hidden, service, client>>

\* The page of /auth/callback: the tokens are stored, the user is fetched.
CompleteExternalLogin(t) ==
    /\ page[t] = "public" /\ boot[t] = "done" /\ ~user[t] /\ ~leaving[t]
    /\ RoomFor(t)
    /\ SetTokens(t)
    /\ page' = [page EXCEPT ![t] = "app"]
    /\ user' = [user EXCEPT ![t] = TRUE]
    /\ signedOut' = [signedOut EXCEPT ![t] = FALSE]
    /\ revoked' = [revoked EXCEPT ![t] = FALSE]
    /\ exchange' = [exchange EXCEPT ![t] = FALSE]
    /\ Send(t, "LOGIN")
    /\ NewPage(t)
    /\ UNCHANGED <<boot, hidden>>

Logout(t) ==
    /\ user[t] /\ ~leaving[t] /\ RoomFor(t)
    /\ user' = [user EXCEPT ![t] = FALSE]
    /\ ClearTokens(t)
    /\ signedOut' = [signedOut EXCEPT ![t] = TRUE]
    /\ leaving' = [leaving EXCEPT ![t] = TRUE]
    /\ Send(t, "LOGOUT")
    /\ UNCHANGED <<revoked, page, boot, hidden, service, client>>

\* Messages of another tab
ReceiveLogin(t) ==
    /\ inbox[t] # <<>> /\ Head(inbox[t]) = "LOGIN"
    /\ user' = [user EXCEPT ![t] = TRUE]
    /\ inbox' = [inbox EXCEPT ![t] = Tail(inbox[t])]
    /\ UNCHANGED <<store, tokens, page, leaving, boot, signedOut, hidden,
                   service, client>>

ReceiveLogout(t) ==
    /\ inbox[t] # <<>> /\ Head(inbox[t]) = "LOGOUT"
    /\ ClearTokens(t)
    /\ user' = [user EXCEPT ![t] = FALSE]
    /\ signedOut' = [signedOut EXCEPT ![t] = TRUE]
    /\ leaving' = [leaving EXCEPT ![t] = leaving[t] \/ page[t] = "app"]
    /\ inbox' = [inbox EXCEPT ![t] = Tail(inbox[t])]
    /\ UNCHANGED <<revoked, page, boot, hidden, service, client>>

-----------------------------------------------------------------------------
\* The effect of AuthProvider on isSignedIn
Start(t) ==
    /\ page[t] # "closed" /\ user[t] /\ ~started[t]
    /\ started' = [started EXCEPT ![t] = TRUE]
    /\ dispatched' = [dispatched EXCEPT ![t] = FALSE]
    /\ fails' = [fails EXCEPT ![t] = 0]
    /\ timer' = [timer EXCEPT ![t] = auth /\ ~hidden[t] /\ TimeUntil(t) # None]
    /\ UNCHANGED <<store, tokens, view, exchange, renewing, client>>

Stop(t) ==
    /\ started[t] /\ ~user[t]
    /\ started' = [started EXCEPT ![t] = FALSE]
    /\ timer' = [timer EXCEPT ![t] = FALSE]
    /\ UNCHANGED <<store, tokens, view, exchange, renewing, fails, dispatched,
                   client>>

\* Regression: a wake-up on a fresh bearer does not re-arm.
RunProactiveRefreshOnce(t) ==
    /\ timer' = [timer EXCEPT ![t] = FALSE]
    /\ IF MayArm(t) /\ IsRefreshDue(t) /\ (exchange[t] \/ bearer[t] # None)
       THEN /\ exchange' = [exchange EXCEPT ![t] = TRUE]
            /\ renewing' = [renewing EXCEPT ![t] = TRUE]
       ELSE UNCHANGED <<exchange, renewing>>
    /\ UNCHANGED <<store, bearer, user, leaving, fails, dispatched, announced>>
\* runProactiveRefresh of a visible tab whose timer has just been cleared
RunProactiveRefresh(t) ==
    IF ~MayArm(t)
    THEN /\ timer' = [timer EXCEPT ![t] = FALSE]
         /\ UNCHANGED <<store, bearer, user, leaving, exchange, renewing,
                        fails, dispatched, announced>>
    ELSE IF ~IsRefreshDue(t)
    THEN /\ timer' = [timer EXCEPT ![t] = TimeUntil(t) # None]
         /\ UNCHANGED <<store, bearer, user, leaving, exchange, renewing,
                        fails, dispatched, announced>>
    ELSE IF exchange[t] \/ bearer[t] # None
    THEN /\ timer' = [timer EXCEPT ![t] = FALSE]
         /\ exchange' = [exchange EXCEPT ![t] = TRUE]
         /\ renewing' = [renewing EXCEPT ![t] = TRUE]
         /\ UNCHANGED <<store, bearer, user, leaving, fails, dispatched,
                        announced>>
    ELSE /\ ExpireSession(t)
         /\ UNCHANGED <<exchange, renewing>>

TimerFires(t) ==
    /\ timer[t]
    /\ RunProactiveRefresh(t)
    /\ UNCHANGED <<revoked, page, boot, signedOut, inbox, hidden, started,
                   handled, rejected, calls>>

Show(t) ==
    /\ page[t] # "closed" /\ hidden[t]
    /\ hidden' = [hidden EXCEPT ![t] = FALSE]
    /\ IF started[t] THEN RunProactiveRefresh(t)
       ELSE UNCHANGED <<store, bearer, user, leaving, timer, exchange,
                        renewing, fails, dispatched, announced>>
    /\ UNCHANGED <<revoked, page, boot, signedOut, inbox, started, handled,
                   rejected, calls>>

Hide(t) ==
    /\ page[t] # "closed" /\ ~hidden[t]
    /\ hidden' = [hidden EXCEPT ![t] = TRUE]
    /\ timer' = [timer EXCEPT ![t] = timer[t] /\ ~started[t]]
    /\ UNCHANGED <<store, tokens, page, leaving, boot, user, signedOut, inbox,
                   started, exchange, renewing, fails, dispatched, client>>

-----------------------------------------------------------------------------
\* The exchange settles, and every caller that awaits it resumes.

\* What becomes of the tab's calls: those that wait are answered.
Waiting(t, C) == \E c \in C : calls[t][c].at = "waiting"
\* Regression: a failed exchange answers nobody.
NobodyReleased(t) == calls[t]
Released(t) ==
    [c \in Calls |-> IF calls[t][c].at = "waiting" THEN NoCall ELSE calls[t][c]]
\* Those that wait are sent again; the others still carry the old bearer.
Replayed(t) ==
    [c \in Calls |-> LET k == calls[t][c]
                     IN CASE k.at = "waiting" ->
                               [at |-> "replay", tok |-> Fresh, old |-> FALSE]
                          [] k.at = "idle" -> k
                          [] OTHER -> [k EXCEPT !.old = TRUE]]

\* checkAuth after a failed refresh: logout(false)
BootGivesUp(t) == boot' = [boot EXCEPT ![t] = IF boot[t] = "refresh" THEN "done"
                                              ELSE boot[t]]

Settle(t) ==
    /\ exchange[t]
    /\ exchange' = [exchange EXCEPT ![t] = FALSE]
    /\ renewing' = [renewing EXCEPT ![t] = FALSE]

Refreshed(t) ==
    /\ ~revoked[t]
    /\ Settle(t)
    /\ SetTokens(t)
    /\ fails' = [fails EXCEPT ![t] = 0]
    /\ dispatched' = [dispatched EXCEPT ![t] = FALSE]
    /\ timer' = [timer EXCEPT ![t] =
                    IF renewing[t] THEN started[t] /\ ~hidden[t] ELSE timer[t]]
    /\ boot' = [boot EXCEPT ![t] = IF boot[t] = "refresh" THEN "user"
                                   ELSE boot[t]]
    /\ calls' = [calls EXCEPT ![t] = Replayed(t)]
    /\ announced' = [announced EXCEPT ![t] = 0]
    /\ UNCHANGED <<revoked, page, leaving, user, signedOut, inbox, hidden,
                   started, handled, rejected>>

\* The session has ended: Cognito says so, or the failures reach the bound.
SettleExpired(t) ==
    /\ Settle(t)
    /\ ExpireSession(t)
    /\ BootGivesUp(t)
    /\ handled' = [handled EXCEPT ![t] = handled[t] \/ Waiting(t, HttpCalls)]
    /\ calls' = [calls EXCEPT ![t] = Released(t)]
    /\ UNCHANGED <<revoked, page, signedOut, inbox, hidden, started, rejected>>

Refused(t) == revoked[t] /\ SettleExpired(t)

\* No verdict: offline, 5xx, 429, an unreadable body.
FailsTransiently(t) ==
    /\ fails[t] + 1 < MaxFailures
    /\ Settle(t)
    /\ fails' = [fails EXCEPT ![t] = fails[t] + 1]
    /\ IF boot[t] = "refresh" THEN ClearTokens(t)
       ELSE UNCHANGED <<auth, expiry, bearer>>
    /\ BootGivesUp(t)
    /\ timer' = [timer EXCEPT ![t] =
                    IF renewing[t] THEN MayArm(t) /\ ~hidden[t] ELSE timer[t]]
    /\ calls' = [calls EXCEPT ![t] = Released(t)]
    /\ UNCHANGED <<revoked, page, leaving, user, signedOut, inbox, hidden,
                   started, dispatched, handled, rejected, announced>>

GivesUp(t) == fails[t] + 1 >= MaxFailures /\ SettleExpired(t)

-----------------------------------------------------------------------------
\* Requests of a protected page, which is shown while there is a user and
\* until the effects of its loss have run

SetCall(t, c, k) == calls' = [calls EXCEPT ![t][c] = k]
NoTeardown == UNCHANGED <<store, bearer, user, leaving, announced>>
CallFrame == UNCHANGED <<revoked, page, boot, signedOut, inbox, hidden, started,
                         renewing>>

Request(t, c) ==
    /\ page[t] = "app" /\ boot[t] = "done" /\ calls[t][c].at = "idle"
    /\ user[t] \/ started[t]
    /\ SetCall(t, c, [at |-> "sent", tok |-> bearer[t], old |-> FALSE])
    /\ UNCHANGED <<store, tokens, view, service, handled, rejected, announced>>

\* An answer that is not an auth rejection needs a bearer with time left.
Answered(t, c) ==
    /\ calls[t][c].at \in {"sent", "replay"} /\ calls[t][c].tok > Lapsed
    /\ SetCall(t, c, NoCall)
    /\ rejected' = [rejected EXCEPT ![t] =
                       IF calls[t][c].at = "replay" /\ c \in HttpCalls THEN 0
                       ELSE rejected[t]]
    /\ UNCHANGED <<store, tokens, view, service, handled, announced>>

\* refreshWithOutcome for the request c, up to its await
AwaitRefresh(t, c) ==
    IF exchange[t] \/ bearer[t] # None
    THEN /\ exchange' = [exchange EXCEPT ![t] = TRUE]
         /\ SetCall(t, c, [calls[t][c] EXCEPT !.at = "waiting"])
         /\ NoTeardown
         /\ UNCHANGED <<handled, timer, fails, dispatched>>
    ELSE /\ ExpireSession(t)
         /\ SetCall(t, c, NoCall)
         /\ handled' = [handled EXCEPT ![t] = handled[t] \/ c \in HttpCalls]
         /\ UNCHANGED exchange

\* HttpClient, first answer 401: refreshed only for a stale bearer.
HttpUnauthorized(t, c) ==
    /\ c \in HttpCalls /\ calls[t][c].at = "sent"
    /\ IF HadSession(t) /\ TokenStale(t)
       THEN IF auth THEN AwaitRefresh(t, c)
            ELSE /\ SetCall(t, c, NoCall)
                 /\ MaybeHandleAuthRejection(t, FALSE)
                 /\ UNCHANGED <<exchange, timer, fails, dispatched>>
       ELSE /\ SetCall(t, c, NoCall)
            /\ NoTeardown
            /\ UNCHANGED <<exchange, timer, fails, dispatched, handled>>
    /\ UNCHANGED rejected
    /\ CallFrame

\* 403, or a 401 that follows a retried answer
HttpForbidden(t, c) ==
    /\ c \in HttpCalls /\ calls[t][c].at = "sent"
    /\ SetCall(t, c, NoCall)
    /\ MaybeHandleAuthRejection(t, FALSE)
    /\ UNCHANGED <<exchange, timer, fails, dispatched, rejected>>
    /\ CallFrame

\* replayAfterRefresh: the fresh bearer is refused as well.
ReplayRejected(t, c) ==
    /\ c \in HttpCalls /\ calls[t][c].at = "replay"
    /\ SetCall(t, c, NoCall)
    /\ rejected' = [rejected EXCEPT ![t] =
                       IF rejected[t] < MaxRejected THEN rejected[t] + 1
                       ELSE rejected[t]]
    /\ IF rejected'[t] >= MaxRejected THEN MaybeHandleAuthRejection(t, TRUE)
       ELSE NoTeardown /\ UNCHANGED handled
    /\ UNCHANGED <<exchange, timer, fails, dispatched>>
    /\ CallFrame

\* workflow-templates-api: any 401 of the first answer is refreshed.
ApiUnauthorized(t, c) ==
    /\ c \in ApiCalls /\ calls[t][c].at = "sent"
    /\ AwaitRefresh(t, c)
    /\ UNCHANGED rejected
    /\ CallFrame

ApiRejected(t, c) ==
    /\ c \in ApiCalls /\ calls[t][c].at \in {"sent", "replay"}
    /\ SetCall(t, c, NoCall)
    /\ UNCHANGED <<store, tokens, view, service, handled, rejected, announced>>

-----------------------------------------------------------------------------
\* Time passes for every token alike; Cognito revokes a tab's refresh token.
Tick ==
    /\ expiry' = Older(expiry)
    /\ bearer' = [t \in Tabs |-> Older(bearer[t])]
    /\ calls' = [t \in Tabs |-> [c \in Calls |->
                    [calls[t][c] EXCEPT !.tok = Older(calls[t][c].tok)]]]
    /\ UNCHANGED <<auth, revoked, view, service, handled, rejected, announced>>

Revoke(t) ==
    /\ bearer[t] # None /\ ~revoked[t]
    /\ revoked' = [revoked EXCEPT ![t] = TRUE]
    /\ UNCHANGED <<store, bearer, view, service, client>>

Reply(t, c) ==
    \/ Answered(t, c)
    \/ HttpUnauthorized(t, c) \/ HttpForbidden(t, c) \/ ReplayRejected(t, c)
    \/ ApiUnauthorized(t, c) \/ ApiRejected(t, c)

SettleExchange(t) ==
    Refreshed(t) \/ Refused(t) \/ FailsTransiently(t) \/ GivesUp(t)

Next ==
    \/ Tick
    \/ \E t \in Tabs :
        \/ \E p \in {"app", "public"} : Load(t, p)
        \/ CloseTab(t) \/ BootSucceeds(t) \/ BootFails(t) \/ Gate(t)
        \/ CompleteExternalLogin(t) \/ Logout(t)
        \/ ReceiveLogin(t) \/ ReceiveLogout(t)
        \/ Start(t) \/ Stop(t) \/ TimerFires(t) \/ Show(t) \/ Hide(t)
        \/ SettleExchange(t) \/ Revoke(t)
        \/ \E c \in Calls : Request(t, c) \/ Reply(t, c)

Spec == Init /\ [][Next]_vars

\* Fairness: timers fire, effects run, requests and the exchange end.
FairnessOf(t) ==
    /\ WF_vars(TimerFires(t)) /\ WF_vars(Start(t)) /\ WF_vars(Stop(t))
    /\ WF_vars(SettleExchange(t))
    /\ \A c \in Calls : WF_vars(Reply(t, c))

Fairness == \A t \in Tabs : FairnessOf(t)

FairSpec == Spec /\ Fairness

-----------------------------------------------------------------------------
\* Values every variable may take, and the counters' bounds.
StoreOK ==
    /\ auth \in BOOLEAN
    /\ expiry \in TimeLeft \cup {None}
    /\ bearer \in [Tabs -> TimeLeft \cup {None}]
    /\ revoked \in [Tabs -> BOOLEAN]
ViewOK ==
    /\ page \in [Tabs -> {"closed", "app", "public"}]
    /\ leaving \in [Tabs -> BOOLEAN]
    /\ boot \in [Tabs -> {"done", "refresh", "user", "probe"}]
    /\ user \in [Tabs -> BOOLEAN]
    /\ signedOut \in [Tabs -> BOOLEAN]
    /\ inbox \in [Tabs -> Seq({"LOGIN", "LOGOUT"})]
    /\ hidden \in [Tabs -> BOOLEAN]
ServiceOK ==
    /\ started \in [Tabs -> BOOLEAN]
    /\ timer \in [Tabs -> BOOLEAN]
    /\ exchange \in [Tabs -> BOOLEAN]
    /\ renewing \in [Tabs -> BOOLEAN]
    /\ fails \in [Tabs -> 0..(MaxFailures - 1)]
    /\ dispatched \in [Tabs -> BOOLEAN]
ClientOK ==
    /\ handled \in [Tabs -> BOOLEAN]
    /\ rejected \in [Tabs -> 0..MaxRejected]
    /\ calls \in [Tabs -> [Calls -> CallType]]
    /\ announced \in [Tabs -> 0..2]
TypeOK == StoreOK /\ ViewOK /\ ServiceOK /\ ClientOK

\* token-refresh-service.ts:355-358: no path arms a timer in a hidden tab or
\* after stop(), whatever settles meanwhile.
TimerIsLegal == \A t \in Tabs : timer[t] => started[t] /\ ~hidden[t]

\* The proactive path of a visible signed-in tab never goes dead while the tab
\* holds its tokens (token-refresh-service.ts:323-326).
RenewalArmed ==
    \A t \in Tabs :
        user[t] /\ started[t] /\ ~hidden[t] /\ bearer[t] # None
            => timer[t] \/ renewing[t]

\* A bearer outside its renewal window is given up only by signing out, by
\* closing the tab, while the page still starts, or because the backend keeps
\* refusing it: no failed exchange and no request costs the user a session
\* that is alive (token-refresh-service.ts:57-62, 83-88).
\* The exception is a client that refreshes on every 401 and waits for its exchange.
ApiWaits(t) == Waiting(t, ApiCalls)
FreshSessionKept ==
    [][\A t \in Tabs :
         bearer[t] = Fresh /\ bearer'[t] = None /\ ~revoked[t]
             => \/ signedOut'[t] \/ page'[t] = "closed" \/ boot[t] # "done"
                \/ rejected'[t] >= MaxRejected \/ ApiWaits(t)]_vars

\* An exchange that fails without a verdict keeps the tokens
\* (token-refresh-service.ts:8-16).
BlipKeepsSession ==
    [][\A t \in Tabs : fails'[t] > fails[t] => bearer'[t] = bearer[t]]_vars

\* A page that starts with a refresh token spends it before it gives the
\* session up (auth-context.tsx:302-313).
BootAsksCognito ==
    [][\A t \in Tabs : boot'[t] = "probe" /\ boot[t] = "done"
                           => bearer'[t] = bearer[t]]_vars

\* After a sign-out a tab holds no tokens until the next sign-in
\* (auth-service.ts:31-34).
SignedOutStays == \A t \in Tabs : signedOut[t] => bearer[t] = None

\* session-expired is announced at most once per live session
\* (token-refresh-service.ts:121-123, 293).
AnnouncedOnce == \A t \in Tabs : announced[t] <= 1

\* A burst of 401s spends the refresh token once: the answer to a bearer that
\* has been replaced since starts no further exchange
\* (token-refresh-service.ts:78-79).
SpentOnce ==
    [][\A t \in Tabs, c \in Calls :
         /\ calls[t][c].at = "sent" /\ calls[t][c].old
         /\ calls[t][c].tok \in {Expired, Lapsed}
         /\ calls'[t][c].at = "waiting" /\ bearer[t] = Fresh
         => exchange[t]]_vars

\* A signed-in tab without a bearer does not get 401s forever: its first one
\* halts the session (http-client.ts:436-441).
UnauthorizedHalts ==
    [][\A t \in Tabs, c \in HttpCalls :
         /\ calls[t][c].at = "sent" /\ calls'[t][c].at = "idle"
         /\ calls[t][c].tok = None /\ bearer[t] = None /\ auth /\ user[t]
         /\ page'[t] = "app" /\ boot'[t] = "done"
         => handled'[t]]_vars

Due(t) == user[t] /\ ~hidden[t] /\ bearer[t] \in Expired..RenewalLead
DueNoMore(t) == bearer[t] = Fresh \/ ~user[t] \/ hidden[t] \/ page[t] = "closed"
\* A bearer due for renewal in a visible tab is renewed, or the session ends.
RenewsOrEnds == \A t \in Tabs : Due(t) ~> DueNoMore(t)

\* Every request ends, those that wait for an exchange too.
CallsEnd ==
    \A t \in Tabs, c \in Calls :
        calls[t][c].at # "idle" ~> calls[t][c].at = "idle"

=============================================================================
