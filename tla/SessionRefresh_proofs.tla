----------------------- MODULE SessionRefresh_proofs -----------------------
(***************************************************************************)
(* Proofs about SessionRefresh: its type invariant, that no path arms the  *)
(* proactive timer illegally, and that a client which refreshes only for a *)
(* stale bearer never ends a session whose bearer is fresh.                *)
(***************************************************************************)
EXTENDS SessionRefresh, TLAPS

-----------------------------------------------------------------------------
\* What the operators the actions share leave of the types.

LEMMA NewPageTypes ==
    ASSUME TypeOK, NEW t \in Tabs, NewPage(t)
    PROVE  /\ leaving' \in [Tabs -> BOOLEAN]
           /\ started' \in [Tabs -> BOOLEAN]
           /\ timer' \in [Tabs -> BOOLEAN]
           /\ renewing' \in [Tabs -> BOOLEAN]
           /\ fails' \in [Tabs -> 0..(MaxFailures - 1)]
           /\ dispatched' \in [Tabs -> BOOLEAN]
           /\ ClientOK'
<1>1. /\ leaving' \in [Tabs -> BOOLEAN]
      /\ started' \in [Tabs -> BOOLEAN]
      /\ timer' \in [Tabs -> BOOLEAN]
      /\ renewing' \in [Tabs -> BOOLEAN]
      /\ dispatched' \in [Tabs -> BOOLEAN]
      /\ handled' \in [Tabs -> BOOLEAN]
  BY DEF TypeOK, ViewOK, ServiceOK, ClientOK, NewPage
<1>2. /\ fails' \in [Tabs -> 0..(MaxFailures - 1)]
      /\ rejected' \in [Tabs -> 0..MaxRejected]
      /\ calls' \in [Tabs -> [Calls -> CallType]]
      /\ announced' \in [Tabs -> 0..2]
  BY SessionAssumption
     DEF TypeOK, ServiceOK, ClientOK, NewPage, CallType, NoCall, None
<1> QED
  BY <1>1, <1>2 DEF ClientOK

LEMMA ClearTypes ==
    ASSUME TypeOK, NEW t \in Tabs, ClearTokens(t)
    PROVE  /\ auth' \in BOOLEAN
           /\ expiry' \in TimeLeft \cup {None}
           /\ bearer' \in [Tabs -> TimeLeft \cup {None}]
  BY DEF TypeOK, StoreOK, ClearTokens

LEMMA SetTypes ==
    ASSUME TypeOK, NEW t \in Tabs, SetTokens(t)
    PROVE  /\ auth' \in BOOLEAN
           /\ expiry' \in TimeLeft \cup {None}
           /\ bearer' \in [Tabs -> TimeLeft \cup {None}]
  BY DEF TypeOK, StoreOK, SetTokens, TimeLeft, Fresh, Expired

LEMMA HandleTypes ==
    ASSUME TypeOK, NEW t \in Tabs, HandleSessionExpired(t)
    PROVE  /\ user' \in [Tabs -> BOOLEAN]
           /\ leaving' \in [Tabs -> BOOLEAN]
           /\ announced' \in [Tabs -> 0..2]
  BY DEF TypeOK, ViewOK, ClientOK, HandleSessionExpired

LEMMA ExpireTypes ==
    ASSUME TypeOK, NEW t \in Tabs, ExpireSession(t)
    PROVE  /\ auth' \in BOOLEAN
           /\ expiry' \in TimeLeft \cup {None}
           /\ bearer' \in [Tabs -> TimeLeft \cup {None}]
           /\ user' \in [Tabs -> BOOLEAN]
           /\ leaving' \in [Tabs -> BOOLEAN]
           /\ timer' \in [Tabs -> BOOLEAN]
           /\ fails' \in [Tabs -> 0..(MaxFailures - 1)]
           /\ dispatched' \in [Tabs -> BOOLEAN]
           /\ announced' \in [Tabs -> 0..2]
<1>1. /\ auth' \in BOOLEAN
      /\ expiry' \in TimeLeft \cup {None}
      /\ bearer' \in [Tabs -> TimeLeft \cup {None}]
  BY ClearTypes DEF ExpireSession
<1>2. fails' \in [Tabs -> 0..(MaxFailures - 1)]
  BY SessionAssumption DEF TypeOK, ServiceOK, ExpireSession
<1>3. /\ timer' \in [Tabs -> BOOLEAN]
      /\ dispatched' \in [Tabs -> BOOLEAN]
  BY DEF TypeOK, ServiceOK, ExpireSession
<1>4. /\ user' \in [Tabs -> BOOLEAN]
      /\ leaving' \in [Tabs -> BOOLEAN]
      /\ announced' \in [Tabs -> 0..2]
  BY HandleTypes DEF TypeOK, ViewOK, ClientOK, ExpireSession
<1> QED
  BY <1>1, <1>2, <1>3, <1>4

LEMMA RejectionTypes ==
    ASSUME TypeOK, NEW t \in Tabs, NEW known \in BOOLEAN,
           MaybeHandleAuthRejection(t, known)
    PROVE  /\ auth' \in BOOLEAN
           /\ expiry' \in TimeLeft \cup {None}
           /\ bearer' \in [Tabs -> TimeLeft \cup {None}]
           /\ user' \in [Tabs -> BOOLEAN]
           /\ leaving' \in [Tabs -> BOOLEAN]
           /\ handled' \in [Tabs -> BOOLEAN]
           /\ announced' \in [Tabs -> 0..2]
<1>1. CASE UNCHANGED <<handled, auth, expiry, bearer, user, leaving, announced>>
  BY <1>1 DEF TypeOK, StoreOK, ViewOK, ClientOK
<1>2. CASE /\ handled' = [handled EXCEPT ![t] = TRUE]
           /\ ClearTokens(t)
           /\ HandleSessionExpired(t)
  BY <1>2, ClearTypes, HandleTypes DEF TypeOK, ClientOK
<1> QED
  BY <1>1, <1>2 DEF MaybeHandleAuthRejection

LEMMA RunTypes ==
    ASSUME TypeOK, NEW t \in Tabs, RunProactiveRefresh(t)
    PROVE  /\ auth' \in BOOLEAN
           /\ expiry' \in TimeLeft \cup {None}
           /\ bearer' \in [Tabs -> TimeLeft \cup {None}]
           /\ user' \in [Tabs -> BOOLEAN]
           /\ leaving' \in [Tabs -> BOOLEAN]
           /\ timer' \in [Tabs -> BOOLEAN]
           /\ exchange' \in [Tabs -> BOOLEAN]
           /\ renewing' \in [Tabs -> BOOLEAN]
           /\ fails' \in [Tabs -> 0..(MaxFailures - 1)]
           /\ dispatched' \in [Tabs -> BOOLEAN]
           /\ announced' \in [Tabs -> 0..2]
<1>1. CASE ExpireSession(t) /\ UNCHANGED <<exchange, renewing>>
  BY <1>1, ExpireTypes DEF TypeOK, ServiceOK
<1>2. CASE ~(ExpireSession(t) /\ UNCHANGED <<exchange, renewing>>)
  <2>1. /\ timer' \in [Tabs -> BOOLEAN]
        /\ exchange' \in [Tabs -> BOOLEAN]
        /\ renewing' \in [Tabs -> BOOLEAN]
    BY <1>2 DEF TypeOK, ServiceOK, RunProactiveRefresh
  <2> QED
    BY <1>2, <2>1
       DEF TypeOK, StoreOK, ViewOK, ServiceOK, ClientOK, RunProactiveRefresh, store
<1> QED
  BY <1>1, <1>2

LEMMA SettleTypes ==
    ASSUME TypeOK, NEW t \in Tabs, Settle(t)
    PROVE  /\ exchange' \in [Tabs -> BOOLEAN]
           /\ renewing' \in [Tabs -> BOOLEAN]
  BY DEF TypeOK, ServiceOK, Settle

LEMMA CallTypes ==
    ASSUME TypeOK, NEW t \in Tabs
    PROVE  /\ NoCall \in CallType
           /\ Released(t) \in [Calls -> CallType]
           /\ Replayed(t) \in [Calls -> CallType]
           /\ \A c \in Calls : bearer[t] \in TimeLeft \cup {None}
           /\ \A c \in Calls : calls[t][c] \in CallType
<1>1. NoCall \in CallType
  BY DEF NoCall, CallType, None
<1>2. \A c \in Calls : calls[t][c] \in CallType
  BY DEF TypeOK, ClientOK
<1>3. ASSUME NEW k \in CallType PROVE [k EXCEPT !.old = TRUE] \in CallType
  BY <1>3 DEF CallType
<1>4. [at |-> "replay", tok |-> Fresh, old |-> FALSE] \in CallType
  BY DEF CallType, TimeLeft, Fresh, Expired
<1> QED
  BY <1>1, <1>2, <1>3, <1>4 DEF Released, Replayed, TypeOK, StoreOK

LEMMA SetCallTypes ==
    ASSUME TypeOK, NEW t \in Tabs, NEW c \in Calls, NEW k \in CallType,
           SetCall(t, c, k)
    PROVE  calls' \in [Tabs -> [Calls -> CallType]]
  BY DEF TypeOK, ClientOK, SetCall

LEMMA AwaitTypes ==
    ASSUME TypeOK, NEW t \in Tabs, NEW c \in Calls, AwaitRefresh(t, c)
    PROVE  /\ auth' \in BOOLEAN
           /\ expiry' \in TimeLeft \cup {None}
           /\ bearer' \in [Tabs -> TimeLeft \cup {None}]
           /\ user' \in [Tabs -> BOOLEAN]
           /\ leaving' \in [Tabs -> BOOLEAN]
           /\ timer' \in [Tabs -> BOOLEAN]
           /\ exchange' \in [Tabs -> BOOLEAN]
           /\ fails' \in [Tabs -> 0..(MaxFailures - 1)]
           /\ dispatched' \in [Tabs -> BOOLEAN]
           /\ handled' \in [Tabs -> BOOLEAN]
           /\ calls' \in [Tabs -> [Calls -> CallType]]
           /\ announced' \in [Tabs -> 0..2]
<1>1. CASE exchange[t] \/ bearer[t] # None
  <2>1. [calls[t][c] EXCEPT !.at = "waiting"] \in CallType
    BY CallTypes DEF CallType
  <2>2. calls' \in [Tabs -> [Calls -> CallType]]
    BY <1>1, <2>1, SetCallTypes DEF AwaitRefresh
  <2>3. exchange' \in [Tabs -> BOOLEAN]
    BY <1>1 DEF AwaitRefresh, TypeOK, ServiceOK
  <2> QED
    BY <1>1, <2>2, <2>3
       DEF AwaitRefresh, NoTeardown, store, TypeOK, StoreOK, ViewOK, ServiceOK,
           ClientOK
<1>2. CASE ~(exchange[t] \/ bearer[t] # None)
  <2>1. ExpireSession(t) /\ SetCall(t, c, NoCall) /\ UNCHANGED exchange
    BY <1>2 DEF AwaitRefresh
  <2>2. calls' \in [Tabs -> [Calls -> CallType]]
    BY <2>1, CallTypes, SetCallTypes
  <2>3. handled' \in [Tabs -> BOOLEAN]
    BY <1>2 DEF AwaitRefresh, TypeOK, ClientOK
  <2> QED
    BY <2>1, <2>2, <2>3, ExpireTypes DEF TypeOK, ServiceOK
<1> QED
  BY <1>1, <1>2

LEMMA TickTypes ==
    ASSUME TypeOK, Tick
    PROVE  /\ expiry' \in TimeLeft \cup {None}
           /\ bearer' \in [Tabs -> TimeLeft \cup {None}]
           /\ calls' \in [Tabs -> [Calls -> CallType]]
<1>1. \A x \in TimeLeft \cup {None} : Older(x) \in TimeLeft \cup {None}
  BY DEF TimeLeft, Fresh, Expired, None, Older
<1>2. ASSUME NEW k \in CallType PROVE [k EXCEPT !.tok = Older(k.tok)] \in CallType
  BY <1>1 DEF CallType
<1> QED
  BY <1>1, <1>2 DEF TypeOK, StoreOK, ClientOK, Tick

-----------------------------------------------------------------------------
\* Every variable keeps to its type, and the counters to their bounds: the
\* service never counts MAX_CONSECUTIVE_TRANSIENT_FAILURES failures in a row
\* without having ended the session.
THEOREM Typing == Spec => []TypeOK
<1>1. Init => TypeOK
  <2> SUFFICES ASSUME Init PROVE TypeOK
    OBVIOUS
  <2>1. StoreOK
    BY DEF Init, StoreOK
  <2>2. ViewOK
    <3>1. inbox \in [Tabs -> Seq({"LOGIN", "LOGOUT"})]
      BY SMT DEF Init
    <3> QED
      BY <3>1, Zenon DEF Init, ViewOK
  <2>3. ServiceOK
    BY SessionAssumption DEF Init, ServiceOK
  <2>4. ClientOK
    BY SessionAssumption DEF Init, ClientOK, CallType, NoCall, None
  <2> QED
    BY <2>1, <2>2, <2>3, <2>4 DEF TypeOK
<1>2. TypeOK /\ [Next]_vars => TypeOK'
  <2> SUFFICES ASSUME TypeOK, [Next]_vars PROVE TypeOK'
    OBVIOUS
  <2>1. ASSUME Tick PROVE TypeOK'
    <3>1. StoreOK'
      BY <2>1, TickTypes
         DEF Tick, TypeOK, StoreOK, store, tokens, view, service, client
    <3>2. ViewOK'
      BY <2>1, TickTypes
         DEF Tick, TypeOK, ViewOK, store, tokens, view, service, client
    <3>3. ServiceOK'
      BY <2>1, TickTypes
         DEF Tick, TypeOK, ServiceOK, store, tokens, view, service, client
    <3>4. ClientOK'
      BY <2>1, TickTypes
         DEF Tick, TypeOK, ClientOK, store, tokens, view, service, client
    <3> QED
      BY <3>1, <3>2, <3>3, <3>4 DEF TypeOK
  <2>2. ASSUME NEW t \in Tabs, NEW p \in {"app", "public"}, Load(t, p) PROVE
     TypeOK'
    <3>1. StoreOK'
      BY <2>2, NewPageTypes, ClearTypes
         DEF Load, TypeOK, StoreOK, store, tokens, view, service, client
    <3>2. ViewOK'
      BY <2>2, NewPageTypes, ClearTypes
         DEF Load, TypeOK, ViewOK, store, tokens, view, service, client
    <3>3. ServiceOK'
      BY <2>2, NewPageTypes, ClearTypes
         DEF Load, TypeOK, ServiceOK, store, tokens, view, service, client
    <3>4. ClientOK'
      BY <2>2, NewPageTypes, ClearTypes
         DEF Load, TypeOK, ClientOK, store, tokens, view, service, client
    <3> QED
      BY <3>1, <3>2, <3>3, <3>4 DEF TypeOK
  <2>3. ASSUME NEW t \in Tabs, CloseTab(t) PROVE TypeOK'
    <3>1. StoreOK'
      BY <2>3, NewPageTypes
         DEF CloseTab, TypeOK, StoreOK, store, tokens, view, service, client
    <3>2. ViewOK'
      BY <2>3, NewPageTypes
         DEF CloseTab, TypeOK, ViewOK, store, tokens, view, service, client
    <3>3. ServiceOK'
      BY <2>3, NewPageTypes
         DEF CloseTab, TypeOK, ServiceOK, store, tokens, view, service, client
    <3>4. ClientOK'
      BY <2>3, NewPageTypes
         DEF CloseTab, TypeOK, ClientOK, store, tokens, view, service, client
    <3> QED
      BY <3>1, <3>2, <3>3, <3>4 DEF TypeOK
  <2>4. ASSUME NEW t \in Tabs, BootSucceeds(t) PROVE TypeOK'
    <3>1. StoreOK'
      BY <2>4
         DEF BootSucceeds, TypeOK, StoreOK, store, tokens, view, service,
            client
    <3>2. ViewOK'
      BY <2>4
         DEF BootSucceeds, TypeOK, ViewOK, store, tokens, view, service,
            client
    <3>3. ServiceOK'
      BY <2>4
         DEF BootSucceeds, TypeOK, ServiceOK, store, tokens, view, service,
            client
    <3>4. ClientOK'
      BY <2>4
         DEF BootSucceeds, TypeOK, ClientOK, store, tokens, view, service,
            client
    <3> QED
      BY <3>1, <3>2, <3>3, <3>4 DEF TypeOK
  <2>5. ASSUME NEW t \in Tabs, BootFails(t) PROVE TypeOK'
    <3>1. StoreOK'
      BY <2>5, ClearTypes
         DEF BootFails, TypeOK, StoreOK, store, tokens, view, service, client
    <3>2. ViewOK'
      BY <2>5, ClearTypes
         DEF BootFails, TypeOK, ViewOK, store, tokens, view, service, client
    <3>3. ServiceOK'
      BY <2>5, ClearTypes
         DEF BootFails, TypeOK, ServiceOK, store, tokens, view, service,
            client
    <3>4. ClientOK'
      BY <2>5, ClearTypes
         DEF BootFails, TypeOK, ClientOK, store, tokens, view, service, client
    <3> QED
      BY <3>1, <3>2, <3>3, <3>4 DEF TypeOK
  <2>6. ASSUME NEW t \in Tabs, Gate(t) PROVE TypeOK'
    <3>1. StoreOK'
      BY <2>6
         DEF Gate, TypeOK, StoreOK, store, tokens, view, service, client
    <3>2. ViewOK'
      BY <2>6
         DEF Gate, TypeOK, ViewOK, store, tokens, view, service, client
    <3>3. ServiceOK'
      BY <2>6
         DEF Gate, TypeOK, ServiceOK, store, tokens, view, service, client
    <3>4. ClientOK'
      BY <2>6
         DEF Gate, TypeOK, ClientOK, store, tokens, view, service, client
    <3> QED
      BY <3>1, <3>2, <3>3, <3>4 DEF TypeOK
  <2>7. ASSUME NEW t \in Tabs, CompleteExternalLogin(t) PROVE TypeOK'
    <3>1. StoreOK'
      BY <2>7, NewPageTypes, SetTypes
         DEF CompleteExternalLogin, Send, TypeOK, StoreOK, store, tokens,
            view, service, client
    <3>2. ViewOK'
      BY <2>7, NewPageTypes, SetTypes
         DEF CompleteExternalLogin, Send, TypeOK, ViewOK, store, tokens, view,
            service, client
    <3>3. ServiceOK'
      BY <2>7, NewPageTypes, SetTypes
         DEF CompleteExternalLogin, Send, TypeOK, ServiceOK, store, tokens,
            view, service, client
    <3>4. ClientOK'
      BY <2>7, NewPageTypes, SetTypes
         DEF CompleteExternalLogin, Send, TypeOK, ClientOK, store, tokens,
            view, service, client
    <3> QED
      BY <3>1, <3>2, <3>3, <3>4 DEF TypeOK
  <2>8. ASSUME NEW t \in Tabs, Logout(t) PROVE TypeOK'
    <3>1. StoreOK'
      BY <2>8, ClearTypes
         DEF Logout, Send, TypeOK, StoreOK, store, tokens, view, service,
            client
    <3>2. ViewOK'
      BY <2>8, ClearTypes
         DEF Logout, Send, TypeOK, ViewOK, store, tokens, view, service,
            client
    <3>3. ServiceOK'
      BY <2>8, ClearTypes
         DEF Logout, Send, TypeOK, ServiceOK, store, tokens, view, service,
            client
    <3>4. ClientOK'
      BY <2>8, ClearTypes
         DEF Logout, Send, TypeOK, ClientOK, store, tokens, view, service,
            client
    <3> QED
      BY <3>1, <3>2, <3>3, <3>4 DEF TypeOK
  <2>9. ASSUME NEW t \in Tabs, ReceiveLogin(t) PROVE TypeOK'
    <3>1. StoreOK'
      BY <2>9
         DEF ReceiveLogin, TypeOK, StoreOK, store, tokens, view, service,
            client
    <3>2. ViewOK'
      BY <2>9
         DEF ReceiveLogin, TypeOK, ViewOK, store, tokens, view, service,
            client
    <3>3. ServiceOK'
      BY <2>9
         DEF ReceiveLogin, TypeOK, ServiceOK, store, tokens, view, service,
            client
    <3>4. ClientOK'
      BY <2>9
         DEF ReceiveLogin, TypeOK, ClientOK, store, tokens, view, service,
            client
    <3> QED
      BY <3>1, <3>2, <3>3, <3>4 DEF TypeOK
  <2>10. ASSUME NEW t \in Tabs, ReceiveLogout(t) PROVE TypeOK'
    <3>1. StoreOK'
      BY <2>10, ClearTypes
         DEF ReceiveLogout, TypeOK, StoreOK, store, tokens, view, service,
            client
    <3>2. ViewOK'
      BY <2>10, ClearTypes
         DEF ReceiveLogout, TypeOK, ViewOK, store, tokens, view, service,
            client
    <3>3. ServiceOK'
      BY <2>10, ClearTypes
         DEF ReceiveLogout, TypeOK, ServiceOK, store, tokens, view, service,
            client
    <3>4. ClientOK'
      BY <2>10, ClearTypes
         DEF ReceiveLogout, TypeOK, ClientOK, store, tokens, view, service,
            client
    <3> QED
      BY <3>1, <3>2, <3>3, <3>4 DEF TypeOK
  <2>11. ASSUME NEW t \in Tabs, Start(t) PROVE TypeOK'
    <3>1. StoreOK'
      BY <2>11, SessionAssumption
         DEF Start, TypeOK, StoreOK, store, tokens, view, service, client
    <3>2. ViewOK'
      BY <2>11, SessionAssumption
         DEF Start, TypeOK, ViewOK, store, tokens, view, service, client
    <3>3. ServiceOK'
      <4>1. fails' \in [Tabs -> 0..(MaxFailures - 1)]
        BY <2>11, SessionAssumption
           DEF Start, TypeOK, ServiceOK
      <4>2. /\ started' \in [Tabs -> BOOLEAN]
           /\ timer' \in [Tabs -> BOOLEAN]
           /\ dispatched' \in [Tabs -> BOOLEAN]
        BY <2>11
           DEF Start, TypeOK, ServiceOK
      <4> QED
        BY <2>11, <4>1, <4>2
           DEF Start, TypeOK, ServiceOK
    <3>4. ClientOK'
      BY <2>11, SessionAssumption
         DEF Start, TypeOK, ClientOK, store, tokens, view, service, client
    <3> QED
      BY <3>1, <3>2, <3>3, <3>4 DEF TypeOK
  <2>12. ASSUME NEW t \in Tabs, Stop(t) PROVE TypeOK'
    <3>1. StoreOK'
      BY <2>12
         DEF Stop, TypeOK, StoreOK, store, tokens, view, service, client
    <3>2. ViewOK'
      BY <2>12
         DEF Stop, TypeOK, ViewOK, store, tokens, view, service, client
    <3>3. ServiceOK'
      BY <2>12
         DEF Stop, TypeOK, ServiceOK, store, tokens, view, service, client
    <3>4. ClientOK'
      BY <2>12
         DEF Stop, TypeOK, ClientOK, store, tokens, view, service, client
    <3> QED
      BY <3>1, <3>2, <3>3, <3>4 DEF TypeOK
  <2>13. ASSUME NEW t \in Tabs, TimerFires(t) PROVE TypeOK'
    <3>1. StoreOK'
      BY <2>13, RunTypes
         DEF TimerFires, TypeOK, StoreOK, store, tokens, view, service, client
    <3>2. ViewOK'
      BY <2>13, RunTypes
         DEF TimerFires, TypeOK, ViewOK, store, tokens, view, service, client
    <3>3. ServiceOK'
      BY <2>13, RunTypes
         DEF TimerFires, TypeOK, ServiceOK, store, tokens, view, service,
            client
    <3>4. ClientOK'
      BY <2>13, RunTypes
         DEF TimerFires, TypeOK, ClientOK, store, tokens, view, service,
            client
    <3> QED
      BY <3>1, <3>2, <3>3, <3>4 DEF TypeOK
  <2>14. ASSUME NEW t \in Tabs, Show(t) PROVE TypeOK'
    <3>1. StoreOK'
      BY <2>14, RunTypes
         DEF Show, TypeOK, StoreOK, store, tokens, view, service, client
    <3>2. ViewOK'
      BY <2>14, RunTypes
         DEF Show, TypeOK, ViewOK, store, tokens, view, service, client
    <3>3. ServiceOK'
      BY <2>14, RunTypes
         DEF Show, TypeOK, ServiceOK, store, tokens, view, service, client
    <3>4. ClientOK'
      BY <2>14, RunTypes
         DEF Show, TypeOK, ClientOK, store, tokens, view, service, client
    <3> QED
      BY <3>1, <3>2, <3>3, <3>4 DEF TypeOK
  <2>15. ASSUME NEW t \in Tabs, Hide(t) PROVE TypeOK'
    <3>1. StoreOK'
      BY <2>15
         DEF Hide, TypeOK, StoreOK, store, tokens, view, service, client
    <3>2. ViewOK'
      BY <2>15
         DEF Hide, TypeOK, ViewOK, store, tokens, view, service, client
    <3>3. ServiceOK'
      BY <2>15
         DEF Hide, TypeOK, ServiceOK, store, tokens, view, service, client
    <3>4. ClientOK'
      BY <2>15
         DEF Hide, TypeOK, ClientOK, store, tokens, view, service, client
    <3> QED
      BY <3>1, <3>2, <3>3, <3>4 DEF TypeOK
  <2>16. ASSUME NEW t \in Tabs, Refreshed(t) PROVE TypeOK'
    <3>1. StoreOK'
      BY <2>16, SettleTypes, SetTypes, CallTypes, SessionAssumption
         DEF Refreshed, TypeOK, StoreOK, store, tokens, view, service, client
    <3>2. ViewOK'
      BY <2>16, SettleTypes, SetTypes, CallTypes, SessionAssumption
         DEF Refreshed, TypeOK, ViewOK, store, tokens, view, service, client
    <3>3. ServiceOK'
      <4>1. fails' \in [Tabs -> 0..(MaxFailures - 1)]
        BY <2>16, SessionAssumption
           DEF Refreshed, TypeOK, ServiceOK
      <4>2. /\ timer' \in [Tabs -> BOOLEAN]
           /\ dispatched' \in [Tabs -> BOOLEAN]
        BY <2>16
           DEF Refreshed, TypeOK, ServiceOK
      <4> QED
        BY <2>16, <4>1, <4>2, SettleTypes, SetTypes, CallTypes
           DEF Refreshed, TypeOK, ServiceOK
    <3>4. ClientOK'
      BY <2>16, SettleTypes, SetTypes, CallTypes, SessionAssumption
         DEF Refreshed, TypeOK, ClientOK, store, tokens, view, service, client
    <3> QED
      BY <3>1, <3>2, <3>3, <3>4 DEF TypeOK
  <2>17. ASSUME NEW t \in Tabs, Refused(t) PROVE TypeOK'
    <3>1. StoreOK'
      BY <2>17, SettleTypes, ExpireTypes, CallTypes
         DEF Refused, SettleExpired, BootGivesUp, TypeOK, StoreOK, store,
            tokens, view, service, client
    <3>2. ViewOK'
      BY <2>17, SettleTypes, ExpireTypes, CallTypes
         DEF Refused, SettleExpired, BootGivesUp, TypeOK, ViewOK, store,
            tokens, view, service, client
    <3>3. ServiceOK'
      BY <2>17, SettleTypes, ExpireTypes, CallTypes
         DEF Refused, SettleExpired, BootGivesUp, TypeOK, ServiceOK, store,
            tokens, view, service, client
    <3>4. ClientOK'
      BY <2>17, SettleTypes, ExpireTypes, CallTypes
         DEF Refused, SettleExpired, BootGivesUp, TypeOK, ClientOK, store,
            tokens, view, service, client
    <3> QED
      BY <3>1, <3>2, <3>3, <3>4 DEF TypeOK
  <2>18. ASSUME NEW t \in Tabs, FailsTransiently(t) PROVE TypeOK'
    <3>1. StoreOK'
      BY <2>18, SettleTypes, ClearTypes, CallTypes, SessionAssumption
         DEF FailsTransiently, BootGivesUp, TypeOK, StoreOK, store, tokens,
            view, service, client
    <3>2. ViewOK'
      BY <2>18, SettleTypes, ClearTypes, CallTypes, SessionAssumption
         DEF FailsTransiently, BootGivesUp, TypeOK, ViewOK, store, tokens,
            view, service, client
    <3>3. ServiceOK'
      <4>1. fails' \in [Tabs -> 0..(MaxFailures - 1)]
        BY <2>18, SessionAssumption
           DEF FailsTransiently, TypeOK, ServiceOK
      <4>2. timer' \in [Tabs -> BOOLEAN]
        BY <2>18
           DEF FailsTransiently, MayArm, StoreOK, TypeOK, ServiceOK
      <4> QED
        BY <2>18, <4>1, <4>2, SettleTypes, ClearTypes, CallTypes
           DEF FailsTransiently, BootGivesUp, TypeOK, ServiceOK
    <3>4. ClientOK'
      BY <2>18, SettleTypes, ClearTypes, CallTypes, SessionAssumption
         DEF FailsTransiently, BootGivesUp, TypeOK, ClientOK, store, tokens,
            view, service, client
    <3> QED
      BY <3>1, <3>2, <3>3, <3>4 DEF TypeOK
  <2>19. ASSUME NEW t \in Tabs, GivesUp(t) PROVE TypeOK'
    <3>1. StoreOK'
      BY <2>19, SettleTypes, ExpireTypes, CallTypes
         DEF GivesUp, SettleExpired, BootGivesUp, TypeOK, StoreOK, store,
            tokens, view, service, client
    <3>2. ViewOK'
      BY <2>19, SettleTypes, ExpireTypes, CallTypes
         DEF GivesUp, SettleExpired, BootGivesUp, TypeOK, ViewOK, store,
            tokens, view, service, client
    <3>3. ServiceOK'
      BY <2>19, SettleTypes, ExpireTypes, CallTypes
         DEF GivesUp, SettleExpired, BootGivesUp, TypeOK, ServiceOK, store,
            tokens, view, service, client
    <3>4. ClientOK'
      BY <2>19, SettleTypes, ExpireTypes, CallTypes
         DEF GivesUp, SettleExpired, BootGivesUp, TypeOK, ClientOK, store,
            tokens, view, service, client
    <3> QED
      BY <3>1, <3>2, <3>3, <3>4 DEF TypeOK
  <2>20. ASSUME NEW t \in Tabs, Revoke(t) PROVE TypeOK'
    <3>1. StoreOK'
      BY <2>20
         DEF Revoke, TypeOK, StoreOK, store, tokens, view, service, client
    <3>2. ViewOK'
      BY <2>20
         DEF Revoke, TypeOK, ViewOK, store, tokens, view, service, client
    <3>3. ServiceOK'
      BY <2>20
         DEF Revoke, TypeOK, ServiceOK, store, tokens, view, service, client
    <3>4. ClientOK'
      BY <2>20
         DEF Revoke, TypeOK, ClientOK, store, tokens, view, service, client
    <3> QED
      BY <3>1, <3>2, <3>3, <3>4 DEF TypeOK
  <2>21. ASSUME NEW t \in Tabs, NEW c \in Calls, Request(t, c) PROVE TypeOK'
    <3>1. StoreOK'
      BY <2>21, CallTypes, SetCallTypes
         DEF Request, TypeOK, StoreOK, store, tokens, view, service, client
    <3>2. ViewOK'
      BY <2>21, CallTypes, SetCallTypes
         DEF Request, TypeOK, ViewOK, store, tokens, view, service, client
    <3>3. ServiceOK'
      BY <2>21, CallTypes, SetCallTypes
         DEF Request, TypeOK, ServiceOK, store, tokens, view, service, client
    <3>4. ClientOK'
      <4>1. [at |-> "sent", tok |-> bearer[t], old |-> FALSE] \in CallType
        BY <2>21, CallTypes
           DEF CallType, TypeOK, ClientOK
      <4> QED
        BY <2>21, <4>1, CallTypes, SetCallTypes
           DEF Request, TypeOK, ClientOK
    <3> QED
      BY <3>1, <3>2, <3>3, <3>4 DEF TypeOK
  <2>22. ASSUME NEW t \in Tabs, NEW c \in Calls, Answered(t, c) PROVE TypeOK'
    <3>1. StoreOK'
      BY <2>22, CallTypes, SetCallTypes, SessionAssumption
         DEF Answered, TypeOK, StoreOK, store, tokens, view, service, client
    <3>2. ViewOK'
      BY <2>22, CallTypes, SetCallTypes, SessionAssumption
         DEF Answered, TypeOK, ViewOK, store, tokens, view, service, client
    <3>3. ServiceOK'
      BY <2>22, CallTypes, SetCallTypes, SessionAssumption
         DEF Answered, TypeOK, ServiceOK, store, tokens, view, service, client
    <3>4. ClientOK'
      BY <2>22, CallTypes, SetCallTypes, SessionAssumption
         DEF Answered, TypeOK, ClientOK, store, tokens, view, service, client
    <3> QED
      BY <3>1, <3>2, <3>3, <3>4 DEF TypeOK
  <2>23. ASSUME NEW t \in Tabs, NEW c \in Calls, HttpUnauthorized(t, c) PROVE
     TypeOK'
    <3>1. StoreOK'
      BY <2>23, AwaitTypes, RejectionTypes, CallTypes, SetCallTypes
         DEF HttpUnauthorized, CallFrame, NoTeardown, TypeOK, StoreOK, store,
            tokens, view, service, client
    <3>2. ViewOK'
      BY <2>23, AwaitTypes, RejectionTypes, CallTypes, SetCallTypes
         DEF HttpUnauthorized, CallFrame, NoTeardown, TypeOK, ViewOK, store,
            tokens, view, service, client
    <3>3. ServiceOK'
      BY <2>23, AwaitTypes, RejectionTypes, CallTypes, SetCallTypes
         DEF HttpUnauthorized, CallFrame, NoTeardown, TypeOK, ServiceOK,
            store, tokens, view, service, client
    <3>4. ClientOK'
      BY <2>23, AwaitTypes, RejectionTypes, CallTypes, SetCallTypes
         DEF HttpUnauthorized, CallFrame, NoTeardown, TypeOK, ClientOK, store,
            tokens, view, service, client
    <3> QED
      BY <3>1, <3>2, <3>3, <3>4 DEF TypeOK
  <2>24. ASSUME NEW t \in Tabs, NEW c \in Calls, HttpForbidden(t, c) PROVE
     TypeOK'
    <3>1. StoreOK'
      BY <2>24, RejectionTypes, CallTypes, SetCallTypes
         DEF HttpForbidden, CallFrame, TypeOK, StoreOK, store, tokens, view,
            service, client
    <3>2. ViewOK'
      BY <2>24, RejectionTypes, CallTypes, SetCallTypes
         DEF HttpForbidden, CallFrame, TypeOK, ViewOK, store, tokens, view,
            service, client
    <3>3. ServiceOK'
      BY <2>24, RejectionTypes, CallTypes, SetCallTypes
         DEF HttpForbidden, CallFrame, TypeOK, ServiceOK, store, tokens, view,
            service, client
    <3>4. ClientOK'
      BY <2>24, RejectionTypes, CallTypes, SetCallTypes
         DEF HttpForbidden, CallFrame, TypeOK, ClientOK, store, tokens, view,
            service, client
    <3> QED
      BY <3>1, <3>2, <3>3, <3>4 DEF TypeOK
  <2>25. ASSUME NEW t \in Tabs, NEW c \in Calls, ReplayRejected(t, c) PROVE
     TypeOK'
    <3>1. StoreOK'
      BY <2>25, RejectionTypes, CallTypes, SetCallTypes, SessionAssumption
         DEF ReplayRejected, CallFrame, NoTeardown, TypeOK, StoreOK, store,
            tokens, view, service, client
    <3>2. ViewOK'
      BY <2>25, RejectionTypes, CallTypes, SetCallTypes, SessionAssumption
         DEF ReplayRejected, CallFrame, NoTeardown, TypeOK, ViewOK, store,
            tokens, view, service, client
    <3>3. ServiceOK'
      BY <2>25, RejectionTypes, CallTypes, SetCallTypes, SessionAssumption
         DEF ReplayRejected, CallFrame, NoTeardown, TypeOK, ServiceOK, store,
            tokens, view, service, client
    <3>4. ClientOK'
      <4>1. rejected' \in [Tabs -> 0..MaxRejected]
        BY <2>25, SessionAssumption
           DEF ReplayRejected, TypeOK, ClientOK
      <4>2. calls' \in [Tabs -> [Calls -> CallType]]
        BY <2>25, CallTypes, SetCallTypes
           DEF ReplayRejected, TypeOK, ClientOK
      <4>3. /\ handled' \in [Tabs -> BOOLEAN]
           /\ announced' \in [Tabs -> 0..2]
        BY <2>25, RejectionTypes
           DEF ReplayRejected, NoTeardown, TypeOK, ClientOK
      <4> QED
        BY <2>25, <4>1, <4>2, <4>3, RejectionTypes, CallTypes, SetCallTypes
           DEF ReplayRejected, CallFrame, NoTeardown, TypeOK, ClientOK
    <3> QED
      BY <3>1, <3>2, <3>3, <3>4 DEF TypeOK
  <2>26. ASSUME NEW t \in Tabs, NEW c \in Calls, ApiUnauthorized(t, c) PROVE
     TypeOK'
    <3>1. StoreOK'
      BY <2>26, AwaitTypes
         DEF ApiUnauthorized, CallFrame, TypeOK, StoreOK, store, tokens, view,
            service, client
    <3>2. ViewOK'
      BY <2>26, AwaitTypes
         DEF ApiUnauthorized, CallFrame, TypeOK, ViewOK, store, tokens, view,
            service, client
    <3>3. ServiceOK'
      BY <2>26, AwaitTypes
         DEF ApiUnauthorized, CallFrame, TypeOK, ServiceOK, store, tokens,
            view, service, client
    <3>4. ClientOK'
      BY <2>26, AwaitTypes
         DEF ApiUnauthorized, CallFrame, TypeOK, ClientOK, store, tokens,
            view, service, client
    <3> QED
      BY <3>1, <3>2, <3>3, <3>4 DEF TypeOK
  <2>27. ASSUME NEW t \in Tabs, NEW c \in Calls, ApiRejected(t, c) PROVE
     TypeOK'
    <3>1. StoreOK'
      BY <2>27, CallTypes, SetCallTypes
         DEF ApiRejected, TypeOK, StoreOK, store, tokens, view, service,
            client
    <3>2. ViewOK'
      BY <2>27, CallTypes, SetCallTypes
         DEF ApiRejected, TypeOK, ViewOK, store, tokens, view, service, client
    <3>3. ServiceOK'
      BY <2>27, CallTypes, SetCallTypes
         DEF ApiRejected, TypeOK, ServiceOK, store, tokens, view, service,
            client
    <3>4. ClientOK'
      BY <2>27, CallTypes, SetCallTypes
         DEF ApiRejected, TypeOK, ClientOK, store, tokens, view, service,
            client
    <3> QED
      BY <3>1, <3>2, <3>3, <3>4 DEF TypeOK
  <2>28. CASE UNCHANGED vars
    BY <2>28 DEF vars, TypeOK, StoreOK, ViewOK, ServiceOK, ClientOK
  <2> QED
    BY <2>1, <2>2, <2>3, <2>4, <2>5, <2>6, <2>7, <2>8, <2>9, <2>10, <2>11,
       <2>12, <2>13, <2>14, <2>15, <2>16, <2>17, <2>18, <2>19, <2>20, <2>21,
       <2>22, <2>23, <2>24, <2>25, <2>26, <2>27, <2>28
       DEF Next, SettleExchange, Reply
<1> QED
  BY <1>1, <1>2, PTL DEF Spec

-----------------------------------------------------------------------------
\* Whatever settles, fires or resumes, in whatever order: the proactive timer
\* is armed only in a visible tab whose proactive path has been started.
THEOREM TimerLegal == Spec => []TimerIsLegal
<1>1. Init => TimerIsLegal
  BY DEF Init, TimerIsLegal
<1>2. TypeOK /\ TimerIsLegal /\ [Next]_vars => TimerIsLegal'
  <2> SUFFICES ASSUME TypeOK, TimerIsLegal, [Next]_vars,
                      NEW u \in Tabs, timer'[u]
               PROVE  started'[u] /\ ~hidden'[u]
    BY DEF TimerIsLegal
  <2> USE DEF TypeOK, ViewOK, ServiceOK, TimerIsLegal
  <2>1. ASSUME Tick PROVE started'[u] /\ ~hidden'[u]
    BY <2>1
       DEF Tick, view, service
  <2>2. ASSUME NEW t \in Tabs, NEW p \in {"app", "public"}, Load(t, p) PROVE
     started'[u] /\ ~hidden'[u]
    BY <2>2
       DEF Load, NewPage, view, service
  <2>3. ASSUME NEW t \in Tabs, CloseTab(t) PROVE started'[u] /\ ~hidden'[u]
    BY <2>3
       DEF CloseTab, NewPage, view, service
  <2>4. ASSUME NEW t \in Tabs, BootSucceeds(t) PROVE started'[u] /\
     ~hidden'[u]
    BY <2>4
       DEF BootSucceeds, view, service
  <2>5. ASSUME NEW t \in Tabs, BootFails(t) PROVE started'[u] /\ ~hidden'[u]
    BY <2>5
       DEF BootFails, view, service
  <2>6. ASSUME NEW t \in Tabs, Gate(t) PROVE started'[u] /\ ~hidden'[u]
    BY <2>6
       DEF Gate, view, service
  <2>7. ASSUME NEW t \in Tabs, CompleteExternalLogin(t) PROVE started'[u] /\
     ~hidden'[u]
    BY <2>7
       DEF CompleteExternalLogin, NewPage, view, service
  <2>8. ASSUME NEW t \in Tabs, Logout(t) PROVE started'[u] /\ ~hidden'[u]
    BY <2>8
       DEF Logout, view, service
  <2>9. ASSUME NEW t \in Tabs, ReceiveLogin(t) PROVE started'[u] /\
     ~hidden'[u]
    BY <2>9
       DEF ReceiveLogin, view, service
  <2>10. ASSUME NEW t \in Tabs, ReceiveLogout(t) PROVE started'[u] /\
     ~hidden'[u]
    BY <2>10
       DEF ReceiveLogout, view, service
  <2>11. ASSUME NEW t \in Tabs, Start(t) PROVE started'[u] /\ ~hidden'[u]
    BY <2>11
       DEF Start, view, service
  <2>12. ASSUME NEW t \in Tabs, Stop(t) PROVE started'[u] /\ ~hidden'[u]
    BY <2>12
       DEF Stop, view, service
  <2>13. ASSUME NEW t \in Tabs, TimerFires(t) PROVE started'[u] /\ ~hidden'[u]
    BY <2>13
       DEF TimerFires, RunProactiveRefresh, MayArm, ExpireSession, view,
          service
  <2>14. ASSUME NEW t \in Tabs, Show(t) PROVE started'[u] /\ ~hidden'[u]
    BY <2>14
       DEF Show, RunProactiveRefresh, MayArm, ExpireSession, view, service
  <2>15. ASSUME NEW t \in Tabs, Hide(t) PROVE started'[u] /\ ~hidden'[u]
    BY <2>15
       DEF Hide, view, service
  <2>16. ASSUME NEW t \in Tabs, Refreshed(t) PROVE started'[u] /\ ~hidden'[u]
    BY <2>16
       DEF Refreshed, view, service
  <2>17. ASSUME NEW t \in Tabs, Refused(t) PROVE started'[u] /\ ~hidden'[u]
    BY <2>17
       DEF Refused, SettleExpired, ExpireSession, view, service
  <2>18. ASSUME NEW t \in Tabs, FailsTransiently(t) PROVE started'[u] /\
     ~hidden'[u]
    BY <2>18
       DEF FailsTransiently, MayArm, view, service
  <2>19. ASSUME NEW t \in Tabs, GivesUp(t) PROVE started'[u] /\ ~hidden'[u]
    BY <2>19
       DEF GivesUp, SettleExpired, ExpireSession, view, service
  <2>20. ASSUME NEW t \in Tabs, Revoke(t) PROVE started'[u] /\ ~hidden'[u]
    BY <2>20
       DEF Revoke, view, service
  <2>21. ASSUME NEW t \in Tabs, NEW c \in Calls, Request(t, c) PROVE
     started'[u] /\ ~hidden'[u]
    BY <2>21
       DEF Request, view, service
  <2>22. ASSUME NEW t \in Tabs, NEW c \in Calls, Answered(t, c) PROVE
     started'[u] /\ ~hidden'[u]
    BY <2>22
       DEF Answered, view, service
  <2>23. ASSUME NEW t \in Tabs, NEW c \in Calls, HttpUnauthorized(t, c) PROVE
     started'[u] /\ ~hidden'[u]
    BY <2>23
       DEF HttpUnauthorized, AwaitRefresh, ExpireSession, CallFrame, view,
          service
  <2>24. ASSUME NEW t \in Tabs, NEW c \in Calls, HttpForbidden(t, c) PROVE
     started'[u] /\ ~hidden'[u]
    BY <2>24
       DEF HttpForbidden, CallFrame, view, service
  <2>25. ASSUME NEW t \in Tabs, NEW c \in Calls, ReplayRejected(t, c) PROVE
     started'[u] /\ ~hidden'[u]
    BY <2>25
       DEF ReplayRejected, CallFrame, view, service
  <2>26. ASSUME NEW t \in Tabs, NEW c \in Calls, ApiUnauthorized(t, c) PROVE
     started'[u] /\ ~hidden'[u]
    BY <2>26
       DEF ApiUnauthorized, AwaitRefresh, ExpireSession, CallFrame, view,
          service
  <2>27. ASSUME NEW t \in Tabs, NEW c \in Calls, ApiRejected(t, c) PROVE
     started'[u] /\ ~hidden'[u]
    BY <2>27
       DEF ApiRejected, view, service
  <2>28. CASE UNCHANGED vars
    BY <2>28 DEF vars
  <2> QED
    BY <2>1, <2>2, <2>3, <2>4, <2>5, <2>6, <2>7, <2>8, <2>9, <2>10, <2>11,
       <2>12, <2>13, <2>14, <2>15, <2>16, <2>17, <2>18, <2>19, <2>20, <2>21,
       <2>22, <2>23, <2>24, <2>25, <2>26, <2>27, <2>28
       DEF Next, SettleExchange, Reply
<1> QED
  BY <1>1, <1>2, Typing, PTL DEF Spec

-----------------------------------------------------------------------------
\* An exchange is in flight for a fresh bearer only if a client that refreshes on
\* every 401 waits for it, and the shared expiry never lies before that of a
\* bearer some tab holds.
KeepInv ==
    /\ \A t \in Tabs : exchange[t] => bearer[t] # Fresh \/ ApiWaits(t)
    /\ \A t \in Tabs : expiry = None \/ bearer[t] <= expiry

LEMMA KeepStep ==
    ASSUME TypeOK, KeepInv, [Next]_vars
    PROVE  KeepInv'
<1> USE DEF TypeOK, StoreOK, ServiceOK, KeepInv, TimeLeft, Fresh, Expired, None,
            RenewalLead, LastMinute, Lapsed
<1>a. calls' = calls => \A u \in Tabs : ApiWaits(u)' = ApiWaits(u)
  BY DEF ApiWaits, Waiting
<1>b. \A t, u \in Tabs : \A x :
        calls' = [calls EXCEPT ![t] = x] /\ u # t => ApiWaits(u)' = ApiWaits(u)
  BY DEF ApiWaits, Waiting, ClientOK
<1>c. ASSUME NEW t \in Tabs, NEW c \in Calls, NEW k, SetCall(t, c, k),
             calls[t][c].at # "waiting", NEW u \in Tabs, ApiWaits(u)
      PROVE  ApiWaits(u)'
  <2>1. PICK d \in ApiCalls : calls[u][d].at = "waiting"
    BY <1>c DEF ApiWaits, Waiting
  <2>2. /\ calls \in [Tabs -> [Calls -> CallType]] /\ d \in Calls
        /\ calls' = [calls EXCEPT ![t][c] = k]
    BY <1>c DEF ClientOK, SetCall, Calls
  <2>3. calls'[u][d] = calls[u][d]
    BY <1>c, <2>1, <2>2
  <2> QED
    BY <2>1, <2>3 DEF ApiWaits, Waiting
<1>1. ASSUME Tick PROVE KeepInv'
  <2>1. /\ expiry' = Older(expiry)
        /\ \A t \in Tabs : bearer'[t] = Older(bearer[t]) /\ exchange'[t] = exchange[t]
    BY <1>1 DEF Tick, service
  <2>2. \A t \in Tabs : bearer[t] \in Int /\ bearer[t] >= None
    OBVIOUS
  <2> QED
    BY <2>1, <2>2 DEF Older
<1>2. ASSUME NEW t \in Tabs, NEW p \in {"app", "public"}, Load(t, p) PROVE
         KeepInv'
  <2>0. \A u \in Tabs \ {t} : ApiWaits(u)' = ApiWaits(u)
    BY <1>2, <1>b DEF Load, NewPage
  <2>1. CASE StaleSession(t)
    <3>1. expiry' = None
      BY <1>2, <2>1 DEF Load, ClearTokens
    <3>2. boot'[t] # "refresh"
      BY <1>2, <2>1 DEF Load, ViewOK
    <3>3. exchange' = [exchange EXCEPT ![t] = FALSE]
      BY <1>2, <3>2 DEF Load
    <3>4. bearer' = [bearer EXCEPT ![t] = None]
      BY <1>2, <2>1 DEF Load, ClearTokens
    <3> QED
      BY <2>0, <3>1, <3>3, <3>4
  <2>2. CASE ~StaleSession(t)
    <3>1. expiry' = expiry /\ bearer' = bearer
      BY <1>2, <2>2 DEF Load
    <3>2. boot'[t] = "refresh" => bearer[t] # Fresh
      BY <1>2, <2>2
         DEF Load, ViewOK, StaleSession, IsAccessTokenExpired, IsRefreshDue,
             TimeUntil
    <3>3. \A u \in Tabs : exchange'[u] => \/ u # t /\ exchange[u]
                                          \/ u = t /\ boot'[t] = "refresh"
      BY <1>2 DEF Load
    <3> QED
      BY <2>0, <3>1, <3>2, <3>3
  <2> QED
    BY <2>1, <2>2
<1>3. ASSUME NEW t \in Tabs, CloseTab(t) PROVE KeepInv'
  <2>1. \A u \in Tabs \ {t} : ApiWaits(u)' = ApiWaits(u)
    BY <1>3, <1>b DEF CloseTab, NewPage
  <2> QED
    BY <1>3, <2>1 DEF CloseTab, store, tokens, view, service, client
<1>4. ASSUME NEW t \in Tabs, BootSucceeds(t) PROVE KeepInv'
  BY <1>4, <1>a
     DEF BootSucceeds, store, tokens, view, service, client
<1>5. ASSUME NEW t \in Tabs, BootFails(t) PROVE KeepInv'
  BY <1>5, <1>a
     DEF BootFails, ClearTokens, store, tokens, view, service, client
<1>6. ASSUME NEW t \in Tabs, Gate(t) PROVE KeepInv'
  BY <1>6, <1>a
     DEF Gate, store, tokens, view, service, client
<1>7. ASSUME NEW t \in Tabs, CompleteExternalLogin(t) PROVE KeepInv'
  <2>1. \A u \in Tabs \ {t} : ApiWaits(u)' = ApiWaits(u)
    BY <1>7, <1>b DEF CompleteExternalLogin, NewPage
  <2> QED
    BY <1>7, <2>1 DEF CompleteExternalLogin, SetTokens, store, tokens, view, service, client
<1>8. ASSUME NEW t \in Tabs, Logout(t) PROVE KeepInv'
  BY <1>8, <1>a
     DEF Logout, ClearTokens, store, tokens, view, service, client
<1>9. ASSUME NEW t \in Tabs, ReceiveLogin(t) PROVE KeepInv'
  BY <1>9, <1>a
     DEF ReceiveLogin, store, tokens, view, service, client
<1>10. ASSUME NEW t \in Tabs, ReceiveLogout(t) PROVE KeepInv'
  BY <1>10, <1>a
     DEF ReceiveLogout, ClearTokens, store, tokens, view, service, client
<1>11. ASSUME NEW t \in Tabs, Start(t) PROVE KeepInv'
  BY <1>11, <1>a
     DEF Start, store, tokens, view, service, client
<1>12. ASSUME NEW t \in Tabs, Stop(t) PROVE KeepInv'
  BY <1>12, <1>a
     DEF Stop, store, tokens, view, service, client
<1>13. ASSUME NEW t \in Tabs, TimerFires(t) PROVE KeepInv'
  BY <1>13, <1>a
     DEF TimerFires, RunProactiveRefresh, ExpireSession, ClearTokens,
        IsRefreshDue, TimeUntil, store, tokens, view, service, client
<1>14. ASSUME NEW t \in Tabs, Show(t) PROVE KeepInv'
  BY <1>14, <1>a
     DEF Show, RunProactiveRefresh, ExpireSession, ClearTokens, IsRefreshDue,
        TimeUntil, store, tokens, view, service, client
<1>15. ASSUME NEW t \in Tabs, Hide(t) PROVE KeepInv'
  BY <1>15, <1>a
     DEF Hide, store, tokens, view, service, client
<1>16. ASSUME NEW t \in Tabs, Refreshed(t) PROVE KeepInv'
  <2>1. \A u \in Tabs \ {t} : ApiWaits(u)' = ApiWaits(u)
    BY <1>16, <1>b DEF Refreshed
  <2> QED
    BY <1>16, <2>1 DEF Refreshed, Settle, SetTokens, store, tokens, view, service, client
<1>17. ASSUME NEW t \in Tabs, Refused(t) PROVE KeepInv'
  BY <1>17, <1>b
     DEF Refused, SettleExpired, Settle, ExpireSession, ClearTokens, store,
        tokens, view, service, client
<1>18. ASSUME NEW t \in Tabs, FailsTransiently(t) PROVE KeepInv'
  BY <1>18, <1>b
     DEF FailsTransiently, Settle, ClearTokens, store, tokens, view, service,
        client
<1>19. ASSUME NEW t \in Tabs, GivesUp(t) PROVE KeepInv'
  BY <1>19, <1>b
     DEF GivesUp, SettleExpired, Settle, ExpireSession, ClearTokens, store,
        tokens, view, service, client
<1>20. ASSUME NEW t \in Tabs, Revoke(t) PROVE KeepInv'
  BY <1>20, <1>a
     DEF Revoke, store, tokens, view, service, client
<1>21. ASSUME NEW t \in Tabs, NEW c \in Calls, Request(t, c) PROVE KeepInv'
  BY <1>21, <1>c
     DEF Request, SetCall, store, tokens, view, service, client
<1>22. ASSUME NEW t \in Tabs, NEW c \in Calls, Answered(t, c) PROVE KeepInv'
  BY <1>22, <1>c
     DEF Answered, store, tokens, view, service, client
<1>23. ASSUME NEW t \in Tabs, NEW c \in Calls, HttpUnauthorized(t, c) PROVE
   KeepInv'
  BY <1>23, <1>c
     DEF HttpUnauthorized, AwaitRefresh, MaybeHandleAuthRejection,
        ExpireSession, ClearTokens, NoTeardown, CallFrame, TokenStale,
        TimeUntil, store, tokens, view, service, client
<1>24. ASSUME NEW t \in Tabs, NEW c \in Calls, HttpForbidden(t, c) PROVE
   KeepInv'
  BY <1>24, <1>c
     DEF HttpForbidden, MaybeHandleAuthRejection, ClearTokens, CallFrame,
        store, tokens, view, service, client
<1>25. ASSUME NEW t \in Tabs, NEW c \in Calls, ReplayRejected(t, c) PROVE
   KeepInv'
  BY <1>25, <1>c
     DEF ReplayRejected, MaybeHandleAuthRejection, ClearTokens, NoTeardown,
        CallFrame, store, tokens, view, service, client
<1>26. ASSUME NEW t \in Tabs, NEW c \in Calls, ApiUnauthorized(t, c) PROVE KeepInv'
  <2>1. CASE exchange[t] \/ bearer[t] # None
    <3>1. ApiWaits(t)'
      BY <1>26, <2>1
         DEF ApiUnauthorized, AwaitRefresh, SetCall, ApiWaits, Waiting, ClientOK, CallType
    <3>2. \A u \in Tabs : ApiWaits(u) => ApiWaits(u)'
      BY <1>26, <2>1, <1>c DEF ApiUnauthorized, AwaitRefresh
    <3> QED
      BY <1>26, <2>1, <3>1, <3>2 DEF ApiUnauthorized, AwaitRefresh, NoTeardown, store
  <2>2. CASE ~(exchange[t] \/ bearer[t] # None)
    <3>1. \A u \in Tabs : ApiWaits(u) => ApiWaits(u)'
      BY <1>26, <2>2, <1>c DEF ApiUnauthorized, AwaitRefresh
    <3> QED
      BY <1>26, <2>2, <3>1 DEF ApiUnauthorized, AwaitRefresh, ExpireSession, ClearTokens
  <2> QED
    BY <2>1, <2>2
<1>27. ASSUME NEW t \in Tabs, NEW c \in Calls, ApiRejected(t, c) PROVE KeepInv'
  BY <1>27, <1>c
     DEF ApiRejected, SetCall, store, tokens, view, service, client
<1>28. CASE UNCHANGED vars
  BY <1>28, <1>a DEF vars
<1> QED
  BY <1>1, <1>2, <1>3, <1>4, <1>5, <1>6, <1>7, <1>8, <1>9, <1>10, <1>11,
     <1>12, <1>13, <1>14, <1>15, <1>16, <1>17, <1>18, <1>19, <1>20, <1>21,
     <1>22, <1>23, <1>24, <1>25, <1>26, <1>27, <1>28
     DEF Next, SettleExchange, Reply

LEMMA KeepAction ==
    ASSUME TypeOK, KeepInv, [Next]_vars, NEW u \in Tabs,
           bearer[u] = Fresh, bearer'[u] = None, ~revoked[u]
    PROVE  \/ signedOut'[u] \/ page'[u] = "closed" \/ boot[u] # "done"
           \/ rejected'[u] >= MaxRejected \/ ApiWaits(u)
<1> DEFINE Kept == \/ signedOut'[u] \/ page'[u] = "closed" \/ boot[u] # "done"
                   \/ rejected'[u] >= MaxRejected \/ ApiWaits(u)
<1> USE DEF TypeOK, StoreOK, ViewOK, ServiceOK, ClientOK, KeepInv, TimeLeft, Fresh,
            Expired, None, RenewalLead, LastMinute, Lapsed
<1>1. ASSUME Tick PROVE Kept
  BY <1>1
     DEF Tick, Older, store, tokens, view, service, client
<1>2. ASSUME NEW t \in Tabs, NEW p \in {"app", "public"}, Load(t, p) PROVE
   Kept
  BY <1>2
     DEF Load, ClearTokens, StaleSession, IsAccessTokenExpired, IsRefreshDue,
        TimeUntil, store, tokens, view, service, client
<1>3. ASSUME NEW t \in Tabs, CloseTab(t) PROVE Kept
  BY <1>3
     DEF CloseTab, store, tokens, view, service, client
<1>4. ASSUME NEW t \in Tabs, BootSucceeds(t) PROVE Kept
  BY <1>4
     DEF BootSucceeds, store, tokens, view, service, client
<1>5. ASSUME NEW t \in Tabs, BootFails(t) PROVE Kept
  BY <1>5
     DEF BootFails, ClearTokens, store, tokens, view, service, client
<1>6. ASSUME NEW t \in Tabs, Gate(t) PROVE Kept
  BY <1>6
     DEF Gate, store, tokens, view, service, client
<1>7. ASSUME NEW t \in Tabs, CompleteExternalLogin(t) PROVE Kept
  BY <1>7
     DEF CompleteExternalLogin, SetTokens, store, tokens, view, service,
        client
<1>8. ASSUME NEW t \in Tabs, Logout(t) PROVE Kept
  BY <1>8
     DEF Logout, ClearTokens, store, tokens, view, service, client
<1>9. ASSUME NEW t \in Tabs, ReceiveLogin(t) PROVE Kept
  BY <1>9
     DEF ReceiveLogin, store, tokens, view, service, client
<1>10. ASSUME NEW t \in Tabs, ReceiveLogout(t) PROVE Kept
  BY <1>10
     DEF ReceiveLogout, ClearTokens, store, tokens, view, service, client
<1>11. ASSUME NEW t \in Tabs, Start(t) PROVE Kept
  BY <1>11
     DEF Start, store, tokens, view, service, client
<1>12. ASSUME NEW t \in Tabs, Stop(t) PROVE Kept
  BY <1>12
     DEF Stop, store, tokens, view, service, client
<1>13. ASSUME NEW t \in Tabs, TimerFires(t) PROVE Kept
  BY <1>13
     DEF TimerFires, RunProactiveRefresh, ExpireSession, ClearTokens,
        IsRefreshDue, TimeUntil, store, tokens, view, service, client
<1>14. ASSUME NEW t \in Tabs, Show(t) PROVE Kept
  BY <1>14
     DEF Show, RunProactiveRefresh, ExpireSession, ClearTokens, IsRefreshDue,
        TimeUntil, store, tokens, view, service, client
<1>15. ASSUME NEW t \in Tabs, Hide(t) PROVE Kept
  BY <1>15
     DEF Hide, store, tokens, view, service, client
<1>16. ASSUME NEW t \in Tabs, Refreshed(t) PROVE Kept
  BY <1>16
     DEF Refreshed, Settle, SetTokens, store, tokens, view, service, client
<1>17. ASSUME NEW t \in Tabs, Refused(t) PROVE Kept
  BY <1>17
     DEF Refused, SettleExpired, Settle, ExpireSession, ClearTokens, store,
        tokens, view, service, client
<1>18. ASSUME NEW t \in Tabs, FailsTransiently(t) PROVE Kept
  BY <1>18
     DEF FailsTransiently, Settle, ClearTokens, store, tokens, view, service,
        client
<1>19. ASSUME NEW t \in Tabs, GivesUp(t) PROVE Kept
  BY <1>19
     DEF GivesUp, SettleExpired, Settle, ExpireSession, ClearTokens, store,
        tokens, view, service, client
<1>20. ASSUME NEW t \in Tabs, Revoke(t) PROVE Kept
  BY <1>20
     DEF Revoke, store, tokens, view, service, client
<1>21. ASSUME NEW t \in Tabs, NEW c \in Calls, Request(t, c) PROVE Kept
  BY <1>21
     DEF Request, store, tokens, view, service, client
<1>22. ASSUME NEW t \in Tabs, NEW c \in Calls, Answered(t, c) PROVE Kept
  BY <1>22
     DEF Answered, store, tokens, view, service, client
<1>23. ASSUME NEW t \in Tabs, NEW c \in Calls, HttpUnauthorized(t, c) PROVE
   Kept
  BY <1>23
     DEF HttpUnauthorized, AwaitRefresh, MaybeHandleAuthRejection,
        ExpireSession, ClearTokens, NoTeardown, CallFrame, TokenStale,
        TimeUntil, store, tokens, view, service, client
<1>24. ASSUME NEW t \in Tabs, NEW c \in Calls, HttpForbidden(t, c) PROVE Kept
  BY <1>24
     DEF HttpForbidden, MaybeHandleAuthRejection, ClearTokens, CallFrame,
        IsAccessTokenExpired, TimeUntil, store, tokens, view, service, client
<1>25. ASSUME NEW t \in Tabs, NEW c \in Calls, ReplayRejected(t, c) PROVE Kept
  BY <1>25, SessionAssumption
     DEF ReplayRejected, MaybeHandleAuthRejection, ClearTokens, NoTeardown,
        CallFrame, store, tokens, view, service, client
<1>26. ASSUME NEW t \in Tabs, NEW c \in Calls, ApiUnauthorized(t, c) PROVE
   Kept
  BY <1>26
     DEF ApiUnauthorized, AwaitRefresh, ExpireSession, ClearTokens, NoTeardown,
        CallFrame, SetCall, store, tokens, view, service, client
<1>27. ASSUME NEW t \in Tabs, NEW c \in Calls, ApiRejected(t, c) PROVE Kept
  BY <1>27
     DEF ApiRejected, SetCall, store, tokens, view, service, client
<1>28. CASE UNCHANGED vars
  BY <1>28 DEF vars
<1> QED
  BY <1>1, <1>2, <1>3, <1>4, <1>5, <1>6, <1>7, <1>8, <1>9, <1>10, <1>11,
     <1>12, <1>13, <1>14, <1>15, <1>16, <1>17, <1>18, <1>19, <1>20, <1>21,
     <1>22, <1>23, <1>24, <1>25, <1>26, <1>27, <1>28
     DEF Next, SettleExchange, Reply

\* No failed exchange, stray 401 or act of another tab ends a session whose
\* bearer is fresh, unless a client waits that refreshes on every 401.
THEOREM FreshKept == Spec => FreshSessionKept
<1>1. Init => KeepInv
  BY DEF Init, KeepInv, Fresh, None
<1>2. TypeOK /\ KeepInv /\ [Next]_vars => KeepInv'
  BY KeepStep
<1>3. TypeOK /\ KeepInv /\ [Next]_vars =>
        [\A t \in Tabs :
           bearer[t] = Fresh /\ bearer'[t] = None /\ ~revoked[t]
               => \/ signedOut'[t] \/ page'[t] = "closed" \/ boot[t] # "done"
                  \/ rejected'[t] >= MaxRejected \/ ApiWaits(t)]_vars
  BY KeepAction
<1> QED
  BY <1>1, <1>2, <1>3, Typing, PTL DEF Spec, FreshSessionKept
=============================================================================
