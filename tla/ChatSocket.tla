----------------------------- MODULE ChatSocket -----------------------------
(***************************************************************************)
(* The socket of a chat page: the effect, connectWebSocket and the socket  *)
(* handlers of frontend/src/hooks/useChatWebSocket.ts.                     *)
(*                                                                         *)
(* The effect runs for every runner the page is given (and twice on a      *)
(* StrictMode mount); each run calls connectWebSocket, which awaits a      *)
(* token and then opens a socket.  A call and the socket it opens are one  *)
(* entry of `calls'; `run' numbers the effect runs.  An unmount is a       *)
(* change to no runner.  What travels on the socket is ChatConversation.   *)
(***************************************************************************)
EXTENDS Naturals, FiniteSets

CONSTANTS Runners,      \* runners the page may be given
          NoRunner,
          MaxAttempts,  \* maxReconnectAttempts
          MaxCalls,     \* bound: calls of connectWebSocket
          MaxRuns,      \* bound: runs of the effect
          MaxDrops,     \* bound: open sockets lost
          MaxFailures,  \* bound: sockets that fail to open
          MaxRefusals   \* bound: tokens not granted

ASSUME SocketAssumption ==
    /\ NoRunner \notin Runners
    /\ MaxAttempts \in Nat
    /\ MaxCalls \in Nat
    /\ MaxRuns \in Nat
    /\ MaxDrops \in Nat
    /\ MaxFailures \in Nat
    /\ MaxRefusals \in Nat

VARIABLES
    runner,     \* the runnerId the page was last given
    run,        \* effect runs so far
    calls,      \* calls of connectWebSocket and their sockets
    ws,         \* wsRef: the call whose socket it holds, or 0
    timers,     \* reconnect timers armed, named by the socket that was lost
    timerRef,   \* reconnectTimeoutRef
    pings,      \* ping intervals running, named by their socket
    pingRef,    \* pingIntervalRef
    attempts,   \* reconnectAttemptsRef
    connected,  \* isConnected
    admitted,   \* hasConnectedRef
    reopened,   \* sockets whose open was read as a reconnect
    faults,     \* drops, failures to open and refused tokens so far
    \* history variable, which no action reads
    overtaken   \* the effect ran while a token was awaited

refs == <<ws, timers, timerRef, pings, pingRef>>
flags == <<attempts, connected, admitted, reopened>>
state == <<runner, run, calls, refs, flags, faults>>
vars == <<state, overtaken>>

Ids == 1 .. MaxCalls
Refs == 0 .. MaxCalls
Unused == [to |-> NoRunner, run |-> 0, phase |-> "unused"]
Phases == {"unused", "token", "opening", "open", "admitted", "lost", "closed"}
Live(i) == calls[i].phase \in {"opening", "open", "admitted"}
Open(i) == calls[i].phase \in {"open", "admitted"}

StateOK ==
    /\ runner \in Runners \cup {NoRunner}
    /\ run \in 0 .. MaxRuns
    /\ calls \in [Ids -> [to : Runners \cup {NoRunner}, run : 0 .. MaxRuns, phase : Phases]]
    /\ ws \in Refs /\ timerRef \in Refs /\ pingRef \in Refs
    /\ timers \subseteq Ids /\ pings \subseteq Ids /\ reopened \subseteq Ids
    /\ attempts \in Nat
    /\ connected \in BOOLEAN /\ admitted \in BOOLEAN
    /\ faults \in [drops : Nat, failures : Nat, refusals : Nat]
TypeOK == StateOK /\ overtaken \in BOOLEAN

Init ==
    /\ runner = NoRunner /\ run = 0
    /\ calls = [i \in Ids |-> Unused]
    /\ ws = 0 /\ timerRef = 0 /\ pingRef = 0
    /\ timers = {} /\ pings = {} /\ reopened = {}
    /\ attempts = 0 /\ connected = FALSE /\ admitted = FALSE
    /\ faults = [drops |-> 0, failures |-> 0, refusals |-> 0]
    /\ overtaken = FALSE
-----------------------------------------------------------------------------
To(i, phase) == calls' = [calls EXCEPT ![i].phase = phase]

(* The cleanup: it closes the socket wsRef holds, and does not reach one    *)
(* still to be opened or one wsRef no longer holds; of the timers and       *)
(* intervals it clears those the refs name.                                 *)
CleanedLeavingSocket == calls
Cleaned == IF ws = 0 THEN calls ELSE [calls EXCEPT ![ws].phase = "closed"]
TimersKept == timers
TimersCleared == timers \ {timerRef}
PingsCleared == pings \ {pingRef}

(* The effect's cleanup and its next run, for a change of runner, a         *)
(* StrictMode remount (the same runner) or an unmount (no runner), at any   *)
(* moment: the cleanup does not cancel a call that awaits its token.        *)
EffectRuns(r) ==
    /\ run < MaxRuns
    /\ r # NoRunner \/ runner # NoRunner
    /\ runner' = r /\ run' = run + 1
    /\ ws' = 0
    /\ timers' = TimersCleared /\ pings' = PingsCleared
    /\ admitted' = FALSE
    /\ IF r = NoRunner
       THEN calls' = Cleaned
       ELSE \E i \in Ids :
              /\ calls[i] = Unused
              /\ \A j \in 1 .. i - 1 : calls[j] # Unused
              /\ calls' = [Cleaned EXCEPT ![i] = [to |-> r, run |-> run', phase |-> "token"]]
    /\ UNCHANGED <<timerRef, pingRef, attempts, connected, reopened, faults>>

TokenGranted(i) ==
    /\ calls[i].phase = "token"
    /\ To(i, "opening")
    /\ ws' = i
    /\ UNCHANGED <<runner, run, timers, timerRef, pings, pingRef, flags, faults>>

(* No token: the call returns, and nothing calls again.                     *)
TokenRefused(i) ==
    /\ calls[i].phase = "token" /\ faults.refusals < MaxRefusals
    /\ To(i, "closed")
    /\ faults' = [faults EXCEPT !.refusals = @ + 1]
    /\ UNCHANGED <<runner, run, refs, flags>>

(* What onopen reads and resets.                                            *)
OpenIsReconnect == admitted
AttemptsKept == attempts
AttemptsAfterOpen == 0

Opened(i) ==
    /\ calls[i].phase = "opening"
    /\ To(i, "open")
    /\ IF ws # i
       THEN UNCHANGED <<pings, pingRef, flags>>
       ELSE /\ connected' = TRUE /\ attempts' = AttemptsAfterOpen
            /\ reopened' = IF OpenIsReconnect THEN reopened \cup {i} ELSE reopened
            /\ pings' = pings \cup {i} /\ pingRef' = i
            /\ UNCHANGED admitted
    /\ UNCHANGED <<runner, run, ws, timers, timerRef, faults>>

(* The relay's `connected' frame.                                           *)
Admitted(i) ==
    /\ calls[i].phase = "open"
    /\ To(i, "admitted")
    /\ admitted' = (admitted \/ ws = i)
    /\ UNCHANGED <<runner, run, refs, attempts, connected, reopened, faults>>

MayRetry == attempts < MaxAttempts

Lost(i) ==
    /\ Live(i)
    /\ IF Open(i)
       THEN /\ faults.drops < MaxDrops
            /\ faults' = [faults EXCEPT !.drops = @ + 1]
       ELSE /\ faults.failures < MaxFailures
            /\ faults' = [faults EXCEPT !.failures = @ + 1]
    /\ To(i, IF calls[i].phase = "admitted" THEN "lost" ELSE "closed")
    /\ IF ws # i
       THEN UNCHANGED <<refs, flags>>
       ELSE /\ ws' = 0 /\ connected' = FALSE
            /\ pings' = PingsCleared /\ pingRef' = 0
            /\ IF MayRetry
               THEN timers' = timers \cup {i} /\ timerRef' = i
               ELSE UNCHANGED <<timers, timerRef>>
            /\ UNCHANGED <<attempts, admitted, reopened>>
    /\ UNCHANGED <<runner, run>>

TimerFires(t) ==
    /\ t \in timers
    /\ timers' = timers \ {t}
    /\ attempts' = attempts + 1
    /\ \E i \in Ids :
         /\ calls[i] = Unused
         /\ \A j \in 1 .. i - 1 : calls[j] # Unused
         /\ calls' = [calls EXCEPT ![i] = [to |-> calls[t].to, run |-> calls[t].run,
                                           phase |-> "token"]]
    /\ UNCHANGED <<runner, run, ws, timerRef, pings, pingRef, connected, admitted,
                   reopened, faults>>

Step ==
    \/ \E r \in Runners \cup {NoRunner} : EffectRuns(r)
    \/ \E i \in Ids : \/ TokenGranted(i) \/ TokenRefused(i)
                      \/ Opened(i) \/ Admitted(i) \/ Lost(i) \/ TimerFires(i)

AwaitingToken == {i \in Ids : calls[i].phase = "token"}
Record == overtaken' = (overtaken \/ (run' # run /\ AwaitingToken # {}))

Next == Step /\ Record
Spec == Init /\ [][Next]_vars

Progress(i) == TokenGranted(i) \/ Opened(i) \/ Admitted(i) \/ TimerFires(i)
FairSpec == Spec /\ \A i \in Ids : WF_state(Progress(i))
-----------------------------------------------------------------------------
(* A connection under way: a call awaiting its token, a socket, or an armed *)
(* reconnect timer.  A run of the effect has one at most, whatever happens, *)
(* for what it lost is replaced only once.  A run that does not overtake a  *)
(* token fetch (useChatWebSocket.ts:270 awaits it, and the cleanup at :856  *)
(* does not cancel it) leaves none of the runs before it, and none at all   *)
(* once the page has no runner; an overtaken fetch leaves a second one.     *)
Efforts == {i \in Ids : Live(i) \/ calls[i].phase = "token"}
Under == Efforts \cup timers
OneConnection ==
    /\ Efforts \cap timers = {}
    /\ \A i, j \in Under : calls[i].run = calls[j].run => i = j
    /\ ~overtaken => /\ \A i \in Under : calls[i].run = run
                     /\ runner = NoRunner => Under = {}

(* The socket the hook reads and writes leads to the runner the page shows, *)
(* as long as no run of the effect overtook a token fetch: a token granted  *)
(* to the call of the former runner puts that runner's socket into wsRef.   *)
LeadsToRunner == ws # 0 => calls[ws].to = runner
RightRunner == ~overtaken => LeadsToRunner

(* "Guard: ignore close events from stale WebSockets (e.g., after React     *)
(* StrictMode double-mount or runnerId change)" (useChatWebSocket.ts:320):  *)
(* once every token is in, the socket the guards keep is not the stale one. *)
StaleIsOld ==
    runner # NoRunner /\ AwaitingToken = {} => LeadsToRunner

(* An interval pings an open socket: none outlives its socket, unless a     *)
(* second connection has taken the ref that names it.                       *)
NoPingLeft == ~overtaken => \A i \in pings : Open(i)

(* "an orphaned StrictMode socket that opens first does not make the real   *)
(* first open read as a reconnect" (useChatWebSocket.ts:200): an open read  *)
(* as a reconnect follows the loss of an admitted socket of the same mount. *)
(* The orphan that wsRef holds when it is admitted does make it one, so the *)
(* statement is about a hook in which no token fetch was overtaken.         *)
AfterLoss(i) == \E j \in Ids : j # i /\ calls[j].run = calls[i].run /\ calls[j].phase = "lost"
ReconnectsOnly == ~overtaken => \A i \in reopened : AfterLoss(i)

(* "create a session when connected" (AskTheTwin.tsx:186): isConnected means*)
(* the hook has an open socket to send on.                                  *)
ConnectedIsOpen == connected => ws # 0 /\ Open(ws)

(* A page that keeps its runner ends up with an admitted socket to it, but  *)
(* for what ends its attempts: a token that is refused, or as many sockets  *)
(* that fail to open as it has attempts (useChatWebSocket.ts:346).  A call  *)
(* whose fetch was overtaken may take wsRef, or its attempts, from it.      *)
Attached == runner = NoRunner \/ (ws # 0 /\ calls[ws].phase = "admitted" /\ calls[ws].to = runner)
Exhausted == faults.refusals > 0 \/ faults.failures >= MaxAttempts
Reconnects == <>[](Attached \/ Exhausted \/ overtaken)
=============================================================================
