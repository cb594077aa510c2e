---------------------------- MODULE DeviceRelay ----------------------------
(***************************************************************************)
(* The relay ownership protocol of one device (backend/app):               *)
(*                                                                         *)
(*   - devices_ws.py: the handler of each runner socket (handshake,        *)
(*     heartbeat, teardown), one program counter per socket;               *)
(*   - device_crud.py, device_connection.py: the device row (relay pointer *)
(*     and port) and one connection row per socket, shared by all replicas;*)
(*   - runner_websocket_manager.py: the in-process registry, the inbound   *)
(*     listener and the registration lock, one of each per replica;        *)
(*   - state_repository.py: the Redis presence key, shared by all replicas;*)
(*   - connection_cleanup.py: the scheduled sweep.                         *)
(*                                                                         *)
(* An action is the code between two awaits whose order others can see.    *)
(***************************************************************************)
EXTENDS Naturals, FiniteSets

CONSTANTS
    Sockets,     \* runner sockets that may ever connect for this device
    Replicas,    \* backend processes
    Secondary,   \* the sockets whose instance claim is "secondary"
    Key,         \* the instance key each socket reports, or NoKey (legacy)
    Port,        \* the port each socket's runner instance listens on
    MaxFaults,   \* bound on injected failures: errors, timeouts, restarts
    NoKey, None, Sweeper

\* A keyed claim is "primary" iff its role is (parse_instance_claim), so all
\* keyed primaries share one key and no secondary reports it.
ASSUME SocketAssumption ==
    /\ IsFiniteSet(Sockets)
    /\ Secondary \subseteq Sockets
    /\ MaxFaults \in Nat
    /\ None \notin Sockets /\ Sweeper \notin Sockets /\ None # Sweeper
    /\ None \notin Replicas

ASSUME ClaimAssumption ==
    /\ \A s, t \in Sockets :
         /\ Key[s] = Key[t] /\ Key[s] # NoKey => (s \in Secondary <=> t \in Secondary)
         /\ {s, t} \cap Secondary = {} /\ NoKey \notin {Key[s], Key[t]} => Key[s] = Key[t]

VARIABLES
    pc, home, wire, entered, holders, released,   \* the socket handlers
    row, fresh, pk, serial, ptr, port,            \* PostgreSQL
    live, pending,                                \* devices_ws globals
    reg, entry, tasks, lock,                      \* runner manager
    presence, status,                             \* Redis
    sweep, faults

handlerVars == <<pc, home, wire, entered, holders, released>>
dbVars      == <<row, fresh, pk, serial, ptr, port>>
globalVars  == <<live, pending>>
managerVars == <<reg, entry, tasks, lock>>
redisVars   == <<presence, status>>
vars == <<handlerVars, dbVars, globalVars, managerVars, redisVars, sweep, faults>>

-----------------------------------------------------------------------------
(* Where a handler can be. *)

\* Between _PENDING_KEYS.add and its discard.
Guarded  == {"resolve", "probe", "supersede", "evict", "insert", "adopt",
             "upsert", "take"}
\* "claim" is guarded too on the handshake path, not on the heartbeat path.
InGuard(s) == pc[s] \in Guarded \/ (pc[s] = "claim" /\ ~entered[s])
\* Holding the manager's registration lock.
Locked   == {"entitle", "install", "listen", "unregistering"}
InLoop   == {"serve", "gate", "heal"}
Leaving  == {"teardown", "unreg", "unregistering", "clear", "close", "announce",
             "unsaved"}
\* "done": the handler ran to its end; "dead": it ended leaving its row behind
\* (its process died, or the database failed under it).
Ended    == {"done", "dead"}
Steps    == {"new", "claim", "register", "publish", "yield", "ack"}
              \cup Guarded \cup Locked \cup InLoop \cup Leaving \cup Ended

Goto(s, l)   == pc' = [pc EXCEPT ![s] = l]
GuardOf(s)   == <<home[s], Key[s]>>
Open         == {s \in Sockets : row[s] = "open"}
IsOpen(s)    == row[s] = "open"
Close(S)     == row' = [s \in Sockets |-> IF s \in S /\ IsOpen(s) THEN "closed" ELSE row[s]]
HangUp(S)    == wire' = [s \in Sockets |-> IF s \in S THEN "down" ELSE wire[s]]

\* clear_ws_session_if_current: the compare is in the UPDATE's WHERE clause.
ClearIfCurrent(S) == ptr' = IF ptr \in S THEN None ELSE ptr
\* claim_ws_session_if_unheld: the predicate, under SELECT ... FOR UPDATE.
Unheld(s) == ptr # s /\ ptr \notin Open /\ s \in Open
\* claim_ws_session: an older, closed or missing holder loses.
Heals(s)  == ptr # s /\ ~(ptr \in Open /\ pk[ptr] >= pk[s])

\* _stop_inbound_listener: cancel the task the entry names, if any.
StopListener(r) == /\ entry' = [entry EXCEPT ![r] = None]
                   /\ tasks' = tasks \ {entry[r]}
Unlock(r)       == lock' = [lock EXCEPT ![r] = None]
NoSweep         == [pc |-> "idle", home |-> None, seen |-> TRUE, stale |-> {}]
Fault           == faults < MaxFaults /\ faults' = faults + 1

-----------------------------------------------------------------------------
Init ==
    /\ pc       = [s \in Sockets |-> "new"]
    /\ home     = [s \in Sockets |-> None]
    /\ wire     = [s \in Sockets |-> "down"]
    /\ entered  = [s \in Sockets |-> FALSE]
    /\ holders  = [s \in Sockets |-> {}]
    /\ released = {}
    /\ row      = [s \in Sockets |-> "none"]
    /\ fresh    = {}
    /\ pk       = [s \in Sockets |-> 0]
    /\ serial   = 0
    /\ ptr = None /\ port = None
    /\ live = {} /\ pending = {}
    /\ reg      = [r \in Replicas |-> None]
    /\ entry    = [r \in Replicas |-> None]
    /\ tasks    = {}
    /\ lock     = [r \in Replicas |-> None]
    /\ presence = FALSE /\ status = "gone"
    /\ sweep    = NoSweep
    /\ faults   = 0

-----------------------------------------------------------------------------
(* Handshake: from accept to the manager registration. *)

\* A pair already in _PENDING_KEYS refuses the newcomer at once; a legacy
\* (keyless) claim neither takes the guard nor looks for holders.
Connect(s, r) ==
    /\ pc[s] = "new"
    /\ home' = [home EXCEPT ![s] = r]
    /\ \/ /\ Key[s] = NoKey
          /\ Goto(s, "insert")
          /\ wire' = [wire EXCEPT ![s] = "up"]
          /\ UNCHANGED pending
       \/ /\ Key[s] # NoKey /\ <<r, Key[s]>> \notin pending
          /\ Goto(s, "resolve")
          /\ wire' = [wire EXCEPT ![s] = "up"]
          /\ pending' = pending \cup {<<r, Key[s]>>}
       \/ /\ Key[s] # NoKey /\ <<r, Key[s]>> \in pending
          /\ Goto(s, "done")
          /\ UNCHANGED <<wire, pending>>
    /\ UNCHANGED <<entered, holders, released, dbVars, live, managerVars,
                   redisVars, sweep, faults>>

ReadHolders(s) ==
    /\ pc[s] = "resolve"
    /\ LET found == {h \in Sockets : IsOpen(h) /\ Key[h] = Key[s]}
       IN  /\ holders' = [holders EXCEPT ![s] = found]
           /\ Goto(s, IF found = {} THEN "insert" ELSE "probe")
    /\ UNCHANGED <<home, wire, entered, released, dbVars, globalVars, managerVars,
                   redisVars, sweep, faults>>

\* Regression: only the socket the manager holds is worth probing.
CanAnswerIfRegistered(s, h) == h \in live /\ reg[home[s]] = h /\ wire[h] = "up"

\* A holder answers iff this process holds its socket and, once its receive loop
\* runs (again), reads the runner's reply; CanAnswer: it will get there.
CanAnswer(s, h) == /\ h \in live /\ home[h] = home[s]
                   /\ wire[h] = "up" /\ pc[h] \notin Leaving \cup Ended
Answers(s, h)   == CanAnswer(s, h) /\ pc[h] \in InLoop

Refuse(s) == /\ Goto(s, "done")
             /\ holders' = [holders EXCEPT ![s] = {}]
             /\ wire' = [wire EXCEPT ![s] = "down"]
             /\ pending' = pending \ {GuardOf(s)}

ProbeAnswered(s) ==
    /\ pc[s] = "probe"
    /\ \E h \in holders[s] : Answers(s, h)
    /\ Refuse(s)
    /\ UNCHANGED <<home, entered, released, dbVars, live, managerVars,
                   redisVars, sweep, faults>>

\* Silence: nobody can answer, or (a fault) the answer takes over five seconds.
ProbeSilent(s) ==
    /\ pc[s] = "probe"
    /\ \/ /\ \A h \in holders[s] : ~CanAnswer(s, h)
          /\ UNCHANGED faults
       \/ Fault
    /\ Goto(s, "supersede")
    /\ UNCHANGED <<home, wire, entered, holders, released, dbVars, globalVars,
                   managerVars, redisVars, sweep>>

CloseHolders(s) ==
    /\ pc[s] = "supersede"
    /\ Close(holders[s])
    /\ Goto(s, "evict")
    /\ UNCHANGED <<home, wire, entered, holders, released, fresh, pk, serial, ptr,
                   port, globalVars, managerVars, redisVars, sweep, faults>>

\* Only a secondary clears the pointer: a primary re-points it when it takes it.
\* The evicted sockets are closed by background tasks (WireDown, at any time).
EvictHolders(s) ==
    /\ pc[s] = "evict"
    /\ IF s \in Secondary THEN ClearIfCurrent(holders[s]) ELSE UNCHANGED ptr
    /\ live' = live \ {h \in holders[s] : home[h] = home[s]}
    /\ holders' = [holders EXCEPT ![s] = {}]
    /\ Goto(s, "insert")
    /\ UNCHANGED <<home, wire, entered, released, row, fresh, pk, serial, port,
                   pending, managerVars, redisVars, sweep, faults>>

\* The partial unique index uq_device_connections_live_instance_key.
KeyTaken(s) == Key[s] # NoKey /\ \E h \in Sockets : IsOpen(h) /\ Key[h] = Key[s]

InsertRow(s) ==
    /\ pc[s] = "insert" /\ ~KeyTaken(s)
    /\ row'    = [row EXCEPT ![s] = "open"]
    /\ fresh'  = fresh \cup {s}
    /\ serial' = serial + 1
    /\ pk'     = [pk EXCEPT ![s] = serial + 1]
    /\ Goto(s, "adopt")
    /\ UNCHANGED <<home, wire, entered, holders, released, ptr, port, globalVars,
                   managerVars, redisVars, sweep, faults>>

LoseInsertRace(s) ==
    /\ pc[s] = "insert" /\ KeyTaken(s)
    /\ Refuse(s)
    /\ UNCHANGED <<home, entered, released, dbVars, live, managerVars,
                   redisVars, sweep, faults>>

\* The row is committed before the socket lands in _LIVE_SOCKETS.
Adopt(s) ==
    /\ pc[s] = "adopt"
    /\ live' = live \cup {s}
    /\ Goto(s, IF s \in Secondary THEN "claim" ELSE "upsert")
    /\ UNCHANGED <<home, wire, entered, holders, released, dbVars, pending,
                   managerVars, redisVars, sweep, faults>>

\* register_device: the primary's runner fields, port included.
UpsertDevice(s) ==
    /\ pc[s] = "upsert"
    /\ port' = Port[s]
    /\ Goto(s, "take")
    /\ UNCHANGED <<home, wire, entered, holders, released, row, fresh, pk, serial,
                   ptr, globalVars, managerVars, redisVars, sweep, faults>>

\* take_ws_session, unconditionally; the pending guard is then released.
TakePointer(s) ==
    /\ pc[s] = "take"
    /\ ptr' = s /\ port' = Port[s]
    /\ pending' = pending \ {GuardOf(s)}
    /\ Goto(s, "register")
    /\ UNCHANGED <<home, wire, entered, holders, released, row, fresh, pk, serial,
                   live, managerVars, redisVars, sweep, faults>>

\* Regression: a heartbeat's claim writes the pointer and never registers.
ClaimPointerOnly(s) ==
    /\ pc[s] = "claim"
    /\ \/ Unheld(s) /\ ptr' = s /\ port' = Port[s]
       \/ ~Unheld(s) /\ UNCHANGED <<ptr, port>>
    /\ Goto(s, IF entered[s] THEN "serve" ELSE "ack")
    /\ pending' = IF entered[s] THEN pending ELSE pending \ {GuardOf(s)}
    /\ UNCHANGED <<home, wire, entered, holders, released, row, fresh, pk, serial,
                   live, managerVars, redisVars, sweep, faults>>

\* A secondary claims an unheld pointer, in its handshake or on a heartbeat.
ClaimUnheld(s) ==
    /\ pc[s] = "claim"
    /\ \/ Unheld(s) /\ ptr' = s /\ port' = Port[s] /\ Goto(s, "register")
       \/ /\ ~Unheld(s) /\ UNCHANGED <<ptr, port>>
          /\ Goto(s, IF entered[s] THEN "serve" ELSE "ack")
    /\ pending' = IF entered[s] THEN pending ELSE pending \ {GuardOf(s)}
    /\ UNCHANGED <<home, wire, entered, holders, released, row, fresh, pk, serial,
                   live, managerVars, redisVars, sweep, faults>>

\* A database error inside _register_socket: the guard and _LIVE_SOCKETS are
\* released, the socket is rejected; a row already inserted stays open.
HandshakeDbError(s) ==
    /\ InGuard(s) /\ pc[s] # "probe"
    /\ Fault
    /\ Goto(s, IF IsOpen(s) THEN "dead" ELSE "done")
    /\ wire' = [wire EXCEPT ![s] = "down"]
    /\ holders' = [holders EXCEPT ![s] = {}]
    /\ live' = live \ {s}
    /\ pending' = pending \ {GuardOf(s)}
    /\ UNCHANGED <<home, entered, released, dbVars, managerVars, redisVars, sweep>>

-----------------------------------------------------------------------------
(* RunnerWebSocketManager.register and register_if_unowned. *)

\* Regression: the previous socket's listener is left running.
RegisterOverListener(s) ==
    /\ pc[s] = "register" /\ s \notin Secondary
    /\ lock[home[s]] = None
    /\ lock' = [lock EXCEPT ![home[s]] = s]
    /\ Goto(s, "install")
    /\ UNCHANGED <<home, wire, entered, holders, released, dbVars, globalVars, reg,
                   entry, tasks, redisVars, sweep, faults>>

RegisterPrimary(s) ==
    /\ pc[s] = "register" /\ s \notin Secondary
    /\ lock[home[s]] = None
    /\ lock' = [lock EXCEPT ![home[s]] = s]
    /\ StopListener(home[s])
    /\ Goto(s, "install")
    /\ UNCHANGED <<home, wire, entered, holders, released, dbVars, globalVars, reg,
                   redisVars, sweep, faults>>

\* Regression: the claim in the database is taken for the right to register.
RegisterRegardless(s) ==
    /\ pc[s] = "register" /\ s \in Secondary
    /\ lock[home[s]] = None
    /\ Goto(s, "entitle") /\ lock' = [lock EXCEPT ![home[s]] = s]
    /\ UNCHANGED <<home, wire, entered, holders, released, dbVars, globalVars, reg,
                   entry, tasks, redisVars, sweep, faults>>

RegisterIfUnowned(s) ==
    /\ pc[s] = "register" /\ s \in Secondary
    /\ lock[home[s]] = None
    /\ \/ /\ reg[home[s]] \notin {None, s}
          /\ Goto(s, "yield") /\ UNCHANGED lock
       \/ /\ reg[home[s]] \in {None, s}
          /\ Goto(s, "entitle") /\ lock' = [lock EXCEPT ![home[s]] = s]
    /\ UNCHANGED <<home, wire, entered, holders, released, dbVars, globalVars, reg,
                   entry, tasks, redisVars, sweep, faults>>

\* pointer_names, read under the lock.
ConfirmEntitled(s) ==
    /\ pc[s] = "entitle"
    /\ \/ ptr = s /\ StopListener(home[s]) /\ Goto(s, "install") /\ UNCHANGED lock
       \/ ptr # s /\ Unlock(home[s]) /\ Goto(s, "yield") /\ UNCHANGED <<entry, tasks>>
    /\ UNCHANGED <<home, wire, entered, holders, released, dbVars, globalVars, reg,
                   redisVars, sweep, faults>>

Install(s) ==
    /\ pc[s] = "install"
    /\ reg' = [reg EXCEPT ![home[s]] = s]
    /\ presence' = TRUE
    /\ Goto(s, "listen")
    /\ UNCHANGED <<home, wire, entered, holders, released, dbVars, globalVars, entry,
                   tasks, lock, status, sweep, faults>>

StartListener(s) ==
    /\ pc[s] = "listen"
    /\ entry' = [entry EXCEPT ![home[s]] = s]
    /\ tasks' = tasks \cup {s}
    /\ Unlock(home[s])
    /\ Goto(s, "publish")
    /\ UNCHANGED <<home, wire, entered, holders, released, dbVars, globalVars, reg,
                   redisVars, sweep, faults>>

PublishConnected(s) ==
    /\ pc[s] = "publish"
    /\ status' = "connected"
    /\ Goto(s, IF entered[s] THEN "serve" ELSE "ack")
    /\ UNCHANGED <<home, wire, entered, holders, released, dbVars, globalVars,
                   managerVars, presence, sweep, faults>>

\* Redis or database trouble while registering: _rollback_partial_registration
\* undoes what was installed, best effort on the presence key; the handshake
\* then tears the socket down, a heartbeat hands the claim back and serves on.
RegisterError(s) ==
    /\ Fault
    /\ \/ /\ pc[s] = "register" /\ ~entered[s]
          /\ UNCHANGED <<reg, presence, lock>>
       \/ /\ pc[s] = "listen"
          /\ reg' = [reg EXCEPT ![home[s]] = None]
          /\ presence' \in {presence, FALSE}
          /\ Unlock(home[s])
       \/ /\ pc[s] = "entitle"
          /\ Unlock(home[s])
          /\ UNCHANGED <<reg, presence>>
       \/ /\ pc[s] = "publish"
          /\ UNCHANGED <<reg, presence, lock>>
    /\ Goto(s, IF entered[s] THEN "yield" ELSE "teardown")
    /\ UNCHANGED <<home, wire, entered, holders, released, dbVars, globalVars, entry,
                   tasks, status, sweep>>

\* Regression: the refused claim is not handed back.
YieldKeepsClaim(s) ==
    /\ pc[s] = "yield"
    /\ Goto(s, IF entered[s] THEN "serve" ELSE "ack")
    /\ UNCHANGED <<home, wire, entered, holders, released, dbVars, globalVars,
                   managerVars, redisVars, sweep, faults>>

\* The claim is handed back; if that write fails too, a handshake is torn down
\* and a heartbeat serves on with the pointer still naming this socket.
YieldClaim(s) ==
    /\ pc[s] = "yield"
    /\ \/ /\ ClearIfCurrent({s})
          /\ Goto(s, IF entered[s] THEN "serve" ELSE "ack")
          /\ UNCHANGED faults
       \/ /\ Fault
          /\ Goto(s, IF entered[s] THEN "serve" ELSE "teardown")
          /\ UNCHANGED ptr
    /\ UNCHANGED <<home, wire, entered, holders, released, row, fresh, pk, serial,
                   port, globalVars, managerVars, redisVars, sweep>>

\* The ack is inside the try whose finally is _cleanup.
Ack(s) ==
    /\ pc[s] = "ack"
    /\ entered' = [entered EXCEPT ![s] = TRUE]
    /\ Goto(s, IF wire[s] = "down" THEN "teardown" ELSE "serve")
    /\ UNCHANGED <<home, wire, holders, released, dbVars, globalVars, managerVars,
                   redisVars, sweep, faults>>

-----------------------------------------------------------------------------
(* The message loop. *)

\* Regression: the stamp's row count is ignored.
HeartbeatBlind(s) ==
    /\ pc[s] = "serve" /\ wire[s] = "up"
    /\ fresh' = fresh \cup {s}
    /\ Goto(s, IF s \in Secondary /\ reg[home[s]] # s THEN "claim" ELSE "gate")
    /\ UNCHANGED <<home, wire, entered, holders, released, row, pk, serial, ptr, port,
                   globalVars, managerVars, redisVars, sweep, faults>>

\* A heartbeat stamps the socket's own row first; a closed row closes the
\* socket, a failed stamp says nothing. A secondary the manager does not hold may
\* only claim an unheld pointer, every other socket goes on to the heal.
Heartbeat(s) ==
    /\ pc[s] = "serve" /\ wire[s] = "up"
    /\ \/ /\ ~IsOpen(s)
          /\ wire' = [wire EXCEPT ![s] = "down"]
          /\ UNCHANGED <<pc, fresh, faults>>
       \/ /\ \/ IsOpen(s) /\ fresh' = fresh \cup {s} /\ UNCHANGED faults
             \/ Fault /\ UNCHANGED fresh
          /\ Goto(s, IF s \in Secondary /\ reg[home[s]] # s THEN "claim" ELSE "gate")
          /\ UNCHANGED wire
    /\ UNCHANGED <<home, entered, holders, released, row, pk, serial, ptr, port,
                   globalVars, managerVars, redisVars, sweep>>

\* The heal is gated on the manager still holding this socket.
HealGate(s) ==
    /\ pc[s] = "gate"
    /\ Goto(s, IF reg[home[s]] = s THEN "heal" ELSE "serve")
    /\ UNCHANGED <<home, wire, entered, holders, released, dbVars, globalVars,
                   managerVars, redisVars, sweep, faults>>

\* claim_ws_session writes the pointer and not the port.
Heal(s) ==
    /\ pc[s] = "heal"
    /\ ptr' = IF Heals(s) THEN s ELSE ptr
    /\ Goto(s, "serve")
    /\ UNCHANGED <<home, wire, entered, holders, released, row, fresh, pk, serial,
                   port, globalVars, managerVars, redisVars, sweep, faults>>

\* The claim or the heal fails: logged, retried by the next heartbeat.
HeartbeatDbError(s) ==
    /\ pc[s] = "heal" \/ (pc[s] = "claim" /\ entered[s])
    /\ Fault
    /\ Goto(s, "serve")
    /\ UNCHANGED <<home, wire, entered, holders, released, dbVars, globalVars,
                   managerVars, redisVars, sweep>>

Disconnect(s) ==
    /\ pc[s] = "serve" /\ wire[s] = "down"
    /\ Goto(s, "teardown")
    /\ UNCHANGED <<home, wire, entered, holders, released, dbVars, globalVars,
                   managerVars, redisVars, sweep, faults>>

-----------------------------------------------------------------------------
(* _cleanup, and the same steps on the failed-registration path. *)

Teardown(s) ==
    /\ pc[s] = "teardown"
    /\ live' = live \ {s}
    /\ Goto(s, "unreg")
    /\ UNCHANGED <<home, wire, entered, holders, released, dbVars, pending,
                   managerVars, redisVars, sweep, faults>>

\* Regression: the compare is made first and the teardown follows, with no lock.
UnregisterUnlocked(s) ==
    /\ pc[s] = "unreg"
    /\ Goto(s, IF reg[home[s]] = s THEN "unregistering" ELSE "clear")
    /\ presence' = (presence /\ reg[home[s]] # s)
    /\ UNCHANGED <<home, wire, entered, holders, released, dbVars, globalVars,
                   managerVars, status, sweep, faults>>

\* Regression: a Redis failure skips the in-process teardown.
UnregisterOrFail(s) ==
    /\ pc[s] = "unreg" /\ lock[home[s]] = None
    /\ \/ /\ reg[home[s]] # s /\ Goto(s, "clear")
          /\ UNCHANGED <<lock, presence, faults>>
       \/ /\ reg[home[s]] = s /\ Goto(s, "unregistering")
          /\ lock' = [lock EXCEPT ![home[s]] = s]
          /\ presence' = FALSE /\ UNCHANGED faults
       \/ Fault /\ Goto(s, "clear") /\ UNCHANGED <<lock, presence>>
    /\ UNCHANGED <<home, wire, entered, holders, released, dbVars, globalVars, reg,
                   entry, tasks, status, sweep>>

\* unregister_if_current: the compare and the teardown are under the lock. The
\* presence key is deleted first, and a failure there is tolerated.
UnregisterIfCurrent(s) ==
    /\ pc[s] = "unreg" /\ lock[home[s]] = None
    /\ \/ /\ reg[home[s]] # s
          /\ Goto(s, "clear")
          /\ UNCHANGED <<lock, presence, faults>>
       \/ /\ reg[home[s]] = s
          /\ Goto(s, "unregistering")
          /\ lock' = [lock EXCEPT ![home[s]] = s]
          /\ \/ presence' = FALSE /\ UNCHANGED faults
             \/ Fault /\ UNCHANGED presence
    /\ UNCHANGED <<home, wire, entered, holders, released, dbVars, globalVars, reg,
                   entry, tasks, status, sweep>>

\* Regression: an early return leaves the registration lock held.
FinishHoldingLock(s) ==
    /\ pc[s] = "unregistering"
    /\ reg' = [reg EXCEPT ![home[s]] = None]
    /\ StopListener(home[s])
    /\ released' = released \cup {s}
    /\ Goto(s, "clear")
    /\ UNCHANGED <<home, wire, entered, holders, dbVars, globalVars, lock, redisVars,
                   sweep, faults>>

FinishUnregister(s) ==
    /\ pc[s] = "unregistering"
    /\ reg' = [reg EXCEPT ![home[s]] = None]
    /\ StopListener(home[s])
    /\ Unlock(home[s])
    /\ released' = released \cup {s}
    /\ Goto(s, "clear")
    /\ UNCHANGED <<home, wire, entered, holders, dbVars, globalVars, redisVars,
                   sweep, faults>>

ClearOwnPointer(s) ==
    /\ pc[s] = "clear"
    /\ ClearIfCurrent({s})
    /\ Goto(s, "close")
    /\ UNCHANGED <<home, wire, entered, holders, released, row, fresh, pk, serial,
                   port, globalVars, managerVars, redisVars, sweep, faults>>

CloseOwnRow(s) ==
    /\ pc[s] = "close"
    /\ Close({s})
    /\ Goto(s, "announce")
    /\ UNCHANGED <<home, wire, entered, holders, released, fresh, pk, serial, ptr,
                   port, globalVars, managerVars, redisVars, sweep, faults>>

\* Regression: the registry is not re-checked before the notice goes out.
AnnounceRegardless(s) ==
    /\ pc[s] \in {"announce", "unsaved"}
    /\ status' = IF s \in released /\ entered[s] THEN "gone" ELSE status
    /\ wire' = [wire EXCEPT ![s] = "down"]
    /\ released' = released \ {s}
    /\ Goto(s, IF pc[s] = "announce" THEN "done" ELSE "dead")
    /\ UNCHANGED <<home, entered, holders, dbVars, globalVars, managerVars, presence,
                   sweep, faults>>

\* runner_disconnected is published only if this handler unregistered the socket
\* and, re-checked with no await in between, nothing is registered here.
AnnounceGone(s) ==
    /\ pc[s] \in {"announce", "unsaved"}
    /\ status' = IF s \in released /\ entered[s] /\ reg[home[s]] = None
                 THEN "gone" ELSE status
    /\ wire' = [wire EXCEPT ![s] = "down"]
    /\ released' = released \ {s}
    /\ Goto(s, IF pc[s] = "announce" THEN "done" ELSE "dead")
    /\ UNCHANGED <<home, entered, holders, dbVars, globalVars, managerVars,
                   presence, sweep, faults>>

\* The database is away during teardown: the pointer write, the row write or both
\* are lost, logged and not retried.
CleanupDbError(s) ==
    /\ pc[s] \in {"clear", "close"}
    /\ Fault
    /\ (pc[s] = "clear" /\ Close({s})) \/ UNCHANGED row
    /\ Goto(s, "unsaved")
    /\ UNCHANGED <<home, wire, entered, holders, released, fresh, pk, serial, ptr,
                   port, globalVars, managerVars, redisVars, sweep>>

-----------------------------------------------------------------------------
(* connection_cleanup.cleanup_stale_connections: one run at a time, whichever *)
(* replica wins the scheduler's advisory lock.                                *)

SweepTo(l) == sweep' = [sweep EXCEPT !.pc = l]
\* The run goes on to the arms that have something to close.
SweepOn(S) == sweep' = IF S = {} THEN NoSweep
                       ELSE [sweep EXCEPT !.pc = IF S \cap Secondary = {} THEN "close" ELSE "age",
                                          !.stale = S]

\* The presence scan comes first; a failed scan skips the primary arm.
SweepScan(r) ==
    /\ sweep.pc = "idle"
    /\ \/ sweep' = [pc |-> "select", home |-> r, seen |-> presence, stale |-> {}]
          /\ UNCHANGED faults
       \/ sweep' = [pc |-> "select", home |-> r, seen |-> TRUE, stale |-> {}]
          /\ Fault
    /\ UNCHANGED <<handlerVars, dbVars, globalVars, managerVars, redisVars>>

SweepSelect ==
    /\ sweep.pc = "select"
    /\ SweepOn({s \in Open : IF s \in Secondary THEN s \notin fresh ELSE ~sweep.seen})
    /\ UNCHANGED <<handlerVars, dbVars, globalVars, managerVars, redisVars, faults>>

\* The secondary arm repeats its staleness test inside the UPDATE.
SweepCloseSecondaries ==
    /\ sweep.pc = "age"
    /\ Close((sweep.stale \cap Secondary) \ fresh)
    /\ SweepOn(sweep.stale \ Secondary)
    /\ UNCHANGED <<handlerVars, fresh, pk, serial, ptr, port, globalVars, managerVars,
                   redisVars, faults>>

SweepClosePrimaries ==
    /\ sweep.pc = "close"
    /\ Close(sweep.stale)
    /\ SweepTo("clear")
    /\ UNCHANGED <<handlerVars, fresh, pk, serial, ptr, port, globalVars, managerVars,
                   redisVars, faults>>

SweepClearPointer ==
    /\ sweep.pc = "clear"
    /\ ClearIfCurrent(sweep.stale)
    /\ SweepTo("unregister")
    /\ UNCHANGED <<handlerVars, row, fresh, pk, serial, port, globalVars, managerVars,
                   redisVars, faults>>

\* manager.unregister: whichever socket is registered on the sweep's replica.
SweepUnregister ==
    /\ sweep.pc = "unregister" /\ lock[sweep.home] = None
    /\ lock' = [lock EXCEPT ![sweep.home] = Sweeper]
    /\ \/ presence' = FALSE /\ UNCHANGED faults
       \/ Fault /\ UNCHANGED presence
    /\ SweepTo("finish")
    /\ UNCHANGED <<handlerVars, dbVars, globalVars, reg, entry, tasks, status>>

SweepFinish ==
    /\ sweep.pc = "finish"
    /\ reg' = [reg EXCEPT ![sweep.home] = None]
    /\ StopListener(sweep.home)
    /\ Unlock(sweep.home)
    /\ sweep' = NoSweep
    /\ UNCHANGED <<handlerVars, dbVars, globalVars, redisVars, faults>>

\* A database error ends the run where it is; the next one starts over.
SweepDbError ==
    /\ sweep.pc \in {"select", "age", "close", "clear"}
    /\ Fault
    /\ sweep' = NoSweep
    /\ UNCHANGED <<handlerVars, dbVars, globalVars, managerVars, redisVars>>

-----------------------------------------------------------------------------
(* The environment. *)

\* The runner goes away: a half-open connection ...
PeerSilent(s) ==
    /\ wire[s] = "up"
    /\ wire' = [wire EXCEPT ![s] = "silent"]
    /\ UNCHANGED <<pc, home, entered, holders, released, dbVars, globalVars,
                   managerVars, redisVars, sweep, faults>>

\* ... or a close the server sees; on a half-open one the idle ping fails at last.
WireDown(s) ==
    /\ wire[s] # "down"
    /\ HangUp({s})
    /\ UNCHANGED <<pc, home, entered, holders, released, dbVars, globalVars,
                   managerVars, redisVars, sweep, faults>>

\* A listener task ends by itself when its send finds the socket gone, or (a
\* fault) when its Redis connection fails; its entry stays, nothing restarts it.
ListenerEnds(s) ==
    /\ s \in tasks
    /\ \/ wire[s] = "down" /\ UNCHANGED faults
       \/ Fault
    /\ tasks' = tasks \ {s}
    /\ UNCHANGED <<handlerVars, dbVars, globalVars, reg, entry, lock, redisVars, sweep>>

\* SECONDARY_STALE_AFTER passes without a stamp on the row.
RowAges(s) ==
    /\ s \in fresh \cap Secondary /\ IsOpen(s)
    /\ fresh' = fresh \ {s}
    /\ UNCHANGED <<handlerVars, row, pk, serial, ptr, port, globalVars, managerVars,
                   redisVars, sweep, faults>>

\* The presence TTL runs out: no heartbeat of a live socket refreshes the key.
Refreshes(s) == /\ pc[s] \in InLoop \cup {"listen", "publish", "ack"} /\ wire[s] = "up"
                /\ s \in Secondary => reg[home[s]] = s
PresenceExpires ==
    /\ presence
    /\ \A s \in Sockets : ~Refreshes(s)
    /\ presence' = FALSE
    /\ UNCHANGED <<handlerVars, dbVars, globalVars, managerVars, status, sweep, faults>>

\* A replica dies: its handlers run no cleanup and its memory is gone.
Restart(r) ==
    /\ Fault
    /\ LET lost == {s \in Sockets : home[s] = r /\ pc[s] \notin Ended}
       IN  /\ pc' = [s \in Sockets |-> IF s \in lost THEN "dead" ELSE pc[s]]
           /\ HangUp(lost)
           /\ live' = {s \in live : home[s] # r}
           /\ tasks' = {s \in tasks : home[s] # r}
    /\ pending' = {g \in pending : g[1] # r}
    /\ reg' = [reg EXCEPT ![r] = None]
    /\ entry' = [entry EXCEPT ![r] = None]
    /\ Unlock(r)
    /\ sweep' = IF sweep.home = r THEN NoSweep ELSE sweep
    /\ UNCHANGED <<home, entered, holders, released, dbVars, redisVars>>

-----------------------------------------------------------------------------
Handshake(s) ==
    \/ \E r \in Replicas : Connect(s, r)
    \/ ReadHolders(s) \/ ProbeAnswered(s) \/ ProbeSilent(s)
    \/ CloseHolders(s) \/ EvictHolders(s)
    \/ InsertRow(s) \/ LoseInsertRace(s) \/ Adopt(s)
    \/ UpsertDevice(s) \/ TakePointer(s) \/ HandshakeDbError(s)

Registration(s) ==
    \/ ClaimUnheld(s)
    \/ RegisterPrimary(s) \/ RegisterIfUnowned(s) \/ ConfirmEntitled(s)
    \/ Install(s) \/ StartListener(s) \/ PublishConnected(s)
    \/ RegisterError(s) \/ YieldClaim(s) \/ Ack(s)

Loop(s) ==
    \/ Heartbeat(s) \/ HealGate(s) \/ Heal(s) \/ HeartbeatDbError(s)
    \/ Disconnect(s)

Cleanup(s) ==
    \/ Teardown(s) \/ UnregisterIfCurrent(s) \/ FinishUnregister(s)
    \/ ClearOwnPointer(s) \/ CloseOwnRow(s) \/ AnnounceGone(s) \/ CleanupDbError(s)

Sweep ==
    \/ \E r \in Replicas : SweepScan(r)
    \/ SweepSelect \/ SweepCloseSecondaries \/ SweepClosePrimaries
    \/ SweepClearPointer \/ SweepUnregister \/ SweepFinish \/ SweepDbError

Environment ==
    \/ \E s \in Sockets : PeerSilent(s) \/ WireDown(s) \/ ListenerEnds(s) \/ RowAges(s)
    \/ PresenceExpires
    \/ \E r \in Replicas : Restart(r)

Next ==
    \/ \E s \in Sockets : Handshake(s) \/ Registration(s) \/ Loop(s) \/ Cleanup(s)
    \/ Sweep
    \/ Environment

Spec == Init /\ [][Next]_vars

\* What scheduling guarantees when nothing fails: a handler whose next step can
\* run takes it (runners keep heartbeating, the server notices a closed wire),
\* the ping the receive loop sends after 120 idle seconds fails on a half-open
\* wire, asyncio.Lock serves its waiters in order, a sweep run goes on to its
\* end, and the scheduler keeps starting runs.
Advance(s) ==
    /\ pc[s] # "new"
    /\ Handshake(s) \/ Registration(s) \/ Loop(s) \/ Cleanup(s)
    /\ UNCHANGED faults
GetsLock(s) == RegisterPrimary(s) \/ RegisterIfUnowned(s)
                 \/ (UnregisterIfCurrent(s) /\ UNCHANGED faults)

HandlerFairness ==
    \A s \in Sockets : /\ WF_vars(Advance(s)) /\ SF_vars(GetsLock(s))
                       /\ WF_vars(wire[s] = "silent" /\ WireDown(s))
SweepFairness == SF_vars(SweepUnregister /\ UNCHANGED faults) /\ WF_vars(Sweep /\ UNCHANGED faults)

-----------------------------------------------------------------------------
(* Properties. *)

\* Every variable has its type; a handler past its first step runs on a replica.
TypeOK ==
    /\ pc \in [Sockets -> Steps]
    /\ home \in [Sockets -> Replicas \cup {None}]
    /\ \A s \in Sockets : pc[s] # "new" => home[s] \in Replicas
    /\ wire \in [Sockets -> {"up", "silent", "down"}]
    /\ entered \in [Sockets -> BOOLEAN]
    /\ holders \in [Sockets -> SUBSET Sockets]
    /\ released \subseteq Sockets
    /\ row \in [Sockets -> {"none", "open", "closed"}]
    /\ fresh \subseteq Sockets
    /\ pk \in [Sockets -> Nat] /\ serial \in Nat
    /\ ptr \in Sockets \cup {None}
    /\ port \in {Port[s] : s \in Sockets} \cup {None}
    /\ live \subseteq Sockets
    /\ pending \subseteq Replicas \X ({Key[s] : s \in Sockets} \ {NoKey})
    /\ reg \in [Replicas -> Sockets \cup {None}]
    /\ entry \in [Replicas -> Sockets \cup {None}]
    /\ tasks \subseteq Sockets
    /\ lock \in [Replicas -> Sockets \cup {None, Sweeper}]
    /\ presence \in BOOLEAN /\ status \in {"connected", "gone"}
    /\ sweep \in [pc : {"idle", "select", "age", "close", "clear", "unregister", "finish"},
                  home : Replicas \cup {None}, seen : BOOLEAN, stale : SUBSET Sockets]
    /\ faults \in Nat

\* Two handshakes reporting the same instance key never run at once on a replica
\* (_PENDING_KEYS), so neither can read the other's half-registered socket.
HandshakeExclusion ==
    \A s, t \in Sockets :
        InGuard(s) /\ InGuard(t) /\ GuardOf(s) = GuardOf(t) /\ Key[s] # NoKey => s = t

\* Every exit of a handshake, error paths included, discards its pending key: an
\* entry left behind would refuse that runner until the process restarts.
GuardReleased ==
    \A g \in pending : \E s \in Sockets : InGuard(s) /\ GuardOf(s) = g

\* Whenever nobody is inside the registration lock, the listener entry names the
\* registered socket and no other task of this replica forwards frames.
ListenerFollowsRegistry ==
    \A r \in Replicas : lock[r] = None =>
        /\ entry[r] = reg[r]
        /\ \A s \in tasks : home[s] = r => s = reg[r]

\* At no instant, not even while a registration replaces another, do two tasks of
\* a replica forward the device's relayed frames: two runners would execute them.
SingleForwarder ==
    \A s, t \in tasks : home[s] = home[t] => s = t

\* A handler that ran to its end left nothing behind in any of the stores.
NoResidue ==
    \A s \in Sockets : pc[s] = "done" =>
        /\ s \notin live /\ s \notin tasks /\ ptr # s /\ ~IsOpen(s)
        /\ \A r \in Replicas : reg[r] # s /\ entry[r] # s

\* A handler's teardown, at every one of its steps, takes down its own pointer,
\* registration and listener only: never those of the socket that replaced it.
TeardownSparesNewer ==
    [][\A s \in Sockets : Cleanup(s) =>
         /\ ptr' \in {ptr} \cup (IF ptr = s THEN {None} ELSE {})
         /\ \A r \in Replicas : reg[r] # s => reg'[r] = reg[r] /\ entry'[r] = entry[r]
         /\ tasks \ tasks' \subseteq {s}]_vars

\* Barring faults, a handshake never closes the row of a socket of this replica
\* whose receive loop is running on a live wire: the impostor is refused instead.
SupersedeSparesAlive ==
    [][\A s \in Sockets : CloseHolders(s) /\ faults = 0 =>
         \A h \in holders[s] : ~(IsOpen(h) /\ home[h] = home[s] /\ wire[h] = "up"
                                 /\ pc[h] \in InLoop)]_vars

\* A registered socket that has announced itself is never shown as gone to the
\* clients (one replica, no faults): late notices of older sockets are withheld.
NoFalseGone ==
    faults = 0 => \A r \in Replicas : reg[r] # None /\ pc[reg[r]] \in {"ack"} \cup InLoop
                                         => status = "connected"

\* Why: the notice goes out once the registration is complete, and a late "gone" needs
\* an empty registry.
ShownInv ==
    faults = 0 => \A r \in Replicas : reg[r] # None /\ pc[reg[r]] \notin {"listen", "publish"}
                                         => status = "connected"

\* Why the handshake and manager invariants hold, in a form every step preserves.
\* The receive loop runs inside the try block whose finally is the teardown, and
\* the handshake before it.
EnteredInv ==
    \A s \in Sockets : /\ pc[s] \in InLoop => entered[s]
                       /\ pc[s] \in Guarded \cup {"new"} => ~entered[s]

\* A keyed handshake under way has its pair in _PENDING_KEYS.
GuardHeld == \A s \in Sockets : InGuard(s) /\ Key[s] # NoKey => GuardOf(s) \in pending
GuardInv  == HandshakeExclusion /\ GuardHeld /\ GuardReleased

\* Where the registered socket's handler can be.
Holding == {"listen", "publish", "yield", "ack", "teardown", "unreg", "unregistering"}
             \cup InLoop

\* Who is inside the registration lock holds it.
LockHeld ==
    /\ \A s \in Sockets : pc[s] \in Locked => lock[home[s]] = s
    /\ sweep.pc # "idle" => sweep.home \in Replicas
    /\ sweep.pc = "finish" => lock[sweep.home] = Sweeper

\* The registry names a socket of its own replica whose handler still runs, and
\* nobody changes it under a registration in progress.
RegistryOwned ==
    /\ \A r \in Replicas : reg[r] # None => home[reg[r]] = r /\ pc[reg[r]] \in Holding
    /\ \A s \in Sockets : pc[s] \in {"listen", "unregistering"} => reg[home[s]] = s
    /\ \A s \in Secondary : pc[s] \in {"entitle", "install"} => reg[home[s]] = None

\* The listener entry is empty from the moment a registration has stopped the old
\* listener until it starts its own, and otherwise follows the registry.
Replacing(r) == \E s \in Sockets : home[s] = r /\ pc[s] \in {"install", "listen"}
ListenerOwned ==
    /\ \A r \in Replicas : entry[r] = IF Replacing(r) THEN None ELSE reg[r]
    /\ \A s \in tasks : home[s] \in Replicas /\ entry[home[s]] = s

ManagerInv == LockHeld /\ RegistryOwned /\ ListenerOwned

\* How long a handler's row, its place in _LIVE_SOCKETS and its claim of the pointer
\* last: each is taken at one step of the handshake and given up at one of the teardown.
BeforeRow == {"new", "resolve", "probe", "supersede", "evict", "insert"}
Unadopted == BeforeRow \cup {"adopt"} \cup (Leaving \ {"teardown"}) \cup Ended
Span(s) ==
    /\ pc[s] \in BeforeRow => row[s] = "none"
    /\ IsOpen(s) => pc[s] \notin {"announce", "done"}
    /\ s \in live => pc[s] \notin Unadopted
    /\ IsOpen(s) /\ pc[s] \notin Unadopted => s \in live
    /\ ptr = s => ~InGuard(s) /\ pc[s] \notin {"new", "close", "announce", "done"}
SpanInv == \A s \in Sockets : Span(s)

\* The holders a handshake read are recorded sockets with its key; those it supersedes
\* stay silent, as nobody re-enters the loop or adopts a socket under its guard.
HolderInv ==
    \A s \in Sockets :
      /\ pc[s] \in {"resolve", "probe", "supersede", "evict"} => Key[s] # NoKey
      /\ pc[s] \in {"probe", "supersede", "evict"} => \A h \in holders[s] :
           /\ Key[h] = Key[s] /\ row[h] # "none"
           /\ pc[s] = "supersede" /\ faults = 0 => ~CanAnswer(s, h)
           /\ pc[s] = "evict" => row[h] = "closed"

\* The inductive invariant: the guard, the lock, the registry, the listener and the
\* spans agree at every step of every handler, not only when the lock is free.
HandlerInv == EnteredInv /\ GuardInv /\ ManagerInv /\ SpanInv /\ HolderInv

\* The manager's registry on each replica is a slot with one owner: a secondary
\* registers only where no other socket is registered, an ended handler's socket
\* is not registered.
Slot(r) == INSTANCE OwnedSlot WITH
    Clients <- Sockets, Yielding <- Secondary, Nobody <- None,
    owner <- reg[r], gone <- {s \in Sockets : pc[s] \in Ended}
RegistryImplementsSlot ==
    /\ \A r \in Replicas : Slot(r)!Init
    /\ [][\A r \in Replicas : [Slot(r)!Next]_<<reg[r], {s \in Sockets : pc[s] \in Ended}>>]_vars

\* Every handler is idle in its loop over an open row and a live wire, or ended.
Settled ==
    /\ \A s \in Sockets : \/ pc[s] = "serve" /\ wire[s] = "up" /\ IsOpen(s)
                          \/ pc[s] \in Ended \cup {"new"}
    /\ sweep.pc = "idle"
    /\ \A r \in Replicas : lock[r] = None

\* The device whose runners so far are all secondaries.
OnlySecondaries == \A s \in Sockets : pc[s] # "new" => s \in Secondary

\* When everything is settled, barring faults, the pointer names a socket the manager
\* can send to: otherwise the relay gate passes and every dispatch hangs until its
\* timeout. It does so until a primary connects.
RoutablePointer ==
    faults = 0 /\ OnlySecondaries /\ Settled /\ ptr # None => reg[home[ptr]] = ptr

\* Why, where only secondaries have connected and nothing has failed yet: who holds
\* the pointer is registered, or on its way in or out. No step empties the registry
\* under it, as the sweep has no primary to close and an installation finds it empty.
RouteInv ==
    faults = 0 /\ OnlySecondaries =>
      /\ \A s \in Sockets : /\ pc[s] \notin {"upsert", "take", "unsaved", "dead"}
                            /\ pc[s] = "heal" => reg[home[s]] = s
                            /\ ptr = s => \/ reg[home[s]] = s
                                          \/ pc[s] \in {"register", "entitle", "install",
                                                        "yield", "clear"}
      /\ sweep.pc \in {"idle", "select", "age"} /\ sweep.stale \subseteq Secondary

\* The owner rule of devices_ws.py: a secondary never displaces a live holder.
SecondaryNeverDisplaces ==
    [][ptr' # ptr /\ ptr' \in Secondary => ptr \notin Open]_vars

\* Pointer and port are written together, so they describe the same socket.
PortFollowsPointer ==
    Settled /\ ptr # None => port = Port[ptr]

\* The sweep takes down the registration of sockets it declared stale, not of one
\* that connected while it ran.
SweepSparesNewer ==
    [][SweepFinish => reg[sweep.home] \in sweep.stale \cup {None}]_vars

\* A socket whose row was closed under it (a supersede on another replica, the
\* sweep) does not go on serving: it is closed, so that the runner reconnects.
RowlessSocketLeaves ==
    \A s \in Sockets : pc[s] = "serve" /\ row[s] = "closed" ~> pc[s] \in Ended

\* A handler that started a handshake or a teardown comes out of it.
HandlersSettle ==
    \A s \in Sockets : pc[s] \notin InLoop \cup Ended \cup {"new"}
                          ~> pc[s] \in InLoop \cup Ended

\* While some socket stays connected for good, the device does not stay
\* unroutable: again and again the pointer names the socket its manager holds.
StaysConnected(s) == wire[s] = "up" /\ pc[s] \notin Ended \cup Leaving \cup {"new"} /\ IsOpen(s)
RoutableAgain ==
    \A s \in Sockets : <>[]StaysConnected(s)
                          => []<>(ptr # None /\ reg[home[ptr]] = ptr)
=============================================================================
