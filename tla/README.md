# TLA+ verification of qontinui-web

`qontinui-web` is a FastAPI backend (`backend/app`) and a Next.js frontend
(`frontend/src`). A *runner* on a user's machine keeps a WebSocket to the backend;
phones and browsers reach the machine through that socket. This project models the
parts of the system that keep state across awaits, tabs, sockets and restarts:

* on the backend, who owns a device at any moment, and whether the stores that answer
  that question stay consistent (`DeviceRelay`);
* in the browser, the offline screenshot queue, the Cognito session, the
  synchronisation and the loading of projects, the operational transform behind
  collaborative editing, and the chat with a runner, with the backend's chat relay
  below it.

Paths are under `src/backend/app/` in sections 1 to 3 and under `src/frontend/src/`
from section 4 on, unless they start with `src/`.

## 1. Inventory

| Component | State | Operations | Interacts with |
|---|---|---|---|
| Device socket handler, `api/v1/endpoints/devices_ws.py` | `_LIVE_SOCKETS` (pk -> socket), `_PENDING_KEYS` ((device, key) pairs), `_PROBES`, background closes | handshake, duplicate-key probe, claim, ack, heartbeat, teardown | rows and pointer (SQL), manager (calls), other handlers (globals, probe replies) |
| Device row and connection rows, `crud/device_crud.py`, `crud/device_connection.py` | `ws_session_id` (the pointer), `ws_connected_at`, `port`; one row per socket, `disconnected_at`, `last_seen_at` | five guarded pointer writes, insert, close, stamp | shared by all replicas |
| Runner manager, `services/runner_websocket_manager.py` | registry, inbound listeners, send locks, one registration lock per device | `register`, `register_if_unowned`, `unregister`, `unregister_if_current`, rollback, notices, publish | Redis pub/sub, registry, relays |
| Presence, `services/runner/state_repository.py` | Redis keys with a TTL | save, delete, scan, refresh | manager, sweep |
| Sweep, `jobs/connection_cleanup.py` | none of its own | closes stale rows, clears pointers, unregisters | database, manager, presence |
| Scheduler, `core/scheduler.py` | advisory lock, run history | one run of a job at a time | every job |
| Command, chat and terminal relays, `services/runner/*_relay.py` | subscriptions, subscriber counts, waiting requests | subscribe, publish, dispatch and wait, fulfil a wake intent | manager, Redis |
| Remote terminal relay, `services/runner/remote_relay/` | Redis claims, grants, pending ends, per-socket attachments | open, bind, forward, end, expire, release | manager, Redis |
| Locks, `services/distributed_lock_service.py`, `services/collaboration/locking_service.py` | Redis keys, lock rows | acquire, refresh, release | API, collaboration sockets |
| Collaboration, `websockets/collaboration/`, `src/frontend/src/services/websocket-collaboration-service.ts` | rooms, sequence numbers, out-of-order buffer | join, edit, ack, resend | browsers |
| Jobs and queue, `jobs/`, `worker/` | due occurrences, leases, arq queue | dispatch, archive, retry | database, Redis |
| REST API, migrations | database rows | one transaction per request | everything above |
| Offline queue, `src/frontend/src/lib/sync-queue.ts`, `lib/sync-processor.ts`, `lib/offline-screenshot-upload.ts` | IndexedDB stores shared by the tabs, one `processing` flag per tab | enqueue, process, retry, cancel, clear | upload API, Background Sync, other tabs |
| Browser session, `src/frontend/src/services/auth/`, `services/http-client.ts`, `contexts/auth-context.tsx` | tokens per tab; marker and expiry shared through localStorage | boot, refresh, proactive timer, 401 handling, sign-in, sign-out | Cognito, every request, other tabs |
| Project sync, `src/frontend/src/lib/sync/` | base version, pending changes, state machine | track, flush, conditional save, reload, lock events | project row, import jobs, sync socket |
| Project loader, `src/frontend/src/lib/project/`, `stores/automation/` | loading state, store, debounced IndexedDB copy | load, retry, hydrate, choose, create | project row, URL, sidebar |
| Operational transform, `src/frontend/src/services/collaboration/` | optimistic operation per editor | apply, transform, invert, compose, confirm | other editors |
| Chat pages, `src/frontend/src/hooks/useChatWebSocket.ts`, `app/(app)/digital-twin/_components/AskTheTwin.tsx`, the `chat/[id]` page | socket, timers, messages, pending create, queued question | connect, reconnect, reload, ask, stream | chat relay `api/v1/endpoints/runner_chat_ws.py`, `services/runner/chat_relay.py`, runner |
| Other pages | what they fetched | render | REST API |

What makes each correct, and what is hard in it:

* **Handler, rows, manager, presence, sweep.** The device has one owner; four
  stores (pointer, registry, listener, presence) must agree on it although every
  update is several awaits long, handlers of the same device interleave, a socket
  may be half-open, replicas share only the database and Redis, and any call may
  fail. Older sockets' teardowns run at any later time.
* **Offline queue.** No screenshot leaves the queue before the server has it, although
  tabs write items back from stale copies and a tab may close at any point.
* **Browser session.** A live session is renewed before it lapses, no failure ends one
  that need not end, and requests that wait for an exchange are all released.
* **Project sync.** No other writer's work is overwritten, whatever the order of
  answers; what the status calls saved is saved; a lock ends.
* **Project loader.** An edit is kept, under the project it was made in, through loads,
  retries, failed saves and debounce timers.
* **Operational transform.** Both editors end with one document, in which nothing is lost.
* **Chat.** One socket, to the right runner; an answer stands under its question and
  ends, through lost sockets and a runner that goes away.
* **Relays, remote terminal, locks, collaboration, jobs** (not modelled). Late responses
  against subscriptions; claims and ends settled once; check and delete of a lock as
  separate Redis calls; gaps in sequence numbers; at-most-once dispatch.

`PROJECT.json` lists all components with their status, and under `hazards` what is
hard to test, each at its line.

## 2. Plan

| Order | Module | Content | Status |
|---|---|---|---|
| 1 | `DeviceRelay`, `OwnedSlot` | ownership of a device: handlers, database, manager, presence, sweep | done, with proofs |
| 2 | `OfflineQueue` | the offline screenshot queue | done, with proofs |
| 3 | `SessionRefresh` | tokens, refresh, 401s, tabs | done, with proofs |
| 4 | `ProjectSync` | coordinator, trackers, lock, row | done, with proofs |
| 5 | `ProjectLoader` | loads, retries, local copy, row | done, with proofs |
| 6 | `OperationalTransform` | transform functions and their use by two editors | done, with proofs |
| 7 | `ChatSocket` | the life of the chat page's socket | done, with proofs |
| 8 | `ChatConversation` | one conversation: page, relay, runner | done, with proofs |
| 9 | `ScheduledJobs` | due occurrences, advisory lock, the archiver's leases | left |
| 10 | `RunnerNotices` | `_notify_unregistered`, frontend and mobile registration, send lock | left |
| 11 | `CommandDispatch` | dispatch and wait, late answers, terminal subscriber count, wake intents | left |
| 12 | `RemoteTerminal` | claim, bind, end, TTL, disconnect; abstract "settled once" | left |
| 13 | `ProjectLocks` | Redis and database locks against an abstract lease; collaboration sequencing | left |

Each module `M` has its instances in `MCM` and its theorems in `M_proofs`. `OwnedSlot`
is the one abstract specification; no module composes two of the others, which meet
only through the REST API.

Theorem left: that the pointer of a device with a primary is never cleared but by its
owner's side.

### How to read the modules

* An action is the code between two awaits whose order others can see; its comment names
  the function.
* A definition marked *Regression*, or one that stands beside another under a name that
  says how it differs (`MatchesAny` beside `Matches`), is a plausible mistake in the
  operation that follows it. Each property of a run fails under one of them (`mutants` in
  `PROJECT.json`).
* Several runs check more than one instance: a variable `scene` of the MC module, chosen
  by the first state, selects the instance (`INSTANCE ... WITH` its own bounds, or a
  restriction of its steps), and a property of one instance is prefixed by `scene = "..."
  =>`. In `ProjectLoader` the same choice is a variable `setting` of the module itself.
  The passing runs together fire every action.
* A property that the code keeps only in some behaviours says in which: its hypothesis is
  a state predicate or a history variable of the module (`Unfailed`, `Patient`, `alone`,
  `Mergeable`, `overlapped`, `overtaken`, `hasty`, `crossed`), so that the run and the
  theorem are about one statement, and the run has the behaviours in which the hypothesis
  ends. The history variables stand apart: the actions make up `Step`, which neither reads
  nor writes them, `Record` keeps them, and `Next == Step /\ Record`. Constants are sets,
  bounds and kinds of page; where a scene or the specification of a run leaves steps out,
  the paragraph on the run says which. The general statement stands beside the property
  and is refuted under *statements not kept*.
* Each section ends with *statements not kept*: what a comment or a name in the code
  promises, stated as a definition of the module, and refuted by TLC in an instance with
  the constants given there. They are kept so that a later change of the code can be
  checked against them; only `secondary_displaces` is a run of the project. Such a
  statement is checked by adding its name to a `.cfg` of its module.
* `TypeOK` is proved for every module but `OperationalTransform`, where it holds in the
  instances of `ot` (add it to the `.cfg`). In the same way TLC has confirmed, in the
  instances named here, what only a proof uses or states: `AloneInv` and `AloneBackoff`
  (`queue`), `BaseContained` (`sync`), `HomeInv`, `EditsInv` and `ChoiceInv` under
  `Undisturbed`, `Patient` and `Unfailed` (`loader`), `ComposeAgreesOnTexts` and
  `PathFollowsKept` (`ot`), `RouteInv` (`lone_secondary`), `ShownInv` (`contention`), the
  chat invariants `Typed`, `OwnInv`, `ProbeInv` (the instances of `twin`) and `MissInv`
  (the instance of `loaded`); and the definitions an MC module states and no `.cfg` names
  (`RenewalArmedAlone`, `OneConflictIsForeign`, `TwinNoTwice`, `ReloadQueuedSent`).

## 3. Device relay: `DeviceRelay`, `OwnedSlot`

`DeviceRelay` is about one device. Each runner socket is a process with a program
counter `pc[s]`; an action is the code between two awaits whose order others can
see, so that every await of the handshake, the registration and the teardown is a
place where another handler, the sweep or a failure may come in.

| Variables | Code |
|---|---|
| `pc`, `home` | where the handler is, and on which replica it runs |
| `wire` | the connection: `up`, `silent` (half-open, nothing arrives), `down` |
| `entered` | the `connected` ack was reached; tells a claim in the handshake from one in a heartbeat |
| `holders` | the local `holders` of `_resolve_instance_key_conflict` |
| `released` | the local `unregistered` of `_cleanup` |
| `row`, `fresh`, `pk`, `serial` | the connection row, whether it was stamped within `SECONDARY_STALE_AFTER`, its id |
| `ptr`, `port` | `ws_session_id` and `port` of the device row |
| `live`, `pending` | `_LIVE_SOCKETS`, `_PENDING_KEYS` (the latter per replica) |
| `reg`, `entry`, `tasks`, `lock` | the manager's registry, the `_inbound_listeners` entry, the listener tasks that run, the registration lock |
| `presence` | the Redis presence key |
| `status` | the last of `runner_connected`, `runner_disconnected` that was published |
| `sweep` | the sweep's place, replica, scan result and stale rows |
| `faults` | injected failures so far |

The actions come in the order of the code:

* **Handshake**: `Connect` (guard), `ReadHolders`, `ProbeAnswered`/`ProbeSilent`,
  `CloseHolders`, `EvictHolders`, `InsertRow`/`LoseInsertRace`, `Adopt`,
  `UpsertDevice`, `TakePointer` or `ClaimUnheld`, `HandshakeDbError`.
* **Registration**: `RegisterPrimary` or `RegisterIfUnowned`, `ConfirmEntitled`,
  `Install`, `StartListener`, `PublishConnected`, `RegisterError`, `YieldClaim`, `Ack`.
* **Loop**: `Heartbeat`, `HealGate`, `Heal`, `HeartbeatDbError`, `Disconnect`; a
  secondary's heartbeat goes through `ClaimUnheld` and the registration again.
* **Cleanup**: `Teardown`, `UnregisterIfCurrent`, `FinishUnregister`,
  `ClearOwnPointer`, `CloseOwnRow`, `AnnounceGone`, `CleanupDbError`. The
  failed-registration path of the endpoint takes the same steps.
* **Sweep**: eight actions, one per await.
* **Environment**: `PeerSilent`, `WireDown`, `ListenerEnds`, `RowAges`,
  `PresenceExpires`, `Restart`.

`OwnedSlot` is what the registry promises: a slot with one owner, which a yielding
client takes only when it is vacant, and which a departed client does not own.
`RegistryImplementsSlot` maps each replica's `reg` to it, with the secondaries as
the yielding clients and the ended handlers as the departed ones.

### Abstractions

* The device row exists (`ensure_device_for_secondary` and the first upsert are
  left out); its status fields are not modelled.
* A row's id is drawn when its insert commits. `Install` joins the registry write
  with the presence save that follows under the same lock; a failed save shows as
  `RegisterError` one step later, with every outcome for the key. A publish is one step.
* A heartbeat's gate on the manager is read together with its stamp; `HealGate`,
  which the code reads again after its awaits, is a step of its own.
* A probe sends to a holder whose receive loop may answer within five seconds; an
  alive holder that answers later is a fault.
* The close of an evicted socket runs in a background task: `WireDown` at any time.
* `CleanupDbError` stands for the loss of the pointer write, the row write or both;
  the handler ends as `dead`, as after `Restart`.
* A failure to reach Redis before a registration (`get_redis`) applies to pointer
  owners; a socket that owns nothing has nothing to undo but its row.
* A NULL instance key is `NoKey`; it takes neither the guard nor the unique index.
* Left out: the send lock and the per-viewer notices, the metadata key, the
  remote-terminal release, auto-enrolment, wake intents.

### Runs

`MCDeviceRelay` names the instances; each `.cfg` is one question.

| Run | Instance | Shows |
|---|---|---|
| `owner_change` | primary and secondary, one replica, sweep, one fault of any kind; 1.5 million states | one forwarder, nothing left by a finished handler, no teardown of a newer socket, refinement of `OwnedSlot` |
| `contention` | two scenes: a primary reconnecting with its key, half-open connections, sweep, restarts, one fault; and a keyed primary, a legacy primary and a secondary, handlers only; 2 million states | a live holder is refused for, not superseded (`SupersedeSparesAlive`); no late notice shows a served device as gone (`NoFalseGone`); the inductive invariant `HandlerInv` |
| `replicas` | two sockets of one primary on two replicas; no sweep, no fault, fair; 35 thousand states | a rowless socket leaves, handlers settle |
| `lone_secondary` | two sockets of one secondary, sweep, no fault, fair; 155 thousand states | `RoutablePointer` (until a primary connects, which here none does), `RoutableAgain` |
| `secondary_displaces` | a primary and a secondary, no fault | a violation, below |

`secondary_displaces`: a primary inserts its row, a secondary connects, claims and
registers, the primary takes the pointer, the secondary's heartbeat heals: its row
is newer, so `claim_ws_session` gives it the pointer of a live primary.
`devices_ws.py:144`: "a secondary never displaces a live holder".

Statements not kept:

| Statement | Line | What happens |
|---|---|---|
| `RoutablePointer` with two primaries | `services/runner_websocket_manager.py:212` | A handshake took the pointer and waits to register; its runner drops and reconnects, the new handshake supersedes it, takes the pointer and registers; the old one then replaces it in the manager, fails its ack and unregisters itself. The pointer names the new socket, nothing is registered, and dispatches hang until the sweep closes the row. |
| `SweepSparesNewer` | `jobs/connection_cleanup.py:173` | A socket connects after the presence scan and before the sweep's `unregister`, which removes its registration. |
| `PortFollowsPointer` with distinct ports | `crud/device_crud.py:312` | A heal writes the pointer and not the port. |

#### Bounds

* **Sockets**: two or three. The hazards are pairwise: an older and a newer socket, a
  primary and a secondary. Three are needed where a third party profits from an
  empty slot, and the second scene of `contention` has the three kinds of claim.
* **Replicas**: one, or two in `replicas`. Guard, lock and registry are per process;
  two replicas show what they share.
* **`MaxFaults`**: one in the safety runs, which puts one failure of any kind (database,
  Redis, late answer, restart, listener death) at every point of every interleaving;
  none in the liveness runs, whose properties a failure may legitimately defeat: that
  handlers settle after a fault is not checked, only, in `HandlerInv`, that a lock is held
  by a handler whose next steps release it.
* A socket connects once. A runner that reconnects is another member of `Sockets`.
* **What each instance leaves out** to stay small is named in `MCDeviceRelay`: the sweep,
  restarts and ageing in `replicas` and in the second scene of `contention` (the others
  have the sweep); half-open connections in `owner_change`, `lone_secondary` and that
  scene (`replicas` and the reconnecting primary have them: it is there that a probe
  asks whether a holder is alive).

Without the sweep the system stops once every handler has ended, so `contention` and
`replicas` do not check for deadlock; the others do.

#### Fairness

* `WF(Advance(s))`: asyncio resumes a handler whose next step can run. In the loop
  this says that a connected runner goes on sending heartbeats (every 30 s).
* `SF(GetsLock(s))`: `asyncio.Lock` serves its waiters first in, first out, so a waiter
  passed over while others hold the lock gets it.
* `WF(WireDown(s))` on a half-open wire: the loop's ping after 120 idle seconds fails
  once TCP gives up.
* `SF` of the sweep's lock step and `WF` of the rest: the scheduler starts the sweep
  every 60 s and a run goes on to its end.

None of them asks for a fault, for a runner to connect or for one to leave.

### Proofs

`DeviceRelay_proofs` holds for every set of sockets and
replicas, every assignment of keys and ports and every number of faults. It uses
`SocketAssumption` (secondaries are sockets, sentinels are neither sockets nor replicas);
`ClaimAssumption`, how keys go with roles, constrains the instances only. One theorem is
about a part of the deployments: `NeverFalselyGone` has one replica (`status` is one
channel, and two replicas announce on it independently). `Routable` speaks of behaviours
until a primary connects (`OnlySecondaries`; with primaries the statement is false, see above).

| Theorem | States |
|---|---|
| `Typing` | `Spec => []TypeOK` |
| `Exclusion` | `Spec => []HandshakeExclusion` |
| `Release` | `Spec => []GuardReleased` |
| `Inductive` | `Spec => []HandlerInv` |
| `ListenerFollows` | `Spec => []ListenerFollowsRegistry` |
| `OneForwarder` | `Spec => []SingleForwarder` |
| `TeardownSpares` | `Spec => TeardownSparesNewer` |
| `ImplementsSlot` | `Spec => RegistryImplementsSlot` |
| `NothingLeft` | `Spec => []NoResidue` |
| `SparesAlive` | `Spec => SupersedeSparesAlive` |
| `NeverFalselyGone` | `Spec => []NoFalseGone`, on one replica |
| `Routable` | `Spec => []RoutablePointer` |

**The guard.** `HandshakeExclusion` and `GuardReleased` are not inductive alone: a
handshake that leaves discards its *pair*, which would release another's guard, and a
newcomer is refused by the pair, not by the handshake. `GuardHeld` (a keyed handshake
under way has its pair pending) closes the circle, and `EnteredInv` tells a guarded
claim in the handshake from the unguarded one in a heartbeat. Every step keeps all
guards (`KeepsGuards`), leaves one (`LeavesGuard`), enters one where the pair is free,
or is a restart.

**The manager.** `ListenerFollowsRegistry` speaks only of moments when the lock is free;
to carry it through the lock one needs what holds inside. `LockHeld`: whoever is inside
holds the lock of its replica, hence nobody else is. `RegistryOwned`: the registered
socket belongs to the replica and its handler is at a place from which it will unregister
itself; a handler inside its teardown or its listener start is registered; a secondary past
the check finds the registry empty. `ListenerOwned`: the entry is empty between the stop
of the old listener and the start of the new one and is otherwise the registry's, and
a task that runs is the one its entry names. Most steps are `Quiet`: they leave lock, registry
and entry alone and move handlers outside the lock; the nine others are proved one by one.

**Consequences.** `TeardownSpares` follows because a handler that finishes its
teardown is still the registered one and its entry is its own. `ImplementsSlot` follows
because only `Install` writes a new owner, an ended handler never runs again
(`EndedStays`) and `RegistryOwned` keeps ended handlers out of the registry.

**The database.** What a handler leaves in the stores outlives its steps, so the proofs need
the *span* of each trace: `SpanInv` says between which places of its handler a socket's row
is open, its entry is in `_LIVE_SOCKETS` and the pointer may name it. `NothingLeft` is its
reading at the last place of a handler that ran to its end (`done`), with `RegistryOwned`
for the registry; of one that died it says nothing. `HolderInv` follows what a handshake has
read: its holders are recorded sockets with its own key, and one that is about to be
superseded could not answer. That lasts, while nothing fails, because only a handler's own
adoption makes a socket able to answer and the guard keeps every other handshake of the key
out; `SparesAlive` is the step that uses it.

**Notice and pointer.** `ShownInv` strengthens `NoFalseGone` to the places between
the registration and its notice, where a late `runner_disconnected` is withheld by
the re-check of the registry. `RouteInv` says where a socket that holds the pointer can be:
registered, or on its way in or out. No step empties the registry under it, because the
installation of a secondary finds the registry empty and the sweep, before a fault, finds only
secondaries to close, which it does not do while they are fresh.

**Only model-checked.** `RowlessSocketLeaves`, `HandlersSettle` and `RoutableAgain` are
liveness properties, which the prover does not reach.

## 4. Offline screenshot queue: `OfflineQueue`

Screenshots are saved in IndexedDB and uploaded by a queue
(`lib/sync-queue.ts`, `lib/sync-processor.ts`, `lib/offline-screenshot-upload.ts`).
The store is shared by all tabs, the flag `processing` is not. A tab is a process;
one action is the code up to the next IndexedDB transaction or network event.

| Variables | Code |
|---|---|
| `queue` | the `sync_queue` store: status, `retryCount`, and `due`: `nextRetryAt` unset or past |
| `local`, `images` | the screenshot store (local ids), the images the server has made of each screenshot |
| `online`, `bgSync`, `tab` | `navigator.onLine`, a registered Background Sync event, the tab's life |
| `adding` | an upload between `screenshotDB.add` and `enqueue` |
| `at`, `todo`, `cur`, `ok`, `got` | where `processQueue` is, its list of copies, its current item, `result.success`, the copy `markCompleted`/`markFailed` read |
| `user`, `clear` | a retry or cancel between its read and its write; ids still to remove |

Abstractions: one upload at a time is between its two stores; the screenshot entry
under the server's id is left out (its failure is an `AnswerLost`); the user clicks in
a list that may be ten seconds old, so a retry or cancel is not guarded by the item's
present status.

**Run `queue`** (401 thousand states), three scenes: one tab whose user cancels, one whose
user retries, two tabs that share one item; two items, two retries, one lost answer or
failure, one closed tab. `CompletedIsStored` and `NotDroppedBeforeStored`: no screenshot is
called done, or leaves the queue, before the server has it. `SyncingIsHeld`: while no tab
has been closed, an item in `syncing` is in some run's hands. `AloneOneImage`: a screenshot
has at most one image more than answers to its own uploads were lost (`lost`; a
disconnection or a refused request counts for nothing), until a second tab is open or the
user retries an item (`alone`). *Sync Now* (`SyncNow`) starts a run at any moment and is no
retry. `RunEnds`: a run ends. Two items are the least for which a run holds a stale copy of
one while it uploads the other; two tabs, for which statuses are written from two sides.
`Fairness` asks of a tab that it goes on and of a request that it is answered or times out
(`xhr.timeout`, 60 s); no trigger is assumed fair.

**Proved** for any number of tabs, items and faults: `Typing`, `CompletedStored`,
`NothingDropped`, `SyncingHeld`. The inductive invariant `StoreInv` says that what a tab
remembers of the server (a stored answer, a successful result, the ids to clear) is
still true when it writes it, because the server never forgets an image; that is why
stale copies are harmless to these properties.

Two more are about a behaviour up to its first second tab or user's retry: `OneImage`
(`AloneOneImage`) and `BackoffKept` (`AloneBackoff`: an item is not sent before its
`nextRetryAt`). Both rest on `AloneInv`: a closed tab has nothing in its memory, hence all
other tabs are idle, and `ResendInv` holds of the one that is open: whatever is still to be
sent (pending, failed, in the loop's list, under way) has had no more images than answers to
it were lost, an item is in the list once although the list comes from two reads, none in it
waits for its `nextRetryAt`, and a cancel only marks items that exist.
`OneImagePerLostAnswer` itself, without `alone`, is false: two tabs send one item, and a
retry takes up an item under way.

Statements not kept:

| Statement | Line | What the code says, and what happens |
|---|---|---|
| `GivesUp` | `lib/sync-queue.ts:497` | "Max retries before giving up" (line 64): an item that failed for good keeps its past `nextRetryAt` and is sent again by every later run. |
| `EachIsHeld` with a closed tab | `lib/sync-processor.ts:59` | "Process pending items from previous session" (`AppInitializer.tsx:7`): an item left in `syncing` is taken up by nothing. |
| `CancelHolds` | `lib/sync-processor.ts:76` | "Cancelled by user" (`sync-queue.ts:47`): a run writes the item back from its copy and uploads it. |
| `SyncsWhenOnline` | `lib/sync-processor.ts:41` | An item queued during a run waits for a later trigger, which nothing guarantees. |

## 5. Browser session: `SessionRefresh`

The Cognito tokens in the browser, with a remote backend: `services/auth/` (token storage,
token manager, refresh service), the two HTTP clients and `contexts/auth-context.tsx`. A tab
is a process and an action is the code between two awaits; the step that settles an
exchange includes the resumptions of everyone waiting on it.

| Variables | Code |
|---|---|
| `auth`, `expiry` | the marker and the expiry in localStorage, shared by the tabs |
| `bearer`, `revoked` | time left to the tab's bearer (`Fresh` .. `Expired`), with which its refresh token comes and goes; Cognito refuses that token |
| `page`, `leaving`, `boot`, `user`, `signedOut`, `inbox`, `hidden` | the page, `checkAuth`, the provider's user, messages of other tabs, visibility |
| `started`, `timer`, `exchange`, `renewing`, `fails`, `dispatched` | the refresh service |
| `handled`, `rejected`, `calls`, `announced` | `HttpClient` and its requests |

The lengths of delays are left out: an armed timer may fire at any time. Left out too: cookie
sessions of a same-origin backend, the dev-local handoff, the retries of 5xx and 429.

**Run `session`** (260 thousand states), four scenes: one tab with one request, with a burst
of two, with one request of the client that refreshes on every 401, and two tabs that open,
sign in and out and close beside each other. `FreshSessionKept`: no failed exchange and no
act of another tab ends a session whose bearer is fresh. `RenewsOrEndsAlone`: a bearer that
is due in a visible tab is renewed or the session ends. `CallsEndAlone`: every request ends.
Bounds: two consecutive failures for the code's five, which only scales a counter; two
refusals of a fresh bearer, as in the code; one message on its way. Fairness: timers, start
and stop of the path, the settling of exchanges and replies in the tab asked about; nothing
the user does.

**Proved** for every number of tabs and requests: `Typing`, `TimerLegal` (no step leaves the
proactive timer armed in a hidden tab or one whose path is stopped) and `FreshKept`
(`FreshSessionKept`, which excepts exactly the requests of a client that refreshes
whatever the bearer's age).

Statements not kept:

| Statement | Line | What the code says, and what happens |
|---|---|---|
| `SignedOutStays` | `contexts/auth-context.tsx:446` | "Clears local token/auth state" (`services/auth/auth-service.ts:31`): an exchange in flight at logout settles later and writes tokens and marker back. |
| `BootAsksCognito` | `contexts/auth-context.tsx:294` | `purgeStaleSession` clears the refresh token of an expired bearer before the refresh that lines 308-310 describe. |
| `BlipKeepsSession` | `contexts/auth-context.tsx:316` | "a blip on a session that is still alive and must be left intact" (`token-refresh-service.ts:12`): one unreachable token endpoint at page load signs a live session out. |
| `FreshSessionKept` without its exception | `services/workflow-templates-api.ts:71` | Polls that refresh on every 401, without backoff, use up the bound of failures while the bearer is fresh. |
| `AnnouncedOnce` | `services/http-client.ts:481` | "fire once for EVERY caller" (`token-refresh-service.ts:121`): two owners announce one expiry. |
| `SpentOnce` | `services/workflow-templates-api.ts:70` | "spends the refresh token exactly once" (`token-refresh-service.ts:78`): a late 401 of the old bearer starts another exchange. |
| `RenewalArmed` with two tabs | `services/auth/token-storage.ts:313` | "No-op for genuine sessions" (`auth-context.tsx:293`): a second tab's page clears the shared marker, and the first has no timer any more. |
| `UnauthorizedHalts` | `services/http-client.ts:616` | A tab signed in by another's message has no bearer: its 401 neither refreshes nor ends the session. |

## 6. Project sync: `ProjectSync`

The editor's `SyncCoordinator` (`lib/sync`) against the project row. A configuration is the
set of contributions it holds: `Edits` of this editor and writes of `Others`, of which
`Imports` run under a sync lock.

| Variables | Code |
|---|---|
| `doc`, `made` | what the editor shows, the edits made so far |
| `sm` | the sync state machine |
| `base`, `news`, `dirty` | the version tracker |
| `tracked` | the change tracker |
| `calls` | requests under way, the backend's handler included |
| `connected`, `inbox` | the sync socket |
| `version`, `history` | the row, and the configuration stored with each version |
| `others`, `seen` | where each other writer is, and the version it read |
| `overlapped`, `crossed`, `missed` | history: two write handlers were between read and commit at once, two reloads under way at once, a release of the lock did not reach the socket |

`Edit` is `trackChange`, `Flush` any timer of the change tracker or `saveNow`, `Reload` the
public `reload`. The answers of a request are actions of their own and may arrive in any
order. A write handler of the backend is two steps, because `update_project` compares and
writes the copy of the row it read before, and nothing keeps two such handlers apart: no row
is locked. `Drop` is the network's close or the client's own, every forty seconds, because
the backend sends nothing that resets its pong timeout (`sync-websocket.ts:331`). Nothing in
the application calls `trackChange` at this commit, and the auto-save hook passes no token,
so the module follows the usage that `lib/sync/index.ts` states. Left out:
`maxPendingChanges` (100 edits), the check for an empty configuration, the expiry of a lock,
the save at `beforeunload`, and the events `VERSION_UPDATED` and `CONFLICT`, which the
backend never sends.

**Run `sync`** (308 thousand states), two scenes, in both of which write handlers overlap.
"two edits": beside an import and another editor, one failed request; "one edit": beside
both, with a reload by the user, a closed socket and a failed request. `NoLostUpdate`: no
commit removes what another writer stored, until two write handlers overlap or two reloads
cross. `EditorReleasedHeard`: a lock or a reload does not shut the editor out for good whose
socket misses no release, however often it is closed. `OneSavedIsSaved`: after one edit, an
idle clean status means that the edit is stored, until two write handlers overlap. Two edits
are enough for the cases that need one save under way and one edit after it; a third request
under way would need a third edit. Fairness: a flush (the fallback interval always runs),
every answer, the socket's deliveries and reconnects, the end of a handler that has begun.
No user action is fair.

**Proved** for any number of edits, writers and requests: `Typing`, and `RowGrows`: until
handlers overlap no stored version is written again. A commit writes the version after the
one it read, so the invariant `Held` says that a handler between its two steps is alone and
that the version it holds is the row's.

`CleanIsStored` (`OneSavedIsSaved`) and `NothingOverwritten` (`NoLostUpdate`) go on
from there. `OneKept` says of each request what of the edits its answer
would make the base, so that the answer of the only edit's save finds everything shown in the
version it names. `ForeignKept` says the same of what others stored: the base version is
contained in what is shown, so is the base version of a save under way, and of the answers
only a reload's brings a row the editor has not built on. Each invariant is carried as a
disjunction with the history variable that ends it (`overlapped \/ Held`), and what the
code does after that is in the table.

Statements not kept:

| Statement | Line | What the code says, and what happens |
|---|---|---|
| `SavedIsSaved` with two edits | `lib/sync/sync-coordinator.ts:604` | "Whether there are unsynced local changes" (`version-tracker.ts:29`): an edit made during a save is marked clean by its answer and never sent. |
| `ConflictIsForeign` with two edits | `lib/sync/sync-coordinator.ts:536` | "someone else modified the data" (`version-tracker.ts:12`): a flush during a save conflicts with that save. |
| `PutBackIsRetried` | `lib/sync/change-tracker.ts:185` | "Re-add changes on failure so they can be retried" (line 211): the next flush, blocked in `error`, drops them. |
| `LockHonoured` | `lib/sync/sync-state-machine.ts:106` | "Pause local sync, discard pending changes" (`sync-coordinator.ts:16`): a lock is ignored in `conflict`. |
| `EditorReleased` with a closed socket | `lib/sync/sync-coordinator.ts:453` | "Auto-reload to get fresh data" (line 17): a release missed while the socket was down locks the editor for good. |
| `UpdateIsConditional`, and `NoLostUpdate` without `~overlapped` | `src/backend/app/crud/project.py:122` | "Update succeeds only if current version matches expected_version" (`api/v1/endpoints/projects.py:343`): an update compares the copy it read, another commits before it does, and both succeed (one edit beside one other editor: seven states). |
| `NoLostUpdate` without `~crossed` | `lib/sync/sync-coordinator.ts:604` | Answers are applied in the order they arrive: an old reload replaces the configuration, a later answer raises the base version, and a conditional save overwrites an import. |
| `ImportKeepsSaves` | `src/backend/app/api/v1/endpoints/extraction.py:480` | "Acquire sync lock to prevent frontend saves during import": the import overwrites what was saved under its lock. |

## 7. Project loader: `ProjectLoader`

Opening a project: `load()` of `lib/project/project-loader.ts` with every await, its
state machine (`loading-state-machine.ts`), the hook's effect (`use-project-loader.ts`),
the sidebar's choice, the page that creates a project, the store it hydrates
(`stores/automation/index.ts`) with its debounced copy in IndexedDB, and the rows.

| Variables | Code |
|---|---|
| `st`, `retryCount` | the loading state machine |
| `loadedProjectId`, `calls` | the loader; each `load()` under way with its place, force flag and answers |
| `doc`, `name`, `projectId` | the store: items, project name and id |
| `pending`, `writing` | the store's 500 ms timer and a write that has deleted and not yet added |
| `local`, `row` | IndexedDB by project NAME, the backend's rows |
| `url`, `force`, `lastUrl`, `due` | `?project=`, `?forceBackend=`, the hook's ref, an effect that has to run |

The remaining variables record which projects exist, what was made where, how many faults
are left, and the `setting`: what the user and the world may do in this behaviour (projects
with no lists or not yet made, links and forced links, edits, other clients' writes, a
hasty user, faults), chosen once from the constant `Settings`. The four kinds of items are
one. Left out, because nothing depends on them at this commit: the flush of the debounce
manager and of the sync coordinator, the `loading` flag, `reload()` and `reset()` of the loader
and `reloadProject` of its hook, which nothing calls, and the load the auto-save forces on a
conflict, which belongs to section 6.

**Run `loader`** (412 thousand states), three settings. `Machine`: every action and fault of
the machine, with a project created meanwhile, no edits. `HastyUser`: a user who goes on
before IndexedDB has an edit, links of both kinds, failed fetches. `PatientUser`: two edits,
failed saves, page reloads, another client's write, no failed fetch. In all of them
`OneLoad`: one load runs at a time. `UndisturbedHomeKept`: what is stored under a project
was made for it or for one of its name, while every project has had its lists from the
start, no hydration has failed and the page has not been loaded again. `PatientEditsKept`:
no edit is lost, and an open project misses none, with a patient user who forces no load and
creates no project and no failed load; a patient user waits for the store's timer before
opening another project. `UnfailedChoiceStands`: the project loaded is the last one
accepted. `LoadEnds`: a load ends unless a fetch or hydration fails. Two projects, two calls
and two edits let one load, timer or save cross another. Fairness: the answers a load
awaits, the retry timer, the store's write, the effect. `CHECK_DEADLOCK FALSE`, because the
loader does get stuck (`RetryFreezesForGood`).

**Proved** for every number of projects, calls, retries and faults and every set of
settings: `TypeCorrect`, `OneLoadAtATime` (one call runs, and the machine is in that call's
state), `RetryFreezesForGood` (once a retry has been counted, the machine stays in
`validating` with nothing running until the page is loaded again) and `LastChoiceLoaded`
(`UnfailedChoiceStands`). The invariant `Sound` joins the first two with `InPhase`, which
ties the state of the machine to the place of the running call; `ChoiceInv` adds that the
running call is that of the last choice, and that nothing waits for a retry.

`NothingMixed` (`UndisturbedHomeKept`) and `NoEditLost` (`PatientEditsKept`) hold whatever
the names: IndexedDB keeps one copy per name, so both speak of the name a project has, and
two projects of one name share what is stored (the run's instance has two names). `HomeInv`
follows items through the store, the timer, the write between its deletion and its addition,
the request and the answer: each holds items of one name, which it carries, and the store
holds the open project's or, between the two writes of a hydration, the next one's.
`EditsInv` follows edits: between two writes all of them are in IndexedDB, what a write has
deleted is still in the store, and the store shows the project the write is for; a load
leaves the store only when no write is due. `FaultsLeft` (the fault counts only fall)
carries `Unfailed`, `Undisturbed` and `Patient` from a state to the ones before it.

Statements not kept:

| Statement | Line | What the code says, and what happens |
|---|---|---|
| `LoadEnds` without `Unfailed` | `lib/project/project-loader.ts:252` | "Retry if configured" (line 244): the retry moves the machine to `validating`, and the `load()` it then calls returns because the machine is loading. |
| `ChoiceStands` with failed fetches | `project-loader.ts:253` | "Prevents race conditions" (`loading-state-machine.ts:5`): a project opened during the delay of a retry is replaced by the one that had failed. |
| `EditsKept` with failed fetches | `project-loader.ts:253` | "This prevents data loss" (line 337): the retry is forced, and deletes an edit made during its delay. |
| `EditsKept` with a hasty user | `stores/automation/index.ts:226` | "it has the latest local changes" (`project-loader.ts:430`): the timer is kept per table, so an edit in the next project cancels the write of the last one. |
| `UrlShown` with links | `hooks/use-project-loader.ts:98` | "Skip if we already loaded this URL" (line 71): a load refused because another runs is never made up for. |
| `HomeKept` with a blank row, a created project or a failure during hydration; with `i.home = p` for the names, also with one name for two projects | `stores/automation/index.ts:360`, the visual-automation page `:113`, `project-loader.ts:417`, `:386` | "Save current project before loading new one" (line 261): items of one project are stored under another. |
| `OthersKept` | `project-loader.ts:286` | "enables optimistic concurrency control for subsequent saves" (line 346): this save sends no version and overwrites another client's write. |

## 8. Operational transform: `OperationalTransform`

`services/collaboration/operational-transform-service.ts` (transform, apply, compose, invert,
`transformPath`) as operators, and `sync-service.ts`'s use of them: two editors of one
resource, each with one optimistic operation, each told of the other's at any time. A
document has a list, a field and connections. No page mounts these hooks at this commit;
the listener that would deliver a remote change is external.

| Variables | Code |
|---|---|
| `base`, `op` | the document both began with, the operation each made |
| `shown`, `got`, `confirmed` | the document each shows, the other's operation has come, the own save was answered |
| `clock`, `wired` | the timestamp of each operation; operations go through `SyncService`, whose changes (`sync-service.ts:725`, `:743`) have neither position nor ends, read as 0 and `undefined` |
| `informed` | history: an operation was made after the other's had come |

Left out: the 10 s rollback, the sync queue, and the conflict detectors and resolvers, which
ask a person.

**Run `ot`** (2.4 million states), lists of up to four items, every pair of kinds of
operations, in every position and order of delivery, at one time or two, with confirmations,
through `SyncService` or handed to `transform()` as they are made, as
`conflict-resolution.test.ts:714` does. `ListsConverge`
(both editors end with one document) and `ListsLoseNothing` (an operation removes no item but
its own, an edit lands on its item) are about the `Mergeable` pairs, an insertion against an
insertion, a deletion or an edit, made without sight of each other, handed over with their
positions and neither saved before the other came; `ListsConverge` excepts two insertions
at one place and time (`Tied`). Through `SyncService` neither holds, since positions are lost;
what is left there, and in all other behaviours, is the second part of `ListsLoseNothing`: no
item is lost while neither editor deletes or moves one.
`UndoRestoresItems`: `invert` restores the document, for all operations but those on links.
Two operations touch at most two positions and their neighbours, so four items hold every
relative position.

**Proved** for lists of any length, every set of pairs of kinds and all timestamps:
`InsertionsConverge` and `InsertionsLoseNothing` (`ListsConverge`, `ListsLoseNothing`);
`UndoAlwaysRestores` (`UndoRestoresItems`); and, where the run shows them on small lists,
`PathsFollow` (`PathFollowsKept`: `transformPath` leads to the item it led to, but for
deletions and moves) and `ComposeAlwaysAgrees` (`ComposeAgreesOnTexts`: one composed
operation on a text does what the two do). The last three speak of operations made on the
document both began with (`~informed`). Lemmas state what an insertion, a deletion and an
edit do to each index of a list; the agreement of each pair of kinds follows index by index,
and the invariant `Viewed` says that what an editor shows is the result of what it has
applied.

Statements not kept:

| Statement | Line of `operational-transform-service.ts` | What happens |
|---|---|---|
| `ItemsKept`, two deletions of one item | `:267` | "make one a no-op": the no-op replaces the list by null. |
| `EditLands`, deletion and edit | `:304` | An index behind the deleted item stays, and the edit lands in the next item. |
| `Converges`, two renames | `:339` | "use timestamp to decide" (line 334): each editor keeps the other's name. |
| `Converges`, two moves | `:382` | Both conditions lower the position where a move to the front should raise it. |
| `Converges`, two connections | `:507` | The void operation replaces all connections, on one side only. |
| `Converges`, two insertions at one place and time (`Tied`) | `:153` | The tie is broken by the order of the arguments, the local one first on both sides. |
| `Converges` and `NothingLost` when `wired`, after a save, or `informed` | `sync-service.ts:725`, `:409`, `:414` | A change carries no position, so an insertion comes to the front and a deletion or edit hits the first item; after the own save was answered the remote change is not transformed; nothing says what its editor had seen. |
| `ComposeAgrees` for an insertion and a deletion | `:563` | Positions are not compared, and the no-op replaces the list by null. |
| `PathFollows` for a deletion | `:819` | A path is said to be deleted when another item was. |
| `UndoRestores` for a connection | `:633` | Its inverse removes every connection of these ends. |

## 9. Chat socket: `ChatSocket`

The effect, `connectWebSocket` and the socket handlers of `hooks/useChatWebSocket.ts`. Each
run of the effect calls `connectWebSocket`, which awaits a token and then opens a socket; a
call and its socket are one entry of `calls`.

| Variables | Code |
|---|---|
| `runner`, `run` | `runnerId`, runs of the effect (an unmount is a change to no runner) |
| `calls`, `ws` | calls and their sockets, `wsRef` |
| `timers`, `timerRef`, `pings`, `pingRef` | reconnect timers and ping intervals that exist, and the ones the refs name |
| `attempts`, `connected`, `admitted` | `reconnectAttemptsRef`, `isConnected`, `hasConnectedRef` |
| `reopened` | sockets whose open was read as a reconnect |

The effect runs again at any moment (`EffectRuns`). Its cleanup does not cancel a call that
awaits its token, so a run may *overtake* a token fetch (history variable `overtaken`): the
former call then opens its socket beside the new one's, and whichever token comes last has
`wsRef`.

**Run `socket`** (472 thousand states): up to three runs of the effect over two runners, two
lost sockets, two failed opens, a refused token, two attempts for the code's bound.
`MCChatSocket` bounds the runs and faults of a behaviour together: with one run all the
faults, with two four of them, with three one. `OneConnection`: a run of the effect has one
call, socket or timer under way at most, whatever overtakes it; until a run overtakes a
token fetch there is one in all, and none without a runner. `RightRunner`: until then the
socket leads to the runner the page shows. `Reconnects`: until then the page stays attached
in the end unless a token was refused or its attempts are used up. Six calls are enough for
every run and every loss. Fairness: tokens, opens, admissions and timers.

**Proved** for any number of calls, runners and losses, whenever the effect runs:
`TypeCorrect`, `OneConnectionAlways`, `RightRunnerAlways`, `NoPingLeftAlways`,
`ReconnectsOnlyAlways`. Two invariants: `Lines` holds always and says that each run has one
*line* of calls, of which the last alone is under way; `overtaken \/ Sound` adds that what
is under way belongs to the last run of the effect (`Current`), that `wsRef` holds the live
socket (`Held`), and that the refs name every timer and interval there is (`Armed`,
`Pinging`).

Statements not kept:

| Statement | Line of `useChatWebSocket.ts` | What happens |
|---|---|---|
| `RightRunner`, `NoPingLeft` and one connection in all, without `~overtaken` | `:270`, `:294` | A runner change or a StrictMode remount during the token's await leaves two calls; the later token takes `wsRef`, and after an unmount an orphan stays open. |
| `StaleIsOld` | `:294` | "ignore close events from stale WebSockets" (line 320): a token granted late puts the socket to the runner before into `wsRef`, and the current one's frames are ignored. |
| `ReconnectsOnly` without `~overtaken` | `:407` | "does not make the real first open read as a reconnect" (line 200): it does when the orphan was also admitted. |
| `ConnectedIsOpen` | `:855` | The cleanup empties `wsRef` before the close event, whose guard then resets no flag. |

## 10. Chat conversation: `ChatConversation`

One conversation of a page with a session on its runner, over the sockets of section 9:
the requests, frames and reloads of `useChatWebSocket.ts`; above it `AskTheTwin.tsx` (a
single-slot queue, each question answered in a session this page creates or continues) or
the `chat/[id]` page (a session that existed); below it the relay
(`src/backend/app/api/v1/endpoints/runner_chat_ws.py`, `services/runner/chat_relay.py`) and
the runner, which is external and modelled by the frames the page handles. A question is a
number `q`, its answer the items `<<q, 1>> .. <<q, Chunks>>`.

| Variables | Code |
|---|---|
| `conv`, `shown`, `stream` | the conversation of the hook, its messages, `streamingBufferRef` |
| `probe` | the reload of a reconnect: forwards due, refused, retries, timer |
| `twin`, `asked` | AskTheTwin's queue and `hasSessionRef`; questions asked |
| `socket`, `admitted`, `up`, `down` | the socket, requests and frames on their way, the relay's answers included |
| `here`, `inbox`, `sess` | the runner's connection, what is published for it, its sessions |
| `hasty`, `crossed` | history: the user asked before the last answer was settled; an answer to another tab's create that cannot be told from this page's was on its way while this page's create was pending |

Left out: interrupt, close, rename, `getOutput`, the new-chat page's timeout, older runners
whose frames name no run, several replicas of the relay, the wording of errors.

**Run `chat`** (502 thousand states), six scenes, each with its own faults. Four properties
are checked in all of them:

| Property | States |
|---|---|
| `CreatedPlaced` | in a conversation this page created, every piece stands under its own question, until `hasty` or `crossed` |
| `OwnText` | no text of another tab's session is shown, until `crossed` |
| `LoadedMissesNothing` | at rest a loaded conversation whose runner stayed misses nothing its session said, until `hasty` |
| `FirstRefusalsSorted` | a refusal reaches the user exactly when it answers the user, until a reload is retried |

| Scene | Faults | Liveness |
|---|---|---|
| twin | a lost socket, a runner that leaves, failing sessions | |
| tabs | another tab creates, or is refused, while the socket drops | |
| reload | the socket drops and the runner is away when the reload arrives | `ReloadRelearns`: the page comes to show its session's state, or the failure |
| steady | sessions fail, another tab creates one; no connection is lost | `SteadyQuestionsEnd`: a question is answered in whole or its failure is shown |
| loaded | a loaded conversation whose socket drops | |
| workflow | a loaded conversation's workflows; no connection is lost | `WorkflowEnds`: a wait for a workflow ends |

The user may ask whenever the page lets them: AskTheTwin's `Busy` is false between a create
and the session's first frame, and `ChatInput` sends while the session works. A user who
does so is `hasty`, one who asks *in time* (`InTime`) waits in AskTheTwin until the last
answer, or its failure, is shown and no create is unanswered, and in a loaded conversation
until its state is `ready` and no transcript is on its way. Other tabs' sessions bear a task
name of their own or this page's, as AskTheTwin's always do: every tab sends "Digital Twin
question". The page tells them apart only while its own create is not pending; when an
answer to theirs meets a pending create the behaviour is `crossed`. Two tabs that create at
different times stay apart. The liveness properties are about behaviours that are neither.
But for the scene `workflow` the run follows a behaviour until it is `hasty` or `crossed`.

Two questions and two pieces are the least for which an answer can be misplaced, doubled
or cut. Fairness: opens, the retry timer, relay, runner and its return, frames, the page's
effects; none of the user or of a fault. `CHECK_DEADLOCK FALSE`, since a conversation may
simply end.

**Proved**, for any number of questions, pieces, sessions, retries and faults:

| Theorem | States |
|---|---|
| `Typing` | `Spec => []TypeOK` |
| `OwnTextAlways` | `Spec => []OwnText` |
| `RefusalsFindTheirOwner` | `Spec => FirstRefusalsSorted` |
| `NothingMissedLoaded` | `Spec => []LoadedMissesNothing`, for the page `chat/[id]` (`Page = "loaded"`) |
| `AnswersPlaced` | `Spec => []CreatedPlaced`, for AskTheTwin (`Page = "twin"`) |

*Typing* needs three facts beside `TypeOK` (`Typed`): a session at work has something to
answer (`AtWork`), a loaded page keeps its one session (`OnePage`), and a closed socket
carries nothing while a retry waits on an open one (`Wire`). *Own text*: the invariant must
look ahead of the page. No request, frame or pointer names a session that does not exist yet
(`KnownInv`), so a session this page goes on to create has nothing said about it; and what
is announced as this page's own is a session of this page, in whose queue and log no foreign
question stands (`OwnInv`). *Refusals*: `ProbeInv` says that before the first retry
`probe.due` is exactly the number of probes the relay has not read plus the answers to
probes the page has not read, and that in both queues they come before everything the user
asked for since.

*Nothing missed* is the largest, since the page learns of its session by three ways that may
each be cut: frames, acknowledged requests and the transcript. `MissInv` has four parts.
`Asking`: every request is about the session, and one for its state is followed by one for its
transcript. `Messages`: a message on its way is shown already, and no transcript taken before
the session hears it can still reach the page, where it would erase it. `Covered`: unless a
transcript is still to be taken, each item of the session's log is in the messages, in the
stream or in a frame on its way, and no transcript on its way erases it for good. `Following`:
after any number of the frames on their way the page's state is not `ready`, or its stream is
flushed, or a transcript comes; and it is not `ready` while the session works, unless a request
for the state is on its way. `AtRest` empties the queues, which leaves the messages.

*Answers placed* follows a question from the page's request through the relay and the
session to the frames that answer it. `PlaceInv` is `Placed` and six facts. `TextInv` and
`PlainInv`: what is shown belongs to the questions shown, what is streamed to the last one,
and no transcript, which would replace it all, is asked for or comes. `CreateInv`: one
create at most is under way or answered, for the last question and while the page waits for
it. `PieceInv`, for each session this page has been given: its pieces on their way come in
order, each once, after those shown, all of the last question; what it has still to answer
is the last question, or an answer all of whose pieces are said; and a request of that
question is the only one, with nothing of its answer come. `WaitInv`: a question waits to be
sent only when the one before has its whole answer, or its session can say no more. That
last case needs `EndInv`: once a session has ended, in its state or in a frame on its way,
nothing follows that could make the page continue it. The invariants of the last three are
carried as `crossed \/ ...` and `hasty \/ ...`.

The liveness properties are model-checked only.

Statements not kept:

| Statement | Line | What the code says, and what happens |
|---|---|---|
| `AllTextOwn` once `crossed` | `useChatWebSocket.ts:428` | "a `chat_created` this hook did not ask for is ignored" (line 37): creates are told apart by a task name that all AskTheTwin tabs share, so of two tabs that ask at once one may take the other's session, and its text is shown; `QuestionsEnd` fails with it. |
| `Placed` once `hasty` | `useChatWebSocket.ts:418` | A second create overwrites the pending one, and the first reply answers it. |
| `NothingMissed` once `hasty` | `useChatWebSocket.ts:725` | A message sent while the session answers clears the streaming buffer, and the pieces that had come are not shown at rest. |
| `Placed` once `crossed` | `useChatWebSocket.ts:428` | "A refusal names no task and cannot be told apart": another tab's ends this page's pending create, and the reply to that one, which comes after all, is taken for the next question's. |
| `BusyUntilAnswered` | `AskTheTwin.tsx:233` | "Busy from submit until the answer finishes" (line 224): not between the create and the session's first frame, nor between a follow-up and its acknowledgement, since `sendMessage` (`useChatWebSocket.ts:718`) leaves the state `ready`. A user who sends whenever the page is not busy finds answers under the wrong question (`Placed` once `hasty`). |
| `RefusalsSorted` with a retry | `useChatWebSocket.ts:224` | The retry sets the count of answers due to its own requests while an earlier one is still owed. |
| `TranscriptIsRunners` | `useChatWebSocket.ts:564` | A transcript replaces the messages and leaves the streaming buffer, whose pieces it may hold. |
| `AsksKept` | `useChatWebSocket.ts:564` | A transcript read before a message arrived erases it. |
| `Relearns`, runner away at open | `src/backend/app/services/runner_websocket_manager.py:632` | "nothing else tells this page when the runner is back" (line 218): the relay starts its listener only if the runner is connected at that moment. |
| `QueuedSent`, the runner leaves for a moment | `useChatWebSocket.ts:642` | The state stays `disconnected`, and a follow-up waits for `ready`. |
| `QuestionsEnd` with a lost socket | `useChatWebSocket.ts:703` | A create lost with the socket is neither repeated nor reported. |
| `NothingMissed`, a created conversation | `useChatWebSocket.ts:228` | The reload asks for the state only, and the end of an answer that came in the gap is never seen. |
| `WorkflowWaitEnds` with a lost socket | `useChatWebSocket.ts:227` | The reload does not ask for the generation, whose result came in the gap. |

## 11. What the prover does not reach

Liveness properties are model-checked. No module declares a recursive operator or a function
defined by induction whose result is proved: lists in `OperationalTransform_proofs` are
reasoned about index by index.

## 12. Not modelled

* The command, notice and terminal relays, the remote terminal, the locks, scheduled jobs
  and the worker queue are in the plan.
* Collaboration sockets (`websockets/collaboration/`,
  `services/websocket-collaboration-service.ts`, `services/execution-websocket.ts`): planned
  with the locks; at this commit no page mounts the provider that opens them.
* The REST endpoints and services outside the above are one database transaction per
  request over rich data: what could be wrong there is in SQL and data, which a state
  model does not tell apart.
* The other pages, the administration console, the generated API client, visual editors and
  presentation make up most of the repository's lines. They render what they fetch and
  keep no state of their own across requests, tabs or reconnects.
* Migrations are schema history.

## 13. Running

    tlc -workers 2 -config queue.cfg MCOfflineQueue.tla
    tlc -workers 2 -config owner_change.cfg MCDeviceRelay.tla
    tlapm OfflineQueue_proofs.tla

Each run and its module are listed under `runs` in `PROJECT.json`. The longest,
`contention` and `chat`, take two to three minutes; the proofs of
`ChatConversation` take about fourteen minutes, those of any other module at most a few.
