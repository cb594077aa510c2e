---------------------------- MODULE ProjectSync ----------------------------
(***************************************************************************)
(* Saving an open project: SyncCoordinator of frontend/src/lib/sync with   *)
(* its state machine, version tracker, change tracker and WebSocket, used  *)
(* as lib/sync/index.ts describes (save and reload functions registered,   *)
(* trackChange called for each edit, an auth token for the socket), against *)
(* the project row, its sync locks and their broadcasts in the backend.    *)
(*                                                                         *)
(* A configuration is the set of contributions it holds: edits of this     *)
(* editor and writes of others.  Of the others, Imports write under a sync *)
(* lock (POST /extractions/{id}/import-states); the rest are editors whose *)
(* copy is current when their request reads the row.  A request is a slot  *)
(* of `calls'; its handler reads the row in one step and commits in        *)
(* another.  Left out: maxPendingChanges (100 edits), the check for an     *)
(* empty configuration, the expiry of a lock and the save at beforeunload. *)
(***************************************************************************)
EXTENDS Naturals, Sequences

CONSTANTS Edits,        \* edits the user may make
          Others,       \* writes of others
          Imports,      \* the writes among them made by an import
          MaxCalls,     \* bound: requests of this editor under way
          MaxVersion,   \* bound: versions of the row
          MaxReloads,   \* bound: reloads the user asks for
          MaxFailures,  \* bound: failed requests
          MaxDrops      \* bound: closed socket connections

ASSUME SyncAssumption ==
    /\ Imports \subseteq Others
    /\ Edits \cap Others = {}
    /\ MaxCalls \in Nat
    /\ MaxVersion \in Nat \ {0}
    /\ MaxReloads \in Nat
    /\ MaxFailures \in Nat
    /\ MaxDrops \in Nat

VARIABLES
    doc,       \* contributions in the editor's configuration
    made,      \* edits made so far
    sm,        \* state of the sync state machine
    base,      \* baseVersion of the version tracker
    news,      \* its serverVersion
    dirty,     \* its dirty flag
    tracked,   \* pendingChanges of the change tracker
    calls,     \* save and reload requests under way
    connected, \* the socket is open and registered for broadcasts
    inbox,     \* events sent to it and not yet handled
    version,   \* project.version
    history,   \* configuration stored with each version
    others,    \* where each write of the others is
    seen,      \* version of the row its handler has read
    reloads, failures, drops,
    overlapped, \* two write handlers have been between read and commit at once
    crossed,    \* two reloads have been under way at once
    missed      \* a release of the lock has not reached the socket

tracker == <<base, news, dirty>>
row == <<version, history>>
rivals == <<others, seen>>
socket == <<connected, inbox>>
bounds == <<reloads, failures, drops>>
past == <<overlapped, crossed, missed>>
state == <<doc, made, sm, base, news, dirty, tracked, calls, connected, inbox,
           version, history, others, seen, reloads, failures, drops>>
vars == <<state, past>>

Versions == 1..MaxVersion
Slots == 1..MaxCalls
SyncState == {"idle", "editing", "saving", "reloading", "locked", "conflict", "error"}

\* `sent': on its way; `read': its handler holds the row as it read it;
\* then the answer.  `version' is the version read or answered.
Call == [kind : {"none", "save", "reload"},
         at : {"sent", "read", "ok", "refused", "failed"},
         expected : Versions,
         version : Versions,
         body : SUBSET (Edits \cup Others),
         changes : SUBSET Edits]
NoCall == [kind |-> "none", at |-> "sent", expected |-> 1, version |-> 1,
           body |-> {}, changes |-> {}]

SyncWebSocketEvent == [type : {"LOCK_ACQUIRED", "LOCK_RELEASED"}, version : Versions]

EditorOK ==
    /\ doc \in SUBSET (Edits \cup Others)
    /\ made \in SUBSET Edits
    /\ sm \in SyncState
    /\ base \in Versions
    /\ news \in Versions
    /\ dirty \in BOOLEAN
    /\ tracked \in SUBSET Edits

BackendOK ==
    /\ version \in Versions
    /\ history \in [Versions -> SUBSET (Edits \cup Others)]
    /\ others \in [Others -> {"none", "read", "written", "done"}]
    /\ seen \in [Others -> Versions]

StateOK ==
    /\ EditorOK
    /\ BackendOK
    /\ calls \in [Slots -> Call]
    /\ connected \in BOOLEAN
    /\ inbox \in Seq(SyncWebSocketEvent)
    /\ reloads \in 0..MaxReloads
    /\ failures \in 0..MaxFailures
    /\ drops \in 0..MaxDrops

TypeOK == StateOK /\ {overlapped, crossed, missed} \subseteq BOOLEAN

\* The project has just been loaded and the socket is open.
Init ==
    /\ doc = {}
    /\ made = {}
    /\ sm = "idle"
    /\ base = 1
    /\ news = 1
    /\ dirty = FALSE
    /\ tracked = {}
    /\ calls = [c \in Slots |-> NoCall]
    /\ connected = TRUE
    /\ inbox = <<>>
    /\ version = 1
    /\ history = [v \in Versions |-> {}]
    /\ others = [o \in Others |-> "none"]
    /\ seen = [o \in Others |-> 1]
    /\ reloads = 0
    /\ failures = 0
    /\ drops = 0
    /\ overlapped = FALSE /\ crossed = FALSE /\ missed = FALSE

-----------------------------------------------------------------------------
(* The state machine and the version tracker. *)

ValidTransitions ==
    [idle      |-> {"editing", "reloading", "locked", "error"},
     editing   |-> {"saving", "reloading", "locked", "idle", "error"},
     saving    |-> {"idle", "conflict", "error", "reloading", "locked"},
     reloading |-> {"idle", "editing", "error", "locked"},
     locked    |-> {"reloading", "idle", "error"},
     conflict  |-> {"idle", "reloading", "saving", "error"},
     error     |-> {"idle", "editing", "reloading"}]

\* An event whose target the table does not allow is dropped.
Goto(to) == IF to \in ValidTransitions[sm] THEN to ELSE sm

\* An event accepted in one state only.
From(from, to) == IF sm = from THEN to ELSE sm

IsSaveBlocked == sm \in {"locked", "reloading", "conflict", "error"}
IsEditBlocked == sm \in {"locked", "reloading"}

\* updateServerVersion and updateFromReload.
Agree(v) ==
    /\ base' = v
    /\ news' = v
    /\ dirty' = FALSE

Free(c) == calls[c].kind = "none" /\ \A d \in Slots : calls[d].kind = "none" => c <= d
Send(c, call) == calls' = [calls EXCEPT ![c] = call]

-----------------------------------------------------------------------------
(* The editor. *)

\* trackChange: an edit where edits are not blocked.
Edit(e) ==
    /\ e \notin made
    /\ ~IsEditBlocked
    /\ made' = made \cup {e}
    /\ doc' = doc \cup {e}
    /\ dirty' = TRUE
    /\ sm' = IF sm \in {"idle", "editing"} THEN "editing" ELSE sm
    /\ tracked' = tracked \cup {e}
    /\ UNCHANGED <<base, news, calls, socket, row, rivals, bounds>>

SaveCall ==
    [kind |-> "save", at |-> "sent", expected |-> base, version |-> base,
     body |-> doc, changes |-> tracked]

\* The change tracker's debounce, maximum delay or fallback interval fires, or
\* the user saves: the changes leave the tracker, then performSave runs up to
\* its request.  It returns at once when saves are blocked or nothing is dirty,
\* and reports a conflict when the base is known to be old.
Flush ==
    /\ tracked # {}
    /\ tracked' = {}
    /\ \/ /\ IsSaveBlocked \/ ~dirty
          /\ UNCHANGED <<sm, calls>>
       \/ /\ ~IsSaveBlocked /\ dirty /\ base # news
          /\ sm' = Goto("conflict")
          /\ UNCHANGED calls
       \/ /\ ~IsSaveBlocked /\ dirty /\ base = news
          /\ sm' = Goto("saving")
          /\ \E c \in Slots : Free(c) /\ Send(c, SaveCall)
    /\ UNCHANGED <<doc, made, tracker, socket, row, rivals, bounds>>

ReloadCall ==
    [NoCall EXCEPT !.kind = "reload"]

\* performReload up to its request.
PerformReload ==
    /\ tracked' = {}
    /\ sm' = "reloading"
    /\ \E c \in Slots : Free(c) /\ Send(c, ReloadCall)

Reload ==
    /\ reloads < MaxReloads
    /\ reloads' = reloads + 1
    /\ PerformReload
    /\ UNCHANGED <<doc, made, tracker, socket, row, rivals, failures, drops>>

-----------------------------------------------------------------------------
(* Answers. *)

Answer(c, kind, at) == calls[c].kind = kind /\ calls[c].at = at
Done(c) == calls' = [calls EXCEPT ![c] = NoCall]

SaveCompleted(c) ==
    /\ Answer(c, "save", "ok")
    /\ Agree(calls[c].version)
    /\ sm' = From("saving", "idle")
    /\ Done(c)
    /\ UNCHANGED <<doc, made, tracked, socket, row, rivals, bounds>>

\* Regression: a refusal is taken for a save.
SaveRejectedCompletes(c) ==
    /\ Answer(c, "save", "refused")
    /\ Agree(calls[c].version)
    /\ sm' = From("saving", "idle")
    /\ Done(c)
    /\ UNCHANGED <<doc, made, tracked, socket, row, rivals, bounds>>

SaveRejected(c) ==
    /\ Answer(c, "save", "refused")
    /\ sm' = From("saving", "conflict")
    /\ Done(c)
    /\ UNCHANGED <<doc, made, tracker, tracked, socket, row, rivals, bounds>>

\* The save function reports an error or throws; only when it throws are the
\* changes put back.
SaveFails(c) ==
    /\ Answer(c, "save", "failed")
    /\ sm' = Goto("error")
    /\ \/ UNCHANGED tracked
       \/ tracked' = tracked \cup calls[c].changes
    /\ Done(c)
    /\ UNCHANGED <<doc, made, tracker, socket, row, rivals, bounds>>

ReloadCompleted(c) ==
    /\ Answer(c, "reload", "ok")
    /\ doc' = calls[c].body
    /\ Agree(calls[c].version)
    /\ sm' = From("reloading", "idle")
    /\ Done(c)
    /\ UNCHANGED <<made, tracked, socket, row, rivals, bounds>>

ReloadFails(c) ==
    /\ Answer(c, "reload", "failed")
    /\ sm' = Goto("error")
    /\ Done(c)
    /\ UNCHANGED <<doc, made, tracker, tracked, socket, row, rivals, bounds>>

-----------------------------------------------------------------------------
(* The socket. *)

\* LOCK_ACQUIRED: the pending changes are cancelled.
LockAcquired ==
    /\ inbox # <<>> /\ Head(inbox).type = "LOCK_ACQUIRED"
    /\ inbox' = Tail(inbox)
    /\ tracked' = {}
    /\ dirty' = FALSE
    /\ sm' = Goto("locked")
    /\ UNCHANGED <<doc, made, base, news, calls, connected, row, rivals, bounds>>

\* Regression: a release is only noted, the project is not loaded again.
LockReleasedNoted ==
    /\ inbox # <<>> /\ Head(inbox).type = "LOCK_RELEASED"
    /\ inbox' = Tail(inbox)
    /\ news' = Head(inbox).version
    /\ sm' = From("locked", "reloading")
    /\ UNCHANGED <<doc, made, base, dirty, tracked, calls, connected, row, rivals, bounds>>

LockReleased ==
    /\ inbox # <<>> /\ Head(inbox).type = "LOCK_RELEASED"
    /\ inbox' = Tail(inbox)
    /\ news' = Head(inbox).version
    /\ PerformReload
    /\ UNCHANGED <<doc, made, base, dirty, connected, row, rivals, bounds>>

Broadcast(event) ==
    inbox' = IF connected THEN Append(inbox, event) ELSE inbox

\* The network closes the socket, or the client does: forty seconds after it
\* opened at the latest, since no backend message resets its pong timeout.
Drop ==
    /\ drops < MaxDrops /\ connected
    /\ drops' = drops + 1
    /\ connected' = FALSE
    /\ inbox' = <<>>
    /\ UNCHANGED <<doc, made, sm, tracker, tracked, calls, row, rivals, reloads, failures>>

Locked == \E o \in Imports : others[o] \in {"read", "written"}

\* The client reconnects; the handler registers it, greets it with CONNECTED,
\* which the coordinator does not handle, and reports an active lock.
Reconnect ==
    /\ ~connected
    /\ connected' = TRUE
    /\ inbox' = IF Locked THEN <<[type |-> "LOCK_ACQUIRED", version |-> version]>> ELSE <<>>
    /\ UNCHANGED <<doc, made, sm, tracker, tracked, calls, row, rivals, bounds>>

-----------------------------------------------------------------------------
(* The backend. *)

\* PUT /projects/{id}: get_project reads the row ...
PutReads(c) ==
    /\ Answer(c, "save", "sent")
    /\ calls' = [calls EXCEPT ![c].at = "read", ![c].version = version]
    /\ UNCHANGED <<doc, made, sm, tracker, tracked, socket, row, rivals, bounds>>

\* Regression: a save is committed whatever version the row has.
MatchesAny(c) == TRUE

Matches(c) == calls[c].version = calls[c].expected

Store(v, data) ==
    /\ version' = v
    /\ history' = [history EXCEPT ![v] = data]

\* ... update_project compares the version it read and writes that plus one.
PutCommits(c) ==
    /\ Answer(c, "save", "read")
    /\ Matches(c)
    /\ calls[c].version < MaxVersion
    /\ Store(calls[c].version + 1, calls[c].body)
    /\ calls' = [calls EXCEPT ![c].at = "ok", ![c].version = calls[c].version + 1]
    /\ UNCHANGED <<doc, made, sm, tracker, tracked, socket, rivals, bounds>>

PutRefused(c) ==
    /\ Answer(c, "save", "read")
    /\ ~Matches(c)
    /\ calls' = [calls EXCEPT ![c].at = "refused"]
    /\ UNCHANGED <<doc, made, sm, tracker, tracked, socket, row, rivals, bounds>>

GetProject(c) ==
    /\ Answer(c, "reload", "sent")
    /\ calls' = [calls EXCEPT ![c].at = "ok", ![c].version = version,
                              ![c].body = history[version]]
    /\ UNCHANGED <<doc, made, sm, tracker, tracked, socket, row, rivals, bounds>>

\* A request that is lost, refused for another reason, or whose answer is lost.
RequestFails(c) ==
    /\ failures < MaxFailures
    /\ calls[c].kind # "none" /\ calls[c].at \notin {"read", "failed"}
    /\ failures' = failures + 1
    /\ calls' = [calls EXCEPT ![c].at = "failed"]
    /\ UNCHANGED <<doc, made, sm, tracker, tracked, socket, row, rivals, reloads, drops>>

\* Another writer's handler reads the row; an import takes the lock as well.
OtherReads(o) ==
    /\ others[o] = "none"
    /\ others' = [others EXCEPT ![o] = "read"]
    /\ seen' = [seen EXCEPT ![o] = version]
    /\ IF o \in Imports
         THEN Broadcast([type |-> "LOCK_ACQUIRED", version |-> version])
         ELSE UNCHANGED inbox
    /\ UNCHANGED <<doc, made, sm, tracker, tracked, calls, connected, row, bounds>>

OtherCommits(o) ==
    /\ others[o] = "read"
    /\ seen[o] < MaxVersion
    /\ Store(seen[o] + 1, history[seen[o]] \cup {o})
    /\ others' = [others EXCEPT ![o] = IF o \in Imports THEN "written" ELSE "done"]
    /\ UNCHANGED <<doc, made, sm, tracker, tracked, calls, socket, seen, bounds>>

\* The import's finally block, also after a failure.
ImportReleases(o) ==
    /\ o \in Imports
    /\ others[o] \in {"read", "written"}
    /\ others' = [others EXCEPT ![o] = "done"]
    /\ Broadcast([type |-> "LOCK_RELEASED", version |-> version])
    /\ UNCHANGED <<doc, made, sm, tracker, tracked, calls, connected, row, seen, bounds>>

-----------------------------------------------------------------------------
Settle(c) ==
    \/ SaveCompleted(c)
    \/ SaveRejected(c)
    \/ SaveFails(c)
    \/ ReloadCompleted(c)
    \/ ReloadFails(c)

Handle(c) ==
    \/ PutReads(c)
    \/ PutCommits(c)
    \/ PutRefused(c)
    \/ GetProject(c)

Receive == LockAcquired \/ LockReleased

Step ==
    \/ \E e \in Edits : Edit(e)
    \/ Flush
    \/ Reload
    \/ Receive
    \/ Drop
    \/ Reconnect
    \/ \E c \in Slots : Settle(c) \/ Handle(c) \/ RequestFails(c)
    \/ \E o \in Others : OtherReads(o) \/ OtherCommits(o) \/ ImportReleases(o)

\* One write handler at most is between its read and its commit; one reload at
\* most is under way.
OneHolds ==
    /\ \A c, d \in Slots : calls[c].at = "read" /\ calls[d].at = "read" => c = d
    /\ \A o, p \in Others : others[o] = "read" /\ others[p] = "read" => o = p
    /\ \A c \in Slots, o \in Others : ~(calls[c].at = "read" /\ others[o] = "read")
OneReload == \A c, d \in Slots : calls[c].kind = "reload" /\ calls[d].kind = "reload" => c = d

\* A release is sent while the socket is closed, or lost with it.
ReleaseMissed ==
    \/ ~connected /\ \E o \in Imports : others[o] # "done" /\ others'[o] = "done"
    \/ ~connected' /\ \E i \in 1..Len(inbox) : inbox[i].type = "LOCK_RELEASED"

\* History variables, for the properties that the code keeps in such behaviours only.
Record ==
    /\ overlapped' = (overlapped \/ ~OneHolds')
    /\ crossed' = (crossed \/ ~OneReload')
    /\ missed' = (missed \/ ReleaseMissed)

Next == Step /\ Record

Spec == Init /\ [][Next]_vars

\* Timers fire, requests are answered, the socket delivers and reconnects, and a
\* handler that has begun finishes.
Fairness ==
    /\ WF_state(Flush)
    /\ WF_state(Receive)
    /\ WF_state(Reconnect)
    /\ \A c \in Slots : WF_state(Settle(c)) /\ WF_state(Handle(c))
    /\ \A o \in Others : WF_state(OtherCommits(o) \/ ImportReleases(o))

FairSpec == Spec /\ Fairness

-----------------------------------------------------------------------------
(* Properties. *)

\* Until two write handlers overlap or two reloads cross, no commit removes what another
\* writer had stored: a save is refused unless the configuration it carries was built on
\* the version it replaces (version-tracker.ts, update_project).
NoLostUpdate ==
    [][~overlapped /\ ~crossed => history[version] \cap Others \subseteq history'[version']]_vars

\* "Update succeeds only if current version matches expected_version" (projects.py:343).
\* update_project compares the copy it read before its awaits.
UpdateIsConditional ==
    [][\A c \in Slots : calls[c].at = "read" /\ calls'[c].at = "ok"
          => calls[c].expected = version]_vars

\* Until two write handlers overlap, a stored version is never written again: every
\* commit appends (update_project's `project.version += 1').
RowAppends ==
    [][~overlapped => /\ version <= version'
                      /\ \A v \in 1..version : history'[v] = history[v]]_vars

\* An import adds to the stored configuration and removes nothing that was saved while
\* it held its lock (import_to_state_structure).
ImportKeepsSaves ==
    [][\A o \in Imports : others[o] = "read" /\ others'[o] = "written"
          => history[version] \subseteq history'[version']]_vars

\* The version the editor names as its base never runs ahead of what the editor
\* shows: the configuration holds every foreign contribution of that version
\* (updateServerVersion, updateFromReload).
BaseContained == history[base] \cap Others \subseteq doc

\* Why NoLostUpdate holds, in a form every step preserves until handlers overlap or
\* reloads cross: what others stored is in every later version, in the configuration built
\* on it, in every save that names it, and in a reload's answer that is still to come.
Foreign(contributions) == contributions \cap Others
Pending(c) == calls[c].kind = "save" /\ calls[c].at \in {"sent", "read", "ok"}
Answered(c) == calls[c].at = "ok" => /\ calls[c].version <= version
                                     /\ calls[c].body = history[calls[c].version]
ForeignKept ==
    /\ \A v \in 1..version : \A u \in 1..v : Foreign(history[u]) \subseteq history[v]
    /\ base <= version /\ BaseContained
    /\ Foreign(doc) \subseteq history[version]
    /\ \A c \in Slots : Answered(c)
    /\ \A c \in Slots : Pending(c) =>
         /\ calls[c].expected <= version
         /\ Foreign(history[calls[c].expected]) \subseteq calls[c].body
         /\ Foreign(calls[c].body) \subseteq doc
    /\ \A c \in Slots : Answer(c, "reload", "ok") => Foreign(doc) \subseteq calls[c].body

\* The editor is never shut out for good by a lock or a reload
\* (handleWebSocketEvent, performReload).
EditorReleased == []<>~IsEditBlocked

\* The same while its socket misses no release, however often it is closed and opened
\* again between two of them: with a release missed it is false.
EditorReleasedHeard == []<>(~IsEditBlocked \/ missed)

\* Once the lock is announced and until the project has been read again, the
\* editor takes no edits (LOCK_ACQUIRED, isEditBlocked).
LockHonoured ==
    Locked /\ connected /\ inbox = <<>> => IsEditBlocked

Saving == \E c \in Slots : calls[c].kind = "save"

\* A status without pending changes, in idle and with no save under way, means that
\* the edits shown are stored (hasPendingChanges of getStatus).
SavedIsSaved ==
    sm = "idle" /\ ~dirty /\ tracked = {} /\ ~Saving
        => doc \cap Edits \subseteq history[base]

\* The same while at most one edit has been made and no write handlers have overlapped:
\* with a second edit, or a commit over the save, it is false.
OneEdit == \A e, f \in made : e = f
OneSavedIsSaved == OneEdit /\ ~overlapped => SavedIsSaved

\* Why, in a form every step preserves: the edit is in the configuration while the
\* tracker is dirty and in every save, and a clean tracker outside the states that
\* block saves has seen a save or a reload of what is shown.
OneKept ==
    OneEdit =>
      /\ doc \cap Edits \subseteq made /\ tracked \subseteq made
      /\ dirty => made \subseteq doc
      /\ base <= version
      /\ \A v \in Versions : history[v] \cap Edits \subseteq made
      /\ \A c \in Slots : /\ Answered(c)
                          /\ calls[c].body \cap Edits \subseteq made
                          /\ calls[c].changes \subseteq made
                          /\ Pending(c) => made # {} /\ made \subseteq calls[c].body
      /\ ~dirty /\ ~IsSaveBlocked => doc \cap Edits \subseteq history[base]

\* A conflict means that somebody else has written since the base version
\* (SAVE_REJECTED).
ConflictIsForeign ==
    sm = "conflict" => \E o \in Others : others[o] \in {"written", "done"}

\* Changes put back after a failed flush are stored in the end, unless the editor
\* drops them for another configuration (flushNow).
PutBackIsRetried ==
    \A e \in Edits :
        (e \in tracked /\ sm = "error") ~> (e \in history[version] \/ e \notin doc)

=============================================================================
