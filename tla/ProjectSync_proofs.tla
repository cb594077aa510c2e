------------------------- MODULE ProjectSync_proofs -------------------------
(***************************************************************************)
(* Proofs about ProjectSync: its type invariant; that until two write      *)
(* handlers overlap the row only ever gains versions, and loses nothing    *)
(* that another writer stored unless reloads cross; and that a clean       *)
(* status after one edit means that it is stored.                          *)
(***************************************************************************)
EXTENDS ProjectSync, TLAPS

-----------------------------------------------------------------------------
\* What the operators the actions share leave of the types.

LEMMA CallTypes ==
    ASSUME StateOK
    PROVE  /\ NoCall \in Call
           /\ ReloadCall \in Call
           /\ SaveCall \in Call
<1>1. /\ 1 \in Versions
      /\ {} \in SUBSET (Edits \cup Others)
      /\ {} \in SUBSET Edits
  BY SyncAssumption DEF Versions
<1>2. NoCall \in Call
  BY <1>1 DEF NoCall, Call
<1>3. ReloadCall \in Call
  BY <1>1 DEF ReloadCall, NoCall, Call
<1>4. SaveCall \in Call
  BY DEF StateOK, EditorOK, SaveCall, Call
<1> QED
  BY <1>2, <1>3, <1>4

LEMMA SendTypes ==
    ASSUME StateOK, NEW c \in Slots, NEW call \in Call, Send(c, call)
    PROVE  calls' \in [Slots -> Call]
  BY DEF StateOK, Send

LEMMA DoneTypes ==
    ASSUME StateOK, NEW c \in Slots, Done(c)
    PROVE  calls' \in [Slots -> Call]
  BY CallTypes DEF StateOK, Done

\* An answer written into a slot.
LEMMA AnswerTypes ==
    ASSUME StateOK, NEW c \in Slots,
           NEW at \in {"sent", "read", "ok", "refused", "failed"},
           NEW v \in Versions, NEW data \in SUBSET (Edits \cup Others)
    PROVE  /\ [calls EXCEPT ![c].at = at] \in [Slots -> Call]
           /\ [calls EXCEPT ![c].at = at, ![c].version = v] \in [Slots -> Call]
           /\ [calls EXCEPT ![c].at = at, ![c].version = v, ![c].body = data]
                 \in [Slots -> Call]
<1>1. calls[c] \in Call
  BY DEF StateOK
<1>2. /\ [calls[c] EXCEPT !.at = at] \in Call
      /\ [calls[c] EXCEPT !.at = at, !.version = v] \in Call
      /\ [calls[c] EXCEPT !.at = at, !.version = v, !.body = data] \in Call
  BY <1>1 DEF Call
<1> QED
  BY <1>2 DEF StateOK

LEMMA EventTypes ==
    ASSUME StateOK, NEW event \in SyncWebSocketEvent, Broadcast(event)
    PROVE  inbox' \in Seq(SyncWebSocketEvent)
  BY DEF StateOK, Broadcast

LEMMA TailTypes ==
    ASSUME StateOK, inbox # <<>>, inbox' = Tail(inbox)
    PROVE  /\ inbox' \in Seq(SyncWebSocketEvent)
           /\ Head(inbox).version \in Versions
<1>1. Head(inbox) \in SyncWebSocketEvent
  BY DEF StateOK
<1> QED
  BY <1>1 DEF StateOK, SyncWebSocketEvent

LEMMA GotoTypes ==
    ASSUME StateOK, NEW to \in SyncState, NEW from \in SyncState
    PROVE  /\ Goto(to) \in SyncState
           /\ From(from, to) \in SyncState
  BY DEF StateOK, EditorOK, Goto, From

LEMMA PerformReloadTypes ==
    ASSUME StateOK, PerformReload
    PROVE  /\ tracked' \in SUBSET Edits
           /\ sm' \in SyncState
           /\ calls' \in [Slots -> Call]
  BY CallTypes, SendTypes DEF PerformReload, SyncState

LEMMA StoreTypes ==
    ASSUME StateOK, NEW v \in Versions, NEW data \in SUBSET (Edits \cup Others),
           Store(v, data)
    PROVE  /\ version' \in Versions
           /\ history' \in [Versions -> SUBSET (Edits \cup Others)]
  BY DEF StateOK, BackendOK, Store

LEMMA NextVersion ==
    ASSUME NEW v \in Versions, v < MaxVersion
    PROVE  v + 1 \in Versions
  BY SyncAssumption DEF Versions

-----------------------------------------------------------------------------
(* The type invariant. *)

LEMMA InitTypes == Init => StateOK
<1> SUFFICES ASSUME Init PROVE StateOK
  OBVIOUS
<1>1. 1 \in Versions
  BY SyncAssumption DEF Versions
<1>2. EditorOK
  BY <1>1 DEF Init, EditorOK, SyncState
<1>3. BackendOK
  BY <1>1 DEF Init, BackendOK
<1>4. calls \in [Slots -> Call]
  BY <1>1 DEF Init, NoCall, Call
<1>5. /\ connected \in BOOLEAN
      /\ inbox \in Seq(SyncWebSocketEvent)
  BY DEF Init
<1>6. /\ reloads \in 0..MaxReloads
      /\ failures \in 0..MaxFailures
      /\ drops \in 0..MaxDrops
  BY SyncAssumption DEF Init
<1> QED
  BY <1>2, <1>3, <1>4, <1>5, <1>6 DEF StateOK

LEMMA EditTypes ==
    ASSUME StateOK, NEW e \in Edits, Edit(e)
    PROVE  StateOK'
<1>1. EditorOK'
  BY DEF Edit, StateOK, EditorOK, SyncState
<1>2. BackendOK'
  BY DEF Edit, StateOK, BackendOK, row, rivals
<1>3. calls' \in [Slots -> Call]
  BY DEF Edit, StateOK
<1>4. connected' \in BOOLEAN /\ inbox' \in Seq(SyncWebSocketEvent)
  BY DEF Edit, StateOK, socket
<1>5. /\ reloads' \in 0..MaxReloads
      /\ failures' \in 0..MaxFailures
      /\ drops' \in 0..MaxDrops
  BY DEF Edit, StateOK, bounds
<1> QED
  BY <1>1, <1>2, <1>3, <1>4, <1>5 DEF StateOK

LEMMA FlushTypes ==
    ASSUME StateOK, Flush
    PROVE  StateOK'
<1>1. EditorOK'
  <2>1. Goto("conflict") \in SyncState /\ Goto("saving") \in SyncState
    BY GotoTypes DEF SyncState
  <2> QED
    BY <2>1 DEF Flush, StateOK, EditorOK, tracker
<1>2. BackendOK'
  BY DEF Flush, StateOK, BackendOK, row, rivals
<1>3. calls' \in [Slots -> Call]
  BY CallTypes, SendTypes DEF Flush, StateOK
<1>4. connected' \in BOOLEAN /\ inbox' \in Seq(SyncWebSocketEvent)
  BY DEF Flush, StateOK, socket
<1>5. /\ reloads' \in 0..MaxReloads
      /\ failures' \in 0..MaxFailures
      /\ drops' \in 0..MaxDrops
  BY DEF Flush, StateOK, bounds
<1> QED
  BY <1>1, <1>2, <1>3, <1>4, <1>5 DEF StateOK

LEMMA ReloadTypes ==
    ASSUME StateOK, Reload
    PROVE  StateOK'
<1>1. EditorOK'
  BY PerformReloadTypes DEF Reload, StateOK, EditorOK, tracker
<1>2. BackendOK'
  BY DEF Reload, StateOK, BackendOK, row, rivals
<1>3. calls' \in [Slots -> Call]
  BY PerformReloadTypes DEF Reload
<1>4. connected' \in BOOLEAN /\ inbox' \in Seq(SyncWebSocketEvent)
  BY DEF Reload, StateOK, socket
<1>5. /\ reloads' \in 0..MaxReloads
      /\ failures' \in 0..MaxFailures
      /\ drops' \in 0..MaxDrops
  BY SyncAssumption DEF Reload, StateOK
<1> QED
  BY <1>1, <1>2, <1>3, <1>4, <1>5 DEF StateOK

LEMMA LockAcquiredTypes ==
    ASSUME StateOK, LockAcquired
    PROVE  StateOK'
<1>1. EditorOK'
  <2>1. Goto("locked") \in SyncState
    BY GotoTypes DEF SyncState
  <2> QED
    BY <2>1 DEF LockAcquired, StateOK, EditorOK
<1>2. BackendOK'
  BY DEF LockAcquired, StateOK, BackendOK, row, rivals
<1>3. calls' \in [Slots -> Call]
  BY DEF LockAcquired, StateOK
<1>4. connected' \in BOOLEAN /\ inbox' \in Seq(SyncWebSocketEvent)
  BY TailTypes DEF LockAcquired, StateOK
<1>5. /\ reloads' \in 0..MaxReloads
      /\ failures' \in 0..MaxFailures
      /\ drops' \in 0..MaxDrops
  BY DEF LockAcquired, StateOK, bounds
<1> QED
  BY <1>1, <1>2, <1>3, <1>4, <1>5 DEF StateOK

LEMMA LockReleasedTypes ==
    ASSUME StateOK, LockReleased
    PROVE  StateOK'
<1>1. EditorOK'
  BY PerformReloadTypes, TailTypes DEF LockReleased, StateOK, EditorOK
<1>2. BackendOK'
  BY DEF LockReleased, StateOK, BackendOK, row, rivals
<1>3. calls' \in [Slots -> Call]
  BY PerformReloadTypes DEF LockReleased
<1>4. connected' \in BOOLEAN /\ inbox' \in Seq(SyncWebSocketEvent)
  BY TailTypes DEF LockReleased, StateOK
<1>5. /\ reloads' \in 0..MaxReloads
      /\ failures' \in 0..MaxFailures
      /\ drops' \in 0..MaxDrops
  BY DEF LockReleased, StateOK, bounds
<1> QED
  BY <1>1, <1>2, <1>3, <1>4, <1>5 DEF StateOK

LEMMA DropTypes ==
    ASSUME StateOK, Drop
    PROVE  StateOK'
<1>1. EditorOK'
  BY DEF Drop, StateOK, EditorOK, tracker
<1>2. BackendOK'
  BY DEF Drop, StateOK, BackendOK, row, rivals
<1>3. calls' \in [Slots -> Call]
  BY DEF Drop, StateOK
<1>4. connected' \in BOOLEAN /\ inbox' \in Seq(SyncWebSocketEvent)
  <2>1. connected' \in BOOLEAN
    BY DEF Drop
  <2>2. inbox' \in Seq(SyncWebSocketEvent)
    BY DEF Drop
  <2> QED
    BY <2>1, <2>2
<1>5. /\ reloads' \in 0..MaxReloads
      /\ failures' \in 0..MaxFailures
      /\ drops' \in 0..MaxDrops
  BY SyncAssumption DEF Drop, StateOK
<1> QED
  BY <1>1, <1>2, <1>3, <1>4, <1>5 DEF StateOK

LEMMA ReconnectTypes ==
    ASSUME StateOK, Reconnect
    PROVE  StateOK'
<1>1. EditorOK'
  BY DEF Reconnect, StateOK, EditorOK, tracker
<1>2. BackendOK'
  BY DEF Reconnect, StateOK, BackendOK, row, rivals
<1>3. calls' \in [Slots -> Call]
  BY DEF Reconnect, StateOK
<1>4. connected' \in BOOLEAN /\ inbox' \in Seq(SyncWebSocketEvent)
  <2>1. [type |-> "LOCK_ACQUIRED", version |-> version] \in SyncWebSocketEvent
    BY DEF StateOK, BackendOK, SyncWebSocketEvent
  <2> QED
    BY <2>1 DEF Reconnect
<1>5. /\ reloads' \in 0..MaxReloads
      /\ failures' \in 0..MaxFailures
      /\ drops' \in 0..MaxDrops
  BY DEF Reconnect, StateOK, bounds
<1> QED
  BY <1>1, <1>2, <1>3, <1>4, <1>5 DEF StateOK

LEMMA SaveCompletedTypes ==
    ASSUME StateOK, NEW c \in Slots, SaveCompleted(c)
    PROVE  StateOK'
<1>1. EditorOK'
  <2>1. From("saving", "idle") \in SyncState
    BY GotoTypes DEF SyncState
  <2>2. calls[c].version \in Versions
    BY DEF StateOK, Call
  <2> QED
    BY <2>1, <2>2 DEF SaveCompleted, Agree, StateOK, EditorOK
<1>2. BackendOK'
  BY DEF SaveCompleted, StateOK, BackendOK, row, rivals
<1>3. calls' \in [Slots -> Call]
  BY DoneTypes DEF SaveCompleted
<1>4. connected' \in BOOLEAN /\ inbox' \in Seq(SyncWebSocketEvent)
  BY DEF SaveCompleted, StateOK, socket
<1>5. /\ reloads' \in 0..MaxReloads
      /\ failures' \in 0..MaxFailures
      /\ drops' \in 0..MaxDrops
  BY DEF SaveCompleted, StateOK, bounds
<1> QED
  BY <1>1, <1>2, <1>3, <1>4, <1>5 DEF StateOK

LEMMA SaveRejectedTypes ==
    ASSUME StateOK, NEW c \in Slots, SaveRejected(c)
    PROVE  StateOK'
<1>1. EditorOK'
  <2>1. From("saving", "conflict") \in SyncState
    BY GotoTypes DEF SyncState
  <2> QED
    BY <2>1 DEF SaveRejected, StateOK, EditorOK, tracker
<1>2. BackendOK'
  BY DEF SaveRejected, StateOK, BackendOK, row, rivals
<1>3. calls' \in [Slots -> Call]
  BY DoneTypes DEF SaveRejected
<1>4. connected' \in BOOLEAN /\ inbox' \in Seq(SyncWebSocketEvent)
  BY DEF SaveRejected, StateOK, socket
<1>5. /\ reloads' \in 0..MaxReloads
      /\ failures' \in 0..MaxFailures
      /\ drops' \in 0..MaxDrops
  BY DEF SaveRejected, StateOK, bounds
<1> QED
  BY <1>1, <1>2, <1>3, <1>4, <1>5 DEF StateOK

LEMMA SaveFailsTypes ==
    ASSUME StateOK, NEW c \in Slots, SaveFails(c)
    PROVE  StateOK'
<1>1. EditorOK'
  <2>1. Goto("error") \in SyncState
    BY GotoTypes DEF SyncState
  <2>2. calls[c].changes \in SUBSET Edits
    BY DEF StateOK, Call
  <2> QED
    BY <2>1, <2>2 DEF SaveFails, StateOK, EditorOK, tracker
<1>2. BackendOK'
  BY DEF SaveFails, StateOK, BackendOK, row, rivals
<1>3. calls' \in [Slots -> Call]
  BY DoneTypes DEF SaveFails
<1>4. connected' \in BOOLEAN /\ inbox' \in Seq(SyncWebSocketEvent)
  BY DEF SaveFails, StateOK, socket
<1>5. /\ reloads' \in 0..MaxReloads
      /\ failures' \in 0..MaxFailures
      /\ drops' \in 0..MaxDrops
  BY DEF SaveFails, StateOK, bounds
<1> QED
  BY <1>1, <1>2, <1>3, <1>4, <1>5 DEF StateOK

LEMMA ReloadCompletedTypes ==
    ASSUME StateOK, NEW c \in Slots, ReloadCompleted(c)
    PROVE  StateOK'
<1>1. EditorOK'
  <2>1. From("reloading", "idle") \in SyncState
    BY GotoTypes DEF SyncState
  <2>2. /\ calls[c].version \in Versions
        /\ calls[c].body \in SUBSET (Edits \cup Others)
    BY DEF StateOK, Call
  <2> QED
    BY <2>1, <2>2 DEF ReloadCompleted, Agree, StateOK, EditorOK
<1>2. BackendOK'
  BY DEF ReloadCompleted, StateOK, BackendOK, row, rivals
<1>3. calls' \in [Slots -> Call]
  BY DoneTypes DEF ReloadCompleted
<1>4. connected' \in BOOLEAN /\ inbox' \in Seq(SyncWebSocketEvent)
  BY DEF ReloadCompleted, StateOK, socket
<1>5. /\ reloads' \in 0..MaxReloads
      /\ failures' \in 0..MaxFailures
      /\ drops' \in 0..MaxDrops
  BY DEF ReloadCompleted, StateOK, bounds
<1> QED
  BY <1>1, <1>2, <1>3, <1>4, <1>5 DEF StateOK

LEMMA ReloadFailsTypes ==
    ASSUME StateOK, NEW c \in Slots, ReloadFails(c)
    PROVE  StateOK'
<1>1. EditorOK'
  <2>1. Goto("error") \in SyncState
    BY GotoTypes DEF SyncState
  <2> QED
    BY <2>1 DEF ReloadFails, StateOK, EditorOK, tracker
<1>2. BackendOK'
  BY DEF ReloadFails, StateOK, BackendOK, row, rivals
<1>3. calls' \in [Slots -> Call]
  BY DoneTypes DEF ReloadFails
<1>4. connected' \in BOOLEAN /\ inbox' \in Seq(SyncWebSocketEvent)
  BY DEF ReloadFails, StateOK, socket
<1>5. /\ reloads' \in 0..MaxReloads
      /\ failures' \in 0..MaxFailures
      /\ drops' \in 0..MaxDrops
  BY DEF ReloadFails, StateOK, bounds
<1> QED
  BY <1>1, <1>2, <1>3, <1>4, <1>5 DEF StateOK

LEMMA PutReadsTypes ==
    ASSUME StateOK, NEW c \in Slots, PutReads(c)
    PROVE  StateOK'
<1>1. EditorOK'
  BY DEF PutReads, StateOK, EditorOK, tracker
<1>2. BackendOK'
  BY DEF PutReads, StateOK, BackendOK, row, rivals
<1>3. calls' \in [Slots -> Call]
  BY AnswerTypes DEF PutReads, StateOK, BackendOK
<1>4. connected' \in BOOLEAN /\ inbox' \in Seq(SyncWebSocketEvent)
  BY DEF PutReads, StateOK, socket
<1>5. /\ reloads' \in 0..MaxReloads
      /\ failures' \in 0..MaxFailures
      /\ drops' \in 0..MaxDrops
  BY DEF PutReads, StateOK, bounds
<1> QED
  BY <1>1, <1>2, <1>3, <1>4, <1>5 DEF StateOK

LEMMA PutCommitsTypes ==
    ASSUME StateOK, NEW c \in Slots, PutCommits(c)
    PROVE  StateOK'
<1>1. calls[c].version \in Versions
  BY DEF StateOK, Call
<1>2. calls[c].version + 1 \in Versions
  BY <1>1, NextVersion DEF PutCommits
<1>3. EditorOK'
  BY DEF PutCommits, StateOK, EditorOK, tracker
<1>4. BackendOK'
  <2>1. calls[c].body \in SUBSET (Edits \cup Others)
    BY DEF StateOK, Call
  <2>2. /\ version' \in Versions
        /\ history' \in [Versions -> SUBSET (Edits \cup Others)]
    BY <1>2, <2>1, StoreTypes DEF PutCommits
  <2> QED
    BY <2>2 DEF PutCommits, StateOK, BackendOK, rivals
<1>5. calls' \in [Slots -> Call]
  BY <1>2, AnswerTypes DEF PutCommits, StateOK, EditorOK
<1>6. connected' \in BOOLEAN /\ inbox' \in Seq(SyncWebSocketEvent)
  BY DEF PutCommits, StateOK, socket
<1>7. /\ reloads' \in 0..MaxReloads
      /\ failures' \in 0..MaxFailures
      /\ drops' \in 0..MaxDrops
  BY DEF PutCommits, StateOK, bounds
<1> QED
  BY <1>3, <1>4, <1>5, <1>6, <1>7 DEF StateOK

LEMMA PutRefusedTypes ==
    ASSUME StateOK, NEW c \in Slots, PutRefused(c)
    PROVE  StateOK'
<1>1. EditorOK'
  BY DEF PutRefused, StateOK, EditorOK, tracker
<1>2. BackendOK'
  BY DEF PutRefused, StateOK, BackendOK, row, rivals
<1>3. calls' \in [Slots -> Call]
  <2>1. version \in Versions /\ doc \in SUBSET (Edits \cup Others)
    BY DEF StateOK, EditorOK, BackendOK
  <2> QED
    BY <2>1, AnswerTypes DEF PutRefused
<1>4. connected' \in BOOLEAN /\ inbox' \in Seq(SyncWebSocketEvent)
  BY DEF PutRefused, StateOK, socket
<1>5. /\ reloads' \in 0..MaxReloads
      /\ failures' \in 0..MaxFailures
      /\ drops' \in 0..MaxDrops
  BY DEF PutRefused, StateOK, bounds
<1> QED
  BY <1>1, <1>2, <1>3, <1>4, <1>5 DEF StateOK

LEMMA GetProjectTypes ==
    ASSUME StateOK, NEW c \in Slots, GetProject(c)
    PROVE  StateOK'
<1>1. EditorOK'
  BY DEF GetProject, StateOK, EditorOK, tracker
<1>2. BackendOK'
  BY DEF GetProject, StateOK, BackendOK, row, rivals
<1>3. calls' \in [Slots -> Call]
  BY AnswerTypes DEF GetProject, StateOK, BackendOK
<1>4. connected' \in BOOLEAN /\ inbox' \in Seq(SyncWebSocketEvent)
  BY DEF GetProject, StateOK, socket
<1>5. /\ reloads' \in 0..MaxReloads
      /\ failures' \in 0..MaxFailures
      /\ drops' \in 0..MaxDrops
  BY DEF GetProject, StateOK, bounds
<1> QED
  BY <1>1, <1>2, <1>3, <1>4, <1>5 DEF StateOK

LEMMA RequestFailsTypes ==
    ASSUME StateOK, NEW c \in Slots, RequestFails(c)
    PROVE  StateOK'
<1>1. EditorOK'
  BY DEF RequestFails, StateOK, EditorOK, tracker
<1>2. BackendOK'
  BY DEF RequestFails, StateOK, BackendOK, row, rivals
<1>3. calls' \in [Slots -> Call]
  <2>1. version \in Versions /\ doc \in SUBSET (Edits \cup Others)
    BY DEF StateOK, EditorOK, BackendOK
  <2> QED
    BY <2>1, AnswerTypes DEF RequestFails
<1>4. connected' \in BOOLEAN /\ inbox' \in Seq(SyncWebSocketEvent)
  BY DEF RequestFails, StateOK, socket
<1>5. /\ reloads' \in 0..MaxReloads
      /\ failures' \in 0..MaxFailures
      /\ drops' \in 0..MaxDrops
  BY SyncAssumption DEF RequestFails, StateOK
<1> QED
  BY <1>1, <1>2, <1>3, <1>4, <1>5 DEF StateOK

LEMMA OtherReadsTypes ==
    ASSUME StateOK, NEW o \in Others, OtherReads(o)
    PROVE  StateOK'
<1>1. EditorOK'
  BY DEF OtherReads, StateOK, EditorOK, tracker
<1>2. BackendOK'
  BY DEF OtherReads, StateOK, BackendOK, row, rivals
<1>3. calls' \in [Slots -> Call]
  BY DEF OtherReads, StateOK
<1>4. connected' \in BOOLEAN /\ inbox' \in Seq(SyncWebSocketEvent)
  <2>1. [type |-> "LOCK_ACQUIRED", version |-> version] \in SyncWebSocketEvent
    BY DEF StateOK, BackendOK, SyncWebSocketEvent
  <2> QED
    BY <2>1, EventTypes DEF OtherReads, StateOK
<1>5. /\ reloads' \in 0..MaxReloads
      /\ failures' \in 0..MaxFailures
      /\ drops' \in 0..MaxDrops
  BY DEF OtherReads, StateOK, bounds
<1> QED
  BY <1>1, <1>2, <1>3, <1>4, <1>5 DEF StateOK

LEMMA OtherCommitsTypes ==
    ASSUME StateOK, NEW o \in Others, OtherCommits(o)
    PROVE  StateOK'
<1>1. EditorOK'
  BY DEF OtherCommits, StateOK, EditorOK, tracker
<1>2. BackendOK'
  <2>1. seen[o] + 1 \in Versions
    BY NextVersion DEF OtherCommits, StateOK, BackendOK
  <2>2. history[seen[o]] \cup {o} \in SUBSET (Edits \cup Others)
    BY DEF StateOK, BackendOK
  <2>3. /\ version' \in Versions
        /\ history' \in [Versions -> SUBSET (Edits \cup Others)]
    BY <2>1, <2>2, StoreTypes DEF OtherCommits
  <2> QED
    BY <2>3 DEF OtherCommits, StateOK, BackendOK
<1>3. calls' \in [Slots -> Call]
  BY DEF OtherCommits, StateOK
<1>4. connected' \in BOOLEAN /\ inbox' \in Seq(SyncWebSocketEvent)
  BY DEF OtherCommits, StateOK, socket
<1>5. /\ reloads' \in 0..MaxReloads
      /\ failures' \in 0..MaxFailures
      /\ drops' \in 0..MaxDrops
  BY DEF OtherCommits, StateOK, bounds
<1> QED
  BY <1>1, <1>2, <1>3, <1>4, <1>5 DEF StateOK

LEMMA ImportReleasesTypes ==
    ASSUME StateOK, NEW o \in Others, ImportReleases(o)
    PROVE  StateOK'
<1>1. EditorOK'
  BY DEF ImportReleases, StateOK, EditorOK, tracker
<1>2. BackendOK'
  BY DEF ImportReleases, StateOK, BackendOK, row, rivals
<1>3. calls' \in [Slots -> Call]
  BY DEF ImportReleases, StateOK
<1>4. connected' \in BOOLEAN /\ inbox' \in Seq(SyncWebSocketEvent)
  <2>1. [type |-> "LOCK_RELEASED", version |-> version] \in SyncWebSocketEvent
    BY DEF StateOK, BackendOK, SyncWebSocketEvent
  <2> QED
    BY <2>1, EventTypes DEF ImportReleases, StateOK
<1>5. /\ reloads' \in 0..MaxReloads
      /\ failures' \in 0..MaxFailures
      /\ drops' \in 0..MaxDrops
  BY DEF ImportReleases, StateOK, bounds
<1> QED
  BY <1>1, <1>2, <1>3, <1>4, <1>5 DEF StateOK

LEMMA TypesStep == StateOK /\ [Next]_vars => StateOK'
<1> SUFFICES ASSUME StateOK, [Next]_vars PROVE StateOK'
  OBVIOUS
<1>1. CASE UNCHANGED vars
  BY <1>1 DEF StateOK, EditorOK, BackendOK, vars, state
<1>2. CASE Next
  <2>1. ASSUME NEW c \in Slots, Settle(c) \/ Handle(c) \/ RequestFails(c)
        PROVE  StateOK'
    BY <2>1, SaveCompletedTypes, SaveRejectedTypes, SaveFailsTypes,
       ReloadCompletedTypes, ReloadFailsTypes, PutReadsTypes, PutCommitsTypes,
       PutRefusedTypes, GetProjectTypes, RequestFailsTypes DEF Settle, Handle
  <2>2. ASSUME NEW o \in Others,
               OtherReads(o) \/ OtherCommits(o) \/ ImportReleases(o)
        PROVE  StateOK'
    BY <2>2, OtherReadsTypes, OtherCommitsTypes, ImportReleasesTypes
  <2>3. CASE Receive
    BY <2>3, LockAcquiredTypes, LockReleasedTypes DEF Receive
  <2>4. CASE Flush \/ Reload \/ Drop \/ Reconnect
    BY <2>4, FlushTypes, ReloadTypes, DropTypes, ReconnectTypes
  <2>5. CASE \E e \in Edits : Edit(e)
    BY <2>5, EditTypes
  <2> QED
    BY <1>2, <2>1, <2>2, <2>3, <2>4, <2>5 DEF Next, Step
<1> QED
  BY <1>1, <1>2

\* Every variable keeps its type.
THEOREM Typing == Spec => []TypeOK
<1>1. Init => TypeOK
  BY InitTypes DEF Init, TypeOK
<1>2. TypeOK /\ [Next]_vars => TypeOK'
  <2> SUFFICES ASSUME TypeOK, [Next]_vars PROVE TypeOK'
    OBVIOUS
  <2>1. StateOK'
    BY TypesStep DEF TypeOK
  <2>2. overlapped' \in BOOLEAN /\ crossed' \in BOOLEAN /\ missed' \in BOOLEAN
    BY DEF TypeOK, Next, Record, vars, past
  <2> QED
    BY <2>1, <2>2 DEF TypeOK
<1> QED
  BY <1>1, <1>2, PTL DEF Spec

-----------------------------------------------------------------------------
(* The row only gains versions.  A handler that has read the row is the only *)
(* one, and the version it holds is the row's: that is what its commit needs. *)

CallHolds ==
    \A c \in Slots : calls[c].at = "read" =>
        calls[c].kind = "save" /\ calls[c].version = version

OtherHolds ==
    \A o \in Others : others[o] = "read" => seen[o] = version

Held == CallHolds /\ OtherHolds /\ OneHolds

\* A step that leaves the row and the others, and begins no handler.
LEMMA NoHandlerBegins ==
    ASSUME Held, UNCHANGED <<version, others, seen>>,
           \A c \in Slots : calls'[c].at = "read" => calls'[c] = calls[c]
    PROVE  Held'
BY DEF Held, CallHolds, OtherHolds, OneHolds

LEMMA SentHolds ==
    ASSUME StateOK, Held, UNCHANGED <<version, others, seen>>,
           NEW c \in Slots, NEW call, call.at # "read",
           calls' = [calls EXCEPT ![c] = call]
    PROVE  Held'
<1>1. \A d \in Slots : calls'[d].at = "read" => calls'[d] = calls[d]
  BY DEF StateOK
<1> QED
  BY <1>1, NoHandlerBegins

LEMMA EditorHolds ==
    ASSUME StateOK, Held,
           Flush \/ Reload \/ Receive \/ Drop \/ Reconnect \/ (\E e \in Edits : Edit(e))
    PROVE  Held'
<1>1. /\ SaveCall.at # "read"
      /\ ReloadCall.at # "read"
  BY DEF SaveCall, ReloadCall, NoCall
<1>2. UNCHANGED <<version, others, seen>>
  BY DEF Flush, Reload, Receive, LockAcquired, LockReleased, Drop, Reconnect, Edit,
         row, rivals
<1>3. CASE UNCHANGED calls
  BY <1>2, <1>3, NoHandlerBegins
<1>4. CASE \E c \in Slots : Send(c, SaveCall) \/ Send(c, ReloadCall)
  BY <1>1, <1>2, <1>4, SentHolds DEF Send
<1> QED
  BY <1>3, <1>4 DEF Flush, Reload, Receive, LockAcquired, LockReleased,
                    PerformReload, Drop, Reconnect, Edit

LEMMA AnswerHolds ==
    ASSUME StateOK, Held, NEW c \in Slots, Settle(c) \/ GetProject(c) \/ RequestFails(c)
                                           \/ PutRefused(c)
    PROVE  Held'
<1>1. UNCHANGED <<version, others, seen>>
  BY DEF Settle, SaveCompleted, SaveRejected, SaveFails, ReloadCompleted,
         ReloadFails, GetProject, RequestFails, PutRefused, row, rivals
<1>2. CASE Settle(c)
  <2>1. Done(c)
    BY <1>2 DEF Settle, SaveCompleted, SaveRejected, SaveFails, ReloadCompleted,
                ReloadFails
  <2>2. NoCall.at # "read"
    BY DEF NoCall
  <2> QED
    BY <1>1, <2>1, <2>2, SentHolds DEF Done
<1>3. CASE GetProject(c) \/ RequestFails(c) \/ PutRefused(c)
  <2>1. \A d \in Slots : calls'[d].at = "read" => calls'[d] = calls[d]
    BY <1>3 DEF StateOK, Call, GetProject, RequestFails, PutRefused
  <2> QED
    BY <1>1, <2>1, NoHandlerBegins
<1> QED
  BY <1>2, <1>3

LEMMA PutReadsHolds ==
    ASSUME StateOK, Held, OneHolds', NEW c \in Slots, PutReads(c)
    PROVE  Held'
<1>1. calls[c] \in Call /\ calls[c].kind = "save"
  BY DEF StateOK, PutReads, Answer
<1>2. calls'[c] = [calls[c] EXCEPT !.at = "read", !.version = version]
  BY DEF StateOK, PutReads
<1>3. /\ calls'[c].at = "read"
      /\ calls'[c].kind = "save"
      /\ calls'[c].version = version
  BY <1>1, <1>2 DEF Call
<1>4. \A d \in Slots \ {c} : calls'[d].at # "read"
  BY <1>3 DEF OneHolds
<1>5. /\ \A o \in Others : others'[o] # "read"
      /\ version' = version
  BY <1>3 DEF PutReads, OneHolds, row, rivals
<1> QED
  BY <1>3, <1>4, <1>5 DEF Held, CallHolds, OtherHolds, OneHolds

\* Nobody is left in a handler after a commit.
LEMMA PutCommitsHolds ==
    ASSUME StateOK, Held, NEW c \in Slots, PutCommits(c)
    PROVE  Held'
<1>1. \A d \in Slots : calls'[d].at # "read"
  BY DEF StateOK, Call, PutCommits, Answer, Held, OneHolds
<1>2. \A o \in Others : others'[o] # "read"
  BY DEF PutCommits, Answer, Held, OneHolds, rivals
<1> QED
  BY <1>1, <1>2 DEF Held, CallHolds, OtherHolds, OneHolds

LEMMA OtherReadsHolds ==
    ASSUME StateOK, Held, OneHolds', NEW o \in Others, OtherReads(o)
    PROVE  Held'
<1>1. others'[o] = "read" /\ seen'[o] = version'
  BY DEF StateOK, BackendOK, OtherReads, row
<1>2. /\ \A c \in Slots : calls'[c].at # "read"
      /\ \A p \in Others \ {o} : others'[p] # "read"
  BY <1>1 DEF OneHolds
<1> QED
  BY <1>1, <1>2 DEF Held, CallHolds, OtherHolds, OneHolds

LEMMA OtherCommitsHolds ==
    ASSUME StateOK, Held, NEW o \in Others, OtherCommits(o)
    PROVE  Held'
<1>1. \A c \in Slots : calls'[c].at # "read"
  BY DEF OtherCommits, Held, OneHolds
<1>2. \A p \in Others : others'[p] # "read"
  BY DEF StateOK, BackendOK, OtherCommits, Held, OneHolds
<1> QED
  BY <1>1, <1>2 DEF Held, CallHolds, OtherHolds, OneHolds

LEMMA ImportReleasesHolds ==
    ASSUME StateOK, Held, NEW o \in Others, ImportReleases(o)
    PROVE  Held'
<1>1. \A p \in Others : others'[p] = "read" => others[p] = "read" /\ p # o
  BY DEF StateOK, BackendOK, ImportReleases
<1>2. UNCHANGED <<calls, version, seen>>
  BY DEF ImportReleases, row
<1> QED
  BY <1>1, <1>2 DEF Held, CallHolds, OtherHolds, OneHolds

LEMMA HeldStep ==
    ASSUME StateOK, Held, OneHolds', [Next]_vars
    PROVE  Held'
<1>1. CASE UNCHANGED vars
  BY <1>1, NoHandlerBegins DEF vars, state
<1>2. CASE Next
  <2>1. ASSUME NEW c \in Slots, Settle(c) \/ Handle(c) \/ RequestFails(c)
        PROVE  Held'
    BY <2>1, AnswerHolds, PutReadsHolds, PutCommitsHolds DEF Handle
  <2>2. ASSUME NEW o \in Others,
               OtherReads(o) \/ OtherCommits(o) \/ ImportReleases(o)
        PROVE  Held'
    BY <2>2, OtherReadsHolds, OtherCommitsHolds, ImportReleasesHolds
  <2> QED
    BY <1>2, <2>1, <2>2, EditorHolds DEF Next, Step
<1> QED
  BY <1>1, <1>2

\* Writing the version after the row's leaves the stored versions alone.
LEMMA AppendKeeps ==
    ASSUME StateOK, NEW data, Store(version + 1, data)
    PROVE  /\ version <= version'
           /\ \A v \in 1..version : history'[v] = history[v]
BY DEF StateOK, BackendOK, Versions, Store

LEMMA AppendsStep ==
    ASSUME StateOK, Held, [Next]_vars
    PROVE  /\ version <= version'
           /\ \A v \in 1..version : history'[v] = history[v]
<1>1. CASE UNCHANGED row
  BY <1>1 DEF StateOK, BackendOK, Versions, row
<1>2. ASSUME NEW c \in Slots, PutCommits(c)
      PROVE  Store(version + 1, calls[c].body)
  BY <1>2 DEF PutCommits, Answer, Held, CallHolds
<1>3. ASSUME NEW o \in Others, OtherCommits(o)
      PROVE  Store(version + 1, history[seen[o]] \cup {o})
  BY <1>3 DEF OtherCommits, Held, OtherHolds
<1>4. \/ UNCHANGED row
      \/ \E c \in Slots : PutCommits(c)
      \/ \E o \in Others : OtherCommits(o)
  BY DEF Next, Step, Edit, Flush, Reload, Receive, LockAcquired, LockReleased, Drop,
         Reconnect, Settle, SaveCompleted, SaveRejected, SaveFails,
         ReloadCompleted, ReloadFails, Handle, PutReads, PutRefused, GetProject,
         RequestFails, OtherReads, ImportReleases, vars, state, row
<1> QED
  BY <1>1, <1>2, <1>3, <1>4, AppendKeeps

\* What has happened stays recorded, and what has not is not the case.
LEMMA PastStep ==
    ASSUME [Next]_vars
    PROVE  /\ ~overlapped' => ~overlapped /\ (UNCHANGED vars \/ OneHolds')
           /\ ~crossed' => ~crossed /\ (UNCHANGED vars \/ OneReload')
<1>1. CASE UNCHANGED vars
  <2>1. overlapped' = overlapped /\ crossed' = crossed
    BY <1>1 DEF vars, past
  <2> QED
    BY <1>1, <2>1, Zenon
<1>2. CASE Next
  BY <1>2, Zenon DEF Next, Record
<1> QED
  BY <1>1, <1>2

HeldSoFar == overlapped \/ Held
LEMMA HeldSoFarStep ==
    ASSUME StateOK, HeldSoFar, [Next]_vars
    PROVE  HeldSoFar'
<1> SUFFICES ASSUME ~overlapped' PROVE Held'
  BY DEF HeldSoFar
<1>1. Held /\ (UNCHANGED vars \/ OneHolds')
  BY PastStep DEF HeldSoFar
<1>2. CASE UNCHANGED vars
  BY <1>1, <1>2, NoHandlerBegins DEF vars, state
<1> QED
  BY <1>1, <1>2, HeldStep

\* Until two overlap, the handlers hold what they read.
LEMMA HeldAlways == Spec => [](StateOK /\ HeldSoFar)
<1>1. Init => HeldSoFar
  BY DEF Init, HeldSoFar, Held, CallHolds, OtherHolds, OneHolds, NoCall
<1>2. TypeOK => StateOK
  BY DEF TypeOK
<1>3. StateOK /\ HeldSoFar /\ [Next]_vars => HeldSoFar'
  BY HeldSoFarStep
<1> QED
  BY <1>1, <1>2, <1>3, Typing, PTL DEF Spec

\* Until two write handlers overlap, no stored version is written twice
\* (update_project's `project.version += 1').
THEOREM RowGrows == Spec => RowAppends
<1>1. StateOK /\ HeldSoFar /\ [Next]_vars
        => [~overlapped => /\ version <= version'
                           /\ \A v \in 1..version : history'[v] = history[v]]_vars
  BY AppendsStep DEF HeldSoFar
<1> QED
  BY <1>1, HeldAlways, PTL DEF Spec, RowAppends

-----------------------------------------------------------------------------
(* What others stored is kept, while one reload is under way at a time. *)

\* A request a step leaves alone, ends, or takes a step further without an answer.
Quiet(c) ==
    \/ calls'[c] = calls[c]
    \/ /\ calls'[c].at # "ok"
       /\ Pending(c)' => /\ Pending(c)
                         /\ calls'[c].expected = calls[c].expected
                         /\ calls'[c].body = calls[c].body

\* Everything that steps other than a commit, a flush and an arriving answer leave alone.
KeepsForeign == UNCHANGED <<row, doc, base>> /\ \A c \in Slots : Quiet(c)

LEMMA KeepsForeignStep ==
    ASSUME ForeignKept, KeepsForeign
    PROVE  ForeignKept'
<1> USE DEF KeepsForeign, Quiet, row, Foreign, BaseContained
<1>1. \A c \in Slots : Answered(c)'
  BY DEF ForeignKept, Answered
<1>2. \A c \in Slots : Pending(c)' =>
        Pending(c) /\ calls'[c].expected = calls[c].expected /\ calls'[c].body = calls[c].body
  BY DEF Pending
<1>3. \A c \in Slots : Answer(c, "reload", "ok")' => Answer(c, "reload", "ok") /\ calls'[c] = calls[c]
  BY DEF Answer
<1> QED
  BY <1>1, <1>2, <1>3 DEF ForeignKept

\* A slot holds a record, and a step through a slot touches that slot only.
LEMMA SlotSteps ==
    ASSUME StateOK, NEW c \in Slots, NEW call, calls' = [calls EXCEPT ![c] = call]
    PROVE  calls'[c] = call /\ \A d \in Slots \ {c} : calls'[d] = calls[d]
  BY DEF StateOK

\* The steps of the editor and of the socket that end or send nothing but a reload.
LEMMA EditorKeeps ==
    ASSUME StateOK, Reload \/ Receive \/ Drop \/ Reconnect
    PROVE  KeepsForeign
<1> USE DEF KeepsForeign, Quiet, row, tracker
<1>1. CASE UNCHANGED calls /\ UNCHANGED <<row, doc, base>>
  BY <1>1
<1>2. ASSUME NEW c \in Slots, Send(c, ReloadCall), UNCHANGED <<row, doc, base>>
      PROVE  KeepsForeign
  BY <1>2, SlotSteps DEF Send, ReloadCall, NoCall, Pending
<1> QED
  BY <1>1, <1>2 DEF Reload, Receive, LockAcquired, LockReleased, PerformReload, Drop, Reconnect

\* The steps of a request and its answer that store nothing and apply nothing.
LEMMA RequestKeeps ==
    ASSUME StateOK, NEW c \in Slots,
           \/ SaveRejected(c) \/ SaveFails(c) \/ ReloadFails(c)
           \/ PutReads(c) \/ PutRefused(c) \/ RequestFails(c)
    PROVE  KeepsForeign
<1> USE DEF KeepsForeign, Quiet, row, tracker
<1>1. CASE SaveRejected(c) \/ SaveFails(c) \/ ReloadFails(c)
  <2>1. Done(c) /\ UNCHANGED <<row, doc, base>>
    BY <1>1 DEF SaveRejected, SaveFails, ReloadFails
  <2> QED
    BY <2>1, SlotSteps DEF Done, NoCall, Pending
<1>2. CASE PutReads(c) \/ PutRefused(c) \/ RequestFails(c)
  <2>1. UNCHANGED <<row, doc, base>> /\ \A d \in Slots \ {c} : calls'[d] = calls[d]
    BY <1>2 DEF PutReads, PutRefused, RequestFails, StateOK
  <2>2. Quiet(c)
    BY <1>2 DEF PutReads, PutRefused, RequestFails, StateOK, Call, Answer, Pending
  <2> QED
    BY <2>1, <2>2
<1> QED
  BY <1>1, <1>2

\* An edit is nothing foreign.
LEMMA EditForeign ==
    ASSUME StateOK, ForeignKept, NEW e \in Edits, Edit(e)
    PROVE  ForeignKept'
<1>1. /\ UNCHANGED <<row, base, calls>> /\ doc' = doc \cup {e} /\ e \notin Others
  BY SyncAssumption DEF Edit, tracker
<1> QED
  BY <1>1 DEF ForeignKept, Foreign, BaseContained, Answered, Pending, Answer, row

\* A flush sends the configuration with the version it contains.
LEMMA FlushForeign ==
    ASSUME StateOK, ForeignKept, Flush
    PROVE  ForeignKept'
<1>1. CASE UNCHANGED calls
  BY <1>1, KeepsForeignStep DEF Flush, KeepsForeign, Quiet, tracker
<1>2. ASSUME NEW c \in Slots, Send(c, SaveCall)
      PROVE  ForeignKept'
  <2>1. UNCHANGED <<row, doc, base>>
    BY DEF Flush, tracker
  <2>2. calls'[c] = SaveCall /\ \A d \in Slots \ {c} : calls'[d] = calls[d]
    BY <1>2, SlotSteps DEF Send
  <2> QED
    BY <2>1, <2>2 DEF ForeignKept, Foreign, BaseContained, Answered, Pending, Answer, row, SaveCall
<1> QED
  BY <1>1, <1>2 DEF Flush

\* The answer to a save makes the version it stored the base: what it held is shown.
LEMMA SaveCompletedForeign ==
    ASSUME StateOK, ForeignKept, NEW c \in Slots, SaveCompleted(c)
    PROVE  ForeignKept'
<1>1. UNCHANGED <<row, doc>> /\ base' = calls[c].version
  BY DEF SaveCompleted, Agree
<1>2. calls'[c] = NoCall /\ \A d \in Slots \ {c} : calls'[d] = calls[d]
  BY SlotSteps DEF SaveCompleted, Done
<1>3. /\ calls[c].version <= version /\ calls[c].body = history[calls[c].version]
      /\ Foreign(calls[c].body) \subseteq doc
  BY DEF SaveCompleted, Answer, ForeignKept, Answered, Pending
<1> QED
  BY <1>1, <1>2, <1>3 DEF ForeignKept, Foreign, BaseContained, Answered, Pending, Answer, row, NoCall

\* The answer to the only reload replaces the configuration by one that contains what
\* every save under way has seen.
LEMMA ReloadCompletedForeign ==
    ASSUME StateOK, ForeignKept, OneReload, NEW c \in Slots, ReloadCompleted(c)
    PROVE  ForeignKept'
<1>1. UNCHANGED row /\ base' = calls[c].version /\ doc' = calls[c].body
  BY DEF ReloadCompleted, Agree
<1>2. calls'[c] = NoCall /\ \A d \in Slots \ {c} : calls'[d] = calls[d]
  BY SlotSteps DEF ReloadCompleted, Done
<1>3. /\ calls[c].version <= version /\ calls[c].body = history[calls[c].version]
      /\ Foreign(doc) \subseteq calls[c].body /\ calls[c].version \in 1..version
  BY DEF ReloadCompleted, Answer, ForeignKept, Answered, StateOK, Call, Versions
<1>4. \A d \in Slots \ {c} : calls[d].kind # "reload"
  BY DEF OneReload, ReloadCompleted, Answer
<1>5. Foreign(doc') \subseteq history[version]
  BY <1>1, <1>3 DEF ForeignKept, StateOK, BackendOK, Versions
<1> QED
  BY <1>1, <1>2, <1>3, <1>4, <1>5
     DEF ForeignKept, Foreign, BaseContained, Answered, Pending, Answer, row, NoCall

\* A reload reads the row, which has everything.
LEMMA GetProjectForeign ==
    ASSUME StateOK, ForeignKept, NEW c \in Slots, GetProject(c)
    PROVE  ForeignKept'
<1>1. UNCHANGED <<row, doc, base>>
  BY DEF GetProject, tracker
<1>2. /\ calls'[c].kind = "reload" /\ calls'[c].version = version
      /\ calls'[c].body = history[version]
      /\ \A d \in Slots \ {c} : calls'[d] = calls[d]
  BY DEF GetProject, StateOK, Call, Answer
<1>3. \A d \in Slots : Answered(d)'
  BY <1>1, <1>2 DEF ForeignKept, Answered, row, StateOK, BackendOK, Versions
<1>4. \A d \in Slots : Pending(d)' => d # c
  BY <1>2 DEF Pending
<1>5. ASSUME NEW d \in Slots, Answer(d, "reload", "ok")' PROVE Foreign(doc') \subseteq calls'[d].body
  <2>1. CASE d = c
    BY <1>1, <1>2, <2>1 DEF ForeignKept, Foreign
  <2>2. CASE d # c
    BY <1>1, <1>2, <1>5, <2>2 DEF ForeignKept, Foreign, Answer
  <2> QED
    BY <2>1, <2>2
<1>6. ASSUME NEW d \in Slots, Pending(d)'
      PROVE  /\ Pending(d) /\ calls'[d] = calls[d]
  BY <1>2, <1>4, <1>6 DEF Pending
<1> QED
  BY <1>1, <1>3, <1>5, <1>6 DEF ForeignKept, Foreign, BaseContained, row

\* A commit after the row's version that contains what the row has of others'.
LEMMA StoreForeign ==
    ASSUME StateOK, ForeignKept, NEW data, Store(version + 1, data), version + 1 \in Versions,
           Foreign(history[version]) \subseteq data
    PROVE  /\ version' = version + 1 /\ history'[version'] = data
           /\ \A v \in 1..version : history'[v] = history[v]
           /\ \A v \in 1..version' : \A u \in 1..v : Foreign(history'[u]) \subseteq history'[v]
           /\ Foreign(doc) \subseteq data
<1>1. /\ version \in Nat /\ version \in Versions
      /\ version' = version + 1 /\ history' = [history EXCEPT ![version + 1] = data]
  BY DEF StateOK, BackendOK, Versions, Store
<1>2. history'[version'] = data /\ \A v \in 1..version : history'[v] = history[v]
  BY <1>1 DEF StateOK, BackendOK, Versions
<1>3. \A u \in 1..version : Foreign(history[u]) \subseteq data
  BY <1>1 DEF ForeignKept, Versions, Foreign
<1>4. \A v \in 1..version' : \A u \in 1..v : Foreign(history'[u]) \subseteq history'[v]
  <2> SUFFICES ASSUME NEW v \in 1..version', NEW u \in 1..v
               PROVE  Foreign(history'[u]) \subseteq history'[v]
    OBVIOUS
  <2>1. CASE v = version + 1 /\ u = version + 1
    BY <2>1 DEF Foreign
  <2>2. CASE v = version + 1 /\ u # version + 1
    BY <1>1, <1>2, <1>3, <2>2
  <2>3. CASE v # version + 1
    BY <1>1, <1>2, <2>3 DEF ForeignKept
  <2> QED
    BY <2>1, <2>2, <2>3
<1> QED
  BY <1>1, <1>2, <1>4 DEF ForeignKept, Foreign

\* A commit leaves the editor and the other requests as they were.
LEMMA CommitForeign ==
    ASSUME StateOK, ForeignKept, NEW data, Store(version + 1, data), version + 1 \in Versions,
           Foreign(history[version]) \subseteq data, UNCHANGED <<doc, base>>,
           \A d \in Slots : \/ calls'[d] = calls[d]
                            \/ /\ Pending(d) /\ calls[d].body = data /\ calls'[d].kind = "save"
                               /\ calls'[d].version = version + 1
                               /\ calls'[d].expected = calls[d].expected
                               /\ calls'[d].body = calls[d].body
    PROVE  ForeignKept'
<1>1. /\ version' = version + 1 /\ history'[version'] = data
      /\ \A v \in 1..version : history'[v] = history[v]
      /\ \A v \in 1..version' : \A u \in 1..v : Foreign(history'[u]) \subseteq history'[v]
      /\ Foreign(doc) \subseteq data
  BY StoreForeign
<1>2. version \in Nat /\ base \in 1..version
  BY DEF StateOK, BackendOK, EditorOK, Versions, ForeignKept
<1>3. base' <= version' /\ BaseContained' /\ Foreign(doc') \subseteq history'[version']
  BY <1>1, <1>2 DEF ForeignKept, BaseContained
<1>4. ASSUME NEW d \in Slots PROVE Answered(d)'
  <2>1. calls[d].version \in Nat \ {0}
    BY DEF StateOK, Call, Versions
  <2> QED
    BY <1>1, <1>2, <2>1 DEF ForeignKept, Answered
<1>5. ASSUME NEW d \in Slots, Pending(d)'
      PROVE  /\ calls'[d].expected <= version'
             /\ Foreign(history'[calls'[d].expected]) \subseteq calls'[d].body
             /\ Foreign(calls'[d].body) \subseteq doc'
  <2>1. /\ Pending(d) /\ calls'[d].expected = calls[d].expected
        /\ calls'[d].body = calls[d].body
    BY <1>5 DEF Pending
  <2>2. calls[d].expected \in 1..version
    BY <2>1 DEF ForeignKept, StateOK, Call, Versions
  <2> QED
    BY <1>1, <1>2, <2>1, <2>2 DEF ForeignKept
<1>6. ASSUME NEW d \in Slots, Answer(d, "reload", "ok")'
      PROVE  Foreign(doc') \subseteq calls'[d].body
  BY <1>6 DEF Answer, ForeignKept
<1> QED
  BY <1>1, <1>3, <1>4, <1>5, <1>6 DEF ForeignKept

\* A save that is committed was built on the version it replaces.
LEMMA PutCommitsForeign ==
    ASSUME StateOK, Held, ForeignKept, NEW c \in Slots, PutCommits(c)
    PROVE  ForeignKept' /\ Foreign(history[version]) \subseteq history'[version']
<1>1. /\ calls[c].version = version /\ calls[c].expected = version /\ Pending(c)
      /\ version + 1 \in Versions /\ Store(version + 1, calls[c].body)
  BY NextVersion DEF PutCommits, Answer, Matches, Held, CallHolds, Pending, StateOK, BackendOK
<1>2. Foreign(history[version]) \subseteq calls[c].body
  BY <1>1 DEF ForeignKept
<1>3. /\ UNCHANGED <<doc, base>>
      /\ calls'[c].kind = "save" /\ calls'[c].version = version + 1
      /\ calls'[c].expected = calls[c].expected /\ calls'[c].body = calls[c].body
      /\ \A d \in Slots \ {c} : calls'[d] = calls[d]
  BY <1>1 DEF PutCommits, Answer, StateOK, Call, tracker
<1>4. ForeignKept'
  BY <1>1, <1>2, <1>3, CommitForeign
<1> QED
  BY <1>1, <1>2, <1>4, StoreForeign

\* Another writer adds to the version it has read, which is the row's.
LEMMA OtherCommitsForeign ==
    ASSUME StateOK, Held, ForeignKept, NEW o \in Others, OtherCommits(o)
    PROVE  ForeignKept' /\ Foreign(history[version]) \subseteq history'[version']
<1>1. /\ version + 1 \in Versions /\ Store(version + 1, history[version] \cup {o})
      /\ UNCHANGED <<doc, base, calls>>
  BY NextVersion DEF OtherCommits, Held, OtherHolds, StateOK, BackendOK, tracker
<1>2. Foreign(history[version]) \subseteq history[version] \cup {o}
  BY DEF Foreign
<1>3. ForeignKept'
  BY <1>1, <1>2, CommitForeign
<1> QED
  BY <1>1, <1>2, <1>3, StoreForeign

\* Every step keeps what others stored.
LEMMA ForeignStep ==
    ASSUME StateOK, Held, ForeignKept, OneReload, [Next]_vars
    PROVE  ForeignKept' /\ Foreign(history[version]) \subseteq history'[version']
<1>1. ASSUME UNCHANGED row PROVE Foreign(history[version]) \subseteq history'[version']
  BY <1>1 DEF row, Foreign
<1>2. ASSUME KeepsForeign
      PROVE  ForeignKept' /\ Foreign(history[version]) \subseteq history'[version']
  BY <1>1, <1>2, KeepsForeignStep DEF KeepsForeign
<1>3. CASE UNCHANGED vars
  BY <1>2, <1>3 DEF vars, state, KeepsForeign, Quiet, row
<1>4. ASSUME NEW c \in Slots, Settle(c) \/ Handle(c) \/ RequestFails(c)
      PROVE  ForeignKept' /\ Foreign(history[version]) \subseteq history'[version']
  <2>1. CASE SaveCompleted(c) \/ ReloadCompleted(c) \/ GetProject(c)
    BY <1>1, <2>1, SaveCompletedForeign, ReloadCompletedForeign, GetProjectForeign
       DEF SaveCompleted, ReloadCompleted, GetProject
  <2> QED
    BY <1>2, <1>4, <2>1, RequestKeeps, PutCommitsForeign DEF Settle, Handle
<1>5. ASSUME NEW o \in Others, OtherReads(o) \/ OtherCommits(o) \/ ImportReleases(o)
      PROVE  ForeignKept' /\ Foreign(history[version]) \subseteq history'[version']
  <2>1. CASE OtherReads(o) \/ ImportReleases(o)
    BY <1>2, <2>1 DEF OtherReads, ImportReleases, KeepsForeign, Quiet, row, tracker
  <2> QED
    BY <1>5, <2>1, OtherCommitsForeign
<1>6. CASE Flush \/ \E e \in Edits : Edit(e)
  BY <1>1, <1>6, FlushForeign, EditForeign DEF Flush, Edit
<1> QED
  BY <1>2, <1>3, <1>4, <1>5, <1>6, EditorKeeps DEF Next, Step

\* The same until handlers overlap or reloads cross, and that no two reloads are under way.
ForeignSoFar == overlapped \/ crossed \/ (ForeignKept /\ OneReload)
LEMMA ForeignSoFarStep ==
    ASSUME StateOK, HeldSoFar, ForeignSoFar, [Next]_vars
    PROVE  /\ ForeignSoFar'
           /\ ~overlapped /\ ~crossed => Foreign(history[version]) \subseteq history'[version']
<1>1. ASSUME ~overlapped, ~crossed
      PROVE  ForeignKept' /\ Foreign(history[version]) \subseteq history'[version']
  BY <1>1, ForeignStep DEF HeldSoFar, ForeignSoFar
<1>2. ASSUME ~overlapped, ~crossed, ~crossed' PROVE OneReload'
  <2>1. OneReload /\ (UNCHANGED vars \/ OneReload')
    BY <1>2, PastStep DEF ForeignSoFar
  <2> QED
    BY <2>1 DEF vars, state, OneReload
<1> QED
  BY <1>1, <1>2, PastStep DEF ForeignSoFar

\* Until two write handlers overlap or two reloads cross, no save removes what another
\* writer stored (update_project, performReload).  With two reloads an old answer replaces
\* the configuration after a newer one has raised the base version.
THEOREM NothingOverwritten == Spec => NoLostUpdate
<1>1. Init => ForeignSoFar
  BY SyncAssumption DEF Init, ForeignSoFar, ForeignKept, OneReload, Foreign, BaseContained,
     Answered, Pending, Answer, NoCall, Versions
<1>2. StateOK /\ HeldSoFar /\ ForeignSoFar /\ [Next]_vars
        => /\ ForeignSoFar'
           /\ [~overlapped /\ ~crossed
                 => history[version] \cap Others \subseteq history'[version']]_vars
  BY ForeignSoFarStep DEF Foreign
<1> QED
  BY <1>1, <1>2, HeldAlways, PTL DEF Spec, NoLostUpdate

-----------------------------------------------------------------------------
(* A clean status after one edit. *)

\* A request that ends, is answered no or stays what it was.
Kept(c) ==
    \/ calls'[c] = calls[c]
    \/ /\ calls'[c].at # "ok" /\ calls'[c].body \in {calls[c].body, {}}
       /\ calls'[c].changes \in {calls[c].changes, {}}
       /\ Pending(c)' => Pending(c) /\ calls'[c].body = calls[c].body

\* A step that leaves the row, the configuration, the edits and the base alone: it may
\* mark the tracker clean only where saves are blocked, and leaves no such state clean.
KeepsEdits ==
    /\ UNCHANGED <<row, doc, base, made>>
    /\ \A c \in Slots : Kept(c)
    /\ tracked' \subseteq made
    /\ dirty' => dirty
    /\ ~dirty' /\ ~IsSaveBlocked' => ~dirty /\ ~IsSaveBlocked

LEMMA KeepsEditsStep ==
    ASSUME OneKept, OneEdit => KeepsEdits, made \subseteq made'
    PROVE  OneKept'
<1> SUFFICES ASSUME OneEdit' PROVE OneKept'
  BY DEF OneKept
<1>1. OneEdit /\ KeepsEdits
  BY DEF OneEdit
<1>2. \A c \in Slots : /\ Answered(c)'
                       /\ calls'[c].body \cap Edits \subseteq made
                       /\ calls'[c].changes \subseteq made
                       /\ Pending(c)' => made # {} /\ made \subseteq calls'[c].body
  BY <1>1 DEF OneKept, KeepsEdits, Kept, Answered, Pending, row
<1> QED
  BY <1>1, <1>2 DEF OneKept, KeepsEdits, row

\* The steps of the socket and the reloads.
LEMMA SocketEdits ==
    ASSUME StateOK, OneKept, OneEdit, Reload \/ Receive \/ Drop \/ Reconnect
    PROVE  KeepsEdits
<1> USE DEF KeepsEdits, OneKept, IsSaveBlocked, row, tracker
<1>1. CASE Drop \/ Reconnect
  BY <1>1 DEF Drop, Reconnect, Kept
<1>2. CASE LockAcquired
  <2>1. sm' \in {"locked", "error", "conflict"}
    BY <1>2 DEF LockAcquired, Goto, ValidTransitions, StateOK, EditorOK, SyncState
  <2> QED
    BY <1>2, <2>1 DEF LockAcquired, Kept
<1>3. ASSUME PerformReload, UNCHANGED <<row, doc, base, made, dirty>> PROVE KeepsEdits
  <2>1. PICK c \in Slots : Send(c, ReloadCall)
    BY <1>3 DEF PerformReload
  <2>2. \A d \in Slots : Kept(d)
    BY <2>1, SlotSteps DEF Send, ReloadCall, NoCall, Pending, Kept
  <2> QED
    BY <1>3, <2>2 DEF PerformReload
<1> QED
  BY <1>1, <1>2, <1>3 DEF Reload, Receive, LockReleased

\* The steps of requests that store nothing and are answered no.
LEMMA RequestEdits ==
    ASSUME StateOK, OneKept, OneEdit, NEW c \in Slots,
           \/ SaveRejected(c) \/ SaveFails(c) \/ ReloadFails(c)
           \/ PutReads(c) \/ PutRefused(c) \/ RequestFails(c)
    PROVE  KeepsEdits
<1> USE DEF KeepsEdits, OneKept, IsSaveBlocked, row, tracker
<1>1. CASE SaveRejected(c) \/ SaveFails(c) \/ ReloadFails(c)
  <2>1. Done(c) /\ UNCHANGED <<row, doc, base, made, dirty>> /\ tracked' \subseteq made
    BY <1>1 DEF SaveRejected, SaveFails, ReloadFails
  <2>2. \A d \in Slots : Kept(d)
    BY <2>1, SlotSteps DEF Done, NoCall, Pending, Kept
  <2>3. sm' \in {sm, "conflict", "error"}
    BY <1>1 DEF SaveRejected, SaveFails, ReloadFails, Goto, From
  <2> QED
    BY <2>1, <2>2, <2>3
<1>2. CASE PutReads(c) \/ PutRefused(c) \/ RequestFails(c)
  <2>1. UNCHANGED <<row, doc, base, made, dirty, sm, tracked>> /\ \A d \in Slots \ {c} : calls'[d] = calls[d]
    BY <1>2 DEF PutReads, PutRefused, RequestFails, StateOK
  <2>2. Kept(c)
    BY <1>2 DEF PutReads, PutRefused, RequestFails, StateOK, Call, Answer, Pending, Kept
  <2> QED
    BY <2>1, <2>2 DEF Kept
<1> QED
  BY <1>1, <1>2

\* The only edit is made before anything is saved.
LEMMA EditEdits ==
    ASSUME StateOK, OneKept, NEW e \in Edits, Edit(e)
    PROVE  OneKept'
<1> SUFFICES ASSUME OneEdit' PROVE OneKept'
  BY DEF OneKept
<1>1. made = {} /\ made' = {e} /\ OneEdit
  BY DEF OneEdit, Edit
<1>2. UNCHANGED <<row, base, calls>> /\ doc' = doc \cup {e} /\ dirty' /\ tracked' = tracked \cup {e}
  BY DEF Edit, tracker
<1> QED
  BY <1>1, <1>2 DEF OneKept, Answered, Pending, row

\* A flush of dirty changes sends them in the configuration.
LEMMA FlushEdits ==
    ASSUME StateOK, OneKept, Flush
    PROVE  OneKept'
<1>1. ASSUME sm' \in {sm, "conflict"}, UNCHANGED calls PROVE OneKept'
  <2>1. UNCHANGED <<row, doc, base, made, dirty>> /\ tracked' = {}
    BY DEF Flush, tracker
  <2>2. KeepsEdits
    BY <1>1, <2>1 DEF KeepsEdits, Kept, IsSaveBlocked
  <2> QED
    BY <2>1, <2>2, KeepsEditsStep
<1>2. ASSUME NEW c \in Slots, Send(c, SaveCall), dirty
      PROVE  OneKept'
  <2> SUFFICES ASSUME OneEdit PROVE OneKept'
    BY DEF OneKept, Flush, OneEdit
  <2>1. UNCHANGED <<row, doc, base, made, dirty>> /\ tracked # {} /\ tracked' = {}
    BY DEF Flush, tracker
  <2>2. calls'[c] = SaveCall /\ \A d \in Slots \ {c} : calls'[d] = calls[d]
    BY <1>2, SlotSteps DEF Send
  <2> QED
    BY <1>2, <2>1, <2>2 DEF OneKept, Answered, Pending, row, SaveCall
<1> QED
  BY <1>1, <1>2 DEF Flush, Goto

\* An answer that makes its version the base: all that is shown is stored there.
LEMMA CompletedEdits ==
    ASSUME StateOK, OneKept, NEW c \in Slots, SaveCompleted(c) \/ ReloadCompleted(c)
    PROVE  OneKept'
<1> SUFFICES ASSUME OneEdit PROVE OneKept'
  BY DEF OneKept, SaveCompleted, ReloadCompleted, OneEdit
<1>1. UNCHANGED <<row, made, tracked>> /\ base' = calls[c].version /\ ~dirty'
  BY DEF SaveCompleted, ReloadCompleted, Agree
<1>2. calls'[c] = NoCall /\ \A d \in Slots \ {c} : calls'[d] = calls[d]
  BY SlotSteps DEF SaveCompleted, ReloadCompleted, Done
<1>3. base' <= version /\ calls[c].body = history[base']
  BY <1>1 DEF SaveCompleted, ReloadCompleted, Answer, OneKept, Answered
<1>4. doc' \cap Edits \subseteq made /\ doc' \cap Edits \subseteq history[base']
  <2>1. CASE SaveCompleted(c)
    BY <1>3, <2>1 DEF SaveCompleted, Answer, OneKept, Pending
  <2>2. CASE ReloadCompleted(c)
    BY <1>3, <2>2 DEF ReloadCompleted, OneKept
  <2> QED
    BY <2>1, <2>2
<1> QED
  BY <1>1, <1>2, <1>3, <1>4 DEF OneKept, Answered, Pending, row, NoCall

\* A reload reads what the row has.
LEMMA GetProjectEdits ==
    ASSUME StateOK, OneKept, NEW c \in Slots, GetProject(c)
    PROVE  OneKept'
<1> SUFFICES ASSUME OneEdit PROVE OneKept'
  BY DEF OneKept, GetProject, OneEdit
<1>1. UNCHANGED <<row, doc, base, made, tracked, dirty, sm>>
  BY DEF GetProject, tracker
<1>2. /\ calls'[c].kind = "reload" /\ calls'[c].version = version
      /\ calls'[c].body = history[version] /\ calls'[c].changes = calls[c].changes
      /\ \A d \in Slots \ {c} : calls'[d] = calls[d]
  BY DEF GetProject, StateOK, Call, Answer
<1>3. \A d \in Slots : Answered(d)'
  BY <1>1, <1>2 DEF OneKept, Answered, row, StateOK, BackendOK, Versions
<1> QED
  BY <1>1, <1>2, <1>3 DEF OneKept, Pending, row, StateOK, BackendOK, IsSaveBlocked

\* A commit stores edits that were made, and rewrites no version.
LEMMA CommitEdits ==
    ASSUME StateOK, OneKept, OneEdit, NEW data, Store(version + 1, data), version + 1 \in Versions,
           data \cap Edits \subseteq made, UNCHANGED <<doc, base, made, tracked, dirty, sm>>,
           \A d \in Slots : \/ calls'[d] = calls[d]
                            \/ /\ Pending(d) /\ calls[d].body = data
                               /\ calls'[d].version = version + 1
                               /\ calls'[d].changes = calls[d].changes
                               /\ calls'[d].body = calls[d].body
    PROVE  OneKept'
<1>1. /\ version' = version + 1 /\ history'[version'] = data
      /\ version \in Nat /\ base \in 1..version
      /\ \A v \in Versions : v # version + 1 => history'[v] = history[v]
  BY DEF StateOK, BackendOK, EditorOK, Versions, Store, OneKept
<1>2. ASSUME NEW d \in Slots
      PROVE  /\ Answered(d)' /\ calls'[d].body \cap Edits \subseteq made
             /\ calls'[d].changes \subseteq made
             /\ Pending(d)' => made # {} /\ made \subseteq calls'[d].body
  <2>1. calls[d].version \in Versions
    BY DEF StateOK, Call
  <2> QED
    BY <1>1, <2>1 DEF OneKept, Answered, Pending, Versions
<1>3. \A v \in Versions : history'[v] \cap Edits \subseteq made
  BY <1>1 DEF OneKept
<1>4. base' <= version' /\ history'[base'] = history[base]
  BY <1>1 DEF StateOK, EditorOK
<1> QED
  BY <1>1, <1>2, <1>3, <1>4 DEF OneKept, IsSaveBlocked

LEMMA PutCommitsEdits ==
    ASSUME StateOK, Held, OneKept, NEW c \in Slots, PutCommits(c)
    PROVE  OneKept'
<1> SUFFICES ASSUME OneEdit PROVE OneKept'
  BY DEF OneKept, PutCommits, OneEdit
<1>1. /\ calls[c].version = version /\ Pending(c)
      /\ version + 1 \in Versions /\ Store(version + 1, calls[c].body)
  BY NextVersion DEF PutCommits, Answer, Held, CallHolds, Pending, StateOK, BackendOK
<1>2. /\ UNCHANGED <<doc, base, made, tracked, dirty, sm>>
      /\ calls'[c].version = version + 1 /\ calls'[c].changes = calls[c].changes
      /\ calls'[c].body = calls[c].body
      /\ \A d \in Slots \ {c} : calls'[d] = calls[d]
  BY <1>1 DEF PutCommits, StateOK, Call, tracker
<1>3. calls[c].body \cap Edits \subseteq made
  BY DEF OneKept
<1> QED
  BY <1>1, <1>2, <1>3, CommitEdits

LEMMA OtherCommitsEdits ==
    ASSUME StateOK, Held, OneKept, NEW o \in Others, OtherCommits(o)
    PROVE  OneKept'
<1> SUFFICES ASSUME OneEdit PROVE OneKept'
  BY DEF OneKept, OtherCommits, OneEdit
<1>1. /\ version + 1 \in Versions /\ Store(version + 1, history[version] \cup {o})
      /\ UNCHANGED <<doc, base, made, tracked, dirty, sm, calls>>
  BY NextVersion DEF OtherCommits, Held, OtherHolds, StateOK, BackendOK, tracker
<1>2. (history[version] \cup {o}) \cap Edits \subseteq made
  BY SyncAssumption DEF OneKept, StateOK, BackendOK
<1> QED
  BY <1>1, <1>2, CommitEdits

LEMMA OneKeptStep ==
    ASSUME StateOK, Held, OneKept, [Next]_vars
    PROVE  OneKept'
<1>1. ASSUME OneEdit => KeepsEdits, UNCHANGED made PROVE OneKept'
  BY <1>1, KeepsEditsStep
<1>2. CASE UNCHANGED vars
  BY <1>1, <1>2 DEF vars, state, KeepsEdits, Kept, row, OneKept, IsSaveBlocked
<1>3. CASE Reload \/ Receive \/ Drop \/ Reconnect
  <2>1. UNCHANGED made
    BY <1>3 DEF Reload, Receive, LockAcquired, LockReleased, Drop, Reconnect
  <2> QED
    BY <1>1, <1>3, <2>1, SocketEdits
<1>4. CASE Flush \/ \E e \in Edits : Edit(e)
  BY <1>4, FlushEdits, EditEdits
<1>5. ASSUME NEW c \in Slots, Settle(c) \/ Handle(c) \/ RequestFails(c)
      PROVE  OneKept'
  <2>1. CASE SaveCompleted(c) \/ ReloadCompleted(c) \/ GetProject(c)
    BY <2>1, CompletedEdits, GetProjectEdits
  <2>2. CASE \/ SaveRejected(c) \/ SaveFails(c) \/ ReloadFails(c)
             \/ PutReads(c) \/ PutRefused(c) \/ RequestFails(c)
    <3>1. UNCHANGED made
      BY <2>2 DEF SaveRejected, SaveFails, ReloadFails, PutReads, PutRefused, RequestFails
    <3> QED
      BY <1>1, <2>2, <3>1, RequestEdits
  <2>3. CASE PutCommits(c)
    BY <2>3, PutCommitsEdits
  <2> QED
    BY <1>5, <2>1, <2>2, <2>3 DEF Settle, Handle
<1>6. ASSUME NEW o \in Others, OtherReads(o) \/ OtherCommits(o) \/ ImportReleases(o)
      PROVE  OneKept'
  <2>1. CASE OtherReads(o) \/ ImportReleases(o)
    BY <1>1, <2>1 DEF OtherReads, ImportReleases, KeepsEdits, Kept, row, tracker, OneKept, IsSaveBlocked
  <2> QED
    BY <1>6, <2>1, OtherCommitsEdits
<1> QED
  BY <1>2, <1>3, <1>4, <1>5, <1>6 DEF Next, Step

\* After one edit, whatever fails, is refused, reloaded, locked or reconnected, a clean
\* idle status means that the edits shown are stored in the base version, until two write
\* handlers overlap (hasPendingChanges of getStatus).
THEOREM CleanIsStored == Spec => []OneSavedIsSaved
<1> DEFINE KeptSoFar == overlapped \/ OneKept
<1>1. Init => KeptSoFar
  BY SyncAssumption DEF Init, OneKept, OneEdit, Answered, Pending, NoCall, Versions
<1>2. StateOK /\ HeldSoFar /\ KeptSoFar /\ [Next]_vars => KeptSoFar'
  BY OneKeptStep, PastStep DEF HeldSoFar
<1>3. KeptSoFar => OneSavedIsSaved
  BY DEF OneKept, OneSavedIsSaved, SavedIsSaved, IsSaveBlocked
<1> QED
  BY <1>1, <1>2, <1>3, HeldAlways, PTL DEF Spec
=============================================================================
