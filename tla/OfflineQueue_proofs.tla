------------------------- MODULE OfflineQueue_proofs -------------------------
(***************************************************************************)
(* Proofs about OfflineQueue, for any number of tabs, screenshots, retries *)
(* and faults.                                                             *)
(***************************************************************************)
EXTENDS OfflineQueue, TLAPS

LEMMA AbsentStatus == \A r \in SyncQueueItem : r # Absent
BY DEF SyncQueueItem, Status, Absent

LEMMA ItemWrites ==
    ASSUME NEW r \in SyncQueueItem
    PROVE  /\ \A s \in Status : [r EXCEPT !.status = s] \in SyncQueueItem
           /\ Completed(r) \in SyncQueueItem /\ Completed(r).status = "completed"
           /\ Failed(r) \in SyncQueueItem /\ Failed(r).status = "failed"
           /\ Fresh \in SyncQueueItem
<1>1. \A s \in Status : [r EXCEPT !.status = s] \in SyncQueueItem
  BY DEF SyncQueueItem
<1>2. Completed(r) \in SyncQueueItem /\ Completed(r).status = "completed"
  BY DEF SyncQueueItem, Status, Completed
<1>3. (r.due /\ r.retryCount + 1 >= MaxRetries) \in BOOLEAN
  OBVIOUS
<1>5. r.retryCount + 1 \in Nat
  BY DEF SyncQueueItem
<1>6. Failed(r) \in SyncQueueItem /\ Failed(r).status = "failed"
  BY <1>3, <1>5 DEF SyncQueueItem, Status, Failed
<1>7. Fresh \in SyncQueueItem
  BY DEF SyncQueueItem, Status, Fresh
<1>. QED BY <1>1, <1>2, <1>6, <1>7

LEMMA NoItemNotItem == NoItem \notin Items
BY QueueAssumption DEF NoItem, Items

LEMMA ReadAllType ==
    ASSUME TypeOK, NEW S, NEW list \in {1, 2}, \A i \in S : i \in Items /\ queue[i] # Absent
    PROVE  ReadAll(list, S) \in SUBSET Entry
BY DEF TypeOK, ReadAll, Entry

LEMMA InitTyping == Init => TypeOK
<1> SUFFICES ASSUME Init PROVE TypeOK
  OBVIOUS
<1>1. online \in BOOLEAN /\ bgSync \in BOOLEAN /\ ok \in [Tabs -> BOOLEAN]
  BY Zenon DEF Init
<1>. QED BY <1>1 DEF Init, TypeOK, Busy

(***************************************************************************)
(* Every step keeps the types.                                             *)
(***************************************************************************)
HistoryOK == alone \in BOOLEAN /\ lost \in [Items -> Nat]

\* What was lost stays lost.
LostGrows == \A i \in Items : lost'[i] >= lost[i]

LEMMA Recorded ==
    ASSUME HistoryOK, Record
    PROVE  HistoryOK' /\ LostGrows
<1>1. alone' \in BOOLEAN
  BY Zenon DEF Record
<1>2. lost' \in [Items -> Nat] /\ LostGrows
  BY DEF HistoryOK, Record, LostGrows
<1>. QED BY <1>1, <1>2 DEF HistoryOK

LEMMA RunTyping ==
    ASSUME TypeOK, NEW t \in Tabs, RunStep(t), HistoryOK'
    PROVE  TypeOK'
<1> USE QueueAssumption, NoItemNotItem DEF TypeOK, HistoryOK, browser, runs
<1>1. CASE ReadPending(t)
  <2>1. ReadAll(1, WithStatus("pending")) \in SUBSET Entry
    BY ReadAllType DEF WithStatus, Absent
  <2>. QED BY <1>1, <2>1 DEF ReadPending, Busy
<1>2. CASE ReadRetry(t)
  <2>1. ReadAll(2, ReadyToRetry) \in SUBSET Entry
    BY ReadAllType DEF ReadyToRetry, WithStatus, Absent
  <2>. QED BY <1>2, <2>1 DEF ReadRetry, Busy
<1>3. CASE MarkSyncing(t)
  <2>1. PICK e \in todo[t] :
          /\ queue' = [queue EXCEPT ![e.id] = [e.item EXCEPT !.status = "syncing"]]
          /\ cur' = [cur EXCEPT ![t] = e.id]
          /\ todo' = [todo EXCEPT ![t] = @ \ {e}]
    BY <1>3 DEF MarkSyncing
  <2>2. e.id \in Items /\ e.item \in SyncQueueItem
    BY DEF Entry
  <2>3. [e.item EXCEPT !.status = "syncing"] \in SyncQueueItem
    BY <2>2, ItemWrites DEF Status
  <2>4. queue' \in [Items -> SyncQueueItem \cup {Absent}]
    BY <2>1, <2>2, <2>3
  <2>5. cur' \in [Tabs -> Items \cup {NoItem}] /\ cur'[t] # NoItem
    BY <2>1, <2>2
  <2>6. todo' \in [Tabs -> SUBSET Entry]
    BY <2>1
  <2>. QED BY <1>3, <2>1, <2>4, <2>5, <2>6 DEF MarkSyncing, Busy
<1>4. CASE ServerStores(t)
  <2>1. images' \in [Items -> Nat]
    BY <1>4 DEF ServerStores, Busy
  <2>. QED BY <1>4, <2>1 DEF ServerStores, Busy
<1>5. CASE UploadSucceeds(t)
  BY <1>5 DEF UploadSucceeds, Answered, Busy
<1>6. CASE RequestFails(t)
  BY <1>6 DEF RequestFails, Refused, Answered, Busy
<1>7. CASE AnswerLost(t)
  BY <1>7 DEF AnswerLost, Answered, Busy
<1>8. CASE ReadForResult(t)
  <2>1. cur[t] \in Items
    BY <1>8 DEF ReadForResult, Busy
  <2>. QED BY <1>8, <2>1 DEF ReadForResult, Busy
<1>9. CASE WriteResult(t)
  <2>1. cur[t] \in Items /\ got[t] \in SyncQueueItem
    BY <1>9 DEF WriteResult, Busy
  <2>2. queue' \in [Items -> SyncQueueItem \cup {Absent}]
    BY <1>9, <2>1, ItemWrites DEF WriteResult
  <2>. QED BY <1>9, <2>2 DEF WriteResult, Busy
<1>10. CASE EndRun(t)
  BY <1>10 DEF EndRun, Busy
<1>. QED BY <1>1, <1>2, <1>3, <1>4, <1>5, <1>6, <1>7, <1>8, <1>9, <1>10 DEF RunStep

LEMMA UserTyping ==
    ASSUME TypeOK, NEW t \in Tabs, UserStep(t), HistoryOK'
    PROVE  TypeOK'
<1> USE QueueAssumption, NoItemNotItem DEF TypeOK, HistoryOK, browser, runs
<1>1. CASE SaveScreenshot(t)
  BY <1>1 DEF SaveScreenshot
<1>2. CASE Enqueue(t)
  <2>1. queue' \in [Items -> SyncQueueItem \cup {Absent}]
    BY <1>2, ItemWrites, AbsentStatus, <1>2 DEF Enqueue, Fresh, SyncQueueItem, Status
  <2>. QED BY <1>2, <2>1 DEF Enqueue, ProcessQueue, Starts, Busy
<1>3. CASE ReadForRetry(t)
  <2>1. user' \in [Tabs -> [op : {"retry", "cancel"}, id : Items, item : SyncQueueItem]
                         \cup {NoOp}]
    BY <1>3 DEF ReadForRetry
  <2>. QED BY <1>3, <2>1 DEF ReadForRetry
<1>4. CASE RetryScreenshotUpload(t)
  <2>1. queue' \in [Items -> SyncQueueItem \cup {Absent}]
    BY <1>4 DEF RetryScreenshotUpload, Fresh, SyncQueueItem, Status
  <2>. QED BY <1>4, <2>1 DEF RetryScreenshotUpload, ProcessQueue, Starts, Busy
<1>5. CASE ReadForCancel(t)
  <2>1. user' \in [Tabs -> [op : {"retry", "cancel"}, id : Items, item : SyncQueueItem]
                         \cup {NoOp}]
    BY <1>5 DEF ReadForCancel
  <2>. QED BY <1>5, <2>1 DEF ReadForCancel
<1>6. CASE CancelScreenshotUpload(t)
  <2>1. user[t].id \in Items /\ user[t].item \in SyncQueueItem
    BY <1>6 DEF CancelScreenshotUpload, NoOp
  <2>2. queue' \in [Items -> SyncQueueItem \cup {Absent}]
    BY <1>6, <2>1, ItemWrites DEF CancelScreenshotUpload, Status
  <2>. QED BY <1>6, <2>2 DEF CancelScreenshotUpload
<1>7. CASE ClearCompleted(t)
  BY <1>7 DEF ClearCompleted, Clearable, WithStatus
<1>8. CASE Remove(t)
  BY <1>8 DEF Remove
<1>9. CASE SyncNow(t)
  BY <1>9 DEF SyncNow, ProcessQueue, Starts, Busy
<1>. QED BY <1>1, <1>2, <1>3, <1>4, <1>5, <1>6, <1>7, <1>8, <1>9 DEF UserStep

LEMMA BrowserTyping ==
    ASSUME TypeOK, HistoryOK',
           \/ \E t \in Tabs : TabStep(t)
           \/ \E i \in Items : BackoffElapses(i)
           \/ GoOffline \/ GoOnline
    PROVE  TypeOK'
<1> USE QueueAssumption, NoItemNotItem DEF TypeOK, HistoryOK, browser, runs
<1>1. ASSUME NEW t \in Tabs, OpenTab(t) PROVE TypeOK'
  BY <1>1 DEF OpenTab, Clearable, WithStatus
<1>2. ASSUME NEW t \in Tabs, InitializeApp(t) PROVE TypeOK'
  BY <1>2 DEF InitializeApp, ProcessQueue, Starts, Busy
<1>3. ASSUME NEW t \in Tabs, CloseTab(t) PROVE TypeOK'
  BY <1>3 DEF CloseTab, Busy
<1>4. ASSUME NEW t \in Tabs, BackgroundSync(t) PROVE TypeOK'
  BY <1>4 DEF BackgroundSync, ProcessQueue, Starts, Busy
<1>5. ASSUME NEW i \in Items, BackoffElapses(i) PROVE TypeOK'
  <2>1. queue[i] \in SyncQueueItem
    BY <1>5 DEF BackoffElapses, Absent
  <2>2. [queue[i] EXCEPT !.due = TRUE] \in SyncQueueItem
    BY <2>1 DEF SyncQueueItem
  <2>. QED BY <1>5, <2>2 DEF BackoffElapses
<1>6. CASE GoOffline
  <2>1. faults' \in Nat
    BY <1>6 DEF GoOffline
  <2>2. online' \in BOOLEAN
    BY <1>6, Zenon DEF GoOffline
  <2>. QED BY <1>6, <2>1, <2>2 DEF GoOffline
<1>7. CASE GoOnline
  BY <1>7 DEF GoOnline, ProcessQueue, Starts, Busy
<1>. QED BY <1>1, <1>2, <1>3, <1>4, <1>5, <1>6, <1>7 DEF TabStep

LEMMA NextTyping == TypeOK /\ [Next]_vars => TypeOK'
<1> SUFFICES ASSUME TypeOK, [Next]_vars PROVE TypeOK'
  OBVIOUS
<1>1. CASE UNCHANGED vars
  BY <1>1 DEF vars, state, TypeOK
<1>2. CASE Next
  <2>1. Step /\ HistoryOK'
    BY <1>2, Recorded, Zenon DEF Next, TypeOK, HistoryOK
  <2>. QED BY <2>1, RunTyping, UserTyping, BrowserTyping DEF Step
<1>. QED BY <1>1, <1>2

\* Every variable of the queue keeps its type: a result is only ever written
\* for an item that was read and found.
THEOREM Typing == Spec => []TypeOK
BY InitTyping, NextTyping, PTL DEF Spec

(***************************************************************************)
(* What a tab remembers of the server is still true when it writes it: the *)
(* server never forgets an image, so the copies may be as old as they are. *)
(***************************************************************************)
StoreInv ==
    /\ CompletedIsStored
    /\ \A t \in Tabs : at[t] = "stored" => images[cur[t]] > 0
    /\ \A t \in Tabs : at[t] \in {"get", "put"} /\ ok[t] => images[cur[t]] > 0
    /\ \A t \in Tabs : \A i \in clear[t] : images[i] > 0

LEMMA InitStore == Init => StoreInv
BY DEF Init, StoreInv, CompletedIsStored, Absent

LEMMA RunStore ==
    ASSUME TypeOK, StoreInv, NEW t \in Tabs, RunStep(t)
    PROVE  StoreInv'
<1> USE NoItemNotItem DEF StoreInv, CompletedIsStored, browser
<1>0. /\ queue \in [Items -> SyncQueueItem \cup {Absent}] /\ images \in [Items -> Nat]
      /\ at \in [Tabs -> {"idle", "pending", "retry", "next"} \cup Busy]
      /\ cur \in [Tabs -> Items \cup {NoItem}] /\ ok \in [Tabs -> BOOLEAN]
      /\ clear \in [Tabs -> SUBSET Items] /\ todo \in [Tabs -> SUBSET Entry]
      /\ \A u \in Tabs : at[u] \in Busy => cur[u] \in Items
  BY DEF TypeOK
<1> USE <1>0
<1>1. CASE ReadPending(t)
  BY <1>1 DEF ReadPending
<1>2. CASE ReadRetry(t)
  BY <1>2 DEF ReadRetry
<1>3. CASE MarkSyncing(t)
  <2>1. PICK e \in todo[t] :
          /\ queue' = [queue EXCEPT ![e.id] = [e.item EXCEPT !.status = "syncing"]]
          /\ cur' = [cur EXCEPT ![t] = e.id]
    BY <1>3 DEF MarkSyncing
  <2>2. e.id \in Items /\ e.item \in SyncQueueItem
    BY DEF Entry
  <2>3. \A i \in Items : queue'[i].status = "completed" => queue[i].status = "completed"
    BY <2>1, <2>2 DEF SyncQueueItem
  <2>. QED BY <1>3, <2>1, <2>3 DEF MarkSyncing
<1>4. CASE ServerStores(t)
  <2>1. cur[t] \in Items
    BY <1>4 DEF ServerStores, Busy
  <2>2. /\ images'[cur[t]] > 0
        /\ \A i \in Items : images[i] > 0 => images'[i] > 0
    BY <1>4, <2>1 DEF ServerStores
  <2>3. \A u \in Tabs : at[u] \in {"stored", "get", "put"} => cur[u] \in Items
    BY DEF Busy
  <2>. QED BY <1>4, <2>1, <2>2, <2>3 DEF ServerStores
<1>5. CASE UploadSucceeds(t)
  BY <1>5 DEF UploadSucceeds, Answered
<1>6. CASE RequestFails(t)
  BY <1>6 DEF RequestFails, Answered
<1>7. CASE AnswerLost(t)
  BY <1>7 DEF AnswerLost, Answered
<1>8. CASE ReadForResult(t)
  BY <1>8 DEF ReadForResult
<1>9. CASE WriteResult(t)
  <2>1. cur[t] \in Items
    BY <1>9 DEF WriteResult, Busy
  <2>2. ~ok[t] => queue'[cur[t]].status = "failed"
    BY <1>9, <2>1 DEF WriteResult, Failed
  <2>3. \A i \in Items : i # cur[t] => queue'[i] = queue[i]
    BY <1>9 DEF WriteResult
  <2>. QED BY <1>9, <2>1, <2>2, <2>3 DEF WriteResult
<1>10. CASE EndRun(t)
  BY <1>10 DEF EndRun
<1>. QED BY <1>1, <1>2, <1>3, <1>4, <1>5, <1>6, <1>7, <1>8, <1>9, <1>10 DEF RunStep

LEMMA OtherStore ==
    ASSUME TypeOK, StoreInv,
           \/ \E t \in Tabs : UserStep(t) \/ TabStep(t)
           \/ \E i \in Items : BackoffElapses(i)
           \/ GoOffline \/ GoOnline
    PROVE  StoreInv'
<1> USE DEF StoreInv, CompletedIsStored, browser, runs
<1>0. /\ queue \in [Items -> SyncQueueItem \cup {Absent}] /\ images \in [Items -> Nat]
      /\ at \in [Tabs -> {"idle", "pending", "retry", "next"} \cup Busy]
      /\ clear \in [Tabs -> SUBSET Items]
      /\ \A t \in Tabs : adding[t] # NoItem => adding[t] \in Items
      /\ \A t \in Tabs : user[t].op # "none" =>
              user[t].id \in Items /\ user[t].item \in SyncQueueItem
  BY DEF TypeOK, NoOp
<1> USE <1>0
<1>1. ASSUME NEW t \in Tabs, SaveScreenshot(t) PROVE StoreInv'
  BY <1>1 DEF SaveScreenshot
<1>2. ASSUME NEW t \in Tabs, Enqueue(t) PROVE StoreInv'
  BY <1>2 DEF Enqueue, ProcessQueue, Fresh
<1>3. ASSUME NEW t \in Tabs, ReadForRetry(t) PROVE StoreInv'
  BY <1>3 DEF ReadForRetry
<1>4. ASSUME NEW t \in Tabs, RetryScreenshotUpload(t) PROVE StoreInv'
  BY <1>4 DEF RetryScreenshotUpload, ProcessQueue, Fresh
<1>5. ASSUME NEW t \in Tabs, ReadForCancel(t) PROVE StoreInv'
  BY <1>5 DEF ReadForCancel
<1>6. ASSUME NEW t \in Tabs, CancelScreenshotUpload(t) PROVE StoreInv'
  <2>1. \A i \in Items : queue'[i].status = "completed" => queue[i].status = "completed"
    BY <1>6 DEF CancelScreenshotUpload, SyncQueueItem
  <2>. QED BY <1>6, <2>1 DEF CancelScreenshotUpload
<1>7. ASSUME NEW t \in Tabs, ClearCompleted(t) PROVE StoreInv'
  BY <1>7 DEF ClearCompleted, Clearable, WithStatus
<1>8. ASSUME NEW t \in Tabs, Remove(t) PROVE StoreInv'
  BY <1>8 DEF Remove, Absent
<1>9. ASSUME NEW t \in Tabs, OpenTab(t) PROVE StoreInv'
  BY <1>9 DEF OpenTab, Clearable, WithStatus
<1>10. ASSUME NEW t \in Tabs, InitializeApp(t) PROVE StoreInv'
  BY <1>10 DEF InitializeApp, ProcessQueue
<1>11. ASSUME NEW t \in Tabs, CloseTab(t) PROVE StoreInv'
  BY <1>11 DEF CloseTab
<1>12. ASSUME NEW t \in Tabs, BackgroundSync(t) PROVE StoreInv'
  BY <1>12 DEF BackgroundSync, ProcessQueue
<1>13. ASSUME NEW i \in Items, BackoffElapses(i) PROVE StoreInv'
  <2>1. queue'[i].status = queue[i].status
    BY <1>13 DEF BackoffElapses, SyncQueueItem, Absent
  <2>. QED BY <1>13, <2>1 DEF BackoffElapses
<1>14. CASE GoOffline
  BY <1>14 DEF GoOffline
<1>15. CASE GoOnline
  BY <1>15 DEF GoOnline, ProcessQueue
<1>16. ASSUME NEW t \in Tabs, SyncNow(t) PROVE StoreInv'
  BY <1>16 DEF SyncNow, ProcessQueue
<1>. QED
  BY <1>1, <1>2, <1>3, <1>4, <1>5, <1>6, <1>7, <1>8, <1>9, <1>10, <1>11, <1>12,
     <1>13, <1>14, <1>15, <1>16 DEF UserStep, TabStep

LEMMA NextStore == TypeOK /\ StoreInv /\ [Next]_vars => StoreInv'
<1> SUFFICES ASSUME TypeOK, StoreInv, [Next]_vars PROVE StoreInv'
  OBVIOUS
<1>1. CASE UNCHANGED vars
  BY <1>1 DEF vars, state, StoreInv, CompletedIsStored
<1>. QED BY <1>1, RunStore, OtherStore DEF Next, Step

LEMMA StoreAlways == Spec => []StoreInv
BY InitStore, NextStore, Typing, PTL DEF Spec

\* A completed item is on the server, however many tabs write the store.
THEOREM CompletedStored == Spec => []CompletedIsStored
<1>1. StoreInv => CompletedIsStored
  BY DEF StoreInv
<1>. QED BY <1>1, StoreAlways, PTL

(***************************************************************************)
(* Only clearCompleted makes an item absent: every other write puts a      *)
(* record there, and clearCompleted's ids are those of stored screenshots. *)
(***************************************************************************)
Drop == \E i \in Items : queue[i] # Absent /\ queue'[i] = Absent /\ ~(images[i] > 0)

LEMMA Writes ==
    ASSUME TypeOK, [Next]_vars,
           \A t \in Tabs : ~Remove(t)
    PROVE  \A i \in Items : queue'[i] = queue[i] \/ queue'[i] \in SyncQueueItem
<1> USE NoItemNotItem
<1>0. /\ queue \in [Items -> SyncQueueItem \cup {Absent}]
      /\ cur \in [Tabs -> Items \cup {NoItem}] /\ todo \in [Tabs -> SUBSET Entry]
      /\ got \in [Tabs -> SyncQueueItem \cup {Absent}]
      /\ \A t \in Tabs : at[t] = "put" => got[t] \in SyncQueueItem
      /\ \A t \in Tabs : user[t].op # "none" => user[t].item \in SyncQueueItem
  BY DEF TypeOK, NoOp
<1> USE <1>0
<1> DEFINE Kept == \A i \in Items : queue'[i] = queue[i] \/ queue'[i] \in SyncQueueItem
<1>1. CASE UNCHANGED queue
  BY <1>1
<1>2. ASSUME NEW t \in Tabs, MarkSyncing(t) PROVE Kept
  <2>1. PICK e \in todo[t] :
          queue' = [queue EXCEPT ![e.id] = [e.item EXCEPT !.status = "syncing"]]
    BY <1>2 DEF MarkSyncing
  <2>2. e.item \in SyncQueueItem
    BY DEF Entry
  <2>3. [e.item EXCEPT !.status = "syncing"] \in SyncQueueItem
    BY <2>2, ItemWrites DEF Status
  <2>. QED BY <2>1, <2>3
<1>3. ASSUME NEW t \in Tabs, WriteResult(t) PROVE Kept
  <2>1. got[t] \in SyncQueueItem
    BY <1>3 DEF WriteResult
  <2>. QED BY <1>3, <2>1, ItemWrites DEF WriteResult
<1>4. ASSUME NEW t \in Tabs, Enqueue(t) PROVE Kept
  BY <1>4 DEF Enqueue, Fresh, SyncQueueItem, Status
<1>5. ASSUME NEW t \in Tabs, RetryScreenshotUpload(t) PROVE Kept
  BY <1>5 DEF RetryScreenshotUpload, Fresh, SyncQueueItem, Status
<1>6. ASSUME NEW t \in Tabs, CancelScreenshotUpload(t) PROVE Kept
  <2>0. user[t].op = "cancel"
    BY <1>6 DEF CancelScreenshotUpload
  <2>1. user[t].item \in SyncQueueItem
    BY <2>0
  <2>2. [user[t].item EXCEPT !.status = "cancelled"] \in SyncQueueItem
    BY <2>1, ItemWrites DEF Status
  <2>. QED BY <1>6, <2>2 DEF CancelScreenshotUpload
<1>7. ASSUME NEW i \in Items, BackoffElapses(i) PROVE Kept
  <2>1. queue[i] \in SyncQueueItem
    BY <1>7 DEF BackoffElapses, Absent
  <2>2. [queue[i] EXCEPT !.due = TRUE] \in SyncQueueItem
    BY <2>1 DEF SyncQueueItem
  <2>. QED BY <1>7, <2>2 DEF BackoffElapses
<1>8. ASSUME NEW t \in Tabs, RunStep(t) PROVE Kept
  BY <1>1, <1>2, <1>3, <1>8 DEF RunStep, ReadPending, ReadRetry, ServerStores,
     UploadSucceeds, RequestFails, AnswerLost, Answered, ReadForResult, EndRun
<1>9. ASSUME NEW t \in Tabs, UserStep(t) PROVE Kept
  BY <1>1, <1>4, <1>5, <1>6, <1>9 DEF UserStep, SaveScreenshot, ReadForRetry,
     ReadForCancel, ClearCompleted, SyncNow
<1>10. ASSUME NEW t \in Tabs, TabStep(t) PROVE Kept
  BY <1>1, <1>10 DEF TabStep, OpenTab, InitializeApp, CloseTab, BackgroundSync
<1>11. CASE GoOffline \/ GoOnline
  BY <1>1, <1>11 DEF GoOffline, GoOnline
<1>12. CASE UNCHANGED vars
  BY <1>1, <1>12 DEF vars, state
<1>. QED BY <1>7, <1>8, <1>9, <1>10, <1>11, <1>12 DEF Next, Step

LEMMA NoDrop == TypeOK /\ StoreInv /\ [Next]_vars => ~Drop
<1> SUFFICES ASSUME TypeOK, StoreInv, [Next]_vars PROVE ~Drop
  OBVIOUS
<1>1. CASE \E t \in Tabs : Remove(t)
  <2>1. PICK t \in Tabs : Remove(t)
    BY <1>1
  <2>2. PICK j \in clear[t] : queue' = [queue EXCEPT ![j] = Absent]
    BY <2>1 DEF Remove
  <2>3. images[j] > 0
    BY <2>2 DEF StoreInv
  <2>. QED BY <2>2, <2>3 DEF Drop, TypeOK
<1>2. CASE \A t \in Tabs : ~Remove(t)
  BY <1>2, Writes, AbsentStatus DEF Drop
<1>. QED BY <1>1, <1>2

\* A file leaves the queue only when the server has it.
THEOREM NothingDropped == Spec => NotDroppedBeforeStored
<1>1. ~Drop => \A i \in Items :
          queue[i] # Absent /\ queue'[i] = Absent => images[i] > 0
  BY DEF Drop
<1>. QED BY <1>1, NoDrop, StoreAlways, Typing, PTL DEF Spec, NotDroppedBeforeStored

(***************************************************************************)
(* The mark `syncing' is written by a run that then holds the item, and    *)
(* only a closed tab gives up what it holds without writing a result.      *)
(***************************************************************************)
LEMMA HeldStep ==
    ASSUME TypeOK, EachIsHeld, [Next]_vars, closes' = 0
    PROVE  EachIsHeld'
<1> USE NoItemNotItem DEF EachIsHeld, Holders, browser, runs
<1>0. /\ queue \in [Items -> SyncQueueItem \cup {Absent}]
      /\ at \in [Tabs -> {"idle", "pending", "retry", "next"} \cup Busy]
      /\ cur \in [Tabs -> Items \cup {NoItem}] /\ todo \in [Tabs -> SUBSET Entry]
      /\ \A t \in Tabs : user[t].op # "none" => user[t].item \in SyncQueueItem
      /\ \A t \in Tabs : at[t] \in Busy => cur[t] \in Items
      /\ \A t \in Tabs : at[t] = "put" => got[t] \in SyncQueueItem
  BY DEF TypeOK, NoOp
<1> USE <1>0
<1>1. ASSUME NEW t \in Tabs, ReadPending(t) \/ ReadRetry(t) \/ EndRun(t)
      PROVE  EachIsHeld'
  BY <1>1 DEF ReadPending, ReadRetry, EndRun, Busy
<1>2. ASSUME NEW t \in Tabs, MarkSyncing(t) PROVE EachIsHeld'
  <2>1. PICK e \in todo[t] :
          /\ queue' = [queue EXCEPT ![e.id] = [e.item EXCEPT !.status = "syncing"]]
          /\ cur' = [cur EXCEPT ![t] = e.id]
    BY <1>2 DEF MarkSyncing
  <2>2. at'[t] = "send" /\ cur'[t] = e.id
    BY <1>2, <2>1 DEF MarkSyncing
  <2>3. \A u \in Tabs : at[u] \in Busy => at'[u] = at[u] /\ cur'[u] = cur[u]
    BY <1>2, <2>1 DEF MarkSyncing, Busy
  <2>4. \A i \in Items : i # e.id => queue'[i] = queue[i]
    BY <2>1
  <2>. QED BY <2>2, <2>3, <2>4 DEF Busy
<1>3. ASSUME NEW t \in Tabs,
             ServerStores(t) \/ UploadSucceeds(t) \/ RequestFails(t) \/ AnswerLost(t)
      PROVE  EachIsHeld'
  BY <1>3 DEF ServerStores, UploadSucceeds, RequestFails, AnswerLost, Answered, Busy
<1>4. ASSUME NEW t \in Tabs, ReadForResult(t) PROVE EachIsHeld'
  BY <1>4 DEF ReadForResult, Busy, Absent
<1>5. ASSUME NEW t \in Tabs, WriteResult(t) PROVE EachIsHeld'
  <2>0. at[t] = "put"
    BY <1>5 DEF WriteResult
  <2>1. got[t] \in SyncQueueItem
    BY <2>0
  <2>11. cur[t] \in Items
    BY <2>0 DEF Busy
  <2>2. queue'[cur[t]].status # "syncing"
    BY <1>5, <2>1, <2>11, ItemWrites DEF WriteResult
  <2>3. \A i \in Items : i # cur[t] => queue'[i] = queue[i]
    BY <1>5 DEF WriteResult
  <2>4. \A u \in Tabs : u # t => at'[u] = at[u] /\ cur'[u] = cur[u]
    BY <1>5 DEF WriteResult
  <2>. QED BY <2>2, <2>3, <2>4
<1>6. ASSUME NEW t \in Tabs, Enqueue(t) PROVE EachIsHeld'
  BY <1>6 DEF Enqueue, ProcessQueue, Starts, Fresh, Busy
<1>7. ASSUME NEW t \in Tabs, RetryScreenshotUpload(t) PROVE EachIsHeld'
  BY <1>7 DEF RetryScreenshotUpload, ProcessQueue, Starts, Fresh, Busy
<1>8. ASSUME NEW t \in Tabs, CancelScreenshotUpload(t) PROVE EachIsHeld'
  BY <1>8 DEF CancelScreenshotUpload, SyncQueueItem
<1>9. ASSUME NEW t \in Tabs, Remove(t) PROVE EachIsHeld'
  BY <1>9 DEF Remove, Absent
<1>10. ASSUME NEW t \in Tabs,
              SaveScreenshot(t) \/ ReadForRetry(t) \/ ReadForCancel(t) \/ ClearCompleted(t)
       PROVE  EachIsHeld'
  BY <1>10 DEF SaveScreenshot, ReadForRetry, ReadForCancel, ClearCompleted
<1>11. ASSUME NEW t \in Tabs, OpenTab(t) \/ InitializeApp(t) \/ BackgroundSync(t)
       PROVE  EachIsHeld'
  BY <1>11 DEF OpenTab, InitializeApp, BackgroundSync, ProcessQueue, Starts, Busy
<1>12. ASSUME NEW t \in Tabs PROVE ~CloseTab(t)
  BY DEF CloseTab, TypeOK
<1>13. ASSUME NEW i \in Items, BackoffElapses(i) PROVE EachIsHeld'
  BY <1>13 DEF BackoffElapses, SyncQueueItem, Absent
<1>14. CASE GoOffline \/ GoOnline
  BY <1>14 DEF GoOffline, GoOnline, ProcessQueue, Starts, Busy
<1>15. CASE UNCHANGED vars
  BY <1>15 DEF vars, state
<1>16. ASSUME NEW t \in Tabs, SyncNow(t) PROVE EachIsHeld'
  BY <1>16 DEF SyncNow, ProcessQueue, Starts, Busy
<1>. QED
  BY <1>1, <1>2, <1>3, <1>4, <1>5, <1>6, <1>7, <1>8, <1>9, <1>10, <1>11, <1>12,
     <1>13, <1>14, <1>15, <1>16 DEF Next, Step, RunStep, UserStep, TabStep

\* No step takes a tab's closing back.
LEMMA ClosesGrow ==
    ASSUME TypeOK, [Next]_vars, closes' = 0
    PROVE  closes = 0
<1>1. CASE \E t \in Tabs : RunStep(t)
  BY <1>1 DEF RunStep, ReadPending, ReadRetry, MarkSyncing, ServerStores, UploadSucceeds,
              RequestFails, AnswerLost, Answered, ReadForResult, WriteResult, EndRun
<1>2. CASE \E t \in Tabs : UserStep(t)
  BY <1>2 DEF UserStep, SaveScreenshot, Enqueue, ReadForRetry, RetryScreenshotUpload,
              ReadForCancel, CancelScreenshotUpload, ClearCompleted, Remove, SyncNow
<1>3. CASE \E t \in Tabs : TabStep(t)
  <2>1. closes \in Nat
    BY DEF TypeOK
  <2>2. ASSUME NEW t \in Tabs PROVE ~CloseTab(t)
    BY <2>1 DEF CloseTab
  <2>. QED BY <1>3, <2>2 DEF TabStep, OpenTab, InitializeApp, BackgroundSync
<1>4. CASE (\E i \in Items : BackoffElapses(i)) \/ GoOffline \/ GoOnline \/ UNCHANGED vars
  BY <1>4 DEF BackoffElapses, GoOffline, GoOnline, vars, state
<1>. QED BY <1>1, <1>2, <1>3, <1>4 DEF Next, Step

\* As long as no tab has been closed, an item that is syncing is in some run's hands.
THEOREM SyncingHeld == Spec => []SyncingIsHeld
<1>1. Init => SyncingIsHeld
  BY DEF Init, SyncingIsHeld, EachIsHeld, Absent
<1>2. TypeOK /\ SyncingIsHeld /\ [Next]_vars => SyncingIsHeld'
  BY HeldStep, ClosesGrow DEF SyncingIsHeld
<1>. QED BY <1>1, <1>2, Typing, PTL DEF Spec

(***************************************************************************)
(* One tab at a time, whose user retries nothing: an item is sent again    *)
(* only when an answer was lost, and never before its nextRetryAt.         *)
(***************************************************************************)
OthersEmpty(t) ==
    \A u \in Tabs \ {t} :
        at[u] = "idle" /\ todo[u] = {} /\ adding[u] = NoItem /\ user[u] = NoOp

\* The types as the lemmas below use them.
Shapes ==
    /\ queue \in [Items -> SyncQueueItem \cup {Absent}] /\ images \in [Items -> Nat]
    /\ at \in [Tabs -> {"idle", "pending", "retry", "next"} \cup Busy]
    /\ cur \in [Tabs -> Items \cup {NoItem}] /\ todo \in [Tabs -> SUBSET Entry]
    /\ ok \in [Tabs -> BOOLEAN] /\ clear \in [Tabs -> SUBSET Items]
    /\ adding \in [Tabs -> Items \cup {NoItem}]
    /\ got \in [Tabs -> SyncQueueItem \cup {Absent}]
    /\ lost \in [Items -> Nat]
    /\ user \in [Tabs -> [op : {"retry", "cancel"}, id : Items, item : SyncQueueItem]
                         \cup {NoOp}]
    /\ \A t \in Tabs : at[t] \in Busy => cur[t] \in Items
    /\ \A t \in Tabs : adding[t] # NoItem => adding[t] \in Items
    /\ \A t \in Tabs : at[t] = "put" => got[t] \in SyncQueueItem
    /\ \A t \in Tabs : user[t].op # "none" =>
            user[t].id \in Items /\ user[t].item \in SyncQueueItem
    /\ \A t \in Tabs : \A e \in todo[t] : e.id \in Items /\ e.item \in SyncQueueItem

LEMMA ShapesKnown ==
    ASSUME TypeOK
    PROVE  Shapes
<1>1. \A t \in Tabs : user[t].op # "none" =>
            user[t].id \in Items /\ user[t].item \in SyncQueueItem
  BY DEF TypeOK, NoOp
<1>2. \A t \in Tabs : \A e \in todo[t] : e.id \in Items /\ e.item \in SyncQueueItem
  BY DEF TypeOK, Entry
<1>. QED BY <1>1, <1>2, NoItemNotItem DEF TypeOK, Shapes

LEMMA InitResend == Init => ResendInv
BY DEF Init, ResendInv, TabResend, OneImagePerLostAnswer, Unsent, Absent, NoOp, Busy

\* A step that leaves the loop as it is and makes no item one to send.
LEMMA CalmResend ==
    ASSUME Shapes, ResendInv, UNCHANGED <<images, at, todo, cur, ok, adding>>,
           lost' \in [Items -> Nat], LostGrows,
           \A i \in Items : /\ Known(i)' <=> Known(i)
                            /\ Waits(i)' => Waits(i)
                            /\ \A s \in {"pending", "failed"} :
                                  queue'[i].status = s => queue[i].status = s,
           \A t \in Tabs : user'[t] = user[t] \/ user'[t].op = "none"
    PROVE  ResendInv'
<1> USE DEF Known, Unsent, Waits
<1>1. OneImagePerLostAnswer'
  <2>1. ASSUME NEW i \in Items PROVE images'[i] <= 1 + lost'[i]
    <3>1. images[i] <= 1 + lost[i] /\ images'[i] = images[i]
      BY DEF ResendInv, OneImagePerLostAnswer
    <3>2. images[i] \in Nat /\ lost[i] \in Nat /\ lost'[i] \in Nat /\ lost'[i] >= lost[i]
      BY DEF Shapes, LostGrows
    <3>. QED BY <3>1, <3>2
  <2>. QED BY <2>1 DEF OneImagePerLostAnswer
<1>2. \A i \in Items : images[i] <= lost[i] => images'[i] <= lost'[i]
  BY DEF Shapes, LostGrows
<1>3. \A i \in Items : (queue[i].status \in {"pending", "failed"} => Unsent(i))'
  BY <1>2 DEF ResendInv, TabResend
<1>4. ASSUME NEW t \in Tabs
      PROVE  /\ (adding[t] # NoItem => ~Known(adding[t]))'
             /\ (user[t].op # "retry")'
             /\ (user[t].op = "cancel" => Known(user[t].id))'
  BY NoItemNotItem DEF Shapes, ResendInv, TabResend
<1>5. ASSUME NEW t \in Tabs, NEW e \in todo'[t]
      PROVE  /\ (Known(e.id) /\ Unsent(e.id) /\ ~Waits(e.id))'
             /\ (at[t] = "retry" => queue[e.id].status # "failed")'
             /\ (\A f \in todo[t] : e.id = f.id => e = f)'
             /\ (at[t] \in Busy => e.id # cur[t])'
  <2>1. e \in todo[t] /\ e.id \in Items
    BY DEF Shapes
  <2>. QED BY <1>2, <2>1 DEF ResendInv, TabResend
<1>6. ASSUME NEW t \in Tabs
      PROVE  /\ (at[t] \in Busy =>
                    Known(cur[t]) /\ queue[cur[t]].status \notin {"pending", "failed"})'
             /\ (at[t] = "send" \/ (at[t] \in {"get", "put"} /\ ~ok[t]) => Unsent(cur[t]))'
  <2>1. at[t] \in Busy => cur[t] \in Items
    BY DEF Shapes
  <2>. QED BY <1>2, <2>1 DEF ResendInv, TabResend, Busy
<1>. QED BY <1>1, <1>3, <1>4, <1>5, <1>6 DEF ResendInv, TabResend

LEMMA OnlyOneIsBusy ==
    ASSUME ClosedIsEmpty, Single, NEW t \in Tabs, tab[t] # "closed"
    PROVE  OthersEmpty(t)
BY DEF ClosedIsEmpty, Single, OthersEmpty

LEMMA RunResend ==
    ASSUME TypeOK, ResendInv, NEW t \in Tabs, OthersEmpty(t), RunStep(t), Record
    PROVE  ResendInv'
<1>0. /\ Shapes
      /\ \A u \in Tabs : u # t => /\ at[u] = "idle" /\ todo[u] = {}
                                  /\ adding[u] = NoItem /\ user[u].op = "none"
      /\ at[t] # "stored" => lost' = lost
  <2>1. \A u \in Tabs : u # t => at[u] # "stored"
    BY DEF OthersEmpty
  <2>2. \A i \in Items, u \in Tabs : at[t] # "stored" => ~LosesAnswer(u, i)
    BY <2>1 DEF LosesAnswer
  <2>3. at[t] # "stored" => lost' = lost
    BY <2>2 DEF Record, TypeOK
  <2>. QED BY <2>3, ShapesKnown DEF OthersEmpty, NoOp
<1> USE <1>0, NoItemNotItem
    DEF Shapes, ResendInv, TabResend, OneImagePerLostAnswer, Known, Unsent, Waits, browser, Busy
<1>1. CASE ReadPending(t)
  <2>1. todo'[t] = ReadAll(1, WithStatus("pending"))
    BY <1>1 DEF ReadPending
  <2>2. \A e \in todo'[t] : e.id \in Items /\ queue[e.id].status = "pending"
    BY <2>1 DEF ReadAll, WithStatus
  <2>3. \A e, f \in todo'[t] : e.id = f.id => e = f
    BY <2>1 DEF ReadAll
  <2>. QED BY <1>1, <2>2, <2>3 DEF ReadPending, Absent
<1>2. CASE ReadRetry(t)
  <2>1. todo'[t] = todo[t] \cup ReadAll(2, ReadyToRetry)
    BY <1>2 DEF ReadRetry
  <2>2. \A e \in ReadAll(2, ReadyToRetry) :
           e.id \in Items /\ queue[e.id].status = "failed" /\ queue[e.id].due
    BY DEF ReadAll, ReadyToRetry, WithStatus
  <2>3. \A e, f \in ReadAll(2, ReadyToRetry) : e.id = f.id => e = f
    BY DEF ReadAll
  <2>4. \A e \in todo[t] : queue[e.id].status # "failed"
    BY <1>2 DEF ReadRetry
  <2>5. \A e, f \in todo'[t] : e.id = f.id => e = f
    BY <2>1, <2>2, <2>3, <2>4
  <2>6. \A e \in todo'[t] : Known(e.id) /\ Unsent(e.id) /\ ~Waits(e.id)
    BY <2>1, <2>2 DEF Absent
  <2>. QED BY <1>2, <2>5, <2>6 DEF ReadRetry
<1>3. CASE MarkSyncing(t)
  <2>1. PICK e \in todo[t] :
          /\ queue' = [queue EXCEPT ![e.id] = [e.item EXCEPT !.status = "syncing"]]
          /\ cur' = [cur EXCEPT ![t] = e.id]
          /\ todo' = [todo EXCEPT ![t] = @ \ {e}]
    BY <1>3 DEF MarkSyncing
  <2>2. e.id \in Items /\ e.item \in SyncQueueItem /\ Known(e.id) /\ Unsent(e.id)
    OBVIOUS
  <2>3. queue'[e.id].status = "syncing"
    BY <2>1, <2>2 DEF SyncQueueItem
  <2>4. queue'[e.id] # Absent
    BY <2>3 DEF Absent
  <2>5. \A i \in Items : i # e.id => queue'[i] = queue[i]
    BY <2>1
  <2>6. \A f \in todo'[t] : f \in todo[t] /\ f.id # e.id
    BY <2>1
  <2>7. cur'[t] = e.id /\ at'[t] = "send" /\ UNCHANGED <<images, adding, user, ok, lost>>
    BY <1>3, <2>1 DEF MarkSyncing
  <2>8. \A i \in Items : Known(i) => Known(i)'
    BY <2>4, <2>5, <2>7
  <2>9. adding[t] # NoItem => adding[t] # e.id
    BY <2>2
  <2>10. \A u \in Tabs : u # t => /\ at'[u] = "idle" /\ todo'[u] = {}
                                  /\ adding'[u] = NoItem /\ user'[u].op = "none"
    BY <1>3, <2>1 DEF MarkSyncing
  <2>11. \A u \in Tabs : u # t => TabResend(u)'
    BY <2>10
  <2>12. TabResend(t)'
    BY <2>2, <2>3, <2>4, <2>5, <2>6, <2>7, <2>8, <2>9
  <2>. QED BY <2>3, <2>5, <2>7, <2>11, <2>12
<1>4. CASE ServerStores(t)
  <2>1. /\ cur[t] \in Items /\ at[t] = "send" /\ at'[t] = "stored"
        /\ images' = [images EXCEPT ![cur[t]] = images[cur[t]] + 1]
        /\ UNCHANGED <<queue, adding, todo, cur, user, lost>>
    BY <1>4 DEF ServerStores, Busy
  <2>2. /\ images[cur[t]] <= lost[cur[t]]
        /\ images'[cur[t]] = images[cur[t]] + 1
        /\ \A i \in Items : i # cur[t] => images'[i] = images[i]
    BY <2>1
  <2>3. adding[t] # cur[t]
    BY <2>1
  <2>4. \A u \in Tabs : u # t => /\ at'[u] = "idle" /\ todo'[u] = {}
                                 /\ adding'[u] = NoItem /\ user'[u].op = "none"
    BY <1>4 DEF ServerStores
  <2>5. \A u \in Tabs : u # t => TabResend(u)'
    BY <2>4
  <2>6. TabResend(t)'
    BY <2>1, <2>2, <2>3
  <2>. QED BY <2>1, <2>2, <2>5, <2>6
<1>5. CASE UploadSucceeds(t)
  <2>1. \A i \in Items, u \in Tabs : ~LosesAnswer(u, i)
    BY <1>5 DEF UploadSucceeds, Answered, LosesAnswer
  <2>2. lost' = lost
    BY <2>1 DEF Record
  <2>. QED BY <1>5, <2>2 DEF UploadSucceeds, Answered
<1>6. CASE RequestFails(t)
  BY <1>6 DEF RequestFails, Answered
<1>7. CASE AnswerLost(t)
  <2>1. /\ cur[t] \in Items /\ at[t] = "stored" /\ at'[t] = "get" /\ ~ok'[t]
        /\ UNCHANGED <<queue, images, todo, cur, adding, user>>
    BY <1>7 DEF AnswerLost, Answered
  <2>2. /\ lost'[cur[t]] = lost[cur[t]] + 1
        /\ \A i \in Items : i # cur[t] => lost'[i] = lost[i]
    BY <2>1 DEF Record, LosesAnswer
  <2>3. images[cur[t]] <= 1 + lost[cur[t]]
    BY <2>1
  <2>4. \A u \in Tabs : u # t => /\ at'[u] = "idle" /\ todo'[u] = {}
                                 /\ adding'[u] = NoItem /\ user'[u].op = "none"
    BY <1>7 DEF AnswerLost, Answered
  <2>5. \A u \in Tabs : u # t => TabResend(u)'
    BY <2>4
  <2>6. \A i \in Items : Unsent(i) => Unsent(i)'
    BY <2>1, <2>2
  <2>7. TabResend(t)'
    <3>1. \A i \in Items : /\ (Known(i) <=> Known(i)') /\ (Waits(i) <=> Waits(i)')
                          /\ queue'[i] = queue[i]
      BY <2>1
    <3>2. \A e \in todo'[t] : Unsent(e.id)'
      BY <2>1, <2>6
    <3>3. Unsent(cur[t])' /\ cur'[t] = cur[t]
      BY <2>1, <2>2, <2>3
    <3> HIDE DEF Known, Unsent, Waits
    <3>. QED BY <2>1, <3>1, <3>2, <3>3
  <2>8. OneImagePerLostAnswer'
    BY <2>1, <2>2
  <2>9. \A i \in Items : queue'[i].status \in {"pending", "failed"} => Unsent(i)'
    BY <2>1, <2>6
  <2>10. \A u \in Tabs : TabResend(u)'
    BY <2>5, <2>7
  <2> HIDE DEF TabResend, OneImagePerLostAnswer, Known, Unsent, Waits
  <2>. QED BY <2>8, <2>9, <2>10
<1>8. CASE ReadForResult(t)
  BY <1>8 DEF ReadForResult
<1>9. CASE WriteResult(t)
  <2>1. cur[t] \in Items /\ at[t] = "put" /\ got[t] \in SyncQueueItem
    BY <1>9 DEF WriteResult, Busy
  <2>2. /\ queue'[cur[t]] \in SyncQueueItem
        /\ queue'[cur[t]].status = IF ok[t] THEN "completed" ELSE "failed"
    BY <1>9, <2>1, ItemWrites DEF WriteResult
  <2>3. queue'[cur[t]] # Absent
    BY <2>2, AbsentStatus
  <2>4. \A i \in Items : i # cur[t] => queue'[i] = queue[i]
    BY <1>9 DEF WriteResult
  <2>5. adding[t] # cur[t]
    BY <2>1
  <2>6. ~ok[t] => images[cur[t]] <= lost[cur[t]]
    BY <2>1
  <2>. QED BY <1>9, <2>1, <2>2, <2>3, <2>4, <2>5, <2>6 DEF WriteResult
<1>10. CASE EndRun(t)
  BY <1>10 DEF EndRun
<1>. QED BY <1>1, <1>2, <1>3, <1>4, <1>5, <1>6, <1>7, <1>8, <1>9, <1>10 DEF RunStep

LEMMA OtherResend ==
    ASSUME TypeOK, StoreInv, ClosedIsEmpty, Single, Single', ResendInv, Record,
           \/ \E t \in Tabs : UserStep(t) \/ TabStep(t)
           \/ \E i \in Items : BackoffElapses(i)
           \/ GoOffline \/ GoOnline
    PROVE  ResendInv'
<1>0. Shapes /\ lost' \in [Items -> Nat] /\ LostGrows
  BY ShapesKnown, Recorded DEF TypeOK, HistoryOK
<1> USE <1>0, NoItemNotItem
    DEF Shapes, ResendInv, TabResend, OneImagePerLostAnswer, Known, Unsent, Waits, browser, runs, Busy,
        LostGrows
<1>1. ASSUME NEW t \in Tabs, SaveScreenshot(t) PROVE ResendInv'
  <2>1. PICK i \in Items \ Added : adding' = [adding EXCEPT ![t] = i]
    BY <1>1 DEF SaveScreenshot
  <2>2. queue[i] = Absent /\ images[i] = 0
    BY <2>1 DEF Added
  <2>. QED BY <1>1, <2>1, <2>2 DEF SaveScreenshot
<1>2. ASSUME NEW t \in Tabs, Enqueue(t) PROVE ResendInv'
  <2>1. adding[t] \in Items /\ queue[adding[t]] = Absent /\ images[adding[t]] = 0
    BY <1>2 DEF Enqueue
  <2>2. /\ queue'[adding[t]] = Fresh
        /\ \A i \in Items : i # adding[t] => queue'[i] = queue[i]
        /\ adding'[t] = NoItem
        /\ UNCHANGED <<images, todo, cur, ok, got, user>>
        /\ at'[t] = at[t] \/ (at[t] = "idle" /\ at'[t] = "pending")
    BY <1>2, <2>1 DEF Enqueue, ProcessQueue, Starts
  <2>3. tab[t] # "closed"
    BY <2>1 DEF ClosedIsEmpty
  <2>4. \A u \in Tabs : u # t => /\ at[u] = "idle" /\ todo[u] = {}
                                 /\ adding[u] = NoItem /\ user[u].op = "none"
    BY <2>3, OnlyOneIsBusy DEF OthersEmpty, NoOp
  <2>5. \A u \in Tabs : u # t => /\ at'[u] = "idle" /\ todo'[u] = {}
                                 /\ adding'[u] = NoItem /\ user'[u].op = "none"
    BY <1>2, <2>4 DEF Enqueue, ProcessQueue
  <2>6. \A u \in Tabs : u # t => TabResend(u)'
    BY <2>5
  <2>7. /\ \A e \in todo[t] : e.id # adding[t]
        /\ at[t] \in Busy => cur[t] # adding[t]
        /\ user[t].op = "cancel" => user[t].id # adding[t]
        /\ \A i \in Items : Known(i) => Known(i)'
    <3>1. ~Known(adding[t])
      BY <2>1
    <3>2. TabResend(t)
      OBVIOUS
    <3>3. \A i \in Items : Known(i) => i # adding[t] /\ Known(i)'
      BY <2>2, <3>1
    <3>. QED BY <3>1, <3>2, <3>3
  <2>8. \A e \in todo'[t] : /\ Known(e.id)' /\ Unsent(e.id)' /\ ~Waits(e.id)'
                            /\ at'[t] # "retry" \/ queue'[e.id].status # "failed"
    <3>1. SUFFICES ASSUME NEW e \in todo[t]
                   PROVE  /\ Known(e.id)' /\ Unsent(e.id)' /\ ~Waits(e.id)'
                          /\ at'[t] # "retry" \/ queue'[e.id].status # "failed"
      BY <2>2
    <3>2. e.id \in Items /\ e.id # adding[t] /\ queue'[e.id] = queue[e.id]
      BY <2>2, <2>7
    <3>3. Known(e.id) /\ Unsent(e.id) /\ ~Waits(e.id)
      OBVIOUS
    <3>4. at[t] = "retry" => queue[e.id].status # "failed"
      OBVIOUS
    <3>. QED BY <2>2, <3>2, <3>3, <3>4
  <2>9. TabResend(t)'
    BY <2>1, <2>2, <2>7, <2>8
  <2>10. ASSUME NEW i \in Items, queue'[i].status \in {"pending", "failed"} PROVE Unsent(i)'
    BY <2>1, <2>2, <2>10
  <2>11. OneImagePerLostAnswer'
    BY <2>2
  <2>. QED BY <2>6, <2>9, <2>10, <2>11
<1>3. ASSUME NEW t \in Tabs PROVE ~ReadForRetry(t) /\ ~RetryScreenshotUpload(t)
  <2>1. ~RetryScreenshotUpload(t)
    BY DEF RetryScreenshotUpload
  <2>2. SUFFICES ASSUME ReadForRetry(t) PROVE user'[t].op = "retry"
    BY <2>1 DEF Single
  <2>. QED BY <2>2 DEF ReadForRetry
<1>4. ASSUME NEW t \in Tabs, ReadForCancel(t) PROVE ResendInv'
  <2>1. PICK i \in Items : /\ queue[i] # Absent
                           /\ user' = [user EXCEPT ![t] = [op |-> "cancel", id |-> i, item |-> queue[i]]]
    BY <1>4 DEF ReadForCancel
  <2>2. user'[t] = user[t] \/ (user'[t].op = "cancel" /\ user'[t].id = i)
    BY <2>1
  <2>3. \A u \in Tabs : u # t => user'[u] = user[u]
    BY <2>1
  <2>4. UNCHANGED <<queue, images, at, todo, cur, ok, adding>>
    BY <1>4 DEF ReadForCancel
  <2>. QED BY <2>1, <2>2, <2>3, <2>4
<1>5. ASSUME NEW t \in Tabs, CancelScreenshotUpload(t) PROVE ResendInv'
  <2>1. /\ user[t].op = "cancel"
        /\ user[t].id \in Items /\ user[t].item \in SyncQueueItem /\ Known(user[t].id)
    BY <1>5 DEF CancelScreenshotUpload
  <2>2. /\ queue' = [queue EXCEPT ![user[t].id] = [user[t].item EXCEPT !.status = "cancelled"]]
        /\ user' = [user EXCEPT ![t] = NoOp]
        /\ UNCHANGED <<images, at, todo, cur, ok, adding>>
    BY <1>5 DEF CancelScreenshotUpload
  <2>3. queue'[user[t].id].status = "cancelled" /\ queue'[user[t].id] # Absent
    BY <2>1, <2>2 DEF SyncQueueItem, Absent
  <2>4. \A i \in Items : i # user[t].id => queue'[i] = queue[i]
    BY <2>2
  <2>5. \A u \in Tabs : adding[u] # NoItem => adding[u] # user[t].id
    BY <2>1
  <2>6. \A u \in Tabs : user'[u] = user[u] \/ user'[u].op = "none"
    BY <2>2 DEF NoOp
  <2>7. \A i \in Items : Known(i) => Known(i)'
    BY <2>2, <2>3, <2>4
  <2>. QED BY <2>1, <2>2, <2>3, <2>4, <2>5, <2>6, <2>7
<1>6. ASSUME NEW t \in Tabs, ClearCompleted(t) PROVE ResendInv'
  BY <1>6 DEF ClearCompleted
<1>7. ASSUME NEW t \in Tabs, Remove(t) PROVE ResendInv'
  <2>1. PICK i \in clear[t] : queue' = [queue EXCEPT ![i] = Absent]
    BY <1>7 DEF Remove
  <2>2. i \in Items /\ images[i] > 0
    BY <2>1 DEF StoreInv
  <2>3. \A j \in Items : Known(j) <=> Known(j)'
    BY <1>7, <2>1, <2>2 DEF Remove
  <2>4. \A j \in Items : queue'[j] = queue[j] \/ queue'[j].status = "absent"
    BY <2>1 DEF Absent
  <2>5. UNCHANGED <<images, at, todo, cur, ok, adding, user>>
    BY <1>7 DEF Remove
  <2>6. \A j \in Items : Waits(j)' => Waits(j)
    BY <2>4
  <2>. QED BY <2>3, <2>4, <2>5, <2>6, CalmResend
<1>8. ASSUME NEW t \in Tabs, OpenTab(t) PROVE ResendInv'
  BY <1>8 DEF OpenTab
<1>9. ASSUME NEW t \in Tabs, InitializeApp(t) \/ BackgroundSync(t) PROVE ResendInv'
  BY <1>9 DEF InitializeApp, BackgroundSync, ProcessQueue, Starts
<1>10. ASSUME NEW t \in Tabs, CloseTab(t) PROVE ResendInv'
  BY <1>10 DEF CloseTab, NoOp
<1>11. ASSUME NEW i \in Items, BackoffElapses(i) PROVE ResendInv'
  <2>1. /\ queue[i] \in SyncQueueItem
        /\ queue' = [queue EXCEPT ![i] = [queue[i] EXCEPT !.due = TRUE]]
    BY <1>11 DEF BackoffElapses, Absent
  <2>2. /\ queue'[i] \in SyncQueueItem /\ queue'[i].due
        /\ queue'[i].status = queue[i].status
        /\ \A j \in Items : j # i => queue'[j] = queue[j]
    BY <2>1 DEF SyncQueueItem
  <2>3. UNCHANGED <<images, at, todo, cur, ok, adding, user>>
    BY <1>11 DEF BackoffElapses
  <2>4. \A j \in Items : Known(j)' <=> Known(j)
    BY <2>1, <2>2, <2>3, AbsentStatus
  <2>5. \A j \in Items : Waits(j)' => Waits(j)
    BY <2>2
  <2>6. \A j \in Items : queue'[j].status = queue[j].status
    BY <2>2
  <2>7. lost' \in [Items -> Nat] /\ LostGrows /\ \A t \in Tabs : user'[t] = user[t]
    BY <2>3
  <2> HIDE DEF Known, Waits, ResendInv, TabResend, Shapes
  <2>. QED BY <2>3, <2>4, <2>5, <2>6, <2>7, CalmResend
<1>12. CASE GoOffline
  BY <1>12 DEF GoOffline
<1>13. CASE GoOnline
  BY <1>13 DEF GoOnline, ProcessQueue, Starts
<1>14. ASSUME NEW t \in Tabs, SyncNow(t) PROVE ResendInv'
  BY <1>14 DEF SyncNow, ProcessQueue, Starts
<1>. QED
  BY <1>1, <1>2, <1>3, <1>4, <1>5, <1>6, <1>7, <1>8, <1>9, <1>10, <1>11, <1>12, <1>13, <1>14
  DEF UserStep, TabStep

\* CloseTab empties a tab's memory, and nothing else runs in a closed tab.
LEMMA ClosedStep ==
    ASSUME TypeOK, ClosedIsEmpty, Step
    PROVE  ClosedIsEmpty'
<1>0. /\ Shapes
      /\ tab \in [Tabs -> {"closed", "starting", "open"}]
      /\ \A t \in Tabs : tab[t] = "closed" => user[t].op = "none"
  BY ShapesKnown DEF TypeOK, ClosedIsEmpty, NoOp
<1> USE <1>0 DEF Shapes, ClosedIsEmpty, browser, runs
<1>1. ASSUME NEW t \in Tabs, RunStep(t) PROVE ClosedIsEmpty'
  <2>1. at[t] # "idle"
    BY <1>1 DEF RunStep, ReadPending, ReadRetry, MarkSyncing, ServerStores, UploadSucceeds,
                RequestFails, AnswerLost, ReadForResult, WriteResult, EndRun
  <2>2. UNCHANGED <<tab, adding, user>>
    BY <1>1 DEF RunStep, ReadPending, ReadRetry, MarkSyncing, ServerStores, UploadSucceeds,
                RequestFails, AnswerLost, Answered, ReadForResult, WriteResult, EndRun
  <2>3. \A u \in Tabs : u # t => at'[u] = at[u] /\ todo'[u] = todo[u]
    BY <1>1 DEF RunStep, ReadPending, ReadRetry, MarkSyncing, ServerStores, UploadSucceeds,
                RequestFails, AnswerLost, Answered, ReadForResult, WriteResult, EndRun
  <2>. QED BY <2>1, <2>2, <2>3
<1>2. ASSUME NEW t \in Tabs, SaveScreenshot(t) \/ ReadForRetry(t) \/ ReadForCancel(t)
      PROVE  ClosedIsEmpty'
  BY <1>2 DEF SaveScreenshot, ReadForRetry, ReadForCancel
<1>3. ASSUME NEW t \in Tabs, Enqueue(t) PROVE ClosedIsEmpty'
  BY <1>3 DEF Enqueue, ProcessQueue
<1>4. ASSUME NEW t \in Tabs, RetryScreenshotUpload(t) \/ CancelScreenshotUpload(t)
      PROVE  ClosedIsEmpty'
  BY <1>4 DEF RetryScreenshotUpload, CancelScreenshotUpload, ProcessQueue
<1>5. ASSUME NEW t \in Tabs, ClearCompleted(t) \/ Remove(t) PROVE ClosedIsEmpty'
  BY <1>5 DEF ClearCompleted, Remove
<1>6. ASSUME NEW t \in Tabs, OpenTab(t) \/ InitializeApp(t) \/ BackgroundSync(t)
      PROVE  ClosedIsEmpty'
  BY <1>6 DEF OpenTab, InitializeApp, BackgroundSync, ProcessQueue
<1>7. ASSUME NEW t \in Tabs, CloseTab(t) PROVE ClosedIsEmpty'
  BY <1>7 DEF CloseTab
<1>8. CASE (\E i \in Items : BackoffElapses(i)) \/ GoOffline
  BY <1>8 DEF BackoffElapses, GoOffline
<1>9. CASE GoOnline
  BY <1>9 DEF GoOnline, ProcessQueue
<1>10. ASSUME NEW t \in Tabs, SyncNow(t) PROVE ClosedIsEmpty'
  BY <1>10 DEF SyncNow, ProcessQueue
<1>. QED
  BY <1>1, <1>2, <1>3, <1>4, <1>5, <1>6, <1>7, <1>8, <1>9, <1>10 DEF Step, UserStep, TabStep

LEMMA InitAlone == Init => AloneInv
<1>1. Init => ClosedIsEmpty /\ Single
  BY DEF Init, ClosedIsEmpty, Single, NoOp
<1>. QED BY <1>1, InitResend DEF AloneInv

LEMMA NextAlone ==
    ASSUME TypeOK, StoreInv, AloneInv, [Next]_vars
    PROVE  AloneInv'
<1>1. CASE UNCHANGED vars
  <2>1. UNCHANGED <<queue, images, tab, adding, at, todo, cur, ok, user, alone, lost>>
    BY <1>1 DEF vars, state
  <2>. QED BY <2>1 DEF AloneInv, ClosedIsEmpty, Single, ResendInv, TabResend,
              OneImagePerLostAnswer, Known, Unsent, Waits
<1>2. CASE Next
  <2>1. Step /\ Record /\ ClosedIsEmpty /\ (alone' => alone /\ Single')
    BY <1>2 DEF Next, Record, AloneInv
  <2>2. ClosedIsEmpty'
    BY <2>1, ClosedStep
  <2>3. ASSUME alone' PROVE ResendInv'
    <3>1. ResendInv /\ Single /\ Single'
      BY <2>1, <2>3 DEF AloneInv
    <3>2. ASSUME NEW t \in Tabs, RunStep(t) PROVE ResendInv'
      <4>1. at[t] # "idle"
        BY <3>2 DEF RunStep, ReadPending, ReadRetry, MarkSyncing, ServerStores,
                    UploadSucceeds, RequestFails, AnswerLost, ReadForResult, WriteResult, EndRun
      <4>2. tab[t] # "closed"
        BY <2>1, <4>1 DEF ClosedIsEmpty
      <4>. QED BY <2>1, <3>1, <3>2, <4>2, OnlyOneIsBusy, RunResend
    <3>. QED BY <2>1, <3>1, <3>2, OtherResend DEF Step
  <2>. QED BY <2>1, <2>2, <2>3 DEF AloneInv
<1>. QED BY <1>1, <1>2

LEMMA AloneAlways == Spec => []AloneInv
<1>1. TypeOK /\ StoreInv /\ AloneInv /\ [Next]_vars => AloneInv'
  BY NextAlone
<1>. QED BY <1>1, InitAlone, StoreAlways, Typing, PTL DEF Spec

\* Up to the first second tab or user's retry, a screenshot has at most one image more
\* than answers to its own uploads were lost, whatever else fails and whatever is
\* cancelled, cleared or closed meanwhile (the loop of processQueue, sync-processor.ts:73).
THEOREM OneImage == Spec => []AloneOneImage
<1>1. AloneInv => AloneOneImage
  BY DEF AloneInv, ResendInv, TabResend, AloneOneImage
<1>. QED BY <1>1, AloneAlways, PTL

\* Only the loop marks an item as syncing.
LEMMA MarkedByTheLoop ==
    ASSUME TypeOK, [Next]_vars, NEW i \in Items,
           queue[i].status # "syncing", queue'[i].status = "syncing"
    PROVE  \E t \in Tabs : \E e \in todo[t] : e.id = i
<1>0. Shapes
  BY ShapesKnown
<1> USE <1>0, NoItemNotItem DEF Shapes, browser, runs, Busy
<1>1. CASE UNCHANGED queue
  BY <1>1
<1>2. ASSUME NEW t \in Tabs, MarkSyncing(t) PROVE \E e \in todo[t] : e.id = i
  BY <1>2 DEF MarkSyncing
<1>3. ASSUME NEW t \in Tabs PROVE ~WriteResult(t)
  <2>1. SUFFICES ASSUME WriteResult(t) PROVE FALSE
    OBVIOUS
  <2>2. got[t] \in SyncQueueItem /\ cur[t] \in Items
    BY <2>1 DEF WriteResult
  <2>. QED BY <2>1, <2>2, ItemWrites DEF WriteResult
<1>4. ASSUME NEW t \in Tabs PROVE ~Enqueue(t) /\ ~RetryScreenshotUpload(t) /\ ~Remove(t)
  <2>1. ~Enqueue(t)
    <3>1. SUFFICES ASSUME Enqueue(t) PROVE FALSE
      OBVIOUS
    <3>2. queue' = [queue EXCEPT ![adding[t]] = Fresh]
      BY <3>1 DEF Enqueue
    <3>. QED BY <3>2 DEF Fresh
  <2>2. ~RetryScreenshotUpload(t)
    BY DEF RetryScreenshotUpload, Fresh
  <2>3. ~Remove(t)
    BY DEF Remove, Absent
  <2>. QED BY <2>1, <2>2, <2>3
<1>5. ASSUME NEW t \in Tabs PROVE ~CancelScreenshotUpload(t)
  BY DEF CancelScreenshotUpload, SyncQueueItem
<1>6. ASSUME NEW j \in Items PROVE ~BackoffElapses(j)
  BY DEF BackoffElapses, SyncQueueItem, Absent
<1>7. ASSUME NEW t \in Tabs, RunStep(t), ~MarkSyncing(t) PROVE UNCHANGED queue
  BY <1>3, <1>7 DEF RunStep, ReadPending, ReadRetry, ServerStores, UploadSucceeds, RequestFails,
     AnswerLost, Answered, ReadForResult, EndRun
<1>8. ASSUME NEW t \in Tabs, UserStep(t) PROVE UNCHANGED queue
  BY <1>4, <1>5, <1>8 DEF UserStep, SaveScreenshot, ReadForRetry, ReadForCancel, ClearCompleted,
     SyncNow
<1>9. ASSUME NEW t \in Tabs, TabStep(t) PROVE UNCHANGED queue
  BY <1>9 DEF TabStep, OpenTab, InitializeApp, CloseTab, BackgroundSync
<1>10. GoOffline \/ GoOnline \/ UNCHANGED vars => UNCHANGED queue
  BY DEF GoOffline, GoOnline, vars, state
<1>. QED BY <1>1, <1>2, <1>6, <1>7, <1>8, <1>9, <1>10 DEF Next, Step

\* So long, too, an item that waits for its nextRetryAt is not sent: none that the loop
\* has still to meet can come to wait (getReadyToRetry, sync-queue.ts).
THEOREM BackoffKept == Spec => AloneBackoff
<1>1. ASSUME TypeOK, AloneInv, [Next]_vars, alone
      PROVE  \A i \in Items : Waits(i) => queue'[i].status # "syncing"
  <2>1. SUFFICES ASSUME NEW i \in Items, Waits(i), queue'[i].status = "syncing"
                 PROVE  FALSE
    OBVIOUS
  <2>2. PICK t \in Tabs : \E e \in todo[t] : e.id = i
    BY <1>1, <2>1, MarkedByTheLoop DEF Waits
  <2>. QED BY <1>1, <2>1, <2>2 DEF AloneInv, ResendInv, TabResend
<1>. QED BY <1>1, AloneAlways, Typing, PTL DEF Spec, AloneBackoff
=============================================================================
