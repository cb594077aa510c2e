---------------------------- MODULE OfflineQueue ----------------------------
(***************************************************************************)
(* Screenshot uploads of the browser: frontend/src/lib/sync-queue.ts,      *)
(* sync-processor.ts, offline-screenshot-upload.ts and the components that *)
(* call them.  The queue and the screenshots are two IndexedDB stores that *)
(* all tabs of the browser share; the flag `processing' is a field of each *)
(* tab's own SyncProcessor.  A tab is a process; an action is the code up  *)
(* to the next IndexedDB transaction or network event, so that other tabs, *)
(* the user and a closing tab may come in between.                         *)
(*                                                                         *)
(* An item is numbered in the order of its createdAt.  All items have the  *)
(* default priority, the only one that is used.                            *)
(***************************************************************************)
EXTENDS Naturals

CONSTANTS Tabs,        \* browser tabs
          N,           \* screenshots the user adds
          MaxRetries,  \* maxRetries of an item
          UserOps,     \* buttons of SyncQueueViewer the user presses
          MaxFaults,   \* bound: failed requests, lost answers and disconnections
          MaxCloses    \* bound: tabs closed

ASSUME QueueAssumption ==
    /\ N \in Nat
    /\ MaxRetries \in Nat
    /\ MaxFaults \in Nat
    /\ MaxCloses \in Nat
    /\ UserOps \subseteq {"retry", "cancel", "clear"}

VARIABLES
    queue,   \* the sync_queue store
    local,   \* screenshots kept in the screenshot store under their local id
    images,  \* images the server has made of each screenshot
    online,  \* navigator.onLine
    bgSync,  \* a Background Sync event is registered with the browser
    tab,     \* "closed", "starting" (AppInitializer) or "open"
    adding,  \* the screenshot whose upload a tab has saved and not yet queued
    at,      \* where processQueue is
    todo,    \* itemsToProcess, the rest of the loop
    cur,     \* the item the loop is at
    ok,      \* result.success of the current item
    got,     \* the item markCompleted or markFailed has read
    user,    \* a retry or cancel between its read and its write
    clear,   \* ids clearCompleted has still to remove
    faults, closes,
    \* history variables, which no action reads
    alone,   \* never two tabs at a time so far, and no retry by the user
    lost     \* answers lost so far to uploads of each screenshot

browser == <<online, bgSync, tab, adding>>
runs == <<at, todo, cur, ok, got>>
state == <<queue, local, images, online, bgSync, tab, adding, at, todo, cur,
           ok, got, user, clear, faults, closes>>
vars == <<state, alone, lost>>

Items == 1..N
Status == {"pending", "syncing", "completed", "failed", "cancelled"}

\* `due': nextRetryAt is unset or has passed.
SyncQueueItem == [status : Status, retryCount : Nat, due : BOOLEAN]
Absent == [status |-> "absent", retryCount |-> 0, due |-> TRUE]
Fresh == [status |-> "pending", retryCount |-> 0, due |-> TRUE]
NoOp == [op |-> "none", id |-> 0, item |-> Absent]
NoItem == 0

\* An entry of itemsToProcess: the item as read, in which of the two lists.
Entry == [list : {1, 2}, id : Items, item : SyncQueueItem]

\* From the item's syncing mark to its result.
Busy == {"send", "stored", "get", "put"}

TypeOK ==
    /\ queue \in [Items -> SyncQueueItem \cup {Absent}]
    /\ local \in SUBSET Items
    /\ images \in [Items -> Nat]
    /\ online \in BOOLEAN
    /\ bgSync \in BOOLEAN
    /\ tab \in [Tabs -> {"closed", "starting", "open"}]
    /\ adding \in [Tabs -> Items \cup {NoItem}]
    /\ at \in [Tabs -> {"idle", "pending", "retry", "next"} \cup Busy]
    /\ todo \in [Tabs -> SUBSET Entry]
    /\ cur \in [Tabs -> Items \cup {NoItem}]
    /\ \A t \in Tabs : at[t] \in Busy => cur[t] # NoItem
    /\ ok \in [Tabs -> BOOLEAN]
    /\ got \in [Tabs -> SyncQueueItem \cup {Absent}]
    /\ \A t \in Tabs : at[t] = "put" => got[t] # Absent
    /\ user \in [Tabs -> [op : {"retry", "cancel"}, id : Items, item : SyncQueueItem]
                         \cup {NoOp}]
    /\ clear \in [Tabs -> SUBSET Items]
    /\ faults \in Nat
    /\ closes \in Nat
    /\ alone \in BOOLEAN
    /\ lost \in [Items -> Nat]

Init ==
    /\ queue = [i \in Items |-> Absent]
    /\ local = {}
    /\ images = [i \in Items |-> 0]
    /\ online \in BOOLEAN
    /\ bgSync = FALSE
    /\ tab = [t \in Tabs |-> "closed"]
    /\ adding = [t \in Tabs |-> NoItem]
    /\ at = [t \in Tabs |-> "idle"]
    /\ todo = [t \in Tabs |-> {}]
    /\ cur = [t \in Tabs |-> NoItem]
    /\ ok = [t \in Tabs |-> FALSE]
    /\ got = [t \in Tabs |-> Absent]
    /\ user = [t \in Tabs |-> NoOp]
    /\ clear = [t \in Tabs |-> {}]
    /\ faults = 0
    /\ closes = 0
    /\ alone = TRUE
    /\ lost = [i \in Items |-> 0]

-----------------------------------------------------------------------------
(* The processor.                                                          *)

\* getAll({status}): the matching items as they are now.
ReadAll(list, S) == {[list |-> list, id |-> i, item |-> queue[i]] : i \in S}

\* The loop takes the pending items first, each list from its oldest.
Before(e, f) == e.list < f.list \/ (e.list = f.list /\ e.id <= f.id)

WithStatus(s) == {i \in Items : queue[i].status = s}

\* processQueue is skipped while the tab is processing or offline.
Starts(t, isOnline) == at[t] = "idle" /\ isOnline

ProcessQueue(S, isOnline) ==
    /\ at' = [t \in Tabs |->
                IF t \in S /\ Starts(t, isOnline) THEN "pending" ELSE at[t]]
    /\ UNCHANGED <<todo, cur, ok, got>>

ReadPending(t) ==
    /\ at[t] = "pending"
    /\ todo' = [todo EXCEPT ![t] = ReadAll(1, WithStatus("pending"))]
    /\ at' = [at EXCEPT ![t] = "retry"]
    /\ UNCHANGED <<queue, local, images, browser, cur, ok, got, user, clear, faults, closes>>

\* Regression: every item whose time has come, done or not.
ReadyWhateverStatus == {i \in Items : queue[i] # Absent /\ queue[i].due}

\* Items a failed attempt left behind and whose time has come.
ReadyToRetry == {i \in WithStatus("failed") : queue[i].due}

ReadRetry(t) ==
    /\ at[t] = "retry"
    /\ todo' = [todo EXCEPT ![t] = @ \cup ReadAll(2, ReadyToRetry)]
    /\ at' = [at EXCEPT ![t] = "next"]
    /\ UNCHANGED <<queue, local, images, browser, cur, ok, got, user, clear, faults, closes>>

\* The item as it was read is written back, its status apart.
MarkSyncing(t) ==
    /\ at[t] = "next"
    /\ \E e \in todo[t] :
          /\ \A f \in todo[t] : Before(e, f)
          /\ queue' = [queue EXCEPT ![e.id] = [e.item EXCEPT !.status = "syncing"]]
          /\ cur' = [cur EXCEPT ![t] = e.id]
          /\ todo' = [todo EXCEPT ![t] = @ \ {e}]
    /\ at' = [at EXCEPT ![t] = "send"]
    /\ UNCHANGED <<local, images, browser, ok, got, user, clear, faults, closes>>

ServerStores(t) ==
    /\ at[t] = "send"
    /\ online
    /\ images' = [images EXCEPT ![cur[t]] = @ + 1]
    /\ at' = [at EXCEPT ![t] = "stored"]
    /\ UNCHANGED <<queue, local, browser, todo, cur, ok, got, user, clear, faults, closes>>

Answered(t, success) ==
    /\ ok' = [ok EXCEPT ![t] = success]
    /\ at' = [at EXCEPT ![t] = "get"]
    /\ UNCHANGED <<queue, local, images, browser, todo, cur, got, user, clear, closes>>

UploadSucceeds(t) ==
    /\ at[t] = "stored"
    /\ Answered(t, TRUE)
    /\ UNCHANGED faults

Refused ==
    \/ ~online /\ UNCHANGED faults
    \/ online /\ faults < MaxFaults /\ faults' = faults + 1

\* Regressions: the last item's result is kept; the failure ends the loop.
RequestFailsSilently(t) ==
    /\ at[t] = "send"
    /\ Refused
    /\ at' = [at EXCEPT ![t] = "get"]
    /\ UNCHANGED <<queue, local, images, browser, todo, cur, ok, got, user, clear, closes>>

RequestFailureThrows(t) ==
    /\ at[t] = "send"
    /\ Refused
    /\ at' = [at EXCEPT ![t] = "idle"]
    /\ todo' = [todo EXCEPT ![t] = {}]
    /\ cur' = [cur EXCEPT ![t] = NoItem]
    /\ UNCHANGED <<queue, local, images, browser, ok, got, user, clear, closes>>

\* Refused, unreachable, or offline: nothing is on the server.
RequestFails(t) ==
    /\ at[t] = "send"
    /\ Refused
    /\ Answered(t, FALSE)

\* The image is there, its answer is late or unreadable, or it cannot be saved.
AnswerLost(t) ==
    /\ at[t] = "stored"
    /\ faults < MaxFaults
    /\ faults' = faults + 1
    /\ Answered(t, FALSE)

\* markCompleted and markFailed do nothing for an item that is gone.
ReadForResult(t) ==
    /\ at[t] = "get"
    /\ IF queue[cur[t]] = Absent
       THEN /\ at' = [at EXCEPT ![t] = "next"]
            /\ cur' = [cur EXCEPT ![t] = NoItem]
            /\ UNCHANGED got
       ELSE /\ at' = [at EXCEPT ![t] = "put"]
            /\ got' = [got EXCEPT ![t] = queue[cur[t]]]
            /\ UNCHANGED cur
    /\ UNCHANGED <<queue, local, images, browser, todo, ok, user, clear, faults, closes>>

Completed(item) == [item EXCEPT !.status = "completed"]

\* The last failure leaves nextRetryAt as it was.
Failed(item) ==
    [status |-> "failed",
     retryCount |-> item.retryCount + 1,
     due |-> item.due /\ item.retryCount + 1 >= MaxRetries]

WriteResult(t) ==
    /\ at[t] = "put"
    /\ queue' = [queue EXCEPT ![cur[t]] =
                    IF ok[t] THEN Completed(got[t]) ELSE Failed(got[t])]
    /\ cur' = [cur EXCEPT ![t] = NoItem]
    /\ at' = [at EXCEPT ![t] = "next"]
    /\ got' = [got EXCEPT ![t] = Absent]
    /\ UNCHANGED <<local, images, browser, todo, ok, user, clear, faults, closes>>

\* Regression: go on as long as something is ready.
EndRunWhenDrained(t) ==
    /\ at[t] = "next"
    /\ todo[t] = {}
    /\ at' = [at EXCEPT ![t] = IF ReadyToRetry = {} THEN "idle" ELSE "pending"]
    /\ UNCHANGED <<queue, local, images, browser, todo, cur, ok, got, user, clear, faults, closes>>

EndRun(t) ==
    /\ at[t] = "next"
    /\ todo[t] = {}
    /\ at' = [at EXCEPT ![t] = "idle"]
    /\ UNCHANGED <<queue, local, images, browser, todo, cur, ok, got, user, clear, faults, closes>>

BackoffElapses(i) ==
    /\ queue[i].status = "failed"
    /\ ~queue[i].due
    /\ queue' = [queue EXCEPT ![i].due = TRUE]
    /\ UNCHANGED <<local, images, browser, runs, user, clear, faults, closes>>

-----------------------------------------------------------------------------
(* The user.                                                               *)

Added == local \cup {i \in Items : images[i] > 0 \/ queue[i] # Absent}

\* uploadScreenshotOffline first saves the screenshot, ...
SaveScreenshot(t) ==
    /\ tab[t] = "open"
    /\ adding[t] = NoItem
    /\ \A u \in Tabs : adding[u] = NoItem
    /\ \E i \in Items \ Added :
          /\ \A j \in Items : j < i => j \in Added
          /\ local' = local \cup {i}
          /\ adding' = [adding EXCEPT ![t] = i]
    /\ UNCHANGED <<queue, images, online, bgSync, tab, runs, user, clear, faults, closes>>

\* ... then queues it and starts a run, or asks for a Background Sync event.
Enqueue(t) ==
    /\ adding[t] # NoItem
    /\ queue' = [queue EXCEPT ![adding[t]] = Fresh]
    /\ adding' = [adding EXCEPT ![t] = NoItem]
    /\ ProcessQueue({t}, online)
    /\ IF online THEN UNCHANGED bgSync ELSE bgSync' \in {bgSync, TRUE}
    /\ UNCHANGED <<local, images, online, tab, user, clear, faults, closes>>

\* The buttons come from a list that is up to ten seconds old: an item that has
\* failed may no longer be failed when it is read.
ReadForRetry(t) ==
    /\ "retry" \in UserOps
    /\ tab[t] = "open" /\ user[t] = NoOp
    /\ \E i \in Items :
          /\ queue[i] # Absent /\ queue[i].retryCount > 0
          /\ user' = [user EXCEPT ![t] = [op |-> "retry", id |-> i, item |-> queue[i]]]
    /\ UNCHANGED <<queue, local, images, browser, runs, clear, faults, closes>>

RetryScreenshotUpload(t) ==
    /\ user[t].op = "retry"
    /\ queue' = [queue EXCEPT ![user[t].id] = Fresh]
    /\ user' = [user EXCEPT ![t] = NoOp]
    /\ ProcessQueue({t}, online)
    /\ UNCHANGED <<local, images, browser, clear, faults, closes>>

ReadForCancel(t) ==
    /\ "cancel" \in UserOps
    /\ tab[t] = "open" /\ user[t] = NoOp
    /\ \E i \in Items :
          /\ queue[i] # Absent
          /\ user' = [user EXCEPT ![t] = [op |-> "cancel", id |-> i, item |-> queue[i]]]
    /\ UNCHANGED <<queue, local, images, browser, runs, clear, faults, closes>>

CancelScreenshotUpload(t) ==
    /\ user[t].op = "cancel"
    /\ queue' = [queue EXCEPT ![user[t].id] = [user[t].item EXCEPT !.status = "cancelled"]]
    /\ local' = local \ {user[t].id}
    /\ user' = [user EXCEPT ![t] = NoOp]
    /\ UNCHANGED <<images, browser, runs, clear, faults, closes>>

\* "Sync Now", and the "Retry" beside the number of failed uploads.
SyncNow(t) ==
    /\ tab[t] = "open" /\ Starts(t, online)
    /\ ProcessQueue({t}, online)
    /\ UNCHANGED <<queue, local, images, browser, user, clear, faults, closes>>

\* Regression: whatever is not waiting is cleared.
ClearableNotPending == WithStatus("completed") \cup WithStatus("failed")

Clearable == WithStatus("completed")

\* The daily cleanup and the button; AppInitializer's own is OpenTab.
ClearCompleted(t) ==
    /\ "clear" \in UserOps
    /\ tab[t] = "open" /\ clear[t] = {}
    /\ Clearable # {}
    /\ clear' = [clear EXCEPT ![t] = Clearable]
    /\ UNCHANGED <<queue, local, images, browser, runs, user, faults, closes>>

Remove(t) ==
    /\ \E i \in clear[t] :
          /\ queue' = [queue EXCEPT ![i] = Absent]
          /\ clear' = [clear EXCEPT ![t] = @ \ {i}]
    /\ UNCHANGED <<local, images, browser, runs, user, faults, closes>>

-----------------------------------------------------------------------------
(* The browser.                                                            *)

OpenTab(t) ==
    /\ tab[t] = "closed"
    /\ tab' = [tab EXCEPT ![t] = "starting"]
    /\ clear' = [clear EXCEPT ![t] = Clearable]
    /\ UNCHANGED <<queue, local, images, online, bgSync, adding, runs, user, faults, closes>>

InitializeApp(t) ==
    /\ tab[t] = "starting"
    /\ clear[t] = {}
    /\ tab' = [tab EXCEPT ![t] = "open"]
    /\ ProcessQueue({t}, online)
    /\ UNCHANGED <<queue, local, images, online, bgSync, adding, user, clear, faults, closes>>

CloseTab(t) ==
    /\ tab[t] # "closed"
    /\ closes < MaxCloses
    /\ closes' = closes + 1
    /\ tab' = [tab EXCEPT ![t] = "closed"]
    /\ adding' = [adding EXCEPT ![t] = NoItem]
    /\ at' = [at EXCEPT ![t] = "idle"]
    /\ todo' = [todo EXCEPT ![t] = {}]
    /\ cur' = [cur EXCEPT ![t] = NoItem]
    /\ user' = [user EXCEPT ![t] = NoOp]
    /\ clear' = [clear EXCEPT ![t] = {}]
    /\ ok' = [ok EXCEPT ![t] = FALSE]
    /\ got' = [got EXCEPT ![t] = Absent]
    /\ UNCHANGED <<queue, local, images, online, bgSync, faults>>

GoOffline ==
    /\ online
    /\ faults < MaxFaults
    /\ faults' = faults + 1
    /\ online' = FALSE
    /\ UNCHANGED <<queue, local, images, bgSync, tab, adding, runs, user, clear, closes>>

\* Every tab hears the online event.
GoOnline ==
    /\ ~online
    /\ online' = TRUE
    /\ ProcessQueue({t \in Tabs : tab[t] # "closed"}, TRUE)
    /\ UNCHANGED <<queue, local, images, bgSync, tab, adding, user, clear, faults, closes>>

\* The service worker asks one tab, which answers success even if it skips.
BackgroundSync(t) ==
    /\ bgSync /\ online
    /\ tab[t] # "closed"
    /\ bgSync' = FALSE
    /\ ProcessQueue({t}, TRUE)
    /\ UNCHANGED <<queue, local, images, online, tab, adding, user, clear, faults, closes>>

-----------------------------------------------------------------------------

RunStep(t) ==
    \/ ReadPending(t) \/ ReadRetry(t) \/ MarkSyncing(t)
    \/ ServerStores(t) \/ UploadSucceeds(t) \/ RequestFails(t) \/ AnswerLost(t)
    \/ ReadForResult(t) \/ WriteResult(t) \/ EndRun(t)

UserStep(t) ==
    \/ SaveScreenshot(t) \/ Enqueue(t)
    \/ ReadForRetry(t) \/ RetryScreenshotUpload(t)
    \/ ReadForCancel(t) \/ CancelScreenshotUpload(t)
    \/ ClearCompleted(t) \/ Remove(t) \/ SyncNow(t)

TabStep(t) == OpenTab(t) \/ InitializeApp(t) \/ CloseTab(t) \/ BackgroundSync(t)

Step ==
    \/ \E t \in Tabs : RunStep(t) \/ UserStep(t) \/ TabStep(t)
    \/ \E i \in Items : BackoffElapses(i)
    \/ GoOffline \/ GoOnline

Single ==
    /\ \A t, u \in Tabs : tab[t] # "closed" /\ tab[u] # "closed" => t = u
    /\ \A t \in Tabs : user[t].op # "retry"

\* Tab t hears now that its upload of i failed, which the server has stored.
LosesAnswer(t, i) ==
    cur[t] = i /\ at[t] = "stored" /\ at'[t] = "get" /\ ~ok'[t]

Record ==
    /\ alone' = (alone /\ Single')
    /\ lost' = [i \in Items |->
                   IF \E t \in Tabs : LosesAnswer(t, i) THEN lost[i] + 1 ELSE lost[i]]

Next == Step /\ Record

Spec == Init /\ [][Next]_vars

\* A tab's own code goes on, a request is answered or times out after 60 s, and
\* the user does finish what was begun; nothing makes a trigger happen.
Fairness ==
    \A t \in Tabs :
        /\ WF_state(RunStep(t))
        /\ WF_state(Enqueue(t))
        /\ WF_state(Remove(t))
        /\ WF_state(InitializeApp(t))
        /\ WF_state(RetryScreenshotUpload(t))
        /\ WF_state(CancelScreenshotUpload(t))

FairSpec == Spec /\ Fairness

-----------------------------------------------------------------------------
(* Properties.                                                             *)

\* An item shown as completed has its image on the server, although the status
\* is written from a copy of the item read earlier, by any tab, over whatever
\* another tab or the user wrote in between (markCompleted, update).
CompletedIsStored ==
    \A i \in Items : queue[i].status = "completed" => images[i] > 0

\* A queued file leaves the queue only when the server has it: clearCompleted
\* removes by an id it read earlier, while other tabs write the item back.
NotDroppedBeforeStored ==
    [][\A i \in Items :
          queue[i] # Absent /\ queue'[i] = Absent => images[i] > 0]_vars

\* The tabs that are uploading item i.
Holders(i) == {t \in Tabs : at[t] \in Busy /\ cur[t] = i}

EachIsHeld == \A i \in Items : queue[i].status = "syncing" => Holders(i) # {}

\* "Currently being synced" (sync-queue.ts): an item with status syncing is in
\* the hands of some tab's run, as long as no tab has been closed.  Nothing else
\* ever looks at such an item.
SyncingIsHeld == closes = 0 => EachIsHeld

\* A screenshot is stored once more only for an answer to one of its own uploads that
\* was lost, whatever else fails, as long as one tab at a time has been open and the
\* user has retried nothing: its run reads what is to be sent in two lists before it
\* sends any of it (sync-processor.ts).
OneImagePerLostAnswer == \A i \in Items : images[i] <= 1 + lost[i]
AloneOneImage == alone => OneImagePerLostAnswer

\* Until then an item that has just failed is not sent again before its nextRetryAt
\* either (getReadyToRetry, sync-queue.ts).
Waits(i) == queue[i].status = "failed" /\ ~queue[i].due
AloneBackoff ==
    [][alone => \A i \in Items : Waits(i) => queue'[i].status # "syncing"]_vars

\* Why: what may still be sent has had no more images made than answers about it were
\* lost, the loop meets an item once, and a closed tab leaves nothing behind in its memory.
Known(i) == queue[i] # Absent \/ images[i] > 0
Unsent(i) == images[i] <= lost[i]
ClosedIsEmpty ==
    \A t \in Tabs : tab[t] = "closed" =>
        at[t] = "idle" /\ todo[t] = {} /\ adding[t] = NoItem /\ user[t] = NoOp
TabResend(t) ==
    /\ adding[t] # NoItem => ~Known(adding[t])
    /\ user[t].op # "retry"
    /\ user[t].op = "cancel" => Known(user[t].id)
    /\ \A e \in todo[t] : /\ Known(e.id) /\ Unsent(e.id) /\ ~Waits(e.id)
                          /\ at[t] = "retry" => queue[e.id].status # "failed"
                          /\ \A f \in todo[t] : e.id = f.id => e = f
                          /\ at[t] \in Busy => e.id # cur[t]
    /\ at[t] \in Busy => Known(cur[t]) /\ queue[cur[t]].status \notin {"pending", "failed"}
    /\ at[t] = "send" \/ (at[t] \in {"get", "put"} /\ ~ok[t]) => Unsent(cur[t])
ResendInv ==
    /\ OneImagePerLostAnswer
    /\ \A i \in Items : queue[i].status \in {"pending", "failed"} => Unsent(i)
    /\ \A t \in Tabs : TabResend(t)
AloneInv == ClosedIsEmpty /\ (alone => Single /\ ResendInv)

\* A run that has begun ends, so that the next trigger is not skipped
\* (the flag `processing').
RunEnds == \A t \in Tabs : at[t] # "idle" ~> at[t] = "idle"

\* "Max retries before giving up" (sync-queue.ts).
GivesUp == \A i \in Items : queue[i].retryCount <= MaxRetries

\* "Cancel screenshot upload" (offline-screenshot-upload.ts): a cancelled upload
\* stays cancelled; only the user's retry takes it up again.
CancelHolds ==
    [][\A i \in Items :
          queue[i].status = "cancelled" => queue'[i].status \in {"cancelled", "pending"}]_vars

\* "syncs when online" (offline-screenshot-upload.ts): a waiting item does not
\* wait forever while the browser is online.
SyncsWhenOnline ==
    \A i \in Items :
        queue[i].status = "pending" ~> queue[i].status # "pending" \/ ~online
=============================================================================
