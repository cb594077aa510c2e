---------------------------- MODULE ProjectLoader ---------------------------
(***************************************************************************)
(* Opening a project: ProjectLoaderService of frontend/src/lib/project and *)
(* its loading state machine, the hook and the sidebar that call it, the   *)
(* automation store it hydrates, the store's debounced copy in IndexedDB   *)
(* (one copy per project NAME) and the project rows of the backend.        *)
(*                                                                         *)
(* A configuration is the set of items it holds: what the project was made *)
(* with, edits of this user and writes of other clients.  The four kinds   *)
(* of items, each with its table and its timer, are one kind here.         *)
(* Left out, because nothing depends on them at this commit: the flush of  *)
(* the debounce manager and of the sync coordinator (nothing schedules or  *)
(* tracks a change), the sync coordinator's states, and the loading flag,  *)
(* which loadConfiguration itself raises around its write and which else   *)
(* is up only while the pages show their loading overlay.  Left out too:   *)
(* reload() and reset() of the loader and reloadProject of its hook, which *)
(* nothing calls, and the load the auto-save forces on a conflict, which   *)
(* ProjectSync has.                                                        *)
(***************************************************************************)
EXTENDS Naturals, FiniteSets

CONSTANTS Projects, Edits, Others,
          None,          \* no project: null in the code
          Absent,        \* the configuration {} of a project just made
          NameOf,        \* the name of each project
          Slots,         \* bound: load() calls under way
          MaxRetries,    \* maxRetries of the configuration
          Settings       \* what the user and the rest of the world may do

FaultKind == {"put", "fetch", "local", "refresh"}

Setting == [blank : SUBSET Projects,    \* projects whose row is {} at first
            new : SUBSET Projects,      \* those of them that do not exist yet
            links : SUBSET Projects,    \* opened by a link, the URL changing first
            forced : SUBSET Projects,   \* the same with forceBackend=true
            edits : SUBSET Edits,
            others : SUBSET Others,
            hasty : BOOLEAN,            \* the user goes on before IndexedDB has an edit
            fails : [FaultKind -> Nat]] \* bound: faults of each kind

ASSUME LoaderAssumption ==
    /\ None \notin Projects \cup {NameOf[p] : p \in Projects}
    /\ DOMAIN NameOf = Projects
    /\ MaxRetries \in Nat
    /\ Settings \subseteq Setting
    /\ \A s \in Settings : s.new \subseteq s.blank

VARIABLES
    st,               \* state of the loading state machine
    retryCount,       \* its number of retries
    loadedProjectId,  \* the loader's
    calls,            \* load() calls under way
    doc,              \* items in the store
    name,             \* projectName of the store
    projectId,        \* projectId of the store, the hook's contextProjectId
    pending,          \* what the store's 500 ms timer will write
    writing,          \* what such a write has deleted and not yet added
    local,            \* the items IndexedDB holds under each name
    row,              \* the configuration of each project's row
    url, force,       \* ?project= and ?forceBackend=
    lastUrl,          \* the hook's lastLoadedUrlRef
    due,              \* the hook's effect has to run
    created,          \* new projects that exist
    choice,           \* project the user has last had accepted
    made,             \* items the user has made
    written,          \* items others have written
    faults,           \* faults left
    setting           \* chosen at the start, for good

machine == <<st, retryCount, loadedProjectId>>
store == <<doc, name, projectId>>
persistence == <<pending, writing>>
hook == <<url, force, lastUrl>>
past == <<choice, made, written>>
vars == <<st, retryCount, loadedProjectId, calls, doc, name, projectId, pending, writing,
          local, row, url, force, lastUrl, due, created, choice, made, written, faults, setting>>

Names == {NameOf[p] : p \in Projects}
Item == [home : Projects, what : {"first"} \cup Edits \cup Others]
First(p) == [home |-> p, what |-> "first"]
Configuration == (SUBSET Item) \cup {Absent}

ASSUME AbsentAssumption == \A config \in SUBSET Item : config # Absent

LoadingState == {"idle", "validating", "saving-current", "fetching", "hydrating",
                 "loaded", "error"}

Call == [at : {"none", "put", "fetch", "read", "save", "delay"},
         project : Projects \cup {None},
         force : BOOLEAN,
         prev : Projects \cup {None},   \* currentProjectId of the caller
         by : {"click", "effect"},
         sent : SUBSET Item,
         got : Configuration]
NoCall == [at |-> "none", project |-> None, force |-> FALSE, prev |-> None,
           by |-> "click", sent |-> {}, got |-> {}]
Write == [name : Names, data : SUBSET Item]

ASSUME NoneAssumption == None \notin Write

MachineOK ==
    /\ st \in LoadingState
    /\ retryCount \in Nat
    /\ loadedProjectId \in Projects \cup {None}
    /\ calls \in [Slots -> Call]

DataOK ==
    /\ doc \in SUBSET Item
    /\ projectId \in Projects \cup {None}
    /\ name \in Names \cup {None}
    /\ projectId # None => name # None
    /\ pending \in Write \cup {None}
    /\ writing \in Write \cup {None}
    /\ local \in [Names -> SUBSET Item]
    /\ row \in [Projects -> Configuration]

TypeOK ==
    /\ MachineOK
    /\ DataOK
    /\ url \in Projects \cup {None}
    /\ lastUrl \in Projects \cup {None}
    /\ force \in BOOLEAN
    /\ due \in BOOLEAN
    /\ setting \in Settings
    /\ created \in SUBSET setting.new
    /\ choice \in Projects \cup {None}
    /\ made \in SUBSET Item
    /\ written \in SUBSET Item
    /\ faults \in [FaultKind -> Nat]

\* The application opens in a new browser, with or without ?project=.
Init ==
    /\ setting \in Settings
    /\ st = "idle"
    /\ retryCount = 0
    /\ loadedProjectId = None
    /\ calls = [c \in Slots |-> NoCall]
    /\ doc = {}
    /\ name = None
    /\ projectId = None
    /\ pending = None
    /\ writing = None
    /\ local = [n \in Names |-> {}]
    /\ row = [p \in Projects |-> IF p \in setting.blank THEN Absent ELSE {First(p)}]
    /\ url \in (Projects \ setting.new) \cup {None}
    /\ force = FALSE
    /\ lastUrl = None
    /\ due = TRUE
    /\ created = {}
    /\ choice = None
    /\ made = {}
    /\ written = {}
    /\ faults = setting.fails

Suffer(k) ==
    /\ faults[k] > 0
    /\ faults' = [faults EXCEPT ![k] = @ - 1]

\* A patient user waits until the last edit is in IndexedDB.
Patience == setting.hasty \/ (pending = None /\ writing = None)

\* Effects run before the user can do anything else.
Rested == Patience /\ ~due

\* The timer runs out before a second project is left.
Stayed == pending # None => pending.name = name

-----------------------------------------------------------------------------
(* The loading state machine. *)

ValidTransitions ==
    [s \in LoadingState |->
       CASE s = "idle"           -> {"validating"}
         [] s = "validating"     -> {"saving-current", "fetching", "error", "idle"}
         [] s = "saving-current" -> {"fetching", "error"}
         [] s = "fetching"       -> {"hydrating", "error"}
         [] s = "hydrating"      -> {"loaded", "error"}
         [] s = "loaded"         -> {"validating", "idle"}
         [] OTHER                -> {"idle", "validating"}]

\* An event whose target the table does not allow is dropped.
Move(s, to) == IF to \in ValidTransitions[s] THEN to ELSE s

\* Regression: the machine is not loading while it hydrates.
IsLoadingUntilFetched(s) == s \in {"validating", "saving-current", "fetching"}
IsLoading(s) == s \in {"validating", "saving-current", "fetching", "hydrating"}

-----------------------------------------------------------------------------
(* load(), up to its first await. *)

IsProjectLoaded(p) == loadedProjectId = p /\ st = "loaded"

\* LOAD, VALIDATED, then the save of the project in the store or its skip.
Start(c, p, f, prev, b) ==
    LET differs == prev # None /\ prev # p
        asked == Move(st, "validating")
        validated == Move(asked, IF differs THEN "saving-current" ELSE "fetching")
        saves == ~f /\ differs /\ doc # {}
    IN  /\ st' = IF saves THEN validated ELSE Move(validated, "fetching")
        /\ calls' = [calls EXCEPT ![c] =
                       [at |-> IF saves THEN "put" ELSE "fetch", project |-> p, force |-> f,
                        prev |-> prev, by |-> b, sent |-> IF saves THEN doc ELSE {}, got |-> {}]]

\* The rest of handleProjectChange, when load() has returned true.
Opened(p) ==
    /\ projectId' = p
    /\ name' = NameOf[p]
    /\ url' = p

\* handleProjectChange of the sidebar.  A load refused changes nothing.
Click(p) ==
    /\ Rested
    /\ Stayed
    /\ p \notin setting.new \/ p \in created
    /\ choice' = p
    /\ \/ /\ IsProjectLoaded(p)
          /\ Opened(p)
          /\ UNCHANGED <<st, calls>>
       \/ /\ ~IsProjectLoaded(p)
          /\ ~IsLoading(st)
          /\ \E c \in Slots : /\ calls[c].at = "none"
                              /\ Start(c, p, FALSE, projectId, "click")
          /\ UNCHANGED <<projectId, name, url>>
    /\ UNCHANGED <<retryCount, loadedProjectId, doc, persistence, local, row, force, lastUrl,
                   created, made, written, faults>>

\* The URL changes under the application: a link or the back button.
Navigate(p, f) ==
    /\ Rested
    /\ Stayed
    /\ url' = p
    /\ force' = f
    /\ UNCHANGED <<machine, calls, store, persistence, local, row, lastUrl,
                   created, past, faults>>

\* The effect of useProjectLoader: it notes the project as loaded and does
\* not look at what load() returns.
Effect ==
    LET p == IF url # None THEN url ELSE projectId
    IN  /\ due
        /\ due' = FALSE
        /\ IF p = None \/ (lastUrl = p /\ ~force)
             THEN UNCHANGED <<st, calls, lastUrl, choice>>
             ELSE /\ lastUrl' = p
                  /\ IF (IsProjectLoaded(p) /\ ~force) \/ IsLoading(st)
                       THEN UNCHANGED <<st, calls, choice>>
                       ELSE /\ choice' = p
                            /\ \E c \in Slots : /\ calls[c].at = "none"
                                                /\ Start(c, p, force, projectId, "effect")
        /\ UNCHANGED <<retryCount, loadedProjectId, store, persistence, local, row, url, force,
                       created, made, written, faults, setting>>

-----------------------------------------------------------------------------
(* The awaits of load(), in their order. *)

\* The save before a load is best effort: the load goes on either way, and a
\* request that failed may have been applied.
Saved(c) ==
    /\ calls[c].at = "put"
    /\ st' = Move(st, "fetching")
    /\ calls' = [calls EXCEPT ![c].at = "fetch"]
    /\ UNCHANGED <<retryCount, loadedProjectId, store, persistence, local, hook, created, past>>

\* Regression: the store is saved under the project to load.
AppliedToNext(c) == row' = [row EXCEPT ![calls[c].project] = calls[c].sent]
Applied(c) == row' = [row EXCEPT ![calls[c].prev] = calls[c].sent]

PutAnswered(c) == Saved(c) /\ Applied(c) /\ UNCHANGED faults

\* Regression: the catch of the save sends no event.
PutFailsInSilence(c) ==
    /\ calls[c].at = "put"
    /\ Suffer("put")
    /\ calls' = [calls EXCEPT ![c].at = "fetch"]
    /\ UNCHANGED <<machine, store, persistence, local, row, hook, created, past>>
PutFails(c) == Saved(c) /\ Suffer("put") /\ (Applied(c) \/ UNCHANGED row)

FetchAnswered(c) ==
    /\ calls[c].at = "fetch"
    /\ st' = Move(st, "hydrating")
    /\ calls' = [calls EXCEPT ![c].at = "read", ![c].got = row[calls[c].project]]
    /\ UNCHANGED <<retryCount, loadedProjectId, store, persistence, local, row, hook,
                   created, past, faults>>

\* The caller's push of the URL, when it is the sidebar.
Pushed(c) == IF calls[c].by = "click" THEN calls[c].project ELSE url

\* hydrateStore has set the ids: HYDRATED, and true for the caller.
Complete(c) ==
    LET p == calls[c].project
    IN  /\ st' = Move(st, "loaded")
        /\ retryCount' = IF st = "hydrating" THEN 0 ELSE retryCount
        /\ loadedProjectId' = p
        /\ calls' = [calls EXCEPT ![c] = NoCall]
        /\ projectId' = p
        /\ name' = NameOf[p]
        /\ url' = Pushed(c)

\* loadConfiguration leaves alone what the configuration does not have.
Contents(config) == IF config = Absent THEN doc ELSE config
Items(config) == IF config = Absent THEN {} ELSE config

\* What IndexedDB has under the name is preferred to the backend's answer.
Preferred(n, config) == IF local[n] # {} THEN local[n] ELSE Contents(config)

ReadLocal(c) ==
    LET n == NameOf[calls[c].project]
    IN  /\ calls[c].at = "read"
        /\ ~calls[c].force
        /\ doc' = Preferred(n, calls[c].got)
        /\ IF local[n] # {} \/ Items(calls[c].got) = {}
             THEN Complete(c)
             ELSE /\ name' = n
                  /\ calls' = [calls EXCEPT ![c].at = "save"]
                  /\ UNCHANGED <<machine, projectId, url>>
        /\ UNCHANGED <<persistence, local, row, force, lastUrl, created, past, faults>>

\* A forced load drops what IndexedDB has and takes the backend's answer.
DeleteLocal(c) ==
    LET n == NameOf[calls[c].project]
    IN  /\ calls[c].at = "read"
        /\ calls[c].force
        /\ local' = [local EXCEPT ![n] = {}]
        /\ doc' = Contents(calls[c].got)
        /\ IF Items(calls[c].got) = {}
             THEN Complete(c)
             ELSE /\ name' = n
                  /\ calls' = [calls EXCEPT ![c].at = "save"]
                  /\ UNCHANGED <<machine, projectId, url>>
        /\ UNCHANGED <<persistence, row, force, lastUrl, created, past, faults>>

SaveLocal(c) ==
    LET n == NameOf[calls[c].project]
    IN  /\ calls[c].at = "save"
        /\ local' = [local EXCEPT ![n] = @ \cup Items(calls[c].got)]
        /\ Complete(c)
        /\ UNCHANGED <<doc, persistence, row, force, lastUrl, created, past, faults>>

\* The catch of load(): ERROR, then a retry after a delay, or false.
Fail(c) ==
    /\ st' = Move(st, "error")
    /\ calls' = IF retryCount < MaxRetries THEN [calls EXCEPT ![c].at = "delay"]
                ELSE [calls EXCEPT ![c] = NoCall]
    /\ UNCHANGED <<retryCount, loadedProjectId, store, persistence, row, hook, created, past>>

FetchFails(c) ==
    /\ calls[c].at = "fetch"
    /\ Suffer("fetch")
    /\ Fail(c)
    /\ UNCHANGED local

\* IndexedDB refuses a read, a deletion or, part of the way, the saves.
LocalFails(c) ==
    LET n == NameOf[calls[c].project]
    IN  /\ Suffer("local")
        /\ \/ /\ calls[c].at = "read"
              /\ \E kept \in SUBSET local[n] :
                    /\ kept = local[n] \/ calls[c].force
                    /\ local' = [local EXCEPT ![n] = kept]
           \/ /\ calls[c].at = "save"
              /\ \E part \in SUBSET Items(calls[c].got) :
                    local' = [local EXCEPT ![n] = @ \cup part]
        /\ Fail(c)

\* After the delay: RETRY, then load() again, forced, in the same call.

Retry(c) ==
    /\ calls[c].at = "delay"
    /\ retryCount' = IF st = "error" THEN retryCount + 1 ELSE retryCount
    /\ IF st = "error" \/ IsLoading(st)
         THEN /\ st' = IF st = "error" THEN "validating" ELSE st
              /\ calls' = [calls EXCEPT ![c] = NoCall]
         ELSE Start(c, calls[c].project, TRUE, calls[c].prev, calls[c].by)
    /\ UNCHANGED <<loadedProjectId, store, persistence, local, row, hook, created, past, faults>>

-----------------------------------------------------------------------------
(* Edits and their copy in IndexedDB. *)

\* What the timer will write: the items and the name at the time of the edit.
\* Regression: the items before the edit.
ScheduledBefore(items) == [name |-> name, data |-> doc]
Scheduled(items) == [name |-> name, data |-> items]

\* The pages take no edit while they show that a project is loading.  The
\* timer belongs to the table, not to the project.
Edit(e) ==
    LET item == [home |-> projectId, what |-> e]
    IN  /\ Rested
        /\ projectId # None
        /\ ~IsLoading(st)
        /\ \A i \in made : i.what # e
        /\ made' = made \cup {item}
        /\ doc' = doc \cup {item}
        /\ pending' = Scheduled(doc \cup {item})
        /\ UNCHANGED <<machine, calls, name, projectId, writing, local, row, hook, created,
                       choice, written, faults>>

\* The write is a deletion and then an addition.
PersistDeletes ==
    /\ pending # None
    /\ writing = None
    /\ writing' = pending
    /\ pending' = None
    /\ local' = [local EXCEPT ![pending.name] = {}]
    /\ UNCHANGED <<machine, calls, store, row, hook, created, past, faults>>

PersistAdds ==
    /\ writing # None
    /\ writing' = None
    /\ local' = [local EXCEPT ![writing.name] = @ \cup writing.data]
    /\ UNCHANGED <<machine, calls, store, pending, row, hook, created, past, faults>>

\* Creating a project in /tools/visual-automation, where no loader is
\* mounted: its id and name are set in the store, and nothing is loaded.
CreateProject(p) ==
    /\ Rested
    /\ p \in setting.new \ created
    /\ created' = created \cup {p}
    /\ Opened(p)
    /\ lastUrl' = None
    /\ UNCHANGED <<machine, calls, doc, persistence, local, row, force, due, past, faults, setting>>

\* A page with the hook is opened after one without: a hook with no memory.
Mount ==
    /\ Rested
    /\ lastUrl' = None
    /\ due' = TRUE
    /\ UNCHANGED <<machine, calls, store, persistence, local, row, url, force, created, past,
                   faults, setting>>

\* The page is loaded again.  Ids and name are in localStorage; a request
\* under way may still be applied.
Refresh ==
    /\ Patience
    /\ Suffer("refresh")
    /\ st' = "idle"
    /\ retryCount' = 0
    /\ loadedProjectId' = None
    /\ calls' = [c \in Slots |-> NoCall]
    /\ doc' = {}
    /\ pending' = None
    /\ writing' = None
    /\ lastUrl' = None
    /\ due' = TRUE
    /\ choice' = None
    /\ \/ UNCHANGED row
       \/ \E c \in Slots : calls[c].at = "put" /\ Applied(c)
    /\ UNCHANGED <<name, projectId, local, url, force, created, made, written, setting>>

\* Another client's write, made to the row as it is.
OtherWrites(o, p) ==
    LET item == [home |-> p, what |-> o]
    IN  /\ \A i \in written : i.what # o
        /\ row[p] # Absent
        /\ row' = [row EXCEPT ![p] = @ \cup {item}]
        /\ written' = written \cup {item}
        /\ UNCHANGED <<machine, calls, store, persistence, local, hook, created, choice, made,
                       faults>>

Answer(c) ==
    \/ PutAnswered(c)
    \/ FetchAnswered(c)
    \/ ReadLocal(c)
    \/ DeleteLocal(c)
    \/ SaveLocal(c)
    \/ Retry(c)

\* The effect runs again when one of its dependencies has changed.
Rerender ==
    /\ due' = (due \/ <<url, force, projectId>>' # <<url, force, projectId>>)
    /\ UNCHANGED setting

Step ==
    \/ \E c \in Slots : Answer(c) \/ PutFails(c) \/ FetchFails(c) \/ LocalFails(c)
    \/ \E p \in Projects : Click(p)
    \/ \E p \in setting.links : Navigate(p, FALSE)
    \/ \E p \in setting.forced : Navigate(p, TRUE)
    \/ \E e \in setting.edits : Edit(e)
    \/ PersistDeletes
    \/ PersistAdds
    \/ \E o \in setting.others, p \in Projects : OtherWrites(o, p)

Next ==
    \/ Step /\ Rerender
    \/ Effect
    \/ Mount
    \/ \E p \in setting.new : CreateProject(p)
    \/ Refresh

Spec == Init /\ [][Next]_vars

\* Answers come, timers run, effects run.  No fault and no user action is fair.
Fairness ==
    /\ \A c \in Slots : WF_vars(Answer(c) /\ Rerender)
    /\ WF_vars(PersistDeletes /\ Rerender)
    /\ WF_vars(PersistAdds /\ Rerender)
    /\ WF_vars(Effect)

FairSpec == Spec /\ Fairness

-----------------------------------------------------------------------------
(* Properties. *)

Running(c) == calls[c].at \notin {"none", "delay"}

\* The state machine lets one load run at a time (loading-state-machine.ts:5,
\* "Prevents race conditions"), though a call waits for its retry beside it.
OneLoad == \A c, d \in Slots : Running(c) /\ Running(d) => c = d

\* A RETRY that counts is the last event of the machine: no load runs after
\* it until the page is loaded again (project-loader.ts:145-151 refuses the
\* load() of line 253, the machine being in validating since line 252).
RetryFreezes ==
    retryCount > 0 => st = "validating" /\ \A c \in Slots : ~Running(c)

\* No fetch and no hydration has failed so far.
Unfailed == \A k \in {"fetch", "local"} : faults[k] = setting.fails[k]

\* Every project had its lists from the start, no hydration has failed and the page has
\* not been loaded again.
Undisturbed ==
    /\ setting.blank = {}
    /\ \A k \in {"local", "refresh"} : faults[k] = setting.fails[k]

\* A patient user who forces no load and creates no project, and Unfailed.
Patient == ~setting.hasty /\ setting.forced = {} /\ setting.new = {} /\ Unfailed

\* What is stored under a project, in its row or in IndexedDB, was made for
\* it, or for one of the same name, which IndexedDB cannot tell from it: no
\* save, no timer and no hydration mixes the items of two names.
HomeKept ==
    /\ \A p \in Projects : \A i \in Items(row[p]) : NameOf[i.home] = NameOf[p]
    /\ \A n \in Names : \A i \in local[n] : NameOf[i.home] = n

\* It is so while nothing disturbs, however hasty the user
\* (project-loader.ts:165-215, 348-574).
UndisturbedHomeKept == Undisturbed => HomeKept

Held(c) == IF c = None THEN {} ELSE c.data
MadeFor(p, items) == \A i \in items : NameOf[i.home] = NameOf[p]

\* Why: what is in the store was made for the open project's name, or for the one's whose
\* hydration is about to end, and everything under way was taken from there.
StoredHome ==
    /\ HomeKept
    /\ \A p \in Projects : row[p] # Absent
    /\ \A w \in {pending, writing} : \A i \in Held(w) : NameOf[i.home] = w.name

CallHome(c) ==
    /\ calls[c].at = "put" => MadeFor(calls[c].prev, calls[c].sent)
    /\ calls[c].at \in {"read", "save"} =>
         calls[c].got # Absent /\ MadeFor(calls[c].project, calls[c].got)
    /\ calls[c].at = "save" =>
         name = NameOf[calls[c].project] /\ MadeFor(calls[c].project, doc)

OpenHome ==
    /\ projectId # None => name = NameOf[projectId]
    /\ MadeFor(projectId, doc)

HomeInv ==
    /\ StoredHome
    /\ loadedProjectId = projectId
    /\ \A c \in Slots : CallHome(c)
    /\ (\A c \in Slots : calls[c].at # "save") => OpenHome

\* An edit once made is somewhere: in the store, on its way to IndexedDB or
\* to the backend, or in one of the two.
EditsKept ==
    \A i \in made :
        \/ i \in doc \cup Held(pending) \cup Held(writing)
        \/ i \in local[NameOf[i.home]]
        \/ i \in Items(row[i.home])
        \/ \E c \in Slots : calls[c].at = "put" /\ i \in calls[c].sent

\* A project that has been opened shows the user's edits of it
\* (project-loader.ts:430, IndexedDB "has the latest local changes").
EditsShown ==
    \A p \in Projects :
        IsProjectLoaded(p) /\ projectId = p => {i \in made : i.home = p} \subseteq doc

\* A patient user's edit is never lost, whatever the names: no load, failed save or
\* reloaded page loses it (project-loader.ts:290-310), and no opened project misses it.
PatientEditsKept == Patient => EditsKept /\ EditsShown

\* Why, with a patient user: between two writes every
\* edit is in IndexedDB, and what a write replaces is in the store, that of the project
\* the write is for.
MachineEdits ==
    /\ ~force
    /\ st # "error"
    /\ st = "idle" => lastUrl = None /\ (due \/ projectId = None)

LoadedEdits ==
    st = "loaded" =>
        /\ projectId # None
        /\ loadedProjectId = projectId
        /\ name = NameOf[projectId]
        /\ {i \in made : NameOf[i.home] = NameOf[projectId]} \subseteq doc

WriteEdits ==
    /\ due \/ st # "loaded" => pending = None /\ writing = None
    /\ \A w \in {pending, writing} \ {None} : w = [name |-> name, data |-> doc]
    /\ pending = None \/ writing = None

StoredEdits ==
    \A i \in made : \/ i \in local[NameOf[i.home]]
                    \/ NameOf[i.home] = NameOf[projectId] /\ (pending # None \/ writing # None)

CallEdits(c) ==
    /\ ~calls[c].force
    /\ calls[c].at # "delay"
    /\ calls[c].at = "save" => {i \in made : NameOf[i.home] = NameOf[calls[c].project]} \subseteq doc

EditsInv ==
    /\ MachineEdits
    /\ LoadedEdits
    /\ WriteEdits
    /\ StoredEdits
    /\ \A c \in Slots : CallEdits(c)

\* The row keeps what other clients wrote to it: saving the project that is
\* left does not undo their writes.
OthersKept == \A i \in written : i \in Items(row[i.home])

\* When nothing is under way, the project of the URL is the one open
\* (use-project-loader.ts:71 skips a URL as loaded, whatever load() did).
UrlShown ==
    /\ st = "loaded"
    /\ ~due
    /\ \A c \in Slots : calls[c].at = "none"
    /\ url # None
    => projectId = url

\* The project loaded is the last one the user had accepted: no earlier
\* load, and no retry of one, replaces it.
ChoiceStands == st = "loaded" => loadedProjectId = choice
UnfailedChoiceStands == Unfailed => ChoiceStands

\* Why, where no fetch and no hydration has failed: the load that runs is of that project.
ChoiceInv ==
    /\ ChoiceStands
    /\ \A c \in Slots : /\ calls[c].at # "delay"
                        /\ Running(c) => calls[c].project = choice

\* A load ends and the loading overlay goes away, unless a fetch or a hydration fails.
LoadEnds == Unfailed /\ IsLoading(st) ~> ~Unfailed \/ ~IsLoading(st)
=============================================================================
