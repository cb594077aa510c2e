------------------------ MODULE ProjectLoader_proofs ------------------------
(***************************************************************************)
(* Proofs about ProjectLoader: its type invariant, that one load runs at a *)
(* time and none once a retry has been counted, that the project loaded is *)
(* the one chosen last, that nothing stored mixes two projects, and that   *)
(* no edit of a patient user is lost or hidden.                            *)
(***************************************************************************)
EXTENDS ProjectLoader, TLAPS

-----------------------------------------------------------------------------
(* The state machine. *)

LEMMA MoveTypes ==
    ASSUME NEW s \in LoadingState, NEW to \in LoadingState
    PROVE  Move(s, to) \in LoadingState
  BY DEF Move

\* The moves a load that is under way makes, each from its own state.
LEMMA Moves ==
    /\ Move("idle", "validating") = "validating"
    /\ Move("loaded", "validating") = "validating"
    /\ Move("error", "validating") = "validating"
    /\ Move("validating", "saving-current") = "saving-current"
    /\ Move("validating", "fetching") = "fetching"
    /\ Move("saving-current", "fetching") = "fetching"
    /\ Move("fetching", "fetching") = "fetching"
    /\ Move("fetching", "hydrating") = "hydrating"
    /\ Move("hydrating", "loaded") = "loaded"
    /\ Move("fetching", "error") = "error"
    /\ Move("hydrating", "error") = "error"
  BY DEF Move, ValidTransitions, LoadingState

-----------------------------------------------------------------------------
(* What the operators the actions share leave of the types. *)

\* A call that is under way knows its project.
ProjectKnown == \A c \in Slots : calls[c].at # "none" => calls[c].project \in Projects

Typed == TypeOK /\ ProjectKnown

LEMMA NameTypes ==
    ASSUME NEW p \in Projects
    PROVE  NameOf[p] \in Names
  BY DEF Names

LEMMA SettingTypes ==
    ASSUME setting \in Settings
    PROVE  /\ setting.new \subseteq Projects
           /\ setting.links \subseteq Projects
           /\ setting.forced \subseteq Projects
           /\ setting.edits \subseteq Edits
           /\ setting.others \subseteq Others
           /\ setting.fails \in [FaultKind -> Nat]
           /\ setting.new \subseteq setting.blank
  BY LoaderAssumption DEF Setting

LEMMA NoCallTypes == NoCall \in Call
  BY DEF NoCall, Call, Configuration

LEMMA FreedTypes ==
    ASSUME Typed, NEW c \in Slots, calls' = [calls EXCEPT ![c] = NoCall]
    PROVE  calls' \in [Slots -> Call] /\ ProjectKnown'
<1>1. calls' \in [Slots -> Call]
  BY NoCallTypes DEF Typed, TypeOK, MachineOK
<1>2. ASSUME NEW d \in Slots, calls'[d].at # "none"
      PROVE  calls'[d].project \in Projects
  BY <1>2 DEF Typed, TypeOK, MachineOK, ProjectKnown, NoCall
<1> QED
  BY <1>1, <1>2 DEF ProjectKnown

LEMMA MovedTypes ==
    ASSUME Typed, NEW c \in Slots, calls[c].at # "none",
           NEW at \in {"none", "put", "fetch", "read", "save", "delay"},
           calls' = [calls EXCEPT ![c].at = at]
    PROVE  calls' \in [Slots -> Call] /\ ProjectKnown'
<1>1. calls[c] \in Call
  BY DEF Typed, TypeOK, MachineOK
<1>2. calls' = [calls EXCEPT ![c] = [calls[c] EXCEPT !.at = at]]
  OBVIOUS
<1>3. [calls[c] EXCEPT !.at = at] \in Call
  BY <1>1 DEF Call
<1>4. [calls[c] EXCEPT !.at = at].project = calls[c].project
  BY <1>1 DEF Call
<1>5. calls' \in [Slots -> Call]
  BY <1>2, <1>3 DEF Typed, TypeOK, MachineOK
<1>6. ASSUME NEW d \in Slots, calls'[d].at # "none"
      PROVE  calls'[d].project \in Projects
  BY <1>2, <1>4, <1>6 DEF Typed, TypeOK, MachineOK, ProjectKnown
<1> QED
  BY <1>5, <1>6 DEF ProjectKnown

LEMMA StartTypes ==
    ASSUME Typed, NEW c \in Slots, NEW p \in Projects, NEW f \in BOOLEAN,
           NEW prev \in Projects \cup {None}, NEW b \in {"click", "effect"},
           Start(c, p, f, prev, b)
    PROVE  /\ st' \in LoadingState
           /\ calls' \in [Slots -> Call]
           /\ ProjectKnown'
<1> DEFINE saves == ~f /\ (prev # None /\ prev # p) /\ doc # {}
           call == [at |-> IF saves THEN "put" ELSE "fetch", project |-> p, force |-> f,
                    prev |-> prev, by |-> b, sent |-> IF saves THEN doc ELSE {}, got |-> {}]
<1>1. st' \in LoadingState
  <2>1. /\ "validating" \in LoadingState
        /\ "saving-current" \in LoadingState
        /\ "fetching" \in LoadingState
        /\ st \in LoadingState
    BY DEF LoadingState, Typed, TypeOK, MachineOK
  <2> QED
    BY <2>1, MoveTypes DEF Start
<1>2. call \in Call
  <2>1. /\ doc \in SUBSET Item
        /\ {} \in Configuration
        /\ {} \in SUBSET Item
    BY DEF Typed, TypeOK, DataOK, Configuration
  <2> QED
    BY <2>1 DEF Call
<1>3. calls' = [calls EXCEPT ![c] = call]
  BY DEF Start
<1>4. calls' \in [Slots -> Call]
  BY <1>2, <1>3 DEF Typed, TypeOK, MachineOK
<1>5. call.project = p
  OBVIOUS
<1> HIDE DEF call
<1>6. ASSUME NEW d \in Slots, calls'[d].at # "none"
      PROVE  calls'[d].project \in Projects
  BY <1>3, <1>5, <1>6 DEF Typed, TypeOK, MachineOK, ProjectKnown
<1> QED
  BY <1>1, <1>4, <1>6 DEF ProjectKnown

LEMMA CompleteTypes ==
    ASSUME Typed, NEW c \in Slots, calls[c].at # "none", Complete(c)
    PROVE  /\ MachineOK'
           /\ ProjectKnown'
           /\ projectId' \in Projects
           /\ name' \in Names
           /\ url' \in Projects \cup {None}
<1>1. calls[c].project \in Projects
  BY DEF Typed, ProjectKnown
<1>2. st' \in LoadingState
  BY MoveTypes DEF Typed, TypeOK, MachineOK, Complete, LoadingState
<1>3. calls' \in [Slots -> Call] /\ ProjectKnown'
  BY FreedTypes DEF Complete
<1>4. retryCount' \in Nat
  BY DEF Complete, Typed, TypeOK, MachineOK
<1>5. loadedProjectId' \in Projects \cup {None}
  BY <1>1 DEF Complete
<1>6. projectId' \in Projects /\ name' \in Names
  BY <1>1, NameTypes DEF Complete
<1>7. url' \in Projects \cup {None}
  BY <1>1 DEF Complete, Pushed, Typed, TypeOK
<1> QED
  BY <1>2, <1>3, <1>4, <1>5, <1>6, <1>7 DEF MachineOK

LEMMA ContentTypes ==
    ASSUME Typed, NEW c \in Slots, calls[c].at # "none"
    PROVE  /\ calls[c].project \in Projects
           /\ NameOf[calls[c].project] \in Names
           /\ calls[c].sent \in SUBSET Item
           /\ calls[c].got \in Configuration
           /\ Items(calls[c].got) \in SUBSET Item
           /\ Contents(calls[c].got) \in SUBSET Item
           /\ local[NameOf[calls[c].project]] \in SUBSET Item
<1>1. calls[c].project \in Projects
  BY DEF Typed, ProjectKnown
<1>2. NameOf[calls[c].project] \in Names
  BY <1>1, NameTypes
<1>3. calls[c].sent \in SUBSET Item /\ calls[c].got \in Configuration
  BY DEF Typed, TypeOK, MachineOK, Call
<1>4. Items(calls[c].got) \in SUBSET Item
  BY <1>3 DEF Items, Configuration
<1>5. Contents(calls[c].got) \in SUBSET Item
  BY <1>3 DEF Contents, Configuration, Typed, TypeOK, DataOK
<1>6. local[NameOf[calls[c].project]] \in SUBSET Item
  BY <1>2 DEF Typed, TypeOK, DataOK
<1> QED
  BY <1>1, <1>2, <1>3, <1>4, <1>5, <1>6

LEMMA SufferTypes ==
    ASSUME Typed, NEW k \in FaultKind, Suffer(k)
    PROVE  faults' \in [FaultKind -> Nat]
<1>1. faults[k] - 1 \in Nat
  BY DEF Typed, TypeOK, Suffer
<1> QED
  BY <1>1 DEF Typed, TypeOK, Suffer

LEMMA FailTypes ==
    ASSUME Typed, NEW c \in Slots, calls[c].at # "none", Fail(c)
    PROVE  MachineOK' /\ ProjectKnown'
<1>1. st' \in LoadingState
  BY MoveTypes DEF Typed, TypeOK, MachineOK, Fail, LoadingState
<1>2. calls' \in [Slots -> Call] /\ ProjectKnown'
  <2>1. CASE calls' = [calls EXCEPT ![c].at = "delay"]
    BY <2>1, MovedTypes
  <2>2. CASE calls' = [calls EXCEPT ![c] = NoCall]
    BY <2>2, FreedTypes
  <2> QED
    BY <2>1, <2>2 DEF Fail
<1> QED
  BY <1>1, <1>2 DEF Fail, Typed, TypeOK, MachineOK

\* A step of the machine and its calls alone.
LEMMA SameDataTypes ==
    ASSUME Typed, UNCHANGED <<store, persistence, local, row>>
    PROVE  DataOK'
  BY DEF Typed, TypeOK, DataOK, store, persistence

LEMMA SameMachineTypes ==
    ASSUME Typed, UNCHANGED <<machine, calls>>
    PROVE  MachineOK' /\ ProjectKnown'
  BY DEF Typed, TypeOK, MachineOK, ProjectKnown, machine

\* The rest of the state, when neither the URL nor the past changes.
Surroundings ==
    /\ url \in Projects \cup {None}
    /\ lastUrl \in Projects \cup {None}
    /\ force \in BOOLEAN
    /\ due \in BOOLEAN
    /\ setting \in Settings
    /\ created \in SUBSET setting.new
    /\ choice \in Projects \cup {None}
    /\ made \in SUBSET Item
    /\ written \in SUBSET Item

LEMMA SameSurroundings ==
    ASSUME Typed, UNCHANGED <<url, force, lastUrl, created, past>>, Rerender
    PROVE  Surroundings'
  BY DEF Typed, TypeOK, Surroundings, past, Rerender

LEMMA TypedAgain ==
    ASSUME MachineOK', DataOK', ProjectKnown', Surroundings', faults' \in [FaultKind -> Nat]
    PROVE  Typed'
  BY DEF Typed, TypeOK, Surroundings

LEMMA SameFaults ==
    ASSUME Typed, UNCHANGED faults
    PROVE  faults' \in [FaultKind -> Nat]
  BY DEF Typed, TypeOK

\* A call that starts for the project of a click, a URL or a retry.
LEMMA StartKeepsMachine ==
    ASSUME Typed, NEW c \in Slots, NEW p \in Projects, NEW f \in BOOLEAN,
           NEW prev \in Projects \cup {None}, NEW b \in {"click", "effect"},
           Start(c, p, f, prev, b), retryCount' \in Nat, UNCHANGED loadedProjectId
    PROVE  MachineOK' /\ ProjectKnown'
  BY StartTypes DEF Typed, TypeOK, MachineOK

-----------------------------------------------------------------------------
(* The type invariant, action by action. *)

LEMMA InitTypes == Init => Typed
<1> SUFFICES ASSUME Init PROVE Typed
  OBVIOUS
<1>1. MachineOK
  BY NoCallTypes DEF Init, MachineOK, LoadingState
<1>2. DataOK
  <2>1. \A p \in Projects : First(p) \in Item
    BY DEF First, Item
  <2>2. row \in [Projects -> Configuration]
    BY <2>1 DEF Init, Configuration
  <2> QED
    BY <2>2 DEF Init, DataOK
<1>3. ProjectKnown
  BY DEF Init, ProjectKnown, NoCall
<1>4. faults \in [FaultKind -> Nat]
  BY LoaderAssumption DEF Init, Setting
<1> QED
  BY <1>1, <1>2, <1>3, <1>4 DEF Init, Typed, TypeOK

LEMMA ClickTypes ==
    ASSUME Typed, NEW p \in Projects, Click(p), Rerender
    PROVE  Typed'
<1>1. MachineOK' /\ ProjectKnown'
  <2>1. CASE UNCHANGED <<st, calls>>
    BY <2>1, SameMachineTypes DEF Click, machine
  <2>2. CASE \E c \in Slots : Start(c, p, FALSE, projectId, "click")
    <3>1. PICK c \in Slots : Start(c, p, FALSE, projectId, "click")
      BY <2>2
    <3>2. /\ projectId \in Projects \cup {None}
          /\ retryCount' \in Nat
          /\ UNCHANGED loadedProjectId
      BY DEF Click, Typed, TypeOK, DataOK, MachineOK
    <3> QED
      BY <3>1, <3>2, StartKeepsMachine
  <2> QED
    BY <2>1, <2>2 DEF Click
<1>2. DataOK'
  <2>1. \/ projectId' = p /\ name' = NameOf[p]
        \/ UNCHANGED <<projectId, name>>
    BY DEF Click, Opened
  <2>2. NameOf[p] \in Names
    BY NameTypes
  <2>3. projectId' # None => name' # None
    BY <2>1, <2>2, LoaderAssumption DEF Names, Typed, TypeOK, DataOK
  <2> QED
    BY <2>1, <2>2, <2>3 DEF Click, Typed, TypeOK, DataOK, persistence
<1>3. Surroundings'
  BY DEF Click, Opened, Typed, TypeOK, Surroundings, Rerender
<1>4. faults' \in [FaultKind -> Nat]
  BY SameFaults DEF Click
<1> QED
  BY <1>1, <1>2, <1>3, <1>4, TypedAgain

LEMMA NavigateTypes ==
    ASSUME Typed, NEW p \in Projects, NEW f \in BOOLEAN, Navigate(p, f), Rerender
    PROVE  Typed'
<1>1. MachineOK' /\ ProjectKnown'
  BY SameMachineTypes DEF Navigate
<1>2. DataOK'
  BY SameDataTypes DEF Navigate
<1>3. Surroundings'
  BY DEF Navigate, Typed, TypeOK, Surroundings, past, Rerender
<1>4. faults' \in [FaultKind -> Nat]
  BY SameFaults DEF Navigate
<1> QED
  BY <1>1, <1>2, <1>3, <1>4, TypedAgain

LEMMA EffectTypes ==
    ASSUME Typed, Effect
    PROVE  Typed'
<1> DEFINE p == IF url # None THEN url ELSE projectId
<1>1. /\ p \in Projects \cup {None}
      /\ projectId \in Projects \cup {None}
      /\ force \in BOOLEAN
      /\ retryCount' \in Nat
      /\ UNCHANGED loadedProjectId
  BY DEF Effect, Typed, TypeOK, DataOK, MachineOK
<1>2. MachineOK' /\ ProjectKnown'
  <2>1. CASE UNCHANGED <<st, calls>>
    BY <2>1, SameMachineTypes DEF Effect, machine
  <2>2. CASE p # None /\ \E c \in Slots : Start(c, p, force, projectId, "effect")
    <3>1. PICK c \in Slots : Start(c, p, force, projectId, "effect")
      BY <2>2
    <3> QED
      BY <1>1, <2>2, <3>1, StartKeepsMachine
  <2> QED
    BY <2>1, <2>2 DEF Effect
<1>3. DataOK'
  BY SameDataTypes DEF Effect
<1>4. /\ choice' \in Projects \cup {None}
      /\ lastUrl' \in Projects \cup {None}
  BY <1>1 DEF Effect, Typed, TypeOK
<1>5. Surroundings'
  BY <1>4 DEF Effect, Typed, TypeOK, Surroundings
<1>6. faults' \in [FaultKind -> Nat]
  BY SameFaults DEF Effect
<1> QED
  BY <1>2, <1>3, <1>5, <1>6, TypedAgain

LEMMA EditTypes ==
    ASSUME Typed, NEW e \in Edits, Edit(e), Rerender
    PROVE  Typed'
<1> DEFINE item == [home |-> projectId, what |-> e]
<1>1. item \in Item
  BY DEF Edit, Item, Typed, TypeOK, DataOK
<1>2. name \in Names
  BY DEF Edit, Typed, TypeOK, DataOK
<1> HIDE DEF item
<1>3. MachineOK' /\ ProjectKnown'
  BY SameMachineTypes DEF Edit
<1>4. doc' \in SUBSET Item /\ made' \in SUBSET Item
  BY <1>1 DEF Edit, Typed, TypeOK, DataOK, item
<1>5. pending' \in Write
  <2>1. pending' = Scheduled(doc')
    BY DEF Edit
  <2> QED
    BY <1>2, <1>4, <2>1 DEF Scheduled, Write
<1>6. DataOK'
  BY <1>4, <1>5 DEF Edit, Typed, TypeOK, DataOK
<1>7. Surroundings'
  BY <1>4 DEF Edit, Typed, TypeOK, Surroundings, hook, Rerender
<1>8. faults' \in [FaultKind -> Nat]
  BY SameFaults DEF Edit
<1> QED
  BY <1>3, <1>6, <1>7, <1>8, TypedAgain

\* The two steps of a write to IndexedDB.
LEMMA PersistTypes ==
    ASSUME Typed, PersistDeletes \/ PersistAdds, Rerender
    PROVE  Typed'
<1>1. MachineOK' /\ ProjectKnown'
  BY SameMachineTypes DEF PersistDeletes, PersistAdds
<1>2. /\ pending # None => pending.name \in Names
      /\ writing # None => writing.name \in Names /\ writing.data \in SUBSET Item
  BY DEF Typed, TypeOK, DataOK, Write
<1>3. local' \in [Names -> SUBSET Item]
  <2>1. CASE PersistDeletes
    BY <1>2, <2>1 DEF PersistDeletes, Typed, TypeOK, DataOK
  <2>2. CASE PersistAdds
    <3>1. local[writing.name] \cup writing.data \in SUBSET Item
      BY <1>2, <2>2 DEF PersistAdds, Typed, TypeOK, DataOK
    <3> QED
      BY <2>2, <3>1 DEF PersistAdds, Typed, TypeOK, DataOK
  <2> QED
    BY <2>1, <2>2
<1>4. /\ pending' \in Write \cup {None}
      /\ writing' \in Write \cup {None}
  BY DEF PersistDeletes, PersistAdds, Typed, TypeOK, DataOK
<1>5. DataOK'
  BY <1>3, <1>4 DEF PersistDeletes, PersistAdds, Typed, TypeOK, DataOK, store
<1>6. Surroundings'
  BY SameSurroundings DEF PersistDeletes, PersistAdds, hook
<1>7. faults' \in [FaultKind -> Nat]
  BY SameFaults DEF PersistDeletes, PersistAdds
<1> QED
  BY <1>1, <1>5, <1>6, <1>7, TypedAgain

LEMMA CreateProjectTypes ==
    ASSUME Typed, NEW p \in setting.new, CreateProject(p)
    PROVE  Typed'
<1>1. p \in Projects
  BY SettingTypes DEF Typed, TypeOK
<1>2. MachineOK' /\ ProjectKnown'
  BY SameMachineTypes DEF CreateProject
<1>3. DataOK'
  BY <1>1, NameTypes, LoaderAssumption
  DEF CreateProject, Opened, Typed, TypeOK, DataOK, persistence, Names
<1>4. Surroundings'
  BY <1>1 DEF CreateProject, Opened, Typed, TypeOK, Surroundings, past
<1>5. faults' \in [FaultKind -> Nat]
  BY SameFaults DEF CreateProject
<1> QED
  BY <1>2, <1>3, <1>4, <1>5, TypedAgain

LEMMA MountTypes ==
    ASSUME Typed, Mount
    PROVE  Typed'
<1>1. MachineOK' /\ ProjectKnown'
  BY SameMachineTypes DEF Mount
<1>2. DataOK'
  BY SameDataTypes DEF Mount
<1>3. Surroundings'
  BY DEF Mount, Typed, TypeOK, Surroundings, past
<1>4. faults' \in [FaultKind -> Nat]
  BY SameFaults DEF Mount
<1> QED
  BY <1>1, <1>2, <1>3, <1>4, TypedAgain

LEMMA AppliedTypes ==
    ASSUME Typed, NEW c \in Slots, calls[c].at # "none", Applied(c)
    PROVE  row' \in [Projects -> Configuration]
<1>1. calls[c].sent \in Configuration
  BY ContentTypes DEF Configuration
<1> QED
  BY <1>1 DEF Applied, Typed, TypeOK, DataOK

LEMMA RefreshTypes ==
    ASSUME Typed, Refresh
    PROVE  Typed'
<1>1. MachineOK' /\ ProjectKnown'
  BY NoCallTypes DEF Refresh, MachineOK, ProjectKnown, LoadingState, NoCall
<1>2. row' \in [Projects -> Configuration]
  BY AppliedTypes DEF Refresh, Typed, TypeOK, DataOK
<1>3. DataOK'
  BY <1>2 DEF Refresh, Typed, TypeOK, DataOK
<1>4. Surroundings'
  BY DEF Refresh, Typed, TypeOK, Surroundings
<1>5. faults' \in [FaultKind -> Nat]
  BY SufferTypes DEF Refresh, FaultKind
<1> QED
  BY <1>1, <1>3, <1>4, <1>5, TypedAgain

LEMMA OtherWritesTypes ==
    ASSUME Typed, NEW o \in Others, NEW p \in Projects, OtherWrites(o, p), Rerender
    PROVE  Typed'
<1> DEFINE item == [home |-> p, what |-> o]
<1>1. item \in Item
  BY DEF Item
<1> HIDE DEF item
<1>2. MachineOK' /\ ProjectKnown'
  BY SameMachineTypes DEF OtherWrites
<1>3. row[p] \cup {item} \in Configuration
  BY <1>1 DEF OtherWrites, Typed, TypeOK, DataOK, Configuration
<1>4. row' = [row EXCEPT ![p] = row[p] \cup {item}]
  BY DEF OtherWrites, item
<1>5. row' \in [Projects -> Configuration]
  BY <1>3, <1>4 DEF Typed, TypeOK, DataOK
<1>6. DataOK'
  BY <1>5 DEF OtherWrites, Typed, TypeOK, DataOK, store, persistence
<1>7. written' \in SUBSET Item
  BY <1>1 DEF OtherWrites, Typed, TypeOK, item
<1>8. Surroundings'
  BY <1>7 DEF OtherWrites, Typed, TypeOK, Surroundings, hook, Rerender
<1>9. faults' \in [FaultKind -> Nat]
  BY SameFaults DEF OtherWrites
<1> QED
  BY <1>2, <1>6, <1>8, <1>9, TypedAgain

\* A call that goes on to its next await.
LEMMA SavedTypes ==
    ASSUME Typed, NEW c \in Slots, Saved(c), Rerender
    PROVE  /\ MachineOK' /\ ProjectKnown' /\ Surroundings'
           /\ UNCHANGED <<store, persistence, local>>
<1>1. st' \in LoadingState
  BY MoveTypes DEF Saved, Typed, TypeOK, MachineOK, LoadingState
<1>2. calls' \in [Slots -> Call] /\ ProjectKnown'
  BY MovedTypes DEF Saved
<1>3. MachineOK'
  BY <1>1, <1>2 DEF Saved, Typed, TypeOK, MachineOK
<1>4. Surroundings'
  BY SameSurroundings DEF Saved, hook
<1> QED
  BY <1>2, <1>3, <1>4 DEF Saved

LEMMA PutTypes ==
    ASSUME Typed, NEW c \in Slots, PutAnswered(c) \/ PutFails(c), Rerender
    PROVE  Typed'
<1>1. Saved(c) /\ calls[c].at # "none"
  BY DEF PutAnswered, PutFails, Saved
<1>2. row' \in [Projects -> Configuration]
  BY <1>1, AppliedTypes DEF PutAnswered, PutFails, Typed, TypeOK, DataOK
<1>3. DataOK'
  BY <1>1, <1>2, SavedTypes DEF Typed, TypeOK, DataOK, store, persistence
<1>4. faults' \in [FaultKind -> Nat]
  BY SameFaults, SufferTypes DEF PutAnswered, PutFails, FaultKind
<1> QED
  BY <1>1, <1>3, <1>4, SavedTypes, TypedAgain

LEMMA FetchAnsweredTypes ==
    ASSUME Typed, NEW c \in Slots, FetchAnswered(c), Rerender
    PROVE  Typed'
<1> DEFINE read == [calls[c] EXCEPT !.at = "read", !.got = row[calls[c].project]]
<1>1. /\ calls[c] \in Call
      /\ calls[c].project \in Projects
      /\ row[calls[c].project] \in Configuration
  BY DEF FetchAnswered, Typed, TypeOK, MachineOK, DataOK, ProjectKnown
<1>2. read \in Call /\ read.project = calls[c].project
  BY <1>1 DEF Call
<1>3. calls' = [calls EXCEPT ![c] = read]
  BY DEF FetchAnswered
<1> HIDE DEF read
<1>4. calls' \in [Slots -> Call]
  BY <1>2, <1>3 DEF Typed, TypeOK, MachineOK
<1>5. ProjectKnown'
  <2>1. ASSUME NEW d \in Slots, calls'[d].at # "none"
        PROVE  calls'[d].project \in Projects
    BY <1>1, <1>2, <1>3, <2>1 DEF Typed, TypeOK, MachineOK, ProjectKnown
  <2> QED
    BY <2>1 DEF ProjectKnown
<1>6. st' \in LoadingState
  BY MoveTypes DEF FetchAnswered, Typed, TypeOK, MachineOK, LoadingState
<1>7. MachineOK'
  BY <1>4, <1>6 DEF FetchAnswered, Typed, TypeOK, MachineOK
<1>8. DataOK'
  BY SameDataTypes DEF FetchAnswered
<1>9. Surroundings'
  BY SameSurroundings DEF FetchAnswered, hook
<1>10. faults' \in [FaultKind -> Nat]
  BY SameFaults DEF FetchAnswered
<1> QED
  BY <1>5, <1>7, <1>8, <1>9, <1>10, TypedAgain

\* Hydration ends, or goes on with the name set to save to IndexedDB.
LEMMA HydrationTypes ==
    ASSUME Typed, NEW c \in Slots, calls[c].at # "none",
           \/ Complete(c)
           \/ /\ name' = NameOf[calls[c].project]
              /\ calls' = [calls EXCEPT ![c].at = "save"]
              /\ UNCHANGED <<machine, projectId, url>>,
           doc' \in SUBSET Item,
           local' \in [Names -> SUBSET Item],
           UNCHANGED <<persistence, row, force, lastUrl, created, past, faults>>,
           Rerender
    PROVE  Typed'
<1>1. calls[c].project \in Projects /\ NameOf[calls[c].project] \in Names
  BY ContentTypes
<1>2. /\ MachineOK'
      /\ ProjectKnown'
      /\ projectId' \in Projects \cup {None}
      /\ name' \in Names
      /\ url' \in Projects \cup {None}
  <2>1. CASE Complete(c)
    BY <2>1, CompleteTypes
  <2>2. CASE /\ name' = NameOf[calls[c].project]
             /\ calls' = [calls EXCEPT ![c].at = "save"]
             /\ UNCHANGED <<machine, projectId, url>>
    <3>1. calls' \in [Slots -> Call] /\ ProjectKnown'
      BY <2>2, MovedTypes
    <3> QED
      BY <1>1, <2>2, <3>1 DEF Typed, TypeOK, MachineOK, DataOK, machine
  <2> QED
    BY <2>1, <2>2
<1>3. DataOK'
  BY <1>2, LoaderAssumption DEF Typed, TypeOK, DataOK, persistence, Names
<1>4. Surroundings'
  BY <1>2 DEF Typed, TypeOK, Surroundings, past, Rerender
<1>5. faults' \in [FaultKind -> Nat]
  BY SameFaults
<1> QED
  BY <1>2, <1>3, <1>4, <1>5, TypedAgain

LEMMA ReadLocalTypes ==
    ASSUME Typed, NEW c \in Slots, ReadLocal(c), Rerender
    PROVE  Typed'
<1>1. calls[c].at # "none"
  BY DEF ReadLocal
<1>2. doc' \in SUBSET Item
  BY <1>1, ContentTypes DEF ReadLocal, Preferred
<1>3. local' \in [Names -> SUBSET Item]
  BY DEF ReadLocal, Typed, TypeOK, DataOK
<1> QED
  BY <1>1, <1>2, <1>3, HydrationTypes DEF ReadLocal

LEMMA DeleteLocalTypes ==
    ASSUME Typed, NEW c \in Slots, DeleteLocal(c), Rerender
    PROVE  Typed'
<1>1. calls[c].at # "none"
  BY DEF DeleteLocal
<1>2. doc' \in SUBSET Item
  BY <1>1, ContentTypes DEF DeleteLocal
<1>3. local' \in [Names -> SUBSET Item]
  BY DEF DeleteLocal, Typed, TypeOK, DataOK
<1> QED
  BY <1>1, <1>2, <1>3, HydrationTypes DEF DeleteLocal

LEMMA SaveLocalTypes ==
    ASSUME Typed, NEW c \in Slots, SaveLocal(c), Rerender
    PROVE  Typed'
<1> DEFINE n == NameOf[calls[c].project]
<1>1. calls[c].at # "none"
  BY DEF SaveLocal
<1>2. local[n] \cup Items(calls[c].got) \in SUBSET Item
  BY <1>1, ContentTypes
<1>3. local' = [local EXCEPT ![n] = local[n] \cup Items(calls[c].got)]
  BY DEF SaveLocal
<1>4. local' \in [Names -> SUBSET Item]
  BY <1>2, <1>3 DEF Typed, TypeOK, DataOK
<1>5. doc' \in SUBSET Item
  BY DEF SaveLocal, Typed, TypeOK, DataOK
<1> QED
  BY <1>1, <1>4, <1>5, HydrationTypes DEF SaveLocal

LEMMA LoadFailsTypes ==
    ASSUME Typed, NEW c \in Slots, FetchFails(c) \/ LocalFails(c), Rerender
    PROVE  Typed'
<1> DEFINE n == NameOf[calls[c].project]
<1>1. calls[c].at # "none" /\ Fail(c)
  BY DEF FetchFails, LocalFails
<1>2. MachineOK' /\ ProjectKnown'
  BY <1>1, FailTypes
<1>3. local' \in [Names -> SUBSET Item]
  <2>1. local[n] \in SUBSET Item /\ Items(calls[c].got) \in SUBSET Item
    BY <1>1, ContentTypes
  <2>2. CASE \E kept \in SUBSET local[n] : local' = [local EXCEPT ![n] = kept]
    BY <2>1, <2>2 DEF Typed, TypeOK, DataOK
  <2>3. CASE \E part \in SUBSET Items(calls[c].got) :
                local' = [local EXCEPT ![n] = local[n] \cup part]
    <3>1. PICK part \in SUBSET Items(calls[c].got) :
                 local' = [local EXCEPT ![n] = local[n] \cup part]
      BY <2>3
    <3>2. local[n] \cup part \in SUBSET Item
      BY <2>1
    <3> QED
      BY <3>1, <3>2 DEF Typed, TypeOK, DataOK
  <2>4. CASE FetchFails(c)
    BY <2>4 DEF FetchFails, Typed, TypeOK, DataOK
  <2>5. LocalFails(c) =>
           \/ \E kept \in SUBSET local[n] : local' = [local EXCEPT ![n] = kept]
           \/ \E part \in SUBSET Items(calls[c].got) :
                local' = [local EXCEPT ![n] = local[n] \cup part]
    BY DEF LocalFails
  <2> QED
    BY <2>2, <2>3, <2>4, <2>5
<1>4. DataOK'
  BY <1>1, <1>3 DEF Fail, Typed, TypeOK, DataOK, store, persistence
<1>5. Surroundings'
  BY <1>1, SameSurroundings DEF Fail, hook
<1>6. faults' \in [FaultKind -> Nat]
  BY SufferTypes DEF FetchFails, LocalFails, FaultKind
<1> QED
  BY <1>2, <1>4, <1>5, <1>6, TypedAgain

LEMMA RetryTypes ==
    ASSUME Typed, NEW c \in Slots, Retry(c), Rerender
    PROVE  Typed'
<1>1. retryCount' \in Nat
  BY DEF Retry, Typed, TypeOK, MachineOK
<1>2. /\ calls[c].project \in Projects
      /\ calls[c].prev \in Projects \cup {None}
      /\ calls[c].by \in {"click", "effect"}
  BY DEF Retry, Typed, TypeOK, MachineOK, ProjectKnown, Call
<1>3. MachineOK' /\ ProjectKnown'
  <2>1. CASE Start(c, calls[c].project, TRUE, calls[c].prev, calls[c].by)
    BY <1>1, <1>2, <2>1, StartKeepsMachine DEF Retry
  <2>2. CASE calls' = [calls EXCEPT ![c] = NoCall] /\ st' \in {"validating", st}
    <3>1. calls' \in [Slots -> Call] /\ ProjectKnown'
      BY <2>2, FreedTypes
    <3>2. st' \in LoadingState
      BY <2>2 DEF Typed, TypeOK, MachineOK, LoadingState
    <3> QED
      BY <1>1, <3>1, <3>2 DEF Retry, Typed, TypeOK, MachineOK
  <2> QED
    BY <2>1, <2>2 DEF Retry
<1>4. DataOK'
  BY SameDataTypes DEF Retry
<1>5. Surroundings'
  BY SameSurroundings DEF Retry, hook
<1>6. faults' \in [FaultKind -> Nat]
  BY SameFaults DEF Retry
<1> QED
  BY <1>3, <1>4, <1>5, <1>6, TypedAgain

LEMMA TypesStep == Typed /\ [Next]_vars => Typed'
<1> SUFFICES ASSUME Typed, [Next]_vars PROVE Typed'
  OBVIOUS
<1>1. CASE UNCHANGED vars
  BY <1>1 DEF vars, Typed, TypeOK, MachineOK, DataOK, ProjectKnown
<1>2. ASSUME NEW c \in Slots, Answer(c) \/ PutFails(c) \/ FetchFails(c) \/ LocalFails(c),
             Rerender
      PROVE  Typed'
  BY <1>2, PutTypes, FetchAnsweredTypes, ReadLocalTypes, DeleteLocalTypes,
     SaveLocalTypes, LoadFailsTypes, RetryTypes DEF Answer
<1>3. CASE Rerender /\ Step
  <2>1. setting \in Settings
    BY DEF Typed, TypeOK
  <2> QED
    BY <1>2, <1>3, <2>1, ClickTypes, NavigateTypes, EditTypes, PersistTypes, OtherWritesTypes,
       SettingTypes DEF Step
<1>4. CASE Effect \/ Mount \/ Refresh \/ \E p \in setting.new : CreateProject(p)
  BY <1>4, EffectTypes, MountTypes, RefreshTypes, CreateProjectTypes
<1> QED
  BY <1>1, <1>3, <1>4 DEF Next

\* The types hold in every reachable state, and with them that a call under
\* way has a project (load(), project-loader.ts:119-263).
THEOREM Typing == Spec => []Typed
<1>1. Typed /\ [Next]_vars => Typed'
  BY TypesStep
<1> QED
  BY InitTypes, <1>1, PTL DEF Spec

\* The type invariant the runs check.
THEOREM TypeCorrect == Spec => []TypeOK
<1>1. Typed => TypeOK
  BY DEF Typed
<1> QED
  BY <1>1, Typing, PTL

-----------------------------------------------------------------------------
(* One load at a time.  OneLoad alone is not inductive: what keeps a second *)
(* load from starting is the state of the machine, so the invariant says   *)
(* which state the load that runs has put it in.                           *)

InPhase(c) ==
    /\ calls[c].at = "put" => st = "saving-current"
    /\ calls[c].at = "fetch" => st = "fetching"
    /\ calls[c].at \in {"read", "save"} => st = "hydrating"

Sound == OneLoad /\ RetryFreezes /\ \A c \in Slots : InPhase(c)

LEMMA RunningLoads ==
    ASSUME Typed, Sound, NEW c \in Slots, Running(c)
    PROVE  /\ IsLoading(st)
           /\ st # "validating"
           /\ retryCount = 0
           /\ \A d \in Slots \ {c} : ~Running(d)
<1>1. calls[c].at \in {"put", "fetch", "read", "save"}
  BY DEF Typed, TypeOK, MachineOK, Call, Running
<1>2. st \in {"saving-current", "fetching", "hydrating"}
  BY <1>1 DEF Sound, InPhase
<1>3. retryCount = 0
  BY <1>2 DEF Sound, RetryFreezes, Typed, TypeOK, MachineOK
<1>4. \A d \in Slots \ {c} : ~Running(d)
  BY DEF Sound, OneLoad
<1> QED
  BY <1>2, <1>3, <1>4 DEF IsLoading

\* A step after which at most one call runs, in its phase, and no retry is
\* counted.
LEMMA OneSound ==
    ASSUME NEW c \in Slots, InPhase(c)', retryCount' = 0,
           \A d \in Slots \ {c} : calls'[d].at \in {"none", "delay"}
    PROVE  Sound'
  BY DEF Sound, OneLoad, RetryFreezes, Running, InPhase

LEMMA NoneSound ==
    ASSUME \A d \in Slots : calls'[d].at \in {"none", "delay"},
           retryCount' = 0 \/ st' = "validating"
    PROVE  Sound'
  BY DEF Sound, OneLoad, RetryFreezes, Running, InPhase

LEMMA StartSound ==
    ASSUME Typed, Sound, NEW c \in Slots, NEW p \in Projects, NEW f \in BOOLEAN,
           NEW prev \in Projects \cup {None}, NEW b \in {"click", "effect"},
           Start(c, p, f, prev, b), ~IsLoading(st), UNCHANGED retryCount
    PROVE  Sound'
<1> DEFINE saves == ~f /\ (prev # None /\ prev # p) /\ doc # {}
           call == [at |-> IF saves THEN "put" ELSE "fetch", project |-> p, force |-> f,
                    prev |-> prev, by |-> b, sent |-> IF saves THEN doc ELSE {}, got |-> {}]
<1>1. st \in {"idle", "loaded", "error"}
  BY DEF Typed, TypeOK, MachineOK, LoadingState, IsLoading
<1>2. retryCount' = 0
  BY <1>1 DEF Sound, RetryFreezes, Typed, TypeOK, MachineOK
<1>3. \A d \in Slots : calls[d].at \in {"none", "delay"}
  BY RunningLoads DEF Running
<1>4. calls' = [calls EXCEPT ![c] = call]
  BY DEF Start
<1>5. call.at = IF saves THEN "put" ELSE "fetch"
  OBVIOUS
<1>6. st' = IF saves THEN "saving-current" ELSE "fetching"
  <2>1. Move(st, "validating") = "validating"
    BY <1>1, Moves
  <2>2. Move("saving-current", "fetching") = "fetching"
    BY Moves
  <2> QED
    BY <2>1, <2>2, Moves DEF Start
<1> HIDE DEF call
<1>7. calls'[c] = call
  BY <1>4 DEF Typed, TypeOK, MachineOK
<1>8. \A d \in Slots \ {c} : calls'[d].at \in {"none", "delay"}
  BY <1>3, <1>4 DEF Typed, TypeOK, MachineOK
<1>9. InPhase(c)'
  BY <1>5, <1>6, <1>7 DEF InPhase
<1> QED
  BY <1>2, <1>8, <1>9, OneSound

\* The call that runs goes on to its next await, the machine with it.
LEMMA GoesOnSound ==
    ASSUME Typed, Sound, NEW c \in Slots, Running(c),
           NEW r, calls' = [calls EXCEPT ![c] = r], UNCHANGED retryCount,
           \/ r.at = "fetch" /\ st' = "fetching"
           \/ r.at \in {"read", "save"} /\ st' = "hydrating"
    PROVE  Sound'
<1>1. \A d \in Slots \ {c} : calls'[d].at \in {"none", "delay"}
  BY RunningLoads DEF Running, Typed, TypeOK, MachineOK
<1>2. calls'[c] = r
  BY DEF Typed, TypeOK, MachineOK
<1>3. InPhase(c)'
  BY <1>2 DEF InPhase
<1> QED
  BY <1>1, <1>3, OneSound, RunningLoads

\* The call that runs ends, or waits for its retry.
LEMMA EndsSound ==
    ASSUME Typed, Sound, NEW c \in Slots, Running(c),
           NEW r, calls' = [calls EXCEPT ![c] = r], retryCount' \in {retryCount, 0},
           r.at \in {"none", "delay"}
    PROVE  Sound'
<1>1. \A d \in Slots : calls'[d].at \in {"none", "delay"}
  BY RunningLoads DEF Running, Typed, TypeOK, MachineOK
<1> QED
  BY <1>1, NoneSound, RunningLoads

LEMMA CompleteSound ==
    ASSUME Typed, Sound, NEW c \in Slots, Running(c), Complete(c)
    PROVE  Sound'
  BY EndsSound DEF Complete, NoCall

LEMMA FailSound ==
    ASSUME Typed, Sound, NEW c \in Slots, Running(c), Fail(c)
    PROVE  Sound'
<1> DEFINE waiting == [calls[c] EXCEPT !.at = "delay"]
<1>1. waiting.at = "delay"
  BY DEF Typed, TypeOK, MachineOK, Call
<1>2. \/ calls' = [calls EXCEPT ![c] = waiting]
      \/ calls' = [calls EXCEPT ![c] = NoCall]
  BY DEF Fail
<1>3. UNCHANGED retryCount
  BY DEF Fail
<1> HIDE DEF waiting
<1> QED
  BY <1>1, <1>2, <1>3, EndsSound DEF NoCall

LEMMA SavedSound ==
    ASSUME Typed, Sound, NEW c \in Slots, Saved(c)
    PROVE  Sound'
<1> DEFINE fetching == [calls[c] EXCEPT !.at = "fetch"]
<1>1. fetching.at = "fetch"
  BY DEF Typed, TypeOK, MachineOK, Call
<1>2. calls' = [calls EXCEPT ![c] = fetching] /\ UNCHANGED retryCount
  BY DEF Saved
<1>3. Running(c)
  BY DEF Saved, Running
<1>4. st' = "fetching"
  BY Moves DEF Saved, Sound, InPhase
<1> HIDE DEF fetching
<1> QED
  BY <1>1, <1>2, <1>3, <1>4, GoesOnSound

LEMMA FetchAnsweredSound ==
    ASSUME Typed, Sound, NEW c \in Slots, FetchAnswered(c)
    PROVE  Sound'
<1> DEFINE read == [calls[c] EXCEPT !.at = "read", !.got = row[calls[c].project]]
<1>1. read.at = "read"
  BY DEF Typed, TypeOK, MachineOK, Call
<1>2. calls' = [calls EXCEPT ![c] = read] /\ UNCHANGED retryCount
  BY DEF FetchAnswered
<1>3. Running(c)
  BY DEF FetchAnswered, Running
<1>4. st' = "hydrating"
  BY Moves DEF FetchAnswered, Sound, InPhase
<1> HIDE DEF read
<1> QED
  BY <1>1, <1>2, <1>3, <1>4, GoesOnSound

LEMMA HydrationSound ==
    ASSUME Typed, Sound, NEW c \in Slots, ReadLocal(c) \/ DeleteLocal(c) \/ SaveLocal(c)
    PROVE  Sound'
<1> DEFINE save == [calls[c] EXCEPT !.at = "save"]
<1>1. Running(c)
  BY DEF ReadLocal, DeleteLocal, SaveLocal, Running
<1>2. CASE Complete(c)
  BY <1>1, <1>2, CompleteSound
<1>3. CASE /\ calls' = [calls EXCEPT ![c].at = "save"]
           /\ calls[c].at = "read"
           /\ UNCHANGED machine
  <2>1. save.at = "save"
    BY DEF Typed, TypeOK, MachineOK, Call
  <2>2. calls' = [calls EXCEPT ![c] = save]
    BY <1>3
  <2>3. st' = "hydrating" /\ UNCHANGED retryCount
    BY <1>3 DEF Sound, InPhase, machine
  <2> HIDE DEF save
  <2> QED
    BY <1>1, <2>1, <2>2, <2>3, GoesOnSound
<1> QED
  BY <1>2, <1>3 DEF ReadLocal, DeleteLocal, SaveLocal

\* RETRY counts only from error, where no load runs; the load() that follows
\* it is refused, and any other retry is the start of a load.
LEMMA RetrySound ==
    ASSUME Typed, Sound, NEW c \in Slots, Retry(c)
    PROVE  Sound'
<1>1. CASE st = "error"
  <2>1. \A d \in Slots : ~Running(d)
    BY <1>1, RunningLoads DEF IsLoading
  <2>2. \A d \in Slots : calls'[d].at \in {"none", "delay"}
    BY <1>1, <2>1 DEF Retry, Running, NoCall, Typed, TypeOK, MachineOK
  <2>3. st' = "validating"
    BY <1>1 DEF Retry
  <2> QED
    BY <2>2, <2>3, NoneSound
<1>2. CASE st # "error" /\ IsLoading(st)
  <2>1. calls' = [calls EXCEPT ![c] = NoCall] /\ UNCHANGED <<st, retryCount>>
    BY <1>2 DEF Retry
  <2>2. ~Running(c)'
    BY <2>1 DEF Running, NoCall, Typed, TypeOK, MachineOK
  <2>3. \A d \in Slots \ {c} : calls'[d] = calls[d]
    BY <2>1 DEF Typed, TypeOK, MachineOK
  <2>4. InPhase(c)'
    BY <2>1 DEF InPhase, NoCall, Typed, TypeOK, MachineOK
  <2> QED
    BY <2>1, <2>2, <2>3, <2>4 DEF Sound, OneLoad, RetryFreezes, Running, InPhase
<1>3. CASE st # "error" /\ ~IsLoading(st)
  <2>1. /\ calls[c].project \in Projects
        /\ calls[c].prev \in Projects \cup {None}
        /\ calls[c].by \in {"click", "effect"}
    BY DEF Retry, Typed, TypeOK, MachineOK, ProjectKnown, Call
  <2>2. /\ Start(c, calls[c].project, TRUE, calls[c].prev, calls[c].by)
        /\ UNCHANGED retryCount
    BY <1>3 DEF Retry
  <2> QED
    BY <1>3, <2>1, <2>2, StartSound
<1> QED
  BY <1>1, <1>2, <1>3

LEMMA SameSound ==
    ASSUME Sound, UNCHANGED <<st, retryCount, calls>>
    PROVE  Sound'
  BY DEF Sound, OneLoad, RetryFreezes, Running, InPhase

LEMMA UserSound ==
    ASSUME Typed, Sound, Effect \/ \E p \in Projects : Click(p)
    PROVE  Sound'
<1>1. projectId \in Projects \cup {None} /\ url \in Projects \cup {None} /\ force \in BOOLEAN
  BY DEF Typed, TypeOK, DataOK
<1>2. UNCHANGED retryCount
  BY DEF Effect, Click
<1>3. CASE UNCHANGED <<st, calls>>
  BY <1>2, <1>3, SameSound
<1>4. CASE ~IsLoading(st) /\ \E c \in Slots, p \in Projects, f \in BOOLEAN, b \in {"click", "effect"} :
              Start(c, p, f, projectId, b)
  BY <1>1, <1>2, <1>4, StartSound
<1>5. Effect => \/ UNCHANGED <<st, calls>>
                \/ /\ ~IsLoading(st)
                   /\ \E c \in Slots, p \in Projects : Start(c, p, force, projectId, "effect")
  BY <1>1 DEF Effect
<1>6. ASSUME NEW p \in Projects, Click(p)
      PROVE  \/ UNCHANGED <<st, calls>>
             \/ ~IsLoading(st) /\ \E c \in Slots : Start(c, p, FALSE, projectId, "click")
  BY <1>6 DEF Click
<1> QED
  BY <1>1, <1>3, <1>4, <1>5, <1>6

LEMMA RefreshSound ==
    ASSUME Refresh
    PROVE  Sound'
<1>1. \A d \in Slots : calls'[d].at \in {"none", "delay"}
  BY DEF Refresh, NoCall
<1> QED
  BY <1>1, NoneSound DEF Refresh

LEMMA SoundStep == Typed /\ Sound /\ [Next]_vars => Sound'
<1> SUFFICES ASSUME Typed, Sound, [Next]_vars PROVE Sound'
  OBVIOUS
<1>1. ASSUME NEW c \in Slots, Answer(c) \/ PutFails(c)
      PROVE  Sound'
  BY <1>1, SavedSound, FetchAnsweredSound, HydrationSound, RetrySound
  DEF Answer, PutAnswered, PutFails
<1>2. ASSUME NEW c \in Slots, FetchFails(c) \/ LocalFails(c)
      PROVE  Sound'
  <2>1. Running(c) /\ Fail(c)
    BY <1>2 DEF FetchFails, LocalFails, Running
  <2> QED
    BY <2>1, FailSound
<1>3. CASE \/ PersistDeletes \/ PersistAdds \/ Mount
           \/ \E p \in Projects, f \in BOOLEAN : Navigate(p, f)
           \/ \E e \in Edits : Edit(e)
           \/ \E o \in Others, p \in Projects : OtherWrites(o, p)
           \/ \E p \in setting.new : CreateProject(p)
           \/ UNCHANGED vars
  BY <1>3, SameSound DEF PersistDeletes, PersistAdds, Mount, Navigate, Edit, OtherWrites,
     CreateProject, vars, machine
<1>4. CASE Step
  BY <1>1, <1>2, <1>3, <1>4, UserSound, SettingTypes DEF Step, Typed, TypeOK
<1> QED
  BY <1>3, <1>4, UserSound, RefreshSound DEF Next

LEMMA AlwaysSound == Spec => []Sound
<1>1. Init => Sound
  <2> SUFFICES ASSUME Init PROVE Sound
    OBVIOUS
  <2>1. \A c \in Slots : calls[c].at = "none"
    BY DEF Init, NoCall
  <2> QED
    BY <2>1 DEF Init, Sound, OneLoad, RetryFreezes, Running, InPhase
<1>2. Sound /\ Typed /\ [Next]_vars => Sound'
  BY SoundStep
<1> QED
  BY <1>1, <1>2, Typing, PTL DEF Spec

\* However many calls of load() overlap, wait or retry, one at most runs
\* (the guard at project-loader.ts:145-151).
THEOREM OneLoadAtATime == Spec => []OneLoad
<1>1. Sound => OneLoad
  BY DEF Sound
<1> QED
  BY <1>1, AlwaysSound, PTL

\* Once a retry has been counted the machine is in validating and nothing
\* runs, until the page is loaded again (project-loader.ts:251-253).
THEOREM RetryFreezesForGood == Spec => []RetryFreezes
<1>1. Sound => RetryFreezes
  BY DEF Sound
<1> QED
  BY <1>1, AlwaysSound, PTL

-----------------------------------------------------------------------------
(* What the steps leave of the calls. *)

LEMMA StartMakes ==
    ASSUME Typed, NEW c \in Slots, NEW p \in Projects, NEW f \in BOOLEAN,
           NEW prev \in Projects \cup {None}, NEW b \in {"click", "effect"},
           Start(c, p, f, prev, b)
    PROVE  /\ \A d \in Slots : d # c => calls'[d] = calls[d]
           /\ calls'[c].at \in {"put", "fetch"}
           /\ calls'[c].project = p /\ calls'[c].force = f /\ calls'[c].prev = prev
           /\ calls'[c].at = "put" => ~f /\ prev # None /\ calls'[c].sent = doc
<1> DEFINE saves == ~f /\ (prev # None /\ prev # p) /\ doc # {}
           call == [at |-> IF saves THEN "put" ELSE "fetch", project |-> p, force |-> f,
                    prev |-> prev, by |-> b, sent |-> IF saves THEN doc ELSE {}, got |-> {}]
<1>1. calls' = [calls EXCEPT ![c] = call]
  BY DEF Start
<1>2. /\ call.at = IF saves THEN "put" ELSE "fetch"
      /\ call.project = p /\ call.force = f /\ call.prev = prev
      /\ call.sent = IF saves THEN doc ELSE {}
  OBVIOUS
<1> HIDE DEF call
<1>3. calls'[c] = call /\ \A d \in Slots : d # c => calls'[d] = calls[d]
  BY <1>1 DEF Typed, TypeOK, MachineOK
<1> QED
  BY <1>2, <1>3

LEMMA MovedMakes ==
    ASSUME Typed, NEW c \in Slots, NEW at, calls' = [calls EXCEPT ![c].at = at]
    PROVE  /\ \A d \in Slots : d # c => calls'[d] = calls[d]
           /\ calls'[c].at = at
           /\ calls'[c].project = calls[c].project /\ calls'[c].prev = calls[c].prev
           /\ calls'[c].force = calls[c].force
           /\ calls'[c].sent = calls[c].sent /\ calls'[c].got = calls[c].got
  BY DEF Typed, TypeOK, MachineOK, Call

LEMMA FreedMakes ==
    ASSUME Typed, NEW c \in Slots, calls' = [calls EXCEPT ![c] = NoCall]
    PROVE  /\ \A d \in Slots : d # c => calls'[d] = calls[d]
           /\ calls'[c].at = "none" /\ ~calls'[c].force
  BY DEF Typed, TypeOK, MachineOK, NoCall

\* What is left of the faults never exceeds what there was, and the setting stays.
FaultsLeft == \A k \in FaultKind : faults[k] <= setting.fails[k]

LEMMA FaultsStep ==
    ASSUME Typed, [Next]_vars
    PROVE  UNCHANGED setting /\ (UNCHANGED faults \/ \E k \in FaultKind : Suffer(k))
<1>1. ASSUME NEW c \in Slots, Answer(c)
      PROVE  UNCHANGED faults
  BY <1>1 DEF Answer, PutAnswered, FetchAnswered, ReadLocal, DeleteLocal, SaveLocal, Retry
<1>2. ASSUME NEW c \in Slots, PutFails(c) \/ FetchFails(c) \/ LocalFails(c)
      PROVE  \E k \in FaultKind : Suffer(k)
  BY <1>2 DEF PutFails, FetchFails, LocalFails, FaultKind
<1>3. Refresh => UNCHANGED setting /\ \E k \in FaultKind : Suffer(k)
  BY DEF Refresh, FaultKind
<1>4. Step => UNCHANGED faults \/ \E k \in FaultKind : Suffer(k)
  BY <1>1, <1>2 DEF Step, Click, Navigate, Edit, PersistDeletes, PersistAdds, OtherWrites
<1>5. Effect \/ Mount \/ (\E p \in setting.new : CreateProject(p)) \/ UNCHANGED vars
        => UNCHANGED <<faults, setting>>
  BY DEF Effect, Mount, CreateProject, vars
<1> QED
  BY <1>3, <1>4, <1>5 DEF Next, Rerender

LEMMA FaultsAlwaysLeft == Spec => []FaultsLeft
<1>1. Init => FaultsLeft
  <2> SUFFICES ASSUME Init, NEW k \in FaultKind PROVE faults[k] <= setting.fails[k]
    BY DEF FaultsLeft
  <2>1. setting.fails[k] \in Nat /\ faults[k] = setting.fails[k]
    BY SettingTypes DEF Init
  <2> QED BY <2>1, SMT
<1>2. ASSUME Typed, FaultsLeft, [Next]_vars
      PROVE  FaultsLeft'
  <2>1. setting.fails \in [FaultKind -> Nat] /\ faults \in [FaultKind -> Nat]
    BY <1>2, SettingTypes DEF Typed, TypeOK
  <2> SUFFICES ASSUME NEW k \in FaultKind PROVE faults'[k] <= setting.fails[k]
    BY <1>2, FaultsStep DEF FaultsLeft
  <2>2. faults'[k] \in Nat
    BY <1>2, TypesStep DEF Typed, TypeOK
  <2>3. faults'[k] <= faults[k]
    <3>1. ASSUME NEW l \in FaultKind, Suffer(l)
          PROVE  faults'[k] <= faults[k]
      BY <2>1, <3>1, SMT DEF Suffer
    <3>2. CASE UNCHANGED faults
      BY <2>1, <3>2, SMT
    <3> QED BY <1>2, <3>1, <3>2, FaultsStep
  <2>4. faults[k] <= setting.fails[k]
    BY <1>2 DEF FaultsLeft
  <2> QED BY <2>1, <2>2, <2>3, <2>4, SMT
<1> QED
  BY <1>1, <1>2, Typing, PTL DEF Spec

\* A kind of fault nothing has been suffered of was not suffered of before.
LEMMA NotSuffered ==
    ASSUME Typed, FaultsLeft, [Next]_vars, NEW k \in FaultKind,
           faults'[k] = setting'.fails[k]
    PROVE  faults[k] = setting.fails[k] /\ ~Suffer(k)
<1>1. setting.fails \in [FaultKind -> Nat] /\ faults \in [FaultKind -> Nat]
  BY SettingTypes DEF Typed, TypeOK
<1>2. faults[k] <= setting.fails[k] /\ faults'[k] = setting.fails[k]
  BY FaultsStep DEF FaultsLeft
<1>3. ASSUME NEW l \in FaultKind, Suffer(l)
      PROVE  faults'[k] <= faults[k] /\ (l = k => faults'[k] = faults[k] - 1)
  BY <1>1, <1>3, SMT DEF Suffer
<1>4. CASE UNCHANGED faults
  <2>1. ~Suffer(k)
    BY <1>1, <1>3, <1>4, SMT
  <2> QED BY <1>2, <1>4, <2>1
<1>5. ASSUME NEW l \in FaultKind, Suffer(l)
      PROVE  faults[k] = setting.fails[k] /\ ~Suffer(k)
  <2>1. faults'[k] <= faults[k]
    BY <1>3, <1>5
  <2>2. faults[k] = setting.fails[k]
    BY <1>1, <1>2, <2>1, SMT
  <2>3. ~Suffer(k)
    BY <1>1, <1>2, <1>3, <2>2, SMT
  <2> QED BY <2>2, <2>3
<1> QED
  BY <1>4, <1>5, FaultsStep

-----------------------------------------------------------------------------
(* The load that runs is of the project chosen last. *)

NoneFails == \A c \in Slots : ~FetchFails(c) /\ ~LocalFails(c)

LEMMA NoneFailed ==
    ASSUME Typed, FaultsLeft, [Next]_vars, Unfailed'
    PROVE  Unfailed /\ NoneFails
<1>1. \A k \in {"fetch", "local"} : k \in FaultKind
  BY DEF FaultKind
<1> QED
  BY <1>1, NotSuffered DEF Unfailed, NoneFails, FetchFails, LocalFails

LEMMA StartChoice ==
    ASSUME Typed, Sound, ChoiceInv, NEW c \in Slots, NEW p \in Projects, NEW f \in BOOLEAN,
           NEW prev \in Projects \cup {None}, NEW b \in {"click", "effect"},
           Start(c, p, f, prev, b), ~IsLoading(st), UNCHANGED retryCount, choice' = p
    PROVE  ChoiceInv'
<1>1. \A d \in Slots : ~Running(d)
  BY RunningLoads
<1>2. Running(c)'
  BY StartMakes DEF Running
<1>3. st' # "loaded"
  <2>1. Sound'
    BY StartSound
  <2> QED
    BY <1>2, <2>1, StartMakes DEF Sound, InPhase
<1> QED
  BY <1>1, <1>3, StartMakes DEF ChoiceInv, ChoiceStands, Running

LEMMA SameChoice ==
    ASSUME ChoiceInv, UNCHANGED <<st, loadedProjectId, calls, choice>>
    PROVE  ChoiceInv'
  BY DEF ChoiceInv, ChoiceStands, Running

\* The load goes on to its next await, or ends with its project loaded.
LEMMA AnswerChoice ==
    ASSUME Typed, Sound, ChoiceInv, NEW c \in Slots, Answer(c) \/ PutFails(c)
    PROVE  ChoiceInv'
<1>0. calls[c].at # "delay"
  BY DEF ChoiceInv
<1>1. Running(c) /\ UNCHANGED choice
  BY <1>0 DEF Answer, PutAnswered, PutFails, Saved, FetchAnswered, ReadLocal, DeleteLocal,
     SaveLocal, Retry, Running, past
<1>2. calls[c].project = choice /\ \A d \in Slots \ {c} : ~Running(d)
  BY <1>1, RunningLoads DEF ChoiceInv
<1>3. ASSUME NEW at \in {"fetch", "save"}, calls' = [calls EXCEPT ![c].at = at],
             st' # "loaded"
      PROVE  ChoiceInv'
  BY <1>1, <1>2, <1>3, MovedMakes DEF ChoiceInv, ChoiceStands, Running
<1>4. CASE Saved(c)
  BY <1>3, <1>4, Moves DEF Saved, Sound, InPhase
<1>5. CASE FetchAnswered(c)
  <2>1. calls'[c].at = "read" /\ calls'[c].project = calls[c].project
    BY <1>5 DEF FetchAnswered, Typed, TypeOK, MachineOK, Call
  <2>2. \A d \in Slots : d # c => calls'[d] = calls[d]
    BY <1>5 DEF FetchAnswered, Typed, TypeOK, MachineOK
  <2>3. st' = "hydrating"
    BY <1>5, Moves DEF FetchAnswered, Sound, InPhase
  <2> QED
    BY <1>1, <1>2, <2>1, <2>2, <2>3 DEF ChoiceInv, ChoiceStands, Running
<1>6. CASE Complete(c)
  <2>1. loadedProjectId' = choice'
    BY <1>1, <1>2, <1>6 DEF Complete
  <2>2. calls' = [calls EXCEPT ![c] = NoCall]
    BY <1>6 DEF Complete
  <2> QED
    BY <1>2, <2>1, <2>2, FreedMakes DEF ChoiceInv, ChoiceStands, Running
<1>7. CASE calls' = [calls EXCEPT ![c].at = "save"] /\ calls[c].at = "read" /\ UNCHANGED machine
  BY <1>3, <1>7 DEF Sound, InPhase, machine
<1>8. Retry(c) => FALSE
  BY <1>0 DEF Retry
<1> QED
  BY <1>4, <1>5, <1>6, <1>7, <1>8
  DEF Answer, PutAnswered, PutFails, ReadLocal, DeleteLocal, SaveLocal

LEMMA ChoiceStep ==
    ASSUME Typed, Sound, NoneFails, ChoiceInv, [Next]_vars
    PROVE  ChoiceInv'
<1>0. projectId \in Projects \cup {None} /\ url \in Projects \cup {None} /\ force \in BOOLEAN
  BY DEF Typed, TypeOK, DataOK
<1>1. ASSUME NEW p \in Projects, Click(p)
      PROVE  ChoiceInv'
  <2>1. CASE IsProjectLoaded(p) /\ UNCHANGED <<st, calls>>
    <3>1. \A d \in Slots : ~Running(d)
      BY <2>1, RunningLoads DEF IsProjectLoaded, IsLoading
    <3> QED
      BY <1>1, <2>1, <3>1 DEF Click, IsProjectLoaded, ChoiceInv, ChoiceStands, Running
  <2>2. CASE ~IsLoading(st) /\ \E c \in Slots : Start(c, p, FALSE, projectId, "click")
    BY <1>0, <1>1, <2>2, StartChoice DEF Click
  <2> QED
    BY <1>1, <2>1, <2>2 DEF Click
<1>2. CASE Effect
  <2>1. CASE UNCHANGED <<st, calls, choice>>
    BY <1>2, <2>1, SameChoice DEF Effect
  <2>2. CASE \E c \in Slots, p \in Projects : /\ ~IsLoading(st)
                                              /\ Start(c, p, force, projectId, "effect")
                                              /\ choice' = p
    BY <1>0, <1>2, <2>2, StartChoice DEF Effect
  <2> QED
    BY <1>0, <1>2, <2>1, <2>2 DEF Effect
<1>3. CASE \/ PersistDeletes \/ PersistAdds \/ Mount
           \/ \E p \in Projects, f \in BOOLEAN : Navigate(p, f)
           \/ \E e \in Edits : Edit(e)
           \/ \E o \in Others, p \in Projects : OtherWrites(o, p)
           \/ \E p \in setting.new : CreateProject(p)
           \/ UNCHANGED vars
  BY <1>3, SameChoice DEF PersistDeletes, PersistAdds, Mount, Navigate, Edit, OtherWrites,
     CreateProject, vars, machine, past
<1>4. CASE Refresh
  BY <1>4 DEF Refresh, ChoiceInv, ChoiceStands, Running, NoCall
<1>5. CASE Step
  BY <1>1, <1>3, <1>5, AnswerChoice, SettingTypes DEF Step, NoneFails, Typed, TypeOK
<1> QED
  BY <1>2, <1>3, <1>4, <1>5 DEF Next

\* As long as no fetch and no hydration fails, the project loaded is the last one the user
\* had accepted, whatever is clicked, linked, created or reloaded, by a patient user or not
\* (load() and its guard, project-loader.ts:119-263).
THEOREM LastChoiceLoaded == Spec => []UnfailedChoiceStands
<1> DEFINE Inv == Unfailed => ChoiceInv
<1>1. Init => Inv
  BY DEF Init, ChoiceInv, ChoiceStands, Running, NoCall
<1>2. Typed /\ FaultsLeft /\ Sound /\ Inv /\ [Next]_vars => Inv'
  BY ChoiceStep, NoneFailed
<1>3. Inv => UnfailedChoiceStands
  BY DEF ChoiceInv, UnfailedChoiceStands
<1> HIDE DEF Inv
<1> QED
  BY <1>1, <1>2, <1>3, Typing, AlwaysSound, FaultsAlwaysLeft, PTL DEF Spec

-----------------------------------------------------------------------------
(* Nothing stored mixes two projects. *)

NothingDisturbs == ~Refresh /\ \A c \in Slots : ~LocalFails(c)

LEMMA NothingDisturbed ==
    ASSUME Typed, FaultsLeft, [Next]_vars, Undisturbed'
    PROVE  Undisturbed /\ NothingDisturbs
<1>1. \A k \in {"local", "refresh"} : k \in FaultKind
  BY DEF FaultKind
<1>2. setting.blank = {}
  BY FaultsStep DEF Undisturbed
<1> QED
  BY <1>1, <1>2, NotSuffered DEF Undisturbed, NothingDisturbs, Refresh, LocalFails

LEMMA SameStored ==
    ASSUME StoredHome, UNCHANGED <<local, row, pending, writing>>
    PROVE  StoredHome'
  BY DEF StoredHome, HomeKept

LEMMA SameHome ==
    ASSUME HomeInv, StoredHome', UNCHANGED <<calls, store, loadedProjectId>>
    PROVE  HomeInv'
  BY DEF HomeInv, CallHome, OpenHome, store

\* What is stored for a project: in IndexedDB under its name, in its row.
LEMMA StoredMade ==
    ASSUME Typed, StoredHome, NEW p \in Projects
    PROVE  /\ MadeFor(p, local[NameOf[p]])
           /\ row[p] # Absent
           /\ MadeFor(p, row[p])
<1>1. ASSUME NEW i \in local[NameOf[p]]
      PROVE  NameOf[i.home] = NameOf[p]
  <2>1. NameOf[p] \in Names /\ local[NameOf[p]] \in SUBSET Item
    BY NameTypes DEF Typed, TypeOK, DataOK
  <2>2. i.home \in Projects
    BY <2>1 DEF Item
  <2> QED
    BY <2>1, <2>2 DEF StoredHome, HomeKept
<1> QED
  BY <1>1 DEF MadeFor, StoredHome, HomeKept, Items

\* While nothing is hydrated, the store is the open project's.
LEMMA QuietHome ==
    ASSUME Typed, Sound, HomeInv, ~IsLoading(st)
    PROVE  OpenHome
<1>1. \A c \in Slots : calls[c].at # "save"
  BY RunningLoads DEF Running
<1> QED
  BY <1>1 DEF HomeInv

\* A load that starts takes the store for the project it leaves.
LEMMA StartHome ==
    ASSUME Typed, Sound, HomeInv, NEW c \in Slots, NEW p \in Projects, NEW f \in BOOLEAN,
           NEW prev \in Projects \cup {None}, NEW b \in {"click", "effect"},
           Start(c, p, f, prev, b), ~IsLoading(st), f \/ prev = projectId,
           UNCHANGED <<store, loadedProjectId, local, row, pending, writing>>
    PROVE  HomeInv'
<1>1. OpenHome
  BY QuietHome
<1>2. StoredHome'
  BY SameStored DEF HomeInv
<1>3. \A d \in Slots : d # c => CallHome(d)'
  BY StartMakes DEF HomeInv, CallHome, store
<1>4. CallHome(c)'
  BY <1>1, StartMakes DEF CallHome, OpenHome
<1>5. OpenHome'
  BY <1>1 DEF OpenHome, store
<1> QED
  BY <1>2, <1>3, <1>4, <1>5 DEF HomeInv, store

\* The call c, which was at no save, goes on and changes no data of the page.
LEMMA MovedHome ==
    ASSUME Typed, HomeInv, NEW c \in Slots, calls[c].at # "save",
           \A d \in Slots : d # c => calls'[d] = calls[d],
           UNCHANGED <<store, loadedProjectId>>,
           StoredHome', CallHome(c)'
    PROVE  HomeInv'
<1>1. \A d \in Slots : d # c => CallHome(d)'
  BY DEF HomeInv, CallHome, store
<1>2. (\A d \in Slots : calls'[d].at # "save") => OpenHome'
  BY DEF HomeInv, OpenHome, store
<1> QED
  BY <1>1, <1>2 DEF HomeInv, store

LEMMA PutHome ==
    ASSUME Typed, HomeInv, NEW c \in Slots, PutAnswered(c) \/ PutFails(c)
    PROVE  HomeInv'
<1>1. /\ calls[c].at = "put"
      /\ calls' = [calls EXCEPT ![c].at = "fetch"]
      /\ UNCHANGED <<store, loadedProjectId, local, pending, writing>>
      /\ Applied(c) \/ UNCHANGED row
  BY DEF PutAnswered, PutFails, Saved, persistence
<1>2. calls[c].sent \in SUBSET Item /\ MadeFor(calls[c].prev, calls[c].sent)
  BY <1>1, ContentTypes DEF HomeInv, CallHome
<1>3. ASSUME NEW p \in Projects
      PROVE  row'[p] # Absent /\ \A i \in Items(row'[p]) : NameOf[i.home] = NameOf[p]
  <2>1. row'[p] = row[p] \/ (p = calls[c].prev /\ row'[p] = calls[c].sent)
    BY <1>1 DEF Applied, Typed, TypeOK, DataOK
  <2>2. CASE row'[p] = row[p]
    BY <2>2 DEF HomeInv, StoredHome, HomeKept
  <2>3. CASE p = calls[c].prev /\ row'[p] = calls[c].sent
    BY <1>2, <2>3, AbsentAssumption DEF MadeFor, Items
  <2> QED
    BY <2>1, <2>2, <2>3
<1>4. StoredHome'
  BY <1>1, <1>3 DEF HomeInv, StoredHome, HomeKept
<1>5. /\ \A d \in Slots : d # c => calls'[d] = calls[d]
      /\ calls'[c].at = "fetch"
  BY <1>1, MovedMakes
<1>6. CallHome(c)'
  BY <1>5 DEF CallHome
<1> QED
  BY <1>1, <1>4, <1>5, <1>6, MovedHome

LEMMA FetchHome ==
    ASSUME Typed, HomeInv, NEW c \in Slots, FetchAnswered(c)
    PROVE  HomeInv'
<1>1. StoredHome'
  BY SameStored DEF FetchAnswered, HomeInv, persistence
<1>2. /\ \A d \in Slots : d # c => calls'[d] = calls[d]
      /\ calls'[c].at = "read"
      /\ calls'[c].project = calls[c].project
      /\ calls'[c].got = row[calls[c].project]
  BY DEF FetchAnswered, Typed, TypeOK, MachineOK, Call
<1>3. calls[c].project \in Projects
  BY ContentTypes DEF FetchAnswered
<1>4. CallHome(c)'
  BY <1>2, <1>3, StoredMade DEF CallHome, HomeInv
<1> QED
  BY <1>1, <1>2, <1>4, MovedHome DEF FetchAnswered

LEMMA FailHome ==
    ASSUME Typed, HomeInv, NEW c \in Slots, FetchFails(c)
    PROVE  HomeInv'
<1>1. /\ calls' = [calls EXCEPT ![c].at = "delay"] \/ calls' = [calls EXCEPT ![c] = NoCall]
      /\ calls[c].at = "fetch"
      /\ UNCHANGED <<store, loadedProjectId, local, row, pending, writing>>
  BY DEF FetchFails, Fail, persistence
<1>2. StoredHome'
  BY <1>1, SameStored DEF HomeInv
<1>3. /\ \A d \in Slots : d # c => calls'[d] = calls[d]
      /\ calls'[c].at \in {"delay", "none"}
  BY <1>1, MovedMakes, FreedMakes
<1>4. CallHome(c)'
  BY <1>3 DEF CallHome
<1> QED
  BY <1>1, <1>2, <1>3, <1>4, MovedHome

\* The load ends with what was made for its project in the store.
LEMMA CompleteHome ==
    ASSUME Typed, Sound, HomeInv, NEW c \in Slots, Running(c), Complete(c),
           StoredHome', MadeFor(calls[c].project, doc')
    PROVE  HomeInv'
<1>1. /\ \A d \in Slots : d # c => calls'[d] = calls[d]
      /\ calls'[c].at = "none"
  BY FreedMakes DEF Complete
<1>2. \A d \in Slots : calls'[d].at \in {"none", "delay"}
  BY <1>1, RunningLoads DEF Running
<1>3. \A d \in Slots : CallHome(d)'
  BY <1>2 DEF CallHome
<1>4. OpenHome' /\ loadedProjectId' = projectId'
  BY DEF Complete, OpenHome
<1> QED
  BY <1>3, <1>4 DEF HomeInv

LEMMA HydrationHome ==
    ASSUME Typed, Sound, HomeInv, NEW c \in Slots,
           ReadLocal(c) \/ DeleteLocal(c) \/ SaveLocal(c)
    PROVE  HomeInv'
<1> DEFINE p == calls[c].project
<1>1. Running(c) /\ p \in Projects /\ NameOf[p] \in Names
  BY ContentTypes DEF ReadLocal, DeleteLocal, SaveLocal, Running
<1>2. calls[c].got # Absent /\ MadeFor(p, calls[c].got)
  BY DEF ReadLocal, DeleteLocal, SaveLocal, HomeInv, CallHome
<1>3. MadeFor(p, doc')
  <2>1. CASE SaveLocal(c)
    BY <2>1 DEF SaveLocal, HomeInv, CallHome
  <2>2. CASE ReadLocal(c) \/ DeleteLocal(c)
    <3>1. doc' \in {local[NameOf[p]], calls[c].got}
      BY <1>2, <2>2 DEF ReadLocal, DeleteLocal, Preferred, Contents
    <3> QED
      BY <1>1, <1>2, <3>1, StoredMade DEF HomeInv
  <2> QED
    BY <2>1, <2>2
<1>4. StoredHome'
  <2>1. UNCHANGED <<row, pending, writing>>
    BY DEF ReadLocal, DeleteLocal, SaveLocal, persistence
  <2>2. ASSUME NEW n \in Names, NEW i \in local'[n]
        PROVE  NameOf[i.home] = n
    <3>1. \/ i \in local[n]
          \/ n = NameOf[p] /\ i \in calls[c].got
      BY <1>2, <2>2 DEF ReadLocal, DeleteLocal, SaveLocal, Items, Typed, TypeOK, DataOK
    <3> QED
      BY <1>2, <3>1 DEF HomeInv, StoredHome, HomeKept, MadeFor
  <2> QED
    BY <2>1, <2>2 DEF HomeInv, StoredHome, HomeKept
<1>5. CASE Complete(c)
  BY <1>1, <1>3, <1>4, <1>5, CompleteHome
<1>6. CASE /\ calls' = [calls EXCEPT ![c].at = "save"]
           /\ name' = NameOf[p]
           /\ UNCHANGED <<machine, projectId>>
  <2>1. /\ \A d \in Slots : d # c => calls'[d] = calls[d] /\ ~Running(d)
        /\ calls'[c].at = "save"
        /\ calls'[c].project = p
        /\ calls'[c].got = calls[c].got
    BY <1>1, <1>6, MovedMakes, RunningLoads
  <2>2. CallHome(c)'
    BY <1>2, <1>3, <1>6, <2>1 DEF CallHome
  <2>3. \A d \in Slots : d # c => CallHome(d)'
    BY <2>1 DEF CallHome, Running
  <2> QED
    BY <1>4, <1>6, <2>1, <2>2, <2>3 DEF HomeInv, machine
<1> QED
  BY <1>5, <1>6 DEF ReadLocal, DeleteLocal, SaveLocal

LEMMA RetryHome ==
    ASSUME Typed, Sound, HomeInv, NEW c \in Slots, Retry(c)
    PROVE  HomeInv'
<1>1. /\ calls[c].at = "delay"
      /\ UNCHANGED <<store, loadedProjectId, local, row, pending, writing>>
  BY DEF Retry, persistence
<1>2. CASE calls' = [calls EXCEPT ![c] = NoCall]
  <2>1. /\ \A d \in Slots : d # c => calls'[d] = calls[d]
        /\ calls'[c].at = "none"
    BY <1>2, FreedMakes
  <2>2. CallHome(c)'
    BY <2>1 DEF CallHome
  <2>3. StoredHome'
    BY <1>1, SameStored DEF HomeInv
  <2> QED
    BY <1>1, <2>1, <2>2, <2>3, MovedHome
<1>3. CASE /\ ~IsLoading(st)
           /\ Start(c, calls[c].project, TRUE, calls[c].prev, calls[c].by)
  <2>1. /\ calls[c].project \in Projects
        /\ calls[c].prev \in Projects \cup {None}
        /\ calls[c].by \in {"click", "effect"}
    BY <1>1 DEF Typed, TypeOK, MachineOK, ProjectKnown, Call
  <2> QED
    BY <1>1, <1>3, <2>1, StartHome
<1> QED
  BY <1>2, <1>3 DEF Retry

\* A click on the open project finds its id and its name as they are.
LEMMA ClickHome ==
    ASSUME Typed, Sound, HomeInv, NEW p \in Projects, Click(p)
    PROVE  HomeInv'
<1>1. /\ projectId \in Projects \cup {None}
      /\ UNCHANGED <<doc, loadedProjectId, local, row, pending, writing>>
  BY DEF Click, Typed, TypeOK, DataOK, persistence
<1>2. CASE IsProjectLoaded(p) /\ Opened(p) /\ UNCHANGED calls
  <2>1. projectId' = projectId /\ name' = NameOf[p]
    BY <1>2 DEF IsProjectLoaded, Opened, HomeInv
  <2>2. OpenHome
    BY <1>2, QuietHome DEF IsProjectLoaded, IsLoading
  <2>3. name' = name
    BY <1>2, <2>1, <2>2, LoaderAssumption DEF OpenHome, Opened
  <2>4. StoredHome'
    BY <1>1, SameStored DEF HomeInv
  <2> QED
    BY <1>1, <1>2, <2>1, <2>3, <2>4, SameHome DEF store
<1>3. CASE /\ ~IsLoading(st)
           /\ \E c \in Slots : Start(c, p, FALSE, projectId, "click")
           /\ UNCHANGED <<projectId, name>>
  BY <1>1, <1>3, StartHome DEF store
<1> QED
  BY <1>2, <1>3 DEF Click

LEMMA EffectHome ==
    ASSUME Typed, Sound, HomeInv, Effect
    PROVE  HomeInv'
<1>1. /\ projectId \in Projects \cup {None}
      /\ url \in Projects \cup {None}
      /\ force \in BOOLEAN
      /\ UNCHANGED <<store, loadedProjectId, local, row, pending, writing>>
  BY DEF Effect, Typed, TypeOK, DataOK, persistence
<1>2. CASE UNCHANGED calls
  BY <1>1, <1>2, SameStored, SameHome DEF HomeInv
<1>3. CASE \E c \in Slots, p \in Projects : /\ ~IsLoading(st)
                                            /\ Start(c, p, force, projectId, "effect")
  BY <1>1, <1>3, StartHome
<1> QED
  BY <1>1, <1>2, <1>3 DEF Effect

LEMMA EditHome ==
    ASSUME Typed, Sound, HomeInv, NEW e \in Edits, Edit(e)
    PROVE  HomeInv'
<1> DEFINE item == [home |-> projectId, what |-> e]
<1>1. OpenHome /\ projectId # None
  BY QuietHome DEF Edit
<1>2. \A c \in Slots : ~Running(c)
  BY RunningLoads DEF Edit
<1>3. doc' = doc \cup {item} /\ item.home = projectId
  BY DEF Edit
<1> HIDE DEF item
<1>4. MadeFor(projectId, doc')
  BY <1>1, <1>3 DEF OpenHome, MadeFor
<1>5. pending' = [name |-> name, data |-> doc']
  BY DEF Edit, Scheduled
<1>6. Held(pending') \subseteq doc' /\ pending'.name = NameOf[projectId]
  BY <1>1, <1>5 DEF Held, OpenHome
<1>7. StoredHome'
  BY <1>4, <1>6 DEF HomeInv, StoredHome, HomeKept, MadeFor, Edit
<1>8. OpenHome'
  BY <1>1, <1>4 DEF OpenHome, Edit
<1>9. \A c \in Slots : CallHome(c)'
  BY <1>2 DEF CallHome, Running, Edit
<1> QED
  BY <1>7, <1>8, <1>9 DEF HomeInv, Edit, machine

LEMMA PersistHome ==
    ASSUME Typed, HomeInv, PersistDeletes \/ PersistAdds
    PROVE  HomeInv'
<1>1. UNCHANGED <<calls, store, loadedProjectId, row>>
  BY DEF PersistDeletes, PersistAdds, machine
<1>2. \A w \in {pending', writing'} : w = None \/ w \in {pending, writing}
  BY DEF PersistDeletes, PersistAdds
<1>3. ASSUME NEW w \in {pending', writing'}, NEW i \in Held(w)
      PROVE  NameOf[i.home] = w.name
  BY <1>2, <1>3 DEF HomeInv, StoredHome, Held
<1>4. ASSUME NEW n \in Names, NEW i \in local'[n]
      PROVE  NameOf[i.home] = n
  <2>1. \/ i \in local[n]
        \/ writing # None /\ n = writing.name /\ i \in Held(writing)
    BY <1>4 DEF PersistDeletes, PersistAdds, Held, Typed, TypeOK, DataOK
  <2> QED
    BY <2>1 DEF HomeInv, StoredHome, HomeKept
<1>5. StoredHome'
  BY <1>1, <1>3, <1>4 DEF HomeInv, StoredHome, HomeKept
<1> QED
  BY <1>1, <1>5, SameHome

LEMMA OtherWritesHome ==
    ASSUME Typed, HomeInv, NEW o \in Others, NEW p \in Projects, OtherWrites(o, p)
    PROVE  HomeInv'
<1> DEFINE item == [home |-> p, what |-> o]
<1>1. /\ UNCHANGED <<calls, store, loadedProjectId, local, pending, writing>>
      /\ row' = [row EXCEPT ![p] = row[p] \cup {item}]
      /\ row[p] # Absent
  BY DEF OtherWrites, machine, persistence
<1>2. item \in Item /\ item.home = p
  BY DEF Item
<1> HIDE DEF item
<1>3. row[p] \in SUBSET Item
  BY <1>1 DEF Typed, TypeOK, DataOK, Configuration
<1>4. ASSUME NEW q \in Projects
      PROVE  row'[q] # Absent /\ \A i \in Items(row'[q]) : NameOf[i.home] = NameOf[q]
  <2>1. CASE q = p
    <3>1. row'[q] = row[p] \cup {item}
      BY <1>1, <2>1 DEF Typed, TypeOK, DataOK
    <3>2. row'[q] \in SUBSET Item
      BY <1>2, <1>3, <3>1
    <3>3. \A i \in row[p] : NameOf[i.home] = NameOf[p]
      BY <1>1 DEF HomeInv, StoredHome, HomeKept, Items
    <3> QED
      BY <1>2, <2>1, <3>1, <3>2, <3>3, AbsentAssumption DEF Items
  <2>2. CASE q # p
    <3>1. row'[q] = row[q]
      BY <1>1, <2>2 DEF Typed, TypeOK, DataOK
    <3> QED
      BY <3>1 DEF HomeInv, StoredHome, HomeKept
  <2> QED
    BY <2>1, <2>2
<1>5. StoredHome'
  BY <1>1, <1>4 DEF HomeInv, StoredHome, HomeKept
<1> QED
  BY <1>1, <1>5, SameHome

LEMMA HomeStep ==
    ASSUME Typed, Sound, Undisturbed, NothingDisturbs, HomeInv, [Next]_vars
    PROVE  HomeInv'
<1>1. ASSUME NEW c \in Slots, Answer(c) \/ PutFails(c) \/ FetchFails(c) \/ LocalFails(c)
      PROVE  HomeInv'
  BY <1>1, PutHome, FetchHome, HydrationHome, RetryHome, FailHome DEF Answer, NothingDisturbs
<1>2. CASE \/ Mount
           \/ \E p \in Projects, f \in BOOLEAN : Navigate(p, f)
           \/ UNCHANGED vars
  <2>1. UNCHANGED <<calls, store, loadedProjectId, local, row, pending, writing>>
    BY <1>2 DEF Mount, Navigate, vars, machine, persistence, store
  <2> QED
    BY <2>1, SameStored, SameHome DEF HomeInv
<1>3. CASE Step
  BY <1>1, <1>2, <1>3, ClickHome, EditHome, PersistHome, OtherWritesHome, SettingTypes
  DEF Step, Typed, TypeOK
<1>4. setting.new = {}
  BY SettingTypes DEF Undisturbed, Typed, TypeOK
<1> QED
  BY <1>2, <1>3, <1>4, EffectHome DEF Next, NothingDisturbs

\* As long as every project has had its lists from the start, IndexedDB answers and the
\* page is not loaded again, nothing made for one project is stored under another of a
\* different name, in IndexedDB or in the other's row, by the save before a load, the timer
\* of an edit or a hydration: however hasty the user and whatever the requests do
\* (project-loader.ts:165-215, 348-574).
THEOREM NothingMixed == Spec => []UndisturbedHomeKept
<1> DEFINE Inv == Undisturbed => HomeInv
<1>1. Init => Inv
  <2> SUFFICES ASSUME Init, setting.blank = {} PROVE HomeInv
    BY DEF Undisturbed
  <2>1. \A p \in Projects : row[p] = {First(p)} /\ First(p) \in Item /\ First(p).home = p
    BY DEF Init, First, Item
  <2>2. StoredHome
    BY <2>1, AbsentAssumption DEF Init, StoredHome, HomeKept, Items, Held
  <2>3. \A c \in Slots : CallHome(c)
    BY DEF Init, CallHome, NoCall
  <2>4. OpenHome
    BY DEF Init, OpenHome, MadeFor
  <2> QED
    BY <2>2, <2>3, <2>4 DEF Init, HomeInv
<1>2. Typed /\ FaultsLeft /\ Sound /\ Inv /\ [Next]_vars => Inv'
  BY HomeStep, NothingDisturbed
<1>3. Inv => UndisturbedHomeKept
  BY DEF HomeInv, StoredHome, UndisturbedHomeKept
<1> HIDE DEF Inv
<1> QED
  BY <1>1, <1>2, <1>3, Typing, AlwaysSound, FaultsAlwaysLeft, PTL DEF Spec

-----------------------------------------------------------------------------
(* No edit is lost, none is hidden by opening its project. *)

LEMMA StillPatient ==
    ASSUME Typed, FaultsLeft, [Next]_vars, Patient'
    PROVE  Patient /\ NoneFails
  BY FaultsStep, NoneFailed DEF Patient

\* Before a user's next move, and while a project is loaded, every edit is in IndexedDB.
LEMMA Settled ==
    ASSUME Patient, EditsInv, Patience \/ due \/ st # "loaded"
    PROVE  /\ pending = None
           /\ writing = None
           /\ \A i \in made : i \in local[NameOf[i.home]]
  BY DEF Patient, EditsInv, WriteEdits, StoredEdits, Patience

\* A step in which a load starts or goes on.
LEMMA LoadingEdits ==
    ASSUME EditsInv, pending = None, writing = None, UNCHANGED <<force, persistence, made>>,
           st' \notin {"idle", "error", "loaded"},
           \A i \in made : i \in local'[NameOf[i.home]],
           \A c \in Slots : CallEdits(c)'
    PROVE  EditsInv'
<1>1. MachineEdits' /\ LoadedEdits'
  BY DEF EditsInv, MachineEdits, LoadedEdits
<1>2. WriteEdits' /\ StoredEdits'
  BY DEF WriteEdits, StoredEdits, persistence
<1> QED
  BY <1>1, <1>2 DEF EditsInv

LEMMA StartEdits ==
    ASSUME Typed, Sound, Patient, EditsInv, NEW c \in Slots, NEW p \in Projects,
           NEW f \in BOOLEAN, NEW prev \in Projects \cup {None}, NEW b \in {"click", "effect"},
           Start(c, p, f, prev, b), f = FALSE, ~IsLoading(st), Patience \/ due,
           UNCHANGED <<retryCount, force, doc, persistence, local, made>>
    PROVE  EditsInv'
<1>1. Sound'
  BY StartSound
<1>2. /\ \A d \in Slots : d # c => calls'[d] = calls[d]
      /\ calls'[c].at \in {"put", "fetch"}
      /\ calls'[c].force = f
  BY StartMakes
<1>3. st' \in {"saving-current", "fetching"}
  BY <1>1, <1>2 DEF Sound, InPhase
<1>4. \A d \in Slots : CallEdits(d)'
  BY <1>2 DEF EditsInv, CallEdits
<1> QED
  BY <1>3, <1>4, Settled, LoadingEdits

LEMMA GoesOnEdits ==
    ASSUME Typed, Sound, Patient, EditsInv, NEW c \in Slots,
           PutAnswered(c) \/ PutFails(c) \/ FetchAnswered(c)
    PROVE  EditsInv'
<1>1. /\ st \in {"saving-current", "fetching"}
      /\ UNCHANGED <<force, persistence, made, doc, local>>
  BY DEF PutAnswered, PutFails, Saved, FetchAnswered, Sound, InPhase, hook, past, store
<1>2. st' \in {"fetching", "hydrating"}
  BY Moves DEF PutAnswered, PutFails, Saved, FetchAnswered, Sound, InPhase
<1>3. /\ calls'[c].at \in {"fetch", "read"}
      /\ calls'[c].force = calls[c].force
      /\ \A d \in Slots : d # c => calls'[d] = calls[d]
  BY DEF PutAnswered, PutFails, Saved, FetchAnswered, Typed, TypeOK, MachineOK, Call
<1>4. \A d \in Slots : CallEdits(d)'
  BY <1>1, <1>3 DEF EditsInv, CallEdits
<1> QED
  BY <1>1, <1>2, <1>4, Settled, LoadingEdits

\* Hydration: what IndexedDB has under the name holds every edit of the project.
LEMMA HydrationEdits ==
    ASSUME Typed, Sound, Patient, EditsInv, NEW c \in Slots,
           ReadLocal(c) \/ DeleteLocal(c) \/ SaveLocal(c)
    PROVE  EditsInv'
<1> DEFINE p == calls[c].project
           n == NameOf[p]
           edits == {i \in made : NameOf[i.home] = n}
<1>1. /\ Running(c)
      /\ p \in Projects
      /\ st = "hydrating"
      /\ ~DeleteLocal(c)
  BY ContentTypes
  DEF ReadLocal, DeleteLocal, SaveLocal, Running, Sound, InPhase, EditsInv, CallEdits
<1>2. /\ pending = None
      /\ writing = None
      /\ \A i \in made : i \in local[NameOf[i.home]]
  BY <1>1, Settled
<1>3. UNCHANGED <<force, persistence, made, lastUrl>>
  BY <1>1 DEF ReadLocal, SaveLocal, past
<1>4. edits \subseteq doc'
  <2>1. CASE SaveLocal(c)
    BY <2>1 DEF SaveLocal, EditsInv, CallEdits
  <2>2. CASE ReadLocal(c)
    <3>1. edits \subseteq local[n]
      BY <1>2
    <3>2. local[n] # {} => doc' = local[n]
      BY <2>2 DEF ReadLocal, Preferred
    <3> QED
      BY <3>1, <3>2
  <2> QED
    BY <1>1, <2>1, <2>2
<1>5. \A i \in made : i \in local'[NameOf[i.home]]
  <2>1. CASE SaveLocal(c)
    <3>1. \A m \in Names : local[m] \subseteq local'[m]
      BY <2>1 DEF SaveLocal, Typed, TypeOK, DataOK
    <3>2. \A i \in made : NameOf[i.home] \in Names
      BY NameTypes DEF Typed, TypeOK, Item
    <3> QED
      BY <1>2, <3>1, <3>2
  <2>2. CASE ReadLocal(c)
    BY <1>2, <2>2 DEF ReadLocal
  <2> QED
    BY <1>1, <2>1, <2>2
<1>6. CASE Complete(c)
  <2>1. /\ \A d \in Slots : d # c => calls'[d] = calls[d] /\ ~Running(d)
        /\ calls'[c].at = "none"
        /\ ~calls'[c].force
    BY <1>1, <1>6, FreedMakes, RunningLoads DEF Complete
  <2>2. \A d \in Slots : CallEdits(d)'
    BY <2>1 DEF CallEdits, EditsInv, Running
  <2>3. st' = "loaded"
    BY <1>1, <1>6, Moves DEF Complete
  <2>4. MachineEdits'
    BY <1>3, <2>3 DEF EditsInv, MachineEdits
  <2>5. LoadedEdits'
    BY <1>1, <1>3, <1>4, <1>6, LoaderAssumption DEF LoadedEdits, Complete
  <2>6. WriteEdits' /\ StoredEdits'
    BY <1>2, <1>3, <1>5 DEF WriteEdits, StoredEdits, persistence
  <2> QED
    BY <2>2, <2>4, <2>5, <2>6 DEF EditsInv
<1>7. CASE /\ calls' = [calls EXCEPT ![c].at = "save"]
           /\ UNCHANGED machine
  <2>1. /\ \A d \in Slots : d # c => calls'[d] = calls[d] /\ ~Running(d)
        /\ calls'[c].at = "save"
        /\ calls'[c].project = p
        /\ calls'[c].force = calls[c].force
    BY <1>1, <1>7, MovedMakes, RunningLoads
  <2>2. \A d \in Slots : d # c => CallEdits(d)'
    BY <2>1 DEF CallEdits, EditsInv, Running
  <2>3. CallEdits(c)'
    BY <1>3, <1>4, <2>1 DEF CallEdits, EditsInv
  <2> QED
    BY <1>1, <1>2, <1>3, <1>5, <1>7, <2>2, <2>3, LoadingEdits DEF machine
<1> QED
  BY <1>1, <1>6, <1>7 DEF ReadLocal, SaveLocal

\* A move of the user that leaves the loader alone.
LEMMA MoveEdits ==
    ASSUME Patient, EditsInv, ~force', lastUrl' \in {lastUrl, None},
           Patience, st = "idle" => due' \/ projectId' = None,
           UNCHANGED <<st, loadedProjectId, calls, store, persistence, local, made>>
    PROVE  EditsInv'
<1>1. MachineEdits'
  BY DEF EditsInv, MachineEdits
<1>2. LoadedEdits' /\ \A c \in Slots : CallEdits(c)'
  BY DEF EditsInv, LoadedEdits, CallEdits, store
<1>3. WriteEdits' /\ StoredEdits'
  BY Settled DEF WriteEdits, StoredEdits, persistence
<1> QED
  BY <1>1, <1>2, <1>3 DEF EditsInv

LEMMA ClickEdits ==
    ASSUME Typed, Sound, Patient, EditsInv, NEW p \in Projects, Click(p), Rerender
    PROVE  EditsInv'
<1>1. /\ Patience
      /\ projectId \in Projects \cup {None}
      /\ UNCHANGED <<retryCount, loadedProjectId, force, lastUrl, doc, persistence, local, made>>
  BY DEF Click, Rested, Typed, TypeOK, DataOK
<1>2. CASE IsProjectLoaded(p) /\ Opened(p) /\ UNCHANGED <<st, calls>>
  <2>1. UNCHANGED store
    BY <1>1, <1>2 DEF IsProjectLoaded, Opened, EditsInv, LoadedEdits, store
  <2> QED
    BY <1>1, <1>2, <2>1, MoveEdits DEF IsProjectLoaded, EditsInv, MachineEdits
<1>3. CASE /\ ~IsLoading(st)
           /\ \E c \in Slots : Start(c, p, FALSE, projectId, "click")
  BY <1>1, <1>3, StartEdits
<1> QED
  BY <1>2, <1>3 DEF Click

\* The first effect of an idle page opens the project of the URL or of the store.
LEMMA EffectEdits ==
    ASSUME Typed, Sound, Patient, EditsInv, Effect
    PROVE  EditsInv'
<1> DEFINE p == IF url # None THEN url ELSE projectId
<1>1. /\ force = FALSE
      /\ due
      /\ p \in Projects \cup {None}
      /\ projectId \in Projects \cup {None}
      /\ UNCHANGED <<retryCount, loadedProjectId, store, persistence, local, force, made>>
  BY DEF Effect, EditsInv, MachineEdits, Typed, TypeOK, DataOK
<1>2. CASE UNCHANGED <<st, calls>>
  <2>1. MachineEdits'
    <3>1. CASE st = "idle"
      <4>1. lastUrl = None /\ ~IsLoading(st) /\ st # "loaded"
        BY <3>1 DEF EditsInv, MachineEdits, IsLoading
      <4>2. p # None => \E c \in Slots : Start(c, p, FALSE, projectId, "effect")
        BY <1>1, <4>1 DEF Effect, IsProjectLoaded
      <4>3. p = None
        <5>1. SUFFICES ASSUME p # None PROVE FALSE
          OBVIOUS
        <5>2. PICK c \in Slots : Start(c, p, FALSE, projectId, "effect")
          BY <4>2, <5>1
        <5>3. Sound' /\ calls'[c].at \in {"put", "fetch"}
          BY <1>1, <4>1, <5>1, <5>2, StartSound, StartMakes
        <5> QED
          BY <1>2, <3>1, <5>3 DEF Sound, InPhase
      <4>4. projectId = None /\ UNCHANGED lastUrl
        BY <4>3 DEF Effect
      <4> QED
        BY <1>1, <1>2, <4>1, <4>4 DEF EditsInv, MachineEdits, store
    <3>2. CASE st # "idle"
      BY <1>1, <1>2, <3>2 DEF EditsInv, MachineEdits
    <3> QED
      BY <3>1, <3>2
  <2>2. LoadedEdits' /\ \A c \in Slots : CallEdits(c)'
    BY <1>1, <1>2 DEF EditsInv, LoadedEdits, CallEdits, store
  <2>3. WriteEdits' /\ StoredEdits'
    BY <1>1, Settled DEF WriteEdits, StoredEdits, persistence
  <2> QED
    BY <2>1, <2>2, <2>3 DEF EditsInv
<1>3. CASE \E c \in Slots : /\ p # None
                            /\ ~IsLoading(st)
                            /\ Start(c, p, FALSE, projectId, "effect")
  BY <1>1, <1>3, StartEdits DEF store
<1> QED
  BY <1>1, <1>2, <1>3 DEF Effect

\* An edit is made in a project that is loaded, and is then in the store and on its way.
LEMMA EditEdits ==
    ASSUME Typed, Sound, Patient, EditsInv, NEW e \in Edits, Edit(e), Rerender
    PROVE  EditsInv'
<1> DEFINE item == [home |-> projectId, what |-> e]
<1>1. st = "loaded" /\ ~due /\ Patience
  BY DEF Edit, Rested, EditsInv, MachineEdits, Typed, TypeOK, MachineOK, LoadingState, IsLoading
<1>2. /\ pending = None
      /\ writing = None
      /\ \A i \in made : i \in local[NameOf[i.home]]
  BY <1>1, Settled
<1>3. /\ made' = made \cup {item}
      /\ doc' = doc \cup {item}
      /\ pending' = [name |-> name, data |-> doc']
      /\ UNCHANGED <<st, loadedProjectId, calls, name, projectId, writing, local, url, force,
                     lastUrl>>
  BY DEF Edit, Scheduled, machine, hook
<1>4. item.home = projectId
  OBVIOUS
<1> HIDE DEF item
<1>5. ~due'
  BY <1>1, <1>3 DEF Rerender
<1>6. pending' # None
  <2>1. name \in Names /\ doc' \in SUBSET Item
    BY EditTypes DEF Typed, TypeOK, DataOK, Edit
  <2> QED
    BY <1>3, <2>1, NoneAssumption DEF Write
<1>7. MachineEdits' /\ \A c \in Slots : CallEdits(c)'
  <2>1. \A c \in Slots : calls[c].at # "save"
    BY <1>1, RunningLoads DEF Running, IsLoading
  <2> QED
    BY <1>1, <1>3, <2>1 DEF EditsInv, MachineEdits, CallEdits
<1>8. LoadedEdits'
  BY <1>1, <1>3 DEF EditsInv, LoadedEdits
<1>9. WriteEdits'
  BY <1>1, <1>2, <1>3, <1>5 DEF WriteEdits
<1>10. StoredEdits'
  BY <1>2, <1>3, <1>4, <1>6 DEF StoredEdits
<1> QED
  BY <1>7, <1>8, <1>9, <1>10 DEF EditsInv

\* The timer's write deletes what is under the name and adds the store's items.
LEMMA PersistEdits ==
    ASSUME Typed, Patient, EditsInv, PersistDeletes \/ PersistAdds, Rerender
    PROVE  EditsInv'
<1> DEFINE w == IF writing # None THEN writing ELSE pending
<1>1. /\ st = "loaded"
      /\ ~due
      /\ w = [name |-> name, data |-> doc]
  BY DEF EditsInv, WriteEdits, PersistDeletes, PersistAdds
<1>2. /\ name = NameOf[projectId]
      /\ projectId \in Projects
      /\ {i \in made : NameOf[i.home] = name} \subseteq doc
  BY <1>1 DEF EditsInv, LoadedEdits, Typed, TypeOK, DataOK
<1>3. UNCHANGED <<machine, calls, store, hook, made>>
  BY DEF PersistDeletes, PersistAdds, past
<1>4. \A i \in made : i.home \in Projects /\ NameOf[i.home] \in Names
  BY NameTypes DEF Typed, TypeOK, Item
<1>5. ~due'
  BY <1>1, <1>3 DEF Rerender, hook, store
<1>6. MachineEdits' /\ LoadedEdits' /\ \A c \in Slots : CallEdits(c)'
  BY <1>1, <1>3, <1>5
  DEF EditsInv, MachineEdits, LoadedEdits, CallEdits, machine, store, hook
<1>7. CASE PersistDeletes
  <2>1. WriteEdits'
    BY <1>1, <1>3, <1>5, <1>7 DEF PersistDeletes, WriteEdits, machine, store
  <2>2. ASSUME NEW i \in made, NameOf[i.home] # name
        PROVE  i \in local'[NameOf[i.home]]
    <3>1. i \in local[NameOf[i.home]]
      BY <1>2, <2>2 DEF EditsInv, StoredEdits
    <3>2. NameOf[i.home] # name
      BY <2>2
    <3>3. local' = [local EXCEPT ![name] = {}]
      <4>1. pending.name = name
        BY <1>1, <1>7 DEF PersistDeletes
      <4> QED
        BY <1>7, <4>1 DEF PersistDeletes
    <3> QED
      BY <1>4, <3>1, <3>2, <3>3 DEF Typed, TypeOK, DataOK
  <2>3. writing' # None
    BY <1>7 DEF PersistDeletes
  <2>4. StoredEdits'
    BY <1>2, <1>3, <2>2, <2>3 DEF StoredEdits, store
  <2> QED
    BY <1>6, <2>1, <2>4 DEF EditsInv
<1>8. CASE PersistAdds
  <2>1. local' = [local EXCEPT ![name] = local[name] \cup doc]
    <3>1. writing.name = name /\ writing.data = doc
      BY <1>1, <1>8 DEF PersistAdds
    <3> QED
      BY <1>8, <3>1 DEF PersistAdds
  <2>2. pending' = None /\ writing' = None
    BY <1>8 DEF PersistAdds, EditsInv, WriteEdits
  <2>3. \A m \in Names : local[m] \subseteq local'[m]
    BY <2>1 DEF Typed, TypeOK, DataOK
  <2>4. ASSUME NEW i \in made
        PROVE  i \in local'[NameOf[i.home]]
    <3>1. CASE NameOf[i.home] = name
      <4>1. local'[name] = local[name] \cup doc
        BY <1>2, <1>4, <2>1, <3>1 DEF Typed, TypeOK, DataOK
      <4> QED
        BY <1>2, <3>1, <4>1
    <3>2. CASE NameOf[i.home] # name
      BY <1>2, <1>4, <2>3, <3>2 DEF EditsInv, StoredEdits
    <3> QED
      BY <3>1, <3>2
  <2>5. WriteEdits' /\ StoredEdits'
    BY <1>3, <2>2, <2>4 DEF WriteEdits, StoredEdits
  <2> QED
    BY <1>6, <2>5 DEF EditsInv
<1> QED
  BY <1>7, <1>8

LEMMA RefreshEdits ==
    ASSUME Patient, EditsInv, Refresh
    PROVE  EditsInv'
<1>1. \A i \in made : i \in local[NameOf[i.home]]
  BY Settled DEF Refresh
<1>2. \A c \in Slots : calls'[c].at = "none" /\ calls'[c].force = FALSE
  BY DEF Refresh, NoCall
<1> QED
  BY <1>1, <1>2 DEF Refresh, EditsInv, MachineEdits, LoadedEdits, WriteEdits, StoredEdits,
     CallEdits

LEMMA EditsStep ==
    ASSUME Typed, Sound, NoneFails, Patient, EditsInv, [Next]_vars
    PROVE  EditsInv'
<1>1. ASSUME NEW c \in Slots, Answer(c) \/ PutFails(c) \/ FetchFails(c) \/ LocalFails(c)
      PROVE  EditsInv'
  <2>1. ~Retry(c)
    BY DEF Retry, EditsInv, CallEdits
  <2> QED
    BY <1>1, <2>1, GoesOnEdits, HydrationEdits DEF Answer, NoneFails
<1>2. ASSUME NEW p \in Projects, Navigate(p, FALSE), Rerender
      PROVE  EditsInv'
  <2>1. st = "idle" => due' \/ projectId' = None
    BY <1>2 DEF Navigate, Rerender, EditsInv, MachineEdits, store
  <2> QED
    BY <1>2, <2>1, MoveEdits DEF Navigate, Rested, machine, past
<1>3. CASE Mount
  BY <1>3, MoveEdits DEF Mount, Rested, machine, past, EditsInv, MachineEdits
<1>4. ASSUME NEW o \in Others, NEW p \in Projects, OtherWrites(o, p), Rerender
      PROVE  EditsInv'
  <2>1. /\ UNCHANGED <<machine, calls, store, persistence, local, hook, made>>
        /\ due' = due
    BY <1>4 DEF OtherWrites, Rerender, hook, store, Typed, TypeOK
  <2> QED
    BY <2>1 DEF EditsInv, MachineEdits, LoadedEdits, WriteEdits, StoredEdits, CallEdits,
       machine, store, persistence, hook
<1>5. CASE UNCHANGED vars
  BY <1>5 DEF vars, EditsInv, MachineEdits, LoadedEdits, WriteEdits, StoredEdits, CallEdits
<1>6. CASE Step /\ Rerender
  BY <1>1, <1>2, <1>4, <1>6, ClickEdits, EditEdits, PersistEdits, SettingTypes
  DEF Step, Patient, Typed, TypeOK
<1> QED
  BY <1>3, <1>5, <1>6, EffectEdits, RefreshEdits DEF Next, Patient

PatientInv == Patient => EditsInv

LEMMA EditsAlways == Spec => []PatientInv
<1>1. Init => PatientInv
  BY DEF Init, PatientInv, EditsInv, MachineEdits, LoadedEdits, WriteEdits, StoredEdits,
     CallEdits, NoCall
<1>2. Typed /\ FaultsLeft /\ Sound /\ PatientInv /\ [Next]_vars => PatientInv'
  BY EditsStep, StillPatient DEF PatientInv
<1> QED
  BY <1>1, <1>2, Typing, AlwaysSound, FaultsAlwaysLeft, PTL DEF Spec

\* The edits of a patient user are never lost: whatever projects are clicked or linked,
\* however often the page is loaded again, whatever the saves before a load do, an edit is
\* in IndexedDB under its project's name or in the store and on its way there.  It takes
\* that no load is forced or has failed and that no project is created
\* (the store's schedulePersist, stores/automation/index.ts:219-242, 429-437).  And a
\* project that has been opened shows all of them (hydrateStore, project-loader.ts:423-467).
THEOREM NoEditLost == Spec => []PatientEditsKept
<1>1. PatientInv /\ Patient => EditsShown
  BY DEF PatientInv, EditsInv, LoadedEdits, EditsShown, IsProjectLoaded
<1>2. PatientInv => PatientEditsKept
  <2> SUFFICES ASSUME EditsInv, NEW i \in made, i \notin local[NameOf[i.home]]
               PROVE  i \in doc \cup Held(pending) \cup Held(writing)
    BY <1>1 DEF PatientInv, PatientEditsKept, EditsKept
  <2>1. NameOf[i.home] = NameOf[projectId] /\ (pending # None \/ writing # None)
    BY DEF EditsInv, StoredEdits
  <2>2. st = "loaded"
    BY <2>1 DEF EditsInv, WriteEdits
  <2> QED
    BY <2>1, <2>2 DEF EditsInv, LoadedEdits
<1> QED
  BY <1>2, EditsAlways, PTL
=============================================================================
