------------------------ MODULE OperationalTransform ------------------------
(***************************************************************************)
(* OperationalTransformService of frontend/src/services/collaboration:     *)
(* transform, apply, compose, invert and transformPath, and SyncService's  *)
(* use of it: two editors of one resource, each with one optimistic        *)
(* operation, each told of the other's.  The operations go to transform()  *)
(* as they are made, as in conflict-resolution.test.ts:714, or, where      *)
(* `wired', through SyncService, whose changes keep no position and no end *)
(* of a connection.                                                        *)
(*                                                                         *)
(* A document has a list (`actions'), a field (`name') and `connections'.  *)
(* A path is a root and the index of an item of the list, or the whole     *)
(* root.  Arrays and positions are counted from 0, as in the code.         *)
(***************************************************************************)
EXTENDS Integers, Sequences

CONSTANTS Null,        \* null
          Missing,     \* undefined, a key that is not there
          Links,       \* (sourceId, targetId) of connections
          MaxLength,   \* bound: length of the list at first
          Times,       \* bound: the timestamps of operations
          Pairs        \* bound: kinds of operation of editor 1 and of editor 2

Editors == {1, 2}
Other(e) == 3 - e
Whole == -1

Kinds == {"insert", "delete", "move", "edit", "rename", "clear", "connect", "disconnect"}

ASSUME TransformAssumption ==
    /\ Pairs \subseteq Kinds \X Kinds
    /\ MaxLength \in Nat
    /\ Times \subseteq Nat
    /\ Links \cap {Null, Missing} = {}

VARIABLES base,        \* the document both editors began with
          op,          \* the operation each has made
          shown,       \* the document each shows
          got,         \* the other's operation has come
          confirmed,   \* the save of its own has been answered
          clock,       \* the timestamp of each editor's operation
          wired,       \* operations go through changeToOperation and back
          informed     \* history: an operation was made after the other's had come

vars == <<base, op, shown, got, confirmed, clock, wired, informed>>

\* An item has an id, and in `val' who has written it last, 0 for nobody.
Item == [id : Int, val : {0} \cup Editors]
Absent == {Null, Missing}
Document == [actions : Seq(Item) \cup {Null},
             name : {0} \cup Editors \cup Absent,
             connections : Seq(Links \cup {Missing}) \cup Absent]

Operation == [type : {"insert", "delete", "update", "move", "connect", "disconnect"},
              root : {"actions", "name", "connections"},
              index : Nat \cup {Whole},
              pos : Int, to : Int,       \* position, newPosition
              value : Item \cup Absent,
              old : Item \cup Absent,    \* oldValue
              link : Links \cup {Missing},
              ts : Nat]

ASSUME NullAssumption == Null \notin Operation /\ Null \notin Seq(Item)
ASSUME AbsentAssumption == Absent \cap Item = {}

TypeOK ==
    /\ base \in Document
    /\ shown \in [Editors -> Document]
    /\ op \in [Editors -> Operation \cup {Null}]
    /\ got \in [Editors -> BOOLEAN]
    /\ confirmed \in [Editors -> BOOLEAN]
    /\ clock \in [Editors -> Nat]
    /\ wired \in BOOLEAN
    /\ informed \in BOOLEAN

-----------------------------------------------------------------------------
(* apply(). *)

\* Where Array.splice begins: a negative position counts from the end.
SpliceStart(s, p) ==
    IF p >= 0 THEN IF p <= Len(s) THEN p ELSE Len(s)
    ELSE IF Len(s) + p >= 0 THEN Len(s) + p ELSE 0

Inserted(s, p, x) ==
    LET k == SpliceStart(s, p)
    IN  [j \in 1..(Len(s) + 1) |-> IF j <= k THEN s[j] ELSE IF j = k + 1 THEN x ELSE s[j - 1]]

Removed(s, p) ==
    LET k == SpliceStart(s, p)
    IN  IF k = Len(s) THEN s
        ELSE [j \in 1..(Len(s) - 1) |-> IF j <= k THEN s[j] ELSE s[j + 1]]

Moved(s, from, to) ==
    LET k == SpliceStart(s, from)
    IN  Inserted(Removed(s, from), to, IF k = Len(s) THEN Null ELSE s[k + 1])

\* navigateToPath makes the item when there is none.
Rewritten(s, i, v) ==
    IF i < Len(s) THEN [s EXCEPT ![i + 1].val = v]
    ELSE Append(s, [id |-> 0, val |-> v])

ApplyToList(s, o) ==
    CASE o.type = "insert" -> Inserted(s, o.pos, o.value)
      [] o.type = "delete" -> Removed(s, o.pos)
      [] o.type = "move"   -> Moved(s, o.pos, o.to)
      [] OTHER             -> IF o.index = Whole THEN o.value
                              ELSE Rewritten(s, o.index, o.value.val)

ApplyToName(o) ==
    IF o.type = "delete" THEN Missing
    ELSE IF o.value \in Absent THEN o.value ELSE o.value.val

Unlinked(s, l) == SelectSeq(s, LAMBDA m : m # l)

ApplyToLinks(s, o) ==
    CASE o.type = "connect"    -> IF s \in Absent THEN <<o.link>> ELSE Append(s, o.link)
      [] o.type = "disconnect" -> IF s \in Absent THEN s ELSE Unlinked(s, o.link)
      [] OTHER                 -> o.value

Apply(doc, o) ==
    CASE o.root = "actions" -> [doc EXCEPT !.actions = ApplyToList(@, o)]
      [] o.root = "name"    -> [doc EXCEPT !.name = ApplyToName(o)]
      [] OTHER              -> [doc EXCEPT !.connections = ApplyToLinks(@, o)]

-----------------------------------------------------------------------------
(* transform(), by the types of the two operations. *)

PathsEqual(o1, o2) == o1.root = o2.root /\ o1.index = o2.index
PathsConflict(o1, o2) ==
    o1.root = o2.root /\ (o1.index = o2.index \/ Whole \in {o1.index, o2.index})

Shifted(o, d) == [o EXCEPT !.pos = @ + d]

\* What the code calls a no-op: an update to null.
Voided(o) == [o EXCEPT !.type = "update", !.value = Null]

\* Regression: a tie leaves both where they are.
InsertInsertTied(o1, o2) ==
    IF o1.pos < o2.pos THEN <<o1, Shifted(o2, 1)>>
    ELSE IF o1.pos > o2.pos THEN <<Shifted(o1, 1), o2>> ELSE <<o1, o2>>
InsertInsert(o1, o2) ==
    IF o1.pos < o2.pos \/ (o1.pos = o2.pos /\ o1.ts < o2.ts)
      THEN <<o1, Shifted(o2, 1)>>
      ELSE <<Shifted(o1, 1), o2>>

\* Regression: the boundary on the other side.
InsertDeleteStrict(o1, o2) ==
    IF o1.pos < o2.pos THEN <<o1, Shifted(o2, 1)>> ELSE <<Shifted(o1, -1), o2>>
InsertDelete(o1, o2) ==
    IF o1.pos <= o2.pos THEN <<o1, Shifted(o2, 1)>> ELSE <<Shifted(o1, -1), o2>>

\* adjustPathForInsert, for a path that begins with the list's.
AdjustPath(i, pos) == IF i # Whole /\ i >= pos THEN i + 1 ELSE i

InsertUpdate(o1, o2) == <<o1, [o2 EXCEPT !.index = AdjustPath(@, o1.pos)]>>

DeleteDelete(o1, o2) ==
    IF o1.pos = o2.pos THEN <<Voided(o1), Voided(o2)>>
    ELSE IF o1.pos < o2.pos THEN <<o1, Shifted(o2, -1)>> ELSE <<Shifted(o1, -1), o2>>

DeleteUpdate(o1, o2) == <<o1, IF PathsEqual(o1, o2) THEN Voided(o2) ELSE o2>>

UpdateUpdate(o1, o2) ==
    IF ~PathsEqual(o1, o2) THEN <<o1, o2>>
    ELSE IF o1.ts < o2.ts THEN <<o1, [o2 EXCEPT !.old = o1.value]>>
    ELSE <<[o1 EXCEPT !.old = o2.value], o2>>

\* A position p against a move from f to t: each condition takes one away.
AgainstMove(p, f, t) ==
    p - (IF f <= p /\ t > p THEN 1 ELSE 0) - (IF f < p /\ t <= p THEN 1 ELSE 0)

MoveMove(o1, o2) ==
    <<[o1 EXCEPT !.pos = AgainstMove(@, o2.pos, o2.to), !.to = AgainstMove(@, o2.pos, o2.to)],
      [o2 EXCEPT !.pos = AgainstMove(@, o1.pos, o1.to), !.to = AgainstMove(@, o1.pos, o1.to)]>>

MoveDelete(o1, o2) ==
    IF o1.pos = o2.pos THEN <<Voided(o1), o2>>
    ELSE <<[o1 EXCEPT !.pos = IF o2.pos < @ THEN @ - 1 ELSE @,
                      !.to = IF o2.pos < @ THEN @ - 1 ELSE @], o2>>

ConnectDisconnect(o1, o2) ==
    IF o1.link = o2.link /\ o1.ts >= o2.ts THEN <<Voided(o1), o2>> ELSE <<o1, o2>>

\* Two that connect, or two that disconnect.
SameOnLink(o1, o2) == IF o1.link = o2.link THEN <<o1, Voided(o2)>> ELSE <<o1, o2>>

Reversed(pair) == <<pair[2], pair[1]>>

TransformByType(o1, o2) ==
    LET types == <<o1.type, o2.type>>
    IN  CASE types = <<"insert", "insert">>         -> InsertInsert(o1, o2)
          [] types = <<"insert", "delete">>         -> InsertDelete(o1, o2)
          [] types = <<"delete", "insert">>         -> Reversed(InsertDelete(o2, o1))
          [] types = <<"insert", "update">>         -> InsertUpdate(o1, o2)
          [] types = <<"update", "insert">>         -> Reversed(InsertUpdate(o2, o1))
          [] types = <<"delete", "delete">>         -> DeleteDelete(o1, o2)
          [] types = <<"delete", "update">>         -> DeleteUpdate(o1, o2)
          [] types = <<"update", "delete">>         -> Reversed(DeleteUpdate(o2, o1))
          [] types = <<"update", "update">>         -> UpdateUpdate(o1, o2)
          [] types = <<"move", "move">>             -> MoveMove(o1, o2)
          [] types = <<"move", "delete">>           -> MoveDelete(o1, o2)
          [] types = <<"delete", "move">>           -> Reversed(MoveDelete(o2, o1))
          [] types = <<"connect", "disconnect">>    -> ConnectDisconnect(o1, o2)
          [] types = <<"disconnect", "connect">>    -> Reversed(ConnectDisconnect(o2, o1))
          [] types = <<"connect", "connect">>       -> SameOnLink(o1, o2)
          [] types = <<"disconnect", "disconnect">> -> SameOnLink(o1, o2)
          [] OTHER                                  -> <<o1, o2>>

Transform(o1, o2) == IF PathsConflict(o1, o2) THEN TransformByType(o1, o2) ELSE <<o1, o2>>

-----------------------------------------------------------------------------
(* compose(), invert() and transformPath(). *)

Compose(o1, o2) ==
    LET types == <<o1.type, o2.type>>
    IN  CASE types = <<"insert", "delete">> -> Voided(o1)
          [] types = <<"update", "update">> -> [o1 EXCEPT !.value = o2.value]
          [] types = <<"delete", "insert">> -> [o1 EXCEPT !.type = "update", !.value = o2.value]
          [] OTHER                          -> o2

\* Regression: a move is its own inverse.
InvertMoveless(o) ==
    CASE o.type = "insert" -> [o EXCEPT !.type = "delete", !.value = o.old, !.old = o.value]
      [] o.type = "delete" -> [o EXCEPT !.type = "insert", !.value = o.old, !.old = o.value]
      [] OTHER             -> [o EXCEPT !.value = o.old, !.old = o.value]
Invert(o) ==
    CASE o.type = "insert"  -> [o EXCEPT !.type = "delete", !.value = o.old, !.old = o.value]
      [] o.type = "delete"  -> [o EXCEPT !.type = "insert", !.value = o.old, !.old = o.value]
      [] o.type = "update"  -> [o EXCEPT !.value = o.old, !.old = o.value]
      [] o.type = "move"    -> [o EXCEPT !.pos = o.to, !.to = o.pos]
      [] o.type = "connect" -> [o EXCEPT !.type = "disconnect"]
      [] OTHER              -> [o EXCEPT !.type = "connect"]

\* What becomes of the path of item i of the list.
TransformPath(i, o) ==
    IF o.root # "actions" \/ o.index \notin {Whole, i} THEN [exists |-> TRUE, index |-> i]
    ELSE IF o.type = "delete" THEN [exists |-> FALSE, index |-> i]
    ELSE IF o.type = "insert" THEN [exists |-> TRUE, index |-> AdjustPath(i, o.pos)]
    ELSE [exists |-> TRUE, index |-> i]

-----------------------------------------------------------------------------
(* The operations an editor can make on a document. *)

Plain(type, root, t) ==
    [type |-> type, root |-> root, index |-> Whole, pos |-> 0, to |-> 0,
     value |-> Missing, old |-> Missing, link |-> Missing, ts |-> t]

Fresh(e) == [id |-> -e, val |-> 0]       \* the item an editor inserts
Mine(e) == [id |-> 0, val |-> e]         \* the text an editor writes

MadeAt(kind, e, doc, t) ==
    LET s == doc.actions
        places == 0..(Len(s) - 1)
    IN  CASE kind = "insert" ->
               {[Plain("insert", "actions", t) EXCEPT !.pos = p, !.value = Fresh(e)] :
                   p \in 0..Len(s)}
          [] kind = "delete" ->
               {[Plain("delete", "actions", t) EXCEPT !.pos = p, !.old = s[p + 1]] : p \in places}
          [] kind = "move" ->
               {[Plain("move", "actions", t) EXCEPT !.pos = pt[1], !.to = pt[2]] :
                   pt \in {qt \in places \X places : qt[1] # qt[2]}}
          [] kind = "edit" ->
               {[Plain("update", "actions", t) EXCEPT
                   !.index = p, !.value = Mine(e), !.old = s[p + 1]] : p \in places}
          [] kind = "rename" ->
               {[Plain("update", "name", t) EXCEPT
                   !.value = Mine(e),
                   !.old = IF doc.name \in Absent THEN doc.name ELSE [id |-> 0, val |-> doc.name]]}
          [] kind = "clear" ->
               IF doc.name \in Absent THEN {}
               ELSE {[Plain("delete", "name", t) EXCEPT !.old = [id |-> 0, val |-> doc.name]]}
          [] kind = "connect" ->
               {[Plain("connect", "connections", t) EXCEPT !.link = l] : l \in Links}
          [] OTHER ->
               {[Plain("disconnect", "connections", t) EXCEPT !.link = l] :
                   l \in {m \in Links : \E j \in DOMAIN doc.connections : doc.connections[j] = m}}

Made(kind, e, doc) == MadeAt(kind, e, doc, clock[e])

\* changeToOperation and operationToChange keep neither positions nor ends, which
\* transform() and apply() then take for 0 and for undefined.
AsSent(o) == IF wired THEN [o EXCEPT !.pos = 0, !.to = 0, !.link = Missing] ELSE o

Init ==
    /\ base \in {[actions |-> [j \in 1..n |-> [id |-> j, val |-> 0]], name |-> m,
                  connections |-> c] :
                    n \in 0..MaxLength, m \in {0, Missing}, c \in {<<>>} \cup {<<l>> : l \in Links}}
    /\ op = [e \in Editors |-> Null]
    /\ shown = [e \in Editors |-> base]
    /\ got = [e \in Editors |-> FALSE]
    /\ confirmed = [e \in Editors |-> FALSE]
    /\ clock \in [Editors -> Times]
    /\ wired \in BOOLEAN
    /\ informed = FALSE

KindsOf(e) == {pair[e] : pair \in Pairs}

\* The kind of an operation, as Pairs names it.
Kind(o) ==
    CASE o.root = "actions" /\ o.type = "update" -> "edit"
      [] o.root = "name" /\ o.type = "update"    -> "rename"
      [] o.root = "name" /\ o.type = "delete"    -> "clear"
      [] OTHER                                   -> o.type

Paired(e, kind) ==
    \E pair \in Pairs : /\ pair[e] = kind
                        /\ op[Other(e)] # Null => pair[Other(e)] = Kind(op[Other(e)])

\* applyOptimisticUpdate.
Make(e) ==
    /\ op[e] = Null
    /\ \E kind \in KindsOf(e) :
          /\ Paired(e, kind)
          /\ \E o \in Made(kind, e, shown[e]) :
                /\ op' = [op EXCEPT ![e] = o]
                /\ shown' = [shown EXCEPT ![e] = Apply(@, o)]
    /\ informed' = (informed \/ got[e])
    /\ UNCHANGED <<base, got, confirmed, clock, wired>>

\* The save of the operation has been answered.
Confirm(e) ==
    /\ op[e] # Null
    /\ ~confirmed[e]
    /\ confirmed' = [confirmed EXCEPT ![e] = TRUE]
    /\ UNCHANGED <<base, op, shown, got, clock, wired, informed>>

\* handleRemoteChange, and the listener that applies what it is given.
Receive(e) ==
    LET remote == op[Other(e)]
    IN  /\ remote # Null
        /\ ~got[e]
        /\ got' = [got EXCEPT ![e] = TRUE]
        /\ shown' = [shown EXCEPT ![e] =
                       Apply(@, AsSent(IF op[e] # Null /\ ~confirmed[e]
                                         THEN Transform(AsSent(op[e]), AsSent(remote))[2]
                                         ELSE remote))]
        /\ UNCHANGED <<base, op, confirmed, clock, wired, informed>>

Next == \E e \in Editors : Make(e) \/ Confirm(e) \/ Receive(e)

Spec == Init /\ [][Next]_vars

-----------------------------------------------------------------------------
(* Properties. *)

Delivered == \A e \in Editors : op[Other(e)] # Null => got[e]

\* What transform() is right about: two operations on the list of which one is an
\* insertion, made without sight of each other and handed to it with their positions,
\* neither of them saved before the other came.
ListKinds == {"insert", "delete", "edit"}
Mergeable ==
    /\ ~wired
    /\ ~informed
    /\ \A e \in Editors : op[e] # Null => Kind(op[e]) \in ListKinds /\ ~confirmed[e]
    /\ (\A e \in Editors : op[e] # Null) => \E e \in Editors : Kind(op[e]) = "insert"

\* Two insertions at one place and one millisecond: each side puts the other's first.
Tied ==
    /\ \A e \in Editors : op[e] # Null /\ Kind(op[e]) = "insert"
    /\ op[1].pos = op[2].pos
    /\ clock[1] = clock[2]

\* Both editors end with one document (operational-transform-service.ts:26,
\* "apply(apply(doc, op1), op2') = apply(apply(doc, op2), op1')"), where transform() is
\* given the positions and the two are no tie.  Through SyncService they end with two:
\* its changes carry no position (sync-service.ts:725).
Converges == Delivered => shown[1] = shown[2]
ListsConverge == Mergeable /\ ~Tied => Converges

\* No operation removes an item it was not made to remove: the items of the
\* document and the inserted ones are there, but those somebody deleted.
Deletes(o, x) == o # Null /\ o.root = "actions" /\ o.type = "delete" /\ o.old.id = x.id
Inserts(o, x) == o # Null /\ o.type = "insert" /\ o.value = x
ItemsOf(s) == {s[j] : j \in 1..Len(s)}

ItemsKept ==
    Delivered =>
        \A e \in Editors :
            /\ shown[e].actions # Null
            /\ \A x \in ItemsOf(base.actions) \cup {Fresh(d) : d \in Editors} :
                  (x \in ItemsOf(base.actions) \/ \E d \in Editors : Inserts(op[d], x))
                    /\ (\A d \in Editors : ~Deletes(op[d], x))
                  => \E y \in ItemsOf(shown[e].actions) : y.id = x.id

\* An edit lands on the item it was made for, in both documents.
EditLands ==
    \A d, e \in Editors :
        Delivered /\ op[d] # Null /\ op[d].type = "update" /\ op[d].root = "actions"
          => \A x \in ItemsOf(shown[e].actions) : x.val = d => x.id = op[d].old.id

\* What a remote operation must not do: lose an item or misplace an edit.  With
\* positions it does neither, ties included.  Through SyncService, after a save or in
\* sight of the other's, no item is lost as long as neither editor deletes or moves one:
\* a remote deletion takes the first item instead of its own (sync-service.ts:725).
NothingLost == ItemsKept /\ EditLands
NoneRemoved == \A e \in Editors : op[e] # Null => Kind(op[e]) \notin {"delete", "move"}
ListsLoseNothing ==
    /\ Mergeable => NothingLost
    /\ NoneRemoved => ItemsKept

\* Undoing an operation at once restores the document it was made on, the one both
\* began with, but for those on links
\* (operational-transform-service.ts:594, "Invert an operation (for undo)").
UndoneOf(kinds) ==
    ~informed => \A e \in Editors :
        op[e] # Null /\ Kind(op[e]) \in kinds => Apply(Apply(base, op[e]), Invert(op[e])) = base

UndoableKinds == Kinds \ {"connect", "disconnect"}
UndoRestores == UndoneOf(Kinds)
UndoRestoresItems == UndoneOf(UndoableKinds)

\* The composition of an editor's operation and a next one of the same editor
\* does what the two do one after the other
\* (operational-transform-service.ts:546, "Compose two operations into a
\* single operation"), on the field and on the text of one item.
ComposedOf(pairs) ==
    ~informed => \A e \in Editors : op[e] # Null /\ ~got[e] =>
        \A pair \in {p \in pairs : p[1] = Kind(op[e])} :
            \A next \in Made(pair[2], e, shown[e]) :
                PathsEqual(op[e], next)
                  => Apply(base, Compose(op[e], next)) = Apply(shown[e], next)

ComposedPairs ==
    ({"rename", "clear"} \X {"rename", "clear"})
      \cup {<<"edit", "edit">>, <<"insert", "edit">>, <<"edit", "insert">>}
ComposeAgrees == ComposedOf(Pairs)
ComposeAgreesOnTexts == ComposedOf(ComposedPairs)

\* A transformed path leads to the item it led to, and says so when that item
\* is deleted, and only then (transformPath, lines 809-844): so it is but for deletions
\* and moves.
PathOf(doc, i, o) ==
    LET item == doc.actions[i + 1]
        path == TransformPath(i, o)
        after == Apply(doc, o).actions
    IN  IF Deletes(o, item) THEN ~path.exists
        ELSE path.exists /\ after[path.index + 1].id = item.id
FollowedOf(kinds) ==
    ~informed => \A e \in Editors : op[e] # Null /\ Kind(op[e]) \in kinds =>
        \A i \in 0..(Len(base.actions) - 1) : PathOf(base, i, op[e])

FollowedKinds == Kinds \ {"delete", "move"}
PathFollows == FollowedOf(Kinds)
PathFollowsKept == FollowedOf(FollowedKinds)
=============================================================================
