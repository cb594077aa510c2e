--------------------------- MODULE MCProjectSync ---------------------------
(* The instances of ProjectSync that TLC checks, in one run: the first state *)
(* chooses the scene.                                                        *)
EXTENDS ProjectSync
CONSTANTS e1, e2, o1, i1
VARIABLE scene

\* "two edits": made at any time, beside another editor and an import, with one failed
\* request.  "one edit": beside another editor and an import, with a reload by the user
\* and a closed socket.
Allowed ==
    IF scene = "two edits"
    THEN reloads' = 0 /\ drops' = 0 /\ failures' <= 1
    ELSE e2 \notin made' /\ failures' <= 1

MCInit == Init /\ scene \in {"two edits", "one edit"}
MCNext == Next /\ Allowed /\ UNCHANGED scene
MCSpec == MCInit /\ [][MCNext]_<<vars, scene>> /\ Fairness

\* After one edit, a conflict means that somebody else has written since the base
\* version (SAVE_REJECTED).
OneConflictIsForeign == scene = "one edit" => ConflictIsForeign
=============================================================================
