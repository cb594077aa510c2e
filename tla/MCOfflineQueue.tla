--------------------------- MODULE MCOfflineQueue ---------------------------
(* The instances of OfflineQueue that TLC checks, in one run: the first state *)
(* chooses the scene.                                                         *)
EXTENDS OfflineQueue
CONSTANTS t1, t2
VARIABLE scene

\* "alone", "retrying": one tab, whose user cancels or retries.  "shared": both
\* tabs, one item and no closed tab.  The user clears the queue in every scene.
Allowed ==
    IF scene = "shared"
    THEN closes' = 0 /\ local' \subseteq {1} /\ \A t \in Tabs : user'[t].op = "none"
    ELSE tab'[t2] = "closed" /\ user'[t1].op # (IF scene = "alone" THEN "retry" ELSE "cancel")

MCInit == Init /\ scene \in {"alone", "retrying", "shared"}
MCNext == Next /\ Allowed /\ UNCHANGED scene
MCSpec == MCInit /\ [][MCNext]_<<vars, scene>> /\ Fairness
=============================================================================
