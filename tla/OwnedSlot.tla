----------------------------- MODULE OwnedSlot -----------------------------
(***************************************************************************)
(* What the backend promises about a slot that one socket owns at a time:  *)
(* a client that yields never takes it from another, and a client that has *)
(* left is never the owner. The runner manager's registry implements it.   *)
(***************************************************************************)
CONSTANTS
    Clients,
    Yielding,    \* the clients that may only take a vacant slot
    Nobody

VARIABLES owner, gone

Init == owner = Nobody /\ gone = {}

Take(c) ==
    /\ c \notin gone
    /\ c \in Yielding => owner \in {Nobody, c}
    /\ owner' = c
    /\ UNCHANGED gone

\* The owner lets go, or is put out.
Vacate == owner' = Nobody /\ UNCHANGED gone

\* Clients leave for good; if the owner is among them the slot falls vacant.
Leave ==
    /\ gone' \in SUBSET Clients /\ gone \subseteq gone'
    /\ owner' \in {owner, Nobody} \ gone'

Next == (\E c \in Clients : Take(c)) \/ Vacate \/ Leave

Spec == Init /\ [][Next]_<<owner, gone>>
=============================================================================
