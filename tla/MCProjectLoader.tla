-------------------------- MODULE MCProjectLoader --------------------------
(* The names and the settings that TLC's instance of ProjectLoader is given. *)
EXTENDS ProjectLoader
CONSTANTS p1, p2, e1, e2, o1

OwnNames == [p \in Projects |-> p]

Fails(put, fetch, loc, refresh) ==
    [k \in FaultKind |-> CASE k = "put"   -> put
                           [] k = "fetch" -> fetch
                           [] k = "local" -> loc
                           [] OTHER       -> refresh]

\* Every action and fault of the machine, with a project made meanwhile; no edits.
Machine == [blank |-> {p2}, new |-> {p2}, links |-> {p1}, forced |-> {}, hasty |-> FALSE,
            edits |-> {}, others |-> {}, fails |-> Fails(0, 1, 1, 1)]

\* A hasty user with one edit, links of both kinds and failed fetches.
HastyUser == [blank |-> {}, new |-> {}, links |-> {p1}, forced |-> {p1}, hasty |-> TRUE,
              edits |-> {e1}, others |-> {}, fails |-> Fails(0, 1, 0, 0)]

\* A patient user with two edits, failed saves and another client's write.
PatientUser == [blank |-> {}, new |-> {}, links |-> {p1}, forced |-> {}, hasty |-> FALSE,
                edits |-> {e1, e2}, others |-> {o1}, fails |-> Fails(2, 0, 0, 1)]

LoaderSettings == {Machine, HastyUser, PatientUser}
=============================================================================
