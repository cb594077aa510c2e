-------------------------- MODULE MCSessionRefresh --------------------------
(* The instances of SessionRefresh that TLC checks, in one run: the first    *)
(* state chooses the scene.                                                  *)
EXTENDS SessionRefresh
CONSTANTS t1, t2, h1, h2, a1
VARIABLE scene

\* One tab that sends a request through HttpClient ("one"), two at once while it
\* stays visible ("burst"), or one through the client that refreshes on every 401
\* ("api").  "tabs": t2 opens, signs in and out and closes beside t1; both stay
\* visible and send nothing, and every exchange succeeds.
Sends == [one |-> {h1}, burst |-> {h1, h2}, api |-> {a1}, tabs |-> {}]
Allowed ==
    /\ \A t \in Tabs, c \in Calls \ Sends[scene] : calls'[t][c].at = "idle"
    /\ scene \in {"burst", "tabs"} => \A t \in Tabs : ~hidden'[t] /\ ~revoked'[t]
    /\ scene # "tabs" => page'[t2] = "closed"
    /\ scene = "tabs" =>
         /\ inbox'[t2] = <<>>
         /\ \A t \in Tabs : fails'[t] = 0 /\ bearer'[t] \in {None, RenewalLead, Fresh}

MCInit == Init /\ scene \in DOMAIN Sends
MCNext == Next /\ Allowed /\ UNCHANGED scene
MCSpec == MCInit /\ [][MCNext]_<<vars, scene>> /\ FairnessOf(t1)

\* The proactive path of the only tab is never lost (no other tab's page clears
\* the marker they share).
RenewalArmedAlone == scene # "tabs" => RenewalArmed

\* A bearer of the only tab that is due for renewal while the tab is visible is
\* renewed, or the session ends.
RenewsOrEndsAlone == (scene # "tabs" /\ Due(t1)) ~> DueNoMore(t1)

\* Every request ends, those that wait for an exchange too.
CallsEndAlone == \A c \in {h1, a1} : calls[t1][c].at # "idle" ~> calls[t1][c].at = "idle"
=============================================================================
