------------------------- MODULE MCChatConversation -------------------------
(* The instances of ChatConversation that TLC checks, in one run: the first  *)
(* state chooses the scene, and each scene is an instance of its own.  But   *)
(* for the workflow's a behaviour is followed until the user has been hasty  *)
(* or a create has crossed this page's: from there nothing is claimed.  The  *)
(* actions under Fairness are the same in every scene with a liveness        *)
(* property: they read Chunks, RELOAD_MAX_RETRIES, MaxRuns and MaxFailures.  *)
EXTENDS ChatConversation
VARIABLE scene

\* Ask the Twin through a lost socket, a runner that leaves and failing sessions.
Twin == INSTANCE ChatConversation WITH
    MidReload <- FALSE, MaxOthers <- 0

\* Another tab creates a session, or is refused one, while the socket drops.
Tabs == INSTANCE ChatConversation WITH
    Chunks <- 1, MaxAsks <- 1, MidReload <- FALSE, MaxLeaves <- 0, MaxFailures <- 0

\* The socket drops, and the runner is away when the reload arrives.
Reload == INSTANCE ChatConversation WITH
    MaxOthers <- 0

\* No connection is lost; sessions fail, and another tab creates one.
Steady == INSTANCE ChatConversation WITH
    MidReload <- FALSE, MaxDrops <- 0, MaxLeaves <- 0

\* A loaded conversation whose socket drops.
Loaded == INSTANCE ChatConversation WITH
    Page <- "loaded", Chunks <- 1, MidReload <- FALSE, MaxOthers <- 0,
    MaxLeaves <- 0, MaxFailures <- 0

\* A loaded conversation and its workflows; no connection is lost.
Workflow == INSTANCE ChatConversation WITH
    Page <- "loaded", MidReload <- FALSE, MaxOthers <- 0,
    MaxDrops <- 0, MaxLeaves <- 0

MCInit ==
    \/ scene \in {"twin", "tabs", "reload", "steady"} /\ Init
    \/ scene \in {"loaded", "workflow"} /\ Loaded!Init
MCNext ==
    /\ hasty \/ crossed => scene = "workflow"
    /\ \/ scene = "twin" /\ Twin!Next
       \/ scene = "tabs" /\ Tabs!Next
       \/ scene = "reload" /\ Reload!Next
       \/ scene = "steady" /\ Steady!Next
       \/ scene = "loaded" /\ Loaded!Next
       \/ scene = "workflow" /\ Workflow!Next
    /\ UNCHANGED scene
MCSpec == MCInit /\ [][MCNext]_<<vars, scene>> /\ Fairness

\* Ask the Twin, asked in time: no piece of an answer is shown twice (:511).
TwinNoTwice == scene = "twin" /\ ~hasty => NoTwice

\* After a lost socket and a reload that finds no runner the page comes to show the
\* state of its session, or that it failed (:238), if the user asks in time.
ReloadRelearns == <>[](scene = "reload" => Shows \/ hasty)

\* A queued question is delivered, whatever becomes of the reload (AskTheTwin.tsx:186).
ReloadQueuedSent == scene = "reload" /\ twin.queued # 0 ~> twin.queued = 0

\* With no connection lost, a question is answered in whole or its failure is shown, if
\* the user asks in time and no create of another tab crosses this page's.
SteadyQuestionsEnd ==
    \A q \in Steady!Asks : scene = "steady" /\ asked = q ~> Whole(q) \/ SessionGone \/ hasty \/ crossed

\* With no connection lost, a wait for a workflow ends (:573).
WorkflowEnds == scene = "workflow" /\ conv.generating ~> ~conv.generating
=============================================================================
