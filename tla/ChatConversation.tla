-------------------------- MODULE ChatConversation --------------------------
(***************************************************************************)
(* One conversation of a chat page with a session on its runner: the       *)
(* requests, frames, reconnects and reloads of useChatWebSocket.ts, with   *)
(* AskTheTwin.tsx (Page = "twin": a single-slot queue of questions, each   *)
(* answered by a session this page creates) or chat/[id]/page.tsx (Page =  *)
(* "loaded": a session that existed) above it, and the relay               *)
(* (runner_chat_ws.py, chat_relay.py) and the runner below.                *)
(*                                                                         *)
(* A question is a number, an answer the items <<q, 1>> .. <<q, Chunks>>,  *)
(* the question itself <<q, 0>>; 0 is a question of another tab.  `down'   *)
(* holds what has been written to this page's socket, the relay's answers  *)
(* to its requests and the runner's frames alike; `inbox' is what the      *)
(* relay has published for the runner.  The runner broadcasts to every     *)
(* chat socket of the device, so another tab's sessions are heard here.    *)
(* The socket opens to one runner and is reopened when lost (ChatSocket).  *)
(* Left out: interrupt, close, rename, getOutput, the older runner whose   *)
(* frames name no run, malformed requests, and the wording of errors.      *)
(***************************************************************************)
EXTENDS Naturals, Sequences

CONSTANTS Page,           \* "twin" or "loaded"
          None,
          Chunks,         \* pieces of an answer
          RELOAD_MAX_RETRIES,
          MidReload,      \* the runner leaves only before a reload reaches it
          MaxAsks,        \* bound: questions asked here
          MaxOthers,      \* bound: sessions another tab creates
          MaxRuns,        \* bound: sessions
          MaxDrops,       \* bound: lost sockets
          MaxLeaves,      \* bound: times the runner's connection is lost
          MaxFailures     \* bound: sessions that fail and creates it refuses

ASSUME ConversationAssumption ==
    /\ Page \in {"twin", "loaded"}
    /\ None \notin Nat \cup {"page", "other"}
    /\ Chunks \in Nat \ {0}
    /\ RELOAD_MAX_RETRIES \in Nat
    /\ MidReload \in BOOLEAN
    /\ {MaxAsks, MaxOthers, MaxRuns, MaxDrops, MaxLeaves, MaxFailures} \subseteq Nat
    /\ Page = "loaded" => MaxAsks > 0 /\ MaxRuns > 0

VARIABLES
    conv,     \* the conversation the hook keeps: its run, its pending create, its state
    shown,    \* messages, as items
    stream,   \* streamingBufferRef
    probe,    \* the reload a reconnect sent: forwards pending, refused, retries, timer
    twin,     \* AskTheTwin: the queued question and hasSessionRef
    asked,    \* questions asked so far
    socket,   \* open; listening: the relay feeds it the runner's frames
    admitted, \* hasConnectedRef
    up,       \* requests the relay has not read
    down,     \* frames this page has not read
    here,     \* the runner is connected
    inbox,    \* requests published for it
    sess,     \* its sessions
    faults    \* drops, departures, failures and other tabs' creates so far

(* What has happened, for the properties that need it not to have; no       *)
(* action reads it.                                                         *)
VARIABLES
    hasty,    \* the user has asked before the page had what came before
    crossed   \* a create of another tab was answered like this page's, which was pending

page == <<conv, shown, stream, probe, twin, asked, admitted>>
net == <<socket, up, down>>
runner == <<here, inbox, sess>>
state == <<page, net, runner, faults>>
vars == <<state, hasty, crossed>>

Asks == 1 .. MaxAsks
Runs == 1 .. MaxRuns
States == {"disconnected", "initializing", "ready", "processing", "error", "not_found"}
Items == (0 .. MaxAsks) \X (0 .. Chunks)
RunKinds == {"state", "ack", "response", "output", "generated"}

Request(kind, run, q) == [kind |-> kind, run |-> run, q |-> q, probe |-> FALSE]
Frame(kind, run, body) == [kind |-> kind, run |-> run, body |-> body, probe |-> FALSE]

(* The answers to a create.  A session tells its task name, so whether this *)
(* page asked for it, another did under the same name or under a name of    *)
(* its own: the page cannot tell the first two apart.  A refusal tells      *)
(* nothing.                                                                 *)
Askers == {"page", "namesake", "stranger"}
Created(r, of) == Frame("created", None, [id |-> r, of |-> of])
Denied(by) == Frame("denied", None, by)

Session(by, q) == [by |-> by, state |-> "initializing", todo |-> <<q>>, given |-> 0,
                   log |-> <<<<q, 0>>>>, generating |-> FALSE]
NoSession == [by |-> None, state |-> "not_found", todo |-> <<>>, given |-> 0,
              log |-> <<>>, generating |-> FALSE]

(* A session is sent a message, starts, says a piece, finishes an answer,   *)
(* generates a workflow or has done so, fails, and is lost with its runner. *)
Heard(s, q) == [s EXCEPT !.state = "processing", !.todo = Append(@, q),
                         !.log = Append(@, <<q, 0>>)]
Begun(s) == [s EXCEPT !.state = "processing"]
NextPiece(s) == <<Head(s.todo), s.given + 1>>
Said(s) == [s EXCEPT !.given = @ + 1, !.log = Append(@, NextPiece(s))]
Answered(s) == [s EXCEPT !.state = IF Tail(s.todo) = <<>> THEN "ready" ELSE "processing",
                         !.todo = Tail(@), !.given = 0]
Making(s, b) == [s EXCEPT !.generating = b]
Broken(s) == [s EXCEPT !.state = "error", !.todo = <<>>, !.given = 0]
Lost(s) == [NoSession EXCEPT !.by = s.by]

SetOf(seq) == {seq[i] : i \in 1 .. Len(seq)}

Requests == [kind : {"create"}, run : {None}, q : Asks, probe : {FALSE}]
            \cup [kind : {"message", "state", "output", "generate"}, run : Runs,
                  q : 0 .. MaxAsks, probe : BOOLEAN]
Sessions == [by : {None, "page", "other"}, state : States, todo : Seq(0 .. MaxAsks),
             given : 0 .. Chunks, log : Seq(Items), generating : BOOLEAN]
FrameOK(f) ==
    /\ DOMAIN f = {"kind", "run", "body", "probe"} /\ f.probe \in BOOLEAN
    /\ f.kind \in RunKinds => f.run \in Runs
    /\ f.kind = "created" => f.body \in [id : Runs, of : Askers]
    /\ f.kind = "denied" => f.body \in {"page", "other"}
    /\ f.kind = "state" => f.body \in States
    /\ f.kind = "ack" => f.body \in BOOLEAN
    /\ f.kind = "response" => f.body \in Items
    /\ f.kind = "output" => f.body \in Seq(Items)

StateOK ==
    /\ conv \in [run : Runs \cup {None}, loaded : Runs \cup {None}, pending : BOOLEAN,
                 state : States, error : BOOLEAN, generating : BOOLEAN]
    /\ shown \in Seq(Items) /\ stream \in Seq(Items)
    /\ probe \in [due : 0 .. 2, refused : BOOLEAN, retries : 0 .. RELOAD_MAX_RETRIES,
                  armed : BOOLEAN]
    /\ twin \in [queued : 0 .. MaxAsks, has : BOOLEAN]
    /\ asked \in 0 .. MaxAsks /\ admitted \in BOOLEAN /\ here \in BOOLEAN
    /\ socket \in [open : BOOLEAN, listening : BOOLEAN]
    /\ up \in Seq(Requests) /\ inbox \in Seq(Requests)
    /\ down \in Seq(SetOf(down)) /\ \A f \in SetOf(down) : FrameOK(f)
    /\ sess \in [Runs -> Sessions]
    /\ faults \in [drops : Nat, leaves : Nat, failures : Nat, others : Nat]
TypeOK == StateOK /\ hasty \in BOOLEAN /\ crossed \in BOOLEAN

(* The loaded session has a question of an earlier page still to answer.    *)
Init ==
    /\ LET run == IF Page = "loaded" THEN 1 ELSE None IN
         conv = [run |-> run, loaded |-> run, pending |-> FALSE, state |-> "disconnected",
                 error |-> FALSE, generating |-> FALSE]
    /\ sess = [r \in Runs |-> IF Page = "loaded" /\ r = 1
                              THEN [Session("page", 1) EXCEPT !.state = "processing"]
                              ELSE NoSession]
    /\ asked = IF Page = "loaded" THEN 1 ELSE 0
    /\ shown = <<>> /\ stream = <<>>
    /\ probe = [due |-> 0, refused |-> FALSE, retries |-> 0, armed |-> FALSE]
    /\ twin = [queued |-> 0, has |-> FALSE]
    /\ socket = [open |-> FALSE, listening |-> FALSE] /\ admitted = FALSE
    /\ up = <<>> /\ down = <<>> /\ here = TRUE /\ inbox = <<>>
    /\ faults = [drops |-> 0, leaves |-> 0, failures |-> 0, others |-> 0]
    /\ hasty = FALSE /\ crossed = FALSE
-----------------------------------------------------------------------------
(* The socket.  onopen sends the reload; it is a probe after a first socket *)
(* was admitted.  The relay listens for the runner only if it is connected  *)
(* when the socket arrives.                                                 *)
StateOnly == FALSE
WithTranscript == conv.run = conv.loaded

ReloadOf(isProbe) ==
    LET ask(kind) == [Request(kind, conv.run, 0) EXCEPT !.probe = isProbe] IN
    IF conv.run = None THEN <<>>
    ELSE IF WithTranscript THEN <<ask("state"), ask("output")>>
    ELSE <<ask("state")>>

Emptied == <<>>

Opens ==
    /\ ~socket.open
    /\ socket' = [open |-> TRUE, listening |-> here]
    /\ down' = <<Frame("connected", None, None)>>
    /\ up' = ReloadOf(admitted)
    /\ probe' = [due |-> IF admitted THEN Len(up') ELSE 0, refused |-> FALSE,
                 retries |-> 0, armed |-> FALSE]
    /\ UNCHANGED <<conv, shown, stream, twin, asked, admitted, runner, faults>>

Drops ==
    /\ socket.open /\ faults.drops < MaxDrops
    /\ faults' = [faults EXCEPT !.drops = @ + 1]
    /\ socket' = [open |-> FALSE, listening |-> FALSE]
    /\ up' = <<>> /\ down' = <<>>
    /\ shown' = shown \o stream /\ stream' = Emptied
    /\ probe' = [probe EXCEPT !.armed = FALSE]
    /\ UNCHANGED <<conv, twin, asked, admitted, runner>>

RetryFires ==
    /\ probe.armed
    /\ up' = up \o ReloadOf(TRUE)
    /\ probe' = [due |-> Len(ReloadOf(TRUE)), refused |-> FALSE,
                 retries |-> probe.retries + 1, armed |-> FALSE]
    /\ UNCHANGED <<conv, shown, stream, twin, asked, admitted, socket, down, runner, faults>>
-----------------------------------------------------------------------------
(* The relay and the runner.                                                *)
Broadcast(frames) ==
    down' = IF here /\ socket.open /\ socket.listening THEN down \o frames ELSE down

RelayReads ==
    /\ up # <<>>
    /\ up' = Tail(up)
    /\ LET r == Head(up)
           answer == [Frame(IF here THEN "sent" ELSE "refused", None, r.kind)
                      EXCEPT !.probe = r.probe] IN
         /\ down' = Append(down, answer)
         /\ inbox' = IF here THEN Append(inbox, r) ELSE inbox
    /\ UNCHANGED <<page, socket, here, sess, faults>>

Fresh(r) == sess[r].by = None /\ \A s \in 1 .. r - 1 : sess[s].by # None
Fail == faults.failures < MaxFailures /\ faults' = [faults EXCEPT !.failures = @ + 1]

Grants(by, q, of) ==
    \E r \in Runs :
        /\ Fresh(r)
        /\ sess' = [sess EXCEPT ![r] = Session(by, q)]
        /\ Broadcast(<<Created(r, of)>>)
Denies(by) == Broadcast(<<Denied(by)>>) /\ UNCHANGED sess

Answers(r) ==
    CASE r.kind = "state" ->
           Broadcast(<<Frame("state", r.run, sess[r.run].state)>>) /\ UNCHANGED sess
      [] r.kind = "output" ->
           Broadcast(<<Frame("output", r.run, sess[r.run].log)>>) /\ UNCHANGED sess
      [] r.kind = "generate" ->
           sess' = [sess EXCEPT ![r.run] = Making(@, TRUE)] /\ UNCHANGED down
      [] r.kind = "message" ->
           LET live == sess[r.run].state \in {"initializing", "processing", "ready"} IN
           /\ Broadcast(<<Frame("ack", r.run, live)>>)
           /\ sess' = IF live THEN [sess EXCEPT ![r.run] = Heard(@, r.q)] ELSE sess

RunnerReads ==
    /\ inbox # <<>> /\ inbox' = Tail(inbox)
    /\ LET r == Head(inbox) IN
         IF r.kind = "create"
         THEN \/ Grants("page", r.q, "page") /\ UNCHANGED faults
              \/ Denies("page") /\ Fail
         ELSE Answers(r) /\ UNCHANGED faults
    /\ UNCHANGED <<page, socket, up, here>>

(* A session starts, answers what it was asked piece by piece, and goes     *)
(* idle; the runner broadcasts each transition and each piece.              *)
Works(r) ==
    /\ LET s == sess[r] IN
       \/ /\ s.state = "initializing"
          /\ sess' = [sess EXCEPT ![r] = Begun(@)]
          /\ Broadcast(<<Frame("state", r, "processing")>>)
       \/ /\ s.state = "processing" /\ s.given < Chunks
          /\ sess' = [sess EXCEPT ![r] = Said(@)]
          /\ Broadcast(<<Frame("response", r, NextPiece(s))>>)
       \/ /\ s.state = "processing" /\ s.given = Chunks
          /\ sess' = [sess EXCEPT ![r] = Answered(@)]
          /\ IF Tail(s.todo) = <<>> THEN Broadcast(<<Frame("state", r, "ready")>>)
             ELSE UNCHANGED down
       \/ /\ s.generating
          /\ sess' = [sess EXCEPT ![r] = Making(@, FALSE)]
          /\ Broadcast(<<Frame("generated", r, None)>>)
    /\ UNCHANGED <<page, socket, up, here, inbox, faults>>

SessionFails(r) ==
    /\ sess[r].state \in {"initializing", "processing"} /\ Fail
    /\ sess' = [sess EXCEPT ![r] = Broken(@)]
    /\ Broadcast(<<Frame("state", r, "error")>>)
    /\ UNCHANGED <<page, socket, up, here, inbox>>

(* Another tab on this device creates a session, or is refused one.  Every  *)
(* tab of AskTheTwin gives one constant task name, a page of its own another. *)
OtherCreates ==
    /\ here /\ faults.others < MaxOthers
    /\ (\E of \in Askers \ {"page"} : Grants("other", 0, of)) \/ Denies("other")
    /\ faults' = [faults EXCEPT !.others = @ + 1]
    /\ UNCHANGED <<page, socket, up, here, inbox>>

(* The runner's connection is lost, with its process or without: what was   *)
(* published and not read is lost, and the chat sockets are told.           *)
RunnerLeaves ==
    /\ here /\ faults.leaves < MaxLeaves
    /\ MidReload => probe.due > 0 /\ Len(up) = probe.due
    /\ here' = FALSE /\ inbox' = <<>>
    /\ Broadcast(<<Frame("gone", None, None)>>)
    /\ \/ faults' = [faults EXCEPT !.leaves = @ + 1] /\ UNCHANGED sess
       \/ /\ faults.failures < MaxFailures
          /\ faults' = [faults EXCEPT !.leaves = @ + 1, !.failures = @ + 1]
          /\ sess' = [r \in Runs |-> Lost(sess[r])]
    /\ UNCHANGED <<page, socket, up>>

RunnerReturns ==
    /\ ~here /\ here' = TRUE
    /\ UNCHANGED <<page, net, inbox, sess, faults>>
-----------------------------------------------------------------------------
(* handleMessage: one frame, and what this page makes of it.                *)
Take(kind) == down # <<>> /\ Head(down).kind = kind /\ down' = Tail(down)
Kept == UNCHANGED <<asked, socket, runner, faults>>

(* A frame that names a run is this conversation's only if it names its own. *)
AnyRun(f) == TRUE
Mine(f) == f.run = conv.run

TakeForeign ==
    /\ down # <<>> /\ Head(down).kind \in RunKinds /\ ~Mine(Head(down))
    /\ down' = Tail(down)
    /\ Kept /\ UNCHANGED <<conv, shown, stream, probe, twin, admitted, up>>

TakeConnected ==
    /\ Take("connected") /\ admitted' = TRUE
    /\ Kept /\ UNCHANGED <<conv, shown, stream, probe, twin, up>>

Asked == conv.pending
AnyTask(f) == TRUE
TaskIsMine(f) == f.body.of # "stranger"

TakeCreated ==
    /\ Take("created")
    /\ LET f == Head(down) IN
         IF Asked /\ TaskIsMine(f)
         THEN /\ conv' = [conv EXCEPT !.pending = FALSE, !.run = f.body.id]
              /\ twin' = [twin EXCEPT !.has = TRUE]
         ELSE UNCHANGED <<conv, twin>>
    /\ Kept /\ UNCHANGED <<shown, stream, probe, admitted, up>>

TakeDenied ==
    /\ Take("denied")
    /\ conv' = IF Asked THEN [conv EXCEPT !.pending = FALSE, !.error = TRUE, !.state = "error"]
               ELSE conv
    /\ Kept /\ UNCHANGED <<shown, stream, probe, twin, admitted, up>>

TakeResponse ==
    /\ Take("response") /\ Mine(Head(down))
    /\ stream' = Append(stream, Head(down).body)
    /\ Kept /\ UNCHANGED <<conv, shown, probe, twin, admitted, up>>

(* An error state's words replace the last error; the broadcast has none.   *)
TakeState ==
    /\ Take("state") /\ Mine(Head(down))
    /\ LET st == Head(down).body IN
         /\ conv' = [conv EXCEPT !.state = st, !.error = IF st = "error" THEN FALSE ELSE @]
         /\ IF st = "ready" THEN shown' = shown \o stream /\ stream' = Emptied
            ELSE UNCHANGED <<shown, stream>>
    /\ Kept /\ UNCHANGED <<probe, twin, admitted, up>>

TakeAck ==
    /\ Take("ack") /\ Mine(Head(down))
    /\ conv' = IF Head(down).body THEN [conv EXCEPT !.state = "processing"]
               ELSE [conv EXCEPT !.error = TRUE]
    /\ Kept /\ UNCHANGED <<shown, stream, probe, twin, admitted, up>>

TakeOutput ==
    /\ Take("output") /\ Mine(Head(down))
    /\ shown' = IF Head(down).body = <<>> THEN shown ELSE Head(down).body
    /\ Kept /\ UNCHANGED <<conv, stream, probe, twin, admitted, up>>

WaitsOn == conv.generating
WaitEnds == FALSE

TakeGenerated ==
    /\ Take("generated") /\ Mine(Head(down))
    /\ conv' = [conv EXCEPT !.generating = WaitEnds]
    /\ Kept /\ UNCHANGED <<shown, stream, probe, twin, admitted, up>>

TakeGone ==
    /\ Take("gone")
    /\ conv' = [conv EXCEPT !.state = "disconnected"]
    /\ Kept /\ UNCHANGED <<shown, stream, probe, twin, admitted, up>>

(* settleReloadForward: the last answer of a refused reload arms the retry, *)
(* or gives up aloud.                                                       *)
ProbePending == probe.due > 0
NotCounted == probe.due
Counted == probe.due - 1
RetriesLeft == probe.retries < RELOAD_MAX_RETRIES

Forgiven(refused) == FALSE
Refused(refused) == probe.refused \/ refused

SettleReload(refused) ==
    LET over == Counted = 0 /\ Refused(refused) IN
    /\ probe' = [probe EXCEPT !.due = Counted, !.refused = Refused(refused),
                              !.armed = @ \/ (over /\ RetriesLeft)]
    /\ conv' = IF over /\ ~RetriesLeft THEN [conv EXCEPT !.error = TRUE] ELSE conv

TakeSent ==
    /\ Take("sent")
    /\ IF Head(down).body \in {"state", "output"} /\ ProbePending THEN SettleReload(FALSE)
       ELSE UNCHANGED <<probe, conv>>
    /\ Kept /\ UNCHANGED <<shown, stream, twin, admitted, up>>

ReportRefusal ==
    /\ conv' = [conv EXCEPT !.error = TRUE, !.generating = WaitEnds]
    /\ UNCHANGED probe
TakeRefused ==
    /\ Take("refused")
    /\ IF ProbePending THEN SettleReload(TRUE) ELSE ReportRefusal
    /\ Kept /\ UNCHANGED <<shown, stream, twin, admitted, up>>
-----------------------------------------------------------------------------
(* Requests of the user.                                                    *)
Failed == conv.state = "error" \/ conv.error
SessionGone == Failed \/ conv.state = "not_found"
Busy == \/ twin.queued # 0
        \/ ~SessionGone /\ (conv.state = "processing" \/ stream # <<>>)

Sends(request) == up' = IF socket.open THEN Append(up, request) ELSE up

KeptRun == conv.run
NoRunYet == None

CreateSession(q) ==
    /\ conv' = [conv EXCEPT !.run = NoRunYet, !.loaded = None, !.state = "disconnected",
                            !.error = ~socket.open, !.pending = socket.open]
    /\ shown' = Append(shown, <<q, 0>>) /\ stream' = <<>>
    /\ Sends(Request("create", None, q))

SendMessage(q) ==
    IF conv.run = None THEN UNCHANGED <<conv, shown, stream, up>>
    ELSE /\ shown' = Append(shown, <<q, 0>>) /\ stream' = <<>>
         /\ conv' = [conv EXCEPT !.error = ~socket.open]
         /\ Sends(Request("message", conv.run, q))

Whole(q) == \A k \in 1 .. Chunks : <<q, k>> \in SetOf(shown) \cup SetOf(stream)

(* AskTheTwin: submit, forget a session that can no longer answer, deliver. *)
Submit ==
    /\ Page = "twin" /\ ~Busy /\ asked < MaxAsks
    /\ asked' = asked + 1
    /\ twin' = [twin EXCEPT !.queued = asked + 1]
    /\ UNCHANGED <<conv, shown, stream, probe, admitted, net, runner, faults>>

Forget ==
    /\ Page = "twin" /\ twin.has /\ SessionGone
    /\ twin' = [twin EXCEPT !.has = FALSE]
    /\ UNCHANGED <<conv, shown, stream, probe, asked, admitted, net, runner, faults>>

Has == twin.has /\ ~SessionGone
StartsAfresh == ~Has /\ socket.open /\ (conv.state = "disconnected" \/ SessionGone)
Deliver ==
    /\ twin.queued # 0
    /\ \/ StartsAfresh /\ CreateSession(twin.queued)
       \/ Has /\ conv.state = "ready" /\ SendMessage(twin.queued)
    /\ twin' = [queued |-> 0, has |-> Has]
    /\ UNCHANGED <<probe, asked, admitted, socket, down, runner, faults>>

(* chat/[id]: a message, and a workflow from the conversation.              *)
Sendable == Page = "loaded" /\ socket.open /\ conv.state \in {"ready", "processing"}

AskLoaded ==
    /\ Sendable /\ asked < MaxAsks
    /\ asked' = asked + 1
    /\ SendMessage(asked + 1)
    /\ UNCHANGED <<probe, twin, admitted, socket, down, runner, faults>>

GenerateWorkflow ==
    /\ Page = "loaded" /\ socket.open /\ ~conv.generating /\ Len(shown) >= 2
    /\ conv' = [conv EXCEPT !.generating = TRUE]
    /\ Sends(Request("generate", conv.run, 0))
    /\ UNCHANGED <<shown, stream, probe, twin, asked, admitted, socket, down, runner, faults>>
-----------------------------------------------------------------------------
Frames == \/ TakeForeign \/ TakeConnected \/ TakeCreated \/ TakeDenied \/ TakeResponse
          \/ TakeState \/ TakeAck \/ TakeOutput \/ TakeGenerated \/ TakeGone
          \/ TakeSent \/ TakeRefused
Users == Submit \/ AskLoaded \/ GenerateWorkflow
Faults == Drops \/ RunnerLeaves \/ OtherCreates \/ \E r \in Runs : SessionFails(r)
Working == \E r \in Runs : Works(r)

Step == \/ Opens \/ RetryFires \/ RelayReads \/ RunnerReads \/ RunnerReturns \/ Working
        \/ Frames \/ Forget \/ Deliver \/ Users \/ Faults

(* The user asks in time: the page shows the last answer in whole or its    *)
(* failure and no create is unanswered; a loaded one shows an idle session  *)
(* and no transcript is under way.                                          *)
TranscriptComing ==
    \E x \in SetOf(up) \cup SetOf(inbox) \cup SetOf(down) : x.kind = "output"
InTime ==
    IF Page = "twin" THEN asked = 0 \/ (~conv.pending /\ (SessionGone \/ Whole(asked)))
    ELSE conv.state = "ready" /\ ~TranscriptComing

(* While this page's create is pending, an answer is under way to another   *)
(* tab's that this page cannot tell from its own.                           *)
Alien(f) == \/ f.kind = "created" /\ f.body.of = "namesake"
            \/ f.kind = "denied" /\ f.body = "other"
Crossing == conv.pending /\ \E f \in SetOf(down) : Alien(f)

Record == /\ hasty' = (hasty \/ (asked' # asked /\ ~InTime))
          /\ crossed' = (crossed \/ Crossing)
Next == Step /\ Record

Spec == Init /\ [][Next]_vars

Fairness ==
    /\ WF_state(Opens) /\ WF_state(RetryFires) /\ WF_state(RelayReads)
    /\ WF_state(RunnerReads) /\ WF_state(RunnerReturns) /\ WF_state(Frames)
    /\ WF_state(Forget) /\ WF_state(Deliver)
    /\ \A r \in Runs : WF_state(Works(r))
FairSpec == Spec /\ Fairness
-----------------------------------------------------------------------------
(* No text of another tab's session stands in this page's transcript or     *)
(* answer: "the one frame that introduces this conversation's run is the    *)
(* `chat_created` it asked for" (useChatWebSocket.ts:392).  A create that   *)
(* another tab makes under the same task name while this page's is pending  *)
(* is taken for it (:428), so it is not kept once `crossed'.                *)
AllTextOwn == \A x \in SetOf(shown) \cup SetOf(stream) : x[1] # 0
OwnText == crossed \/ AllTextOwn

(* Every piece of an answer stands under its own question, with no other    *)
(* question between.                                                        *)
LastAsk(n) == {i \in 1 .. n : shown[i][2] = 0 /\ \A j \in i + 1 .. n : shown[j][2] > 0}
Placed ==
    /\ \A n \in 1 .. Len(shown) : \E i \in LastAsk(n) : shown[n][1] = shown[i][1]
    /\ \A x \in SetOf(stream) : \E i \in LastAsk(Len(shown)) : x[1] = shown[i][1]

(* So it is in a conversation this page created (:735), for a user who asks *)
(* in time and as long as no create of another tab has crossed this page's. *)
CreatedPlaced == conv.loaded = None /\ ~hasty /\ ~crossed => Placed

(* No piece of an answer is shown twice.                                    *)
NoTwice == LET all == shown \o stream IN
    \A i, j \in 1 .. Len(all) : all[i] = all[j] => i = j

(* The relay's refusal of a probe is never reported, and its refusal of     *)
(* anything the user asked for always is: "while this is non-zero an        *)
(* `error` of the relay's is its failure to forward one of them" (:188).    *)
RefusalsSorted ==
    [][TakeRefused =>
         LET f == Head(down) IN
         /\ ~f.probe => conv'.error
         /\ f.probe => probe' # probe]_vars

(* So they are until the reload is retried.                                 *)
FirstRefusalsSorted ==
    [][TakeRefused /\ probe.retries = 0 =>
         LET f == Head(down) IN
         /\ ~f.probe => conv'.error
         /\ f.probe => probe' # probe]_vars

(* "Busy from submit until the answer finishes" (AskTheTwin.tsx:224).       *)
BusyUntilAnswered == (asked > 0 /\ ~SessionGone /\ ~Whole(asked)) => Busy

(* At rest a page has seen all its session said: the reload of a reconnect  *)
(* is for "what the gap missed: the relay does not replay frames, so a      *)
(* state change or the end of an answer that happened while this socket was *)
(* down is otherwise never seen" (:304).                                    *)
AtRest == /\ socket.open /\ up = <<>> /\ down = <<>> /\ inbox = <<>>
          /\ conv.run # None /\ sess[conv.run].state = "ready" /\ conv.state = "ready"
NothingMissed == AtRest => SetOf(sess[conv.run].log) \subseteq SetOf(shown)

(* So it has in a loaded conversation whose runner stays and whose user     *)
(* writes to an idle session, with no transcript under way: a message sent  *)
(* into an answer drops the pieces that have come (:725).                   *)
LoadedMissesNothing ==
    conv.loaded # None /\ faults.leaves = 0 /\ ~hasty => NothingMissed

(* At rest a loaded conversation shows the runner's transcript: "its        *)
(* transcript is the runner's to supply" (:181).                            *)
TranscriptIsRunners == AtRest /\ conv.run = conv.loaded => shown = sess[conv.run].log

(* "Add user message to local state immediately" (:718): what the user sent *)
(* is still in the conversation at rest.                                    *)
AsksKept == AtRest => \A q \in 1 .. asked : <<q, 0>> \in SetOf(shown)

(* A page that stays open comes to show the state its session is in, or     *)
(* says that it failed.                                                     *)
Shows == conv.run = None \/ SessionGone \/ conv.state = sess[conv.run].state
Relearns == <>[]Shows

(* The latest question is answered in whole, or its failure is shown, if    *)
(* the user has asked in time and no create has crossed this page's.        *)
QuestionsEnd == \A q \in Asks : asked = q ~> Whole(q) \/ SessionGone \/ hasty \/ crossed

(* A queued question is delivered.                                          *)
QueuedSent == twin.queued # 0 ~> twin.queued = 0

(* A wait for a workflow ends.                                              *)
WorkflowWaitEnds == conv.generating ~> ~conv.generating
=============================================================================
