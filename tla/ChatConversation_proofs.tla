----------------------- MODULE ChatConversation_proofs -----------------------
(***************************************************************************)
(* Theorems of ChatConversation for any number of questions, sessions,     *)
(* lost sockets, departures, failures and retries: the state is well       *)
(* typed; no text of another tab reaches a page's conversation when tabs   *)
(* name their sessions apart (OwnText); until a reload is retried, the     *)
(* relay's refusals reach whom they answer (FirstRefusalsSorted); and a    *)
(* loaded conversation whose runner stays misses nothing at rest           *)
(* (LoadedMissesNothing).                                                  *)
(***************************************************************************)
EXTENDS ChatConversation, FiniteSetTheorems, TLAPS

(* Sequences: a step appends to one, or takes its head.                     *)
Longer(t, s, x) ==
    /\ Len(t) = Len(s) + 1 /\ SetOf(t) = SetOf(s) \cup {x}
    /\ \A i \in 1 .. Len(s) : t[i] = s[i]
    /\ t[Len(s) + 1] = x
Shorter(t, s) ==
    /\ s # <<>> /\ Len(s) = Len(t) + 1 /\ SetOf(s) = SetOf(t) \cup {s[1]}
    /\ \A i \in 1 .. Len(t) : t[i] = s[i + 1]

\* A sequence is one of its own elements.
LEMMA SeqFacts ==
    ASSUME NEW S, NEW s \in Seq(S)
    PROVE  /\ Len(s) \in Nat /\ SetOf(s) \subseteq S /\ s \in Seq(SetOf(s))
           /\ \A i \in 1 .. Len(s) : s[i] \in SetOf(s)
           /\ s = <<>> <=> Len(s) = 0
           /\ SetOf(<<>>) = {} /\ <<>> \in Seq(SetOf(<<>>))
<1>1. Len(s) \in Nat /\ \A i \in 1 .. Len(s) : s[i] \in S
  OBVIOUS
<1>2. s = <<>> <=> Len(s) = 0
  OBVIOUS
<1>3. SetOf(<<>>) = {}
  BY DEF SetOf
<1>4. s \in Seq(SetOf(s))
  <2>1. \A i \in 1 .. Len(s) : s[i] \in SetOf(s)
    BY DEF SetOf
  <2> DEFINE T == SetOf(s)
  <2> HIDE DEF T
  <2>2. \A i \in 1 .. Len(s) : s[i] \in T
    BY <2>1 DEF T
  <2>3. s \in Seq(T)
    BY <1>1, <2>2, SMT
  <2> QED BY <2>3 DEF T
<1> QED
  BY <1>1, <1>2, <1>3, <1>4 DEF SetOf

\* Append, by index and by element.
LEMMA AppendSeq ==
    ASSUME NEW S, NEW s \in Seq(S), NEW x \in S
    PROVE  Append(s, x) \in Seq(S) /\ Longer(Append(s, x), s, x)
<1> DEFINE t == Append(s, x)
<1>1. t \in Seq(S) /\ Len(s) \in Nat /\ Len(t) = Len(s) + 1 /\ t[Len(s) + 1] = x
  BY SMT
<1>2. \A i \in 1 .. Len(s) : t[i] = s[i]
  BY SMT
<1> HIDE DEF t
<1>3. SetOf(t) = SetOf(s) \cup {x}
  BY <1>1, <1>2 DEF SetOf
<1> QED
  BY <1>1, <1>2, <1>3 DEF Longer, t

\* Tail and Head, by index and by element.
LEMMA TailSeq ==
    ASSUME NEW S, NEW s \in Seq(S), s # <<>>
    PROVE  /\ Tail(s) \in Seq(S) /\ Shorter(Tail(s), s)
           /\ Head(s) = s[1] /\ Head(s) \in SetOf(s)
<1> DEFINE t == Tail(s)
<1>1. t \in Seq(S) /\ Len(t) \in Nat /\ Len(s) = Len(t) + 1 /\ Head(s) = s[1]
  BY SMT
<1>2. \A i \in 1 .. Len(t) : t[i] = s[i + 1]
  BY SMT
<1> HIDE DEF t
<1>3. SetOf(s) = SetOf(t) \cup {s[1]}
  <2>1. ASSUME NEW i \in 1 .. Len(s), i # 1 PROVE s[i] \in SetOf(t)
    <3>1. i - 1 \in 1 .. Len(t) /\ t[i - 1] = s[i]
      BY <1>1, <1>2, <2>1
    <3> QED BY <3>1 DEF SetOf
  <2>2. ASSUME NEW i \in 1 .. Len(t) PROVE t[i] \in SetOf(s)
    <3>1. i + 1 \in 1 .. Len(s) /\ t[i] = s[i + 1]
      BY <1>1, <1>2
    <3> QED BY <3>1 DEF SetOf
  <2>3. 1 \in 1 .. Len(s)
    BY <1>1
  <2> QED BY <2>1, <2>2, <2>3 DEF SetOf
<1> QED
  BY <1>1, <1>2, <1>3 DEF Shorter, t, SetOf

\* Concatenation, by index and by element.
LEMMA ConcatSeq ==
    ASSUME NEW S, NEW s \in Seq(S), NEW t \in Seq(S)
    PROVE  /\ s \o t \in Seq(S) /\ Len(s \o t) = Len(s) + Len(t)
           /\ SetOf(s \o t) = SetOf(s) \cup SetOf(t)
           /\ \A i \in 1 .. Len(s) : (s \o t)[i] = s[i]
           /\ \A i \in 1 .. Len(t) : (s \o t)[Len(s) + i] = t[i]
           /\ \A i \in Len(s) + 1 .. Len(s) + Len(t) : (s \o t)[i] = t[i - Len(s)]
<1> DEFINE u == s \o t
<1>1. u \in Seq(S) /\ Len(s) \in Nat /\ Len(t) \in Nat /\ Len(u) = Len(s) + Len(t)
  BY SMT
<1>2. \A i \in 1 .. Len(s) : u[i] = s[i]
  BY SMT
<1>3. \A i \in Len(s) + 1 .. Len(s) + Len(t) : u[i] = t[i - Len(s)]
  BY SMT
<1> HIDE DEF u
<1>4. \A i \in 1 .. Len(t) : u[Len(s) + i] = t[i]
  BY <1>1, <1>3
<1>5. SetOf(u) = SetOf(s) \cup SetOf(t)
  <2>1. ASSUME NEW i \in 1 .. Len(u) PROVE u[i] \in SetOf(s) \cup SetOf(t)
    <3>1. CASE i <= Len(s)
      BY <1>1, <1>2, <3>1 DEF SetOf
    <3>2. CASE i > Len(s)
      <4>1. i - Len(s) \in 1 .. Len(t) /\ u[i] = t[i - Len(s)]
        BY <1>1, <1>3, <3>2
      <4> QED BY <4>1 DEF SetOf
    <3> QED BY <1>1, <3>1, <3>2
  <2>2. ASSUME NEW i \in 1 .. Len(s) PROVE s[i] \in SetOf(u)
    BY <1>1, <1>2 DEF SetOf
  <2>3. ASSUME NEW i \in 1 .. Len(t) PROVE t[i] \in SetOf(u)
    <3>1. Len(s) + i \in 1 .. Len(u)
      BY <1>1
    <3> QED BY <3>1, <1>4 DEF SetOf
  <2> QED BY <2>1, <2>2, <2>3 DEF SetOf
<1> QED
  BY <1>1, <1>2, <1>3, <1>4, <1>5 DEF u
-----------------------------------------------------------------------------
(* A session at work has something to answer.                               *)
AtWork == \A r \in Runs : sess[r].state \in {"initializing", "processing"} => sess[r].todo # <<>>

(* A loaded page keeps its one session, and creates none.                   *)
OnePage ==
    /\ Page = "loaded" => /\ conv.run = 1 /\ conv.loaded = 1
                          /\ ~conv.pending /\ twin.queued = 0
    /\ Page = "twin" => conv.loaded = None

(* A closed socket carries nothing, and a retry waits on an open one only.  *)
Wire == /\ ~socket.open => up = <<>> /\ down = <<>>
        /\ probe.armed => socket.open /\ probe.retries < RELOAD_MAX_RETRIES

Typed == StateOK /\ AtWork /\ OnePage /\ Wire
-----------------------------------------------------------------------------
(* Requests and frames are about sessions that were created; what was not   *)
(* created does nothing.                                                    *)
Known(r) == r \in Runs /\ sess[r].by # None
Born == \A r \in Runs : sess[r].by = None => sess[r].state = "not_found" /\ ~sess[r].generating
FrameKnown(f) == /\ f.kind \in RunKinds => Known(f.run)
                 /\ f.kind = "created" => Known(f.body.id)
RequestKnown(x) == x.kind # "create" => Known(x.run)
KnownInv ==
    /\ Born /\ (conv.run # None => Known(conv.run))
    /\ \A x \in SetOf(up) \cup SetOf(inbox) : RequestKnown(x)
    /\ \A f \in SetOf(down) : FrameKnown(f)
-----------------------------------------------------------------------------
(* The run of the conversation is one this page had created, which has only *)
(* been asked what this page asked: a question of another tab is 0.         *)
Ours(r) == r \in Runs /\ sess[r].by = "page"
Clean(items) == \A x \in SetOf(items) : x[1] # 0
OwnFrame(f) ==
    /\ f.kind = "created" /\ f.body.of = "page" => Ours(f.body.id)
    /\ f.kind = "response" /\ Ours(f.run) => f.body[1] # 0
    /\ f.kind = "output" /\ Ours(f.run) => Clean(f.body)
OwnRequest(x) ==
    /\ x.kind # "create" => Ours(x.run)
    /\ x.kind \in {"create", "message"} => x.q # 0
OwnInv ==
    /\ Clean(shown) /\ Clean(stream)
    /\ conv.run # None => Ours(conv.run)
    /\ \A x \in SetOf(up) \cup SetOf(inbox) : OwnRequest(x)
    /\ \A f \in SetOf(down) : OwnFrame(f)
    /\ \A r \in Runs : Ours(r) => 0 \notin SetOf(sess[r].todo) /\ Clean(sess[r].log)
-----------------------------------------------------------------------------
(* probe.due counts the probes the relay has not answered or whose answer   *)
(* the page has not read, and every probe comes before the user's requests. *)
Probes(seq) == {i \in 1 .. Len(seq) : seq[i].probe}
Answer(f) == f.kind \in {"sent", "refused"}
ProbesFirst ==
    /\ \A i, j \in 1 .. Len(up) : i < j /\ up[j].probe => up[i].probe
    /\ \A i, j \in 1 .. Len(down) : i < j /\ Answer(down[i]) /\ down[j].probe => down[i].probe
    /\ Probes(up) # {} => \A i \in 1 .. Len(down) : Answer(down[i]) => down[i].probe
ProbesOf ==
    /\ \A x \in SetOf(up) : x.probe => x.kind \in {"state", "output"}
    /\ \A f \in SetOf(down) :
         f.probe => Answer(f) /\ (f.kind = "sent" => f.body \in {"state", "output"})
ProbeInv ==
    /\ ProbesOf
    /\ socket.open /\ probe.retries = 0 =>
         ProbesFirst /\ probe.due = Cardinality(Probes(up)) + Cardinality(Probes(down))
-----------------------------------------------------------------------------
(* A loaded conversation whose runner stays.                                *)
Coming(kind) == \E x \in SetOf(up) \cup SetOf(inbox) : x.kind = kind
Out(f) == f.kind = "output" /\ f.run = 1
Resp(f) == f.kind = "response" /\ f.run = 1
Brings(f, y) == (Resp(f) /\ f.body = y) \/ (Out(f) /\ y \in SetOf(f.body))

(* All requests are about its session; a transcript is asked for after the  *)
(* state; and a message is behind no request for a transcript.              *)
OutputAfter(s, i) == \E j \in i + 1 .. Len(s) : s[j].kind = "output"
StateThenOutput ==
    /\ \A i \in 1 .. Len(up) : up[i].kind = "state" => OutputAfter(up, i)
    /\ \A i \in 1 .. Len(inbox) : inbox[i].kind = "state" =>
         OutputAfter(inbox, i) \/ OutputAfter(up, 0)
Asking ==
    /\ here /\ socket.listening = socket.open /\ sess[1].by = "page"
    /\ \A x \in SetOf(up) \cup SetOf(inbox) : x.run = 1 /\ x.kind # "create"
    /\ socket.open => StateThenOutput
    /\ ~socket.open => stream = <<>>
Before(s) == \A i, j \in 1 .. Len(s) : i < j /\ s[i].kind = "output" => s[j].kind # "message"
MessagesFirst ==
    /\ Before(up) /\ Before(inbox)
    /\ (\E x \in SetOf(up) : x.kind = "message") => \A y \in SetOf(inbox) : y.kind # "output"
Messages ==
    /\ MessagesFirst
    /\ Coming("message") => \A f \in SetOf(down) : ~Out(f)
    /\ \A x \in SetOf(up) \cup SetOf(inbox) : x.kind = "message" => <<x.q, 0>> \in SetOf(shown)

(* What the session has said is shown, or on its way: also past a transcript *)
(* that has it not.                                                         *)
Covered ==
    socket.open /\ ~Coming("output") => \A y \in SetOf(sess[1].log) :
        /\ \/ y \in SetOf(shown) \cup SetOf(stream)
           \/ \E f \in SetOf(down) : Brings(f, y)
        /\ \A i \in 1 .. Len(down) : Out(down[i]) =>
             \E j \in i .. Len(down) : Brings(down[j], y)

(* What the page knows of the state after i frames: not ready, or that all  *)
(* pieces so far are in the messages.                                       *)
Ready(f) == f.kind = "state" /\ f.run = 1 /\ f.body = "ready"
Busied(f) ==
    /\ f.run = 1
    /\ \/ f.kind = "state" /\ f.body # "ready"
       \/ f.kind = "ack" /\ f.body
NotReady(n) ==
    \/ conv.state # "ready" /\ \A i \in 1 .. n : ~Ready(down[i])
    \/ \E i \in 1 .. n : Busied(down[i]) /\ \A j \in i + 1 .. n : ~Ready(down[j])
Flushed(n) ==
    \/ stream = <<>> /\ \A i \in 1 .. n : ~Resp(down[i])
    \/ \E i \in 1 .. n : Ready(down[i]) /\ \A j \in i + 1 .. n : ~Resp(down[j])
Answering == sess[1].state \in {"initializing", "processing"}
Following ==
    socket.open =>
      /\ Answering => NotReady(Len(down)) \/ Coming("state")
      /\ NotReady(Len(down)) \/ Flushed(Len(down)) \/ Coming("state")
      /\ \A n \in 0 .. Len(down) :
           \/ NotReady(n) \/ Flushed(n) \/ Coming("output")
           \/ \E i \in n + 1 .. Len(down) : Out(down[i])

Missing == Asking /\ Messages /\ Covered /\ Following
MissInv == faults.leaves = 0 => Missing
-----------------------------------------------------------------------------
(* What a step does to the sequences.                                       *)

\* The constants, as the proofs use them.
LEMMA Numbers ==
    /\ 1 \in 1 .. Chunks /\ 0 \in 0 .. Chunks /\ Chunks \in Nat
    /\ MaxAsks \in Nat /\ MaxRuns \in Nat /\ RELOAD_MAX_RETRIES \in Nat /\ 0 \in 0 .. MaxAsks
    /\ None \notin Runs /\ None # "page" /\ None # "other"
    /\ Page \in {"twin", "loaded"}
  BY ConversationAssumption DEF Runs

\* A broadcast of one frame.
LEMMA BroadcastShape ==
    ASSUME StateOK, NEW f, FrameOK(f), Broadcast(<<f>>)
    PROVE  /\ down' \in Seq(SetOf(down')) /\ \A g \in SetOf(down') : FrameOK(g)
           /\ \/ down' = down
              \/ here /\ socket.open /\ socket.listening /\ Longer(down', down, f)
<1>1. CASE here /\ socket.open /\ socket.listening
  <2> DEFINE S == SetOf(down) \cup {f}
  <2>1. down \in Seq(S) /\ f \in S
    <3>1. down \in Seq(SetOf(down))
      BY DEF StateOK
    <3> QED BY <3>1
  <2>2. down' = Append(down, f)
    <3>1. down' = down \o <<f>>
      BY <1>1 DEF Broadcast
    <3> HIDE DEF S
    <3>2. down \o <<f>> = Append(down, f)
      BY <2>1
    <3> QED BY <3>1, <3>2
  <2> HIDE DEF S
  <2>3. down' \in Seq(S) /\ Longer(down', down, f)
    BY <2>1, <2>2, AppendSeq
  <2>4. down' \in Seq(SetOf(down')) /\ SetOf(down') = SetOf(down) \cup {f}
    BY <2>3, SeqFacts DEF Longer
  <2> QED
    BY <1>1, <2>3, <2>4 DEF StateOK
<1>2. CASE ~(here /\ socket.open /\ socket.listening)
  BY <1>2 DEF Broadcast, StateOK
<1> QED
  BY <1>1, <1>2

\* A frame is taken from the head.
LEMMA TakeShape ==
    ASSUME StateOK, down # <<>>, down' = Tail(down)
    PROVE  /\ down' \in Seq(SetOf(down')) /\ \A g \in SetOf(down') : FrameOK(g)
           /\ Shorter(down', down)
           /\ Head(down) = down[1] /\ Head(down) \in SetOf(down) /\ FrameOK(Head(down))
<1>1. down \in Seq(SetOf(down))
  BY DEF StateOK
<1>2. /\ down' \in Seq(SetOf(down)) /\ Shorter(down', down)
      /\ Head(down) = down[1] /\ Head(down) \in SetOf(down)
  BY <1>1, TailSeq
<1>3. down' \in Seq(SetOf(down')) /\ SetOf(down') \subseteq SetOf(down)
  BY <1>2, SeqFacts
<1> QED
  BY <1>2, <1>3 DEF StateOK

\* A request of the user, and one the relay reads.
LEMMA SendsShape ==
    ASSUME StateOK, NEW x \in Requests, Sends(x)
    PROVE  /\ up' \in Seq(Requests)
           /\ (~socket.open /\ up' = up) \/ (socket.open /\ Longer(up', up, x))
<1>1. up \in Seq(Requests)
  BY DEF StateOK
<1>2. Append(up, x) \in Seq(Requests) /\ Longer(Append(up, x), up, x)
  BY <1>1, AppendSeq
<1> QED
  BY <1>1, <1>2, Zenon DEF Sends

\* A request with its probe mark: EXCEPT is seen through a variable only.
LEMMA RequestProbe ==
    ASSUME NEW k, NEW r, NEW q, NEW b
    PROVE  [Request(k, r, q) EXCEPT !.probe = b] = [kind |-> k, run |-> r, q |-> q, probe |-> b]
<1>1. ASSUME NEW R, R = [kind |-> k, run |-> r, q |-> q, probe |-> FALSE]
      PROVE  [R EXCEPT !.probe = b] = [kind |-> k, run |-> r, q |-> q, probe |-> b]
  BY <1>1
<1> QED
  BY <1>1 DEF Request

\* The requests of a reload.
LEMMA ReloadShape ==
    ASSUME StateOK, NEW b \in BOOLEAN
    PROVE  /\ ReloadOf(b) \in Seq(Requests) /\ Len(ReloadOf(b)) \in 0 .. 2
           /\ \A x \in SetOf(ReloadOf(b)) :
                /\ conv.run # None /\ x.run = conv.run /\ x.q = 0 /\ x.probe = b
                /\ x.kind = "state" \/ (x.kind = "output" /\ conv.run = conv.loaded)
           /\ conv.run # None /\ conv.run = conv.loaded =>
                /\ Len(ReloadOf(b)) = 2
                /\ ReloadOf(b)[1].kind = "state" /\ ReloadOf(b)[2].kind = "output"
           /\ \A i \in 1 .. Len(ReloadOf(b)) : ReloadOf(b)[i].probe = b
<1> DEFINE ask(kind) == [Request(kind, conv.run, 0) EXCEPT !.probe = b]
<1>1. CASE conv.run = None
  BY <1>1 DEF ReloadOf, SetOf
<1>2. CASE conv.run # None
  <2>1. conv.run \in Runs /\ 0 \in 0 .. MaxAsks
    BY <1>2, Numbers DEF StateOK
  <2>2. \A k \in {"state", "output"} :
          ask(k) = [kind |-> k, run |-> conv.run, q |-> 0, probe |-> b] /\ ask(k) \in Requests
    <3>1. \A k \in {"state", "output"} :
            ask(k) = [kind |-> k, run |-> conv.run, q |-> 0, probe |-> b]
      BY RequestProbe
    <3> HIDE DEF ask
    <3>2. ASSUME NEW k \in {"state", "output"}
          PROVE  [kind |-> k, run |-> conv.run, q |-> 0, probe |-> b] \in Requests
      <4>1. k \in {"message", "state", "output", "generate"}
        OBVIOUS
      <4> QED BY <2>1, <4>1 DEF Requests
    <3> QED BY <3>1, <3>2
  <2>3. CASE WithTranscript
    <3>1. ReloadOf(b) = <<ask("state"), ask("output")>>
      BY <1>2, <2>3 DEF ReloadOf
    <3> HIDE DEF ask
    <3>2. SetOf(ReloadOf(b)) = {ask("state"), ask("output")}
      BY <3>1 DEF SetOf
    <3> QED BY <1>2, <2>2, <2>3, <3>1, <3>2 DEF WithTranscript
  <2>4. CASE ~WithTranscript
    <3>1. ReloadOf(b) = <<ask("state")>>
      BY <1>2, <2>4 DEF ReloadOf
    <3> HIDE DEF ask
    <3>2. SetOf(ReloadOf(b)) = {ask("state")}
      BY <3>1 DEF SetOf
    <3> QED BY <1>2, <2>2, <2>4, <3>1, <3>2 DEF WithTranscript
  <2> QED BY <2>3, <2>4
<1> QED
  BY <1>1, <1>2
-----------------------------------------------------------------------------
(* The types, action by action.                                             *)

\* Every frame the relay or the runner writes is well formed.
LEMMA FrameType ==
    /\ \A k \in {"connected", "sent", "refused", "gone"} : \A b : FrameOK(Frame(k, None, b))
    /\ \A by \in {"page", "other"} : FrameOK(Denied(by))
    /\ \A r \in Runs, w \in Askers : FrameOK(Created(r, w))
    /\ \A r \in Runs, st \in States : FrameOK(Frame("state", r, st))
    /\ \A r \in Runs, b \in BOOLEAN : FrameOK(Frame("ack", r, b))
    /\ \A r \in Runs, x \in Items : FrameOK(Frame("response", r, x))
    /\ \A r \in Runs, l \in Seq(Items) : FrameOK(Frame("output", r, l))
    /\ \A r \in Runs : FrameOK(Frame("generated", r, None))
  BY DEF FrameOK, Frame, Created, Denied, RunKinds

\* The answers to a create, field by field.
LEMMA CreateFields ==
    ASSUME NEW r, NEW w, NEW by
    PROVE  /\ Created(r, w).kind = "created"
           /\ Created(r, w).body = [id |-> r, of |-> w]
           /\ Denied(by).kind = "denied" /\ Denied(by).body = by
  BY DEF Created, Denied, Frame

Counts == [drops : Nat, leaves : Nat, failures : Nat, others : Nat]
\* The counters stay counters.
LEMMA CountsUp ==
    ASSUME NEW F \in Counts
    PROVE  /\ [F EXCEPT !.drops = @ + 1] \in Counts
           /\ [F EXCEPT !.leaves = @ + 1] \in Counts
           /\ [F EXCEPT !.failures = @ + 1] \in Counts
           /\ [F EXCEPT !.others = @ + 1] \in Counts
           /\ [F EXCEPT !.leaves = @ + 1, !.failures = @ + 1] \in Counts
<1>1. [F EXCEPT !.drops = @ + 1] \in Counts
  BY DEF Counts
<1>2. [F EXCEPT !.leaves = @ + 1] \in Counts
  BY DEF Counts
<1>3. [F EXCEPT !.failures = @ + 1] \in Counts
  BY DEF Counts
<1>4. [F EXCEPT !.others = @ + 1] \in Counts
  BY DEF Counts
<1>5. [F EXCEPT !.leaves = @ + 1, !.failures = @ + 1] \in Counts
  <2> DEFINE n == F.leaves + 1
             m == F.failures + 1
  <2>1. n \in Nat /\ m \in Nat
    BY DEF Counts
  <2>2. [F EXCEPT !.leaves = @ + 1, !.failures = @ + 1] = [F EXCEPT !.leaves = n, !.failures = m]
    OBVIOUS
  <2> HIDE DEF n, m
  <2>3. [F EXCEPT !.leaves = n, !.failures = m] \in Counts
    BY <2>1 DEF Counts
  <2> QED BY <2>2, <2>3
<1> QED
  BY <1>1, <1>2, <1>3, <1>4, <1>5

\* A page that starts.
LEMMA InitTyped == Init => Typed
<1> SUFFICES ASSUME Init PROVE Typed
  OBVIOUS
<1> USE Numbers
<1>1. Page = "loaded" => 1 \in Runs /\ 1 \in 0 .. MaxAsks
  BY ConversationAssumption DEF Runs
<1>2. <<>> \in Seq(Items) /\ <<>> \in Seq(Requests) /\ <<>> \in Seq(SetOf(<<>>)) /\ SetOf(<<>>) = {}
  BY DEF SetOf
<1>3. NoSession \in Sessions
  BY <1>2 DEF NoSession, Sessions, States
<1>4. ASSUME NEW S, S = Session("page", 1), Page = "loaded"
      PROVE  [S EXCEPT !.state = "processing"] \in Sessions
             /\ [S EXCEPT !.state = "processing"].todo # <<>>
  <2>1. S \in Sessions /\ S.todo # <<>>
    BY <1>1, <1>4 DEF Session, Sessions, States, Items
  <2> QED BY <2>1 DEF Sessions, States
<1>5. /\ sess \in [Runs -> Sessions]
      /\ \A r \in Runs : sess[r].state \in {"initializing", "processing"} => sess[r].todo # <<>>
  BY <1>3, <1>4 DEF Init, NoSession
<1>6. StateOK
  <2>1. conv \in [run : Runs \cup {None}, loaded : Runs \cup {None}, pending : BOOLEAN,
                  state : States, error : BOOLEAN, generating : BOOLEAN]
    BY <1>1 DEF Init, States
  <2>2. /\ probe \in [due : 0 .. 2, refused : BOOLEAN, retries : 0 .. RELOAD_MAX_RETRIES,
                       armed : BOOLEAN]
        /\ twin \in [queued : 0 .. MaxAsks, has : BOOLEAN]
        /\ socket \in [open : BOOLEAN, listening : BOOLEAN]
    BY DEF Init
  <2>3. asked \in 0 .. MaxAsks /\ admitted \in BOOLEAN /\ here \in BOOLEAN
    BY <1>1 DEF Init
  <2>4. faults \in [drops : Nat, leaves : Nat, failures : Nat, others : Nat]
    BY DEF Init
  <2>5. /\ shown = <<>> /\ stream = <<>> /\ up = <<>> /\ down = <<>> /\ inbox = <<>>
    BY DEF Init
  <2> QED BY <1>2, <1>5, <2>1, <2>2, <2>3, <2>4, <2>5 DEF StateOK
<1>7. AtWork /\ OnePage /\ Wire
  BY <1>5 DEF Init, AtWork, OnePage, Wire
<1> QED
  BY <1>6, <1>7 DEF Typed

\* onopen: the reload's requests, and no frame but the first.
LEMMA OpensTyped ==
    ASSUME Typed, Opens
    PROVE  Typed'
<1> USE Numbers DEF Typed, runner
<1>1. /\ ReloadOf(admitted) \in Seq(Requests) /\ Len(ReloadOf(admitted)) \in 0 .. 2
  BY ReloadShape DEF StateOK
<1>2. ASSUME NEW f, down' = <<f>>, FrameOK(f)
      PROVE  down' \in Seq(SetOf(down')) /\ \A g \in SetOf(down') : FrameOK(g)
  <2>1. SetOf(<<f>>) = {f}
    BY DEF SetOf
  <2> QED BY <1>2, <2>1
<1>3. down' \in Seq(SetOf(down')) /\ \A g \in SetOf(down') : FrameOK(g)
  BY <1>2, FrameType DEF Opens
<1>4. StateOK'
  <2>1. probe' \in [due : 0 .. 2, refused : BOOLEAN, retries : 0 .. RELOAD_MAX_RETRIES,
                    armed : BOOLEAN]
    <3>1. (IF admitted THEN Len(up') ELSE 0) \in 0 .. 2
      BY <1>1 DEF Opens
    <3> QED BY <3>1 DEF Opens
  <2>2. socket' \in [open : BOOLEAN, listening : BOOLEAN]
    BY DEF Opens, StateOK
  <2>3. up' \in Seq(Requests)
    BY <1>1 DEF Opens
  <2>4. UNCHANGED <<conv, shown, stream, twin, asked, admitted, here, inbox, sess, faults>>
    BY DEF Opens
  <2> QED BY <1>3, <2>1, <2>2, <2>3, <2>4 DEF StateOK
<1>5. AtWork' /\ OnePage' /\ Wire'
  BY DEF Opens, AtWork, OnePage, Wire
<1> QED
  BY <1>4, <1>5

\* A lost socket.
LEMMA DropsTyped ==
    ASSUME Typed, Drops
    PROVE  Typed'
<1> USE Numbers DEF Typed, runner
<1>1. shown \o stream \in Seq(Items) /\ SetOf(<<>>) = {} /\ <<>> \in Seq(SetOf(<<>>))
  BY ConcatSeq DEF StateOK, SetOf
<1>2. StateOK'
  <2>1. /\ socket' \in [open : BOOLEAN, listening : BOOLEAN]
        /\ up' \in Seq(Requests) /\ down' = <<>> /\ stream' \in Seq(Items)
        /\ shown' \in Seq(Items)
    BY <1>1 DEF Drops, StateOK, Emptied
  <2>2. probe' \in [due : 0 .. 2, refused : BOOLEAN, retries : 0 .. RELOAD_MAX_RETRIES,
                    armed : BOOLEAN]
    BY DEF Drops, StateOK
  <2>3. faults' \in [drops : Nat, leaves : Nat, failures : Nat, others : Nat]
    BY CountsUp DEF Drops, Counts, StateOK
  <2>4. UNCHANGED <<conv, twin, asked, admitted, here, inbox, sess>>
    BY DEF Drops
  <2>5. down' \in Seq(SetOf(down')) /\ \A f \in SetOf(down') : FrameOK(f)
    BY <1>1, <2>1
  <2> QED BY <2>1, <2>2, <2>3, <2>4, <2>5 DEF StateOK
<1>3. AtWork' /\ OnePage' /\ Wire'
  BY DEF Drops, AtWork, OnePage, Wire, StateOK
<1> QED
  BY <1>2, <1>3

\* The timer of a refused reload.
LEMMA RetryTyped ==
    ASSUME Typed, RetryFires
    PROVE  Typed'
<1> USE Numbers DEF Typed, runner
<1>1. /\ ReloadOf(TRUE) \in Seq(Requests) /\ Len(ReloadOf(TRUE)) \in 0 .. 2
      /\ up \o ReloadOf(TRUE) \in Seq(Requests)
  BY ReloadShape, ConcatSeq DEF StateOK
<1>2. StateOK'
  <2>1. probe.retries + 1 \in 0 .. RELOAD_MAX_RETRIES
    BY DEF RetryFires, Wire, StateOK
  <2> QED BY <1>1, <2>1 DEF RetryFires, StateOK
<1>3. AtWork' /\ OnePage' /\ Wire'
  BY DEF RetryFires, AtWork, OnePage, Wire, StateOK
<1> QED
  BY <1>2, <1>3

\* The runner returns; a question is queued; a dead session is forgotten.
LEMMA SilentTyped ==
    ASSUME Typed, RunnerReturns \/ Submit \/ Forget
    PROVE  Typed'
<1> USE Numbers DEF Typed, page, net, runner
<1>1. StateOK'
  <2>1. CASE RunnerReturns
    BY <2>1 DEF RunnerReturns, StateOK
  <2>2. CASE Submit
    <3>1. asked + 1 \in 0 .. MaxAsks
      <4>1. asked \in 0 .. MaxAsks /\ asked < MaxAsks
        BY <2>2 DEF Submit, StateOK
      <4> QED BY <4>1, MaxAsks \in Nat
    <3> QED BY <2>2, <3>1 DEF Submit, StateOK
  <2>3. CASE Forget
    <3>1. twin' \in [queued : 0 .. MaxAsks, has : BOOLEAN]
      BY <2>3 DEF Forget, StateOK
    <3>2. UNCHANGED <<conv, shown, stream, probe, asked, admitted, socket, up, down, here,
                      inbox, sess, faults>>
      BY <2>3 DEF Forget
    <3> QED BY <3>1, <3>2 DEF StateOK
  <2> QED BY <2>1, <2>2, <2>3
<1>2. AtWork' /\ OnePage' /\ Wire'
  BY DEF RunnerReturns, Submit, Forget, AtWork, OnePage, Wire, StateOK
<1> QED
  BY <1>1, <1>2

\* What StateOK says of each part of the state.
Convs == [run : Runs \cup {None}, loaded : Runs \cup {None}, pending : BOOLEAN,
          state : States, error : BOOLEAN, generating : BOOLEAN]
PageOK ==
    /\ conv \in Convs /\ shown \in Seq(Items) /\ stream \in Seq(Items)
    /\ probe \in [due : 0 .. 2, refused : BOOLEAN, retries : 0 .. RELOAD_MAX_RETRIES,
                  armed : BOOLEAN]
    /\ twin \in [queued : 0 .. MaxAsks, has : BOOLEAN]
    /\ asked \in 0 .. MaxAsks /\ admitted \in BOOLEAN
NetOK ==
    /\ socket \in [open : BOOLEAN, listening : BOOLEAN] /\ up \in Seq(Requests)
    /\ down \in Seq(SetOf(down)) /\ \A f \in SetOf(down) : FrameOK(f)
RunnerOK ==
    /\ here \in BOOLEAN /\ inbox \in Seq(Requests)
    /\ sess \in [Runs -> Sessions] /\ faults \in Counts
\* StateOK by who changes it: the page, the wires, the runner.
LEMMA Parts ==
    /\ StateOK <=> PageOK /\ NetOK /\ RunnerOK
    /\ StateOK' <=> PageOK' /\ NetOK' /\ RunnerOK'
  BY DEF StateOK, PageOK, NetOK, RunnerOK, Convs, Counts

\* The relay reads a request: its answer goes down, the request to the runner.
LEMMA RelayShape ==
    ASSUME StateOK, RelayReads
    PROVE  /\ up # <<>> /\ Shorter(up', up) /\ up' \in Seq(Requests) /\ up[1] \in Requests
           /\ inbox' \in Seq(Requests)
           /\ (here /\ Longer(inbox', inbox, up[1])) \/ (~here /\ inbox' = inbox)
           /\ down' \in Seq(SetOf(down')) /\ \A g \in SetOf(down') : FrameOK(g)
           /\ \E f : /\ Longer(down', down, f) /\ f.kind = (IF here THEN "sent" ELSE "refused")
                     /\ f.body = up[1].kind /\ f.probe = up[1].probe
<1>1. up \in Seq(Requests) /\ inbox \in Seq(Requests) /\ up # <<>>
  BY DEF StateOK, RelayReads
<1>2. /\ up' \in Seq(Requests) /\ Shorter(up', up) /\ Head(up) = up[1] /\ Head(up) \in Requests
  BY <1>1, TailSeq, SeqFacts DEF RelayReads
<1>3. /\ inbox' \in Seq(Requests)
      /\ (here /\ Longer(inbox', inbox, up[1])) \/ (~here /\ inbox' = inbox)
  BY <1>1, <1>2, AppendSeq DEF RelayReads
<1> DEFINE kind == IF here THEN "sent" ELSE "refused"
           R == Frame(kind, None, Head(up).kind)
           f == [R EXCEPT !.probe = Head(up).probe]
           S == SetOf(down) \cup {f}
<1>4. f = [kind |-> kind, run |-> None, body |-> Head(up).kind, probe |-> Head(up).probe]
  <2>1. ASSUME NEW Q, NEW k, NEW b, NEW p, Q = [kind |-> k, run |-> None, body |-> b, probe |-> FALSE]
        PROVE  [Q EXCEPT !.probe = p] = [kind |-> k, run |-> None, body |-> b, probe |-> p]
    BY <2>1
  <2> QED BY <2>1 DEF Frame
<1>5. FrameOK(f)
  <2>1. Head(up).probe \in BOOLEAN
    BY <1>2 DEF Requests
  <2>2. kind \in {"sent", "refused"}
    OBVIOUS
  <2> HIDE DEF f, kind
  <2> QED BY <1>4, <2>1, <2>2 DEF FrameOK, RunKinds
<1>6. down' = Append(down, f)
  BY DEF RelayReads
<1>7. down \in Seq(SetOf(down)) /\ \A g \in SetOf(down) : FrameOK(g)
  BY DEF StateOK
<1> HIDE DEF f
<1>8. down \in Seq(S) /\ f \in S
  BY <1>7
<1>9. down' \in Seq(S) /\ Longer(down', down, f)
  <2> HIDE DEF S
  <2> QED BY <1>6, <1>8, AppendSeq
<1>10. down' \in Seq(SetOf(down')) /\ SetOf(down') = SetOf(down) \cup {f}
  BY <1>9, SeqFacts DEF Longer
<1>11. down' \in Seq(SetOf(down')) /\ \A g \in SetOf(down') : FrameOK(g)
  BY <1>5, <1>7, <1>10
<1>12. /\ Longer(down', down, f) /\ f.kind = (IF here THEN "sent" ELSE "refused")
       /\ f.body = up[1].kind /\ f.probe = up[1].probe
  BY <1>2, <1>4, <1>9
<1> QED
  BY <1>1, <1>2, <1>3, <1>11, <1>12

\* The relay answers a request and publishes it.
LEMMA RelayTyped ==
    ASSUME Typed, RelayReads
    PROVE  Typed'
<1> USE DEF Typed, page
<1>1. NetOK' /\ PageOK' /\ RunnerOK'
  BY Parts, RelayShape DEF RelayReads, NetOK, PageOK, RunnerOK
<1>2. AtWork' /\ OnePage' /\ Wire'
  BY DEF RelayReads, AtWork, OnePage, Wire
<1> QED
  BY <1>1, <1>2, Parts

\* A session changes, and a frame about it is broadcast.
LEMMA SessionSet ==
    ASSUME StateOK, NEW r \in Runs, NEW s, sess' = [sess EXCEPT ![r] = s]
    PROVE  sess'[r] = s /\ \A t \in Runs \ {r} : sess'[t] = sess[t]
  BY DEF StateOK

\* A step of one session, told in one frame.
LEMMA SessionTyped ==
    ASSUME Typed, NEW r \in Runs, NEW s \in Sessions, NEW f, FrameOK(f),
           s.state \in {"initializing", "processing"} => s.todo # <<>>,
           sess' = [sess EXCEPT ![r] = s],
           Broadcast(<<f>>) \/ UNCHANGED down,
           faults' \in Counts, inbox' \in Seq(Requests),
           UNCHANGED <<page, socket, up, here>>
    PROVE  Typed'
<1> USE DEF Typed, page
<1>1. down' \in Seq(SetOf(down')) /\ \A g \in SetOf(down') : FrameOK(g)
  BY BroadcastShape DEF StateOK
<1>2. ~socket.open => down' = down
  BY BroadcastShape
<1>3. sess' \in [Runs -> Sessions]
  BY DEF StateOK
<1>4. NetOK' /\ PageOK' /\ RunnerOK'
  BY <1>1, <1>3, Parts DEF NetOK, PageOK, RunnerOK
<1>5. AtWork'
  BY SessionSet DEF AtWork
<1>6. OnePage' /\ Wire'
  BY <1>2 DEF OnePage, Wire
<1> QED
  BY <1>4, <1>5, <1>6, Parts

\* The record a session is left with, field by field.
LEMMA HeardIs ==
    ASSUME NEW s \in Sessions, NEW q \in 0 .. MaxAsks
    PROVE  /\ Heard(s, q) = [by |-> s.by, state |-> "processing", todo |-> Append(s.todo, q),
                             given |-> s.given, log |-> Append(s.log, <<q, 0>>),
                             generating |-> s.generating]
           /\ Heard(s, q) \in Sessions /\ Heard(s, q).todo # <<>>
<1> DEFINE todo == Append(s.todo, q)
           log == Append(s.log, <<q, 0>>)
<1>1. todo \in Seq(0 .. MaxAsks) /\ todo # <<>> /\ log \in Seq(Items)
  <2>1. s.todo \in Seq(0 .. MaxAsks) /\ s.log \in Seq(Items) /\ <<q, 0>> \in Items
    BY Numbers DEF Sessions, Items
  <2>2. todo \in Seq(0 .. MaxAsks) /\ todo # <<>>
    BY <2>1
  <2>3. log \in Seq(Items)
    BY <2>1
  <2> QED BY <2>2, <2>3
<1> HIDE DEF todo, log
<1> DEFINE u == [s EXCEPT !.state = "processing"]
           v == [u EXCEPT !.todo = todo]
           w == [v EXCEPT !.log = log]
<1>2. Heard(s, q) = w
  BY DEF Heard, todo, log
<1>3. u = [by |-> s.by, state |-> "processing", todo |-> s.todo,
           given |-> s.given, log |-> s.log, generating |-> s.generating]
  BY DEF Sessions
<1> HIDE DEF u
<1>4. v = [by |-> s.by, state |-> "processing", todo |-> todo,
           given |-> s.given, log |-> s.log, generating |-> s.generating]
  BY <1>3
<1> HIDE DEF v
<1>5. w = [by |-> s.by, state |-> "processing", todo |-> todo,
           given |-> s.given, log |-> log, generating |-> s.generating]
  BY <1>4
<1> HIDE DEF w
<1>6. w \in Sessions /\ w.todo = todo
  BY <1>1, <1>5 DEF Sessions, States
<1> QED
  BY <1>1, <1>2, <1>5, <1>6 DEF todo, log

\* A session that says a piece, field by field.
LEMMA SaidIs ==
    ASSUME NEW s \in Sessions, s.todo # <<>>, s.given < Chunks
    PROVE  /\ Said(s) = [by |-> s.by, state |-> s.state, todo |-> s.todo,
                         given |-> s.given + 1, log |-> Append(s.log, NextPiece(s)),
                         generating |-> s.generating]
           /\ Said(s) \in Sessions /\ NextPiece(s) \in Items /\ s.given + 1 \in 1 .. Chunks
<1> DEFINE given == s.given + 1
           log == Append(s.log, NextPiece(s))
<1>1. given \in 1 .. Chunks /\ NextPiece(s) \in Items
  BY Numbers DEF Sessions, Items, NextPiece
<1>2. log \in Seq(Items)
  BY <1>1 DEF Sessions
<1> HIDE DEF given, log
<1> DEFINE u == [s EXCEPT !.given = given]
           v == [u EXCEPT !.log = log]
<1>3. Said(s) = v
  BY DEF Said, given, log
<1>4. u = [by |-> s.by, state |-> s.state, todo |-> s.todo,
           given |-> given, log |-> s.log, generating |-> s.generating]
  BY DEF Sessions
<1> HIDE DEF u
<1>5. v = [by |-> s.by, state |-> s.state, todo |-> s.todo,
           given |-> given, log |-> log, generating |-> s.generating]
  BY <1>4
<1> HIDE DEF v
<1>6. v \in Sessions
  BY <1>1, <1>2, <1>5 DEF Sessions
<1> QED
  BY <1>1, <1>3, <1>5, <1>6 DEF given, log

\* A session that finishes an answer.
LEMMA AnsweredIs ==
    ASSUME NEW s \in Sessions, s.todo # <<>>
    PROVE  /\ Answered(s) = [by |-> s.by,
                             state |-> IF Tail(s.todo) = <<>> THEN "ready" ELSE "processing",
                             todo |-> Tail(s.todo), given |-> 0, log |-> s.log,
                             generating |-> s.generating]
           /\ Answered(s) \in Sessions
<1> DEFINE todo == Tail(s.todo)
           phase == IF Tail(s.todo) = <<>> THEN "ready" ELSE "processing"
<1>1. todo \in Seq(0 .. MaxAsks) /\ phase \in {"ready", "processing"}
  BY DEF Sessions
<1> HIDE DEF todo, phase
<1> DEFINE u == [s EXCEPT !.state = phase]
           v == [u EXCEPT !.todo = todo]
           w == [v EXCEPT !.given = 0]
<1>2. Answered(s) = w
  BY DEF Answered, todo, phase
<1>3. u = [by |-> s.by, state |-> phase, todo |-> s.todo,
           given |-> s.given, log |-> s.log, generating |-> s.generating]
  BY DEF Sessions
<1> HIDE DEF u
<1>4. v = [by |-> s.by, state |-> phase, todo |-> todo,
           given |-> s.given, log |-> s.log, generating |-> s.generating]
  BY <1>3
<1> HIDE DEF v
<1>5. w = [by |-> s.by, state |-> phase, todo |-> todo,
           given |-> 0, log |-> s.log, generating |-> s.generating]
  BY <1>4
<1> HIDE DEF w
<1>6. w \in Sessions
  BY <1>1, <1>5, Numbers DEF Sessions, States
<1> QED
  BY <1>2, <1>5, <1>6 DEF todo, phase

\* A session that fails.
LEMMA BrokenIs ==
    ASSUME NEW s \in Sessions
    PROVE  /\ Broken(s) = [by |-> s.by, state |-> "error", todo |-> <<>>, given |-> 0,
                           log |-> s.log, generating |-> s.generating]
           /\ Broken(s) \in Sessions
<1> DEFINE u == [s EXCEPT !.state = "error"]
           v == [u EXCEPT !.todo = <<>>]
           w == [v EXCEPT !.given = 0]
<1>2. Broken(s) = w
  BY DEF Broken
<1>3. u = [by |-> s.by, state |-> "error", todo |-> s.todo,
           given |-> s.given, log |-> s.log, generating |-> s.generating]
  BY DEF Sessions
<1> HIDE DEF u
<1>4. v = [by |-> s.by, state |-> "error", todo |-> <<>>,
           given |-> s.given, log |-> s.log, generating |-> s.generating]
  BY <1>3
<1> HIDE DEF v
<1>5. w = [by |-> s.by, state |-> "error", todo |-> <<>>,
           given |-> 0, log |-> s.log, generating |-> s.generating]
  BY <1>4
<1> HIDE DEF w
<1>6. w \in Sessions
  BY <1>5, Numbers DEF Sessions, States
<1> QED
  BY <1>2, <1>5, <1>6

\* A session that starts.
LEMMA BegunIs ==
    ASSUME NEW s \in Sessions
    PROVE  /\ Begun(s) = [by |-> s.by, state |-> "processing", todo |-> s.todo,
                          given |-> s.given, log |-> s.log, generating |-> s.generating]
           /\ Begun(s) \in Sessions
<1>1. Begun(s) = [by |-> s.by, state |-> "processing", todo |-> s.todo,
                  given |-> s.given, log |-> s.log, generating |-> s.generating]
  BY DEF Begun, Sessions
<1> QED
  BY <1>1 DEF Sessions, States

\* A session that generates a workflow, or has done so.
LEMMA MakingIs ==
    ASSUME NEW s \in Sessions, NEW b \in BOOLEAN
    PROVE  /\ Making(s, b) = [by |-> s.by, state |-> s.state, todo |-> s.todo,
                              given |-> s.given, log |-> s.log, generating |-> b]
           /\ Making(s, b) \in Sessions
<1>1. Making(s, b) = [by |-> s.by, state |-> s.state, todo |-> s.todo,
                      given |-> s.given, log |-> s.log, generating |-> b]
  BY DEF Making, Sessions
<1> QED
  BY <1>1 DEF Sessions

\* A session lost with its runner's process.
LEMMA LostIs ==
    ASSUME NEW s \in Sessions
    PROVE  /\ Lost(s) = [by |-> s.by, state |-> "not_found", todo |-> <<>>, given |-> 0,
                         log |-> <<>>, generating |-> FALSE]
           /\ Lost(s) \in Sessions
<1> DEFINE N == NoSession
<1>1. N \in Sessions /\ N.state = "not_found" /\ N.todo = <<>> /\ N.given = 0
      /\ N.log = <<>> /\ N.generating = FALSE
  BY Numbers DEF NoSession, Sessions, States
<1>2. Lost(s) = [N EXCEPT !.by = s.by]
  BY DEF Lost
<1> HIDE DEF N
<1>3. [N EXCEPT !.by = s.by] = [by |-> s.by, state |-> N.state, todo |-> N.todo,
                                given |-> N.given, log |-> N.log, generating |-> N.generating]
  BY <1>1 DEF Sessions
<1>4. Lost(s) = [by |-> s.by, state |-> "not_found", todo |-> <<>>, given |-> 0,
                 log |-> <<>>, generating |-> FALSE]
  BY <1>1, <1>2, <1>3
<1> QED
  BY <1>4, Numbers DEF Sessions, States

\* A session just created.
LEMMA NewSession ==
    ASSUME NEW b \in {"page", "other"}, NEW q \in 0 .. MaxAsks
    PROVE  Session(b, q) \in Sessions /\ Session(b, q).todo # <<>>
  BY Numbers DEF Session, Sessions, States, Items

\* A session at work has something to say next.
LEMMA AtWorkHas ==
    ASSUME Typed, NEW r \in Runs
    PROVE  /\ sess[r] \in Sessions
           /\ sess[r].state \in {"initializing", "processing"} => sess[r].todo # <<>>
  BY DEF Typed, StateOK, AtWork

\* A session at work.
LEMMA WorksTyped ==
    ASSUME Typed, NEW r \in Runs, Works(r)
    PROVE  Typed'
<1> DEFINE s == sess[r]
<1>1. /\ s \in Sessions /\ (s.state \in {"initializing", "processing"} => s.todo # <<>>)
      /\ UNCHANGED <<page, socket, up, here>> /\ faults' \in Counts /\ inbox' \in Seq(Requests)
  BY AtWorkHas DEF Works, Typed, StateOK, Counts
<1>2. CASE s.state = "initializing" /\ sess' = [sess EXCEPT ![r] = Begun(s)]
           /\ Broadcast(<<Frame("state", r, "processing")>>)
  <2>1. Begun(s) \in Sessions /\ Begun(s).todo = s.todo
    BY <1>1, BegunIs
  <2>2. FrameOK(Frame("state", r, "processing"))
    BY FrameType DEF States
  <2> QED BY <1>1, <1>2, <2>1, <2>2, SessionTyped
<1>3. CASE s.state = "processing" /\ s.given < Chunks /\ sess' = [sess EXCEPT ![r] = Said(s)]
           /\ Broadcast(<<Frame("response", r, NextPiece(s))>>)
  <2>1. /\ Said(s) \in Sessions /\ Said(s).todo = s.todo
        /\ FrameOK(Frame("response", r, NextPiece(s)))
    BY <1>1, <1>3, SaidIs, FrameType
  <2> QED BY <1>1, <1>3, <2>1, SessionTyped
<1>4. CASE s.state = "processing" /\ sess' = [sess EXCEPT ![r] = Answered(s)]
           /\ (Broadcast(<<Frame("state", r, "ready")>>) \/ UNCHANGED down)
  <2>1. /\ Answered(s) \in Sessions
        /\ Answered(s).state \in {"initializing", "processing"} => Answered(s).todo # <<>>
    BY <1>1, <1>4, AnsweredIs
  <2>2. FrameOK(Frame("state", r, "ready"))
    BY FrameType DEF States
  <2> QED BY <1>1, <1>4, <2>1, <2>2, SessionTyped
<1>5. CASE sess' = [sess EXCEPT ![r] = Making(s, FALSE)]
           /\ Broadcast(<<Frame("generated", r, None)>>)
  <2>1. /\ Making(s, FALSE) \in Sessions /\ Making(s, FALSE).todo = s.todo
        /\ Making(s, FALSE).state = s.state
    <3> DEFINE m == Making(s, FALSE)
    <3>1. m \in Sessions /\ m = [by |-> s.by, state |-> s.state, todo |-> s.todo,
                       given |-> s.given, log |-> s.log, generating |-> FALSE]
      BY <1>1, MakingIs, Zenon
    <3> HIDE DEF m
    <3>2. m.todo = s.todo /\ m.state = s.state
      BY <3>1
    <3> QED BY <3>1, <3>2 DEF m
  <2>2. FrameOK(Frame("generated", r, None))
    BY FrameType
  <2> QED BY <1>1, <1>5, <2>1, <2>2, SessionTyped
<1> QED
  BY <1>2, <1>3, <1>4, <1>5 DEF Works

\* A session that fails.
LEMMA FailsTyped ==
    ASSUME Typed, NEW r \in Runs, SessionFails(r)
    PROVE  Typed'
<1>1. /\ sess[r] \in Sessions
      /\ UNCHANGED <<page, socket, up, here>> /\ inbox' \in Seq(Requests)
  BY AtWorkHas DEF SessionFails, Typed, StateOK
<1>2. faults' \in Counts
  BY CountsUp DEF SessionFails, Fail, Typed, StateOK, Counts
<1>3. Broken(sess[r]) \in Sessions /\ Broken(sess[r]).state = "error"
  BY <1>1, BrokenIs
<1>4. FrameOK(Frame("state", r, "error"))
  BY FrameType DEF States
<1>5. /\ sess' = [sess EXCEPT ![r] = Broken(sess[r])]
      /\ Broadcast(<<Frame("state", r, "error")>>)
  BY DEF SessionFails
<1> QED
  BY <1>1, <1>2, <1>3, <1>4, <1>5, SessionTyped

\* A step of the runner or of a fault with no session changed.
LEMMA ToldTyped ==
    ASSUME Typed, NEW f, FrameOK(f), Broadcast(<<f>>) \/ UNCHANGED down,
           UNCHANGED sess, faults' \in Counts, inbox' \in Seq(Requests), here' \in BOOLEAN,
           UNCHANGED <<page, socket, up>>
    PROVE  Typed'
<1> USE DEF Typed, page
<1>1. down' \in Seq(SetOf(down')) /\ \A g \in SetOf(down') : FrameOK(g)
  BY BroadcastShape DEF StateOK
<1>2. ~socket.open => down' = down
  BY BroadcastShape
<1>3. NetOK' /\ PageOK' /\ RunnerOK'
  BY <1>1, Parts DEF NetOK, PageOK, RunnerOK
<1>4. AtWork' /\ OnePage' /\ Wire'
  BY <1>2 DEF AtWork, OnePage, Wire
<1> QED
  BY <1>3, <1>4, Parts

\* A create, granted or refused.
LEMMA CreatesTyped ==
    ASSUME Typed, NEW b \in {"page", "other"}, NEW q \in 0 .. MaxAsks, NEW w \in Askers,
           Grants(b, q, w) \/ Denies(b), faults' \in Counts,
           inbox' \in Seq(Requests), UNCHANGED <<page, socket, up, here>>
    PROVE  Typed'
<1>0. here' \in BOOLEAN
  BY DEF Typed, StateOK
<1>1. CASE Denies(b)
  <2>1. FrameOK(Denied(b)) /\ Broadcast(<<Denied(b)>>) /\ UNCHANGED sess
    BY <1>1, FrameType DEF Denies
  <2> QED BY <1>0, <2>1, ToldTyped
<1>2. CASE Grants(b, q, w)
  <2>1. PICK r \in Runs :
         /\ sess' = [sess EXCEPT ![r] = Session(b, q)]
         /\ Broadcast(<<Created(r, w)>>)
    BY <1>2 DEF Grants
  <2>2. /\ FrameOK(Created(r, w))
        /\ Session(b, q) \in Sessions /\ Session(b, q).todo # <<>>
    BY FrameType, NewSession
  <2> QED BY <2>1, <2>2, SessionTyped
<1> QED
  BY <1>1, <1>2

\* Another tab's create.
LEMMA OthersTyped ==
    ASSUME Typed, OtherCreates
    PROVE  Typed'
<1>1. faults' \in Counts /\ inbox' \in Seq(Requests) /\ UNCHANGED <<page, socket, up, here>>
  BY CountsUp DEF OtherCreates, Typed, StateOK, Counts
<1>2. PICK w \in Askers : Grants("other", 0, w) \/ Denies("other")
  BY DEF OtherCreates, Askers
<1> QED
  BY <1>1, <1>2, CreatesTyped, Numbers

\* The runner's connection is lost.
LEMMA LeavesTyped ==
    ASSUME Typed, RunnerLeaves
    PROVE  Typed'
<1>1. faults' \in Counts
  BY CountsUp DEF RunnerLeaves, Typed, StateOK, Counts
<1>2. /\ here' = FALSE /\ inbox' = <<>> /\ Broadcast(<<Frame("gone", None, None)>>)
      /\ UNCHANGED <<page, socket, up>>
  BY DEF RunnerLeaves
<1>3. FrameOK(Frame("gone", None, None)) /\ inbox' \in Seq(Requests)
  BY <1>2, FrameType
<1>4. CASE UNCHANGED sess
  BY <1>1, <1>2, <1>3, <1>4, ToldTyped
<1>5. CASE sess' = [r \in Runs |-> Lost(sess[r])]
  <2>1. down' \in Seq(SetOf(down')) /\ \A g \in SetOf(down') : FrameOK(g)
    BY <1>2, <1>3, BroadcastShape DEF Typed
  <2>2. \A r \in Runs : sess[r] \in Sessions
    BY DEF Typed, StateOK
  <2>3. /\ sess' \in [Runs -> Sessions] /\ \A r \in Runs : sess'[r].state = "not_found"
    BY <1>5, <2>2, LostIs
  <2>4. ~socket.open => down' = down
    BY <1>2, <1>3, BroadcastShape DEF Typed
  <2>5. NetOK' /\ PageOK' /\ RunnerOK'
    BY <1>1, <1>2, <1>3, <2>1, <2>3, Parts DEF NetOK, PageOK, RunnerOK, Typed, page
  <2>6. AtWork' /\ OnePage' /\ Wire'
    BY <1>2, <2>3, <2>4 DEF AtWork, OnePage, Wire, Typed, page
  <2> QED BY <2>5, <2>6, Parts DEF Typed
<1> QED
  BY <1>4, <1>5 DEF RunnerLeaves

\* The runner takes the request at the head of what was published.
LEMMA ReadShape ==
    ASSUME StateOK, RunnerReads
    PROVE  /\ inbox' \in Seq(Requests) /\ Shorter(inbox', inbox)
           /\ Head(inbox) = inbox[1] /\ Head(inbox) \in SetOf(inbox) /\ Head(inbox) \in Requests
           /\ UNCHANGED <<page, socket, up, here>>
  BY TailSeq, SeqFacts DEF RunnerReads, StateOK

\* Requests by kind.
LEMMA RequestKinds ==
    ASSUME NEW x \in Requests
    PROVE  /\ x.kind \in {"create", "message", "state", "output", "generate"}
           /\ x.kind = "create" => x.run = None /\ x.q \in Asks /\ x.probe = FALSE
           /\ x.kind # "create" => x.run \in Runs
           /\ x.q \in 0 .. MaxAsks /\ x.probe \in BOOLEAN
<1>1. CASE x \in [kind : {"create"}, run : {None}, q : Asks, probe : {FALSE}]
  <2>1. x.kind = "create" /\ x.run = None /\ x.q \in Asks
    BY <1>1
  <2>2. x.probe = FALSE
    BY <1>1, Zenon
  <2>3. x.q \in 0 .. MaxAsks
    BY <2>1, Numbers DEF Asks
  <2> QED BY <2>1, <2>2, <2>3
<1>2. CASE x \in [kind : {"message", "state", "output", "generate"}, run : Runs,
                  q : 0 .. MaxAsks, probe : BOOLEAN]
  BY <1>2, Numbers
<1> QED
  BY <1>1, <1>2 DEF Requests

\* The runner reads a request.
LEMMA ReadsTyped ==
    ASSUME Typed, RunnerReads
    PROVE  Typed'
<1> DEFINE x == Head(inbox)
<1>1. /\ inbox' \in Seq(Requests) /\ UNCHANGED <<page, socket, up, here>> /\ x \in Requests
  BY ReadShape DEF Typed
<1>2. /\ x.kind \in {"create", "message", "state", "output", "generate"}
      /\ x.kind # "create" => x.run \in Runs /\ sess[x.run] \in Sessions
      /\ x.q \in 0 .. MaxAsks
  <2>1. /\ x.kind \in {"create", "message", "state", "output", "generate"}
        /\ x.kind # "create" => x.run \in Runs
        /\ x.q \in 0 .. MaxAsks
    BY <1>1, RequestKinds
  <2> QED BY <2>1, AtWorkHas
<1>3. x.kind # "create" => Answers(x) /\ UNCHANGED faults
  BY DEF RunnerReads
<1>4. faults \in Counts /\ here \in BOOLEAN
  BY DEF Typed, StateOK, Counts
<1>5. CASE x.kind = "create"
  <2>1. \/ Grants("page", x.q, "page") /\ UNCHANGED faults
        \/ Denies("page") /\ Fail
    BY <1>5 DEF RunnerReads
  <2>2. faults' \in Counts
    BY <1>4, <2>1, CountsUp DEF Fail
  <2>3. "page" \in Askers /\ (Grants("page", x.q, "page") \/ Denies("page"))
    BY <2>1 DEF Askers
  <2> QED BY <1>1, <1>2, <2>2, <2>3, CreatesTyped
<1> HIDE DEF x
<1> DEFINE r == x.run
           s == sess[r]
<1>6. CASE x.kind = "state"
  <2>1. Broadcast(<<Frame("state", r, s.state)>>) /\ UNCHANGED <<sess, faults>>
    BY <1>3, <1>6 DEF Answers
  <2>2. FrameOK(Frame("state", r, s.state))
    <3>1. r \in Runs /\ s.state \in States
      BY <1>2, <1>6 DEF Sessions
    <3> QED BY <3>1, FrameType
  <2> QED BY <1>1, <1>4, <2>1, <2>2, ToldTyped
<1>7. CASE x.kind = "output"
  <2>1. Broadcast(<<Frame("output", r, s.log)>>) /\ UNCHANGED <<sess, faults>>
    BY <1>3, <1>7 DEF Answers
  <2>2. FrameOK(Frame("output", r, s.log))
    <3>1. r \in Runs /\ s.log \in Seq(Items)
      BY <1>2, <1>7 DEF Sessions
    <3> QED BY <3>1, FrameType
  <2> QED BY <1>1, <1>4, <2>1, <2>2, ToldTyped
<1>8. CASE x.kind = "generate"
  <2> DEFINE m == Making(s, TRUE)
  <2>1. sess' = [sess EXCEPT ![r] = m] /\ UNCHANGED <<down, faults>>
    BY <1>3, <1>8 DEF Answers
  <2>2. m \in Sessions /\ m = [by |-> s.by, state |-> s.state, todo |-> s.todo,
                     given |-> s.given, log |-> s.log, generating |-> TRUE]
    BY <1>2, <1>8, MakingIs, Zenon
  <2> HIDE DEF m
  <2>3. m.todo = s.todo /\ m.state = s.state
    BY <2>2
  <2>4. FrameOK(Frame("generated", r, None)) /\ r \in Runs
    BY <1>2, <1>8, FrameType
  <2>5. m.state \in {"initializing", "processing"} => m.todo # <<>>
    BY <2>3, <2>4, AtWorkHas
  <2> QED BY <1>1, <1>4, <2>1, <2>2, <2>4, <2>5, SessionTyped
<1>9. CASE x.kind = "message"
  <2> DEFINE live == s.state \in {"initializing", "processing", "ready"}
  <2>1. /\ Broadcast(<<Frame("ack", r, live)>>) /\ UNCHANGED faults
        /\ sess' = IF live THEN [sess EXCEPT ![r] = Heard(s, x.q)] ELSE sess
    BY <1>3, <1>9 DEF Answers
  <2>2. r \in Runs /\ FrameOK(Frame("ack", r, live))
    <3>1. r \in Runs /\ live \in BOOLEAN
      BY <1>2, <1>9
    <3> HIDE DEF live
    <3> QED BY <3>1, FrameType
  <2>3. CASE live
    <3>1. Heard(s, x.q) \in Sessions /\ Heard(s, x.q).todo # <<>>
      BY <1>2, <1>9, HeardIs
    <3>2. sess' = [sess EXCEPT ![r] = Heard(s, x.q)]
      BY <2>1, <2>3
    <3> HIDE DEF live
    <3> QED BY <1>1, <1>4, <2>1, <2>2, <3>1, <3>2, SessionTyped
  <2>4. CASE ~live
    <3>1. UNCHANGED sess
      BY <2>1, <2>4
    <3> HIDE DEF live
    <3> QED BY <1>1, <1>4, <2>1, <2>2, <3>1, ToldTyped
  <2> QED BY <2>3, <2>4
<1> QED
  BY <1>2, <1>5, <1>6, <1>7, <1>8, <1>9

\* A frame is taken: what holds of the network and the runner afterwards.
LEMMA TakeTyped ==
    ASSUME Typed, Frames
    PROVE  /\ NetOK' /\ RunnerOK' /\ AtWork' /\ UNCHANGED <<asked, socket, runner, faults, up>>
           /\ down' = Tail(down) /\ down # <<>>
<1> USE DEF Frames, TakeForeign, TakeConnected, TakeCreated, TakeDenied, TakeResponse,
            TakeState, TakeAck, TakeOutput, TakeGenerated, TakeGone, TakeSent, TakeRefused,
            Take, Kept
<1>1. down' = Tail(down) /\ down # <<>> /\ UNCHANGED <<asked, socket, runner, faults, up>>
  OBVIOUS
<1> QED
  BY <1>1, TakeShape DEF Typed, StateOK, NetOK, RunnerOK, Counts, AtWork, runner

\* What a frame may change of the page.
LEMMA FramesPage ==
    ASSUME Typed, Frames, PageOK', OnePage',
           probe'.armed => probe.armed \/ (socket.open /\ RetriesLeft),
           probe'.retries = probe.retries
    PROVE  Typed'
<1>1. NetOK' /\ RunnerOK' /\ AtWork' /\ UNCHANGED <<asked, socket, runner, faults, up>>
      /\ down' = Tail(down) /\ down # <<>>
  BY TakeTyped
<1>2. Wire'
  BY <1>1 DEF Wire, Typed, RetriesLeft
<1> QED
  BY <1>1, <1>2, Parts DEF Typed

\* What TakeDenied, TakeCreated, TakeState, a refusal and a settled reload leave of conv.
SameConv == UNCHANGED <<conv.run, conv.loaded, conv.pending>>
\* The conversation, field by field: a create refused,
LEMMA DeniedConv ==
    ASSUME conv \in Convs,
           conv' = [conv EXCEPT !.pending = FALSE, !.error = TRUE, !.state = "error"]
    PROVE  /\ conv' \in Convs /\ conv'.pending = FALSE /\ conv'.state = "error" /\ conv'.error
           /\ conv'.run = conv.run /\ conv'.loaded = conv.loaded
  BY DEF Convs, States
\* its session created,
LEMMA CreatedConv ==
    ASSUME conv \in Convs, NEW id \in Runs, conv' = [conv EXCEPT !.pending = FALSE, !.run = id]
    PROVE  /\ conv' \in Convs /\ conv'.pending = FALSE /\ conv'.run = id
           /\ conv'.loaded = conv.loaded /\ conv'.state = conv.state /\ conv'.error = conv.error
  BY DEF Convs, States
\* its state reported,
LEMMA StateConv ==
    ASSUME conv \in Convs, NEW st \in States,
           conv' = [conv EXCEPT !.state = st, !.error = IF st = "error" THEN FALSE ELSE @]
    PROVE  conv' \in Convs /\ SameConv /\ conv'.state = st
  BY DEF Convs, SameConv
\* a refusal reported,
LEMMA ReportConv ==
    ASSUME conv \in Convs, ReportRefusal
    PROVE  conv' \in Convs /\ SameConv /\ conv'.state = conv.state /\ conv'.error
  BY DEF Convs, WaitEnds, SameConv, ReportRefusal
\* one field set,
LEMMA OneFieldConv ==
    ASSUME conv \in Convs
    PROVE  /\ \A st \in States : conv' = [conv EXCEPT !.state = st] =>
                conv' \in Convs /\ SameConv /\ conv'.state = st /\ conv'.error = conv.error
           /\ \A b \in BOOLEAN : conv' = [conv EXCEPT !.error = b] =>
                conv' \in Convs /\ SameConv /\ conv'.state = conv.state /\ conv'.error = b
           /\ \A b \in BOOLEAN : conv' = [conv EXCEPT !.generating = b] =>
                conv' \in Convs /\ SameConv /\ conv'.state = conv.state /\ conv'.error = conv.error
  BY DEF Convs, SameConv
\* a reload settled.
LEMMA SettleConv ==
    ASSUME conv \in Convs, NEW b \in BOOLEAN, SettleReload(b)
    PROVE  /\ conv' \in Convs /\ SameConv /\ conv'.state = conv.state
           /\ conv.error => conv'.error
<1>1. conv' = conv \/ conv' = [conv EXCEPT !.error = TRUE]
  BY DEF SettleReload
<1> QED
  BY <1>1, OneFieldConv DEF SameConv, Convs

Reloads == [due : 0 .. 2, refused : BOOLEAN, retries : 0 .. RELOAD_MAX_RETRIES,
            armed : BOOLEAN]
\* The reload, when the answer of one of its probes is read.
LEMMA SettleProbe ==
    ASSUME probe \in Reloads, NEW b \in BOOLEAN, SettleReload(b), ProbePending
    PROVE  /\ probe' \in Reloads
           /\ probe'.due = probe.due - 1 /\ probe'.retries = probe.retries
           /\ probe'.refused = (probe.refused \/ b)
           /\ probe'.armed = (probe.armed \/ (probe.due = 1 /\ (probe.refused \/ b) /\ RetriesLeft))
<1> DEFINE n == probe.due - 1
           v == probe.refused \/ b
           a == probe.armed \/ (n = 0 /\ v /\ RetriesLeft)
<1>1. n \in 0 .. 2 /\ (n = 0 <=> probe.due = 1)
  BY DEF ProbePending, Reloads
<1>2. v \in BOOLEAN /\ a \in BOOLEAN
  OBVIOUS
<1>3. probe' = [probe EXCEPT !.due = n, !.refused = v, !.armed = a]
  BY Zenon DEF SettleReload, Counted, Refused
<1>4. a = (probe.armed \/ (probe.due = 1 /\ (probe.refused \/ b) /\ RetriesLeft))
  BY <1>1
<1> HIDE DEF n, v, a
<1>5. /\ probe' \in Reloads
      /\ probe'.due = n /\ probe'.refused = v /\ probe'.armed = a /\ probe'.retries = probe.retries
  BY <1>1, <1>2, <1>3 DEF Reloads
<1> QED
  BY <1>4, <1>5 DEF n, v

\* The frame a page reads.
LEMMA HeadFrame ==
    ASSUME Typed, Frames
    PROVE  /\ Head(down) = down[1] /\ Head(down) \in SetOf(down) /\ FrameOK(Head(down))
           /\ Shorter(down', down)
  BY TakeTyped, TakeShape DEF Typed

\* A page reads a frame.
LEMMA FramesTyped ==
    ASSUME Typed, Frames
    PROVE  Typed'
<1> DEFINE f == Head(down)
<1>0. /\ FrameOK(f) /\ conv \in Convs /\ shown \in Seq(Items) /\ stream \in Seq(Items)
      /\ probe \in Reloads /\ PageOK /\ OnePage /\ UNCHANGED asked
  BY HeadFrame, TakeTyped, Parts DEF PageOK, Reloads, Typed
<1> HIDE DEF f
<1>1. CASE conv' \in Convs /\ SameConv /\ UNCHANGED <<shown, stream, probe, twin, admitted>>
  <2>1. PageOK' /\ OnePage'
    BY <1>0, <1>1 DEF PageOK, OnePage, SameConv
  <2> QED BY <1>1, <2>1, FramesPage
<1>2. CASE TakeForeign
  BY <1>0, <1>1, <1>2 DEF TakeForeign, SameConv
<1>3. CASE TakeConnected
  <2>1. PageOK' /\ OnePage' /\ UNCHANGED probe
    BY <1>0, <1>3 DEF TakeConnected, PageOK, OnePage
  <2> QED BY <2>1, FramesPage
<1>4. CASE TakeCreated
  <2>1. CASE UNCHANGED <<conv, twin>>
    BY <1>0, <1>1, <1>4, <2>1 DEF TakeCreated, SameConv
  <2>2. CASE Asked /\ conv' = [conv EXCEPT !.pending = FALSE, !.run = f.body.id]
                   /\ twin' = [twin EXCEPT !.has = TRUE]
    <3>1. f.body.id \in Runs
      BY <1>0, <1>4 DEF FrameOK, TakeCreated, Take, f
    <3>2. /\ conv' \in Convs /\ conv'.loaded = conv.loaded /\ conv.pending
      BY <1>0, <2>2, <3>1, CreatedConv DEF Asked
    <3>3. /\ twin' \in [queued : 0 .. MaxAsks, has : BOOLEAN] /\ twin'.queued = twin.queued
      BY <1>0, <2>2 DEF PageOK
    <3>4. PageOK' /\ UNCHANGED probe
      BY <1>0, <1>4, <3>2, <3>3 DEF TakeCreated, PageOK
    <3>5. OnePage'
      BY <1>0, <3>2, Numbers DEF OnePage
    <3> QED BY <3>4, <3>5, FramesPage
  <2> QED BY <1>4, <2>1, <2>2 DEF TakeCreated, f
<1>5. CASE TakeDenied
  <2>1. CASE UNCHANGED conv
    BY <1>0, <1>1, <1>5, <2>1 DEF TakeDenied, SameConv
  <2>2. CASE Asked /\ conv' = [conv EXCEPT !.pending = FALSE, !.error = TRUE, !.state = "error"]
    <3>1. /\ conv' \in Convs /\ conv'.loaded = conv.loaded /\ conv.pending
      BY <1>0, <2>2, DeniedConv DEF Asked
    <3>2. PageOK' /\ UNCHANGED probe
      BY <1>0, <1>5, <3>1 DEF TakeDenied, PageOK
    <3>3. OnePage'
      BY <1>0, <1>5, <3>1, Numbers DEF OnePage, TakeDenied
    <3> QED BY <3>2, <3>3, FramesPage
  <2> QED BY <1>5, <2>1, <2>2 DEF TakeDenied
<1>6. CASE TakeResponse
  <2>1. f.body \in Items
    BY <1>0, <1>6 DEF FrameOK, TakeResponse, Take, f
  <2>2. stream' \in Seq(Items)
    BY <1>0, <1>6, <2>1 DEF TakeResponse, f
  <2>3. PageOK' /\ OnePage' /\ UNCHANGED probe
    BY <1>0, <1>6, <2>2 DEF TakeResponse, PageOK, OnePage
  <2> QED BY <2>3, FramesPage
<1>7. CASE TakeState
  <2>1. f.body \in States
    BY <1>0, <1>7 DEF FrameOK, TakeState, Take, f
  <2>2. conv' \in Convs /\ SameConv
    BY <1>0, <1>7, <2>1, StateConv DEF TakeState, f
  <2>3. shown' \in Seq(Items) /\ stream' \in Seq(Items)
    <3>1. shown \o stream \in Seq(Items) /\ <<>> \in Seq(Items)
      BY <1>0
    <3> QED BY <1>0, <1>7, <3>1 DEF TakeState, Emptied
  <2>4. PageOK' /\ OnePage' /\ UNCHANGED probe
    BY <1>0, <1>7, <2>2, <2>3 DEF TakeState, PageOK, OnePage, SameConv
  <2> QED BY <2>4, FramesPage
<1>8. CASE TakeAck
  <2>1. "processing" \in States
    BY DEF States
  <2>2. conv' \in Convs /\ SameConv
    BY <1>0, <1>8, <2>1, OneFieldConv DEF TakeAck
  <2> QED BY <1>1, <1>8, <2>2 DEF TakeAck
<1>9. CASE TakeOutput
  <2>1. f.body \in Seq(Items)
    BY <1>0, <1>9 DEF FrameOK, TakeOutput, Take, f
  <2>2. PageOK' /\ OnePage' /\ UNCHANGED probe
    BY <1>0, <1>9, <2>1 DEF TakeOutput, PageOK, OnePage, f
  <2> QED BY <2>2, FramesPage
<1>10. CASE TakeGenerated
  <2>1. conv' \in Convs /\ SameConv
    BY <1>0, <1>10, OneFieldConv DEF TakeGenerated, WaitEnds
  <2> QED BY <1>1, <1>10, <2>1 DEF TakeGenerated
<1>11. CASE TakeGone
  <2>1. "disconnected" \in States
    BY DEF States
  <2>2. conv' \in Convs /\ SameConv
    BY <1>0, <1>11, <2>1, OneFieldConv DEF TakeGone
  <2> QED BY <1>1, <1>11, <2>2 DEF TakeGone
<1>12. ASSUME NEW b \in BOOLEAN, SettleReload(b), ProbePending, UNCHANGED <<shown, stream, twin, admitted>>
       PROVE  Typed'
  <2>1. conv' \in Convs /\ SameConv
    BY <1>0, <1>12, SettleConv
  <2>2. /\ probe' \in Reloads /\ probe'.retries = probe.retries
        /\ probe'.armed => probe.armed \/ RetriesLeft
    BY <1>0, <1>12, SettleProbe
  <2>3. PageOK' /\ OnePage'
    BY <1>0, <1>12, <2>1, <2>2 DEF PageOK, OnePage, SameConv, Reloads
  <2>4. socket.open
    BY TakeTyped DEF Typed, Wire
  <2> QED BY <2>2, <2>3, <2>4, FramesPage
<1>13. CASE TakeSent
  <2>1. CASE UNCHANGED <<probe, conv>>
    BY <1>0, <1>1, <1>13, <2>1 DEF TakeSent, SameConv
  <2>2. CASE SettleReload(FALSE) /\ ProbePending
    BY <1>12, <1>13, <2>2 DEF TakeSent
  <2> QED BY <1>13, <2>1, <2>2 DEF TakeSent
<1>14. CASE TakeRefused
  <2>1. CASE ReportRefusal
    <3>1. conv' \in Convs /\ SameConv
      BY <1>0, <2>1, ReportConv
    <3> QED BY <1>1, <1>14, <2>1, <3>1 DEF TakeRefused, ReportRefusal
  <2>2. CASE SettleReload(TRUE) /\ ProbePending
    BY <1>12, <1>14, <2>2 DEF TakeRefused
  <2> QED BY <1>14, <2>1, <2>2 DEF TakeRefused
<1> QED
  BY <1>2, <1>3, <1>4, <1>5, <1>6, <1>7, <1>8, <1>9, <1>10, <1>11, <1>13, <1>14 DEF Frames

\* The conversation after createSession.
LEMMA CreateConv ==
    ASSUME StateOK, conv' = [conv EXCEPT !.run = NoRunYet, !.loaded = None, !.state = "disconnected",
                            !.error = ~socket.open, !.pending = socket.open]
    PROVE  /\ conv' \in Convs /\ conv'.run = None /\ conv'.loaded = None
           /\ conv'.pending = socket.open /\ conv'.state = "disconnected"
           /\ conv'.error = ~socket.open
<1> DEFINE o == socket.open
           e == ~socket.open
<1>1. o \in BOOLEAN /\ e \in BOOLEAN /\ conv \in Convs
  BY DEF StateOK, Convs
<1>2. conv' = [conv EXCEPT !.run = None, !.loaded = None, !.state = "disconnected",
                           !.error = e, !.pending = o]
  BY DEF NoRunYet
<1> HIDE DEF o, e
<1>3. conv' \in Convs /\ conv'.run = None /\ conv'.loaded = None
      /\ conv'.pending = o /\ conv'.state = "disconnected" /\ conv'.error = e
  BY <1>1, <1>2 DEF Convs, States
<1> QED
  BY <1>3 DEF o, e

\* A question goes to a new session, or to the one there is.
LEMMA CreateShape ==
    ASSUME StateOK, NEW q \in Asks, CreateSession(q)
    PROVE  /\ conv' \in Convs /\ conv'.run = None /\ conv'.loaded = None
           /\ conv'.pending = socket.open /\ conv'.state = "disconnected"
           /\ conv'.error = ~socket.open
           /\ shown' \in Seq(Items) /\ Longer(shown', shown, <<q, 0>>) /\ stream' = <<>>
           /\ up' \in Seq(Requests)
           /\ \/ ~socket.open /\ up' = up
              \/ socket.open /\ Longer(up', up, Request("create", None, q))
<1>1. Request("create", None, q) \in Requests
  BY DEF Request, Requests
<1>2. <<q, 0>> \in Items /\ shown \in Seq(Items)
  BY Numbers DEF Items, Asks, StateOK
<1>3. shown' \in Seq(Items) /\ Longer(shown', shown, <<q, 0>>)
  BY <1>2, AppendSeq DEF CreateSession
<1>4. /\ up' \in Seq(Requests)
      /\ \/ ~socket.open /\ up' = up
         \/ socket.open /\ Longer(up', up, Request("create", None, q))
  BY <1>1, SendsShape DEF CreateSession
<1>5. stream' = <<>>
  BY DEF CreateSession
<1> QED
  BY <1>3, <1>4, <1>5, CreateConv DEF CreateSession

\* sendMessage: nothing without a run, or the question shown and sent.
LEMMA MessageShape ==
    ASSUME StateOK, NEW q \in Asks, SendMessage(q)
    PROVE  \/ conv.run = None /\ UNCHANGED <<conv, shown, stream, up>>
           \/ /\ conv.run \in Runs
              /\ conv' \in Convs /\ SameConv /\ conv'.state = conv.state
              /\ conv'.error = ~socket.open
              /\ shown' \in Seq(Items) /\ Longer(shown', shown, <<q, 0>>) /\ stream' = <<>>
              /\ up' \in Seq(Requests)
              /\ \/ ~socket.open /\ up' = up
                 \/ socket.open /\ Longer(up', up, Request("message", conv.run, q))
<1>1. CASE conv.run = None
  BY <1>1 DEF SendMessage
<1>2. CASE conv.run # None
  <2>1. conv \in Convs /\ conv.run \in Runs /\ socket.open \in BOOLEAN
    BY <1>2 DEF StateOK, Convs
  <2>2. Request("message", conv.run, q) \in Requests
    BY <2>1, Numbers DEF Request, Requests, Asks
  <2>3. <<q, 0>> \in Items /\ shown \in Seq(Items)
    BY Numbers DEF Items, Asks, StateOK
  <2>4. shown' \in Seq(Items) /\ Longer(shown', shown, <<q, 0>>) /\ stream' = <<>>
    <3>1. shown' = Append(shown, <<q, 0>>) /\ stream' = <<>>
      BY <1>2 DEF SendMessage
    <3>2. Append(shown, <<q, 0>>) \in Seq(Items) /\ Longer(Append(shown, <<q, 0>>), shown, <<q, 0>>)
      BY <2>3, AppendSeq
    <3> QED BY <3>1, <3>2
  <2>5. /\ up' \in Seq(Requests)
        /\ \/ ~socket.open /\ up' = up
           \/ socket.open /\ Longer(up', up, Request("message", conv.run, q))
    BY <1>2, <2>2, SendsShape DEF SendMessage
  <2>6. conv' \in Convs /\ SameConv /\ conv'.state = conv.state /\ conv'.error = ~socket.open
    <3> DEFINE e == ~socket.open
    <3>1. e \in BOOLEAN /\ conv' = [conv EXCEPT !.error = e]
      BY <1>2, <2>1 DEF SendMessage
    <3> HIDE DEF e
    <3>2. conv' \in Convs /\ SameConv /\ conv'.state = conv.state /\ conv'.error = e
      BY <2>1, <3>1, OneFieldConv
    <3> QED BY <3>2 DEF e
  <2> QED BY <2>1, <2>4, <2>5, <2>6
<1> QED
  BY <1>1, <1>2

\* A queued question is delivered.
LEMMA DeliverTyped ==
    ASSUME Typed, Deliver
    PROVE  Typed'
<1> USE DEF Typed
<1>1. twin.queued \in Asks /\ Page = "twin"
  BY Numbers DEF StateOK, Asks, Deliver, OnePage
<1>0. /\ StateOK /\ conv \in Convs /\ shown \in Seq(Items) /\ stream \in Seq(Items)
      /\ up \in Seq(Requests) /\ <<>> \in Seq(Items)
  BY Parts DEF PageOK, NetOK
<1>2. /\ conv' \in Convs /\ shown' \in Seq(Items) /\ stream' \in Seq(Items)
      /\ up' \in Seq(Requests) /\ conv'.loaded = None
      /\ ~socket.open => up' = up
  <2>1. CASE CreateSession(twin.queued)
    BY <1>0, <1>1, <2>1, CreateShape
  <2>2. CASE SendMessage(twin.queued)
    <3>1. conv.loaded = None
      BY <1>1, Numbers DEF OnePage
    <3> HIDE DEF Typed
    <3> QED BY <1>0, <1>1, <2>2, <3>1, MessageShape DEF SameConv
  <2> QED BY <2>1, <2>2 DEF Deliver
<1>3. twin' \in [queued : 0 .. MaxAsks, has : BOOLEAN]
  <2> DEFINE h == Has
  <2>1. h \in BOOLEAN /\ twin' = [queued |-> 0, has |-> h]
    BY DEF Deliver, Has
  <2> HIDE DEF h
  <2> QED BY <2>1, Numbers
<1>4. NetOK' /\ PageOK' /\ RunnerOK'
  BY <1>2, <1>3, Parts DEF Deliver, NetOK, PageOK, RunnerOK, runner
<1>5. AtWork' /\ OnePage' /\ Wire'
  BY <1>1, <1>2, Numbers DEF Deliver, AtWork, OnePage, Wire, runner
<1> QED
  BY <1>4, <1>5, Parts

\* A message in a loaded conversation.
LEMMA AskTyped ==
    ASSUME Typed, AskLoaded
    PROVE  Typed'
<1> USE DEF Typed
<1>1. asked + 1 \in Asks /\ asked' \in 0 .. MaxAsks
  BY Numbers DEF StateOK, Asks, AskLoaded
<1>2. SendMessage(asked + 1) /\ Page = "loaded" /\ socket.open
  BY DEF AskLoaded, Sendable
<1>0. /\ StateOK /\ conv \in Convs /\ shown \in Seq(Items) /\ stream \in Seq(Items)
      /\ up \in Seq(Requests) /\ <<>> \in Seq(Items)
  BY Parts DEF PageOK, NetOK
<1>3. /\ conv' \in Convs /\ shown' \in Seq(Items) /\ stream' \in Seq(Items)
      /\ up' \in Seq(Requests) /\ SameConv
  <2> HIDE DEF Typed
  <2> QED BY <1>0, <1>1, <1>2, MessageShape DEF SameConv
<1>4. NetOK' /\ PageOK' /\ RunnerOK'
  BY <1>1, <1>3, Parts DEF AskLoaded, NetOK, PageOK, RunnerOK, runner
<1>5. AtWork' /\ OnePage' /\ Wire'
  BY <1>2, <1>3, Numbers DEF AskLoaded, AtWork, OnePage, Wire, runner, SameConv
<1> QED
  BY <1>4, <1>5, Parts

\* A workflow asked for.
LEMMA GenerateShape ==
    ASSUME Typed, GenerateWorkflow
    PROVE  /\ Page = "loaded" /\ socket.open /\ Request("generate", conv.run, 0) \in Requests
           /\ up' \in Seq(Requests) /\ Longer(up', up, Request("generate", conv.run, 0))
           /\ conv' \in Convs /\ SameConv /\ conv'.state = conv.state /\ conv'.error = conv.error
<1>1. Page = "loaded" /\ socket.open /\ conv.run \in Runs /\ conv \in Convs
  <2>1. conv.run = 1 /\ 1 \in Runs
    BY ConversationAssumption DEF GenerateWorkflow, Typed, OnePage, Runs
  <2> QED BY <2>1, Parts DEF GenerateWorkflow, Typed, PageOK
<1>2. Request("generate", conv.run, 0) \in Requests
  BY <1>1, Numbers DEF Request, Requests
<1>3. up' \in Seq(Requests) /\ Longer(up', up, Request("generate", conv.run, 0))
  BY <1>1, <1>2, SendsShape DEF GenerateWorkflow, Typed
<1>4. conv' \in Convs /\ SameConv /\ conv'.state = conv.state /\ conv'.error = conv.error
  BY <1>1, OneFieldConv DEF GenerateWorkflow
<1> QED
  BY <1>1, <1>2, <1>3, <1>4

\* A workflow asked for keeps the types.
LEMMA GenerateTyped ==
    ASSUME Typed, GenerateWorkflow
    PROVE  Typed'
<1> USE DEF Typed
<1>1. NetOK' /\ PageOK' /\ RunnerOK'
  BY GenerateShape, Parts DEF GenerateWorkflow, NetOK, PageOK, RunnerOK, runner
<1>2. AtWork' /\ OnePage' /\ Wire'
  BY GenerateShape, Numbers DEF GenerateWorkflow, AtWork, OnePage, Wire, runner, SameConv
<1> QED
  BY <1>1, <1>2, Parts

\* Every step keeps the types.
LEMMA NextTyped ==
    ASSUME Typed, [Step]_state
    PROVE  Typed'
<1>1. CASE UNCHANGED state
  BY <1>1 DEF state, page, net, runner, Typed, StateOK, AtWork, OnePage, Wire
<1>2. CASE Step
  BY <1>2, OpensTyped, DropsTyped, RetryTyped, SilentTyped, RelayTyped, ReadsTyped, WorksTyped,
     FailsTyped, OthersTyped, LeavesTyped, FramesTyped, DeliverTyped, AskTyped, GenerateTyped
     DEF Step, Working, Users, Faults
<1> QED
  BY <1>1, <1>2

\* What has been recorded stays so, and what has not, has not happened.
LEMMA PastStep ==
    ASSUME [Next]_vars
    PROVE  /\ [Step]_state
           /\ ~crossed' => ~crossed /\ (UNCHANGED state \/ ~Crossing)
           /\ ~hasty' => ~hasty /\ (asked' # asked => InTime)
<1>1. CASE UNCHANGED vars
  BY <1>1 DEF vars, state, page
<1>2. CASE Next
  BY <1>2, Zenon DEF Next, Record
<1> QED
  BY <1>1, <1>2

\* The record is of the types it is said to be.
LEMMA PastTyped ==
    /\ Init => hasty \in BOOLEAN /\ crossed \in BOOLEAN
    /\ hasty \in BOOLEAN /\ crossed \in BOOLEAN /\ [Next]_vars
         => hasty' \in BOOLEAN /\ crossed' \in BOOLEAN
  BY DEF Init, Next, Record, vars

\* The types hold in every behaviour, and so does the record's: what the page
\* shows, counts and waits for is always what useChatWebSocket.ts:80 declares.
THEOREM Typing == Spec => []TypeOK
<1> DEFINE I == Typed /\ hasty \in BOOLEAN /\ crossed \in BOOLEAN
<1>1. Init => I
  BY InitTyped, PastTyped
<1>2. I /\ [Next]_vars => I'
  BY NextTyped, PastStep, PastTyped
<1>3. I => TypeOK
  BY DEF Typed, TypeOK
<1> HIDE DEF I
<1> QED
  BY <1>1, <1>2, <1>3, PTL DEF Spec
-----------------------------------------------------------------------------
(* What each action does, field by field.                                   *)

\* What one step of the runner does to a session: as a reader of the fields sees it.
LEMMA WorksShape ==
    ASSUME Typed, NEW r \in Runs, Works(r)
    PROVE  /\ UNCHANGED <<page, socket, up, here, inbox, faults>>
           /\ \A t \in Runs \ {r} : sess'[t] = sess[t]
           /\ sess'[r].by = sess[r].by
           /\ sess[r].state \in {"initializing", "processing"} \/ sess[r].generating
           /\ \/ /\ sess[r].state = "initializing" /\ sess'[r].state = "processing"
                 /\ sess'[r].todo = sess[r].todo /\ sess'[r].given = sess[r].given
                 /\ sess'[r].log = sess[r].log /\ sess'[r].generating = sess[r].generating
                 /\ Broadcast(<<Frame("state", r, "processing")>>)
              \/ /\ sess[r].state = "processing" /\ sess'[r].state = "processing"
                 /\ sess[r].given + 1 \in 1 .. Chunks
                 /\ sess'[r].todo = sess[r].todo /\ sess'[r].given = sess[r].given + 1
                 /\ sess'[r].log = Append(sess[r].log, NextPiece(sess[r]))
                 /\ sess'[r].generating = sess[r].generating
                 /\ NextPiece(sess[r]) \in Items
                 /\ Broadcast(<<Frame("response", r, NextPiece(sess[r]))>>)
              \/ /\ sess[r].state = "processing" /\ sess[r].given = Chunks
                 /\ sess'[r].todo = Tail(sess[r].todo) /\ sess'[r].given = 0
                 /\ sess'[r].log = sess[r].log /\ sess'[r].generating = sess[r].generating
                 /\ \/ /\ Tail(sess[r].todo) = <<>> /\ sess'[r].state = "ready"
                       /\ Broadcast(<<Frame("state", r, "ready")>>)
                    \/ Tail(sess[r].todo) # <<>> /\ sess'[r].state = "processing" /\ UNCHANGED down
              \/ /\ sess'[r].state = sess[r].state
                 /\ sess'[r].todo = sess[r].todo /\ sess'[r].given = sess[r].given
                 /\ sess'[r].log = sess[r].log /\ ~sess'[r].generating
                 /\ Broadcast(<<Frame("generated", r, None)>>)
<1> DEFINE s == sess[r]
<1>1. /\ s \in Sessions /\ (s.state \in {"initializing", "processing"} => s.todo # <<>>)
      /\ UNCHANGED <<page, socket, up, here, inbox, faults>>
      /\ s.state \in {"initializing", "processing"} \/ s.generating
      /\ \E t : sess' = [sess EXCEPT ![r] = t]
  BY AtWorkHas DEF Works
<1>2. \A t \in Runs \ {r} : sess'[t] = sess[t]
  BY <1>1, SessionSet DEF Typed
<1>3. CASE s.state = "initializing" /\ sess' = [sess EXCEPT ![r] = Begun(s)]
           /\ Broadcast(<<Frame("state", r, "processing")>>)
  <2>1. sess'[r] = [by |-> s.by, state |-> "processing", todo |-> s.todo,
                    given |-> s.given, log |-> s.log, generating |-> s.generating]
    BY <1>1, <1>3, BegunIs, SessionSet DEF Typed
  <2> QED BY <1>1, <1>2, <1>3, <2>1
<1>4. CASE s.state = "processing" /\ s.given < Chunks /\ sess' = [sess EXCEPT ![r] = Said(s)]
           /\ Broadcast(<<Frame("response", r, NextPiece(s))>>)
  <2>1. /\ sess'[r] = [by |-> s.by, state |-> s.state, todo |-> s.todo,
                       given |-> s.given + 1, log |-> Append(s.log, NextPiece(s)),
                       generating |-> s.generating]
        /\ NextPiece(s) \in Items /\ s.given + 1 \in 1 .. Chunks
    BY <1>1, <1>4, SaidIs, SessionSet DEF Typed
  <2> QED BY <1>1, <1>2, <1>4, <2>1
<1>5. CASE s.state = "processing" /\ s.given = Chunks /\ sess' = [sess EXCEPT ![r] = Answered(s)]
           /\ (IF Tail(s.todo) = <<>> THEN Broadcast(<<Frame("state", r, "ready")>>)
               ELSE UNCHANGED down)
  <2>1. sess'[r] = [by |-> s.by,
                    state |-> IF Tail(s.todo) = <<>> THEN "ready" ELSE "processing",
                    todo |-> Tail(s.todo), given |-> 0, log |-> s.log,
                    generating |-> s.generating]
    BY <1>1, <1>5, AnsweredIs, SessionSet DEF Typed
  <2>2. /\ sess'[r].by = s.by /\ sess'[r].todo = Tail(s.todo) /\ sess'[r].given = 0
        /\ sess'[r].log = s.log /\ sess'[r].generating = s.generating
        /\ Tail(s.todo) = <<>> => sess'[r].state = "ready"
        /\ Tail(s.todo) # <<>> => sess'[r].state = "processing"
    BY <2>1
  <2> QED BY <1>1, <1>2, <1>5, <2>2, Zenon
<1>6. CASE sess' = [sess EXCEPT ![r] = Making(s, FALSE)]
           /\ Broadcast(<<Frame("generated", r, None)>>)
  <2>1. Making(s, FALSE) = [by |-> s.by, state |-> s.state, todo |-> s.todo,
                    given |-> s.given, log |-> s.log, generating |-> FALSE]
    BY <1>1, MakingIs, Zenon
  <2> DEFINE m == Making(s, FALSE)
  <2>2. sess'[r] = m
    BY <1>6, SessionSet, Zenon DEF Typed
  <2>3. sess'[r] = [by |-> s.by, state |-> s.state, todo |-> s.todo,
                    given |-> s.given, log |-> s.log, generating |-> FALSE]
    BY <2>1, <2>2, Zenon
  <2> QED BY <1>1, <1>2, <1>6, <2>3
<1> QED
  BY <1>3, <1>4, <1>5, <1>6 DEF Works

\* The same of a session that fails.
LEMMA FailsShape ==
    ASSUME Typed, NEW r \in Runs, SessionFails(r)
    PROVE  /\ UNCHANGED <<page, socket, up, here, inbox>>
           /\ \A t \in Runs \ {r} : sess'[t] = sess[t]
           /\ sess[r].state \in {"initializing", "processing"}
           /\ sess'[r].by = sess[r].by /\ sess'[r].state = "error" /\ sess'[r].todo = <<>>
           /\ sess'[r].given = 0 /\ sess'[r].log = sess[r].log
           /\ sess'[r].generating = sess[r].generating
           /\ Broadcast(<<Frame("state", r, "error")>>)
<1>1. sess[r] \in Sessions /\ sess' = [sess EXCEPT ![r] = Broken(sess[r])]
  BY AtWorkHas DEF SessionFails
<1>2. sess'[r] = Broken(sess[r]) /\ \A t \in Runs \ {r} : sess'[t] = sess[t]
  BY <1>1, SessionSet DEF Typed
<1>3. sess'[r] = [by |-> sess[r].by, state |-> "error", todo |-> <<>>, given |-> 0,
                  log |-> sess[r].log, generating |-> sess[r].generating]
  BY <1>1, <1>2, BrokenIs
<1>4. /\ sess'[r].by = sess[r].by /\ sess'[r].state = "error" /\ sess'[r].todo = <<>>
      /\ sess'[r].given = 0 /\ sess'[r].log = sess[r].log
      /\ sess'[r].generating = sess[r].generating
  BY <1>3
<1> QED
  BY <1>1, <1>2, <1>4 DEF SessionFails

\* The same of a request that the runner reads.
CreatesOne(b, q, w) ==
    \/ /\ UNCHANGED sess /\ Broadcast(<<Denied(b)>>)
    \/ \E r \in Runs :
         /\ sess[r].by = None /\ sess'[r] = Session(b, q)
         /\ \A t \in Runs \ {r} : sess'[t] = sess[t]
         /\ Broadcast(<<Created(r, w)>>)
\* A create that is granted or refused is one of these.
LEMMA CreatesShape ==
    ASSUME Typed, NEW b, NEW q, NEW w, Grants(b, q, w) \/ Denies(b)
    PROVE  CreatesOne(b, q, w)
<1>1. CASE Denies(b)
  BY <1>1 DEF Denies, CreatesOne
<1>2. CASE Grants(b, q, w)
  <2>1. PICK r \in Runs :
         /\ sess[r].by = None
         /\ sess' = [sess EXCEPT ![r] = Session(b, q)]
         /\ Broadcast(<<Created(r, w)>>)
    BY <1>2 DEF Grants, Fresh
  <2>2. sess'[r] = Session(b, q) /\ \A t \in Runs \ {r} : sess'[t] = sess[t]
    BY <2>1, SessionSet DEF Typed
  <2> QED BY <2>1, <2>2, Zenon DEF CreatesOne
<1> QED
  BY <1>1, <1>2

\* What the runner makes of a request, field by field.
LEMMA ReadsShape ==
    ASSUME Typed, RunnerReads, NEW x, x = Head(inbox)
    PROVE  \/ x.kind = "create" /\ CreatesOne("page", x.q, "page")
           \/ /\ x.kind = "state" /\ UNCHANGED sess
              /\ Broadcast(<<Frame("state", x.run, sess[x.run].state)>>)
           \/ /\ x.kind = "output" /\ UNCHANGED sess
              /\ Broadcast(<<Frame("output", x.run, sess[x.run].log)>>)
           \/ /\ x.kind = "generate" /\ UNCHANGED down
              /\ \A t \in Runs \ {x.run} : sess'[t] = sess[t]
              /\ sess'[x.run].by = sess[x.run].by /\ sess'[x.run].state = sess[x.run].state
              /\ sess'[x.run].todo = sess[x.run].todo /\ sess'[x.run].given = sess[x.run].given
              /\ sess'[x.run].log = sess[x.run].log
           \/ /\ x.kind = "message" /\ UNCHANGED sess
              /\ sess[x.run].state \notin {"initializing", "processing", "ready"}
              /\ Broadcast(<<Frame("ack", x.run, FALSE)>>)
           \/ /\ x.kind = "message"
              /\ sess[x.run].state \in {"initializing", "processing", "ready"}
              /\ \A t \in Runs \ {x.run} : sess'[t] = sess[t]
              /\ sess'[x.run].by = sess[x.run].by /\ sess'[x.run].state = "processing"
              /\ sess'[x.run].todo = Append(sess[x.run].todo, x.q)
              /\ sess'[x.run].given = sess[x.run].given
              /\ sess'[x.run].log = Append(sess[x.run].log, <<x.q, 0>>)
              /\ sess'[x.run].generating = sess[x.run].generating
              /\ Broadcast(<<Frame("ack", x.run, TRUE)>>)
<1>1. x \in Requests
  BY ReadShape DEF Typed
<1>2. /\ x.kind \in {"create", "message", "state", "output", "generate"}
      /\ x.kind # "create" => x.run \in Runs /\ sess[x.run] \in Sessions
      /\ x.q \in 0 .. MaxAsks
  <2>1. /\ x.kind \in {"create", "message", "state", "output", "generate"}
        /\ x.kind # "create" => x.run \in Runs
        /\ x.q \in 0 .. MaxAsks
    BY <1>1, RequestKinds
  <2> QED BY <2>1, AtWorkHas
<1>3. CASE x.kind = "create"
  <2>1. Grants("page", x.q, "page") \/ Denies("page")
    BY <1>3 DEF RunnerReads
  <2> QED BY <1>3, <2>1, CreatesShape
<1>4. x.kind # "create" => Answers(x)
  BY DEF RunnerReads
<1>5. CASE x.kind \in {"state", "output"}
  BY <1>4, <1>5 DEF Answers
<1>6. CASE x.kind = "generate"
  <2> DEFINE m == Making(sess[x.run], TRUE)
  <2>1. UNCHANGED down /\ sess' = [sess EXCEPT ![x.run] = m]
    BY <1>4, <1>6 DEF Answers
  <2>2. m = [by |-> sess[x.run].by, state |-> sess[x.run].state,
             todo |-> sess[x.run].todo, given |-> sess[x.run].given,
             log |-> sess[x.run].log, generating |-> TRUE]
    BY <1>2, <1>6, MakingIs, Zenon
  <2> HIDE DEF m
  <2>3. sess'[x.run] = m /\ \A t \in Runs \ {x.run} : sess'[t] = sess[t]
    BY <1>2, <1>6, <2>1, SessionSet DEF Typed
  <2>4. /\ m.by = sess[x.run].by /\ m.state = sess[x.run].state
        /\ m.todo = sess[x.run].todo /\ m.given = sess[x.run].given
        /\ m.log = sess[x.run].log
    BY <2>2
  <2> QED BY <1>6, <2>1, <2>3, <2>4
<1>7. CASE x.kind = "message"
  <2> DEFINE live == sess[x.run].state \in {"initializing", "processing", "ready"}
  <2>1. /\ Broadcast(<<Frame("ack", x.run, live)>>)
        /\ sess' = IF live THEN [sess EXCEPT ![x.run] = Heard(sess[x.run], x.q)] ELSE sess
    BY <1>4, <1>7 DEF Answers
  <2>2. CASE live
    <3>1. live = TRUE
      BY <2>2
    <3>2. Broadcast(<<Frame("ack", x.run, TRUE)>>)
      BY <2>1, <3>1, Zenon
    <3>3. sess'[x.run] = Heard(sess[x.run], x.q) /\ \A t \in Runs \ {x.run} : sess'[t] = sess[t]
      BY <1>2, <1>7, <2>1, <2>2, SessionSet DEF Typed
    <3> HIDE DEF live
    <3> DEFINE s == sess[x.run]
               todo == Append(s.todo, x.q)
               log == Append(s.log, <<x.q, 0>>)
    <3>4. sess'[x.run] = [by |-> s.by, state |-> "processing", todo |-> todo,
                          given |-> s.given, log |-> log, generating |-> s.generating]
      BY <1>2, <1>7, <3>3, HeardIs
    <3> HIDE DEF todo, log
    <3>6. /\ sess'[x.run].by = s.by /\ sess'[x.run].state = "processing"
          /\ sess'[x.run].todo = todo /\ sess'[x.run].given = s.given
          /\ sess'[x.run].log = log /\ sess'[x.run].generating = s.generating
      BY <3>4
    <3>5. /\ sess'[x.run].by = sess[x.run].by /\ sess'[x.run].state = "processing"
          /\ sess'[x.run].todo = Append(sess[x.run].todo, x.q)
          /\ sess'[x.run].given = sess[x.run].given
          /\ sess'[x.run].log = Append(sess[x.run].log, <<x.q, 0>>)
          /\ sess'[x.run].generating = sess[x.run].generating
      BY <3>6 DEF todo, log
    <3> QED BY <1>7, <2>2, <3>2, <3>3, <3>5, Zenon DEF live
  <2>3. CASE ~live
    <3>1. live = FALSE
      BY <2>3
    <3>2. Broadcast(<<Frame("ack", x.run, FALSE)>>)
      BY <2>1, <3>1, Zenon
    <3> QED BY <1>7, <2>1, <2>3, <3>2
  <2> QED BY <2>2, <2>3
<1> QED
  BY <1>2, <1>3, <1>5, <1>6, <1>7

\* The same of another tab's create, and of the runner's departure.
LEMMA OthersShape ==
    ASSUME Typed, OtherCreates
    PROVE  /\ UNCHANGED <<page, socket, up, here, inbox>>
           /\ \E w \in Askers \ {"page"} : CreatesOne("other", 0, w)
<1>1. PICK w \in Askers \ {"page"} : Grants("other", 0, w) \/ Denies("other")
  BY DEF OtherCreates, Askers
<1>2. CreatesOne("other", 0, w)
  BY <1>1, CreatesShape
<1> QED
  BY <1>2 DEF OtherCreates

\* What a departure leaves.
LEMMA LeavesShape ==
    ASSUME Typed, RunnerLeaves
    PROVE  /\ here /\ UNCHANGED <<page, socket, up>> /\ here' = FALSE /\ inbox' = <<>>
           /\ Broadcast(<<Frame("gone", None, None)>>)
           /\ \/ UNCHANGED sess
              \/ \A r \in Runs :
                   /\ sess'[r].by = sess[r].by /\ sess'[r].state = "not_found"
                   /\ sess'[r].todo = <<>> /\ sess'[r].given = 0 /\ sess'[r].log = <<>>
                   /\ ~sess'[r].generating
<1>1. CASE UNCHANGED sess
  BY <1>1 DEF RunnerLeaves
<1>2. CASE sess' = [r \in Runs |-> Lost(sess[r])]
  <2>1. \A r \in Runs : sess'[r] = Lost(sess[r]) /\ sess[r] \in Sessions
    BY <1>2 DEF Typed, StateOK
  <2>2. ASSUME NEW r \in Runs
        PROVE  /\ sess'[r].by = sess[r].by /\ sess'[r].state = "not_found"
               /\ sess'[r].todo = <<>> /\ sess'[r].given = 0 /\ sess'[r].log = <<>>
               /\ ~sess'[r].generating
    <3>1. sess'[r] = [by |-> sess[r].by, state |-> "not_found", todo |-> <<>>, given |-> 0,
                      log |-> <<>>, generating |-> FALSE]
      BY <2>1, LostIs
    <3> QED BY <3>1
  <2> QED BY <2>2 DEF RunnerLeaves
<1> QED
  BY <1>1, <1>2 DEF RunnerLeaves

\* A frame is broadcast: the frames there are afterwards.
LEMMA Told ==
    ASSUME Typed, NEW f, FrameOK(f), Broadcast(<<f>>)
    PROVE  SetOf(down') \subseteq SetOf(down) \cup {f}
  BY BroadcastShape DEF Typed, Longer

\* A session is created at most once, by one tab.
LEMMA ByKept ==
    ASSUME Typed, [Step]_state
    PROVE  \A r \in Runs : sess[r].by # None => sess'[r].by = sess[r].by
<1> SUFFICES ASSUME NEW r \in Runs, sess[r].by # None PROVE sess'[r].by = sess[r].by
  OBVIOUS
<1>1. CASE UNCHANGED sess
  BY <1>1
<1>2. CASE Working
  <2>1. PICK t \in Runs : Works(t)
    BY <1>2 DEF Working
  <2> QED BY <2>1, WorksShape
<1>3. CASE \E t \in Runs : SessionFails(t)
  <2>1. PICK t \in Runs : SessionFails(t)
    BY <1>3
  <2>2. sess'[t].by = sess[t].by /\ \A u \in Runs \ {t} : sess'[u] = sess[u]
    BY <2>1, FailsShape
  <2> QED BY <2>2
<1>4. ASSUME NEW b, NEW q, NEW w, CreatesOne(b, q, w)
      PROVE  sess'[r].by = sess[r].by
  BY <1>4 DEF CreatesOne
<1>5. CASE RunnerReads
  <2> DEFINE x == Head(inbox)
  <2>1. x.kind # "create" => x.run \in Runs
    BY <1>5, ReadShape, RequestKinds DEF Typed
  <2>2. CASE CreatesOne("page", x.q, "page")
    BY <1>4, <2>2
  <2>3. CASE x.kind # "create" /\ \A t \in Runs \ {x.run} : sess'[t] = sess[t]
    <3>1. sess'[x.run].by = sess[x.run].by
      <4>1. x.kind = "generate" \/ x.kind = "message" \/ UNCHANGED sess
        BY <1>5, <2>3, ReadsShape
      <4>2. CASE x.kind = "generate"
        BY <1>5, <4>2, ReadsShape
      <4>3. CASE x.kind = "message"
        BY <1>5, <4>3, ReadsShape
      <4> QED BY <4>1, <4>2, <4>3
    <3> QED BY <2>1, <2>3, <3>1
  <2> QED BY <1>1, <1>5, <2>2, <2>3, ReadsShape
<1>6. CASE OtherCreates
  BY <1>4, <1>6, OthersShape
<1>7. CASE RunnerLeaves
  BY <1>1, <1>7, LeavesShape
<1>8. CASE Opens \/ Drops \/ RetryFires \/ RelayReads \/ RunnerReturns \/ Submit \/ Forget
           \/ Deliver \/ AskLoaded \/ GenerateWorkflow
  BY <1>1, <1>8 DEF Opens, Drops, RetryFires, RelayReads, RunnerReturns, Submit, Forget, Deliver,
     AskLoaded, GenerateWorkflow, runner
<1>9. CASE Frames
  BY <1>1, <1>9, TakeTyped DEF runner
<1>10. CASE UNCHANGED state
  BY <1>1, <1>10 DEF state, runner
<1> QED
  BY <1>2, <1>3, <1>5, <1>6, <1>7, <1>8, <1>9, <1>10 DEF Step, Users, Faults
-----------------------------------------------------------------------------
(* Sessions and frames that are known.                                      *)

\* An action leaves it so when what it adds is about sessions there are.
LEMMA KnownKeep ==
    ASSUME Typed, KnownInv, Step, Born',
           conv'.run # None => conv'.run = conv.run \/ Known(conv'.run),
           \A x \in SetOf(up') \cup SetOf(inbox') :
             x \in SetOf(up) \cup SetOf(inbox) \/ RequestKnown(x),
           \A f \in SetOf(down') : f \in SetOf(down) \/ FrameKnown(f) \/ FrameKnown(f)'
    PROVE  KnownInv'
<1>1. ASSUME NEW r, Known(r) PROVE Known(r)'
  BY <1>1, ByKept DEF Known
<1>2. ASSUME NEW f, FrameKnown(f) PROVE FrameKnown(f)'
  BY <1>1, <1>2 DEF FrameKnown
<1>3. ASSUME NEW x, RequestKnown(x) PROVE RequestKnown(x)'
  BY <1>1, <1>3 DEF RequestKnown
<1>4. (conv.run # None => Known(conv.run))'
  <2>1. ASSUME NEW r, r = conv'.run, r # None PROVE Known(r)'
    BY <1>1, <2>1 DEF KnownInv
  <2> QED BY <2>1 DEF Known
<1>5. \A x \in SetOf(up') \cup SetOf(inbox') : RequestKnown(x)'
  BY <1>3 DEF KnownInv
<1>6. \A f \in SetOf(down') : FrameKnown(f)'
  BY <1>2 DEF KnownInv
<1> QED
  BY <1>4, <1>5, <1>6 DEF KnownInv

\* Nothing is about anything at the start.
LEMMA KnownInit == Init => KnownInv
<1> SUFFICES ASSUME Init PROVE KnownInv
  OBVIOUS
<1>1. up = <<>> /\ down = <<>> /\ inbox = <<>> /\ SetOf(<<>>) = {}
  BY DEF Init, SetOf
<1>2. \A r \in Runs : ~(Page = "loaded" /\ r = 1) => sess[r] = NoSession
  BY DEF Init
<1>3. Page = "loaded" => 1 \in Runs /\ sess[1].by = "page"
  <2>1. ASSUME NEW S, S = Session("page", 1)
        PROVE  [S EXCEPT !.state = "processing"].by = "page"
    BY <2>1 DEF Session
  <2>2. Page = "loaded" => 1 \in Runs
    BY ConversationAssumption DEF Runs
  <2> QED BY <2>1, <2>2 DEF Init
<1>4. Born
  BY <1>2, <1>3, Numbers DEF Born, NoSession
<1>5. conv.run # None => Known(conv.run)
  BY <1>3, Numbers DEF Init, Known
<1> QED
  BY <1>1, <1>4, <1>5 DEF KnownInv

\* What a request of a reload is about.
LEMMA ReloadKnown ==
    ASSUME Typed, KnownInv, NEW b \in BOOLEAN
    PROVE  \A x \in SetOf(ReloadOf(b)) : RequestKnown(x)
  BY ReloadShape DEF Typed, KnownInv, RequestKnown

\* A step that moves no session and brings only known frames.
LEMMA KnownQuiet ==
    ASSUME Typed, KnownInv, Step, UNCHANGED sess, conv'.run = conv.run,
           SetOf(up') \cup SetOf(inbox') \subseteq SetOf(up) \cup SetOf(inbox),
           \A f \in SetOf(down') : f \in SetOf(down) \/ FrameKnown(f)
    PROVE  KnownInv'
<1>1. Born'
  BY DEF Born, KnownInv
<1> QED
  BY <1>1, KnownKeep

\* A session created is known from then on.
LEMMA KnownCreating ==
    ASSUME Typed, KnownInv, Step, NEW b \in {"page", "other"}, NEW q \in 0 .. MaxAsks,
           NEW w \in Askers, CreatesOne(b, q, w), conv' = conv,
           SetOf(up') \cup SetOf(inbox') \subseteq SetOf(up) \cup SetOf(inbox)
    PROVE  KnownInv'
<1>1. CASE UNCHANGED sess /\ Broadcast(<<Denied(b)>>)
  <2>1. SetOf(down') \subseteq SetOf(down) \cup {Denied(b)}
    BY <1>1, Told, FrameType
  <2>2. FrameKnown(Denied(b))
    BY CreateFields DEF FrameKnown, RunKinds
  <2> QED BY <1>1, <2>1, <2>2, KnownQuiet
<1>2. CASE \E r \in Runs :
         /\ sess[r].by = None /\ sess'[r] = Session(b, q)
         /\ \A t \in Runs \ {r} : sess'[t] = sess[t]
         /\ Broadcast(<<Created(r, w)>>)
  <2>1. PICK r \in Runs :
         /\ sess[r].by = None /\ sess'[r] = Session(b, q)
         /\ \A t \in Runs \ {r} : sess'[t] = sess[t]
         /\ Broadcast(<<Created(r, w)>>)
    BY <1>2
  <2> DEFINE f == Created(r, w)
  <2>2. SetOf(down') \subseteq SetOf(down) \cup {f}
    BY <2>1, Told, FrameType
  <2>3. sess'[r].by = b
    BY <2>1 DEF Session
  <2>4. FrameKnown(f)'
    <3>1. f.kind = "created" /\ f.body.id = r
      BY DEF Created, Frame
    <3> HIDE DEF f
    <3> QED BY <2>3, <3>1, Numbers DEF FrameKnown, Known, RunKinds
  <2>5. Born'
    BY <2>1, <2>3, Numbers DEF Born, KnownInv
  <2> HIDE DEF f
  <2> QED BY <2>2, <2>4, <2>5, KnownKeep
<1> QED
  BY <1>1, <1>2 DEF CreatesOne

\* A broadcast about one session there is.
LEMMA KnownTold ==
    ASSUME Typed, KnownInv, Step, NEW k, NEW r, NEW b, k # "created", Known(r),
           FrameOK(Frame(k, r, b)), Broadcast(<<Frame(k, r, b)>>) \/ UNCHANGED down,
           \A t \in Runs \ {r} : sess'[t] = sess[t], sess'[r].by = sess[r].by, conv' = conv,
           SetOf(up') \cup SetOf(inbox') \subseteq SetOf(up) \cup SetOf(inbox)
    PROVE  KnownInv'
<1>1. SetOf(down') \subseteq SetOf(down) \cup {Frame(k, r, b)}
  BY Told
<1>2. FrameKnown(Frame(k, r, b))
  <2>1. Frame(k, r, b).kind = k /\ Frame(k, r, b).run = r
    BY DEF Frame
  <2> QED BY <2>1 DEF FrameKnown
<1>3. Born'
  BY DEF Born, KnownInv, Known
<1> QED
  BY <1>1, <1>2, <1>3, KnownKeep

\* The runner speaks of the session it was asked about.
LEMMA KnownReads ==
    ASSUME Typed, KnownInv, RunnerReads
    PROVE  KnownInv'
<1> DEFINE x == Head(inbox)
<1>1. /\ x \in SetOf(inbox) /\ x \in Requests /\ SetOf(inbox') \subseteq SetOf(inbox)
      /\ conv' = conv /\ up' = up
  BY ReadShape DEF Typed, Shorter, page
<1>2. x.kind # "create" => Known(x.run) /\ sess[x.run] \in Sessions
  BY <1>1, AtWorkHas DEF KnownInv, RequestKnown, Known
<1>3. Step /\ x.q \in 0 .. MaxAsks
  BY <1>1, RequestKinds DEF Step
<1> HIDE DEF x
<1> DEFINE r == x.run
<1>4. CASE x.kind = "create" /\ CreatesOne("page", x.q, "page")
  BY <1>1, <1>3, <1>4, KnownCreating DEF Askers
<1>5. CASE x.kind = "state" /\ UNCHANGED sess
           /\ Broadcast(<<Frame("state", r, sess[r].state)>>)
  <2>1. sess[r].state \in States /\ r \in Runs
    BY <1>2, <1>5 DEF Sessions, Known
  <2>2. FrameOK(Frame("state", r, sess[r].state))
    BY <2>1, FrameType
  <2> QED BY <1>1, <1>2, <1>3, <1>5, <2>2, KnownTold
<1>6. CASE x.kind = "output" /\ UNCHANGED sess
           /\ Broadcast(<<Frame("output", r, sess[r].log)>>)
  <2>1. sess[r].log \in Seq(Items) /\ r \in Runs
    BY <1>2, <1>6 DEF Sessions, Known
  <2>2. FrameOK(Frame("output", r, sess[r].log))
    BY <2>1, FrameType
  <2> QED BY <1>1, <1>2, <1>3, <1>6, <2>2, KnownTold
<1>7. CASE x.kind = "generate"
  <2>1. /\ UNCHANGED down /\ \A t \in Runs \ {r} : sess'[t] = sess[t]
        /\ sess'[r].by = sess[r].by /\ r \in Runs
    BY <1>2, <1>7, ReadsShape DEF x, Known
  <2>2. FrameOK(Frame("generated", r, None))
    BY <2>1, FrameType
  <2> QED BY <1>1, <1>2, <1>3, <1>7, <2>1, <2>2, KnownTold
<1>8. CASE x.kind = "message"
  <2>1. \E b \in BOOLEAN : Broadcast(<<Frame("ack", r, b)>>)
    BY <1>8, ReadsShape DEF x
  <2>2. \A t \in Runs \ {r} : sess'[t] = sess[t]
    BY <1>8, ReadsShape DEF x
  <2>3. sess'[r].by = sess[r].by
    BY <1>8, ReadsShape DEF x
  <2>4. PICK b \in BOOLEAN : Broadcast(<<Frame("ack", r, b)>>)
    BY <2>1
  <2>5. FrameOK(Frame("ack", r, b))
    BY <1>2, <1>8, FrameType DEF Known
  <2> QED BY <1>1, <1>2, <1>3, <1>8, <2>2, <2>3, <2>4, <2>5, KnownTold
<1> QED
  BY <1>4, <1>5, <1>6, <1>7, <1>8, ReadsShape DEF x

\* A session speaks of itself.
LEMMA KnownWorks ==
    ASSUME Typed, KnownInv, NEW r \in Runs, Works(r) \/ SessionFails(r)
    PROVE  KnownInv'
<1>1. Step
  BY DEF Step, Working, Faults
<1>2. UNCHANGED <<page, up, inbox>> /\ \A t \in Runs \ {r} : sess'[t] = sess[t]
  BY WorksShape, FailsShape
<1>3. sess'[r].by = sess[r].by
  BY WorksShape, FailsShape
<1>4. Known(r)
  <2>1. sess[r].state \in {"initializing", "processing"} \/ sess[r].generating
    BY WorksShape, FailsShape
  <2> QED BY <2>1 DEF KnownInv, Born, Known
<1>5. SetOf(up') \cup SetOf(inbox') \subseteq SetOf(up) \cup SetOf(inbox) /\ conv' = conv
  BY <1>2 DEF page
<1>6. ASSUME NEW k, NEW b, k # "created", FrameOK(Frame(k, r, b)),
             Broadcast(<<Frame(k, r, b)>>) \/ UNCHANGED down
      PROVE  KnownInv'
  BY <1>1, <1>2, <1>3, <1>4, <1>5, <1>6, KnownTold
<1>7. CASE SessionFails(r)
  <2>1. FrameOK(Frame("state", r, "error"))
    BY FrameType DEF States
  <2> QED BY <1>6, <1>7, <2>1, FailsShape
<1>8. CASE Works(r)
  <2>1. FrameOK(Frame("state", r, "processing")) /\ FrameOK(Frame("state", r, "ready"))
    BY FrameType DEF States
  <2>2. FrameOK(Frame("generated", r, None))
    BY FrameType
  <2>3. CASE NextPiece(sess[r]) \in Items /\ Broadcast(<<Frame("response", r, NextPiece(sess[r]))>>)
    <3>1. FrameOK(Frame("response", r, NextPiece(sess[r])))
      BY <2>3, FrameType
    <3> QED BY <1>6, <2>3, <3>1
  <2>4. CASE UNCHANGED down \/ Broadcast(<<Frame("state", r, "processing")>>)
    BY <1>6, <2>1, <2>4
  <2>5. CASE Broadcast(<<Frame("state", r, "ready")>>)
    BY <1>6, <2>1, <2>5
  <2>6. CASE Broadcast(<<Frame("generated", r, None)>>)
    BY <1>6, <2>2, <2>6
  <2> QED BY <1>8, <2>3, <2>4, <2>5, <2>6, WorksShape
<1> QED
  BY <1>7, <1>8

\* The relay's answer names no session.
LEMMA KnownRelay ==
    ASSUME Typed, KnownInv, RelayReads
    PROVE  KnownInv'
<1>1. PICK f : /\ Longer(down', down, f) /\ f.kind = (IF here THEN "sent" ELSE "refused")
  BY RelayShape DEF Typed
<1>2. FrameKnown(f)
  BY <1>1 DEF FrameKnown, RunKinds
<1>3. up[1] \in SetOf(up)
  BY RelayShape, SeqFacts DEF Shorter, Typed
<1>4. SetOf(up') \cup SetOf(inbox') \subseteq SetOf(up) \cup SetOf(inbox)
  BY <1>3, RelayShape DEF Shorter, Longer, Typed
<1>5. Step /\ UNCHANGED <<sess, conv>>
  BY DEF RelayReads, Step, page
<1>6. SetOf(down') = SetOf(down) \cup {f}
  BY <1>1 DEF Longer
<1> QED
  BY <1>2, <1>4, <1>5, <1>6, KnownQuiet

\* A departure names no session, and those it loses stay known.
LEMMA KnownLeaves ==
    ASSUME Typed, KnownInv, RunnerLeaves
    PROVE  KnownInv'
<1> DEFINE f == Frame("gone", None, None)
<1>1. SetOf(down') \subseteq SetOf(down) \cup {f}
  BY LeavesShape, Told, FrameType
<1>2. FrameKnown(f)
  BY DEF FrameKnown, Frame, RunKinds
<1>3. SetOf(up') \cup SetOf(inbox') \subseteq SetOf(up) \cup SetOf(inbox)
  <2>1. inbox' = <<>> /\ up' = up /\ SetOf(<<>>) = {}
    BY LeavesShape DEF SetOf
  <2> QED BY <2>1
<1>4. Step /\ conv' = conv
  BY LeavesShape DEF Step, Faults, page
<1>5. Born'
  BY LeavesShape DEF Born, KnownInv
<1> HIDE DEF f
<1> QED
  BY <1>1, <1>2, <1>3, <1>4, <1>5, KnownKeep

\* A page adopts the session of a created frame.
LEMMA KnownFrames ==
    ASSUME Typed, KnownInv, Frames
    PROVE  KnownInv'
<1>1. /\ UNCHANGED <<runner, up>> /\ SetOf(down') \subseteq SetOf(down) /\ Step
      /\ Head(down) \in SetOf(down) /\ FrameOK(Head(down))
  BY TakeTyped, HeadFrame DEF Shorter, Step
<1>2. Born'
  BY <1>1 DEF Born, KnownInv, runner
<1>3. CASE TakeCreated
  <2>1. Head(down).kind = "created"
    BY <1>3 DEF TakeCreated, Take
  <2>2. Head(down).body.id \in Runs /\ Known(Head(down).body.id) /\ conv \in Convs
    BY <1>1, <2>1, Parts DEF KnownInv, FrameKnown, FrameOK, Typed, PageOK
  <2>3. conv' = conv \/ conv'.run = Head(down).body.id
    BY <1>3, <2>2, CreatedConv DEF TakeCreated
  <2> QED BY <1>1, <1>2, <2>2, <2>3, KnownKeep DEF runner
<1>4. CASE conv'.run = conv.run
  BY <1>1, <1>2, <1>4, KnownKeep DEF runner
<1>5. CASE ~TakeCreated
  <2>1. conv \in Convs /\ FrameOK(Head(down))
    BY <1>1, Parts DEF Typed, PageOK
  <2>2. CASE TakeDenied
    BY <2>1, <2>2, <1>4, DeniedConv DEF TakeDenied
  <2>3. CASE TakeState
    <3>1. Head(down).body \in States
      BY <2>1, <2>3 DEF FrameOK, TakeState, Take
    <3> QED BY <2>1, <2>3, <3>1, <1>4, StateConv DEF TakeState, SameConv
  <2>4. CASE TakeAck
    BY <2>1, <2>4, <1>4, OneFieldConv DEF TakeAck, SameConv, States
  <2>5. CASE TakeGenerated
    BY <2>1, <2>5, <1>4, OneFieldConv DEF TakeGenerated, SameConv, WaitEnds
  <2>6. CASE TakeGone
    BY <2>1, <2>6, <1>4, OneFieldConv DEF TakeGone, SameConv, States
  <2>7. CASE TakeSent
    <3>1. conv' = conv \/ SettleReload(FALSE)
      BY <2>7 DEF TakeSent
    <3> QED BY <2>1, <3>1, <1>4, SettleConv DEF SameConv
  <2>8. CASE TakeRefused
    <3>1. ReportRefusal \/ SettleReload(TRUE)
      BY <2>8 DEF TakeRefused
    <3> QED BY <2>1, <3>1, <1>4, SettleConv, ReportConv DEF SameConv
  <2>9. CASE TakeForeign \/ TakeConnected \/ TakeResponse \/ TakeOutput
    BY <2>9, <1>4 DEF TakeForeign, TakeConnected, TakeResponse, TakeOutput
  <2> QED BY <1>5, <2>2, <2>3, <2>4, <2>5, <2>6, <2>7, <2>8, <2>9 DEF Frames
<1> QED
  BY <1>3, <1>5

\* What the user sends is about the conversation's run.
LEMMA KnownUser ==
    ASSUME Typed, KnownInv, Deliver \/ AskLoaded \/ GenerateWorkflow
    PROVE  KnownInv'
<1>1. Step /\ UNCHANGED <<sess, down, inbox>>
  BY DEF Deliver, AskLoaded, GenerateWorkflow, runner, Step, Users
<1>2. Born' /\ StateOK
  BY <1>1 DEF Born, KnownInv, Typed
<1>3. ASSUME NEW x, conv.run # None, x.run = conv.run, Longer(up', up, x), conv'.run = conv.run
      PROVE  KnownInv'
  <2>1. RequestKnown(x)
    BY <1>3 DEF RequestKnown, KnownInv
  <2> QED BY <1>1, <1>2, <1>3, <2>1, KnownKeep DEF Longer
<1>4. ASSUME NEW q \in Asks, CreateSession(q)
      PROVE  KnownInv'
  <2>1. conv'.run = None /\ (up' = up \/ Longer(up', up, Request("create", None, q)))
    BY <1>2, <1>4, CreateShape
  <2>2. RequestKnown(Request("create", None, q))
    BY DEF RequestKnown, Request
  <2> QED BY <1>1, <1>2, <2>1, <2>2, KnownKeep DEF Longer
<1>5. ASSUME NEW q \in Asks, SendMessage(q)
      PROVE  KnownInv'
  <2>1. \/ UNCHANGED <<conv, up>>
        \/ /\ conv.run \in Runs /\ conv'.run = conv.run
           /\ up' = up \/ Longer(up', up, Request("message", conv.run, q))
    BY <1>2, <1>5, MessageShape DEF SameConv
  <2>2. Request("message", conv.run, q).run = conv.run
    BY DEF Request
  <2>3. CASE up' = up /\ conv'.run = conv.run
    BY <1>1, <1>2, <2>3, KnownKeep
  <2> QED BY <1>3, <2>1, <2>2, <2>3, Numbers
<1>6. CASE Deliver
  <2>1. twin.queued \in Asks
    BY <1>6, Numbers DEF Deliver, Typed, StateOK, Asks
  <2> QED BY <1>4, <1>5, <1>6, <2>1 DEF Deliver
<1>7. CASE AskLoaded
  <2>1. asked + 1 \in Asks
    BY <1>7, Numbers DEF AskLoaded, Typed, StateOK, Asks
  <2> QED BY <1>5, <1>7, <2>1 DEF AskLoaded
<1>8. CASE GenerateWorkflow
  <2>1. Request("generate", conv.run, 0).run = conv.run
    BY DEF Request
  <2>2. conv.run # None
    BY <1>8, Numbers, ConversationAssumption DEF Typed, OnePage, GenerateWorkflow, Runs
  <2> QED BY <1>3, <1>8, <2>1, <2>2, GenerateShape DEF SameConv
<1> QED
  BY <1>6, <1>7, <1>8

\* Every step speaks of known sessions only.
LEMMA KnownStep ==
    ASSUME Typed, KnownInv, [Step]_state
    PROVE  KnownInv'
<1>1. CASE UNCHANGED state
  BY <1>1 DEF state, page, net, runner, KnownInv, Born, FrameKnown, RequestKnown, Known
<1>2. CASE RunnerReturns \/ Submit \/ Forget
  <2>1. UNCHANGED <<sess, conv, up, inbox, down>> /\ Step
    BY <1>2 DEF RunnerReturns, Submit, Forget, page, net, runner, Step, Users
  <2> QED BY <2>1, KnownQuiet
<1>3. CASE Opens
  <2>1. /\ UNCHANGED <<sess, inbox, conv>> /\ up' = ReloadOf(admitted) /\ Step
        /\ down' = <<Frame("connected", None, None)>>
    BY <1>3 DEF Opens, runner, Step
  <2>2. \A x \in SetOf(up') : RequestKnown(x)
    BY <2>1, ReloadKnown DEF Typed, StateOK
  <2>3. SetOf(down') = {Frame("connected", None, None)}
    BY <2>1 DEF SetOf
  <2>4. FrameKnown(Frame("connected", None, None))
    BY DEF FrameKnown, Frame, RunKinds
  <2>5. Born'
    BY <2>1 DEF Born, KnownInv
  <2> QED BY <2>1, <2>2, <2>3, <2>4, <2>5, KnownKeep
<1>4. CASE Drops
  <2>1. /\ UNCHANGED <<sess, inbox, conv>> /\ up' = <<>> /\ down' = <<>> /\ SetOf(<<>>) = {}
        /\ Step
    BY <1>4 DEF Drops, runner, SetOf, Step, Faults
  <2> QED BY <2>1, KnownQuiet
<1>5. CASE RetryFires
  <2>1. UNCHANGED <<sess, inbox, conv, down>> /\ up' = up \o ReloadOf(TRUE) /\ Step
    BY <1>5 DEF RetryFires, runner, Step
  <2>2. SetOf(up') = SetOf(up) \cup SetOf(ReloadOf(TRUE))
    <3> DEFINE s == ReloadOf(TRUE)
    <3>1. s \in Seq(Requests) /\ up \in Seq(Requests)
      BY ReloadShape DEF Typed, StateOK
    <3> HIDE DEF s
    <3>2. SetOf(up \o s) = SetOf(up) \cup SetOf(s)
      BY <3>1, ConcatSeq
    <3> QED BY <2>1, <3>2 DEF s
  <2>3. Born'
    BY <2>1 DEF Born, KnownInv
  <2> QED BY <2>1, <2>2, <2>3, ReloadKnown, KnownKeep
<1>6. CASE OtherCreates
  BY <1>6, OthersShape, KnownCreating, Numbers DEF Step, Faults, page
<1> QED
  BY <1>1, <1>2, <1>3, <1>4, <1>5, <1>6, KnownRelay, KnownReads, KnownWorks, KnownLeaves,
     KnownFrames, KnownUser DEF Step, Working, Users, Faults
-----------------------------------------------------------------------------
(* The conversation is this page's own.                                     *)

\* The run of the page is another's once it is the page's: no session changes hands.
LEMMA OursKept ==
    ASSUME Typed, KnownInv, [Step]_state
    PROVE  /\ \A r : Ours(r) => Ours(r)'
           /\ \A r : Known(r) /\ Ours(r)' => Ours(r)
  BY ByKept, Numbers DEF Ours, Known

OwnSession(r) == Ours(r) => 0 \notin SetOf(sess[r].todo) /\ Clean(sess[r].log)

\* What a step must leave for the conversation to stay this page's own.
LEMMA OwnKeep ==
    ASSUME Typed, KnownInv, OwnInv, Step, Clean(shown'), Clean(stream'),
           conv'.run # None => conv'.run = conv.run \/ Ours(conv'.run),
           \A x \in SetOf(up') \cup SetOf(inbox') :
             x \in SetOf(up) \cup SetOf(inbox) \/ OwnRequest(x),
           \A f \in SetOf(down') :
             f \in SetOf(down) \/ (OwnFrame(f) /\ FrameKnown(f)) \/ OwnFrame(f)',
           \A r \in Runs : OwnSession(r)'
    PROVE  OwnInv'
<1>1. ASSUME NEW f, OwnFrame(f), FrameKnown(f) PROVE OwnFrame(f)'
  BY <1>1, OursKept DEF OwnFrame, FrameKnown, RunKinds
<1>2. ASSUME NEW x, OwnRequest(x) PROVE OwnRequest(x)'
  BY <1>2, OursKept DEF OwnRequest
<1>3. (conv.run # None => Ours(conv.run))'
  <2>1. ASSUME NEW r, r = conv'.run, r # None PROVE Ours(r)'
    BY <2>1, OursKept DEF OwnInv
  <2> QED BY <2>1 DEF Ours
<1>4. \A x \in SetOf(up') \cup SetOf(inbox') : OwnRequest(x)'
  BY <1>2 DEF OwnInv
<1>5. \A f \in SetOf(down') : OwnFrame(f)'
  BY <1>1 DEF OwnInv, KnownInv
<1>6. Clean(shown)' /\ Clean(stream)'
  BY DEF Clean
<1> QED
  BY <1>3, <1>4, <1>5, <1>6 DEF OwnInv, OwnSession

\* When no session changes.
LEMMA OwnQuiet ==
    ASSUME Typed, KnownInv, OwnInv, Step, UNCHANGED sess, Clean(shown'), Clean(stream'),
           conv'.run # None => conv'.run = conv.run \/ Ours(conv'.run),
           \A x \in SetOf(up') \cup SetOf(inbox') :
             x \in SetOf(up) \cup SetOf(inbox) \/ OwnRequest(x),
           \A f \in SetOf(down') : f \in SetOf(down) \/ (OwnFrame(f) /\ FrameKnown(f))
    PROVE  OwnInv'
<1>1. \A r \in Runs : OwnSession(r)'
  BY DEF OwnSession, OwnInv, Ours, Clean
<1> QED
  BY <1>1, OwnKeep

\* Text without another tab's question.
LEMMA CleanFacts ==
    /\ Clean(<<>>)
    /\ \A s, t \in Seq(Items) : Clean(s) /\ Clean(t) => Clean(s \o t)
    /\ \A t, s, x : Longer(t, s, x) /\ Clean(s) /\ x[1] # 0 => Clean(t)
<1>1. Clean(<<>>)
  BY DEF Clean, SetOf
<1>2. \A s, t \in Seq(Items) : Clean(s) /\ Clean(t) => Clean(s \o t)
  BY ConcatSeq DEF Clean
<1>3. \A t, s, x : Longer(t, s, x) /\ Clean(s) /\ x[1] # 0 => Clean(t)
  BY DEF Clean, Longer
<1> QED
  BY <1>1, <1>2, <1>3

\* An empty page is its own.
LEMMA OwnInit == Init => OwnInv
<1> SUFFICES ASSUME Init PROVE OwnInv
  OBVIOUS
<1>1. /\ shown = <<>> /\ stream = <<>> /\ up = <<>> /\ down = <<>> /\ inbox = <<>>
      /\ SetOf(<<>>) = {}
  BY DEF Init, SetOf
<1>2. Clean(shown) /\ Clean(stream)
  BY <1>1, CleanFacts
<1>3. ASSUME NEW S, S = Session("page", 1), NEW T, T = [S EXCEPT !.state = "processing"]
      PROVE  T.by = "page" /\ T.todo = <<1>> /\ T.log = <<<<1, 0>>>>
  BY <1>3 DEF Session
<1>4. Page = "loaded" =>
        1 \in Runs /\ sess[1].by = "page" /\ sess[1].todo = <<1>> /\ sess[1].log = <<<<1, 0>>>>
  <2>1. Page = "loaded" => 1 \in Runs
    BY ConversationAssumption DEF Runs
  <2> QED BY <1>3, <2>1 DEF Init
<1>5. 0 \notin SetOf(<<1>>) /\ Clean(<<<<1, 0>>>>)
  BY DEF SetOf, Clean
<1>6. \A r \in Runs : ~(Page = "loaded" /\ r = 1) => ~Ours(r)
  BY Numbers DEF Init, Ours, NoSession
<1>7. conv.run # None => Ours(conv.run)
  BY <1>4, Numbers DEF Init, Ours
<1>8. \A r \in Runs : Ours(r) => 0 \notin SetOf(sess[r].todo) /\ Clean(sess[r].log)
  BY <1>4, <1>5, <1>6
<1> QED
  BY <1>1, <1>2, <1>7, <1>8 DEF OwnInv

\* A session is created: this page's for its own question, another's for its own.
LEMMA OwnCreating ==
    ASSUME Typed, KnownInv, OwnInv, Step, NEW b \in {"page", "other"}, NEW q \in 0 .. MaxAsks,
           NEW w \in Askers, CreatesOne(b, q, w), UNCHANGED <<conv, shown, stream>>,
           b = "page" => q # 0, w = "page" => b = "page",
           SetOf(up') \cup SetOf(inbox') \subseteq SetOf(up) \cup SetOf(inbox)
    PROVE  OwnInv'
<1>0. Clean(shown') /\ Clean(stream')
  BY DEF OwnInv
<1>1. CASE UNCHANGED sess /\ Broadcast(<<Denied(b)>>)
  <2>1. SetOf(down') \subseteq SetOf(down) \cup {Denied(b)}
    BY <1>1, Told, FrameType
  <2>2. FrameKnown(Denied(b)) /\ OwnFrame(Denied(b))
    BY CreateFields DEF FrameKnown, RunKinds, OwnFrame
  <2> QED BY <1>0, <1>1, <2>1, <2>2, OwnQuiet
<1>2. CASE \E r \in Runs :
         /\ sess[r].by = None /\ sess'[r] = Session(b, q)
         /\ \A t \in Runs \ {r} : sess'[t] = sess[t]
         /\ Broadcast(<<Created(r, w)>>)
  <2>1. PICK r \in Runs :
         /\ sess[r].by = None /\ sess'[r] = Session(b, q)
         /\ \A t \in Runs \ {r} : sess'[t] = sess[t]
         /\ Broadcast(<<Created(r, w)>>)
    BY <1>2
  <2> DEFINE f == Created(r, w)
  <2>2. SetOf(down') \subseteq SetOf(down) \cup {f}
    BY <2>1, Told, FrameType
  <2>3. sess'[r].by = b /\ sess'[r].todo = <<q>> /\ sess'[r].log = <<<<q, 0>>>>
    BY <2>1 DEF Session
  <2>4. OwnFrame(f)'
    <3>1. f.kind = "created" /\ f.body.id = r /\ f.body.of = w
      BY DEF Created, Frame
    <3> HIDE DEF f
    <3> QED BY <2>3, <3>1 DEF OwnFrame, Ours
  <2>5. \A t \in Runs : OwnSession(t)'
    <3>1. SetOf(<<q>>) = {q} /\ SetOf(<<<<q, 0>>>>) = {<<q, 0>>}
      BY DEF SetOf
    <3>2. OwnSession(r)'
      BY <2>3, <3>1 DEF OwnSession, Ours, Clean
    <3>3. \A t \in Runs \ {r} : OwnSession(t)'
      BY <2>1 DEF OwnInv, OwnSession, Ours, Clean
    <3> QED BY <3>2, <3>3
  <2> HIDE DEF f
  <2> QED BY <1>0, <2>2, <2>4, <2>5, OwnKeep
<1> QED
  BY <1>1, <1>2 DEF CreatesOne

\* A session changes by what it was asked, and a frame about it is broadcast.
LEMMA OwnTold ==
    ASSUME Typed, KnownInv, OwnInv, Step, NEW k, NEW r \in Runs, NEW b, k # "created", Known(r),
           FrameOK(Frame(k, r, b)), Broadcast(<<Frame(k, r, b)>>) \/ UNCHANGED down,
           k = "response" /\ Ours(r) => b[1] # 0,
           k = "output" /\ Ours(r) => Clean(b),
           \A t \in Runs \ {r} : sess'[t] = sess[t],
           Ours(r) => 0 \notin SetOf(sess'[r].todo) /\ Clean(sess'[r].log),
           UNCHANGED <<conv, shown, stream>>,
           SetOf(up') \cup SetOf(inbox') \subseteq SetOf(up) \cup SetOf(inbox)
    PROVE  OwnInv'
<1>1. SetOf(down') \subseteq SetOf(down) \cup {Frame(k, r, b)}
  BY Told
<1>2. FrameKnown(Frame(k, r, b)) /\ OwnFrame(Frame(k, r, b))
  <2>1. Frame(k, r, b).kind = k /\ Frame(k, r, b).run = r /\ Frame(k, r, b).body = b
    BY DEF Frame
  <2> QED BY <2>1 DEF FrameKnown, OwnFrame
<1>3. \A t \in Runs : OwnSession(t)'
  <2>1. OwnSession(r)'
    BY OursKept DEF OwnSession, Clean
  <2>2. \A t \in Runs \ {r} : OwnSession(t)'
    BY DEF OwnInv, OwnSession, Ours, Clean
  <2> QED BY <2>1, <2>2
<1>4. Clean(shown') /\ Clean(stream')
  BY DEF OwnInv
<1> QED
  BY <1>1, <1>2, <1>3, <1>4, OwnKeep

\* The runner answers this page's requests with this page's text.
LEMMA OwnReads ==
    ASSUME Typed, KnownInv, OwnInv, RunnerReads
    PROVE  OwnInv'
<1> DEFINE x == Head(inbox)
<1>1. /\ x \in SetOf(inbox) /\ x \in Requests /\ SetOf(inbox') \subseteq SetOf(inbox)
      /\ UNCHANGED <<conv, shown, stream, up>>
  BY ReadShape DEF Typed, Shorter, page
<1>2. /\ x.kind # "create" => Known(x.run) /\ x.run \in Runs /\ sess[x.run] \in Sessions
      /\ OwnRequest(x)
  BY <1>1, AtWorkHas DEF KnownInv, RequestKnown, Known, OwnInv
<1>3. Step /\ x.q \in 0 .. MaxAsks
  BY <1>1, RequestKinds DEF Step
<1>4. SetOf(up') \cup SetOf(inbox') \subseteq SetOf(up) \cup SetOf(inbox)
  BY <1>1
<1> HIDE DEF x
<1> DEFINE r == x.run
<1>5. CASE x.kind = "create" /\ CreatesOne("page", x.q, "page")
  <2>1. x.q # 0
    BY <1>2, <1>5 DEF OwnRequest
  <2> QED BY <1>1, <1>3, <1>4, <1>5, <2>1, OwnCreating DEF Askers
<1>6. x.kind # "create" /\ Ours(r) => 0 \notin SetOf(sess[r].todo) /\ Clean(sess[r].log)
  BY <1>2 DEF OwnInv
<1>7. CASE x.kind = "state" /\ UNCHANGED sess
           /\ Broadcast(<<Frame("state", r, sess[r].state)>>)
  <2>1. sess[r].state \in States /\ r \in Runs
    BY <1>2, <1>7 DEF Sessions
  <2>2. FrameOK(Frame("state", r, sess[r].state))
    BY <2>1, FrameType
  <2> QED BY <1>1, <1>2, <1>3, <1>4, <1>6, <1>7, <2>2, OwnTold
<1>8. CASE x.kind = "output" /\ UNCHANGED sess
           /\ Broadcast(<<Frame("output", r, sess[r].log)>>)
  <2>1. sess[r].log \in Seq(Items) /\ r \in Runs
    BY <1>2, <1>8 DEF Sessions
  <2>2. FrameOK(Frame("output", r, sess[r].log))
    BY <2>1, FrameType
  <2> QED BY <1>1, <1>2, <1>3, <1>4, <1>6, <1>8, <2>2, OwnTold
<1>9. CASE x.kind = "generate"
  <2>1. /\ UNCHANGED down /\ \A t \in Runs \ {r} : sess'[t] = sess[t]
        /\ sess'[r].todo = sess[r].todo /\ sess'[r].log = sess[r].log /\ r \in Runs
    BY <1>2, <1>9, ReadsShape DEF x
  <2>2. FrameOK(Frame("generated", r, None))
    BY <2>1, FrameType
  <2> QED BY <1>1, <1>2, <1>3, <1>4, <1>6, <1>9, <2>1, <2>2, OwnTold
<1>10. CASE x.kind = "message"
  <2>1. \E b \in BOOLEAN : Broadcast(<<Frame("ack", r, b)>>)
    BY <1>10, ReadsShape DEF x
  <2>2. \A t \in Runs \ {r} : sess'[t] = sess[t]
    BY <1>10, ReadsShape DEF x
  <2>3. \/ UNCHANGED sess
        \/ /\ sess'[r].todo = Append(sess[r].todo, x.q)
           /\ sess'[r].log = Append(sess[r].log, <<x.q, 0>>)
    BY <1>10, ReadsShape DEF x
  <2>4. PICK b \in BOOLEAN : Broadcast(<<Frame("ack", r, b)>>)
    BY <2>1
  <2>5. FrameOK(Frame("ack", r, b)) /\ r \in Runs /\ Known(r)
    BY <1>2, <1>10, FrameType
  <2>6. Ours(r) => 0 \notin SetOf(sess'[r].todo) /\ Clean(sess'[r].log)
    <3>1. CASE UNCHANGED sess
      BY <1>6, <1>10, <3>1
    <3>2. CASE /\ sess'[r].todo = Append(sess[r].todo, x.q)
               /\ sess'[r].log = Append(sess[r].log, <<x.q, 0>>)
      <4>1. x.q # 0 /\ <<x.q, 0>> \in Items /\ sess[r].todo \in Seq(0 .. MaxAsks)
            /\ sess[r].log \in Seq(Items)
        BY <1>2, <1>3, <1>10, Numbers DEF OwnRequest, Items, Sessions
      <4>2. Longer(sess'[r].todo, sess[r].todo, x.q)
        BY <1>3, <3>2, <4>1, AppendSeq
      <4>3. Longer(sess'[r].log, sess[r].log, <<x.q, 0>>)
        BY <3>2, <4>1, AppendSeq
      <4> QED BY <1>6, <1>10, <4>1, <4>2, <4>3 DEF Longer, Clean
    <3> QED BY <2>3, <3>1, <3>2
  <2> QED BY <1>1, <1>3, <1>4, <2>2, <2>4, <2>5, <2>6, OwnTold
<1> QED
  BY <1>5, <1>7, <1>8, <1>9, <1>10, ReadsShape DEF x

\* A session says only what it was asked.
LEMMA OwnWorks ==
    ASSUME Typed, KnownInv, OwnInv, NEW r \in Runs, Works(r) \/ SessionFails(r)
    PROVE  OwnInv'
<1>1. Step
  BY DEF Step, Working, Faults
<1>2. UNCHANGED <<page, up, inbox>> /\ \A t \in Runs \ {r} : sess'[t] = sess[t]
  BY WorksShape, FailsShape
<1>3. Known(r) /\ sess[r] \in Sessions
  <2>1. sess[r].state \in {"initializing", "processing"} \/ sess[r].generating
    BY WorksShape, FailsShape
  <2> QED BY <2>1, AtWorkHas DEF KnownInv, Born, Known
<1>4. SetOf(up') \cup SetOf(inbox') \subseteq SetOf(up) \cup SetOf(inbox)
      /\ UNCHANGED <<conv, shown, stream>>
  BY <1>2 DEF page
<1>5. Ours(r) => 0 \notin SetOf(sess[r].todo) /\ Clean(sess[r].log)
  BY DEF OwnInv
<1>6. ASSUME NEW k, NEW b, k \in {"state", "generated"}, FrameOK(Frame(k, r, b)),
             Broadcast(<<Frame(k, r, b)>>) \/ UNCHANGED down,
             SetOf(sess'[r].todo) \subseteq SetOf(sess[r].todo), sess'[r].log = sess[r].log
      PROVE  OwnInv'
  <2>1. Ours(r) => 0 \notin SetOf(sess'[r].todo) /\ Clean(sess'[r].log)
    BY <1>5, <1>6
  <2> QED BY <1>1, <1>2, <1>3, <1>4, <1>6, <2>1, OwnTold
<1>7. CASE SessionFails(r)
  <2>1. FrameOK(Frame("state", r, "error"))
    BY FrameType DEF States
  <2>2. sess'[r].log = sess[r].log /\ SetOf(sess'[r].todo) \subseteq SetOf(sess[r].todo)
    <3>1. sess'[r].todo = <<>> /\ sess'[r].log = sess[r].log
      BY <1>7, FailsShape
    <3>2. SetOf(<<>>) = {}
      BY DEF SetOf
    <3> QED BY <3>1, <3>2
  <2>3. Broadcast(<<Frame("state", r, "error")>>)
    BY <1>7, FailsShape
  <2> QED BY <1>6, <2>1, <2>2, <2>3
<1>8. CASE Works(r)
  <2>1. FrameOK(Frame("state", r, "processing")) /\ FrameOK(Frame("state", r, "ready"))
    BY FrameType DEF States
  <2>2. FrameOK(Frame("generated", r, None))
    BY FrameType
  <2>3. CASE /\ sess'[r].todo = sess[r].todo
             /\ sess'[r].log = Append(sess[r].log, NextPiece(sess[r]))
             /\ NextPiece(sess[r]) \in Items /\ sess[r].state = "processing"
             /\ Broadcast(<<Frame("response", r, NextPiece(sess[r]))>>)
    <3> DEFINE p == NextPiece(sess[r])
    <3>1. FrameOK(Frame("response", r, p))
      BY <2>3, FrameType
    <3>2. Ours(r) => p[1] # 0
      <4>1. sess[r].todo # <<>> /\ sess[r].todo \in Seq(0 .. MaxAsks)
        BY <1>3, <2>3, AtWorkHas DEF Sessions
      <4>2. Head(sess[r].todo) \in SetOf(sess[r].todo)
        BY <4>1, TailSeq
      <4>3. p[1] = Head(sess[r].todo)
        BY DEF NextPiece
      <4> QED BY <1>5, <4>2, <4>3
    <3> HIDE DEF p
    <3>3. Longer(sess'[r].log, sess[r].log, p)
      BY <1>3, <2>3, AppendSeq DEF Sessions, p
    <3>4. Ours(r) => 0 \notin SetOf(sess'[r].todo) /\ Clean(sess'[r].log)
      BY <1>5, <2>3, <3>2, <3>3 DEF Longer, Clean
    <3> QED BY <1>1, <1>2, <1>3, <1>4, <2>3, <3>1, <3>2, <3>4, OwnTold DEF p
  <2>4. CASE /\ sess'[r].todo = sess[r].todo /\ sess'[r].log = sess[r].log
             /\ \/ Broadcast(<<Frame("state", r, "processing")>>)
                \/ Broadcast(<<Frame("generated", r, None)>>)
    BY <1>6, <2>1, <2>2, <2>4
  <2>5. CASE /\ sess[r].state = "processing" /\ sess'[r].todo = Tail(sess[r].todo)
             /\ sess'[r].log = sess[r].log
             /\ Broadcast(<<Frame("state", r, "ready")>>) \/ UNCHANGED down
    <3>1. SetOf(sess'[r].todo) \subseteq SetOf(sess[r].todo)
      BY <1>3, <2>5, TailSeq, AtWorkHas DEF Sessions, Shorter
    <3> QED BY <1>6, <2>1, <2>5, <3>1
  <2> QED BY <1>8, <2>3, <2>4, <2>5, WorksShape
<1> QED
  BY <1>7, <1>8

\* The relay's answer brings no text.
LEMMA OwnRelay ==
    ASSUME Typed, KnownInv, OwnInv, RelayReads
    PROVE  OwnInv'
<1>1. PICK f : /\ Longer(down', down, f) /\ f.kind = (IF here THEN "sent" ELSE "refused")
  BY RelayShape DEF Typed
<1>2. FrameKnown(f) /\ OwnFrame(f)
  BY <1>1 DEF FrameKnown, RunKinds, OwnFrame
<1>3. up[1] \in SetOf(up)
  BY RelayShape, SeqFacts DEF Shorter, Typed
<1>4. SetOf(up') \cup SetOf(inbox') \subseteq SetOf(up) \cup SetOf(inbox)
  BY <1>3, RelayShape DEF Shorter, Longer, Typed
<1>5. Step /\ UNCHANGED <<sess, conv, shown, stream>>
  BY DEF RelayReads, Step, page
<1>6. SetOf(down') = SetOf(down) \cup {f}
  BY <1>1 DEF Longer
<1>7. Clean(shown') /\ Clean(stream')
  BY <1>5 DEF OwnInv
<1> QED
  BY <1>2, <1>4, <1>5, <1>6, <1>7, OwnQuiet

\* A departure brings no text.
LEMMA OwnLeaves ==
    ASSUME Typed, KnownInv, OwnInv, RunnerLeaves
    PROVE  OwnInv'
<1> DEFINE f == Frame("gone", None, None)
<1>1. SetOf(down') \subseteq SetOf(down) \cup {f}
  BY LeavesShape, Told, FrameType
<1>2. FrameKnown(f) /\ OwnFrame(f)
  BY DEF FrameKnown, Frame, RunKinds, OwnFrame
<1>3. SetOf(up') \cup SetOf(inbox') \subseteq SetOf(up) \cup SetOf(inbox)
  <2>1. inbox' = <<>> /\ up' = up /\ SetOf(<<>>) = {}
    BY LeavesShape DEF SetOf
  <2> QED BY <2>1
<1>4. Step /\ UNCHANGED <<conv, shown, stream>>
  BY LeavesShape DEF Step, Faults, page
<1>5. \A r \in Runs : OwnSession(r)'
  <2>1. CASE UNCHANGED sess
    BY <2>1 DEF OwnSession, OwnInv, Ours, Clean
  <2>2. CASE \A r \in Runs : sess'[r].todo = <<>> /\ sess'[r].log = <<>>
    <3>1. SetOf(<<>>) = {}
      BY DEF SetOf
    <3> QED BY <2>2, <3>1 DEF OwnSession, Clean
  <2> QED BY <2>1, <2>2, LeavesShape
<1>6. Clean(shown') /\ Clean(stream')
  BY <1>4 DEF OwnInv
<1> HIDE DEF f
<1> QED
  BY <1>1, <1>2, <1>3, <1>4, <1>5, <1>6, OwnKeep

\* A frame that is taken shows text only of the page's own run.
LEMMA OwnFrames ==
    ASSUME ~Crossing, Typed, KnownInv, OwnInv, Frames
    PROVE  OwnInv'
<1> DEFINE f == Head(down)
<1>1. /\ UNCHANGED <<runner, up>> /\ SetOf(down') \subseteq SetOf(down) /\ Step
      /\ f \in SetOf(down) /\ FrameOK(f) /\ OwnFrame(f)
      /\ conv \in Convs /\ shown \in Seq(Items) /\ stream \in Seq(Items)
      /\ Clean(shown) /\ Clean(stream)
  BY TakeTyped, HeadFrame, Parts DEF Shorter, Step, OwnInv, Typed, PageOK
<1>2. UNCHANGED <<sess, up, inbox>>
  BY <1>1 DEF runner
<1>3. ASSUME Clean(shown'), Clean(stream'),
             conv'.run # None => conv'.run = conv.run \/ Ours(conv'.run)
      PROVE  OwnInv'
  BY <1>1, <1>2, <1>3, OwnQuiet
<1>4. f.kind \in RunKinds /\ Mine(f) => Ours(f.run)
  BY <1>1, Numbers DEF OwnInv, Mine, FrameOK, Ours
<1> HIDE DEF f
<1>5. CASE TakeCreated
  <2>1. f.kind = "created"
    BY <1>5 DEF TakeCreated, Take, f
  <2>2. f.body.id \in Runs
    BY <1>1, <2>1 DEF FrameOK
  <2>5. Asked /\ TaskIsMine(f) => f.body.of = "page"
    BY <1>1, <2>1 DEF FrameOK, Askers, Asked, TaskIsMine, Crossing, Alien
  <2>3. conv' = conv \/ (conv'.run = f.body.id /\ f.body.of = "page")
    BY <1>1, <1>5, <2>2, <2>5, CreatedConv DEF TakeCreated, f
  <2>4. UNCHANGED <<shown, stream>>
    BY <1>5 DEF TakeCreated
  <2> QED BY <1>1, <1>3, <2>1, <2>3, <2>4 DEF OwnFrame
<1>6. CASE TakeResponse
  <2>1. f.kind = "response" /\ Mine(f) /\ stream' = Append(stream, f.body)
        /\ UNCHANGED <<conv, shown>>
    BY <1>6 DEF TakeResponse, Take, f
  <2>2. f.body \in Items /\ f.body[1] # 0
    BY <1>1, <1>4, <2>1 DEF FrameOK, OwnFrame, RunKinds
  <2>3. Longer(stream', stream, f.body)
    BY <1>1, <2>1, <2>2, AppendSeq
  <2>4. Clean(stream')
    BY <1>1, <2>2, <2>3, CleanFacts
  <2> QED BY <1>1, <1>3, <2>1, <2>4
<1>7. CASE TakeState
  <2>1. f.body \in States
    BY <1>1, <1>7 DEF FrameOK, TakeState, Take, f
  <2>2. conv'.run = conv.run
    BY <1>1, <1>7, <2>1, StateConv DEF TakeState, SameConv, f
  <2>3. Clean(shown') /\ Clean(stream')
    <3>1. Clean(shown \o stream) /\ Clean(<<>>)
      BY <1>1, CleanFacts
    <3> QED BY <1>1, <1>7, <3>1 DEF TakeState, Emptied
  <2> QED BY <1>3, <2>2, <2>3
<1>8. CASE TakeOutput
  <2>1. f.kind = "output" /\ Mine(f) /\ UNCHANGED <<conv, stream>>
        /\ (shown' = shown \/ shown' = f.body)
    BY <1>8 DEF TakeOutput, Take, f
  <2>2. Clean(f.body)
    BY <1>1, <1>4, <2>1 DEF OwnFrame, RunKinds
  <2> QED BY <1>1, <1>3, <2>1, <2>2
<1>9. CASE UNCHANGED <<shown, stream>> /\ conv'.run = conv.run
  BY <1>1, <1>3, <1>9
<1>10. CASE TakeDenied
  BY <1>1, <1>10, <1>9, DeniedConv DEF TakeDenied
<1>11. CASE TakeAck
  <2>1. "processing" \in States
    BY DEF States
  <2> QED BY <1>1, <1>11, <2>1, <1>9, OneFieldConv DEF TakeAck, SameConv
<1>12. CASE TakeGenerated
  BY <1>1, <1>12, <1>9, OneFieldConv DEF TakeGenerated, SameConv, WaitEnds
<1>13. CASE TakeGone
  <2>1. "disconnected" \in States
    BY DEF States
  <2> QED BY <1>1, <1>13, <2>1, <1>9, OneFieldConv DEF TakeGone, SameConv
<1>14. CASE TakeSent
  <2>1. conv' = conv \/ SettleReload(FALSE)
    BY <1>14 DEF TakeSent
  <2> QED BY <1>1, <1>14, <2>1, <1>9, SettleConv DEF SameConv, TakeSent
<1>15. CASE TakeRefused
  <2>1. ReportRefusal \/ SettleReload(TRUE)
    BY <1>15 DEF TakeRefused
  <2> QED BY <1>1, <1>15, <2>1, <1>9, SettleConv, ReportConv DEF SameConv, TakeRefused
<1>16. CASE TakeForeign \/ TakeConnected
  BY <1>16, <1>9 DEF TakeForeign, TakeConnected
<1> QED
  BY <1>5, <1>6, <1>7, <1>8, <1>10, <1>11, <1>12, <1>13, <1>14, <1>15, <1>16 DEF Frames

\* The user's questions are this page's own.
LEMMA OwnUser ==
    ASSUME Typed, KnownInv, OwnInv, Deliver \/ AskLoaded \/ GenerateWorkflow
    PROVE  OwnInv'
<1>1. Step /\ UNCHANGED <<sess, down, inbox>> /\ StateOK /\ Clean(shown) /\ Clean(stream)
  BY DEF Deliver, AskLoaded, GenerateWorkflow, runner, Step, Users, OwnInv, Typed
<1>2. ASSUME NEW x, OwnRequest(x), up' = up \/ Longer(up', up, x),
             conv'.run # None => conv'.run = conv.run, Clean(shown'), Clean(stream')
      PROVE  OwnInv'
  <2>1. SetOf(up') \cup SetOf(inbox') \subseteq SetOf(up) \cup SetOf(inbox) \cup {x}
    BY <1>1, <1>2 DEF Longer
  <2> QED BY <1>1, <1>2, <2>1, OwnQuiet
<1>3. ASSUME NEW q \in Asks, Longer(shown', shown, <<q, 0>>), stream' = <<>>
      PROVE  q # 0 /\ Clean(shown') /\ Clean(stream')
  <2>1. q # 0
    BY Numbers DEF Asks
  <2> QED BY <1>1, <1>3, <2>1, CleanFacts
<1>4. ASSUME NEW q \in Asks, CreateSession(q)
      PROVE  OwnInv'
  <2> DEFINE x == Request("create", None, q)
  <2>1. /\ conv'.run = None /\ (up' = up \/ Longer(up', up, x))
        /\ Longer(shown', shown, <<q, 0>>) /\ stream' = <<>>
    BY <1>1, <1>4, CreateShape
  <2>2. OwnRequest(x)
    BY <1>3, <2>1 DEF OwnRequest, Request
  <2>3. Clean(shown') /\ Clean(stream')
    BY <1>3, <2>1
  <2> HIDE DEF x
  <2> QED BY <1>2, <2>1, <2>2, <2>3
<1>5. ASSUME NEW q \in Asks, SendMessage(q)
      PROVE  OwnInv'
  <2> DEFINE x == Request("message", conv.run, q)
  <2>1. CASE UNCHANGED <<conv, shown, stream, up>>
    BY <1>1, <2>1, OwnQuiet
  <2>2. CASE /\ conv.run \in Runs /\ conv'.run = conv.run /\ stream' = <<>>
             /\ Longer(shown', shown, <<q, 0>>) /\ (up' = up \/ Longer(up', up, x))
    <3>0. q # 0 /\ Clean(shown') /\ Clean(stream')
      BY <1>3, <2>2
    <3>1. OwnRequest(x)
      <4>1. x.kind = "message" /\ x.run = conv.run /\ x.q = q
        BY DEF Request
      <4>2. Ours(conv.run)
        BY <2>2, Numbers DEF OwnInv
      <4> HIDE DEF x
      <4> QED BY <3>0, <4>1, <4>2 DEF OwnRequest
    <3> HIDE DEF x
    <3> QED BY <1>2, <2>2, <3>0, <3>1
  <2> QED BY <1>1, <1>5, <2>1, <2>2, MessageShape DEF SameConv
<1>6. CASE Deliver
  <2>1. twin.queued \in Asks
    BY <1>6, Numbers DEF Deliver, Typed, StateOK, Asks
  <2> QED BY <1>4, <1>5, <1>6, <2>1 DEF Deliver
<1>7. CASE AskLoaded
  <2>1. asked + 1 \in Asks
    BY <1>7, Numbers DEF AskLoaded, Typed, StateOK, Asks
  <2> QED BY <1>5, <1>7, <2>1 DEF AskLoaded
<1>8. CASE GenerateWorkflow
  <2> DEFINE x == Request("generate", conv.run, 0)
  <2>1. x.kind = "generate" /\ x.run = conv.run
    BY DEF Request
  <2>2. conv.run # None
    BY <1>8, Numbers, ConversationAssumption DEF Typed, OnePage, GenerateWorkflow, Runs
  <2>3. OwnRequest(x)
    BY <2>1, <2>2 DEF OwnRequest, OwnInv
  <2>4. Longer(up', up, x) /\ conv'.run = conv.run /\ UNCHANGED <<shown, stream>>
    BY <1>8, GenerateShape DEF SameConv, GenerateWorkflow
  <2> HIDE DEF x
  <2> QED BY <1>1, <1>2, <2>3, <2>4
<1> QED
  BY <1>6, <1>7, <1>8

\* A step that no create crosses keeps the conversation this page's own.
LEMMA OwnStep ==
    ASSUME ~Crossing, Typed, KnownInv, OwnInv, [Step]_state
    PROVE  OwnInv'
<1>0. Clean(shown) /\ Clean(stream)
  BY DEF OwnInv
<1>1. CASE UNCHANGED state
  BY <1>1 DEF state, page, net, runner, OwnInv, Ours, OwnFrame, OwnRequest, Clean
<1>2. CASE RunnerReturns \/ Submit \/ Forget
  <2>1. UNCHANGED <<sess, conv, up, inbox, down, shown, stream>> /\ Step
    BY <1>2 DEF RunnerReturns, Submit, Forget, page, net, runner, Step, Users
  <2> QED BY <1>0, <2>1, OwnQuiet
<1>3. ASSUME NEW b \in BOOLEAN
      PROVE  \A x \in SetOf(ReloadOf(b)) : OwnRequest(x)
  BY ReloadShape DEF Typed, OwnInv, OwnRequest
<1>4. CASE Opens
  <2>1. /\ UNCHANGED <<sess, inbox, conv, shown, stream>> /\ up' = ReloadOf(admitted) /\ Step
        /\ down' = <<Frame("connected", None, None)>>
    BY <1>4 DEF Opens, runner, Step
  <2>2. \A x \in SetOf(up') : OwnRequest(x)
    BY <1>3, <2>1 DEF Typed, StateOK
  <2>3. SetOf(down') = {Frame("connected", None, None)}
    BY <2>1 DEF SetOf
  <2>4. /\ FrameKnown(Frame("connected", None, None))
        /\ OwnFrame(Frame("connected", None, None))
    BY DEF FrameKnown, Frame, RunKinds, OwnFrame
  <2> QED BY <1>0, <2>1, <2>2, <2>3, <2>4, OwnQuiet
<1>5. CASE Drops
  <2>1. /\ UNCHANGED <<sess, inbox, conv>> /\ up' = <<>> /\ down' = <<>> /\ SetOf(<<>>) = {}
        /\ Step /\ shown' = shown \o stream /\ stream' = <<>>
    BY <1>5 DEF Drops, runner, SetOf, Step, Faults, Emptied
  <2>2. Clean(shown') /\ Clean(stream')
    BY <1>0, <2>1, CleanFacts DEF Typed, StateOK
  <2> QED BY <2>1, <2>2, OwnQuiet
<1>6. CASE RetryFires
  <2>1. /\ UNCHANGED <<sess, inbox, conv, down, shown, stream>> /\ Step
        /\ up' = up \o ReloadOf(TRUE)
    BY <1>6 DEF RetryFires, runner, Step
  <2>2. SetOf(up') = SetOf(up) \cup SetOf(ReloadOf(TRUE))
    <3> DEFINE s == ReloadOf(TRUE)
    <3>1. s \in Seq(Requests) /\ up \in Seq(Requests)
      BY ReloadShape DEF Typed, StateOK
    <3> HIDE DEF s
    <3>2. SetOf(up \o s) = SetOf(up) \cup SetOf(s)
      BY <3>1, ConcatSeq
    <3> QED BY <2>1, <3>2 DEF s
  <2> QED BY <1>0, <1>3, <2>1, <2>2, OwnQuiet
<1>7. CASE OtherCreates
  <2>1. UNCHANGED <<conv, shown, stream, up, inbox>> /\ Step
    BY <1>7, OthersShape DEF page, Step, Faults
  <2>2. PICK w \in Askers \ {"page"} : CreatesOne("other", 0, w)
    BY <1>7, OthersShape
  <2> QED BY <2>1, <2>2, OwnCreating, Numbers
<1> QED
  BY <1>1, <1>2, <1>4, <1>5, <1>6, <1>7, OwnRelay, OwnReads, OwnWorks, OwnLeaves,
     OwnFrames, OwnUser DEF Step, Working, Users, Faults

\* Nothing that is its own changes when nothing does.
LEMMA OwnStays == OwnInv /\ UNCHANGED state => OwnInv'
  BY DEF state, page, net, runner, OwnInv, Ours, OwnFrame, OwnRequest, Clean

\* While no create of another tab has crossed this page's, no text of another
\* tab's session reaches the messages or the stream of this page
\* (useChatWebSocket.ts:392), whatever the runner loses or repeats.
THEOREM OwnTextAlways == Spec => []OwnText
<1> DEFINE I == Typed /\ KnownInv /\ (crossed \/ OwnInv)
<1>1. Init => I
  BY InitTyped, KnownInit, OwnInit
<1>2. I /\ [Next]_vars => I'
  <2> SUFFICES ASSUME I, [Next]_vars PROVE I'
    OBVIOUS
  <2>1. Typed' /\ KnownInv'
    BY NextTyped, KnownStep, PastStep
  <2>2. ASSUME ~crossed' PROVE OwnInv'
    <3>1. ~crossed /\ (UNCHANGED state \/ ~Crossing) /\ [Step]_state
      BY <2>2, PastStep
    <3> QED BY <3>1, OwnStep, OwnStays
  <2> QED BY <2>1, <2>2
<1>3. I => OwnText
  BY DEF OwnInv, OwnText, AllTextOwn, Clean
<1> HIDE DEF I
<1> QED
  BY <1>1, <1>2, <1>3, PTL DEF Spec
-----------------------------------------------------------------------------
(* The probes of a reload.                                                  *)

\* The probes in a sequence can be counted:
LEMMA ProbesFinite ==
    ASSUME NEW s, Len(s) \in Nat
    PROVE  IsFiniteSet(Probes(s)) /\ Cardinality(Probes(s)) \in Nat
<1>1. IsFiniteSet(1 .. Len(s)) /\ Probes(s) \subseteq 1 .. Len(s)
  BY FS_Interval DEF Probes
<1> QED
  BY <1>1, FS_Subset, FS_CardinalityType

\* one more when a probe is appended,
LEMMA ProbesLonger ==
    ASSUME NEW s, NEW t, NEW x, Len(s) \in Nat, Longer(t, s, x)
    PROVE  Cardinality(Probes(t)) = Cardinality(Probes(s)) + (IF x.probe THEN 1 ELSE 0)
<1>1. IsFiniteSet(Probes(s)) /\ Cardinality(Probes(s)) \in Nat /\ Len(s) + 1 \notin Probes(s)
  BY ProbesFinite DEF Probes
<1>2. CASE x.probe
  <2>1. Probes(t) = Probes(s) \cup {Len(s) + 1}
    BY <1>2 DEF Probes, Longer
  <2> QED BY <1>1, <1>2, <2>1, FS_AddElement
<1>3. CASE ~x.probe
  <2>1. Probes(t) = Probes(s)
    BY <1>3 DEF Probes, Longer
  <2> QED BY <1>1, <1>3, <2>1
<1> QED
  BY <1>2, <1>3

\* one fewer when a probe is taken,
LEMMA ProbesShorter ==
    ASSUME NEW s, NEW t, Len(t) \in Nat, Shorter(t, s)
    PROVE  Cardinality(Probes(s)) = Cardinality(Probes(t)) + (IF s[1].probe THEN 1 ELSE 0)
<1> DEFINE U == {i + 1 : i \in Probes(t)}
           f == [i \in Probes(t) |-> i + 1]
<1>1. IsFiniteSet(Probes(t)) /\ Cardinality(Probes(t)) \in Nat /\ Probes(t) \subseteq 1 .. Len(t)
  BY ProbesFinite DEF Probes
<1>2. f \in Bijection(Probes(t), U)
  BY <1>1 DEF Bijection, Injection, Surjection, IsInjective
<1>3. IsFiniteSet(U) /\ Cardinality(U) = Cardinality(Probes(t))
  <2> HIDE DEF U, f
  <2>1. ExistsBijection(Probes(t), U)
    BY <1>2 DEF ExistsBijection
  <2> QED BY <1>1, <2>1, FS_Bijection
<1>4. 1 \notin U
  BY <1>1
<1>5. Probes(s) \ {1} = U
  <2>1. ASSUME NEW j \in Probes(s), j # 1 PROVE j \in U
    <3> DEFINE i == j - 1
    <3>1. i \in 1 .. Len(t) /\ t[i] = s[j] /\ s[j].probe /\ i + 1 = j
      BY <2>1 DEF Probes, Shorter
    <3>2. i \in Probes(t)
      BY <3>1 DEF Probes
    <3> HIDE DEF i
    <3> QED BY <3>1, <3>2
  <2>2. ASSUME NEW i \in Probes(t) PROVE i + 1 \in Probes(s) /\ i + 1 # 1
    BY <1>1 DEF Probes, Shorter
  <2> QED BY <2>1, <2>2
<1>6. 1 \in Probes(s) <=> s[1].probe
  BY DEF Probes, Shorter
<1> HIDE DEF U
<1>7. CASE s[1].probe
  <2>1. Probes(s) = U \cup {1}
    BY <1>5, <1>6, <1>7
  <2> QED BY <1>1, <1>3, <1>4, <1>7, <2>1, FS_AddElement
<1>8. CASE ~s[1].probe
  <2>1. Probes(s) = U
    BY <1>5, <1>6, <1>8
  <2> QED BY <1>1, <1>3, <1>8, <2>1
<1> QED
  BY <1>7, <1>8

\* all of them, or none.
LEMMA ProbesAll ==
    ASSUME NEW s, Len(s) \in Nat
    PROVE  /\ (\A i \in 1 .. Len(s) : s[i].probe) => Cardinality(Probes(s)) = Len(s)
           /\ (\A i \in 1 .. Len(s) : ~s[i].probe) => Cardinality(Probes(s)) = 0
           /\ Cardinality(Probes(s)) = 0 => \A i \in 1 .. Len(s) : ~s[i].probe
<1>1. ASSUME \A i \in 1 .. Len(s) : s[i].probe PROVE Cardinality(Probes(s)) = Len(s)
  <2>1. Probes(s) = 1 .. Len(s)
    BY <1>1 DEF Probes
  <2>2. Cardinality(1 .. Len(s)) = IF 1 > Len(s) THEN 0 ELSE Len(s) - 1 + 1
    BY FS_Interval
  <2> QED BY <2>1, <2>2
<1>2. ASSUME \A i \in 1 .. Len(s) : ~s[i].probe PROVE Cardinality(Probes(s)) = 0
  <2>1. Probes(s) = {}
    BY <1>2 DEF Probes
  <2> QED BY <2>1, FS_EmptySet
<1>3. ASSUME Cardinality(Probes(s)) = 0 PROVE \A i \in 1 .. Len(s) : ~s[i].probe
  <2>1. Probes(s) = {}
    BY <1>3, ProbesFinite, FS_EmptySet
  <2> QED BY <2>1 DEF Probes
<1> QED
  BY <1>1, <1>2, <1>3

\* The queues are sequences: their lengths are numbers.
LEMMA Lengths ==
    ASSUME StateOK
    PROVE  /\ Len(up) \in Nat /\ Len(down) \in Nat /\ Len(inbox) \in Nat
           /\ Len(shown) \in Nat /\ Len(stream) \in Nat
           /\ \A i \in 1 .. Len(up) : up[i] \in SetOf(up)
           /\ \A i \in 1 .. Len(inbox) : inbox[i] \in SetOf(inbox)
           /\ \A i \in 1 .. Len(down) : down[i] \in SetOf(down)
           /\ \A i \in 1 .. Len(shown) : shown[i] \in SetOf(shown)
           /\ \A i \in 1 .. Len(stream) : stream[i] \in SetOf(stream)
<1>1. /\ Len(up) \in Nat /\ \A i \in 1 .. Len(up) : up[i] \in SetOf(up)
      /\ Len(inbox) \in Nat /\ \A i \in 1 .. Len(inbox) : inbox[i] \in SetOf(inbox)
  BY SeqFacts DEF StateOK
<1>2. Len(down) \in Nat /\ \A i \in 1 .. Len(down) : down[i] \in SetOf(down)
  BY SeqFacts DEF StateOK
<1>3. /\ Len(shown) \in Nat /\ \A i \in 1 .. Len(shown) : shown[i] \in SetOf(shown)
      /\ Len(stream) \in Nat /\ \A i \in 1 .. Len(stream) : stream[i] \in SetOf(stream)
  BY SeqFacts DEF StateOK
<1> QED
  BY <1>1, <1>2, <1>3

\* What the reload waits for, and the queues in order.
Awaited == socket.open /\ probe.retries = 0

\* Nothing is added but what no probe asked for or is answered by.
LEMMA ProbeAside ==
    ASSUME Typed, ProbeInv, NEW x, NEW f, ~x.probe, ~f.probe, ~Answer(f),
           up' = up \/ Longer(up', up, x), down' = down \/ Longer(down', down, f),
           UNCHANGED <<probe, socket>>
    PROVE  ProbeInv'
<1>1. Len(up) \in Nat /\ Len(down) \in Nat
  BY Lengths DEF Typed
<1>2. ProbesOf'
  BY DEF ProbesOf, ProbeInv, Longer
<1>3. /\ Cardinality(Probes(up')) = Cardinality(Probes(up))
      /\ Cardinality(Probes(down')) = Cardinality(Probes(down))
      /\ Cardinality(Probes(up)) \in Nat /\ Cardinality(Probes(down)) \in Nat
  BY <1>1, ProbesLonger, ProbesFinite
<1>4. ASSUME Awaited, ProbesFirst PROVE ProbesFirst'
  <2>1. /\ Len(up') \in Nat /\ Len(down') \in Nat
        /\ \A i \in 1 .. Len(up') : up'[i].probe => i \in 1 .. Len(up) /\ up'[i] = up[i]
        /\ \A i \in 1 .. Len(down') : (Answer(down'[i]) \/ down'[i].probe) =>
              i \in 1 .. Len(down) /\ down'[i] = down[i]
        /\ \A i \in 1 .. Len(up) : up'[i] = up[i]
        /\ \A i \in 1 .. Len(down) : down'[i] = down[i]
    BY <1>1 DEF Longer
  <2>2. \A i, j \in 1 .. Len(up') : i < j /\ up'[j].probe => up'[i].probe
    BY <1>1, <1>4, <2>1 DEF ProbesFirst
  <2>3. \A i, j \in 1 .. Len(down') :
          i < j /\ Answer(down'[i]) /\ down'[j].probe => down'[i].probe
    BY <1>1, <1>4, <2>1 DEF ProbesFirst
  <2>4. Probes(up') # {} => \A i \in 1 .. Len(down') : Answer(down'[i]) => down'[i].probe
    BY <1>1, <1>4, <2>1 DEF ProbesFirst, Probes
  <2> QED BY <2>2, <2>3, <2>4 DEF ProbesFirst
<1> QED
  BY <1>2, <1>3, <1>4 DEF ProbeInv, Awaited

\* A frame is taken, and counted if it answers a probe.
LEMMA ProbeTaken ==
    ASSUME Typed, ProbeInv, down # <<>>, down' = Tail(down), UNCHANGED <<up, socket>>,
           probe'.retries = probe.retries,
           Awaited => probe'.due = probe.due - (IF down[1].probe THEN 1 ELSE 0)
    PROVE  ProbeInv'
<1>1. /\ Len(up) \in Nat /\ Len(down) \in Nat /\ Len(down') \in Nat /\ Shorter(down', down)
  BY Lengths, TakeShape, SeqFacts DEF Typed
<1>2. ProbesOf'
  BY <1>1 DEF ProbesOf, ProbeInv, Shorter
<1>3. /\ Cardinality(Probes(down)) =
           Cardinality(Probes(down')) + (IF down[1].probe THEN 1 ELSE 0)
      /\ Cardinality(Probes(up)) \in Nat /\ Cardinality(Probes(down')) \in Nat
  BY <1>1, ProbesShorter, ProbesFinite
<1>4. ASSUME Awaited, ProbesFirst PROVE ProbesFirst'
  <2>1. \A i \in 1 .. Len(down') : i + 1 \in 1 .. Len(down) /\ down'[i] = down[i + 1]
    BY <1>1 DEF Shorter
  <2>2. \A i, j \in 1 .. Len(down') :
          i < j /\ Answer(down'[i]) /\ down'[j].probe => down'[i].probe
    <3>1. TAKE i, j \in 1 .. Len(down')
    <3>2. i < j => i + 1 < j + 1
      OBVIOUS
    <3> QED BY <1>4, <2>1, <3>2 DEF ProbesFirst
  <2>3. Probes(up) # {} => \A i \in 1 .. Len(down') : Answer(down'[i]) => down'[i].probe
    BY <1>4, <2>1 DEF ProbesFirst
  <2> QED BY <1>4, <2>2, <2>3 DEF ProbesFirst
<1> QED
  BY <1>2, <1>3, <1>4 DEF ProbeInv, Awaited

\* The relay reads a request and answers it.
LEMMA ProbeRelay ==
    ASSUME Typed, ProbeInv, RelayReads
    PROVE  ProbeInv'
<1>1. PICK f : /\ Longer(down', down, f) /\ f.kind = (IF here THEN "sent" ELSE "refused")
               /\ f.body = up[1].kind /\ f.probe = up[1].probe
  BY RelayShape DEF Typed
<1>2. /\ Shorter(up', up) /\ Len(up) \in Nat /\ Len(up') \in Nat /\ Len(down) \in Nat
      /\ UNCHANGED <<probe, socket>> /\ 1 \in 1 .. Len(up) /\ up[1] \in SetOf(up)
  BY RelayShape, Lengths, SeqFacts DEF Typed, RelayReads, page, Shorter
<1>3. ProbesOf'
  <2>1. f.probe => Answer(f) /\ f.body \in {"state", "output"}
    BY <1>1, <1>2 DEF Answer, ProbeInv, ProbesOf
  <2> QED BY <1>1, <1>2, <2>1 DEF ProbesOf, ProbeInv, Shorter, Longer
<1>4. /\ Cardinality(Probes(up)) = Cardinality(Probes(up')) + (IF up[1].probe THEN 1 ELSE 0)
      /\ Cardinality(Probes(down')) = Cardinality(Probes(down)) + (IF f.probe THEN 1 ELSE 0)
      /\ Cardinality(Probes(up')) \in Nat /\ Cardinality(Probes(down)) \in Nat
  BY <1>1, <1>2, ProbesShorter, ProbesLonger, ProbesFinite
<1>5. ASSUME Awaited, ProbesFirst PROVE ProbesFirst'
  <2>1. /\ \A i \in 1 .. Len(up') : i + 1 \in 1 .. Len(up) /\ up'[i] = up[i + 1]
        /\ \A i \in 1 .. Len(down) : down'[i] = down[i]
        /\ Len(down') = Len(down) + 1 /\ down'[Len(down) + 1] = f
    BY <1>1, <1>2 DEF Shorter, Longer
  <2>2. \A i, j \in 1 .. Len(up') : i < j /\ up'[j].probe => up'[i].probe
    <3>1. TAKE i, j \in 1 .. Len(up')
    <3>2. i < j => i + 1 < j + 1
      OBVIOUS
    <3> QED BY <1>5, <2>1, <3>2 DEF ProbesFirst
  <2>3. f.probe => \A i \in 1 .. Len(down) : Answer(down[i]) => down[i].probe
    BY <1>1, <1>2, <1>5 DEF ProbesFirst, Probes
  <2>4. \A i, j \in 1 .. Len(down') :
          i < j /\ Answer(down'[i]) /\ down'[j].probe => down'[i].probe
    <3>1. SUFFICES ASSUME NEW i \in 1 .. Len(down'), NEW j \in 1 .. Len(down'),
                          i < j, Answer(down'[i]), down'[j].probe
                   PROVE  down'[i].probe
      OBVIOUS
    <3>2. i \in 1 .. Len(down) /\ down'[i] = down[i]
      BY <1>2, <2>1, <3>1
    <3>3. CASE j = Len(down) + 1
      BY <2>1, <2>3, <3>1, <3>2, <3>3
    <3>4. CASE j \in 1 .. Len(down)
      BY <1>5, <2>1, <3>1, <3>2, <3>4 DEF ProbesFirst
    <3> QED BY <1>2, <2>1, <3>3, <3>4
  <2>5. Probes(up') # {} => \A i \in 1 .. Len(down') : Answer(down'[i]) => down'[i].probe
    <3>1. SUFFICES ASSUME Probes(up') # {} PROVE
            \A i \in 1 .. Len(down') : Answer(down'[i]) => down'[i].probe
      OBVIOUS
    <3>2. PICK k \in 1 .. Len(up') : up'[k].probe
      BY <3>1 DEF Probes
    <3>3. 1 < k + 1 /\ k + 1 \in 1 .. Len(up) /\ up[k + 1].probe
      BY <1>2, <2>1, <3>2
    <3>4. up[1].probe /\ Probes(up) # {}
      BY <1>2, <1>5, <3>3 DEF ProbesFirst, Probes
    <3>5. \A i \in 1 .. Len(down) : Answer(down[i]) => down[i].probe
      BY <1>5, <3>4 DEF ProbesFirst
    <3>6. down'[Len(down) + 1].probe
      BY <1>1, <2>1, <3>4
    <3>7. \A i \in 1 .. Len(down') : i \in 1 .. Len(down) \/ i = Len(down) + 1
      BY <1>2, <2>1
    <3> QED BY <2>1, <3>5, <3>6, <3>7
  <2> QED BY <2>2, <2>4, <2>5 DEF ProbesFirst
<1> QED
  BY <1>1, <1>2, <1>3, <1>4, <1>5 DEF ProbeInv, Awaited

\* No reload is under way at the start.
LEMMA ProbeInit == Init => ProbeInv
<1> SUFFICES ASSUME Init PROVE ProbeInv
  OBVIOUS
<1>1. up = <<>> /\ down = <<>> /\ SetOf(<<>>) = {} /\ ~socket.open
  BY DEF Init, SetOf
<1> QED
  BY <1>1 DEF ProbeInv, ProbesOf

\* A new socket's requests are all probes, or none is.
LEMMA ProbeOpens ==
    ASSUME Typed, ProbeInv, Opens
    PROVE  ProbeInv'
<1>1. /\ admitted \in BOOLEAN /\ up' = ReloadOf(admitted)
      /\ down' = <<Frame("connected", None, None)>>
      /\ probe'.due = IF admitted THEN Len(up') ELSE 0
  BY DEF Opens, Typed, StateOK
<1>2. /\ up' \in Seq(Requests) /\ Len(up') \in Nat
      /\ \A x \in SetOf(up') : x.probe = admitted /\ x.kind \in {"state", "output"}
      /\ \A i \in 1 .. Len(up') : up'[i].probe = admitted
  BY <1>1, ReloadShape DEF Typed
<1>3. /\ SetOf(down') = {Frame("connected", None, None)} /\ Len(down') = 1
      /\ down'[1] = Frame("connected", None, None)
  BY <1>1 DEF SetOf
<1>4. ~Frame("connected", None, None).probe /\ ~Answer(Frame("connected", None, None))
  BY DEF Frame, Answer
<1>5. ProbesOf'
  BY <1>2, <1>3, <1>4 DEF ProbesOf
<1>6. \A i \in 1 .. Len(down') : ~down'[i].probe /\ ~Answer(down'[i])
  BY <1>3, <1>4
<1>7. ProbesFirst'
  BY <1>2, <1>6 DEF ProbesFirst
<1>8. Cardinality(Probes(down')) = 0
  BY <1>3, <1>6, ProbesAll
<1>9. Cardinality(Probes(up')) = IF admitted THEN Len(up') ELSE 0
  BY <1>1, <1>2, ProbesAll
<1> QED
  BY <1>1, <1>2, <1>5, <1>7, <1>8, <1>9 DEF ProbeInv

\* The user's request, a frame of the runner's, or nothing, changes no probe.
LEMMA ProbeUser ==
    ASSUME Typed, ProbeInv, Deliver \/ AskLoaded \/ GenerateWorkflow
    PROVE  ProbeInv'
<1> DEFINE f == Frame("gone", None, None)
<1>1. ~f.probe /\ ~Answer(f)
  BY DEF Frame, Answer
<1>2. UNCHANGED <<probe, socket, down>>
  BY DEF Deliver, AskLoaded, GenerateWorkflow
<1>3. \A k, r, q : ~Request(k, r, q).probe
  BY DEF Request
<1>4. \E x : ~x.probe /\ (up' = up \/ Longer(up', up, x))
  <2>1. CASE Deliver
    <3>1. twin.queued \in Asks
      BY <2>1, Numbers DEF Deliver, Typed, StateOK, Asks
    <3>2. CreateSession(twin.queued) \/ SendMessage(twin.queued)
      BY <2>1 DEF Deliver
    <3>3. \/ up' = up
          \/ Longer(up', up, Request("create", None, twin.queued))
          \/ Longer(up', up, Request("message", conv.run, twin.queued))
      BY <3>1, <3>2, CreateShape, MessageShape DEF Typed
    <3> QED BY <1>3, <3>3
  <2>2. CASE AskLoaded
    <3>1. asked + 1 \in Asks /\ SendMessage(asked + 1)
      BY <2>2, Numbers DEF AskLoaded, Typed, StateOK, Asks
    <3>2. up' = up \/ Longer(up', up, Request("message", conv.run, asked + 1))
      BY <3>1, MessageShape DEF Typed
    <3> QED BY <1>3, <3>2
  <2>3. CASE GenerateWorkflow
    <3>1. Longer(up', up, Request("generate", conv.run, 0))
      BY <2>3, GenerateShape
    <3> QED BY <1>3, <3>1
  <2> QED BY <2>1, <2>2, <2>3
<1> HIDE DEF f
<1> QED
  BY <1>1, <1>2, <1>4, ProbeAside

\* The runner's frames answer no probe.
LEMMA ProbeTold ==
    ASSUME Typed, ProbeInv, NEW k, NEW r, NEW b, ~(k \in {"sent", "refused"}),
           FrameOK(Frame(k, r, b)), Broadcast(<<Frame(k, r, b)>>) \/ UNCHANGED down,
           UNCHANGED <<probe, socket, up>>
    PROVE  ProbeInv'
<1> DEFINE f == Frame(k, r, b)
           x == Request("state", None, 0)
<1>1. ~f.probe /\ ~Answer(f) /\ ~x.probe
  BY DEF Frame, Answer, Request
<1>2. down' = down \/ Longer(down', down, f)
  BY BroadcastShape DEF Typed
<1> HIDE DEF f, x
<1> QED
  BY <1>1, <1>2, ProbeAside

\* Nothing the runner or another tab does answers a probe.
LEMMA ProbeRunner ==
    ASSUME Typed, ProbeInv,
           RunnerReads \/ OtherCreates \/ RunnerLeaves \/ Working \/ \E r \in Runs : SessionFails(r)
    PROVE  ProbeInv'
<1>1. ASSUME NEW k, NEW r, NEW b, ~(k \in {"sent", "refused"}),
           FrameOK(Frame(k, r, b)), Broadcast(<<Frame(k, r, b)>>) \/ UNCHANGED down,
           UNCHANGED <<probe, socket, up>>
      PROVE  ProbeInv'
  BY <1>1, ProbeTold
<1>2. UNCHANGED <<probe, socket, up>>
  BY DEF RunnerReads, OtherCreates, RunnerLeaves, Working, Works, SessionFails, page
<1>3. \A r \in Runs : sess[r].state \in States /\ sess[r].log \in Seq(Items)
  BY DEF Typed, StateOK, Sessions
<1>4. ASSUME NEW b \in {"page", "other"}, NEW q, NEW w \in Askers, CreatesOne(b, q, w)
      PROVE  ProbeInv'
  <2>1. CASE Broadcast(<<Denied(b)>>)
    BY <1>1, <1>2, <2>1, FrameType DEF Denied
  <2>2. CASE \E r \in Runs : Broadcast(<<Created(r, w)>>)
    <3>1. PICK r \in Runs : Broadcast(<<Created(r, w)>>)
      BY <2>2
    <3> QED BY <1>1, <1>2, <3>1, FrameType DEF Created
  <2> QED BY <1>4, <2>1, <2>2 DEF CreatesOne
<1>5. CASE RunnerReads
  <2> DEFINE x == Head(inbox)
  <2>1. x.kind # "create" => x.run \in Runs
    BY <1>5, ReadShape, RequestKinds DEF Typed
  <2>2. CASE CreatesOne("page", x.q, "page")
    BY <1>4, <2>2 DEF Askers
  <2> HIDE DEF x
  <2>3. CASE x.kind = "state" /\ Broadcast(<<Frame("state", x.run, sess[x.run].state)>>)
    BY <1>1, <1>2, <1>3, <2>1, <2>3, FrameType
  <2>4. CASE x.kind = "output" /\ Broadcast(<<Frame("output", x.run, sess[x.run].log)>>)
    BY <1>1, <1>2, <1>3, <2>1, <2>4, FrameType
  <2>5. CASE x.kind = "generate" /\ UNCHANGED down
    BY <1>1, <1>2, <2>1, <2>5, FrameType
  <2>6. CASE x.kind = "message" /\ \E b \in BOOLEAN : Broadcast(<<Frame("ack", x.run, b)>>)
    BY <1>1, <1>2, <2>1, <2>6, FrameType
  <2>7. \/ x.kind = "create" /\ CreatesOne("page", x.q, "page")
        \/ x.kind = "state" /\ Broadcast(<<Frame("state", x.run, sess[x.run].state)>>)
        \/ x.kind = "output" /\ Broadcast(<<Frame("output", x.run, sess[x.run].log)>>)
        \/ x.kind = "generate" /\ UNCHANGED down
        \/ x.kind = "message" /\ \E b \in BOOLEAN : Broadcast(<<Frame("ack", x.run, b)>>)
    BY <1>5, ReadsShape DEF x
  <2> QED BY <2>2, <2>3, <2>4, <2>5, <2>6, <2>7
<1>6. CASE OtherCreates
  BY <1>4, <1>6, OthersShape, Numbers
<1>7. CASE RunnerLeaves
  BY <1>1, <1>2, <1>7, LeavesShape, FrameType
<1>8. CASE \E r \in Runs : SessionFails(r)
  <2>1. PICK r \in Runs : Broadcast(<<Frame("state", r, "error")>>)
    BY <1>8, FailsShape
  <2>2. FrameOK(Frame("state", r, "error"))
    BY FrameType DEF States
  <2> QED BY <1>1, <1>2, <2>1, <2>2
<1>9. CASE Working
  <2>1. PICK r \in Runs : Works(r)
    BY <1>9 DEF Working
  <2>2. FrameOK(Frame("state", r, "processing")) /\ FrameOK(Frame("state", r, "ready"))
    BY FrameType DEF States
  <2>3. FrameOK(Frame("generated", r, None))
    BY FrameType
  <2>4. CASE NextPiece(sess[r]) \in Items /\ Broadcast(<<Frame("response", r, NextPiece(sess[r]))>>)
    <3>1. FrameOK(Frame("response", r, NextPiece(sess[r])))
      BY <2>4, FrameType
    <3> QED BY <1>1, <1>2, <2>4, <3>1
  <2>5. CASE UNCHANGED down \/ Broadcast(<<Frame("state", r, "processing")>>)
    BY <1>1, <1>2, <2>2, <2>5
  <2>6. CASE Broadcast(<<Frame("state", r, "ready")>>)
    BY <1>1, <1>2, <2>2, <2>6
  <2>7. CASE Broadcast(<<Frame("generated", r, None)>>)
    BY <1>1, <1>2, <2>3, <2>7
  <2> QED BY <2>1, <2>4, <2>5, <2>6, <2>7, WorksShape
<1> QED
  BY <1>5, <1>6, <1>7, <1>8, <1>9

\* An answer at the head answers a probe exactly when one is pending.
LEMMA HeadProbe ==
    ASSUME Typed, ProbeInv, Awaited, down # <<>>, Answer(down[1])
    PROVE  down[1].probe <=> ProbePending
<1>1. /\ Len(down) \in Nat /\ Len(up) \in Nat /\ 1 \in 1 .. Len(down) /\ ProbesFirst
      /\ probe.due = Cardinality(Probes(up)) + Cardinality(Probes(down))
  <2>1. Len(down) \in Nat /\ Len(down) # 0 /\ Len(up) \in Nat
    BY Lengths, SeqFacts DEF Typed, StateOK
  <2> QED BY <2>1 DEF ProbeInv, Awaited
<1>2. /\ IsFiniteSet(Probes(up)) /\ Cardinality(Probes(up)) \in Nat
      /\ IsFiniteSet(Probes(down)) /\ Cardinality(Probes(down)) \in Nat
  BY <1>1, ProbesFinite
<1>3. CASE down[1].probe
  <2>1. Probes(down) # {}
    BY <1>1, <1>3 DEF Probes
  <2>2. Cardinality(Probes(down)) # 0
    BY <1>2, <2>1, FS_EmptySet
  <2> QED BY <1>1, <1>2, <1>3, <2>2 DEF ProbePending
<1>4. CASE ~down[1].probe
  <2>1. Probes(up) = {}
    BY <1>1, <1>4 DEF ProbesFirst
  <2>2. Probes(down) = {}
    <3>1. \A j \in 1 .. Len(down) : ~down[j].probe
      BY <1>1, <1>4 DEF ProbesFirst
    <3> QED BY <3>1 DEF Probes
  <2>3. probe.due = 0
    BY <1>1, <2>1, <2>2, FS_EmptySet
  <2> QED BY <1>4, <2>3 DEF ProbePending
<1> QED
  BY <1>3, <1>4

\* A page that reads an answer counts it off its reload.
LEMMA ProbeFrames ==
    ASSUME Typed, ProbeInv, Frames
    PROVE  ProbeInv'
<1>1. /\ down # <<>> /\ down' = Tail(down) /\ UNCHANGED <<up, socket>>
      /\ Head(down) = down[1] /\ down[1] \in SetOf(down) /\ probe \in Reloads
  BY TakeTyped, HeadFrame, Parts DEF Typed, PageOK, Reloads
<1>2. CASE UNCHANGED probe /\ ~Answer(down[1])
  <2>1. ~down[1].probe
    BY <1>1, <1>2 DEF ProbeInv, ProbesOf
  <2>2. probe.due \in Nat
    BY <1>1 DEF Reloads
  <2> QED BY <1>1, <1>2, <2>1, <2>2, ProbeTaken
<1>3. ASSUME NEW b \in BOOLEAN, SettleReload(b), ProbePending, Answer(down[1])
      PROVE  ProbeInv'
  <2>1. probe'.due = probe.due - 1 /\ probe'.retries = probe.retries
    BY <1>1, <1>3, SettleProbe
  <2>2. Awaited => down[1].probe
    BY <1>1, <1>3, HeadProbe
  <2> QED BY <1>1, <2>1, <2>2, ProbeTaken
<1>4. CASE TakeSent
  <2>1. down[1].kind = "sent" /\ Answer(down[1])
    BY <1>1, <1>4 DEF TakeSent, Take, Answer
  <2>2. CASE down[1].body \in {"state", "output"} /\ ProbePending
    BY <1>1, <1>3, <1>4, <2>1, <2>2 DEF TakeSent
  <2>3. CASE ~(down[1].body \in {"state", "output"} /\ ProbePending)
    <3>1. UNCHANGED probe
      BY <1>1, <1>4, <2>3 DEF TakeSent
    <3>2. Awaited => ~down[1].probe
      BY <1>1, <2>1, <2>3, HeadProbe DEF ProbeInv, ProbesOf
    <3>3. probe.due \in Nat
      BY <1>1 DEF Reloads
    <3> QED BY <1>1, <3>1, <3>2, <3>3, ProbeTaken
  <2> QED BY <2>2, <2>3
<1>5. CASE TakeRefused
  <2>1. down[1].kind = "refused" /\ Answer(down[1])
    BY <1>1, <1>5 DEF TakeRefused, Take, Answer
  <2>2. CASE ProbePending
    BY <1>1, <1>3, <1>5, <2>1, <2>2 DEF TakeRefused
  <2>3. CASE ~ProbePending
    <3>1. UNCHANGED probe
      BY <1>5, <2>3 DEF TakeRefused, ReportRefusal
    <3>2. Awaited => ~down[1].probe
      BY <1>1, <2>1, <2>3, HeadProbe
    <3>3. probe.due \in Nat
      BY <1>1 DEF Reloads
    <3> QED BY <1>1, <3>1, <3>2, <3>3, ProbeTaken
  <2> QED BY <2>2, <2>3
<1>6. CASE ~(TakeSent \/ TakeRefused)
  <2>1. UNCHANGED probe
    BY <1>6 DEF Frames, TakeForeign, TakeConnected, TakeCreated, TakeDenied, TakeResponse,
       TakeState, TakeAck, TakeOutput, TakeGenerated, TakeGone
  <2>2. ~Answer(down[1])
    BY <1>1, <1>6 DEF Frames, TakeForeign, TakeConnected, TakeCreated, TakeDenied,
       TakeResponse, TakeState, TakeAck, TakeOutput, TakeGenerated, TakeGone, Take, Answer,
       RunKinds
  <2> QED BY <1>2, <2>1, <2>2
<1> QED
  BY <1>4, <1>5, <1>6

\* Every step keeps the count.
LEMMA ProbeStep ==
    ASSUME Typed, ProbeInv, [Step]_state
    PROVE  ProbeInv'
<1>1. CASE UNCHANGED state
  BY <1>1 DEF state, page, net, ProbeInv, ProbesOf, ProbesFirst
<1>2. CASE RunnerReturns \/ Submit \/ Forget
  <2>1. UNCHANGED <<probe, socket, up, down>>
    BY <1>2 DEF RunnerReturns, Submit, Forget, page, net
  <2> QED BY <2>1 DEF ProbeInv, ProbesOf, ProbesFirst
<1>3. CASE Drops
  <2>1. up' = <<>> /\ down' = <<>> /\ SetOf(<<>>) = {} /\ ~socket'.open
    BY <1>3 DEF Drops, SetOf
  <2> QED BY <2>1 DEF ProbeInv, ProbesOf
<1>4. CASE RetryFires
  <2>1. probe'.retries = probe.retries + 1 /\ probe.retries \in Nat
    BY <1>4 DEF RetryFires, Typed, StateOK
  <2>2. SetOf(up') = SetOf(up) \cup SetOf(ReloadOf(TRUE)) /\ UNCHANGED down
    <3> DEFINE s == ReloadOf(TRUE)
    <3>1. s \in Seq(Requests) /\ up \in Seq(Requests)
      BY ReloadShape DEF Typed, StateOK
    <3> HIDE DEF s
    <3>2. SetOf(up \o s) = SetOf(up) \cup SetOf(s)
      BY <3>1, ConcatSeq
    <3> QED BY <1>4, <3>2 DEF s, RetryFires
  <2>3. \A x \in SetOf(ReloadOf(TRUE)) : x.kind \in {"state", "output"}
    BY ReloadShape DEF Typed
  <2>4. ProbesOf'
    BY <2>2, <2>3 DEF ProbesOf, ProbeInv
  <2> QED BY <2>1, <2>4 DEF ProbeInv
<1> QED
  BY <1>1, <1>2, <1>3, <1>4, ProbeOpens, ProbeRelay, ProbeRunner, ProbeFrames, ProbeUser
     DEF Step, Users, Faults

\* A refusal at the head: settled when it is of a probe, reported when it is not.
LEMMA RefusalSorted ==
    ASSUME Typed, ProbeInv, TakeRefused, probe.retries = 0
    PROVE  LET f == Head(down) IN
           /\ ~f.probe => conv'.error
           /\ f.probe => probe' # probe
<1>1. Frames
  BY DEF Frames
<1>2. /\ down # <<>> /\ Head(down) = down[1] /\ Answer(down[1]) /\ Awaited /\ probe \in Reloads
      /\ conv \in Convs
  BY <1>1, TakeTyped, HeadFrame, Parts
     DEF Typed, PageOK, Reloads, Wire, Awaited, TakeRefused, Take, Answer
<1>3. CASE ProbePending
  <2>1. down[1].probe
    BY <1>2, <1>3, HeadProbe
  <2>2. SettleReload(TRUE)
    BY <1>3 DEF TakeRefused
  <2>3. probe'.due = probe.due - 1 /\ probe.due \in Nat
    <3>1. ASSUME NEW b \in BOOLEAN, SettleReload(b) PROVE probe'.due = probe.due - 1
      BY <1>2, <1>3, <3>1, SettleProbe
    <3>2. probe.due \in Nat
      BY <1>2 DEF Reloads
    <3> QED BY <2>2, <3>1, <3>2
  <2>4. probe' # probe
    BY <2>3
  <2> QED BY <1>2, <2>1, <2>4
<1>4. CASE ~ProbePending
  <2>1. ~down[1].probe
    BY <1>2, <1>4, HeadProbe
  <2>2. conv'.error
    BY <1>2, <1>4, ReportConv DEF TakeRefused
  <2> QED BY <1>2, <2>1, <2>2
<1> QED
  BY <1>3, <1>4

\* Until a reload is retried, a refusal is settled as the reload's exactly
\* when it answers one of its probes, and every other refusal is reported to
\* the user (settleReloadForward, useChatWebSocket.ts:188).
THEOREM RefusalsFindTheirOwner == Spec => FirstRefusalsSorted
<1>1. Init => Typed /\ ProbeInv
  BY InitTyped, ProbeInit
<1>2. Typed /\ ProbeInv /\ [Next]_vars => (Typed /\ ProbeInv)'
  BY NextTyped, ProbeStep, PastStep
<1>3. Typed /\ ProbeInv /\ [Next]_vars =>
        [TakeRefused /\ probe.retries = 0 =>
           LET f == Head(down) IN
           /\ ~f.probe => conv'.error
           /\ f.probe => probe' # probe]_vars
  BY RefusalSorted, PastStep
<1> QED
  BY <1>1, <1>2, <1>3, PTL DEF Spec, FirstRefusalsSorted
-----------------------------------------------------------------------------
(* What a loaded page knows, while its runner stays.                        *)

\* What is known after n frames does not change when one more arrives.
LEMMA KnowLonger ==
    ASSUME StateOK, NEW f, Longer(down', down, f), conv'.state = conv.state, stream' = stream
    PROVE  /\ \A n \in 0 .. Len(down) : NotReady(n) => NotReady(n)'
           /\ \A n \in 0 .. Len(down) : Flushed(n) => Flushed(n)'
           /\ NotReady(Len(down)) /\ ~Ready(f) => NotReady(Len(down))'
           /\ Busied(f) => NotReady(Len(down))'
           /\ Flushed(Len(down)) /\ ~Resp(f) => Flushed(Len(down))'
           /\ Ready(f) => Flushed(Len(down))'
<1>0. PICK L : L = Len(down)
  OBVIOUS
<1>1. /\ L \in Nat /\ Len(down') = L + 1 /\ down'[L + 1] = f
      /\ \A i \in 1 .. L : down'[i] = down[i]
  BY <1>0, Lengths DEF Longer
<1>2. ASSUME NEW n \in 0 .. L, NotReady(n) PROVE NotReady(n)'
  BY <1>1, <1>2 DEF NotReady
<1>3. ASSUME NEW n \in 0 .. L, Flushed(n) PROVE Flushed(n)'
  BY <1>1, <1>3 DEF Flushed
<1>4. ASSUME NotReady(L), ~Ready(f) PROVE NotReady(L + 1)'
  <2>1. CASE conv.state # "ready" /\ \A i \in 1 .. L : ~Ready(down[i])
    <3>1. \A i \in 1 .. L + 1 : ~Ready(down'[i])
      BY <1>1, <1>4, <2>1
    <3> QED BY <2>1, <3>1 DEF NotReady
  <2>2. ASSUME NEW i \in 1 .. L, Busied(down[i]), \A j \in i + 1 .. L : ~Ready(down[j])
        PROVE  NotReady(L + 1)'
    <3>1. i \in 1 .. L + 1 /\ Busied(down'[i]) /\ \A j \in i + 1 .. L + 1 : ~Ready(down'[j])
      BY <1>1, <1>4, <2>2
    <3> QED BY <3>1 DEF NotReady
  <2> QED BY <1>4, <2>1, <2>2 DEF NotReady
<1>5. ASSUME Flushed(L), ~Resp(f) PROVE Flushed(L + 1)'
  <2>1. CASE stream = <<>> /\ \A i \in 1 .. L : ~Resp(down[i])
    <3>1. \A i \in 1 .. L + 1 : ~Resp(down'[i])
      BY <1>1, <1>5, <2>1
    <3> QED BY <2>1, <3>1 DEF Flushed
  <2>2. ASSUME NEW i \in 1 .. L, Ready(down[i]), \A j \in i + 1 .. L : ~Resp(down[j])
        PROVE  Flushed(L + 1)'
    <3>1. i \in 1 .. L + 1 /\ Ready(down'[i]) /\ \A j \in i + 1 .. L + 1 : ~Resp(down'[j])
      BY <1>1, <1>5, <2>2
    <3> QED BY <3>1 DEF Flushed
  <2> QED BY <1>5, <2>1, <2>2 DEF Flushed
<1>6. L + 1 \in 1 .. L + 1 /\ (L + 1) + 1 .. L + 1 = {}
  BY <1>1
<1>7. Busied(f) => NotReady(L + 1)'
  BY <1>1, <1>6 DEF NotReady
<1>8. Ready(f) => Flushed(L + 1)'
  BY <1>1, <1>6 DEF Flushed
<1>9. /\ NotReady(L + 1)' <=> NotReady(Len(down))'
      /\ Flushed(L + 1)' <=> Flushed(Len(down))'
      /\ NotReady(L) <=> NotReady(Len(down))
      /\ Flushed(L) <=> Flushed(Len(down))
  BY <1>0, <1>1 DEF NotReady, Flushed
<1> QED
  BY <1>0, <1>2, <1>3, <1>4, <1>5, <1>7, <1>8, <1>9

\* Nor when the page reads the first.
LEMMA KnowShorter ==
    ASSUME Shorter(down', down), Len(down') \in Nat,
           Ready(down[1]) => stream' = <<>>,
           ~Ready(down[1]) /\ conv.state # "ready" => conv'.state # "ready",
           Busied(down[1]) => conv'.state # "ready",
           ~Resp(down[1]) /\ stream = <<>> => stream' = <<>>
    PROVE  /\ Len(down) = Len(down') + 1
           /\ \A n \in 0 .. Len(down') : NotReady(n + 1) => NotReady(n)'
           /\ \A n \in 0 .. Len(down') : Flushed(n + 1) => Flushed(n)'
<1>1. /\ Len(down) = Len(down') + 1 /\ Len(down') \in Nat
      /\ \A i \in 1 .. Len(down') : down'[i] = down[i + 1]
  BY DEF Shorter
<1>2. ASSUME NEW n \in 0 .. Len(down'), NotReady(n + 1) PROVE NotReady(n)'
  <2>1. CASE conv.state # "ready" /\ \A i \in 1 .. n + 1 : ~Ready(down[i])
    <3>1. ~Ready(down[1])
      BY <1>1, <2>1
    <3>2. ASSUME NEW i \in 1 .. n PROVE ~Ready(down'[i])
      <4>1. i + 1 \in 1 .. n + 1 /\ down'[i] = down[i + 1]
        BY <1>1
      <4> QED BY <2>1, <4>1
    <3> QED BY <2>1, <3>1, <3>2 DEF NotReady
  <2>2. ASSUME NEW i \in 1 .. n + 1, Busied(down[i]), \A j \in i + 1 .. n + 1 : ~Ready(down[j])
        PROVE  NotReady(n)'
    <3>1. ASSUME NEW j \in i .. n PROVE ~Ready(down'[j])
      <4>1. j + 1 \in i + 1 .. n + 1 /\ down'[j] = down[j + 1]
        BY <1>1
      <4> QED BY <2>2, <4>1
    <3>2. CASE i = 1
      BY <2>2, <3>1, <3>2 DEF NotReady
    <3>3. CASE i # 1
      <4> DEFINE k == i - 1
      <4>1. k \in 1 .. n /\ k \in 1 .. Len(down') /\ k + 1 = i
        BY <1>1, <3>3
      <4>2. down'[k] = down[i] /\ \A j \in k + 1 .. n : ~Ready(down'[j])
        BY <1>1, <3>1, <4>1
      <4> HIDE DEF k
      <4> QED BY <2>2, <4>1, <4>2 DEF NotReady
    <3> QED BY <3>2, <3>3
  <2> QED BY <1>2, <2>1, <2>2 DEF NotReady
<1>3. ASSUME NEW n \in 0 .. Len(down'), Flushed(n + 1) PROVE Flushed(n)'
  <2>1. CASE stream = <<>> /\ \A i \in 1 .. n + 1 : ~Resp(down[i])
    <3>1. ~Resp(down[1])
      BY <1>1, <2>1
    <3>2. ASSUME NEW i \in 1 .. n PROVE ~Resp(down'[i])
      <4>1. i + 1 \in 1 .. n + 1 /\ down'[i] = down[i + 1]
        BY <1>1
      <4> QED BY <2>1, <4>1
    <3> QED BY <2>1, <3>1, <3>2 DEF Flushed
  <2>2. ASSUME NEW i \in 1 .. n + 1, Ready(down[i]), \A j \in i + 1 .. n + 1 : ~Resp(down[j])
        PROVE  Flushed(n)'
    <3>1. ASSUME NEW j \in i .. n PROVE ~Resp(down'[j])
      <4>1. j + 1 \in i + 1 .. n + 1 /\ down'[j] = down[j + 1]
        BY <1>1
      <4> QED BY <2>2, <4>1
    <3>2. CASE i = 1
      BY <2>2, <3>1, <3>2 DEF Flushed
    <3>3. CASE i # 1
      <4> DEFINE k == i - 1
      <4>1. k \in 1 .. n /\ k \in 1 .. Len(down') /\ k + 1 = i
        BY <1>1, <3>3
      <4>2. down'[k] = down[i] /\ \A j \in k + 1 .. n : ~Resp(down'[j])
        BY <1>1, <3>1, <4>1
      <4> HIDE DEF k
      <4> QED BY <2>2, <4>1, <4>2 DEF Flushed
    <3> QED BY <3>2, <3>3
  <2> QED BY <1>3, <2>1, <2>2 DEF Flushed
<1> QED
  BY <1>1, <1>2, <1>3

\* A request for the state has one for the transcript behind it.
LEMMA StateMeansOutput ==
    ASSUME StateOK, StateThenOutput, Coming("state")
    PROVE  Coming("output")
<1>0. /\ Len(up) \in Nat /\ Len(inbox) \in Nat
      /\ \A i \in 1 .. Len(up) : up[i] \in SetOf(up)
      /\ \A i \in 1 .. Len(inbox) : inbox[i] \in SetOf(inbox)
  BY Lengths
<1>1. \A i \in 0 .. Len(up) : OutputAfter(up, i) => Coming("output")
  BY <1>0 DEF OutputAfter, Coming
<1>2. \A i \in 0 .. Len(inbox) : OutputAfter(inbox, i) => Coming("output")
  BY <1>0 DEF OutputAfter, Coming
<1>3. \/ \E i \in 1 .. Len(up) : up[i].kind = "state"
      \/ \E i \in 1 .. Len(inbox) : inbox[i].kind = "state"
  BY DEF Coming, SetOf
<1> QED
  BY <1>0, <1>1, <1>2, <1>3 DEF StateThenOutput

\* Following, when a frame arrives.
LEMMA FollowLonger ==
    ASSUME StateOK, StateOK', Following, StateThenOutput', socket.open, UNCHANGED socket,
           NEW f, Longer(down', down, f), conv'.state = conv.state, stream' = stream,
           Answering' => ~Ready(f) /\ (Busied(f) \/ Answering),
           Resp(f) => Answering,
           Coming("state") => Coming("state")' \/ Ready(f) \/ Busied(f),
           Coming("output") => Coming("output")' \/ Out(f)
    PROVE  Following'
<1>0. PICK L : L = Len(down)
  OBVIOUS
<1>1. /\ L \in Nat /\ Len(down') = L + 1 /\ down'[L + 1] = f
      /\ \A i \in 1 .. L : down'[i] = down[i]
  BY <1>0, Lengths DEF Longer
<1>2. /\ Answering => NotReady(Len(down)) \/ Coming("state")
      /\ NotReady(Len(down)) \/ Flushed(Len(down)) \/ Coming("state")
      /\ \A n \in 0 .. L : \/ NotReady(n) \/ Flushed(n) \/ Coming("output")
                           \/ \E i \in n + 1 .. L : Out(down[i])
  BY <1>0 DEF Following
<1>3. Answering' => NotReady(Len(down))' \/ Coming("state")'
  BY <1>2, KnowLonger
<1>4. NotReady(Len(down))' \/ Flushed(Len(down))' \/ Coming("state")'
  BY <1>2, KnowLonger
<1>5. Coming("state")' => Coming("output")'
  BY StateMeansOutput, PTL
<1>6. ASSUME NEW n \in 0 .. L
      PROVE  \/ NotReady(n)' \/ Flushed(n)' \/ Coming("output")'
             \/ \E i \in n + 1 .. L + 1 : Out(down'[i])
  <2>1. CASE NotReady(n) \/ Flushed(n)
    BY <1>0, <2>1, KnowLonger
  <2>2. CASE Coming("output")
    BY <1>1, <2>2
  <2>3. CASE \E i \in n + 1 .. L : Out(down[i])
    BY <1>1, <2>3
  <2> QED BY <1>2, <2>1, <2>2, <2>3
<1>7. NotReady(L + 1)' \/ Flushed(L + 1)' \/ Coming("output")'
  <2>1. /\ NotReady(L + 1)' <=> NotReady(Len(down))'
        /\ Flushed(L + 1)' <=> Flushed(Len(down))'
    BY <1>1 DEF NotReady, Flushed
  <2> QED BY <1>4, <1>5, <2>1
<1>8. \A n \in 0 .. L + 1 : n = L + 1 \/ n \in 0 .. L
  BY <1>1
<1>9. \A n \in 0 .. Len(down') :
        \/ NotReady(n)' \/ Flushed(n)' \/ Coming("output")'
        \/ \E i \in n + 1 .. Len(down') : Out(down'[i])
  BY <1>1, <1>6, <1>7, <1>8
<1> QED
  BY <1>3, <1>4, <1>9 DEF Following

\* When none does.
LEMMA FollowSame ==
    ASSUME Following, UNCHANGED <<socket, down>>, conv'.state = conv.state,
           stream' = stream, Answering' => Answering,
           Coming("state") => Coming("state")', Coming("output") => Coming("output")'
    PROVE  Following'
<1>1. \A n \in 0 .. Len(down) : (NotReady(n) => NotReady(n)') /\ (Flushed(n) => Flushed(n)')
  BY DEF NotReady, Flushed
<1>2. (NotReady(Len(down)) => NotReady(Len(down))') /\ (Flushed(Len(down)) => Flushed(Len(down))')
  BY DEF NotReady, Flushed
<1> QED
  BY <1>1, <1>2 DEF Following

\* When the page reads one.
LEMMA FollowShorter ==
    ASSUME Following, Shorter(down', down), Len(down') \in Nat,
           UNCHANGED <<socket, up, inbox, sess>>,
           Ready(down[1]) => stream' = <<>>,
           ~Ready(down[1]) /\ conv.state # "ready" => conv'.state # "ready",
           Busied(down[1]) => conv'.state # "ready",
           ~Resp(down[1]) /\ stream = <<>> => stream' = <<>>
    PROVE  Following'
<1>1. /\ Len(down) = Len(down') + 1
      /\ \A n \in 0 .. Len(down') : NotReady(n + 1) => NotReady(n)'
      /\ \A n \in 0 .. Len(down') : Flushed(n + 1) => Flushed(n)'
      /\ \A i \in 1 .. Len(down') : down'[i] = down[i + 1]
  BY KnowShorter DEF Shorter
<1>2. /\ NotReady(Len(down)) => NotReady(Len(down))'
      /\ Flushed(Len(down)) => Flushed(Len(down))'
  <2>1. PICK n : n = Len(down')
    OBVIOUS
  <2>2. /\ NotReady(n)' <=> NotReady(Len(down))'
        /\ Flushed(n)' <=> Flushed(Len(down))'
        /\ NotReady(n + 1) <=> NotReady(Len(down))
        /\ Flushed(n + 1) <=> Flushed(Len(down))
    BY <1>1, <2>1 DEF NotReady, Flushed
  <2>3. n \in 0 .. Len(down')
    BY <2>1
  <2> QED BY <1>1, <2>2, <2>3
<1>3. UNCHANGED <<Coming("state"), Coming("output"), Answering>>
  BY DEF Coming, Answering
<1>4. ASSUME socket.open, NEW n \in 0 .. Len(down')
      PROVE  \/ NotReady(n)' \/ Flushed(n)' \/ Coming("output")'
             \/ \E i \in n + 1 .. Len(down') : Out(down'[i])
  <2>1. n + 1 \in 0 .. Len(down)
    BY <1>1
  <2>2. ASSUME NEW i \in (n + 1) + 1 .. Len(down), Out(down[i])
        PROVE  \E j \in n + 1 .. Len(down') : Out(down'[j])
    <3>1. i - 1 \in n + 1 .. Len(down') /\ down'[i - 1] = down[i]
      BY <1>1
    <3> QED BY <2>2, <3>1
  <2> QED BY <1>1, <1>3, <1>4, <2>1, <2>2 DEF Following
<1> QED
  BY <1>2, <1>3, <1>4 DEF Following

\* A listening socket gets what the runner broadcasts.
LEMMA Announced ==
    ASSUME StateOK, NEW f, FrameOK(f), Broadcast(<<f>>), here, socket.open, socket.listening
    PROVE  Longer(down', down, f)
<1>1. down' = down \o <<f>>
  BY DEF Broadcast
<1>2. down' # down
  <2>1. down \in Seq(SetOf(down) \cup {f}) /\ f \in SetOf(down) \cup {f}
    BY DEF StateOK
  <2> DEFINE S == SetOf(down) \cup {f}
  <2> HIDE DEF S
  <2>2. down \in Seq(S) /\ f \in S
    BY <2>1 DEF S
  <2>3. Len(down \o <<f>>) = Len(down) + 1 /\ Len(down) \in Nat
    BY <2>2
  <2> QED BY <1>1, <2>3
<1> QED
  BY <1>2, BroadcastShape

\* What the session has said stays covered, when a frame arrives.
LEMMA CoverLonger ==
    ASSUME StateOK, Covered, UNCHANGED socket, NEW f, Longer(down', down, f),
           SetOf(shown) \subseteq SetOf(shown'), stream' = stream,
           Out(f) => SetOf(sess'[1].log) \subseteq SetOf(f.body),
           Coming("output") => Coming("output")' \/ Out(f),
           \A y \in SetOf(sess'[1].log) :
             \/ y \in SetOf(sess[1].log) \/ Brings(f, y)
             \/ y \in SetOf(shown) /\ ~Out(f) /\ \A g \in SetOf(down) : ~Out(g)
    PROVE  Covered'
<1>0. PICK L : L = Len(down)
  OBVIOUS
<1>1. /\ L \in Nat /\ Len(down') = L + 1 /\ down'[L + 1] = f
      /\ \A i \in 1 .. L : down'[i] = down[i] /\ down[i] \in SetOf(down)
      /\ SetOf(down') = SetOf(down) \cup {f}
  BY <1>0, Lengths DEF Longer
<1> SUFFICES ASSUME socket.open, ~Coming("output")', NEW y \in SetOf(sess'[1].log)
             PROVE  /\ \/ y \in SetOf(shown') \cup SetOf(stream')
                       \/ \E g \in SetOf(down') : Brings(g, y)
                    /\ \A i \in 1 .. Len(down') : Out(down'[i]) =>
                         \E j \in i .. Len(down') : Brings(down'[j], y)
  BY DEF Covered, Brings, Out, Resp
<1>2. CASE Brings(f, y)
  <2>1. L + 1 \in 1 .. L + 1 /\ \A i \in 1 .. L + 1 : L + 1 \in i .. L + 1
    BY <1>1
  <2> QED BY <1>1, <1>2, <2>1
<1>3. Out(f) => Brings(f, y)
  BY DEF Brings
<1>4. CASE ~Out(f) /\ y \in SetOf(sess[1].log)
  <2>1. ~Coming("output")
    BY <1>4
  <2>2. /\ \/ y \in SetOf(shown) \cup SetOf(stream)
           \/ \E g \in SetOf(down) : Brings(g, y)
        /\ \A i \in 1 .. L : Out(down[i]) => \E j \in i .. L : Brings(down[j], y)
    BY <1>0, <1>4, <2>1 DEF Covered
  <2>3. ASSUME NEW i \in 1 .. L + 1, Out(down'[i])
        PROVE  \E j \in i .. L + 1 : Brings(down'[j], y)
    <3>1. i \in 1 .. L /\ Out(down[i])
      BY <1>1, <1>4, <2>3
    <3>2. PICK j \in i .. L : Brings(down[j], y)
      BY <2>2, <3>1
    <3>3. j \in i .. L + 1 /\ down'[j] = down[j]
      BY <1>1, <3>1
    <3> QED BY <3>2, <3>3
  <2> QED BY <1>1, <2>2, <2>3
<1>5. CASE y \in SetOf(shown) /\ ~Out(f) /\ \A g \in SetOf(down) : ~Out(g)
  <2>1. \A i \in 1 .. L + 1 : ~Out(down'[i])
    BY <1>1, <1>5
  <2> QED BY <1>1, <1>5, <2>1
<1> QED
  BY <1>2, <1>3, <1>4, <1>5

\* When none does.
LEMMA CoverSame ==
    ASSUME Covered, UNCHANGED <<socket, down>>, sess'[1].log = sess[1].log,
           SetOf(shown) \subseteq SetOf(shown'),
           Coming("output") => Coming("output")',
           stream' = stream
    PROVE  Covered'
  BY DEF Covered, Brings, Out, Resp

\* When the page reads one, that either brings the transcript or hides nothing.
LEMMA CoverShorter ==
    ASSUME Covered, Shorter(down', down), Len(down') \in Nat,
           UNCHANGED <<socket, up, inbox, sess>>,
           Out(down[1]) \/ (SetOf(shown) \cup SetOf(stream)
                            \subseteq SetOf(shown') \cup SetOf(stream')),
           \A y : Brings(down[1], y) => y \in SetOf(shown') \cup SetOf(stream')
    PROVE  Covered'
<1>1. /\ Len(down) = Len(down') + 1 /\ SetOf(down) = SetOf(down') \cup {down[1]}
      /\ \A i \in 1 .. Len(down') : down'[i] = down[i + 1]
      /\ \A i \in 1 .. Len(down') : down'[i] \in SetOf(down')
  BY DEF Shorter, SetOf
<1> SUFFICES ASSUME socket.open, ~Coming("output"), NEW y \in SetOf(sess[1].log)
             PROVE  /\ \/ y \in SetOf(shown') \cup SetOf(stream')
                       \/ \E g \in SetOf(down') : Brings(g, y)
                    /\ \A i \in 1 .. Len(down') : Out(down'[i]) =>
                         \E j \in i .. Len(down') : Brings(down'[j], y)
  BY DEF Covered, Brings, Out, Resp, Coming
<1>2. /\ \/ y \in SetOf(shown) \cup SetOf(stream)
         \/ \E g \in SetOf(down) : Brings(g, y)
      /\ \A i \in 1 .. Len(down) : Out(down[i]) => \E j \in i .. Len(down) : Brings(down[j], y)
  BY DEF Covered
<1>3. ASSUME NEW i \in 1 .. Len(down'), Out(down'[i])
      PROVE  \E j \in i .. Len(down') : Brings(down'[j], y)
  <2>1. i + 1 \in 1 .. Len(down) /\ Out(down[i + 1])
    BY <1>1, <1>3
  <2>2. PICK j \in i + 1 .. Len(down) : Brings(down[j], y)
    BY <1>2, <2>1
  <2>3. j - 1 \in i .. Len(down') /\ j - 1 \in 1 .. Len(down') /\ down'[j - 1] = down[j]
    BY <1>1
  <2> QED BY <2>2, <2>3
<1>4. CASE Out(down[1])
  <2>1. 1 \in 1 .. Len(down)
    BY <1>1
  <2>2. PICK j \in 1 .. Len(down) : Brings(down[j], y)
    BY <1>2, <1>4, <2>1
  <2>3. j = 1 \/ (j - 1 \in 1 .. Len(down') /\ down'[j - 1] = down[j])
    BY <1>1
  <2> QED BY <1>1, <1>3, <2>2, <2>3
<1>5. CASE SetOf(shown) \cup SetOf(stream) \subseteq SetOf(shown') \cup SetOf(stream')
  BY <1>1, <1>2, <1>3, <1>5
<1> QED
  BY <1>4, <1>5
-----------------------------------------------------------------------------
(* The order of the requests.                                               *)

\* The order of the requests, when the user sends one.
LEMMA QueueSend ==
    ASSUME StateOK, StateThenOutput, MessagesFirst, NEW x, Longer(up', up, x), inbox' = inbox,
           x.kind \in {"message", "generate"}, x.kind = "message" => ~Coming("output")
    PROVE  StateThenOutput' /\ MessagesFirst'
<1>1. /\ Len(up) \in Nat /\ Len(up') = Len(up) + 1 /\ up'[Len(up) + 1] = x
      /\ \A i \in 1 .. Len(up) : up'[i] = up[i] /\ up[i] \in SetOf(up)
      /\ \A i \in 1 .. Len(inbox) : inbox[i] \in SetOf(inbox)
      /\ SetOf(up') = SetOf(up) \cup {x} /\ SetOf(inbox') = SetOf(inbox)
  BY Lengths DEF Longer
<1>2. \A i \in 0 .. Len(up) : OutputAfter(up, i) => OutputAfter(up', i)
  BY <1>1 DEF OutputAfter
<1>3. ASSUME NEW i \in 1 .. Len(up'), up'[i].kind = "state" PROVE OutputAfter(up', i)
  <2>1. i \in 1 .. Len(up) /\ up[i].kind = "state"
    BY <1>1, <1>3
  <2> QED BY <1>1, <1>2, <2>1 DEF StateThenOutput
<1>4. StateThenOutput'
  <2>1. OutputAfter(up, 0) => OutputAfter(up', 0)
    BY <1>1, <1>2
  <2> QED BY <1>3, <2>1 DEF StateThenOutput
<1>5. Before(up')
  <2>1. ASSUME NEW i \in 1 .. Len(up'), NEW j \in 1 .. Len(up'), i < j, up'[i].kind = "output"
        PROVE  up'[j].kind # "message"
    <3>1. i \in 1 .. Len(up) /\ up[i].kind = "output" /\ Coming("output")
      BY <1>1, <2>1 DEF Coming
    <3>2. CASE j \in 1 .. Len(up)
      BY <1>1, <2>1, <3>1, <3>2 DEF MessagesFirst, Before
    <3>3. CASE j = Len(up) + 1
      BY <1>1, <3>1, <3>3
    <3> QED BY <1>1, <3>2, <3>3
  <2> QED BY <2>1 DEF Before
<1> QED
  BY <1>1, <1>4, <1>5 DEF MessagesFirst, Coming

\* When a reload is retried.
LEMMA QueueRetry ==
    ASSUME StateOK, StateThenOutput, MessagesFirst, NEW s \in Seq(Requests), Len(s) = 2,
           s[1].kind = "state", s[2].kind = "output", up' = up \o s, inbox' = inbox
    PROVE  StateThenOutput' /\ MessagesFirst' /\ Coming("output")'
<1>1. /\ Len(up) \in Nat /\ Len(up') = Len(up) + 2
      /\ up'[Len(up) + 1] = s[1] /\ up'[Len(up) + 2] = s[2]
      /\ \A i \in 1 .. Len(up) : up'[i] = up[i] /\ up[i] \in SetOf(up)
      /\ SetOf(up') = SetOf(up) \cup SetOf(s)
  <2>1. up \in Seq(Requests)
    BY DEF StateOK
  <2>2. Len(up \o s) = Len(up) + Len(s)
    BY <2>1, ConcatSeq
  <2>3. SetOf(up \o s) = SetOf(up) \cup SetOf(s)
    BY <2>1, ConcatSeq
  <2>4. \A i \in 1 .. Len(up) : (up \o s)[i] = up[i]
    BY <2>1, ConcatSeq
  <2>5. \A i \in 1 .. Len(s) : (up \o s)[Len(up) + i] = s[i]
    BY <2>1, ConcatSeq
  <2> DEFINE t == up \o s
  <2>6. t = up'
    OBVIOUS
  <2> HIDE DEF t
  <2>7. /\ Len(t) = Len(up) + 2 /\ SetOf(t) = SetOf(up) \cup SetOf(s)
        /\ \A i \in 1 .. Len(up) : t[i] = up[i]
        /\ t[Len(up) + 1] = s[1] /\ t[Len(up) + 2] = s[2]
    BY <2>2, <2>3, <2>4, <2>5 DEF t
  <2> QED BY <2>6, <2>7, Lengths
<1>2. \A i \in 0 .. Len(up) + 1 : OutputAfter(up', i)
  BY <1>1 DEF OutputAfter
<1>3. StateThenOutput'
  <2>1. ASSUME NEW i \in 1 .. Len(up'), up'[i].kind = "state" PROVE OutputAfter(up', i)
    BY <1>1, <1>2, <2>1
  <2>2. OutputAfter(up', 0)
    BY <1>1, <1>2
  <2> QED BY <2>1, <2>2 DEF StateThenOutput
<1>4. Before(up')
  <2>1. ASSUME NEW i \in 1 .. Len(up'), NEW j \in 1 .. Len(up'), i < j, up'[i].kind = "output"
        PROVE  up'[j].kind # "message"
    <3>1. CASE j \in 1 .. Len(up)
      BY <1>1, <2>1, <3>1 DEF MessagesFirst, Before
    <3>2. CASE j \in {Len(up) + 1, Len(up) + 2}
      BY <1>1, <3>2
    <3> QED BY <1>1, <3>1, <3>2
  <2> QED BY <2>1 DEF Before
<1>5. SetOf(s) = {s[1], s[2]}
  BY DEF SetOf
<1>6. Coming("output")'
  BY <1>1, <1>5 DEF Coming
<1> QED
  BY <1>1, <1>3, <1>4, <1>5, <1>6 DEF MessagesFirst

\* When a socket opens.
LEMMA QueueOpens ==
    ASSUME StateOK, MessagesFirst, up' \in Seq(Requests), Len(up') = 2,
           up'[1].kind = "state", up'[2].kind = "output", inbox' = inbox
    PROVE  StateThenOutput' /\ MessagesFirst' /\ Coming("state")' /\ Coming("output")'
<1>1. SetOf(up') = {up'[1], up'[2]}
  BY DEF SetOf
<1>2. OutputAfter(up', 0) /\ OutputAfter(up', 1)
  BY DEF OutputAfter
<1>3. \A i \in 1 .. Len(up') : i \in {1, 2}
  OBVIOUS
<1>4. StateThenOutput'
  <2>1. \A i \in 1 .. Len(up') : up'[i].kind = "state" => OutputAfter(up', i)
    BY <1>2, <1>3
  <2> QED BY <1>2, <2>1 DEF StateThenOutput
<1> QED
  BY <1>1, <1>3, <1>4 DEF MessagesFirst, Before, Coming

\* When the relay reads one.
LEMMA QueueRelay ==
    ASSUME StateOK, StateThenOutput, MessagesFirst, Shorter(up', up), Len(up') \in Nat,
           Longer(inbox', inbox, up[1])
    PROVE  /\ StateThenOutput' /\ MessagesFirst'
           /\ \A k : Coming(k)' <=> Coming(k)
           /\ SetOf(up') \cup SetOf(inbox') = SetOf(up) \cup SetOf(inbox)
<1>1. /\ Len(up) = Len(up') + 1 /\ SetOf(up) = SetOf(up') \cup {up[1]}
      /\ \A i \in 1 .. Len(up') : up'[i] = up[i + 1]
  BY DEF Shorter
<1>2. /\ Len(inbox) \in Nat /\ Len(inbox') = Len(inbox) + 1
      /\ SetOf(inbox') = SetOf(inbox) \cup {up[1]} /\ inbox'[Len(inbox) + 1] = up[1]
      /\ \A i \in 1 .. Len(inbox) : inbox'[i] = inbox[i] /\ inbox[i] \in SetOf(inbox)
      /\ \A i \in 1 .. Len(up) : up[i] \in SetOf(up)
  BY Lengths DEF Longer
<1>3. ASSUME NEW i \in 0 .. Len(up'), OutputAfter(up, i + 1) PROVE OutputAfter(up', i)
  <2>1. PICK j \in (i + 1) + 1 .. Len(up) : up[j].kind = "output"
    BY <1>3 DEF OutputAfter
  <2>2. j - 1 \in i + 1 .. Len(up') /\ up'[j - 1] = up[j]
    BY <1>1, <2>1
  <2> QED BY <2>1, <2>2 DEF OutputAfter
<1>4. ASSUME NEW i \in 1 .. Len(up'), up'[i].kind = "state" PROVE OutputAfter(up', i)
  <2>1. i + 1 \in 1 .. Len(up) /\ up[i + 1].kind = "state" /\ i \in 0 .. Len(up')
    BY <1>1, <1>4
  <2> QED BY <1>3, <2>1 DEF StateThenOutput
<1>5. ASSUME NEW i \in 1 .. Len(inbox'), inbox'[i].kind = "state"
      PROVE  OutputAfter(inbox', i) \/ OutputAfter(up', 0)
  <2>1. CASE i = Len(inbox) + 1
    <3>1. 1 \in 1 .. Len(up) /\ up[1].kind = "state"
      BY <1>1, <1>2, <1>5, <2>1
    <3>2. OutputAfter(up, 0 + 1)
      BY <3>1 DEF StateThenOutput
    <3> QED BY <1>3, <3>2
  <2>2. CASE i \in 1 .. Len(inbox)
    <3>1. inbox[i].kind = "state"
      BY <1>2, <1>5, <2>2
    <3>2. CASE OutputAfter(inbox, i)
      BY <1>2, <2>2, <3>2 DEF OutputAfter
    <3>3. CASE OutputAfter(up, 0)
      <4>1. PICK j \in 1 .. Len(up) : up[j].kind = "output"
        BY <3>3 DEF OutputAfter
      <4>2. CASE j = 1
        <5>1. Len(inbox) + 1 \in i + 1 .. Len(inbox') /\ inbox'[Len(inbox) + 1].kind = "output"
          BY <1>2, <2>2, <4>1, <4>2
        <5> QED BY <5>1 DEF OutputAfter
      <4>3. CASE j # 1
        <5>1. j \in (0 + 1) + 1 .. Len(up)
          BY <4>3
        <5>2. OutputAfter(up, 0 + 1)
          BY <4>1, <5>1 DEF OutputAfter
        <5> QED BY <1>3, <5>2
      <4> QED BY <4>2, <4>3
    <3> QED BY <2>2, <3>1, <3>2, <3>3 DEF StateThenOutput
  <2> QED BY <1>2, <2>1, <2>2
<1>6. Before(up')
  <2>1. ASSUME NEW i \in 1 .. Len(up'), NEW j \in 1 .. Len(up'), i < j, up'[i].kind = "output"
        PROVE  up'[j].kind # "message"
    <3>1. /\ i + 1 \in 1 .. Len(up) /\ up'[i] = up[i + 1]
          /\ j + 1 \in 1 .. Len(up) /\ up'[j] = up[j + 1] /\ i + 1 < j + 1
      BY <1>1, <2>1
    <3> QED BY <2>1, <3>1 DEF MessagesFirst, Before
  <2> QED BY <2>1 DEF Before
<1>7. Before(inbox')
  <2>1. ASSUME NEW i \in 1 .. Len(inbox'), NEW j \in 1 .. Len(inbox'), i < j,
               inbox'[i].kind = "output"
        PROVE  inbox'[j].kind # "message"
    <3>1. i \in 1 .. Len(inbox) /\ inbox[i].kind = "output" /\ inbox[i] \in SetOf(inbox)
      BY <1>2, <2>1
    <3>2. CASE j \in 1 .. Len(inbox)
      BY <1>2, <2>1, <3>1, <3>2 DEF MessagesFirst, Before
    <3>3. CASE j = Len(inbox) + 1
      BY <1>1, <1>2, <3>1, <3>3 DEF MessagesFirst
    <3> QED BY <1>2, <3>2, <3>3
  <2> QED BY <2>1 DEF Before
<1>8. ASSUME NEW x \in SetOf(up'), x.kind = "message", NEW y \in SetOf(inbox')
      PROVE  y.kind # "output"
  <2>1. PICK i \in 1 .. Len(up') : x = up'[i]
    BY DEF SetOf
  <2>2. 1 \in 1 .. Len(up) /\ i + 1 \in 1 .. Len(up) /\ 1 < i + 1 /\ up[i + 1] = x
    BY <1>1, <2>1
  <2>3. up[1].kind # "output"
    BY <1>8, <2>2 DEF MessagesFirst, Before
  <2> QED BY <1>1, <1>2, <1>8, <2>3 DEF MessagesFirst
<1>9. SetOf(up') \cup SetOf(inbox') = SetOf(up) \cup SetOf(inbox)
  BY <1>1, <1>2
<1> QED
  BY <1>4, <1>5, <1>6, <1>7, <1>8, <1>9 DEF StateThenOutput, MessagesFirst, Coming

\* When the runner reads one.
LEMMA QueueRead ==
    ASSUME StateOK, MessagesFirst, Shorter(inbox', inbox), Len(inbox') \in Nat, up' = up
    PROVE  /\ StateThenOutput => StateThenOutput'
           /\ MessagesFirst'
           /\ \A k : k # inbox[1].kind /\ Coming(k) => Coming(k)'
           /\ inbox[1].kind = "output" => ~Coming("message")'
<1>1. /\ Len(inbox) = Len(inbox') + 1 /\ SetOf(inbox) = SetOf(inbox') \cup {inbox[1]}
      /\ \A i \in 1 .. Len(inbox') : inbox'[i] = inbox[i + 1]
  BY DEF Shorter
<1>2. ASSUME NEW i \in 0 .. Len(inbox'), OutputAfter(inbox, i + 1) PROVE OutputAfter(inbox', i)
  <2>1. PICK j \in (i + 1) + 1 .. Len(inbox) : inbox[j].kind = "output"
    BY <1>2 DEF OutputAfter
  <2>2. j - 1 \in i + 1 .. Len(inbox') /\ inbox'[j - 1] = inbox[j]
    BY <1>1, <2>1
  <2> QED BY <2>1, <2>2 DEF OutputAfter
<1>3. ASSUME StateThenOutput, NEW i \in 1 .. Len(inbox'), inbox'[i].kind = "state"
      PROVE  OutputAfter(inbox', i) \/ OutputAfter(up, 0)
  <2>1. i + 1 \in 1 .. Len(inbox) /\ inbox[i + 1].kind = "state" /\ i \in 0 .. Len(inbox')
    BY <1>1, <1>3
  <2> QED BY <1>2, <1>3, <2>1 DEF StateThenOutput
<1>4. \A i \in 1 .. Len(inbox') : i + 1 \in 1 .. Len(inbox) /\ inbox'[i] = inbox[i + 1]
  BY <1>1
<1>5. Before(inbox')
  BY <1>4 DEF MessagesFirst, Before
<1>6. ASSUME inbox[1].kind = "output", NEW x \in SetOf(up) \cup SetOf(inbox')
      PROVE  x.kind # "message"
  <2>1. CASE x \in SetOf(up)
    BY <1>1, <1>6, <2>1 DEF MessagesFirst
  <2>2. CASE x \in SetOf(inbox')
    <3>1. PICK i \in 1 .. Len(inbox') : x = inbox'[i]
      BY <2>2 DEF SetOf
    <3>2. 1 \in 1 .. Len(inbox) /\ 1 < i + 1
      BY <1>1, <3>1
    <3> QED BY <1>4, <1>6, <3>1, <3>2 DEF MessagesFirst, Before
  <2> QED BY <2>1, <2>2
<1> QED
  BY <1>1, <1>3, <1>5, <1>6 DEF StateThenOutput, MessagesFirst, Coming
-----------------------------------------------------------------------------
(* Each step of a loaded page whose runner stays.                           *)

\* A move of the runner or of another tab that is told to the page.
LEMMA MissTold ==
    ASSUME StateOK, StateOK', Missing, UNCHANGED <<conv, shown, stream, socket, here>>,
           NEW f, FrameOK(f), Broadcast(<<f>>),
           Asking', MessagesFirst',
           SetOf(up') \cup SetOf(inbox') \subseteq SetOf(up) \cup SetOf(inbox),
           Out(f) => ~Coming("message")' /\ SetOf(sess'[1].log) \subseteq SetOf(f.body),
           Answering' => ~Ready(f) /\ (Busied(f) \/ Answering),
           Resp(f) => Answering,
           Coming("state") => Coming("state")' \/ Ready(f) \/ Busied(f),
           Coming("output") => Coming("output")' \/ Out(f),
           \A y \in SetOf(sess'[1].log) :
             \/ y \in SetOf(sess[1].log) \/ Brings(f, y)
             \/ y \in SetOf(shown) /\ ~Out(f) /\ \A g \in SetOf(down) : ~Out(g)
    PROVE  Missing'
<1>1. here /\ socket.listening = socket.open
  BY DEF Missing, Asking
<1>2. down' = down \/ Longer(down', down, f)
  BY BroadcastShape
<1>3. SetOf(down') \subseteq SetOf(down) \cup {f}
  BY <1>2 DEF Longer
<1>4. Coming("message")' => Coming("message")
  BY DEF Coming
<1>5. Messages'
  BY <1>3, <1>4 DEF Missing, Messages
<1>6. CASE socket.open
  <2>1. Longer(down', down, f)
    BY <1>1, <1>6, Announced
  <2>2. Covered /\ Following /\ StateThenOutput'
    BY <1>6 DEF Missing, Asking
  <2>3. Covered'
    BY <2>1, <2>2, CoverLonger
  <2>4. Following'
    BY <1>6, <2>1, <2>2, FollowLonger
  <2> QED BY <1>5, <2>3, <2>4 DEF Missing
<1>7. CASE ~socket.open
  <2>1. Covered' /\ Following'
    BY <1>7 DEF Covered, Following
  <2> QED BY <1>5, <2>1 DEF Missing
<1> QED
  BY <1>6, <1>7

\* A move that is told to nobody.
LEMMA MissStill ==
    ASSUME StateOK, Missing, UNCHANGED <<socket, down>>, Asking', MessagesFirst',
           conv'.state = conv.state, SetOf(shown) \subseteq SetOf(shown'),
           stream' = stream,
           sess'[1].log = sess[1].log, Answering' => Answering,
           Coming("state") => Coming("state")', Coming("output") => Coming("output")',
           Coming("message")' => Coming("message") \/ \A g \in SetOf(down) : ~Out(g),
           \A x \in SetOf(up') \cup SetOf(inbox') : x.kind = "message" =>
             x \in SetOf(up) \cup SetOf(inbox) \/ <<x.q, 0>> \in SetOf(shown')
    PROVE  Missing'
<1>1. Covered'
  BY CoverSame DEF Missing
<1>2. Following'
  BY FollowSame DEF Missing
<1>3. Messages'
  BY DEF Missing, Messages
<1> QED
  BY <1>1, <1>2, <1>3 DEF Missing

\* What stays of Asking when the requests are fewer.
LEMMA AskingKept ==
    ASSUME Asking, UNCHANGED <<socket, here, stream>>, sess'[1].by = sess[1].by,
           SetOf(up') \cup SetOf(inbox') \subseteq SetOf(up) \cup SetOf(inbox),
           socket.open => StateThenOutput'
    PROVE  Asking'
  BY DEF Asking

\* A loaded page is about session 1 throughout.
LEMMA LoadedRun ==
    ASSUME Typed, Page = "loaded"
    PROVE  1 \in Runs /\ conv.run = 1 /\ conv.loaded = 1 /\ ~conv.pending /\ twin.queued = 0
  BY ConversationAssumption DEF Typed, OnePage, Runs

\* The queues untouched.
LEMMA QueueSame ==
    ASSUME UNCHANGED <<up, inbox>>
    PROVE  /\ StateThenOutput => StateThenOutput'
           /\ MessagesFirst => MessagesFirst'
           /\ \A k : Coming(k)' <=> Coming(k)
  BY DEF StateThenOutput, OutputAfter, MessagesFirst, Before, Coming

\* What the session says is on its way to a page whose socket is open.
LEMMA MissWorks ==
    ASSUME Page = "loaded", Typed, Typed', Missing, NEW r \in Runs, Works(r) \/ SessionFails(r)
    PROVE  Missing'
<1>0. /\ UNCHANGED <<conv, shown, stream, socket, up, here, inbox>> /\ 1 \in Runs
      /\ \A t \in Runs \ {r} : sess'[t] = sess[t]
      /\ sess'[r].by = sess[r].by
  BY WorksShape, FailsShape, LoadedRun DEF page
<1>1. /\ SetOf(up') \cup SetOf(inbox') \subseteq SetOf(up) \cup SetOf(inbox)
      /\ \A k : Coming(k)' <=> Coming(k)
      /\ StateThenOutput => StateThenOutput'
      /\ MessagesFirst'
  BY <1>0, QueueSame DEF Missing, Messages
<1>2. sess'[1].by = sess[1].by
  BY <1>0
<1>3. Asking'
  BY <1>0, <1>1, <1>2, AskingKept DEF Missing, Asking
<1>4. StateOK /\ StateOK'
  BY DEF Typed
<1>5. ASSUME NEW k, NEW b, k \in {"state", "generated", "response"}, FrameOK(Frame(k, r, b)),
             Broadcast(<<Frame(k, r, b)>>),
             r = 1 /\ Answering' => ~(k = "state" /\ b = "ready") /\ (k = "state" \/ Answering),
             r = 1 /\ k = "response" => Answering,
             \A y \in SetOf(sess'[r].log) : y \in SetOf(sess[r].log) \/ (k = "response" /\ y = b)
      PROVE  Missing'
  <2> DEFINE f == Frame(k, r, b)
  <2>1. f.kind = k /\ f.run = r /\ f.body = b
    BY DEF Frame
  <2> HIDE DEF f
  <2>2. ~Out(f)
    BY <1>5, <2>1 DEF Out
  <2>3. Answering' => ~Ready(f) /\ (Busied(f) \/ Answering)
    <3>1. CASE r = 1
      BY <1>5, <2>1, <3>1 DEF Ready, Busied
    <3>2. CASE r # 1
      <4>1. sess'[1] = sess[1]
        BY <1>0, <3>2
      <4> QED BY <2>1, <3>2, <4>1 DEF Ready, Answering
    <3> QED BY <3>1, <3>2
  <2>4. Resp(f) => Answering
    BY <1>5, <2>1 DEF Resp
  <2>5. \A y \in SetOf(sess'[1].log) : y \in SetOf(sess[1].log) \/ Brings(f, y)
    <3>1. CASE r = 1
      BY <1>5, <2>1, <3>1 DEF Brings, Resp
    <3>2. CASE r # 1
      BY <1>0, <3>2
    <3> QED BY <3>1, <3>2
  <2>6. FrameOK(f) /\ Broadcast(<<f>>)
    BY <1>5 DEF f
  <2> QED BY <1>0, <1>1, <1>3, <1>4, <2>2, <2>3, <2>4, <2>5, <2>6, MissTold
<1>6. FrameOK(Frame("state", r, "processing")) /\ FrameOK(Frame("state", r, "ready"))
      /\ FrameOK(Frame("state", r, "error")) /\ FrameOK(Frame("generated", r, None))
  BY FrameType DEF States
<1>7. CASE SessionFails(r)
  <2>1. /\ sess'[r].log = sess[r].log /\ sess'[r].state = "error"
        /\ Broadcast(<<Frame("state", r, "error")>>)
    BY <1>7, FailsShape
  <2> QED BY <1>5, <1>6, <2>1 DEF Answering
<1>8. CASE Works(r)
  <2>1. CASE /\ sess[r].state = "initializing" /\ sess'[r].state = "processing"
             /\ sess'[r].log = sess[r].log
             /\ Broadcast(<<Frame("state", r, "processing")>>)
    BY <1>5, <1>6, <2>1 DEF Answering
  <2>2. CASE /\ sess[r].state = "processing" /\ sess'[r].state = "processing"
             /\ sess'[r].log = Append(sess[r].log, NextPiece(sess[r]))
             /\ NextPiece(sess[r]) \in Items
             /\ Broadcast(<<Frame("response", r, NextPiece(sess[r]))>>)
    <3> DEFINE p == NextPiece(sess[r])
    <3>1. FrameOK(Frame("response", r, p))
      BY <2>2, FrameType
    <3>2. sess[r].log \in Seq(Items)
      BY AtWorkHas DEF Sessions
    <3> HIDE DEF p
    <3>3. Longer(sess'[r].log, sess[r].log, p)
      BY <2>2, <3>2, AppendSeq DEF p
    <3>4. \A y \in SetOf(sess'[r].log) : y \in SetOf(sess[r].log) \/ y = p
      BY <3>3 DEF Longer
    <3>5. Broadcast(<<Frame("response", r, p)>>)
      BY <2>2 DEF p
    <3> QED BY <1>5, <2>2, <3>1, <3>4, <3>5 DEF Answering
  <2>3. CASE /\ sess'[r].log = sess[r].log /\ sess'[r].state = "ready"
             /\ Broadcast(<<Frame("state", r, "ready")>>)
    BY <1>5, <1>6, <2>3 DEF Answering
  <2>4. CASE /\ sess[r].state = "processing" /\ sess'[r].state = "processing"
             /\ sess'[r].log = sess[r].log /\ UNCHANGED down
    <3>1. sess'[1].log = sess[1].log /\ (Answering' => Answering)
      BY <1>0, <2>4 DEF Answering
    <3>2. \A x \in SetOf(up') \cup SetOf(inbox') : x \in SetOf(up) \cup SetOf(inbox)
      BY <1>1
    <3> QED BY <1>0, <1>1, <1>3, <1>4, <2>4, <3>1, <3>2, MissStill
  <2>5. CASE /\ sess'[r].state = sess[r].state /\ sess'[r].log = sess[r].log
             /\ Broadcast(<<Frame("generated", r, None)>>)
    <3>1. r = 1 /\ Answering' => Answering
      BY <2>5 DEF Answering
    <3> QED BY <1>5, <1>6, <2>5, <3>1
  <2> QED BY <1>8, <2>1, <2>2, <2>3, <2>4, <2>5, WorksShape
<1> QED
  BY <1>7, <1>8

\* The runner tells its state, its transcript, or that it was asked.
LEMMA MissReads ==
    ASSUME Page = "loaded", Typed, Typed', Missing, RunnerReads
    PROVE  Missing'
<1>1. PICK x : x = Head(inbox)
  OBVIOUS
<1>2. /\ Shorter(inbox', inbox) /\ x = inbox[1] /\ x \in SetOf(inbox) /\ x \in Requests
      /\ UNCHANGED <<conv, shown, stream, socket, up, here>> /\ inbox' \in Seq(Requests)
  BY <1>1, ReadShape DEF Typed, page
<1>3. /\ x.run = 1 /\ x.kind # "create" /\ 1 \in Runs /\ x.q \in 0 .. MaxAsks
      /\ sess[1] \in Sessions /\ StateOK /\ StateOK'
  BY <1>2, RequestKinds, LoadedRun, AtWorkHas DEF Missing, Asking, Typed
<1>4. /\ socket.open => StateThenOutput'
      /\ MessagesFirst'
      /\ \A k : k # x.kind /\ Coming(k) => Coming(k)'
      /\ x.kind = "output" => ~Coming("message")'
      /\ SetOf(up') \cup SetOf(inbox') \subseteq SetOf(up) \cup SetOf(inbox)
  <2>1. Len(inbox') \in Nat /\ up' = up
    BY <1>2
  <2>2. SetOf(up') \cup SetOf(inbox') \subseteq SetOf(up) \cup SetOf(inbox)
    BY <1>2 DEF Shorter
  <2> QED BY <1>2, <1>3, <2>1, <2>2, QueueRead DEF Missing, Messages, Asking
<1>5. sess'[1].by = sess[1].by => Asking'
  BY <1>2, <1>4, AskingKept DEF Missing, Asking
<1>6. ASSUME NEW k, NEW b, k \in {"state", "output", "ack"}, FrameOK(Frame(k, 1, b)),
             Broadcast(<<Frame(k, 1, b)>>), sess'[1].by = sess[1].by,
             k = "output" => x.kind = "output" /\ SetOf(sess'[1].log) \subseteq SetOf(b),
             x.kind = "output" => k = "output",
             x.kind = "state" => k = "state",
             Answering' => /\ ~(k = "state" /\ b = "ready")
                           /\ k = "state" \/ (k = "ack" /\ b) \/ Answering,
             \A y \in SetOf(sess'[1].log) :
               \/ y \in SetOf(sess[1].log)
               \/ k # "output" /\ x.kind = "message" /\ y = <<x.q, 0>>
      PROVE  Missing'
  <2> DEFINE f == Frame(k, 1, b)
  <2>1. f.kind = k /\ f.run = 1 /\ f.body = b
    BY DEF Frame
  <2> HIDE DEF f
  <2>2. Out(f) => ~Coming("message")' /\ SetOf(sess'[1].log) \subseteq SetOf(f.body)
    BY <1>4, <1>6, <2>1 DEF Out
  <2>3. Answering' => ~Ready(f) /\ (Busied(f) \/ Answering)
    <3>1. Ready(f) <=> k = "state" /\ b = "ready"
      BY <2>1 DEF Ready
    <3>2. Busied(f) <=> (k = "state" /\ b # "ready") \/ (k = "ack" /\ b)
      BY <2>1 DEF Busied
    <3> QED BY <1>6, <3>1, <3>2
  <2>4. Resp(f) => Answering
    BY <1>6, <2>1 DEF Resp
  <2>5. Coming("state") => Coming("state")' \/ Ready(f) \/ Busied(f)
    BY <1>4, <1>6, <2>1 DEF Ready, Busied
  <2>6. Coming("output") => Coming("output")' \/ Out(f)
    BY <1>4, <1>6, <2>1 DEF Out
  <2>7. x.kind = "message" =>
          <<x.q, 0>> \in SetOf(shown) /\ ~(\E g \in SetOf(down) : Out(g))
    BY <1>2 DEF Missing, Messages, Coming
  <2>8. \A y \in SetOf(sess'[1].log) :
          \/ y \in SetOf(sess[1].log) \/ Brings(f, y)
          \/ y \in SetOf(shown) /\ ~Out(f) /\ \A g \in SetOf(down) : ~Out(g)
    BY <1>6, <2>1, <2>7 DEF Out
  <2>9. FrameOK(f) /\ Broadcast(<<f>>)
    BY <1>6 DEF f
  <2>10. Asking'
    BY <1>5, <1>6
  <2> HIDE DEF f
  <2> QED BY <1>2, <1>3, <1>4, <2>10, <2>2, <2>3, <2>4, <2>5, <2>6, <2>8, <2>9, MissTold
<1>7. CASE /\ x.kind = "state" /\ UNCHANGED sess
           /\ Broadcast(<<Frame("state", 1, sess[1].state)>>)
  <2>1. FrameOK(Frame("state", 1, sess[1].state))
    BY <1>3, FrameType DEF Sessions
  <2>2. Answering' => Answering /\ sess[1].state # "ready"
    BY <1>7 DEF Answering
  <2> QED BY <1>6, <1>7, <2>1, <2>2
<1>8. CASE /\ x.kind = "output" /\ UNCHANGED sess
           /\ Broadcast(<<Frame("output", 1, sess[1].log)>>)
  <2>1. FrameOK(Frame("output", 1, sess[1].log))
    BY <1>3, FrameType DEF Sessions
  <2>2. Answering' => Answering
    BY <1>8 DEF Answering
  <2> QED BY <1>6, <1>8, <2>1, <2>2
<1>9. CASE /\ x.kind = "generate" /\ UNCHANGED down
           /\ sess'[1].by = sess[1].by /\ sess'[1].state = sess[1].state
           /\ sess'[1].log = sess[1].log
  <2>1. Answering' => Answering
    BY <1>9 DEF Answering
  <2>2. /\ Coming("state") => Coming("state")'
        /\ Coming("output") => Coming("output")'
        /\ Coming("message")' => Coming("message")
    BY <1>4, <1>9 DEF Coming
  <2>3. SetOf(shown) \subseteq SetOf(shown')
    BY <1>2
  <2>4. \A z \in SetOf(up') \cup SetOf(inbox') : z \in SetOf(up) \cup SetOf(inbox)
    BY <1>4
  <2> QED BY <1>2, <1>3, <1>4, <1>5, <1>9, <2>1, <2>2, <2>3, <2>4, MissStill
<1>10. CASE /\ x.kind = "message" /\ UNCHANGED sess
            /\ Broadcast(<<Frame("ack", 1, FALSE)>>)
  <2>1. FrameOK(Frame("ack", 1, FALSE))
    BY <1>3, FrameType
  <2>2. Answering' => Answering
    BY <1>10 DEF Answering
  <2>3. PICK b : b = FALSE
    OBVIOUS
  <2>4. FrameOK(Frame("ack", 1, b)) /\ Broadcast(<<Frame("ack", 1, b)>>)
    BY <1>10, <2>1, <2>3, Zenon
  <2>5. Answering' => b \/ Answering
    BY <2>2, <2>3
  <2> QED BY <1>6, <1>10, <2>2, <2>4, <2>5
<1>11. CASE /\ x.kind = "message" /\ sess'[1].by = sess[1].by
            /\ sess'[1].log = Append(sess[1].log, <<x.q, 0>>)
            /\ Broadcast(<<Frame("ack", 1, TRUE)>>)
  <2>1. FrameOK(Frame("ack", 1, TRUE))
    BY <1>3, FrameType
  <2>2. \A y \in SetOf(sess'[1].log) : y \in SetOf(sess[1].log) \/ y = <<x.q, 0>>
    <3>1. <<x.q, 0>> \in Items /\ sess[1].log \in Seq(Items)
      BY <1>3, Numbers DEF Items, Sessions
    <3>2. Longer(sess'[1].log, sess[1].log, <<x.q, 0>>)
      BY <1>11, <3>1, AppendSeq
    <3> QED BY <3>2 DEF Longer
  <2>3. PICK b : b = TRUE
    OBVIOUS
  <2>4. FrameOK(Frame("ack", 1, b)) /\ Broadcast(<<Frame("ack", 1, b)>>)
    BY <1>11, <2>1, <2>3, Zenon
  <2>5. Answering' => b \/ Answering
    BY <2>3
  <2> QED BY <1>6, <1>11, <2>2, <2>4, <2>5
<1> QED
  BY <1>1, <1>3, <1>7, <1>8, <1>9, <1>10, <1>11, ReadsShape

\* A request moves on in its order, and its answer says nothing of the session.
LEMMA MissRelay ==
    ASSUME Page = "loaded", Typed, Typed', Missing, RelayReads
    PROVE  Missing'
<1>1. /\ UNCHANGED <<conv, shown, stream, socket, here, sess>> /\ here
      /\ Shorter(up', up) /\ Len(up') \in Nat /\ up # <<>>
      /\ Longer(inbox', inbox, up[1])
  BY RelayShape DEF RelayReads, page, Typed, Missing, Asking
<1>2. PICK f : Longer(down', down, f) /\ f.kind = (IF here THEN "sent" ELSE "refused")
  BY RelayShape DEF Typed
<1>3. f.kind = "sent"
  BY <1>1, <1>2
<1>4. ~Out(f) /\ ~Resp(f) /\ ~Ready(f) /\ ~Busied(f)
  BY <1>3 DEF Out, Resp, Ready, Busied
<1>5. socket.open /\ StateOK /\ StateOK'
  BY <1>1 DEF Typed, Wire
<1>6. /\ StateThenOutput' /\ MessagesFirst'
      /\ \A k : Coming(k)' <=> Coming(k)
      /\ SetOf(up') \cup SetOf(inbox') = SetOf(up) \cup SetOf(inbox)
  BY <1>1, <1>5, QueueRelay DEF Missing, Messages, Asking
<1>7. Asking'
  BY <1>1, <1>6, AskingKept DEF Missing, Asking
<1>8. Covered'
  <2>1. SetOf(shown) \subseteq SetOf(shown') /\ sess'[1].log = sess[1].log
    BY <1>1
  <2> QED BY <1>1, <1>2, <1>4, <1>5, <1>6, <2>1, CoverLonger DEF Missing
<1>9. Following'
  <2>1. Answering' => Answering
    BY <1>1 DEF Answering
  <2> QED BY <1>1, <1>2, <1>4, <1>5, <1>6, <2>1, FollowLonger DEF Missing
<1>10. Messages'
  BY <1>1, <1>2, <1>4, <1>6 DEF Missing, Messages, Longer
<1> QED
  BY <1>7, <1>8, <1>9, <1>10 DEF Missing

\* Another tab's session is not this conversation's.
LEMMA MissOthers ==
    ASSUME Page = "loaded", Typed, Typed', Missing, OtherCreates
    PROVE  Missing'
<1>1. /\ UNCHANGED <<conv, shown, stream, socket, up, here, inbox>> /\ 1 \in Runs
      /\ sess[1].by # None /\ \E w \in Askers : CreatesOne("other", 0, w)
  BY OthersShape, LoadedRun, Numbers DEF page, Missing, Asking
<1>0. PICK w \in Askers : CreatesOne("other", 0, w)
  BY <1>1
<1>2. sess'[1] = sess[1]
  BY <1>0, <1>1 DEF CreatesOne
<1>3. PICK f : /\ FrameOK(f) /\ Broadcast(<<f>>) /\ f.kind \in {"created", "denied"}
  <2>1. \A r \in Runs : /\ FrameOK(Created(r, w))
                        /\ Created(r, w).kind = "created"
    BY FrameType DEF Created, Frame
  <2>2. FrameOK(Denied("other")) /\ Denied("other").kind = "denied"
    BY FrameType DEF Denied, Frame
  <2> QED BY <1>0, <2>1, <2>2 DEF CreatesOne
<1>4. ~Out(f) /\ ~Resp(f) /\ ~Ready(f) /\ ~Busied(f)
  BY <1>3 DEF Out, Resp, Ready, Busied
<1>5. /\ SetOf(up') \cup SetOf(inbox') \subseteq SetOf(up) \cup SetOf(inbox)
      /\ \A k : Coming(k)' <=> Coming(k)
      /\ StateThenOutput => StateThenOutput'
      /\ MessagesFirst'
  BY <1>1, QueueSame DEF Missing, Messages
<1>6. Asking'
  BY <1>1, <1>2, <1>5, AskingKept DEF Missing, Asking
<1>7. (Answering' <=> Answering) /\ sess'[1].log = sess[1].log
  BY <1>2 DEF Answering
<1> QED
  BY <1>1, <1>3, <1>4, <1>5, <1>6, <1>7, MissTold DEF Typed

\* A socket that opens asks for the state and then the transcript.
LEMMA MissOpens ==
    ASSUME Page = "loaded", Typed, Typed', Missing, Opens
    PROVE  Missing'
<1>1. /\ UNCHANGED <<conv, shown, stream, here, inbox, sess>> /\ ~socket.open
      /\ socket'.open /\ socket'.listening = here
      /\ down' = <<Frame("connected", None, None)>> /\ up' = ReloadOf(admitted)
  BY DEF Opens, runner
<1>2. /\ admitted \in BOOLEAN /\ StateOK /\ conv.run # None /\ conv.run = conv.loaded /\ conv.run = 1
  <2>1. conv.run = 1 /\ conv.loaded = 1 /\ conv.run # None
    BY LoadedRun, Numbers
  <2> QED BY <2>1 DEF Typed, StateOK
<1>3. /\ up' \in Seq(Requests) /\ Len(up') = 2
      /\ up'[1].kind = "state" /\ up'[2].kind = "output"
      /\ \A x \in SetOf(up') : x.run = 1 /\ x.kind # "create" /\ x.kind # "message"
  BY <1>1, <1>2, ReloadShape
<1>4. StateThenOutput' /\ MessagesFirst' /\ Coming("state")' /\ Coming("output")'
  BY <1>1, <1>2, <1>3, QueueOpens DEF Missing, Messages
<1>5. Asking'
  BY <1>1, <1>3, <1>4 DEF Missing, Asking
<1>6. Covered' /\ Following'
  BY <1>4 DEF Covered, Following
<1>7. \A g \in SetOf(down') : ~Out(g)
  <2>1. SetOf(down') = {Frame("connected", None, None)}
    BY <1>1 DEF SetOf
  <2> QED BY <2>1 DEF Frame, Out
<1>8. Messages'
  BY <1>1, <1>3, <1>4, <1>7 DEF Missing, Messages
<1> QED
  BY <1>5, <1>6, <1>8 DEF Missing

\* A lost socket: nothing is promised until the next opens.
LEMMA MissDrops ==
    ASSUME Typed, Missing, Drops
    PROVE  Missing'
<1>1. /\ UNCHANGED <<here, inbox, sess>> /\ socket' = [open |-> FALSE, listening |-> FALSE]
      /\ up' = <<>> /\ down' = <<>> /\ shown' = shown \o stream /\ stream' = <<>>
      /\ SetOf(<<>>) = {}
  BY DEF Drops, runner, Emptied, SetOf
<1>2. Covered' /\ Following'
  BY <1>1 DEF Covered, Following
<1>3. SetOf(shown) \subseteq SetOf(shown')
  <2>1. SetOf(shown \o stream) = SetOf(shown) \cup SetOf(stream)
    BY ConcatSeq DEF Typed, StateOK
  <2> QED BY <1>1, <2>1
<1>4. Asking'
  <2>1. \A x \in SetOf(inbox) : x.run = 1 /\ x.kind # "create"
    BY DEF Missing, Asking
  <2>2. socket'.listening = socket'.open /\ ~socket'.open /\ here /\ sess[1].by = "page"
    BY <1>1 DEF Missing, Asking
  <2> QED BY <1>1, <2>1, <2>2 DEF Asking
<1>5. Before(up')
  BY <1>1 DEF Before
<1>6. Messages'
  BY <1>1, <1>3, <1>5 DEF Missing, Messages, MessagesFirst, Before
<1> QED
  BY <1>2, <1>4, <1>6 DEF Missing

\* A retried reload asks for both again.
LEMMA MissRetry ==
    ASSUME Page = "loaded", Typed, Typed', Missing, RetryFires
    PROVE  Missing'
<1>1. /\ UNCHANGED <<conv, shown, stream, here, inbox, sess, socket, down>>
      /\ up' = up \o ReloadOf(TRUE)
  BY DEF RetryFires, runner
<1>2. /\ socket.open /\ StateOK /\ conv.run # None /\ conv.run = conv.loaded /\ conv.run = 1
      /\ up \in Seq(Requests)
  <2>1. conv.run = 1 /\ conv.loaded = 1 /\ conv.run # None
    BY LoadedRun, Numbers
  <2> QED BY <2>1 DEF Typed, StateOK, Wire, RetryFires
<1>3. PICK s : s = ReloadOf(TRUE)
  OBVIOUS
<1>4. /\ s \in Seq(Requests) /\ Len(s) = 2
      /\ s[1].kind = "state" /\ s[2].kind = "output"
      /\ \A x \in SetOf(s) : x.run = 1 /\ x.kind # "create" /\ x.kind # "message"
  BY <1>2, <1>3, ReloadShape
<1>5. up' = up \o s
  BY <1>1, <1>3
<1>6. StateThenOutput' /\ MessagesFirst' /\ Coming("output")'
  BY <1>1, <1>2, <1>4, <1>5, QueueRetry DEF Missing, Messages, Asking
<1>7. SetOf(up') = SetOf(up) \cup SetOf(s)
  <2>1. SetOf(up \o s) = SetOf(up) \cup SetOf(s)
    BY <1>2, <1>4, ConcatSeq
  <2> QED BY <1>5, <2>1
<1>8. Asking'
  BY <1>1, <1>4, <1>6, <1>7 DEF Missing, Asking
<1>9. /\ Coming("state") => Coming("state")'
      /\ Coming("message")' => Coming("message")
  BY <1>1, <1>4, <1>7 DEF Coming
<1>10. \A x \in SetOf(up') \cup SetOf(inbox') : x.kind = "message" =>
         x \in SetOf(up) \cup SetOf(inbox)
  BY <1>1, <1>4, <1>7
<1>11. (Answering' => Answering) /\ SetOf(shown) \subseteq SetOf(shown')
  BY <1>1 DEF Answering
<1> QED
  BY <1>1, <1>2, <1>6, <1>8, <1>9, <1>10, <1>11, MissStill

\* The user asks only when all that was said is in the messages.
LEMMA MissUser ==
    ASSUME Page = "loaded", (asked' # asked => InTime), Typed, Typed', Missing,
           Deliver \/ AskLoaded \/ GenerateWorkflow
    PROVE  Missing'
<1>1. /\ UNCHANGED <<socket, down, here, inbox, sess>> /\ StateOK
      /\ conv.run = 1 /\ conv.run # None /\ twin.queued = 0
  BY LoadedRun, Numbers DEF Deliver, AskLoaded, GenerateWorkflow, runner, Typed
<1>2. ASSUME NEW x, Longer(up', up, x), x.run = 1, x.kind \in {"message", "generate"},
             x.kind = "message" => ~TranscriptComing /\ <<x.q, 0>> \in SetOf(shown'),
             conv'.state = conv.state, SetOf(shown) \subseteq SetOf(shown'), socket.open,
             stream' = stream
      PROVE  Missing'
  <2>1. SetOf(up') = SetOf(up) \cup {x}
    BY <1>2 DEF Longer
  <2>2. x.kind = "message" => ~Coming("output") /\ \A g \in SetOf(down) : ~Out(g)
    BY <1>2 DEF TranscriptComing, Coming, Out
  <2>3. StateThenOutput' /\ MessagesFirst'
    BY <1>1, <1>2, <2>2, QueueSend DEF Missing, Asking, Messages
  <2>4. Asking'
    <3>1. x.kind # "create"
      BY <1>2
    <3> QED BY <1>1, <1>2, <2>1, <2>3, <3>1 DEF Missing, Asking
  <2>5. /\ Coming("state") => Coming("state")'
        /\ Coming("output") => Coming("output")'
        /\ Coming("message")' => Coming("message") \/ \A g \in SetOf(down) : ~Out(g)
    BY <1>1, <2>1, <2>2 DEF Coming
  <2>6. \A z \in SetOf(up') \cup SetOf(inbox') : z.kind = "message" =>
          z \in SetOf(up) \cup SetOf(inbox) \/ <<z.q, 0>> \in SetOf(shown')
    BY <1>1, <1>2, <2>1
  <2>7. Answering' => Answering
    BY <1>1 DEF Answering
  <2>8. /\ UNCHANGED <<socket, down>> /\ sess'[1].log = sess[1].log /\ conv'.state = conv.state
        /\ SetOf(shown) \subseteq SetOf(shown') /\ stream' = stream
    BY <1>1, <1>2
  <2>9. Covered'
    BY <2>5, <2>8, CoverSame DEF Missing
  <2>10. Following'
    BY <2>5, <2>7, <2>8, FollowSame DEF Missing
  <2>11. Messages'
    BY <2>3, <2>5, <2>6, <2>8 DEF Missing, Messages
  <2> QED BY <2>4, <2>9, <2>10, <2>11 DEF Missing
<1>3. CASE AskLoaded
  <2> DEFINE q == asked + 1
             x == Request("message", conv.run, q)
  <2>1. /\ q \in Asks /\ SendMessage(q) /\ socket.open /\ conv.state = "ready"
        /\ ~TranscriptComing
    <3>1. asked \in 0 .. MaxAsks /\ asked < MaxAsks
      BY <1>1, <1>3 DEF AskLoaded, StateOK
    <3>2. q \in Asks
      BY <3>1, Numbers DEF Asks
    <3> HIDE DEF q
    <3>3. SendMessage(q)
      BY <1>3 DEF AskLoaded, q
    <3>4. InTime
      BY <1>3, <3>1 DEF AskLoaded
    <3> QED BY <1>3, <3>2, <3>3, <3>4 DEF AskLoaded, Sendable, InTime
  <2>2. /\ conv'.state = conv.state /\ Longer(shown', shown, <<q, 0>>) /\ stream' = <<>>
        /\ Longer(up', up, x)
    BY <1>1, <2>1, MessageShape
  <2>3. stream = <<>>
    <3>1. \/ NotReady(0) \/ Flushed(0) \/ Coming("output")
          \/ \E i \in 0 + 1 .. Len(down) : Out(down[i])
      <4>1. Len(down) \in Nat
        BY <1>1, Lengths
      <4> QED BY <2>1, <4>1 DEF Missing, Following
    <3>2. ~Coming("output") /\ \A i \in 1 .. Len(down) : ~Out(down[i])
      BY <2>1 DEF TranscriptComing, Coming, Out, SetOf
    <3>3. ~NotReady(0)
      BY <2>1 DEF NotReady
    <3> QED BY <3>1, <3>2, <3>3 DEF Flushed
  <2>4. x.run = 1 /\ x.kind = "message" /\ x.q = q
    BY <1>1 DEF Request
  <2> HIDE DEF x, q
  <2>5. SetOf(shown) \subseteq SetOf(shown') /\ <<x.q, 0>> \in SetOf(shown')
    BY <2>2, <2>4 DEF Longer
  <2> QED BY <1>2, <2>1, <2>2, <2>3, <2>4, <2>5
<1>4. CASE GenerateWorkflow
  <2> DEFINE x == Request("generate", conv.run, 0)
  <2>1. x.run = 1 /\ x.kind = "generate"
    BY <1>1 DEF Request
  <2>2. /\ Longer(up', up, x) /\ conv'.state = conv.state /\ UNCHANGED <<shown, stream>>
        /\ socket.open
    BY <1>4, GenerateShape DEF GenerateWorkflow
  <2> HIDE DEF x
  <2> QED BY <1>2, <2>1, <2>2
<1>5. ~Deliver
  BY <1>1 DEF Deliver
<1> QED
  BY <1>3, <1>4, <1>5

\* What a frame brings is shown, and what it replaces is in it or behind it.
LEMMA MissFrames ==
    ASSUME Page = "loaded", Typed, Typed', Missing, Frames
    PROVE  Missing'
<1> DEFINE f == Head(down)
<1>1. /\ UNCHANGED <<here, inbox, sess, socket, up>> /\ StateOK /\ StateOK' /\ f = down[1]
      /\ Shorter(down', down) /\ f \in SetOf(down) /\ FrameOK(f)
      /\ conv \in Convs /\ shown \in Seq(Items) /\ stream \in Seq(Items)
      /\ conv.run = 1 /\ ~conv.pending /\ Len(down') \in Nat
  <2>1. Len(down') \in Nat
    BY TakeTyped, Parts, Lengths, TailSeq DEF Typed, StateOK
  <2> QED BY <2>1, TakeTyped, HeadFrame, Parts, LoadedRun DEF Typed, PageOK, runner
<1> HIDE DEF f
<1>2. ASSUME Ready(f) => stream' = <<>>,
             ~Ready(f) /\ conv.state # "ready" => conv'.state # "ready",
             Busied(f) => conv'.state # "ready",
             ~Resp(f) /\ stream = <<>> => stream' = <<>>,
             Out(f) \/ (SetOf(shown) \subseteq SetOf(shown')
                        /\ SetOf(stream) \subseteq SetOf(shown') \cup SetOf(stream')),
             \A y : Brings(f, y) => y \in SetOf(shown') \cup SetOf(stream')
      PROVE  Missing'
  <2>1. Following'
    BY <1>1, <1>2, FollowShorter DEF Missing
  <2>2. Covered'
    <3>1. Out(down[1]) \/ (SetOf(shown) \cup SetOf(stream)
                           \subseteq SetOf(shown') \cup SetOf(stream'))
      BY <1>1, <1>2
    <3>2. \A y : Brings(down[1], y) => y \in SetOf(shown') \cup SetOf(stream')
      BY <1>1, <1>2
    <3> QED BY <1>1, <3>1, <3>2, CoverShorter DEF Missing
  <2>3. /\ StateThenOutput => StateThenOutput'
        /\ MessagesFirst'
        /\ Coming("message")' <=> Coming("message")
    BY <1>1, QueueSame DEF Missing, Messages
  <2>4. Asking'
    <3>1. ~socket.open => stream' = <<>>
      BY <1>1, SeqFacts DEF Typed, Wire, SetOf, Shorter
    <3> QED BY <1>1, <2>3, <3>1 DEF Missing, Asking
  <2>5. Messages'
    <3>1. SetOf(down') \subseteq SetOf(down)
      BY <1>1 DEF Shorter
    <3>2. Coming("message") => ~Out(f)
      BY <1>1 DEF Missing, Messages
    <3>3. \A x \in SetOf(up) \cup SetOf(inbox) : x.kind = "message" => <<x.q, 0>> \in SetOf(shown')
      BY <1>2, <3>2 DEF Missing, Messages, Coming
    <3> QED BY <1>1, <2>3, <3>1, <3>3 DEF Missing, Messages
  <2> QED BY <2>1, <2>2, <2>4, <2>5 DEF Missing
<1>3. ASSUME ~Ready(f), ~Busied(f), ~Resp(f), ~Out(f), UNCHANGED <<shown, stream>>,
             conv'.state = conv.state \/ conv'.state # "ready"
      PROVE  Missing'
  <2>1. \A y : ~Brings(f, y)
    BY <1>3 DEF Brings
  <2> QED BY <1>2, <1>3, <2>1
<1>4. ASSUME f.kind \notin {"state", "ack", "response", "output"}
      PROVE  ~Ready(f) /\ ~Busied(f) /\ ~Resp(f) /\ ~Out(f)
  BY <1>4 DEF Ready, Busied, Resp, Out
<1>5. CASE TakeForeign
  <2>1. f.run # 1 /\ UNCHANGED <<conv, shown, stream>>
    BY <1>1, <1>5 DEF TakeForeign, Mine, f
  <2> QED BY <1>3, <2>1 DEF Ready, Busied, Resp, Out
<1>6. CASE TakeConnected
  <2>1. f.kind = "connected" /\ UNCHANGED <<conv, shown, stream>>
    BY <1>6 DEF TakeConnected, Take, f
  <2> QED BY <1>3, <1>4, <2>1
<1>7. CASE TakeCreated \/ TakeDenied
  <2>1. f.kind \in {"created", "denied"} /\ UNCHANGED <<conv, shown, stream>>
    BY <1>1, <1>7 DEF TakeCreated, TakeDenied, Take, Asked, f
  <2> QED BY <1>3, <1>4, <2>1
<1>8. CASE TakeResponse
  <2>1. f.kind = "response" /\ stream' = Append(stream, f.body) /\ UNCHANGED <<conv, shown>>
    BY <1>8 DEF TakeResponse, Take, f
  <2>2. Longer(stream', stream, f.body) /\ f.run = 1
    BY <1>1, <1>8, <2>1, AppendSeq DEF FrameOK, TakeResponse, Mine, f
  <2>3. ~Ready(f) /\ ~Busied(f) /\ ~Out(f) /\ Resp(f)
    BY <2>1, <2>2 DEF Ready, Busied, Out, Resp
  <2>4. SetOf(stream') = SetOf(stream) \cup {f.body}
    BY <2>2 DEF Longer
  <2>5. \A y : Brings(f, y) => y \in SetOf(stream')
    BY <2>3, <2>4 DEF Brings
  <2>6. conv'.state = conv.state /\ SetOf(shown') = SetOf(shown)
    BY <2>1
  <2> QED BY <1>2, <2>3, <2>4, <2>5, <2>6
<1>9. CASE TakeState
  <2>1. /\ f.kind = "state" /\ f.body \in States
        /\ conv' = [conv EXCEPT !.state = f.body, !.error = IF f.body = "error" THEN FALSE ELSE @]
        /\ IF f.body = "ready" THEN shown' = shown \o stream /\ stream' = <<>>
           ELSE UNCHANGED <<shown, stream>>
    BY <1>1, <1>9 DEF FrameOK, TakeState, Take, Emptied, f
  <2>2. conv'.state = f.body
    BY <1>1, <2>1, StateConv
  <2>3. ~Resp(f) /\ ~Out(f) /\ \A y : ~Brings(f, y)
    BY <2>1 DEF Resp, Out, Brings
  <2>4. f.run = 1
    BY <1>1, <1>9 DEF TakeState, Mine, f
  <2>5. (Ready(f) <=> f.body = "ready") /\ (Busied(f) <=> f.body # "ready")
    BY <2>1, <2>4 DEF Ready, Busied
  <2>6. /\ SetOf(shown) \subseteq SetOf(shown')
        /\ SetOf(stream) \subseteq SetOf(shown') \cup SetOf(stream')
    <3>1. SetOf(shown \o stream) = SetOf(shown) \cup SetOf(stream)
      BY <1>1, ConcatSeq
    <3> QED BY <2>1, <3>1
  <2>7. stream = <<>> => stream' = <<>>
    BY <2>1
  <2>8. f.body = "ready" => stream' = <<>>
    BY <2>1
  <2> QED BY <1>2, <2>2, <2>3, <2>5, <2>6, <2>7, <2>8
<1>10. CASE TakeAck
  <2>1. /\ f.kind = "ack" /\ f.run = 1 /\ UNCHANGED <<shown, stream>>
        /\ conv' = IF f.body THEN [conv EXCEPT !.state = "processing"]
                   ELSE [conv EXCEPT !.error = TRUE]
    BY <1>1, <1>10 DEF TakeAck, Take, Mine, f
  <2>2. ~Ready(f) /\ ~Resp(f) /\ ~Out(f) /\ (Busied(f) => f.body)
    BY <2>1 DEF Ready, Resp, Out, Busied
  <2>3. IF f.body THEN conv'.state = "processing" ELSE conv'.state = conv.state
    <3>1. "processing" \in States
      BY DEF States
    <3> QED BY <1>1, <2>1, <3>1, OneFieldConv
  <2>4. \A y : ~Brings(f, y)
    BY <2>2 DEF Brings
  <2> QED BY <1>2, <2>1, <2>2, <2>3, <2>4
<1>11. CASE TakeOutput
  <2>1. /\ f.kind = "output" /\ f.run = 1 /\ UNCHANGED <<conv, stream>>
        /\ shown' = IF f.body = <<>> THEN shown ELSE f.body
    BY <1>1, <1>11 DEF TakeOutput, Take, Mine, f
  <2>2. ~Ready(f) /\ ~Resp(f) /\ Out(f) /\ ~Busied(f)
    BY <2>1 DEF Ready, Resp, Out, Busied
  <2>3. \A y : Brings(f, y) => y \in SetOf(shown')
    <3>1. SetOf(<<>>) = {}
      BY DEF SetOf
    <3> QED BY <2>1, <2>2, <3>1 DEF Brings
  <2> QED BY <1>2, <2>1, <2>2, <2>3
<1>12. CASE TakeGenerated
  <2>1. f.kind = "generated" /\ UNCHANGED <<shown, stream>>
    BY <1>12 DEF TakeGenerated, Take, f
  <2>2. conv'.state = conv.state
    BY <1>1, <1>12, OneFieldConv DEF TakeGenerated, WaitEnds
  <2> QED BY <1>3, <1>4, <2>1, <2>2
<1>13. CASE TakeGone
  <2>1. f.kind = "gone" /\ UNCHANGED <<shown, stream>>
    BY <1>13 DEF TakeGone, Take, f
  <2>2. conv'.state = "disconnected"
    <3>1. "disconnected" \in States
      BY DEF States
    <3> QED BY <1>1, <1>13, <3>1, OneFieldConv DEF TakeGone
  <2> QED BY <1>3, <1>4, <2>1, <2>2
<1>14. CASE TakeSent
  <2>1. f.kind = "sent" /\ UNCHANGED <<shown, stream>>
    BY <1>14 DEF TakeSent, Take, f
  <2>2. conv' = conv \/ SettleReload(FALSE)
    BY <1>14 DEF TakeSent
  <2>3. conv'.state = conv.state
    BY <1>1, <2>2, SettleConv
  <2> QED BY <1>3, <1>4, <2>1, <2>3
<1>15. CASE TakeRefused
  <2>1. f.kind = "refused" /\ UNCHANGED <<shown, stream>>
    BY <1>15 DEF TakeRefused, Take, f
  <2>2. ReportRefusal \/ SettleReload(TRUE)
    BY <1>15 DEF TakeRefused
  <2>3. conv'.state = conv.state
    BY <1>1, <2>2, SettleConv, ReportConv
  <2> QED BY <1>3, <1>4, <2>1, <2>3
<1> QED
  BY <1>5, <1>6, <1>7, <1>8, <1>9, <1>10, <1>11, <1>12, <1>13, <1>14, <1>15 DEF Frames

\* Nothing is open at the start.
LEMMA MissInit ==
    ASSUME Page = "loaded", Init
    PROVE  Missing
<1>1. /\ here /\ ~socket.open /\ socket.listening = socket.open /\ stream = <<>>
      /\ up = <<>> /\ inbox = <<>> /\ down = <<>> /\ SetOf(<<>>) = {}
  BY DEF Init, SetOf
<1>2. sess[1].by = "page"
  <2>1. 1 \in Runs
    BY ConversationAssumption DEF Runs
  <2>2. sess[1] = [Session("page", 1) EXCEPT !.state = "processing"]
    BY <2>1 DEF Init
  <2> QED BY <2>2 DEF Session
<1>3. Asking
  BY <1>1, <1>2 DEF Asking
<1>4. Messages
  BY <1>1 DEF Messages, MessagesFirst, Before, Coming
<1>5. Covered /\ Following
  BY <1>1 DEF Covered, Following
<1> QED
  BY <1>3, <1>4, <1>5 DEF Missing

\* Every step misses nothing, while the runner stays.
LEMMA MissStep ==
    ASSUME Page = "loaded", (asked' # asked => InTime), Typed, Typed', MissInv, [Step]_state
    PROVE  MissInv'
<1> SUFFICES ASSUME faults'.leaves = 0
             PROVE  Missing'
  BY DEF MissInv
<1>0. faults \in Counts
  BY DEF Typed, StateOK, Counts
<1>1. faults.leaves = 0 /\ ~RunnerLeaves
  <2>1. RunnerLeaves => faults'.leaves # 0
    <3>1. CASE faults' = [faults EXCEPT !.leaves = @ + 1]
      BY <1>0, <3>1 DEF Counts
    <3>2. CASE faults' = [faults EXCEPT !.leaves = @ + 1, !.failures = @ + 1]
      BY <1>0, <3>2 DEF Counts
    <3> QED BY <3>1, <3>2 DEF RunnerLeaves
  <2>2. \A F : F = faults => /\ [F EXCEPT !.drops = @ + 1].leaves = F.leaves
                             /\ [F EXCEPT !.others = @ + 1].leaves = F.leaves
                             /\ [F EXCEPT !.failures = @ + 1].leaves = F.leaves
    BY <1>0 DEF Counts
  <2>3. CASE UNCHANGED faults
    BY <2>1, <2>3
  <2>4. CASE \/ faults' = [faults EXCEPT !.drops = @ + 1]
             \/ faults' = [faults EXCEPT !.others = @ + 1]
             \/ faults' = [faults EXCEPT !.failures = @ + 1]
    BY <2>1, <2>2, <2>4
  <2>5. CASE Opens \/ RetryFires \/ RelayReads \/ RunnerReturns \/ Working
    BY <2>3, <2>5 DEF Opens, RetryFires, RelayReads, RunnerReturns, Working, Works
  <2>6. CASE Frames
    BY <2>3, <2>6, TakeTyped
  <2>7. CASE Forget \/ Deliver \/ Users
    BY <2>3, <2>7 DEF Forget, Deliver, Users, Submit, AskLoaded, GenerateWorkflow
  <2>8. CASE RunnerReads
    BY <2>3, <2>4, <2>8 DEF RunnerReads, Fail
  <2>9. CASE Drops \/ OtherCreates \/ \E r \in Runs : SessionFails(r)
    BY <2>4, <2>9 DEF Drops, OtherCreates, SessionFails, Fail
  <2>10. CASE UNCHANGED state
    BY <2>3, <2>10 DEF state
  <2> QED BY <2>1, <2>5, <2>6, <2>7, <2>8, <2>9, <2>10 DEF Step, Faults
<1>2. Missing
  BY <1>1 DEF MissInv
<1>3. CASE UNCHANGED state
  <2>1. UNCHANGED <<conv, shown, stream, socket, up, down, here, inbox, sess>> /\ StateOK
    BY <1>3 DEF state, page, net, runner, Typed
  <2>2. /\ StateThenOutput => StateThenOutput'
        /\ MessagesFirst'
        /\ \A k : Coming(k)' <=> Coming(k)
    BY <1>2, <2>1, QueueSame DEF Missing, Messages
  <2>3. Asking'
    BY <1>2, <2>1, <2>2 DEF Missing, Asking
  <2>4. Answering' => Answering
    BY <2>1 DEF Answering
  <2>5. \A x \in SetOf(up') \cup SetOf(inbox') : x \in SetOf(up) \cup SetOf(inbox)
    BY <2>1
  <2> QED BY <1>2, <2>1, <2>2, <2>3, <2>4, <2>5, MissStill
<1>4. ~RunnerReturns
  BY <1>2 DEF Missing, Asking, RunnerReturns
<1>5. ~Submit /\ ~Forget
  BY DEF Submit, Forget
<1> QED
  BY <1>1, <1>2, <1>3, <1>4, <1>5, MissOpens, MissDrops, MissRetry, MissRelay, MissReads,
     MissOthers, MissWorks, MissFrames, MissUser DEF Step, Working, Users, Faults

\* At rest nothing is coming, so what is covered is shown.
LEMMA MissingShown ==
    ASSUME Page = "loaded", Typed, MissInv
    PROVE  LoadedMissesNothing
<1> SUFFICES ASSUME faults.leaves = 0, AtRest
             PROVE  SetOf(sess[conv.run].log) \subseteq SetOf(shown)
  BY DEF LoadedMissesNothing, NothingMissed
<1>1. /\ conv.run = 1 /\ socket.open /\ up = <<>> /\ down = <<>> /\ inbox = <<>>
      /\ conv.state = "ready" /\ SetOf(<<>>) = {} /\ Len(<<>>) = 0
  BY LoadedRun DEF AtRest, SetOf
<1>2. \A k : ~Coming(k)
  BY <1>1 DEF Coming
<1>3. \A y \in SetOf(sess[1].log) : y \in SetOf(shown) \cup SetOf(stream)
  BY <1>1, <1>2 DEF MissInv, Missing, Covered
<1>4. stream = <<>>
  <2>1. 0 \in 0 .. Len(down) /\ \A i \in 0 + 1 .. Len(down) : ~Out(down[i])
    BY <1>1
  <2>2. NotReady(0) \/ Flushed(0)
    BY <1>1, <1>2, <2>1 DEF MissInv, Missing, Following
  <2>3. ~NotReady(0)
    BY <1>1 DEF NotReady
  <2> QED BY <2>2, <2>3 DEF Flushed
<1> QED
  BY <1>1, <1>3, <1>4

\* A loaded conversation whose runner has stayed connected and whose user has
\* written only to an idle session, with no transcript under way, shows at
\* rest everything its session has said and was asked, over any number of
\* lost sockets and refused or retried reloads (useChatWebSocket.ts:304).
THEOREM NothingMissedLoaded ==
    ASSUME Page = "loaded"
    PROVE  Spec => []LoadedMissesNothing
<1> DEFINE I == Typed /\ (hasty \/ MissInv)
<1>1. Init => I
  BY InitTyped, MissInit DEF MissInv
<1>2. I /\ [Next]_vars => I'
  <2> SUFFICES ASSUME I, [Next]_vars PROVE I'
    OBVIOUS
  <2>1. Typed' /\ [Step]_state
    BY NextTyped, PastStep
  <2>2. ASSUME ~hasty' PROVE MissInv'
    BY <2>1, <2>2, PastStep, MissStep
  <2> QED BY <2>1, <2>2
<1>3. I => LoadedMissesNothing
  BY MissingShown DEF LoadedMissesNothing
<1> HIDE DEF I
<1> QED
  BY <1>1, <1>2, <1>3, PTL DEF Spec
-----------------------------------------------------------------------------
(* Every piece under its own question, in a conversation this page created. *)
(* A question is followed from the page to the frames that answer it: its   *)
(* create is the only one and is answered once, while pending (CreateInv);  *)
(* the pieces of the run so chosen come in order, each once, all of the     *)
(* last question (PieceInv), whose request no other accompanies; and the    *)
(* next question waits until the session has given all of the answer or has *)
(* ended for good (WaitInv, EndInv).                                        *)
(* The question last shown; the runs whose pieces are or will be its.       *)
Last == IF twin.queued = 0 THEN asked ELSE asked - 1
Texts == SetOf(shown) \cup SetOf(stream)
Introduces(f, r) == f.kind = "created" /\ f.body.of = "page" /\ f.body.id = r
Chosen(r) == conv.run = r \/ \E f \in SetOf(down) : Introduces(f, r)
Piece(f, r) == f.kind = "response" /\ f.run = r

(* The last question in a sequence of items; every piece under its own.     *)
Mark(s, n, i) == i \in 1 .. n /\ s[i][2] = 0 /\ \A j \in i + 1 .. n : s[j][2] > 0
Heads(s, n, q) == \E i \in 1 .. n : Mark(s, n, i) /\ s[i][1] = q
PlacedIn(s, t) ==
    /\ \A n \in 1 .. Len(s) : Heads(s, n, s[n][1])
    /\ \A x \in SetOf(t) : Heads(s, Len(s), x[1])

(* What the page shows belongs to the questions shown, and no transcript    *)
(* comes.                                                                   *)
TextInv ==
    /\ twin.queued \in {0, asked}
    /\ \A x \in Texts : x[1] <= Last
    /\ \A x \in SetOf(stream) : x[1] = Last /\ x[2] > 0
    /\ Last > 0 => Heads(shown, Len(shown), Last)
    /\ Last = 0 => conv.run = None /\ ~conv.pending
PlainInv ==
    /\ \A x \in SetOf(up) \cup SetOf(inbox) : x.kind # "output"
    /\ \A f \in SetOf(down) : f.kind # "output"

(* A request that asks a session, or asks for one (None): one at a time.    *)
Ask(x, r) == x.kind \in {"create", "message"} /\ x.run = r
Sought(r) == \E x \in SetOf(up) \cup SetOf(inbox) : Ask(x, r)
Alone(r) ==
    /\ \A i, j \in 1 .. Len(up) : Ask(up[i], r) /\ Ask(up[j], r) => i = j
    /\ \A i, j \in 1 .. Len(inbox) : Ask(inbox[i], r) /\ Ask(inbox[j], r) => i = j
    /\ \A x \in SetOf(up), y \in SetOf(inbox) : ~(Ask(x, r) /\ Ask(y, r))

(* A create is answered once, while it is pending; no other is under way.   *)
Reply(f) == \/ f.kind = "denied" /\ f.body = "page"
            \/ f.kind = "created" /\ f.body.of = "page"
Replied == \E f \in SetOf(down) : Reply(f)
OneCreate ==
    /\ Alone(None)
    /\ \A i, j \in 1 .. Len(down) : Reply(down[i]) /\ Reply(down[j]) => i = j
    /\ ~(Sought(None) /\ Replied)
    /\ \A x \in SetOf(up) \cup SetOf(inbox) : Ask(x, None) => x.q = Last
Unanswered == \A x \in Texts : x[1] = Last => x[2] = 0
CreateInv ==
    /\ OneCreate
    /\ Sought(None) \/ Replied => conv.pending
    /\ conv.pending => /\ conv.run = None /\ conv.state = "disconnected"
                       /\ twin.queued = 0 /\ Unanswered
    /\ twin.has => conv.run # None

(* The pieces of a chosen run come in order, each once, and are of the last *)
(* question; so is whatever its session is still to answer.                 *)
Come(r, k) == \/ <<Last, k>> \in Texts
              \/ \E f \in SetOf(down) : Piece(f, r) /\ f.body = <<Last, k>>
InOrder(r) ==
    /\ \A f \in SetOf(down) : Piece(f, r) => f.body[1] = Last /\ f.body[2] > 0
    /\ \A i, j \in 1 .. Len(down) :
         i < j /\ Piece(down[i], r) /\ Piece(down[j], r) => down[i].body[2] < down[j].body[2]
    /\ \A x \in Texts, f \in SetOf(down) : x[1] = Last /\ Piece(f, r) => x[2] < f.body[2]
Todo(r) ==
    /\ \A i \in 1 .. Len(sess[r].todo) :
         /\ sess[r].todo[i] <= Last
         /\ sess[r].todo[i] = Last \/ (i = 1 /\ sess[r].given = Chunks)
    /\ \A i, j \in 1 .. Len(sess[r].todo) :
         sess[r].todo[i] = Last /\ sess[r].todo[j] = Last => i = j
Given(r) ==
    \A k \in 1 .. Chunks : Come(r, k) =>
      /\ ~Sought(r)
      /\ \A i \in 1 .. Len(sess[r].todo) :
           sess[r].todo[i] = Last => i = 1 /\ k <= sess[r].given
OneMessage(r) ==
    /\ Alone(r)
    /\ \A x \in SetOf(up) \cup SetOf(inbox) : Ask(x, r) =>
         x.q = Last /\ \A i \in 1 .. Len(sess[r].todo) : sess[r].todo[i] # Last
Fits(r) == InOrder(r) /\ Todo(r) /\ Given(r) /\ OneMessage(r)
PieceInv == \A r \in Runs : Chosen(r) => Fits(r)

(* A session that has ended says nothing else.                              *)
Ended(st) == st \in {"error", "not_found"}
Live(f, r) ==
    /\ f.run = r
    /\ \/ f.kind = "state" /\ ~Ended(f.body)
       \/ f.kind = "ack" /\ f.body
Dead(r) == Ended(sess[r].state) /\ \A f \in SetOf(down) : ~Live(f, r)
EndInv ==
    /\ \A i \in 1 .. Len(down) : down[i].kind = "state" /\ Ended(down[i].body) =>
         /\ Ended(sess[down[i].run].state)
         /\ \A j \in i + 1 .. Len(down) : ~Live(down[j], down[i].run)
    /\ conv.run # None /\ Ended(conv.state) => Dead(conv.run)

(* A question waits only when the one before has its whole answer or can    *)
(* have no more of it.                                                      *)
WaitInv ==
    twin.queued # 0 /\ asked > 1 =>
        \/ Whole(asked - 1) \/ conv.error \/ conv.run = None
        \/ Dead(conv.run) /\ conv.state # "ready"

PlaceInv == /\ Placed /\ TextInv /\ PlainInv /\ CreateInv
            /\ PieceInv /\ EndInv /\ WaitInv

\* A frame that tells no state and acknowledges nothing.
Silent(f) == f.kind \in {"connected", "sent", "refused", "gone", "generated", "response"}
\* The runner reads a create.
Granting == RunnerReads /\ Head(inbox).kind = "create"

\* A frame told in a step: only of what its session is.
Says(f) ==
    /\ f.kind # "output"
    /\ \A r \in Runs : Live(f, r) => ~Ended(sess[r].state)
    /\ f.kind = "state" /\ Ended(f.body) => Ended(sess'[f.run].state)
    /\ Reply(f) => Granting

\* The number of the last question.
LEMMA LastNumber ==
    ASSUME StateOK, TextInv
    PROVE  Last \in 0 .. MaxAsks /\ asked \in 0 .. MaxAsks /\ twin.queued \in 0 .. MaxAsks
  BY Numbers DEF StateOK, TextInv, Last

\* A frame that is no state and no acknowledgement.
LEMMA SilentSays ==
    ASSUME NEW f, Silent(f)
    PROVE  Says(f)
  BY DEF Says, Silent, Live, Reply

\* A frame that is broadcast, if the page hears it.
LEMMA SaidShape ==
    ASSUME Typed, NEW f, FrameOK(f), Broadcast(<<f>>) \/ UNCHANGED down, Says(f)
    PROVE  \/ down' = down
           \/ \E g : Longer(down', down, g) /\ Says(g)
  BY BroadcastShape DEF Typed

\* A frame, field by field.
LEMMA FrameFields ==
    ASSUME NEW k, NEW r, NEW b
    PROVE  Frame(k, r, b).kind = k /\ Frame(k, r, b).run = r /\ Frame(k, r, b).body = b
  BY DEF Frame

\* What a step puts on the wire to the page, and what it does to ended sessions.
DownSays ==
    \/ down' = down
    \/ down # <<>> /\ Shorter(down', down) /\ UNCHANGED sess
    \/ \A g \in SetOf(down') : g.kind = "connected"
    \/ \E f : Longer(down', down, f) /\ Says(f)
EndedKept == \A r \in Runs : Known(r) /\ Ended(sess[r].state) => Ended(sess'[r].state)

\* A session speaks of itself while it is at work.
LEMMA WorksSays ==
    ASSUME Typed, KnownInv, NEW r \in Runs, Works(r) \/ SessionFails(r)
    PROVE  DownSays /\ EndedKept
<1>1. FrameOK(Frame("state", r, "processing")) /\ FrameOK(Frame("state", r, "ready"))
      /\ FrameOK(Frame("state", r, "error")) /\ FrameOK(Frame("generated", r, None))
  BY FrameType DEF States
<1>2. \A t \in Runs \ {r} : sess'[t] = sess[t]
  BY WorksShape, FailsShape
<1>3. CASE SessionFails(r)
  <2> DEFINE f == Frame("state", r, "error")
  <2>0. f.kind = "state" /\ f.body = "error" /\ f.run = r /\ FrameOK(f) /\ Broadcast(<<f>>)
    BY <1>1, <1>3, FrameFields, FailsShape
  <2> HIDE DEF f
  <2>1. Says(f)
    BY <1>3, <2>0, FailsShape DEF Says, Live, Ended, Reply
  <2>2. DownSays
    BY <2>0, <2>1, SaidShape DEF DownSays
  <2>3. EndedKept
    BY <1>2, <1>3, FailsShape DEF EndedKept, Ended
  <2> QED BY <2>2, <2>3
<1>4. CASE Works(r)
  <2>1. Silent(Frame("generated", r, None)) /\ \A x : Silent(Frame("response", r, x))
    BY FrameFields DEF Silent
  <2>2. EndedKept
    <3>1. \/ sess[r].state \in {"initializing", "processing"}
          \/ sess'[r].state = sess[r].state
      BY <1>4, WorksShape
    <3> QED BY <1>2, <3>1 DEF EndedKept, Ended
  <2>3. CASE /\ sess[r].state \in {"initializing", "processing"}
             /\ \/ Broadcast(<<Frame("state", r, "processing")>>)
                \/ Broadcast(<<Frame("state", r, "ready")>>)
    <3>1. Says(Frame("state", r, "processing")) /\ Says(Frame("state", r, "ready"))
      BY <2>3, FrameFields DEF Says, Live, Ended, Reply
    <3> QED BY <1>1, <2>2, <2>3, <3>1, SaidShape DEF DownSays
  <2>4. CASE UNCHANGED down
    BY <2>2, <2>4 DEF DownSays
  <2>5. CASE Broadcast(<<Frame("generated", r, None)>>)
    BY <1>1, <2>1, <2>2, <2>5, SaidShape, SilentSays DEF DownSays
  <2>6. CASE NextPiece(sess[r]) \in Items /\ Broadcast(<<Frame("response", r, NextPiece(sess[r]))>>)
    <3>1. FrameOK(Frame("response", r, NextPiece(sess[r])))
      BY <2>6, FrameType
    <3> QED BY <2>1, <2>2, <2>6, <3>1, SaidShape, SilentSays DEF DownSays
  <2> QED BY <1>4, <2>3, <2>4, <2>5, <2>6, WorksShape
<1> QED BY <1>3, <1>4

\* A create is answered when it is granted or refused.
LEMMA CreatesSays ==
    ASSUME Typed, KnownInv, NEW b \in {"page", "other"}, NEW q, NEW w \in Askers,
           CreatesOne(b, q, w), b = "page" \/ w = "page" => Granting
    PROVE  DownSays /\ EndedKept
<1>1. CASE UNCHANGED sess /\ Broadcast(<<Denied(b)>>)
  <2>1. FrameOK(Denied(b)) /\ Says(Denied(b))
    BY <1>1, FrameType, CreateFields DEF Says, Live, Reply
  <2> QED BY <1>1, <2>1, SaidShape DEF DownSays, EndedKept
<1>2. CASE \E r \in Runs :
         /\ sess[r].by = None /\ sess'[r] = Session(b, q)
         /\ \A t \in Runs \ {r} : sess'[t] = sess[t]
         /\ Broadcast(<<Created(r, w)>>)
  <2>1. PICK r \in Runs :
         /\ sess[r].by = None
         /\ \A t \in Runs \ {r} : sess'[t] = sess[t]
         /\ Broadcast(<<Created(r, w)>>)
    BY <1>2
  <2> DEFINE f == Created(r, w)
  <2>2. FrameOK(f) /\ f.kind = "created" /\ f.body.of = w
    BY FrameType DEF Created, Frame
  <2> HIDE DEF f
  <2>4. Says(f)
    BY <2>2 DEF Says, Live, Reply
  <2>3. EndedKept
    BY <2>1 DEF EndedKept, Known
  <2> QED BY <2>1, <2>2, <2>3, <2>4, SaidShape DEF DownSays, f
<1> QED BY <1>1, <1>2 DEF CreatesOne

\* An acknowledgement.
LEMMA AckSays ==
    ASSUME NEW r \in Runs, NEW b \in BOOLEAN, b => ~Ended(sess[r].state)
    PROVE  Says(Frame("ack", r, b))
<1> DEFINE f == Frame("ack", r, b)
<1>1. f.kind = "ack" /\ f.run = r /\ f.body = b
  BY FrameFields
<1> HIDE DEF f
<1>2. \A t \in Runs : Live(f, t) => ~Ended(sess[t].state)
  BY <1>1 DEF Live
<1> QED BY <1>1, <1>2 DEF Says, Reply, f

\* The runner speaks of the session a request names.
LEMMA ReadsSays ==
    ASSUME Typed, KnownInv, PlainInv, RunnerReads
    PROVE  DownSays /\ EndedKept
<1> DEFINE x == Head(inbox)
<1>1. x \in SetOf(inbox) /\ x \in Requests
  BY ReadShape DEF Typed
<1>2. x.kind # "create" => Known(x.run) /\ x.run \in Runs /\ sess[x.run] \in Sessions
  BY <1>1, AtWorkHas DEF KnownInv, RequestKnown, Known
<1>3. x.kind # "output"
  BY <1>1 DEF PlainInv
<1>10. x.kind = "create" => Granting
  BY DEF Granting
<1> HIDE DEF x
<1> DEFINE r == x.run
<1>4. CASE x.kind = "create" /\ CreatesOne("page", x.q, "page")
  <2>1. "page" \in Askers
    BY DEF Askers
  <2> QED BY <1>4, <1>10, <2>1, CreatesSays
<1>5. CASE x.kind = "state" /\ UNCHANGED sess
           /\ Broadcast(<<Frame("state", r, sess[r].state)>>)
  <2>1. FrameOK(Frame("state", r, sess[r].state))
    BY <1>2, <1>5, FrameType DEF Sessions
  <2>2. Says(Frame("state", r, sess[r].state))
    BY <1>5, FrameFields DEF Says, Live, Reply
  <2> QED BY <1>5, <2>1, <2>2, SaidShape DEF DownSays, EndedKept
<1>7. CASE x.kind = "generate"
  <2>1. /\ UNCHANGED down /\ \A t \in Runs \ {r} : sess'[t] = sess[t]
        /\ sess'[r].state = sess[r].state
    BY <1>7, ReadsShape DEF x
  <2> QED BY <2>1 DEF DownSays, EndedKept
<1>8. CASE /\ x.kind = "message" /\ UNCHANGED sess
           /\ sess[r].state \notin {"initializing", "processing", "ready"}
           /\ Broadcast(<<Frame("ack", r, FALSE)>>)
  <2>1. FrameOK(Frame("ack", r, FALSE))
    BY <1>2, <1>8, FrameType
  <2>2. Says(Frame("ack", r, FALSE))
    <3>1. \E b \in BOOLEAN : b = FALSE
      OBVIOUS
    <3>2. PICK b \in BOOLEAN : b = FALSE
      BY <3>1
    <3>3. Says(Frame("ack", r, b))
      BY <1>2, <1>8, <3>2, AckSays
    <3> QED BY <3>2, <3>3, Zenon
  <2> QED BY <1>8, <2>1, <2>2, SaidShape DEF DownSays, EndedKept
<1>9. CASE /\ x.kind = "message"
           /\ sess[r].state \in {"initializing", "processing", "ready"}
           /\ \A t \in Runs \ {r} : sess'[t] = sess[t]
           /\ Broadcast(<<Frame("ack", r, TRUE)>>)
  <2>1. FrameOK(Frame("ack", r, TRUE))
    BY <1>2, <1>9, FrameType
  <2>2. Says(Frame("ack", r, TRUE))
    <3>1. \E b \in BOOLEAN : b = TRUE
      OBVIOUS
    <3>2. PICK b \in BOOLEAN : b = TRUE
      BY <3>1
    <3>3. ~Ended(sess[r].state)
      BY <1>9 DEF Ended
    <3>4. Says(Frame("ack", r, b))
      BY <1>2, <1>9, <3>3, AckSays
    <3> QED BY <3>2, <3>4, Zenon
  <2>3. EndedKept
    BY <1>9 DEF EndedKept, Ended
  <2> QED BY <1>9, <2>1, <2>2, <2>3, SaidShape DEF DownSays
<1> QED
  BY <1>3, <1>4, <1>5, <1>7, <1>8, <1>9, ReadsShape DEF x

\* What a page of the twin keeps while the runner's side moves.
PageSame == UNCHANGED <<conv, shown, stream, asked, twin>>
RunnerSide == \/ Opens \/ RetryFires \/ RelayReads \/ RunnerReads \/ RunnerReturns
              \/ (\E r \in Runs : Works(r) \/ SessionFails(r)) \/ RunnerLeaves \/ OtherCreates
UserSide == Submit \/ Forget \/ Deliver

\* A page of the twin takes these steps.
LEMMA TwinSteps ==
    ASSUME Page = "twin", [Step]_state
    PROVE  UNCHANGED state \/ RunnerSide \/ Drops \/ Frames \/ UserSide
<1>1. ~AskLoaded /\ ~GenerateWorkflow
  BY DEF AskLoaded, Sendable, GenerateWorkflow
<1> QED
  BY <1>1 DEF Step, Working, Users, Faults, RunnerSide, UserSide

\* The runner's side moves nothing the page shows.
LEMMA RunnerPage ==
    ASSUME Typed, RunnerSide
    PROVE  PageSame
<1>1. CASE \E r \in Runs : Works(r) \/ SessionFails(r)
  <2>1. PICK r \in Runs : Works(r) \/ SessionFails(r)
    BY <1>1
  <2> QED BY <2>1 DEF Works, SessionFails, page, PageSame
<1>2. CASE ~(\E r \in Runs : Works(r) \/ SessionFails(r))
  BY <1>2 DEF RunnerSide, PageSame, Opens, RetryFires, RelayReads, RunnerReads, RunnerReturns,
     RunnerLeaves, OtherCreates, page
<1> QED BY <1>1, <1>2

\* Every step speaks only of what its sessions are.
LEMMA DownStep ==
    ASSUME Page = "twin", ~Crossing, Typed, KnownInv, PlainInv, [Step]_state
    PROVE  DownSays /\ EndedKept
<1>1. CASE UNCHANGED state \/ RetryFires \/ RunnerReturns \/ UserSide
  <2>1. down' = down /\ sess' = sess
    BY <1>1 DEF state, net, runner, RetryFires, RunnerReturns, UserSide, Submit, Forget, Deliver
  <2> QED BY <2>1 DEF DownSays, EndedKept
<1>2. CASE Opens \/ Drops
  <2>1. sess' = sess /\ (down' = <<>> \/ down' = <<Frame("connected", None, None)>>)
    BY <1>2 DEF Opens, Drops, runner
  <2>2. SetOf(<<>>) = {}
        /\ SetOf(<<Frame("connected", None, None)>>) = {Frame("connected", None, None)}
    BY DEF SetOf
  <2>3. Frame("connected", None, None).kind = "connected"
    BY FrameFields
  <2>4. \A g \in SetOf(down') : g.kind = "connected"
    BY <2>1, <2>2, <2>3
  <2> QED BY <2>1, <2>4 DEF DownSays, EndedKept
<1>3. CASE RelayReads
  <2>1. PICK f : /\ Longer(down', down, f) /\ f.kind = (IF here THEN "sent" ELSE "refused")
    BY <1>3, RelayShape DEF Typed
  <2>2. Says(f)
    BY <2>1, SilentSays DEF Silent
  <2>3. sess' = sess
    BY <1>3 DEF RelayReads
  <2> QED BY <2>1, <2>2, <2>3 DEF DownSays, EndedKept
<1>4. CASE RunnerReads
  BY <1>4, ReadsSays
<1>5. CASE \E r \in Runs : Works(r) \/ SessionFails(r)
  BY <1>5, WorksSays
<1>6. CASE RunnerLeaves
  <2>1. FrameOK(Frame("gone", None, None)) /\ Silent(Frame("gone", None, None))
    BY FrameType, FrameFields DEF Silent
  <2>2. EndedKept
    <3>1. UNCHANGED sess \/ \A r \in Runs : sess'[r].state = "not_found"
      BY <1>6, LeavesShape
    <3> QED BY <3>1 DEF EndedKept, Ended
  <2> QED BY <1>6, <2>1, <2>2, LeavesShape, SaidShape, SilentSays DEF DownSays
<1>7. CASE OtherCreates
  <2>1. PICK w \in Askers \ {"page"} : CreatesOne("other", 0, w)
    BY <1>7, OthersShape
  <2> QED BY <2>1, CreatesSays
<1>8. CASE Frames
  <2>1. sess' = sess /\ down # <<>> /\ Shorter(down', down)
    BY <1>8, TakeTyped, HeadFrame DEF runner
  <2> QED BY <2>1 DEF DownSays, EndedKept
<1> QED
  BY <1>1, <1>2, <1>3, <1>4, <1>5, <1>6, <1>7, <1>8, TwinSteps DEF RunnerSide

\* A dead session stays dead.
LEMMA DeadKept ==
    ASSUME Page = "twin", ~Crossing, Typed, KnownInv, PlainInv, [Step]_state,
           NEW r, Known(r), Dead(r)
    PROVE  Dead(r)'
<1>1. r \in Runs /\ Ended(sess[r].state) /\ \A f \in SetOf(down) : ~Live(f, r)
  BY DEF Known, Dead
<1>2. Ended(sess'[r].state)
  BY <1>1, DownStep DEF EndedKept
<1>3. \A f \in SetOf(down') : ~Live(f, r)
  <2>1. CASE down' = down
    BY <1>1, <2>1
  <2>2. CASE Shorter(down', down)
    BY <1>1, <2>2 DEF Shorter
  <2>3. CASE \A g \in SetOf(down') : g.kind = "connected"
    BY <2>3 DEF Live
  <2>4. CASE \E f : Longer(down', down, f) /\ Says(f)
    BY <1>1, <2>4 DEF Longer, Says
  <2> QED BY <2>1, <2>2, <2>3, <2>4, DownStep DEF DownSays
<1> QED
  BY <1>2, <1>3 DEF Dead

\* A frame that ends its session, and that nothing of the session follows it.
Closing(i) == down[i].kind = "state" /\ Ended(down[i].body)
Closed ==
    \A i \in 1 .. Len(down) : Closing(i) =>
         /\ Ended(sess[down[i].run].state)
         /\ \A j \in i + 1 .. Len(down) : ~Live(down[j], down[i].run)

\* The wire after a step is a sequence of frames.
LEMMA DownLength ==
    ASSUME StateOK'
    PROVE  /\ Len(down') \in Nat /\ \A i \in 1 .. Len(down') : down'[i] \in SetOf(down')
           /\ \A f \in SetOf(down') : FrameOK(f)
<1>1. down' \in Seq(SetOf(down')) /\ \A f \in SetOf(down') : FrameOK(f)
  BY Parts DEF NetOK
<1> QED BY <1>1, SeqFacts

\* A frame that ends a session is its last word.
LEMMA ClosedKept ==
    ASSUME Page = "twin", ~Crossing, Typed, Typed', KnownInv, PlainInv,
           [Step]_state, Closed
    PROVE  Closed'
<1>0. Len(down) \in Nat /\ Len(down') \in Nat
  BY Lengths, DownLength DEF Typed
<1>1. \A i \in 1 .. Len(down) : down[i].kind = "state" => Known(down[i].run)
  BY Lengths DEF KnownInv, FrameKnown, Typed, RunKinds
<1>2. ASSUME NEW i \in 1 .. Len(down'), down'[i].kind = "state", Ended(down'[i].body)
      PROVE  /\ Ended(sess'[down'[i].run].state)
             /\ \A j \in i + 1 .. Len(down') : ~Live(down'[j], down'[i].run)
  <2>1. CASE down' = down
    <3>1. Ended(sess[down[i].run].state) /\ Known(down[i].run)
          /\ \A j \in i + 1 .. Len(down) : ~Live(down[j], down[i].run)
      BY <1>1, <1>2, <2>1 DEF Closed, Closing
    <3> QED BY <2>1, <3>1, DownStep DEF EndedKept, Known
  <2>2. CASE Shorter(down', down)
    <3>1. i + 1 \in 1 .. Len(down) /\ down'[i] = down[i + 1]
      BY <1>0, <2>2 DEF Shorter
    <3>2. Ended(sess[down'[i].run].state) /\ Known(down'[i].run)
          /\ \A j \in i + 2 .. Len(down) : ~Live(down[j], down'[i].run)
      BY <1>0, <1>1, <1>2, <3>1 DEF Closed, Closing
    <3>3. \A j \in i + 1 .. Len(down') : j + 1 \in i + 2 .. Len(down) /\ down'[j] = down[j + 1]
      BY <1>0, <2>2 DEF Shorter
    <3> QED BY <3>2, <3>3, DownStep DEF EndedKept, Known
  <2>3. CASE \A g \in SetOf(down') : g.kind = "connected"
    <3>1. down'[i] \in SetOf(down')
      BY DEF SetOf
    <3> QED BY <1>2, <2>3, <3>1
  <2>4. CASE \E f : Longer(down', down, f) /\ Says(f)
    <3>1. PICK f : Longer(down', down, f) /\ Says(f)
      BY <2>4
    <3>2. CASE i = Len(down) + 1
      <4>1. down'[i] = f /\ i + 1 .. Len(down') = {}
        BY <1>0, <3>1, <3>2 DEF Longer
      <4> QED BY <1>2, <3>1, <4>1 DEF Says
    <3>3. CASE i \in 1 .. Len(down)
      <4>1. down'[i] = down[i]
        BY <3>1, <3>3 DEF Longer
      <4>2. /\ Ended(sess[down[i].run].state) /\ Known(down[i].run)
            /\ \A j \in i + 1 .. Len(down) : ~Live(down[j], down[i].run)
        BY <1>1, <1>2, <3>3, <4>1 DEF Closed, Closing
      <4>3. ~Live(f, down[i].run)
        BY <3>1, <4>2 DEF Says, Known
      <4>4. \A j \in i + 1 .. Len(down') :
              (j \in i + 1 .. Len(down) /\ down'[j] = down[j]) \/ down'[j] = f
        BY <1>0, <3>1 DEF Longer
      <4> QED BY <4>1, <4>2, <4>3, <4>4, DownStep DEF EndedKept, Known
    <3> QED BY <1>0, <3>1, <3>2, <3>3 DEF Longer
  <2> QED BY <2>1, <2>2, <2>3, <2>4, DownStep DEF DownSays
<1> QED
  BY <1>2 DEF Closed, Closing

\* Nothing is shown.
TextSame == UNCHANGED <<shown, stream>>

\* What a frame does to a page of the twin: it brings the session asked for,
\* refuses it, brings a piece, a state, or none of these.
TookCreated(f) ==
    /\ f.kind = "created" /\ f.body.of = "page" /\ conv.pending
    /\ f.body.id \in Runs /\ conv'.run = f.body.id /\ ~conv'.pending
    /\ conv'.state = conv.state /\ conv'.error = conv.error
    /\ TextSame
TookDenied(f) ==
    /\ f.kind = "denied" /\ f.body = "page" /\ conv.pending
    /\ conv'.run = conv.run /\ ~conv'.pending /\ conv'.error
    /\ twin'.has = twin.has /\ TextSame
TookResponse(f) ==
    /\ f.kind = "response" /\ f.run = conv.run /\ f.run \in Runs /\ f.body \in Items
    /\ conv' = conv /\ shown' = shown /\ Longer(stream', stream, f.body)
    /\ twin'.has = twin.has
TookState(f) ==
    /\ f.kind = "state" /\ f.run = conv.run /\ f.run \in Runs /\ f.body \in States
    /\ SameConv /\ conv'.state = f.body /\ (f.body # "error" => conv'.error = conv.error)
    /\ \/ f.body = "ready" /\ shown' = shown \o stream /\ stream' = <<>>
       \/ TextSame
    /\ twin'.has = twin.has
TookOther(f) ==
    /\ SameConv /\ (conv.error => conv'.error)
    /\ \/ f.kind = "ack" /\ f.run = conv.run /\ f.run \in Runs /\ f.body
          /\ conv'.state = "processing"
       \/ f.kind = "gone" /\ conv'.state = "disconnected"
       \/ conv'.state = conv.state /\ (Reply(f) => ~conv.pending)
    /\ twin'.has = twin.has /\ TextSame /\ ~Piece(f, conv.run)

\* A frame is read in one of these ways.
LEMMA FramesShape ==
    ASSUME Page = "twin", ~Crossing, Typed, PlainInv, Frames, NEW f, f = Head(down)
    PROVE  /\ UNCHANGED <<asked, sess, up, inbox>> /\ twin'.queued = twin.queued
           /\ down # <<>> /\ Shorter(down', down) /\ f = down[1] /\ f \in SetOf(down)
           /\ FrameOK(f)
           /\ \/ TookCreated(f) \/ TookDenied(f) \/ TookResponse(f) \/ TookState(f)
              \/ TookOther(f)
<1>1. /\ UNCHANGED <<asked, sess, up, inbox>> /\ down # <<>> /\ Shorter(down', down)
      /\ f = down[1] /\ f \in SetOf(down) /\ FrameOK(f)
  BY TakeTyped, HeadFrame DEF runner
<1>2. /\ conv \in Convs /\ stream \in Seq(Items) /\ twin \in [queued : 0 .. MaxAsks, has : BOOLEAN]
  BY Parts DEF Typed, PageOK
<1>3. CASE TakeCreated
  <2>1. f.kind = "created" /\ TextSame
    BY <1>3 DEF TakeCreated, Take, TextSame
  <2>2. f.body.id \in Runs /\ f.body.of \in Askers
    BY <1>1, <2>1 DEF FrameOK
  <2>3. CASE Asked /\ TaskIsMine(f)
    <3>1. conv' = [conv EXCEPT !.pending = FALSE, !.run = f.body.id]
          /\ twin' = [twin EXCEPT !.has = TRUE]
      BY <1>3, <2>3 DEF TakeCreated
    <3>4. f.body.of = "page"
      BY <1>1, <2>1, <2>2, <2>3 DEF Asked, TaskIsMine, Askers, Crossing, Alien
    <3>2. TookCreated(f)
      BY <1>2, <2>1, <2>2, <2>3, <3>1, <3>4, CreatedConv DEF TookCreated, Asked
    <3>3. twin'.queued = twin.queued
      BY <1>2, <3>1
    <3> QED BY <1>1, <3>2, <3>3
  <2>4. CASE ~(Asked /\ TaskIsMine(f))
    <3>1. UNCHANGED <<conv, twin>>
      BY <1>3, <2>4 DEF TakeCreated
    <3>2. TookOther(f)
      BY <2>1, <2>4, <3>1 DEF TookOther, SameConv, Reply, Asked, TaskIsMine, Piece
    <3> QED BY <1>1, <3>1, <3>2
  <2> QED BY <2>3, <2>4
<1>4. CASE TakeDenied
  <2>1. f.kind = "denied" /\ TextSame /\ twin' = twin
    BY <1>4 DEF TakeDenied, Take, TextSame
  <2>2. CASE conv.pending
    <3>1. conv' = [conv EXCEPT !.pending = FALSE, !.error = TRUE, !.state = "error"]
      BY <1>4, <2>2 DEF TakeDenied, Asked
    <3>3. f.body = "page"
      BY <1>1, <2>1, <2>2 DEF FrameOK, Crossing, Alien
    <3>2. TookDenied(f)
      BY <1>2, <2>1, <2>2, <3>1, <3>3, DeniedConv DEF TookDenied
    <3> QED BY <1>1, <2>1, <3>2
  <2>3. CASE ~conv.pending
    <3>1. conv' = conv
      BY <1>4, <2>3 DEF TakeDenied, Asked
    <3> QED BY <1>1, <2>1, <2>3, <3>1 DEF TookOther, SameConv, Piece
  <2> QED BY <2>2, <2>3
<1>5. CASE TakeResponse
  <2>1. /\ f.kind = "response" /\ Mine(f) /\ stream' = Append(stream, f.body)
        /\ UNCHANGED <<conv, shown, twin>>
    BY <1>5 DEF TakeResponse, Take
  <2>2. f.body \in Items /\ f.run \in Runs
    BY <1>1, <2>1 DEF FrameOK, RunKinds
  <2>3. Longer(stream', stream, f.body)
    BY <1>2, <2>1, <2>2, AppendSeq
  <2> QED BY <1>1, <2>1, <2>2, <2>3 DEF TookResponse, Mine
<1>6. CASE TakeState
  <2>1. /\ f.kind = "state" /\ Mine(f) /\ twin' = twin
        /\ conv' = [conv EXCEPT !.state = f.body, !.error = IF f.body = "error" THEN FALSE ELSE @]
    BY <1>6 DEF TakeState, Take
  <2>2. f.body \in States /\ f.run \in Runs
    BY <1>1, <2>1 DEF FrameOK, RunKinds
  <2>3. SameConv /\ conv'.state = f.body
    BY <1>2, <2>1, <2>2, StateConv
  <2>4. f.body # "error" => conv'.error = conv.error
    BY <1>2, <2>1 DEF Convs
  <2>5. \/ f.body = "ready" /\ shown' = shown \o stream /\ stream' = <<>>
        \/ TextSame
    BY <1>6 DEF TakeState, TextSame, Emptied
  <2> QED BY <1>1, <2>1, <2>2, <2>3, <2>4, <2>5 DEF TookState, Mine
<1>7. CASE /\ UNCHANGED <<shown, stream, twin>> /\ SameConv /\ (conv.error => conv'.error)
           /\ conv'.state = conv.state /\ ~Reply(f) /\ ~Piece(f, conv.run)
  BY <1>1, <1>7 DEF TookOther, TextSame
<1>8. CASE TakeAck
  <2>1. f.kind = "ack" /\ Mine(f) /\ UNCHANGED <<shown, stream, twin>>
    BY <1>8 DEF TakeAck, Take
  <2>2. f.run \in Runs
    BY <1>1, <2>1 DEF FrameOK, RunKinds
  <2>3. CASE f.body
    <3>1. conv' = [conv EXCEPT !.state = "processing"]
      BY <1>8, <2>3 DEF TakeAck
    <3>2. SameConv /\ conv'.state = "processing" /\ conv'.error = conv.error
      BY <1>2, <3>1 DEF Convs, SameConv
    <3> QED BY <1>1, <2>1, <2>2, <2>3, <3>2 DEF TookOther, TextSame, Mine, Piece
  <2>4. CASE ~f.body
    <3>1. conv' = [conv EXCEPT !.error = TRUE]
      BY <1>8, <2>4 DEF TakeAck
    <3>2. SameConv /\ conv'.state = conv.state /\ conv'.error
      BY <1>2, <3>1 DEF Convs, SameConv
    <3> QED BY <2>1, <3>2, <1>7 DEF Reply, Piece
  <2> QED BY <2>3, <2>4
<1>9. CASE TakeOutput
  <2>1. f.kind = "output"
    BY <1>9 DEF TakeOutput, Take
  <2> QED BY <1>1, <2>1 DEF PlainInv
<1>10. CASE TakeGenerated
  <2>1. f.kind = "generated" /\ UNCHANGED <<shown, stream, twin>>
        /\ conv' = [conv EXCEPT !.generating = WaitEnds]
    BY <1>10 DEF TakeGenerated, Take
  <2>2. SameConv /\ conv'.state = conv.state /\ conv'.error = conv.error
    BY <1>2, <2>1 DEF Convs, SameConv
  <2> QED BY <2>1, <2>2, <1>7 DEF Reply, Piece
<1>11. CASE TakeGone
  <2>1. f.kind = "gone" /\ UNCHANGED <<shown, stream, twin>>
        /\ conv' = [conv EXCEPT !.state = "disconnected"]
    BY <1>11 DEF TakeGone, Take
  <2>2. SameConv /\ conv'.state = "disconnected" /\ conv'.error = conv.error
    BY <1>2, <2>1 DEF Convs, SameConv
  <2> QED BY <1>1, <2>1, <2>2 DEF TookOther, TextSame, Piece
<1>12. CASE TakeSent
  <2>1. f.kind = "sent" /\ UNCHANGED <<shown, stream, twin>> /\ (conv' = conv \/ SettleReload(FALSE))
    BY <1>12 DEF TakeSent, Take
  <2> QED BY <1>2, <2>1, <1>7, SettleConv DEF SameConv, Reply, Piece
<1>13. CASE TakeRefused
  <2>1. f.kind = "refused" /\ UNCHANGED <<shown, stream, twin>>
        /\ (ReportRefusal \/ SettleReload(TRUE))
    BY <1>13 DEF TakeRefused, Take
  <2> QED BY <1>2, <2>1, <1>7, SettleConv, ReportConv DEF SameConv, Reply, Piece
<1>14. CASE TakeConnected
  <2>1. f.kind = "connected" /\ UNCHANGED <<shown, stream, twin, conv>>
    BY <1>14 DEF TakeConnected, Take
  <2> QED BY <2>1, <1>7 DEF SameConv, Reply, Piece
<1>15. CASE TakeForeign
  <2>1. f.kind \in RunKinds /\ ~Mine(f) /\ UNCHANGED <<shown, stream, twin, conv>>
    BY <1>15 DEF TakeForeign
  <2> QED BY <2>1, <1>7 DEF SameConv, Reply, RunKinds, Piece, Mine
<1> QED
  BY <1>3, <1>4, <1>5, <1>6, <1>8, <1>9, <1>10, <1>11, <1>12, <1>13, <1>14, <1>15 DEF Frames

\* Reading a frame is neither a delivery nor a grant.
LEMMA FramesOnly ==
    ASSUME Page = "twin", Typed, PlainInv, Frames
    PROVE  ~Deliver /\ ~Granting
<1>1. StateOK /\ Shorter(down', down) /\ inbox' = inbox
  BY TakeTyped, HeadFrame DEF Typed, runner
<1>2. Deliver => down' = down
  BY DEF Deliver
<1>3. Granting => Shorter(inbox', inbox)
  BY <1>1, ReadShape DEF Granting
<1> QED BY <1>1, <1>2, <1>3, Lengths DEF Shorter

\* A queued question is delivered: to a session created for it,
DeliveredNew(q) ==
    /\ conv'.run = None /\ conv'.pending = socket.open /\ conv'.state = "disconnected"
    /\ ~twin'.has
    /\ Longer(shown', shown, <<q, 0>>) /\ stream' = <<>>
    /\ \/ ~socket.open /\ up' = up
       \/ socket.open /\ Longer(up', up, Request("create", None, q))

\* or to the session of the question before.
DeliveredOn(q) ==
    /\ twin.has /\ ~conv.error /\ ~Ended(conv.state) /\ conv.state = "ready"
    /\ \/ conv.run = None /\ UNCHANGED <<conv, shown, stream, up>>
       \/ /\ conv.run \in Runs /\ SameConv /\ conv'.state = conv.state
          /\ Longer(shown', shown, <<q, 0>>) /\ stream' = <<>>
          /\ \/ ~socket.open /\ up' = up
             \/ socket.open /\ Longer(up', up, Request("message", conv.run, q))

\* A delivery is one of the two.
LEMMA DeliverShape ==
    ASSUME Typed, Deliver, NEW q, q = twin.queued
    PROVE  /\ q \in Asks /\ twin'.queued = 0
           /\ UNCHANGED <<asked, sess, inbox, down, socket>>
           /\ DeliveredNew(q) \/ DeliveredOn(q)
<1>1. q \in Asks /\ StateOK
  BY Numbers DEF Deliver, Typed, StateOK, Asks
<1>2. UNCHANGED <<asked, sess, inbox, down, socket>>
  BY DEF Deliver, runner
<1>3. twin' = [queued |-> 0, has |-> Has]
  BY DEF Deliver
<1>4. twin'.queued = 0 /\ twin'.has = Has
  BY <1>3
<1>5. CASE StartsAfresh /\ CreateSession(q)
  <2>1. ~Has
    BY <1>5 DEF StartsAfresh
  <2> QED BY <1>1, <1>2, <1>4, <1>5, <2>1, CreateShape DEF DeliveredNew
<1>6. CASE Has /\ conv.state = "ready" /\ SendMessage(q)
  <2>1. twin.has /\ ~conv.error /\ ~Ended(conv.state)
    BY <1>6 DEF Has, SessionGone, Failed, Ended
  <2> QED BY <1>1, <1>2, <1>4, <1>6, <2>1, MessageShape DEF DeliveredOn
<1> QED
  BY <1>5, <1>6 DEF Deliver

\* The requests on their way, and that a step puts no question among them.
Queued == SetOf(up) \cup SetOf(inbox)
Unasked ==
    /\ \A x \in Queued' : x \in Queued \/ x.kind = "state"
    /\ \A r : Alone(r) => Alone(r)'

\* Requests for the state are nobody's questions.
LEMMA AloneMore ==
    ASSUME StateOK, inbox' = inbox, Len(up') \in Nat,
           \A i \in 1 .. Len(up') :
             \/ i \in 1 .. Len(up) /\ up'[i] = up[i]
             \/ up'[i].kind = "state"
    PROVE  Unasked
<1>1. ASSUME NEW x \in SetOf(up') PROVE x \in SetOf(up) \/ x.kind = "state"
  BY DEF SetOf
<1>2. ASSUME NEW r, Alone(r) PROVE Alone(r)'
  <2>1. \A i \in 1 .. Len(up') : Ask(up'[i], r) => i \in 1 .. Len(up) /\ up'[i] = up[i]
    BY DEF Ask
  <2>2. \A i, j \in 1 .. Len(up') : Ask(up'[i], r) /\ Ask(up'[j], r) => i = j
    BY <1>2, <2>1 DEF Alone
  <2>3. \A x \in SetOf(up'), y \in SetOf(inbox') : ~(Ask(x, r) /\ Ask(y, r))
    BY <1>1, <1>2 DEF Alone, Ask
  <2> QED BY <1>2, <2>2, <2>3 DEF Alone
<1> QED
  BY <1>1, <1>2 DEF Unasked, Queued

\* A request moves on to the runner, or is refused.
LEMMA AloneRelay ==
    ASSUME StateOK, Len(up') \in Nat, Shorter(up', up),
           inbox' = inbox \/ Longer(inbox', inbox, up[1])
    PROVE  Unasked
<1>1. up[1] \in SetOf(up) /\ Len(inbox) \in Nat /\ Len(up) = Len(up') + 1
  BY Lengths DEF Shorter
<1>2. Queued' \subseteq Queued
  BY <1>1 DEF Shorter, Longer, Queued
<1>3. ASSUME NEW r, Alone(r) PROVE Alone(r)'
  <2>1. \A i \in 1 .. Len(up') : i + 1 \in 1 .. Len(up) /\ up'[i] = up[i + 1]
    BY <1>1 DEF Shorter
  <2>2. \A i, j \in 1 .. Len(up') : Ask(up'[i], r) /\ Ask(up'[j], r) => i = j
    BY <1>1, <1>3, <2>1 DEF Alone
  <2>3. \A i \in 1 .. Len(up') : ~(Ask(up'[i], r) /\ Ask(up[1], r))
    BY <1>1, <1>3, <2>1 DEF Alone
  <2>4. \A x \in SetOf(up') : ~(Ask(x, r) /\ Ask(up[1], r))
    BY <2>3 DEF SetOf
  <2>5. SetOf(up') \subseteq SetOf(up)
    BY DEF Shorter
  <2>6. CASE inbox' = inbox
    BY <1>3, <2>2, <2>5, <2>6 DEF Alone
  <2>7. CASE Longer(inbox', inbox, up[1])
    <3>1. \A y \in SetOf(inbox) : ~(Ask(y, r) /\ Ask(up[1], r))
      BY <1>1, <1>3 DEF Alone
    <3>2. \A i \in 1 .. Len(inbox') :
            \/ i \in 1 .. Len(inbox) /\ inbox'[i] = inbox[i] /\ inbox[i] \in SetOf(inbox)
            \/ i = Len(inbox) + 1 /\ inbox'[i] = up[1]
      BY <1>1, <2>7, Lengths DEF Longer
    <3>3. \A i, j \in 1 .. Len(inbox') : Ask(inbox'[i], r) /\ Ask(inbox'[j], r) => i = j
      BY <1>1, <1>3, <3>1, <3>2 DEF Alone
    <3>4. \A x \in SetOf(up'), y \in SetOf(inbox') : ~(Ask(x, r) /\ Ask(y, r))
      BY <1>3, <2>4, <2>5, <2>7 DEF Alone, Longer
    <3> QED BY <2>2, <3>3, <3>4 DEF Alone
  <2> QED BY <2>6, <2>7
<1> QED
  BY <1>2, <1>3 DEF Unasked

\* A request is read; if it asks, no other does.
LEMMA AloneRead ==
    ASSUME StateOK, up' = up, Len(inbox') \in Nat, Shorter(inbox', inbox)
    PROVE  /\ Unasked
           /\ \A r : Alone(r) /\ Ask(inbox[1], r) => ~Sought(r)'
<1>1. inbox[1] \in SetOf(inbox) /\ Len(inbox) = Len(inbox') + 1
  BY Lengths DEF Shorter
<1>2. Queued' \subseteq Queued
  BY <1>1 DEF Shorter, Queued
<1>3. \A i \in 1 .. Len(inbox') : i + 1 \in 1 .. Len(inbox) /\ inbox'[i] = inbox[i + 1]
  BY <1>1 DEF Shorter
<1>4. ASSUME NEW r, Alone(r) PROVE Alone(r)'
  <2>1. \A i, j \in 1 .. Len(inbox') : Ask(inbox'[i], r) /\ Ask(inbox'[j], r) => i = j
    BY <1>1, <1>3, <1>4 DEF Alone
  <2>2. SetOf(inbox') \subseteq SetOf(inbox)
    BY DEF Shorter
  <2> QED BY <1>4, <2>1, <2>2 DEF Alone
<1>5. ASSUME NEW r, Alone(r), Ask(inbox[1], r) PROVE ~Sought(r)'
  <2>1. \A i \in 1 .. Len(inbox') : ~Ask(inbox'[i], r)
    BY <1>1, <1>3, <1>5 DEF Alone
  <2>2. \A x \in SetOf(inbox') : ~Ask(x, r)
    BY <2>1 DEF SetOf
  <2>3. \A x \in SetOf(up) : ~Ask(x, r)
    BY <1>1, <1>5 DEF Alone
  <2> QED BY <2>2, <2>3 DEF Sought
<1> QED
  BY <1>2, <1>4, <1>5 DEF Unasked

\* What was published is lost.
LEMMA AloneFewer ==
    ASSUME SetOf(inbox') = {}, Len(inbox') = 0, up' = up
    PROVE  Unasked
  BY DEF Unasked, Queued, Alone

\* Only the delivery of a question asks.
LEMMA UnaskedStep ==
    ASSUME Page = "twin", Typed, [Step]_state, ~Deliver
    PROVE  Unasked
<1>0. StateOK /\ conv.loaded = None
  BY DEF Typed, OnePage
<1>1. CASE UNCHANGED <<up, inbox>>
  BY <1>1 DEF Unasked, Queued, Alone
<1>2. ASSUME NEW b \in BOOLEAN
      PROVE  /\ ReloadOf(b) \in Seq(Requests)
             /\ \A i \in 1 .. Len(ReloadOf(b)) : ReloadOf(b)[i].kind = "state"
  <2> DEFINE s == ReloadOf(b)
  <2>1. s \in Seq(Requests) /\ \A x \in SetOf(s) : x.kind = "state"
    BY <1>0, <1>2, ReloadShape
  <2> HIDE DEF s
  <2>2. \A i \in 1 .. Len(s) : s[i] \in SetOf(s)
    BY <2>1, SeqFacts
  <2> QED BY <2>1, <2>2 DEF s
<1>3. CASE Opens
  <2>1. up' = ReloadOf(admitted) /\ inbox' = inbox /\ admitted \in BOOLEAN
    BY <1>0, <1>3 DEF Opens, runner, StateOK
  <2>2. Len(up') \in Nat /\ \A i \in 1 .. Len(up') : up'[i].kind = "state"
    <3> DEFINE s == ReloadOf(admitted)
    <3>1. s \in Seq(Requests) /\ \A i \in 1 .. Len(s) : s[i].kind = "state"
      BY <1>2, <2>1
    <3> HIDE DEF s
    <3>2. Len(s) \in Nat
      BY <3>1
    <3> QED BY <2>1, <3>1, <3>2 DEF s
  <2> QED BY <1>0, <2>1, <2>2, AloneMore
<1>4. CASE Drops
  <2>1. up' = <<>> /\ inbox' = inbox /\ Len(<<>>) = 0
    BY <1>4 DEF Drops, runner
  <2> QED BY <1>0, <2>1, AloneMore
<1>5. CASE RetryFires
  <2> DEFINE s == ReloadOf(TRUE)
  <2>1. s \in Seq(Requests) /\ \A i \in 1 .. Len(s) : s[i].kind = "state"
    <3>1. PICK b \in BOOLEAN : b = TRUE
      OBVIOUS
    <3> DEFINE t == ReloadOf(b)
    <3>2. t \in Seq(Requests) /\ \A i \in 1 .. Len(t) : t[i].kind = "state"
      BY <1>2
    <3>3. t = s
      BY <3>1, Zenon
    <3> HIDE DEF t, s
    <3> QED BY <3>2, <3>3
  <2>2. up' = up \o s /\ inbox' = inbox
    BY <1>5 DEF RetryFires, runner
  <2> HIDE DEF s
  <2>3. up \in Seq(Requests)
    BY <1>0 DEF StateOK
  <2>4. Len(up \o s) = Len(up) + Len(s) /\ Len(up) \in Nat /\ Len(s) \in Nat
    BY <2>1, <2>3
  <2>5. \A i \in 1 .. Len(up) : (up \o s)[i] = up[i]
    BY <2>1, <2>3, ConcatSeq
  <2>6. \A i \in Len(up) + 1 .. Len(up) + Len(s) : (up \o s)[i] = s[i - Len(up)]
    BY <2>1, <2>3, ConcatSeq
  <2> DEFINE u == up \o s
  <2>7. Len(u) \in Nat /\ \A i \in 1 .. Len(u) :
          (i \in 1 .. Len(up) /\ u[i] = up[i]) \/ u[i].kind = "state"
    <3>1. Len(u) = Len(up) + Len(s) /\ \A i \in 1 .. Len(up) : u[i] = up[i]
      BY <2>4, <2>5
    <3>2. \A i \in Len(up) + 1 .. Len(up) + Len(s) : u[i] = s[i - Len(up)]
      BY <2>6
    <3>3. \A i \in 1 .. Len(up) + Len(s) : i \in 1 .. Len(up) \/
            (i \in Len(up) + 1 .. Len(up) + Len(s) /\ i - Len(up) \in 1 .. Len(s))
      BY <2>4
    <3> HIDE DEF u
    <3>4. \A i \in 1 .. Len(u) : (i \in 1 .. Len(up) /\ u[i] = up[i]) \/ u[i].kind = "state"
      BY <2>1, <3>1, <3>2, <3>3
    <3> QED BY <2>4, <3>1, <3>4
  <2> HIDE DEF u
  <2> QED BY <1>0, <2>2, <2>7, AloneMore DEF u
<1>6. CASE RelayReads
  <2>1. Shorter(up', up) /\ up' \in Seq(Requests)
        /\ (inbox' = inbox \/ Longer(inbox', inbox, up[1]))
    BY <1>0, <1>6, RelayShape
  <2>2. Len(up') \in Nat
    BY <2>1, SeqFacts
  <2> QED BY <1>0, <2>1, <2>2, AloneRelay
<1>7. CASE RunnerReads
  <2>1. Shorter(inbox', inbox) /\ inbox' \in Seq(Requests) /\ up' = up
    BY <1>0, <1>7, ReadShape
  <2>2. Len(inbox') \in Nat
    BY <2>1, SeqFacts
  <2> QED BY <1>0, <2>1, <2>2, AloneRead
<1>8. CASE RunnerLeaves
  <2>1. inbox' = <<>> /\ up' = up /\ SetOf(<<>>) = {} /\ Len(<<>>) = 0
    BY <1>8, LeavesShape DEF SetOf
  <2> QED BY <2>1, AloneFewer
<1>9. CASE \E r \in Runs : Works(r) \/ SessionFails(r)
  BY <1>1, <1>9 DEF Works, SessionFails
<1>10. CASE Frames
  BY <1>1, <1>10, TakeTyped DEF runner
<1>11. CASE OtherCreates \/ RunnerReturns \/ Submit \/ Forget \/ UNCHANGED state
  BY <1>1, <1>11 DEF OtherCreates, RunnerReturns, Submit, Forget, state, net, runner
<1> QED
  BY <1>3, <1>4, <1>5, <1>6, <1>7, <1>8, <1>9, <1>10, <1>11, TwinSteps DEF RunnerSide, UserSide

\* No transcript is ever on its way to a page of the twin.
LEMMA PlainStep ==
    ASSUME Page = "twin", ~Crossing, Typed, KnownInv, PlainInv, [Step]_state
    PROVE  PlainInv'
<1>1. \A f \in SetOf(down') : f.kind # "output"
  <2>1. CASE down' = down
    BY <2>1 DEF PlainInv
  <2>2. CASE Shorter(down', down)
    BY <2>2 DEF Shorter, PlainInv
  <2>3. CASE \A g \in SetOf(down') : g.kind = "connected"
    BY <2>3
  <2>4. CASE \E f : Longer(down', down, f) /\ Says(f)
    BY <2>4 DEF Longer, Says, PlainInv
  <2> QED BY <2>1, <2>2, <2>3, <2>4, DownStep DEF DownSays
<1>2. CASE ~Deliver
  <2>1. \A x \in Queued' : x \in Queued \/ x.kind = "state"
    BY <1>2, UnaskedStep DEF Unasked
  <2>2. \A x \in SetOf(up') \cup SetOf(inbox') : x.kind # "output"
    BY <2>1 DEF Queued, PlainInv
  <2> QED BY <1>1, <2>2 DEF PlainInv
<1>3. CASE Deliver
  <2> DEFINE q == twin.queued
  <2>1. inbox' = inbox /\ \/ up' = up
                          \/ Longer(up', up, Request("create", None, q))
                          \/ Longer(up', up, Request("message", conv.run, q))
    BY <1>3, DeliverShape DEF DeliveredNew, DeliveredOn
  <2>2. Request("create", None, q).kind = "create"
        /\ Request("message", conv.run, q).kind = "message"
    BY DEF Request
  <2>3. \A x \in SetOf(up') \cup SetOf(inbox') : x.kind # "output"
    BY <2>1, <2>2 DEF PlainInv, Longer
  <2> QED BY <1>1, <2>3 DEF PlainInv
<1> QED BY <1>2, <1>3

\* No reply to a create joins those on the wire.
NoReplies ==
    \/ down' = down
    \/ Shorter(down', down)
    \/ \A g \in SetOf(down') : ~Reply(g)
    \/ \E f : Longer(down', down, f) /\ ~Reply(f)
\* There is at most one.
OneReply == \A i, j \in 1 .. Len(down) : Reply(down[i]) /\ Reply(down[j]) => i = j

\* Replies that are no more than there were.
LEMMA RepliesKept ==
    ASSUME StateOK, StateOK', OneReply, NoReplies
    PROVE  OneReply' /\ (Replied' => Replied)
<1>0. Len(down) \in Nat /\ Len(down') \in Nat
      /\ \A i \in 1 .. Len(down') : down'[i] \in SetOf(down')
  BY Lengths, DownLength
<1>1. CASE down' = down
  BY <1>1 DEF OneReply, Replied
<1>2. CASE Shorter(down', down)
  <2>1. \A i \in 1 .. Len(down') : i + 1 \in 1 .. Len(down) /\ down'[i] = down[i + 1]
    BY <1>0, <1>2 DEF Shorter
  <2>2. ASSUME NEW i \in 1 .. Len(down'), NEW j \in 1 .. Len(down'),
               Reply(down'[i]), Reply(down'[j])
        PROVE  i = j
    <3>1. i + 1 = j + 1
      BY <2>1, <2>2 DEF OneReply
    <3> QED BY <3>1, <1>0
  <2>3. Replied' => Replied
    BY <1>2 DEF Replied, Shorter
  <2> QED BY <2>2, <2>3 DEF OneReply
<1>3. CASE \A g \in SetOf(down') : ~Reply(g)
  BY <1>0, <1>3 DEF OneReply, Replied
<1>4. CASE \E f : Longer(down', down, f) /\ ~Reply(f)
  <2>1. PICK f : Longer(down', down, f) /\ ~Reply(f)
    BY <1>4
  <2>2. \A i \in 1 .. Len(down') : Reply(down'[i]) => i \in 1 .. Len(down) /\ down'[i] = down[i]
    BY <1>0, <2>1 DEF Longer
  <2> QED BY <2>1, <2>2 DEF OneReply, Replied, Longer
<1> QED BY <1>1, <1>2, <1>3, <1>4 DEF NoReplies

\* A step that neither asks for a session nor answers.
LEMMA CreateQuiet ==
    ASSUME StateOK, StateOK', CreateInv, Unasked, NoReplies, Last' = Last,
           conv.pending => /\ conv'.pending /\ conv'.run = conv.run
                           /\ conv'.state = "disconnected" /\ twin'.queued = twin.queued
                           /\ \A x \in Texts' : x \in Texts,
           conv'.pending => conv.pending,
           twin'.has => twin.has /\ conv'.run = conv.run
    PROVE  CreateInv'
<1>1. OneReply' /\ (Replied' => Replied)
  BY RepliesKept DEF CreateInv, OneCreate, OneReply
<1>2. \A x \in Queued' : Ask(x, None) => x \in Queued
  BY DEF Unasked, Ask
<1>3. Sought(None)' => Sought(None)
  BY <1>2 DEF Sought, Queued
<1>4. OneCreate'
  BY <1>1, <1>2, <1>3 DEF OneCreate, OneReply, Unasked, CreateInv, Queued
<1>5. conv'.pending => Unanswered'
  <2>1. conv.pending => Unanswered
    BY DEF CreateInv
  <2>2. conv.pending => \A x \in Texts' : x \in Texts
    OBVIOUS
  <2> DEFINE T == Texts'
  <2>3. conv.pending => \A x \in T : x[1] = Last => x[2] = 0
    BY <2>1, <2>2 DEF Unanswered
  <2> QED BY <2>3 DEF Unanswered
<1> QED
  BY <1>1, <1>3, <1>4, <1>5 DEF CreateInv

\* Down the wire go only replies that were granted.
LEMMA RepliesStep ==
    ASSUME Page = "twin", ~Crossing, Typed, KnownInv, PlainInv, [Step]_state,
           ~Granting
    PROVE  NoReplies
<1>1. CASE \A g \in SetOf(down') : g.kind = "connected"
  BY <1>1 DEF NoReplies, Reply
<1>2. CASE \E f : Longer(down', down, f) /\ Says(f)
  BY <1>2 DEF NoReplies, Says
<1> QED BY <1>1, <1>2, DownStep DEF DownSays, NoReplies

\* The runner creates a session, or refuses to.
LEMMA CreateGrant ==
    ASSUME Page = "twin", ~Crossing, Typed, Typed', KnownInv, PlainInv, CreateInv,
           Granting, [Step]_state
    PROVE  CreateInv'
<1>0. StateOK /\ StateOK' /\ PageSame
  BY RunnerPage DEF Typed, RunnerSide, Granting
<1>1. /\ Shorter(inbox', inbox) /\ inbox' \in Seq(Requests) /\ up' = up
      /\ Head(inbox) = inbox[1] /\ Head(inbox) \in SetOf(inbox) /\ Head(inbox) \in Requests
  BY <1>0, ReadShape DEF Granting
<1>2. Ask(inbox[1], None) /\ Sought(None)
  BY <1>1, RequestKinds DEF Ask, Granting, Sought
<1>3. Alone(None) /\ ~Replied /\ conv.pending /\ OneReply
  BY <1>2 DEF CreateInv, OneCreate, OneReply
<1>4. Unasked /\ ~Sought(None)'
  <2>1. Len(inbox') \in Nat
    BY <1>1, SeqFacts
  <2> QED BY <1>0, <1>1, <1>2, <1>3, <2>1, AloneRead
<1>5. OneReply'
  <2>0. /\ Len(down) \in Nat /\ Len(down') \in Nat
        /\ \A i \in 1 .. Len(down') : down'[i] \in SetOf(down')
        /\ \A i \in 1 .. Len(down) : ~Reply(down[i])
    BY <1>0, <1>3, Lengths, DownLength DEF Replied
  <2>1. CASE down' = down \/ Shorter(down', down) \/ \A g \in SetOf(down') : g.kind = "connected"
    <3>1. NoReplies
      BY <2>1 DEF NoReplies, Reply
    <3> QED BY <1>0, <1>3, <3>1, RepliesKept
  <2>2. CASE \E f : Longer(down', down, f)
    <3>1. PICK f : Longer(down', down, f)
      BY <2>2
    <3>2. \A i \in 1 .. Len(down') : Reply(down'[i]) => i = Len(down) + 1
      BY <2>0, <3>1 DEF Longer
    <3> QED BY <3>2 DEF OneReply
  <2> QED BY <2>1, <2>2, DownStep DEF DownSays
<1>6. \A x \in SetOf(up') \cup SetOf(inbox') : ~Ask(x, None)
  BY <1>4 DEF Sought
<1>7. OneCreate'
  BY <1>3, <1>4, <1>5, <1>6 DEF OneCreate, OneReply, Unasked
<1>8. /\ conv' = conv /\ twin' = twin /\ shown' = shown /\ stream' = stream /\ asked' = asked
  BY <1>0 DEF PageSame
<1>9. Texts' = Texts /\ Last' = Last
  BY <1>8 DEF Texts, Last
<1>10. Unanswered'
  BY <1>3, <1>9 DEF Unanswered, CreateInv
<1> QED
  BY <1>3, <1>7, <1>8, <1>10 DEF CreateInv

\* The question last shown changes with its delivery.
LEMMA LastKept ==
    ASSUME Page = "twin", ~Crossing, Typed, PlainInv, TextInv, [Step]_state, ~Deliver
    PROVE  Last' = Last /\ twin'.queued \in {0, asked'}
<1>0. asked \in Nat /\ twin.queued \in {0, asked}
  BY Numbers DEF Typed, StateOK, TextInv
<1>1. CASE asked' = asked /\ twin'.queued = twin.queued
  BY <1>0, <1>1 DEF Last
<1>2. CASE Submit
  <2>1. asked' = asked + 1 /\ twin'.queued = asked + 1 /\ twin.queued = 0
    BY <1>2 DEF Submit, Busy, Typed, StateOK
  <2> QED BY <1>0, <2>1 DEF Last
<1>3. CASE UNCHANGED state \/ Drops \/ Forget
  <2>1. asked' = asked /\ (twin' = twin \/ twin' = [twin EXCEPT !.has = FALSE])
    BY <1>3 DEF state, page, Drops, Forget
  <2>2. twin'.queued = twin.queued
    BY <2>1 DEF Typed, StateOK
  <2> QED BY <1>1, <2>1, <2>2
<1>4. CASE RunnerSide
  BY <1>1, <1>4, RunnerPage DEF PageSame
<1>5. CASE Frames
  BY <1>1, <1>5, FramesShape
<1> QED BY <1>2, <1>3, <1>4, <1>5, TwinSteps DEF UserSide

\* A question is delivered when it is the one asked last.
LEMMA DeliverLast ==
    ASSUME Typed, TextInv, Deliver
    PROVE  /\ Last' = twin.queued /\ Last = twin.queued - 1 /\ twin'.queued = 0
           /\ twin.queued = asked /\ twin.queued \in Asks /\ asked \in Nat
<1>1. twin.queued \in Asks /\ twin'.queued = 0 /\ asked' = asked
  BY DeliverShape
<1>2. twin.queued # 0 /\ asked \in Nat
  BY <1>1, Numbers DEF Asks, Typed, StateOK
<1> QED BY <1>1, <1>2 DEF Last, TextInv


\* Placed, of the two sequences.
LEMMA PlacedIs ==
    /\ Placed <=> PlacedIn(shown, stream)
    /\ Placed' <=> PlacedIn(shown', stream')
<1>1. Placed <=> PlacedIn(shown, stream)
  BY DEF Placed, LastAsk, PlacedIn, Heads, Mark
<1>2. Placed' <=> PlacedIn(shown', stream')
  BY DEF Placed, LastAsk, PlacedIn, Heads, Mark
<1> QED BY <1>1, <1>2

\* A question before is the last one still, in a sequence that begins the same
\* and goes on in pieces.
LEMMA HeadsLonger ==
    ASSUME NEW s, NEW u, NEW n \in Nat, NEW k \in Nat, NEW q, n <= k,
           \A i \in 1 .. n : u[i] = s[i], \A i \in n + 1 .. k : u[i][2] > 0, Heads(s, n, q)
    PROVE  Heads(u, k, q)
<1>1. PICK i \in 1 .. n : Mark(s, n, i) /\ s[i][1] = q
  BY DEF Heads
<1>2. i \in 1 .. k /\ u[i][1] = q /\ u[i][2] = 0
  BY <1>1 DEF Mark
<1>3. \A j \in i + 1 .. k : u[j][2] > 0
  <2> TAKE j \in i + 1 .. k
  <2>1. j \in i + 1 .. n \/ j \in n + 1 .. k
    OBVIOUS
  <2>2. CASE j \in i + 1 .. n
    BY <1>1, <2>2 DEF Mark
  <2> QED BY <2>1, <2>2
<1> QED BY <1>2, <1>3 DEF Heads, Mark

\* What is shown: the stream is flushed,
LEMMA FlushPlaced ==
    ASSUME NEW s \in Seq(Items), NEW t \in Seq(Items), NEW u, u = s \o t, PlacedIn(s, t),
           \A x \in SetOf(t) : x[2] > 0
    PROVE  /\ PlacedIn(u, <<>>) /\ SetOf(u) = SetOf(s) \cup SetOf(t)
           /\ \A q : Heads(s, Len(s), q) => Heads(u, Len(u), q)
<1>1. Len(s) \in Nat /\ Len(t) \in Nat /\ SetOf(<<>>) = {}
  BY SeqFacts
<1>2. Len(s \o t) = Len(s) + Len(t)
  OBVIOUS
<1>3. \A i \in 1 .. Len(s) : (s \o t)[i] = s[i]
  BY ConcatSeq
<1>4. \A i \in Len(s) + 1 .. Len(s) + Len(t) : (s \o t)[i] = t[i - Len(s)]
  BY ConcatSeq
<1>5. SetOf(s \o t) = SetOf(s) \cup SetOf(t)
  BY ConcatSeq
<1> DEFINE m == Len(s)
           n == Len(t)
<1>6. m \in Nat /\ n \in Nat /\ Len(u) = m + n /\ \A i \in 1 .. m : u[i] = s[i]
  BY <1>1, <1>2, <1>3
<1>7. \A i \in m + 1 .. m + n : u[i] \in SetOf(t)
  <2> TAKE i \in m + 1 .. m + n
  <2>1. i - m \in 1 .. n /\ u[i] = t[i - m]
    BY <1>1, <1>4
  <2> QED BY <2>1, SeqFacts
<1>8. PlacedIn(s, t) <=> /\ \A k \in 1 .. m : Heads(s, k, s[k][1])
                         /\ \A x \in SetOf(t) : Heads(s, m, x[1])
  BY DEF PlacedIn
<1> HIDE DEF m, n
<1>9. ASSUME NEW q, Heads(s, m, q), NEW k \in m .. m + n PROVE Heads(u, k, q)
  <2>1. k \in Nat /\ m <= k /\ \A i \in m + 1 .. k : u[i][2] > 0
    BY <1>6, <1>7, <1>9
  <2> QED BY <1>6, <1>9, <2>1, HeadsLonger
<1>10. ASSUME NEW k \in 1 .. m + n PROVE Heads(u, k, u[k][1])
  <2>1. k \in 1 .. m \/ k \in m + 1 .. m + n
    BY <1>6
  <2>2. CASE k \in 1 .. m
    <3>1. k \in Nat /\ k <= k /\ (\A i \in 1 .. k : u[i] = s[i]) /\ \A i \in k + 1 .. k : u[i][2] > 0
      BY <1>6, <2>2
    <3>2. Heads(s, k, s[k][1]) /\ u[k] = s[k]
      BY <1>6, <1>8, <2>2
    <3>3. Heads(u, k, s[k][1])
      <4> DEFINE q == s[k][1]
      <4>1. Heads(s, k, q)
        BY <3>2
      <4> HIDE DEF q
      <4>2. Heads(u, k, q)
        BY <3>1, <4>1, HeadsLonger
      <4> QED BY <4>2 DEF q
    <3> QED BY <3>2, <3>3
  <2>3. CASE k \in m + 1 .. m + n
    BY <1>6, <1>7, <1>8, <1>9, <2>3
  <2> QED BY <2>1, <2>2, <2>3
<1>11. PlacedIn(u, <<>>)
  BY <1>1, <1>6, <1>10 DEF PlacedIn
<1>12. m + n \in m .. m + n
  BY <1>6
<1>13. \A q : Heads(s, m, q) => Heads(u, Len(u), q)
  BY <1>6, <1>9, <1>12
<1> QED BY <1>5, <1>11, <1>13 DEF m

\* a piece of the last question comes,
LEMMA PiecePlaced ==
    ASSUME NEW s, NEW t, NEW u, NEW x, Longer(u, t, x), PlacedIn(s, t), Heads(s, Len(s), x[1])
    PROVE  PlacedIn(s, u)
  BY DEF PlacedIn, Longer

\* a question is asked.
LEMMA AskPlaced ==
    ASSUME NEW s \in Seq(Items), NEW t, NEW u, NEW x, Longer(u, s, x), PlacedIn(s, t), x[2] = 0
    PROVE  PlacedIn(u, <<>>) /\ Heads(u, Len(u), x[1])
<1> DEFINE m == Len(s)
<1>1. m \in Nat /\ Len(u) = m + 1 /\ SetOf(<<>>) = {} /\ u[m + 1] = x
      /\ \A i \in 1 .. m : u[i] = s[i]
  BY SeqFacts DEF Longer
<1>2. \A k \in 1 .. m : Heads(s, k, s[k][1])
  BY DEF PlacedIn
<1> HIDE DEF m
<1>3. Heads(u, m + 1, x[1])
  <2>1. Mark(u, m + 1, m + 1) /\ m + 1 \in 1 .. m + 1
    BY <1>1 DEF Mark
  <2> QED BY <1>1, <2>1 DEF Heads
<1>4. ASSUME NEW k \in 1 .. m + 1 PROVE Heads(u, k, u[k][1])
  <2>1. CASE k \in 1 .. m
    <3>1. k \in Nat /\ k <= k /\ (\A i \in 1 .. k : u[i] = s[i]) /\ \A i \in k + 1 .. k : u[i][2] > 0
      BY <1>1, <2>1
    <3>2. Heads(s, k, s[k][1]) /\ u[k] = s[k]
      BY <1>1, <1>2, <2>1
    <3>3. Heads(u, k, s[k][1])
      <4> DEFINE q == s[k][1]
      <4>1. Heads(s, k, q)
        BY <3>2
      <4> HIDE DEF q
      <4>2. Heads(u, k, q)
        BY <3>1, <4>1, HeadsLonger
      <4> QED BY <4>2 DEF q
    <3> QED BY <3>2, <3>3
  <2>2. CASE k = m + 1
    BY <1>1, <1>3, <2>2
  <2> QED BY <1>1, <2>1, <2>2
<1> QED BY <1>1, <1>3, <1>4 DEF PlacedIn

\* The page's text, and what it says of the last question.
TextKept ==
    /\ PlacedIn(shown, stream)
    /\ \A x \in Texts : x[1] <= Last
    /\ \A x \in SetOf(stream) : x[1] = Last /\ x[2] > 0
    /\ Last > 0 => Heads(shown, Len(shown), Last)

\* Nothing is said, or the stream is flushed.
LEMMA TextSteady ==
    ASSUME StateOK, TextKept, Last' = Last,
           (shown' = shown /\ stream' = stream) \/ (shown' = shown \o stream /\ stream' = <<>>)
    PROVE  TextKept' /\ Texts' = Texts
<1>1. CASE shown' = shown /\ stream' = stream
  BY <1>1 DEF TextKept, Texts
<1>2. CASE shown' = shown \o stream /\ stream' = <<>>
  <2>1. PICK S, T : S = shown' /\ T = stream'
    OBVIOUS
  <2>2. S = shown \o stream /\ T = <<>> /\ SetOf(<<>>) = {}
    BY <1>2, <2>1 DEF SetOf
  <2>3. /\ PlacedIn(S, <<>>) /\ SetOf(S) = SetOf(shown) \cup SetOf(stream)
        /\ \A q : Heads(shown, Len(shown), q) => Heads(S, Len(S), q)
    <3>1. shown \in Seq(Items) /\ stream \in Seq(Items) /\ PlacedIn(shown, stream)
          /\ \A x \in SetOf(stream) : x[2] > 0
      BY DEF StateOK, TextKept
    <3> QED BY <2>2, <3>1, FlushPlaced
  <2>4. Texts' = Texts
    BY <2>1, <2>2, <2>3 DEF Texts
  <2>5. PlacedIn(shown', stream')
    BY <2>1, <2>2, <2>3
  <2>6. Last > 0 => Heads(shown', Len(shown'), Last)
    BY <2>1, <2>3 DEF TextKept
  <2>7. \A x \in SetOf(stream') : FALSE
    BY <2>1, <2>2
  <2>8. \A x \in Texts' : x[1] <= Last
    BY <2>4 DEF TextKept
  <2> QED BY <2>4, <2>5, <2>6, <2>7, <2>8 DEF TextKept
<1> QED BY <1>1, <1>2

\* A piece of the last question.
LEMMA TextPiece ==
    ASSUME TextKept, Last' = Last, Last \in Nat, Last > 0, NEW x, x[1] = Last, x[2] > 0,
           shown' = shown, Longer(stream', stream, x)
    PROVE  TextKept' /\ Texts' = Texts \cup {x}
<1>1. SetOf(stream') = SetOf(stream) \cup {x} /\ Texts' = Texts \cup {x}
  BY DEF Longer, Texts
<1>2. PlacedIn(shown, stream')
  <2>1. PICK T : T = stream'
    OBVIOUS
  <2> QED BY <2>1, PiecePlaced DEF TextKept
<1> QED BY <1>1, <1>2 DEF TextKept

\* A question.
LEMMA TextAsk ==
    ASSUME StateOK, TextKept, NEW q \in Nat, q > 0, Last' = q, Last \in Nat, Last = q - 1,
           Longer(shown', shown, <<q, 0>>), stream' = <<>>
    PROVE  TextKept' /\ \A x \in Texts' : x \in Texts \/ x = <<q, 0>>
<1>1. PICK S, T : S = shown' /\ T = stream'
  OBVIOUS
<1> DEFINE y == <<q, 0>>
<1>2. y[1] = q /\ y[2] = 0 /\ Longer(S, shown, y) /\ T = <<>> /\ SetOf(<<>>) = {}
  BY <1>1 DEF SetOf
<1> HIDE DEF y
<1>3. PlacedIn(S, T) /\ Heads(S, Len(S), q)
  BY <1>2, AskPlaced DEF StateOK, TextKept
<1>4. SetOf(S) = SetOf(shown) \cup {y} /\ SetOf(T) = {}
  BY <1>2 DEF Longer
<1>5. \A x \in Texts' : x \in Texts \/ x = y
  BY <1>1, <1>4 DEF Texts
<1>6. \A x \in Texts' : x[1] <= q
  <2>1. \A x \in Texts : x[1] <= q - 1 /\ x[1] \in Nat
    <3>1. \A x \in Texts : x \in Items
      BY SeqFacts DEF StateOK, Texts
    <3>2. \A x \in Items : x[1] \in Nat
      BY Numbers DEF Items
    <3> QED BY <3>1, <3>2 DEF TextKept
  <2> QED BY <1>2, <1>5, <2>1
<1>7. PlacedIn(shown', stream') /\ Heads(shown', Len(shown'), q)
  BY <1>1, <1>3
<1>8. \A x \in SetOf(stream') : FALSE
  BY <1>1, <1>4
<1> QED BY <1>5, <1>6, <1>7, <1>8 DEF TextKept, y

\* What the page shows, in terms of the two sequences.
LEMMA TextIs ==
    /\ Placed /\ TextInv => TextKept
    /\ TextKept' /\ twin'.queued \in {0, asked'}
       /\ (Last' = 0 => conv'.run = None /\ ~conv'.pending) => Placed' /\ TextInv'
<1>1. Placed /\ TextInv => TextKept
  BY PlacedIs DEF TextInv, TextKept
<1>2. ASSUME TextKept', twin'.queued \in {0, asked'},
             Last' = 0 => conv'.run = None /\ ~conv'.pending
      PROVE  Placed' /\ TextInv'
  <2>1. PlacedIn(shown', stream')
    BY <1>2 DEF TextKept
  <2>2. Placed'
    BY <2>1, PlacedIs
  <2> QED BY <1>2, <2>2 DEF TextInv, TextKept
<1> QED BY <1>1, <1>2

\* What a step adds to the text: a delivered question, or a piece that was on
\* its way; only a delivery takes any away.
TextNews ==
    /\ \A x \in Texts' : x \in Texts \/ (Deliver /\ x = <<Last', 0>>)
                         \/ (Frames /\ Piece(Head(down), conv.run) /\ x = Head(down).body)
    /\ ~Deliver => Texts \subseteq Texts'

\* A frame shows nothing but the next piece of the last question.
LEMMA TextFrames ==
    ASSUME Page = "twin", ~Crossing, Typed, KnownInv, PlaceInv, Frames, Last' = Last
    PROVE  /\ TextKept' /\ TextNews /\ (Last' = 0 => conv'.run = None /\ ~conv'.pending)
           /\ Piece(Head(down), conv.run) => Head(down).body \in Texts'
<1> DEFINE f == Head(down)
<1>1. /\ f \in SetOf(down) /\ FrameOK(f)
      /\ \/ TookCreated(f) \/ TookDenied(f) \/ TookResponse(f) \/ TookState(f) \/ TookOther(f)
  BY FramesShape DEF PlaceInv
<1>2. StateOK /\ TextKept /\ Last \in Nat /\ (Last = 0 => conv.run = None /\ ~conv.pending)
  <2>1. TextInv /\ Placed /\ StateOK
    BY DEF PlaceInv, Typed
  <2> QED BY <2>1, LastNumber, Numbers, TextIs DEF TextInv
<1>3. ~TookResponse(f) /\ Last' = 0 => conv'.run = None /\ ~conv'.pending
  BY <1>1, <1>2 DEF TookCreated, TookDenied, TookState, TookOther, SameConv
<1>4. ~TookResponse(f) =>
        \/ shown' = shown /\ stream' = stream
        \/ shown' = shown \o stream /\ stream' = <<>>
  BY <1>1 DEF TookCreated, TookDenied, TookState, TookOther, TextSame
<1>5. ~TookResponse(f) => ~Piece(f, conv.run)
  BY <1>1 DEF TookCreated, TookDenied, TookState, TookOther, Piece
<1>6. CASE ~TookResponse(f)
  <2>1. TextKept' /\ Texts' = Texts
    BY <1>2, <1>4, <1>6, TextSteady
  <2> QED BY <1>3, <1>5, <1>6, <2>1 DEF TextNews
<1>7. CASE TookResponse(f)
  <2>1. Piece(f, conv.run) /\ conv.run \in Runs /\ Chosen(conv.run)
    BY <1>7 DEF TookResponse, Piece, Chosen
  <2>2. InOrder(conv.run)
    BY <2>1 DEF PlaceInv, PieceInv, Fits
  <2>3. f.body[1] = Last /\ f.body[2] > 0
    BY <1>1, <2>1, <2>2 DEF InOrder
  <2>4. conv.run # None /\ conv' = conv /\ Last > 0
    BY <1>2, <1>7, <2>1, Numbers DEF TookResponse
  <2>5. TextKept' /\ Texts' = Texts \cup {f.body}
    BY <1>2, <1>7, <2>3, <2>4, TextPiece DEF TookResponse
  <2> QED BY <1>7, <2>1, <2>4, <2>5 DEF TextNews
<1> QED BY <1>6, <1>7

\* A question is delivered.
LEMMA TextDeliver ==
    ASSUME Page = "twin", Typed, PlaceInv, Deliver, NEW q, q = twin.queued
    PROVE  /\ TextKept' /\ TextNews /\ q > 0 /\ q \in Asks /\ q \in Nat
           /\ Last \in Nat /\ q = Last + 1 /\ q = asked /\ Last' = q
           /\ DeliveredNew(q) \/ (DeliveredOn(q) /\ conv.run \in Runs)
           /\ twin'.queued = 0 /\ asked' = asked /\ stream' = <<>>
           /\ UNCHANGED <<sess, inbox, down, socket>>
<1>1. StateOK /\ TextKept /\ TextInv /\ CreateInv
  BY TextIs DEF PlaceInv, Typed
<1>3. /\ q \in Asks /\ twin'.queued = 0 /\ asked' = asked /\ UNCHANGED <<sess, inbox, down, socket>>
      /\ DeliveredNew(q) \/ DeliveredOn(q)
  BY DeliverShape
<1>4. Last' = q /\ Last = q - 1 /\ q = asked /\ q \in Nat /\ q > 0 /\ Last \in Nat
  BY <1>1, <1>3, DeliverLast, Numbers DEF Asks
<1>5. Longer(shown', shown, <<q, 0>>) /\ stream' = <<>>
      /\ (DeliveredOn(q) => conv.run \in Runs)
  BY <1>1, <1>3 DEF DeliveredNew, DeliveredOn, CreateInv
<1>6. TextKept' /\ \A x \in Texts' : x \in Texts \/ x = <<q, 0>>
  BY <1>1, <1>4, <1>5, TextAsk
<1>7. TextNews
  BY <1>4, <1>6 DEF TextNews
<1>8. q = Last + 1
  BY <1>4
<1> QED BY <1>3, <1>4, <1>5, <1>6, <1>7, <1>8

\* The text stays placed.
LEMMA TextStep ==
    ASSUME Page = "twin", ~Crossing, Typed, KnownInv, PlaceInv, [Step]_state
    PROVE  Placed' /\ TextInv' /\ TextNews
<1>1. StateOK /\ TextKept /\ TextInv /\ PlainInv
  BY TextIs DEF PlaceInv, Typed
<1>2. CASE Deliver
  <2>1. TextKept' /\ TextNews /\ Last' # 0 /\ twin'.queued \in {0, asked'}
    <3>1. PICK q : q = twin.queued
      OBVIOUS
    <3>2. TextKept' /\ TextNews /\ q > 0 /\ Last' = q /\ twin'.queued = 0
      BY <1>2, <3>1, TextDeliver
    <3> QED BY <3>2
  <2> QED BY <2>1, TextIs
<1>3. CASE ~Deliver
  <2>1. Last' = Last /\ twin'.queued \in {0, asked'}
    BY <1>1, <1>3, LastKept
  <2>2. CASE Frames
    <3>1. TextKept' /\ TextNews /\ (Last' = 0 => conv'.run = None /\ ~conv'.pending)
      BY <2>1, <2>2, TextFrames
    <3> QED BY <2>1, <3>1, TextIs
  <2>3. CASE ~Frames
    <3>1. /\ conv' = conv
          /\ \/ shown' = shown /\ stream' = stream
             \/ shown' = shown \o stream /\ stream' = <<>>
      <4>1. CASE RunnerSide
        BY <4>1, RunnerPage DEF PageSame
      <4>2. CASE Drops
        BY <4>2 DEF Drops, Emptied
      <4>3. CASE UNCHANGED state \/ Submit \/ Forget
        BY <4>3 DEF state, page, Submit, Forget
      <4> QED BY <1>3, <2>3, <4>1, <4>2, <4>3, TwinSteps DEF UserSide
    <3>2. TextKept' /\ Texts' = Texts
      BY <1>1, <2>1, <3>1, TextSteady
    <3>3. Last' = 0 => conv'.run = None /\ ~conv'.pending
      BY <1>1, <2>1, <3>1 DEF TextInv
    <3>4. TextNews
      BY <3>2 DEF TextNews
    <3> QED BY <2>1, <3>2, <3>3, <3>4, TextIs
  <2> QED BY <2>2, <2>3
<1> QED BY <1>2, <1>3

\* The one reply is read.
LEMMA ReplyTaken ==
    ASSUME StateOK, Len(down') \in Nat, OneReply, Shorter(down', down), Reply(down[1])
    PROVE  OneReply' /\ ~Replied'
<1>1. \A i \in 1 .. Len(down') : ~Reply(down'[i])
  <2> TAKE i \in 1 .. Len(down')
  <2>1. i + 1 \in 1 .. Len(down) /\ 1 \in 1 .. Len(down) /\ i + 1 # 1 /\ down'[i] = down[i + 1]
    BY Lengths DEF Shorter
  <2> QED BY <2>1 DEF OneReply
<1>2. \A f \in SetOf(down') : ~Reply(f)
  BY <1>1 DEF SetOf
<1> QED BY <1>1, <1>2 DEF OneReply, Replied

\* A reply ends the wait for the session.
LEMMA CreateReplied ==
    ASSUME StateOK, Len(down') \in Nat, CreateInv, UNCHANGED <<up, inbox>>,
           down # <<>>, Shorter(down', down), down[1] \in SetOf(down), Reply(down[1]),
           ~conv'.pending, twin'.has => conv'.run # None
    PROVE  CreateInv'
<1>1. OneReply' /\ ~Replied' /\ ~Sought(None)
  BY ReplyTaken DEF CreateInv, OneCreate, OneReply, Replied
<1>2. ~Sought(None)' /\ (Alone(None) => Alone(None)')
  BY <1>1 DEF Sought, Alone
<1>3. \A x \in SetOf(up') \cup SetOf(inbox') : ~Ask(x, None)
  BY <1>2 DEF Sought
<1>4. OneCreate'
  BY <1>1, <1>2, <1>3 DEF OneCreate, OneReply, CreateInv
<1> QED BY <1>1, <1>2, <1>4 DEF CreateInv

\* A frame read.
LEMMA CreateFrames ==
    ASSUME Page = "twin", ~Crossing, Typed, Typed', KnownInv, PlaceInv,
           [Step]_state, Frames
    PROVE  CreateInv'
<1>1. StateOK /\ StateOK' /\ PlainInv /\ TextInv /\ CreateInv /\ Len(down') \in Nat
  BY DownLength DEF PlaceInv, Typed
<1>0. ~Deliver /\ ~Granting
  BY <1>1, FramesOnly
<1>2. Last' = Last /\ Unasked /\ NoReplies /\ TextNews
  BY <1>0, <1>1, LastKept, UnaskedStep, RepliesStep, TextStep
<1> DEFINE f == Head(down)
<1>3. /\ down # <<>> /\ Shorter(down', down) /\ f = down[1] /\ f \in SetOf(down)
      /\ UNCHANGED <<up, inbox>> /\ twin'.queued = twin.queued
      /\ \/ TookCreated(f) \/ TookDenied(f) \/ TookResponse(f) \/ TookState(f) \/ TookOther(f)
  BY <1>1, FramesShape
<1>4. \A x \in Texts' : x \in Texts \/ Piece(f, conv.run)
  BY <1>0, <1>2 DEF TextNews
<1> HIDE DEF f
<1>5. CASE TookCreated(f) \/ TookDenied(f)
  <2>1. Reply(down[1]) /\ ~conv'.pending
    BY <1>3, <1>5 DEF Reply, TookCreated, TookDenied
  <2>2. twin'.has => conv'.run # None
    BY <1>1, <1>5, Numbers DEF TookCreated, TookDenied, CreateInv
  <2> QED BY <1>1, <1>3, <2>1, <2>2, CreateReplied
<1>6. CASE TookResponse(f) \/ TookState(f) \/ TookOther(f)
  <2>1. conv'.run = conv.run /\ (twin'.has => twin.has) /\ (conv'.pending <=> conv.pending)
    BY <1>6 DEF TookResponse, TookState, TookOther, SameConv
  <2>2. ASSUME conv.pending
        PROVE  conv'.state = "disconnected" /\ \A x \in Texts' : x \in Texts
    <3>1. conv.run = None /\ conv.state = "disconnected" /\ conv.run \notin Runs
      BY <1>1, <2>2, Numbers DEF CreateInv
    <3>3. TookOther(f)
      BY <1>6, <3>1 DEF TookResponse, TookState
    <3>4. conv'.state = "disconnected" /\ ~Piece(f, conv.run)
      BY <3>1, <3>3 DEF TookOther
    <3> QED BY <1>4, <3>4
  <2> QED BY <1>1, <1>2, <1>3, <2>1, <2>2, CreateQuiet
<1> QED BY <1>3, <1>5, <1>6

\* A question delivered.
LEMMA CreateDeliver ==
    ASSUME Page = "twin", Typed, Typed', PlaceInv, Deliver
    PROVE  CreateInv'
<1>1. StateOK /\ StateOK' /\ CreateInv /\ TextKept
  BY TextIs DEF PlaceInv, Typed
<1>10. PICK q : q = twin.queued
  OBVIOUS
<1>2. q = Last'
  BY <1>10, TextDeliver
<1>3. /\ q \in Asks /\ q = Last + 1 /\ Last \in Nat /\ q = twin.queued /\ twin'.queued = 0
      /\ UNCHANGED <<sess, inbox, down>> /\ stream' = <<>>
      /\ DeliveredNew(q) \/ (DeliveredOn(q) /\ conv.run \in Runs)
  BY <1>10, TextDeliver
<1>4. ~conv.pending /\ ~Sought(None) /\ ~Replied
  BY <1>1, <1>3, Numbers DEF CreateInv, Asks
<1>5. \A x \in Texts' : x \in Texts \/ x = <<q, 0>>
  <2>1. ~Frames
    BY FramesOnly DEF PlaceInv
  <2>2. TextNews
    BY <1>10, TextDeliver
  <2> QED BY <1>2, <2>1, <2>2 DEF TextNews
<1>6. Unanswered'
  <2>1. \A x \in Texts : x[1] <= Last /\ x[1] \in Nat
    <3>1. \A x \in Texts : x \in Items
      BY <1>1, SeqFacts DEF StateOK, Texts
    <3>2. \A x \in Items : x[1] \in Nat
      BY Numbers DEF Items
    <3> QED BY <1>1, <3>1, <3>2 DEF TextKept
  <2>2. \A x \in Texts : x[1] # q
    BY <1>3, <2>1
  <2>3. \A x \in Texts' : x[1] = q => x[2] = 0
    BY <1>5, <2>2
  <2> QED BY <1>2, <2>3 DEF Unanswered
<1>7. OneReply' /\ ~Replied' /\ ~Sought(None)
  BY <1>1, <1>3, <1>4 DEF CreateInv, OneCreate, OneReply, Replied
<1>8. CASE DeliveredNew(q) /\ socket.open
  <2> DEFINE x == Request("create", None, q)
  <2>1. Longer(up', up, x) /\ x.kind = "create" /\ x.run = None /\ x.q = q
    BY <1>8 DEF DeliveredNew, Request
  <2> HIDE DEF x
  <2>2. \A i \in 1 .. Len(up') : Ask(up'[i], None) => i = Len(up) + 1
    <3> TAKE i \in 1 .. Len(up')
    <3>1. i \in 1 .. Len(up) \/ i = Len(up) + 1
      BY <1>1, <2>1, Lengths DEF Longer
    <3>2. i \in 1 .. Len(up) => up'[i] \in SetOf(up)
      BY <1>1, <2>1, Lengths DEF Longer
    <3> QED BY <1>7, <3>1, <3>2 DEF Sought
  <2>3. \A y \in SetOf(inbox') : ~Ask(y, None)
    BY <1>3, <1>7 DEF Sought
  <2>4. \A i \in 1 .. Len(inbox') : ~Ask(inbox'[i], None)
    BY <1>3, <1>1, <2>3, Lengths
  <2>5. Alone(None)'
    BY <2>2, <2>3, <2>4 DEF Alone
  <2>6. \A y \in SetOf(up') \cup SetOf(inbox') : Ask(y, None) => y.q = q
    BY <1>7, <2>1, <2>3 DEF Longer, Sought
  <2>7. OneCreate'
    BY <1>2, <1>7, <2>5, <2>6 DEF OneCreate, OneReply
  <2> QED BY <1>3, <1>6, <1>7, <1>8, <2>7 DEF CreateInv, DeliveredNew
<1>9. CASE ~(DeliveredNew(q) /\ socket.open)
  <2>1. \A x \in SetOf(up') : x \in SetOf(up) \/ ~Ask(x, None)
    BY <1>3, <1>9, Numbers DEF DeliveredNew, DeliveredOn, Longer, Ask, Request
  <2>2. \A x \in SetOf(up') \cup SetOf(inbox') : ~Ask(x, None)
    BY <1>3, <1>7, <2>1 DEF Sought
  <2>3. /\ \A i \in 1 .. Len(up') : ~Ask(up'[i], None)
        /\ \A i \in 1 .. Len(inbox') : ~Ask(inbox'[i], None)
    BY <2>2 DEF SetOf
  <2>4. Alone(None)' /\ ~Sought(None)'
    BY <2>2, <2>3 DEF Alone, Sought
  <2>5. OneCreate'
    BY <1>7, <2>2, <2>4 DEF OneCreate, OneReply
  <2>6. ~conv'.pending
    BY <1>3, <1>4, <1>9 DEF DeliveredNew, DeliveredOn, SameConv
  <2>7. twin'.has => conv'.run # None
    BY <1>3, <1>9, Numbers DEF DeliveredNew, DeliveredOn, SameConv
  <2> QED BY <1>7, <2>4, <2>5, <2>6, <2>7 DEF CreateInv
<1> QED BY <1>8, <1>9

\* One create at a time.
LEMMA CreateStep ==
    ASSUME Page = "twin", (asked' # asked => InTime), ~Crossing, Typed, Typed', KnownInv, PlaceInv,
           [Step]_state
    PROVE  CreateInv'
<1>1. StateOK /\ StateOK' /\ PlainInv /\ TextInv /\ CreateInv
  BY DEF PlaceInv, Typed
<1>2. CASE Deliver \/ Frames \/ Granting
  BY <1>1, <1>2, CreateDeliver, CreateFrames, CreateGrant
<1>3. CASE ~Deliver /\ ~Frames /\ ~Granting
  <2>1. Last' = Last /\ Unasked /\ NoReplies
    BY <1>1, <1>3, LastKept, UnaskedStep, RepliesStep
  <2>2. CASE RunnerSide \/ UNCHANGED state
    <3>1. conv' = conv /\ twin' = twin /\ shown' = shown /\ stream' = stream
      BY <2>2, RunnerPage DEF PageSame, state, page
    <3>2. Texts' = Texts
      BY <3>1 DEF Texts
    <3> QED BY <1>1, <2>1, <3>1, <3>2, CreateQuiet DEF CreateInv
  <2>3. CASE Drops
    <3>1. conv' = conv /\ twin' = twin /\ shown' = shown \o stream /\ stream' = <<>>
      BY <2>3 DEF Drops, Emptied
    <3>2. Texts' = Texts
      BY <1>1, <2>1, <3>1, TextIs, TextSteady DEF PlaceInv
    <3> QED BY <1>1, <2>1, <3>1, <3>2, CreateQuiet DEF CreateInv
  <2>4. CASE Submit \/ Forget
    <3>1. /\ conv' = conv /\ shown' = shown /\ stream' = stream
      BY <2>4 DEF Submit, Forget
    <3>2. Texts' = Texts
      BY <3>1 DEF Texts
    <3>3. (twin'.has => twin.has)
      BY <1>1, <2>4 DEF Submit, Forget, StateOK
    <3>4. conv.pending => twin'.queued = twin.queued
      <4>1. CASE Submit
        <5>1. conv.pending => asked = 0
          BY <1>1, <4>1 DEF Submit, InTime, StateOK
        <5>2. conv.pending => twin.queued = 0 /\ Last # 0
          BY <1>1 DEF CreateInv, TextInv
        <5> QED BY <5>1, <5>2 DEF Last
      <4>2. CASE Forget
        BY <1>1, <4>2 DEF Forget, StateOK
      <4> QED BY <2>4, <4>1, <4>2
    <3> QED BY <1>1, <2>1, <3>1, <3>2, <3>3, <3>4, CreateQuiet DEF CreateInv
  <2> QED BY <1>3, <2>2, <2>3, <2>4, TwinSteps DEF UserSide
<1> QED BY <1>2, <1>3

\* A page whose conversation did not change.
LEMMA DeadPage ==
    ASSUME Page = "twin", ~Crossing, Typed, KnownInv, PlainInv, [Step]_state,
           conv'.run = conv.run, conv.run # None, Dead(conv.run)
    PROVE  Dead(conv.run)'
<1>1. PICK r : r = conv.run
  OBVIOUS
<1>2. Known(r) /\ Dead(r)
  BY <1>1 DEF KnownInv
<1>3. Dead(r)'
  BY <1>2, DeadKept
<1> QED BY <1>1, <1>3 DEF Dead

\* A frame that ends the session of this page leaves nothing to come.
LEMMA DeadRead ==
    ASSUME StateOK, Len(down') \in Nat, Closed, Shorter(down', down), sess' = sess,
           conv'.run = conv.run, down[1].kind = "state", down[1].run = conv.run,
           Ended(down[1].body)
    PROVE  Dead(conv.run)'
<1>1. PICK r : r = conv.run
  OBVIOUS
<1>2. Closing(1) /\ 1 \in 1 .. Len(down)
  BY Lengths DEF Closing, Shorter
<1>3. Ended(sess[r].state) /\ \A j \in 2 .. Len(down) : ~Live(down[j], r)
  BY <1>1, <1>2 DEF Closed
<1>4. \A j \in 1 .. Len(down') : ~Live(down'[j], r)
  <2> TAKE j \in 1 .. Len(down')
  <2>1. j + 1 \in 2 .. Len(down) /\ down'[j] = down[j + 1]
    BY Lengths DEF Shorter
  <2> QED BY <1>3, <2>1
<1>5. \A f \in SetOf(down') : ~Live(f, r)
  BY <1>4 DEF SetOf
<1> QED BY <1>1, <1>3, <1>5 DEF Dead

\* What a session's end means to the page that shows it.
LEMMA EndStep ==
    ASSUME Page = "twin", ~Crossing, Typed, Typed', KnownInv, PlaceInv,
           [Step]_state
    PROVE  EndInv'
<1>1. /\ StateOK /\ StateOK' /\ PlainInv /\ CreateInv /\ Closed /\ Len(down') \in Nat
      /\ conv.run # None /\ Ended(conv.state) => Dead(conv.run)
  BY DownLength DEF PlaceInv, Typed, EndInv, Closed, Closing
<1>2. Closed'
  BY <1>1, ClosedKept
<1>3. ASSUME conv'.run # None, Ended(conv'.state) PROVE Dead(conv.run)'
  <2>1. CASE conv'.run = conv.run /\ conv'.state = conv.state
    BY <1>1, <1>3, <2>1, DeadPage
  <2>2. CASE Deliver
    <3>1. PICK q : q = twin.queued
      OBVIOUS
    <3>2. DeliveredNew(q) \/ DeliveredOn(q)
      BY <1>1, <2>2, <3>1, DeliverShape DEF Typed
    <3> QED BY <1>3, <2>1, <3>2 DEF DeliveredNew, DeliveredOn, SameConv, Ended
  <2>3. CASE Frames
    <3>1. PICK f : f = Head(down)
      OBVIOUS
    <3>2. /\ Shorter(down', down) /\ f = down[1] /\ sess' = sess
          /\ \/ TookCreated(f) \/ TookDenied(f) \/ TookResponse(f) \/ TookState(f) \/ TookOther(f)
      BY <1>1, <2>3, <3>1, FramesShape
    <3>3. CASE TookCreated(f) \/ TookDenied(f)
      BY <1>1, <1>3, <3>3 DEF TookCreated, TookDenied, CreateInv, Ended
    <3>4. CASE TookResponse(f)
      BY <2>1, <3>4 DEF TookResponse
    <3>5. CASE TookState(f)
      BY <1>1, <1>3, <3>2, <3>5, DeadRead DEF TookState, SameConv
    <3>6. CASE TookOther(f)
      BY <1>3, <2>1, <3>6 DEF TookOther, SameConv, Ended
    <3> QED BY <3>2, <3>3, <3>4, <3>5, <3>6
  <2>4. CASE ~Deliver /\ ~Frames
    <3>1. conv' = conv
      <4>1. CASE RunnerSide
        BY <4>1, RunnerPage DEF PageSame
      <4>2. CASE Drops \/ UNCHANGED state \/ Submit \/ Forget
        BY <4>2 DEF Drops, state, page, Submit, Forget
      <4> QED BY <2>4, <4>1, <4>2, TwinSteps DEF UserSide
    <3> QED BY <2>1, <3>1
  <2> QED BY <2>2, <2>3, <2>4
<1> QED BY <1>2, <1>3 DEF EndInv, Closed, Closing

\* The question before has come to its end.
Waited ==
    \/ Whole(asked - 1) \/ conv.error \/ conv.run = None
    \/ Dead(conv.run) /\ conv.state # "ready"

\* It has still, while nothing is delivered.
LEMMA WaitKept ==
    ASSUME Page = "twin", ~Crossing, Typed, KnownInv, PlainInv, [Step]_state,
           Waited, asked' = asked, Texts \subseteq Texts', conv'.run = conv.run,
           conv.error => conv'.error \/ (Dead(conv.run)' /\ conv'.state # "ready"),
           Dead(conv.run) /\ conv.state # "ready" => conv'.state # "ready"
    PROVE  Waited'
<1>1. Whole(asked - 1) => Whole(asked - 1)'
  <2>1. PICK q : q = asked - 1
    OBVIOUS
  <2>2. Whole(q) => Whole(q)'
    BY DEF Whole, Texts
  <2> QED BY <2>1, <2>2 DEF Whole
<1>2. conv.run # None /\ Dead(conv.run) => Dead(conv.run)'
  BY DeadPage
<1> QED BY <1>1, <1>2 DEF Waited

\* A queued question finds the one before at its end.
LEMMA WaitStep ==
    ASSUME Page = "twin", (asked' # asked => InTime), ~Crossing, Typed, Typed', KnownInv, PlaceInv,
           [Step]_state
    PROVE  WaitInv'
<1>1. /\ StateOK /\ StateOK' /\ PlainInv /\ TextInv /\ CreateInv /\ Closed /\ Len(down') \in Nat
      /\ conv.run # None /\ Ended(conv.state) => Dead(conv.run)
      /\ (twin.queued # 0 /\ asked > 1 => Waited) /\ asked \in Nat
  <2>1. /\ StateOK /\ StateOK' /\ PlainInv /\ TextInv /\ CreateInv /\ Len(down') \in Nat
    BY DownLength DEF PlaceInv, Typed
  <2>2. Closed /\ (conv.run # None /\ Ended(conv.state) => Dead(conv.run))
    BY DEF PlaceInv, EndInv, Closed, Closing
  <2>3. twin.queued # 0 /\ asked > 1 => Waited
    BY DEF PlaceInv, WaitInv, Waited
  <2>4. asked \in Nat
    BY <2>1, Numbers DEF StateOK
  <2> QED BY <2>1, <2>2, <2>3, <2>4
<1>2. SUFFICES ASSUME twin'.queued # 0, asked' > 1 PROVE Waited'
  BY DEF WaitInv, Waited
<1>3. ~Deliver
  BY <1>2, DeliverShape DEF Typed
<1>4. TextNews
  BY TextStep
<1>5. Texts \subseteq Texts'
  BY <1>3, <1>4 DEF TextNews
<1>6. CASE Submit
  <2>1. asked' = asked + 1 /\ asked # 0 /\ conv' = conv /\ shown' = shown /\ stream' = stream
        /\ (SessionGone \/ Whole(asked))
    BY <1>1, <1>2, <1>6 DEF Submit, InTime
  <2>2. CASE Whole(asked)
    <3>1. PICK q : q = asked
      OBVIOUS
    <3>2. Whole(q)' /\ asked' - 1 = q
      BY <1>1, <2>1, <2>2, <3>1 DEF Whole
    <3> QED BY <3>2 DEF Waited, Whole
  <2>3. CASE SessionGone
    <3>1. conv.error \/ (Ended(conv.state) /\ conv.state # "ready")
      BY <2>3 DEF SessionGone, Failed, Ended
    <3>2. conv.run # None /\ Ended(conv.state) => Dead(conv.run)'
      BY <1>1, <2>1, DeadPage
    <3> QED BY <2>1, <3>1, <3>2 DEF Waited
  <2> QED BY <2>1, <2>2, <2>3
<1>7. CASE Frames
  <2>1. PICK f : f = Head(down)
    OBVIOUS
  <2>2. /\ Shorter(down', down) /\ f = down[1] /\ f \in SetOf(down) /\ sess' = sess
        /\ asked' = asked /\ twin'.queued = twin.queued
        /\ \/ TookCreated(f) \/ TookDenied(f) \/ TookResponse(f) \/ TookState(f) \/ TookOther(f)
    BY <1>1, <1>7, <2>1, FramesShape
  <2>3. ~conv.pending /\ Waited
    BY <1>1, <1>2, <2>2 DEF CreateInv
  <2>4. CASE TookResponse(f) \/ TookOther(f)
    BY <1>1, <1>5, <2>2, <2>3, <2>4, WaitKept DEF TookResponse, TookOther, SameConv
  <2>5. CASE TookState(f)
    <3>1. conv'.run = conv.run /\ conv'.state = f.body /\ f.kind = "state" /\ f.run = conv.run
          /\ (f.body # "error" => conv'.error = conv.error)
      BY <2>5 DEF TookState, SameConv
    <3>2. f.body = "error" => Dead(conv.run)' /\ conv'.state # "ready"
      BY <1>1, <2>2, <3>1, DeadRead DEF Ended
    <3>3. Dead(conv.run) => f.body # "ready"
      BY <2>2, <3>1 DEF Dead, Live, Ended
    <3> QED BY <1>1, <1>5, <2>2, <2>3, <3>1, <3>2, <3>3, WaitKept
  <2> QED BY <2>2, <2>3, <2>4, <2>5 DEF TookCreated, TookDenied
<1>8. CASE ~Submit /\ ~Frames
  <2>1. conv' = conv /\ asked' = asked /\ twin'.queued = twin.queued
    <3>1. CASE RunnerSide
      BY <3>1, RunnerPage DEF PageSame
    <3>2. CASE Drops \/ UNCHANGED state \/ Forget
      BY <1>1, <3>2 DEF Drops, state, page, Forget, StateOK
    <3> QED BY <1>3, <1>8, <3>1, <3>2, TwinSteps DEF UserSide
  <2> QED BY <1>1, <1>2, <1>5, <2>1, WaitKept
<1> QED BY <1>6, <1>7, <1>8

\* No piece of a run joins those on the way.
NoPiece(r) ==
    \/ down' = down
    \/ Shorter(down', down)
    \/ \A g \in SetOf(down') : ~Piece(g, r)
    \/ \E f : Longer(down', down, f) /\ ~Piece(f, r)

\* A frame of another kind or run.
LEMMA NoPieceTold ==
    ASSUME StateOK, NEW k, NEW t, NEW b, NEW r, FrameOK(Frame(k, t, b)),
           Broadcast(<<Frame(k, t, b)>>), k # "response" \/ t # r
    PROVE  NoPiece(r)
<1> DEFINE f == Frame(k, t, b)
<1>1. f.kind = k /\ f.run = t /\ FrameOK(f) /\ Broadcast(<<f>>)
  BY FrameFields
<1> HIDE DEF f
<1>2. ~Piece(f, r)
  BY <1>1 DEF Piece
<1>3. down' = down \/ Longer(down', down, f)
  BY <1>1, BroadcastShape
<1> QED BY <1>2, <1>3 DEF NoPiece

\* The order of what is on the way, and what has come or is coming.
LEMMA OrderKept ==
    ASSUME StateOK, StateOK', NEW r, InOrder(r), NoPiece(r), Last' = Last, Texts' = Texts
    PROVE  InOrder(r)' /\ \A k : Come(r, k)' => Come(r, k)
<1>0. Len(down) \in Nat /\ Len(down') \in Nat
      /\ \A i \in 1 .. Len(down') : down'[i] \in SetOf(down')
  BY Lengths, DownLength
<1>1. \A f \in SetOf(down') : Piece(f, r) => f \in SetOf(down)
  BY DEF NoPiece, Longer, Shorter
<1>2. \A i, j \in 1 .. Len(down') :
        i < j /\ Piece(down'[i], r) /\ Piece(down'[j], r) => down'[i].body[2] < down'[j].body[2]
  <2>1. CASE down' = down
    BY <2>1 DEF InOrder
  <2>2. CASE Shorter(down', down)
    <3> TAKE i, j \in 1 .. Len(down')
    <3>1. i + 1 \in 1 .. Len(down) /\ j + 1 \in 1 .. Len(down) /\ (i < j => i + 1 < j + 1)
          /\ down'[i] = down[i + 1] /\ down'[j] = down[j + 1]
      BY <1>0, <2>2 DEF Shorter
    <3> QED BY <3>1 DEF InOrder
  <2>3. CASE \A g \in SetOf(down') : ~Piece(g, r)
    BY <1>0, <2>3
  <2>4. CASE \E f : Longer(down', down, f) /\ ~Piece(f, r)
    <3>1. \A i \in 1 .. Len(down') : Piece(down'[i], r) =>
            i \in 1 .. Len(down) /\ down'[i] = down[i]
      BY <1>0, <2>4 DEF Longer
    <3> QED BY <3>1 DEF InOrder
  <2> QED BY <2>1, <2>2, <2>3, <2>4 DEF NoPiece
<1>3. InOrder(r)'
  BY <1>1, <1>2 DEF InOrder
<1>4. \A k : Come(r, k)' => Come(r, k)
  BY <1>1 DEF Come
<1> QED BY <1>3, <1>4

\* What a session is still to say, and what it is still to be asked.
LEMMA RestKept ==
    ASSUME NEW r, Todo(r), Given(r), OneMessage(r), Unasked, Last' = Last,
           \A k : Come(r, k)' => Come(r, k),
           sess'[r].todo = sess[r].todo, sess'[r].given = sess[r].given
    PROVE  Todo(r)' /\ Given(r)' /\ OneMessage(r)'
<1>1. \A x \in Queued' : Ask(x, r) => x \in Queued
  BY DEF Unasked, Ask
<1>2. Sought(r)' => Sought(r)
  BY <1>1 DEF Sought, Queued
<1>3. Todo(r)'
  BY DEF Todo
<1>4. Given(r)'
  BY <1>2 DEF Given
<1>5. OneMessage(r)'
  BY <1>1 DEF OneMessage, Unasked, Queued
<1> QED BY <1>3, <1>4, <1>5

\* A step that leaves the session its work.
LEMMA FitsQuiet ==
    ASSUME StateOK, StateOK', NEW r, Fits(r), NoPiece(r), Unasked, Last' = Last, Texts' = Texts,
           sess'[r].todo = sess[r].todo, sess'[r].given = sess[r].given
    PROVE  Fits(r)'
<1>1. InOrder(r)' /\ \A k : Come(r, k)' => Come(r, k)
  BY OrderKept DEF Fits
<1>2. Todo(r)' /\ Given(r)' /\ OneMessage(r)'
  BY <1>1, RestKept DEF Fits
<1> QED BY <1>1, <1>2 DEF Fits

\* A session that has nothing to say any more.
LEMMA FitsEmptied ==
    ASSUME StateOK, StateOK', NEW r, Fits(r), NoPiece(r), Unasked, Last' = Last, Texts' = Texts,
           sess'[r].todo = <<>>
    PROVE  Fits(r)'
<1>1. InOrder(r)' /\ \A k : Come(r, k)' => Come(r, k)
  BY OrderKept DEF Fits
<1>2. \A x \in Queued' : Ask(x, r) => x \in Queued
  BY DEF Unasked, Ask
<1>3. Sought(r)' => Sought(r)
  BY <1>2 DEF Sought, Queued
<1>4. \A i \in 1 .. Len(sess'[r].todo) : FALSE
  OBVIOUS
<1>5. Todo(r)'
  BY <1>4 DEF Todo
<1>6. Given(r)'
  BY <1>1, <1>3, <1>4 DEF Given, Fits
<1>7. OneMessage(r)'
  BY <1>2, <1>4 DEF OneMessage, Unasked, Queued, Fits
<1> QED BY <1>1, <1>5, <1>6, <1>7 DEF Fits

\* A session that finishes an answer.
LEMMA FitsAnswered ==
    ASSUME StateOK, StateOK', NEW r \in Runs, Fits(r), NoPiece(r), Unasked, Last' = Last,
           Texts' = Texts, sess[r].todo # <<>>, sess'[r].todo = Tail(sess[r].todo)
    PROVE  Fits(r)'
<1>1. InOrder(r)' /\ \A k : Come(r, k)' => Come(r, k)
  BY OrderKept DEF Fits
<1>2. \A x \in Queued' : Ask(x, r) => x \in Queued
  BY DEF Unasked, Ask
<1>3. Sought(r)' => Sought(r)
  BY <1>2 DEF Sought, Queued
<1> DEFINE s == sess[r].todo
           t == sess'[r].todo
<1>4. /\ Len(s) \in Nat /\ Len(t) \in Nat /\ Len(s) = Len(t) + 1
      /\ \A i \in 1 .. Len(t) : t[i] = s[i + 1]
  <2>1. s \in Seq(0 .. MaxAsks)
    BY DEF StateOK, Sessions
  <2> QED BY <2>1, TailSeq, SeqFacts DEF Shorter
<1>5. \A i \in 1 .. Len(t) : i + 1 \in 1 .. Len(s) /\ i + 1 # 1 /\ t[i] = s[i + 1]
  BY <1>4
<1>6. /\ \A i \in 1 .. Len(s) : s[i] <= Last /\ (s[i] = Last \/ (i = 1 /\ sess[r].given = Chunks))
      /\ \A i, j \in 1 .. Len(s) : s[i] = Last /\ s[j] = Last => i = j
  BY DEF Fits, Todo
<1>7. \A k \in 1 .. Chunks : Come(r, k) =>
        ~Sought(r) /\ \A i \in 1 .. Len(s) : s[i] = Last => i = 1
  BY DEF Fits, Given
<1>8. \A x \in Queued : Ask(x, r) => x.q = Last /\ \A i \in 1 .. Len(s) : s[i] # Last
  BY DEF Fits, OneMessage, Queued
<1> HIDE DEF s, t
<1>9. /\ \A i \in 1 .. Len(t) : t[i] <= Last /\ t[i] = Last
      /\ \A i, j \in 1 .. Len(t) : i = j
  <2>1. \A i \in 1 .. Len(t) : t[i] <= Last /\ t[i] = Last
    BY <1>5, <1>6
  <2>2. \A i, j \in 1 .. Len(t) : i + 1 = j + 1
    BY <1>5, <1>6, <2>1
  <2> QED BY <1>4, <2>1, <2>2
<1>10. Todo(r)'
  BY <1>9 DEF Todo, t
<1>11. Given(r)'
  <2>1. \A k \in 1 .. Chunks : Come(r, k) => \A i \in 1 .. Len(t) : t[i] # Last
    BY <1>5, <1>7
  <2> QED BY <1>1, <1>3, <1>7, <2>1 DEF Given, t
<1>12. OneMessage(r)'
  <2>1. \A x \in Queued : Ask(x, r) => x.q = Last /\ \A i \in 1 .. Len(t) : t[i] # Last
    BY <1>5, <1>8
  <2>2. \A x \in Queued' : Ask(x, r) => x.q = Last' /\ \A i \in 1 .. Len(t) : t[i] # Last'
    BY <1>2, <2>1
  <2>3. Alone(r)'
    BY DEF Fits, OneMessage, Unasked
  <2> QED BY <2>2, <2>3 DEF OneMessage, Queued, t
<1> QED BY <1>1, <1>10, <1>11, <1>12 DEF Fits

\* The items a page shows and the pieces on their way, as pairs of numbers.
LEMMA PieceNumbers ==
    ASSUME StateOK, TextInv
    PROVE  /\ \A x \in Texts : x[1] \in Nat /\ x[2] \in 0 .. Chunks /\ x = <<x[1], x[2]>>
           /\ \A r : \A f \in SetOf(down) : Piece(f, r) => f.body[1] \in Nat /\ f.body[2] \in 0 .. Chunks
                                                        /\ f.body = <<f.body[1], f.body[2]>>
           /\ Last \in Nat /\ Chunks \in Nat /\ Chunks > 0 /\ MaxAsks \in Nat
<1>1. \A x \in Items : x[1] \in Nat /\ x[2] \in 0 .. Chunks /\ x = <<x[1], x[2]>>
  BY Numbers DEF Items
<1>2. \A x \in Texts : x \in Items
  BY SeqFacts DEF StateOK, Texts
<1>3. \A r : \A f \in SetOf(down) : Piece(f, r) => f.body \in Items
  BY DEF StateOK, FrameOK, Piece
<1>4. Last \in Nat /\ MaxAsks \in Nat /\ Chunks \in Nat /\ Chunks > 0
  BY LastNumber, Numbers, ConversationAssumption
<1> QED BY <1>1, <1>2, <1>3, <1>4

\* A session says a piece.
LEMMA FitsSaid ==
    ASSUME StateOK, StateOK', TextInv, NEW r \in Runs, Fits(r), Unasked, Last' = Last,
           Texts' = Texts, sess[r].todo # <<>>, sess[r].given + 1 \in 1 .. Chunks,
           sess'[r].todo = sess[r].todo, sess'[r].given = sess[r].given + 1,
           NEW f, f.body = <<Head(sess[r].todo), sess[r].given + 1>>, Piece(f, r),
           down' = down \/ Longer(down', down, f)
    PROVE  Fits(r)'
<1> DEFINE s == sess[r].todo
           g == sess[r].given
<1>1. s \in Seq(0 .. MaxAsks) /\ g \in 0 .. Chunks
  BY DEF StateOK, Sessions
<1>2. Len(s) \in Nat /\ 1 \in 1 .. Len(s) /\ Head(s) = s[1]
  BY <1>1
<1>3. /\ \A i \in 1 .. Len(s) : s[i] <= Last /\ (s[i] = Last \/ (i = 1 /\ g = Chunks))
      /\ \A i, j \in 1 .. Len(s) : s[i] = Last /\ s[j] = Last => i = j
  BY DEF Fits, Todo
<1>4. \A k \in 1 .. Chunks : Come(r, k) =>
        ~Sought(r) /\ \A i \in 1 .. Len(s) : s[i] = Last => i = 1 /\ k <= g
  BY DEF Fits, Given
<1>5. \A x \in Queued : Ask(x, r) => x.q = Last /\ \A i \in 1 .. Len(s) : s[i] # Last
  BY DEF Fits, OneMessage, Queued
<1>6. /\ sess'[r].todo = s /\ sess'[r].given = g + 1 /\ g + 1 \in 1 .. Chunks
      /\ f.body = <<s[1], g + 1>> /\ Chunks \in Nat
  BY <1>2, Numbers
<1> HIDE DEF s, g
<1>7. g # Chunks /\ g \in Nat
  BY <1>1, <1>6
<1>8. s[1] = Last /\ \A i \in 1 .. Len(s) : i = 1
  BY <1>2, <1>3, <1>7
<1>9. f.body[1] = Last /\ f.body[2] = g + 1 /\ f.body = <<Last, g + 1>>
  BY <1>6, <1>8
<1>10. ~Sought(r)
  BY <1>2, <1>5, <1>8 DEF Sought, Queued
<1>11. \A x \in Queued' : Ask(x, r) => x \in Queued
  BY DEF Unasked, Ask
<1>12. ~Sought(r)'
  BY <1>10, <1>11 DEF Sought, Queued
<1>13. \A k \in 1 .. Chunks : Come(r, k) => k <= g
  BY <1>2, <1>4, <1>8
<1>14. Todo(r)'
  BY <1>3, <1>6, <1>7 DEF Todo
<1>15. OneMessage(r)'
  <2>1. \A x \in SetOf(up') \cup SetOf(inbox') : ~Ask(x, r)
    BY <1>12 DEF Sought
  <2>2. Alone(r)'
    BY DEF Fits, OneMessage, Unasked
  <2> QED BY <2>1, <2>2 DEF OneMessage
<1>16. \A k : Come(r, k)' => Come(r, k) \/ k = g + 1
  BY <1>9 DEF Come, Longer
<1>17. Given(r)'
  <2>1. \A k \in 1 .. Chunks : Come(r, k)' => k <= g + 1
    BY <1>7, <1>13, <1>16
  <2> QED BY <1>6, <1>8, <1>12, <2>1 DEF Given
<1>18. \A x \in Texts : x[1] = Last => x[2] <= g
  <2> SUFFICES ASSUME NEW x \in Texts, x[1] = Last PROVE x[2] <= g
    OBVIOUS
  <2>1. x[2] \in 0 .. Chunks /\ x = <<Last, x[2]>>
    BY PieceNumbers
  <2>2. x[2] # 0 => Come(r, x[2]) /\ x[2] \in 1 .. Chunks
    BY <2>1, <1>6 DEF Come
  <2> QED BY <1>7, <1>13, <2>1, <2>2
<1>19. \A h \in SetOf(down) : Piece(h, r) => h.body[2] <= g
  <2> SUFFICES ASSUME NEW h \in SetOf(down), Piece(h, r) PROVE h.body[2] <= g
    OBVIOUS
  <2>1. h.body[1] = Last /\ h.body[2] > 0
    BY DEF Fits, InOrder
  <2>2. h.body[2] \in 1 .. Chunks /\ h.body = <<Last, h.body[2]>>
    BY <2>1, PieceNumbers
  <2>3. Come(r, h.body[2])
    BY <2>2 DEF Come
  <2> QED BY <1>13, <2>2, <2>3
<1>20. InOrder(r)'
  <2>1. CASE down' = down
    BY <2>1 DEF Fits, InOrder
  <2>2. CASE Longer(down', down, f)
    <3>1. \A h \in SetOf(down') : h \in SetOf(down) \/ h = f
      BY <2>2 DEF Longer
    <3>2. \A h \in SetOf(down') : Piece(h, r) => h.body[1] = Last' /\ h.body[2] > 0
      BY <1>7, <1>9, <3>1 DEF Fits, InOrder
    <3>3. \A x \in Texts', h \in SetOf(down') : x[1] = Last' /\ Piece(h, r) => x[2] < h.body[2]
      <4>1. \A x \in Texts : x[1] = Last => x[2] < g + 1
        BY <1>7, <1>18, PieceNumbers
      <4> QED BY <1>9, <3>1, <4>1 DEF Fits, InOrder
    <3>4. \A i, j \in 1 .. Len(down') : i < j /\ Piece(down'[i], r) /\ Piece(down'[j], r) =>
            down'[i].body[2] < down'[j].body[2]
      <4> SUFFICES ASSUME NEW i \in 1 .. Len(down'), NEW j \in 1 .. Len(down'), i < j,
                          Piece(down'[i], r), Piece(down'[j], r)
                   PROVE  down'[i].body[2] < down'[j].body[2]
        OBVIOUS
      <4>1. i \in 1 .. Len(down) /\ down'[i] = down[i] /\ down[i] \in SetOf(down)
        BY <2>2, Lengths DEF Longer
      <4>2. (j \in 1 .. Len(down) /\ down'[j] = down[j]) \/ down'[j] = f
        BY <2>2, Lengths DEF Longer
      <4>3. CASE j \in 1 .. Len(down) /\ down'[j] = down[j]
        BY <4>1, <4>3 DEF Fits, InOrder
      <4>4. CASE down'[j] = f
        <5>1. down[i].body[2] \in 0 .. Chunks
          BY <4>1, PieceNumbers
        <5> QED BY <1>7, <1>9, <1>19, <4>1, <4>4, <5>1
      <4> QED BY <4>2, <4>3, <4>4
    <3> QED BY <3>2, <3>3, <3>4 DEF InOrder
  <2> QED BY <2>1, <2>2
<1> QED BY <1>14, <1>15, <1>17, <1>20 DEF Fits

\* The page reads a piece.
LEMMA FitsRead ==
    ASSUME StateOK, StateOK', NEW r \in Runs, Fits(r), Unasked, Last' = Last,
           down # <<>>, Shorter(down', down), Piece(down[1], r), Texts' = Texts \cup {down[1].body},
           sess' = sess
    PROVE  Fits(r)'
<1> DEFINE f == down[1]
<1>1. /\ Len(down) \in Nat /\ 1 \in 1 .. Len(down) /\ f \in SetOf(down)
      /\ \A i \in 1 .. Len(down') : i + 1 \in 1 .. Len(down) /\ 1 < i + 1 /\ down'[i] = down[i + 1]
      /\ SetOf(down') \subseteq SetOf(down)
  BY Lengths DEF Shorter
<1>2. f.body[1] = Last
  BY <1>1 DEF Fits, InOrder
<1>3. \A i \in 1 .. Len(down') : Piece(down'[i], r) => f.body[2] < down'[i].body[2]
  BY <1>1 DEF Fits, InOrder
<1>4. \A h \in SetOf(down') : Piece(h, r) => f.body[2] < h.body[2]
  BY <1>3 DEF SetOf
<1>5. \A i, j \in 1 .. Len(down') : i < j /\ Piece(down'[i], r) /\ Piece(down'[j], r) =>
        down'[i].body[2] < down'[j].body[2]
  <2> TAKE i, j \in 1 .. Len(down')
  <2>1. i < j => i + 1 < j + 1
    OBVIOUS
  <2> QED BY <1>1, <2>1 DEF Fits, InOrder
<1>6. InOrder(r)'
  <2>1. \A h \in SetOf(down') : Piece(h, r) => h.body[1] = Last' /\ h.body[2] > 0
    BY <1>1 DEF Fits, InOrder
  <2>2. \A x \in Texts', h \in SetOf(down') : x[1] = Last' /\ Piece(h, r) => x[2] < h.body[2]
    BY <1>1, <1>4 DEF Fits, InOrder
  <2> QED BY <1>5, <2>1, <2>2 DEF InOrder
<1>7. \A k : Come(r, k)' => Come(r, k)
  BY <1>1 DEF Come
<1>8. Todo(r)' /\ Given(r)' /\ OneMessage(r)'
  BY <1>7, RestKept DEF Fits
<1> QED BY <1>6, <1>8 DEF Fits

\* A session hears the question that was sent to it.
LEMMA FitsHeard ==
    ASSUME StateOK, StateOK', TextInv, NEW r \in Runs, Fits(r), NoPiece(r), Unasked, Last' = Last,
           Texts' = Texts, NEW x \in Queued, Ask(x, r), ~Sought(r)',
           sess'[r].todo = Append(sess[r].todo, x.q), sess'[r].given = sess[r].given
    PROVE  Fits(r)'
<1> DEFINE s == sess[r].todo
           t == sess'[r].todo
           g == sess[r].given
<1>1. s \in Seq(0 .. MaxAsks) /\ x.q \in 0 .. MaxAsks
  <2>1. x \in Requests
    BY SeqFacts DEF StateOK, Queued
  <2> QED BY <2>1, RequestKinds DEF StateOK, Sessions
<1>2. Len(s) \in Nat /\ Longer(t, s, x.q)
  <2>1. t = Append(s, x.q)
    OBVIOUS
  <2> HIDE DEF s, t
  <2>2. PICK u : u = Append(s, x.q)
    OBVIOUS
  <2>3. Longer(u, s, x.q) /\ Len(s) \in Nat
    BY <1>1, <2>2, AppendSeq, SeqFacts
  <2> QED BY <2>1, <2>2, <2>3
<1>3. /\ \A i \in 1 .. Len(s) : s[i] <= Last /\ (s[i] = Last \/ (i = 1 /\ g = Chunks))
  BY DEF Fits, Todo
<1>4. x.q = Last /\ \A i \in 1 .. Len(s) : s[i] # Last
  BY DEF Fits, OneMessage, Queued
<1>5. \A k \in 1 .. Chunks : ~Come(r, k)
  BY DEF Fits, Given, Sought, Queued
<1>6. InOrder(r)' /\ \A k : Come(r, k)' => Come(r, k)
  BY OrderKept DEF Fits
<1>7. Last \in Nat
  BY PieceNumbers
<1>8. sess'[r].todo = t /\ sess'[r].given = g
  OBVIOUS
<1> HIDE DEF s, t, g
<1>9. \A i \in 1 .. Len(t) : (i \in 1 .. Len(s) /\ t[i] = s[i]) \/ (i = Len(s) + 1 /\ t[i] = Last)
  BY <1>2, <1>4 DEF Longer
<1>10. Todo(r)'
  <2>1. \A i \in 1 .. Len(t) : t[i] <= Last /\ (t[i] = Last \/ (i = 1 /\ g = Chunks))
    BY <1>3, <1>7, <1>9
  <2>2. \A i, j \in 1 .. Len(t) : t[i] = Last /\ t[j] = Last => i = j
    BY <1>4, <1>9
  <2> QED BY <1>8, <2>1, <2>2 DEF Todo
<1>11. Given(r)'
  BY <1>5, <1>6 DEF Given
<1>12. OneMessage(r)'
  <2>1. \A y \in SetOf(up') \cup SetOf(inbox') : ~Ask(y, r)
    BY DEF Sought
  <2>2. Alone(r)'
    BY DEF Fits, OneMessage, Unasked
  <2> QED BY <2>1, <2>2 DEF OneMessage
<1> QED BY <1>6, <1>10, <1>11, <1>12 DEF Fits

\* A session created for the last question.
LEMMA FitsFresh ==
    ASSUME StateOK, StateOK', TextInv, KnownInv, Unanswered, NEW r \in Runs, sess[r].by = None,
           Last' = Last, Texts' = Texts, Unasked,
           sess'[r].todo = <<Last>>, sess'[r].given = 0,
           NEW f, f.kind = "created", down' = down \/ Longer(down', down, f)
    PROVE  Fits(r)'
<1>1. ~Known(r) /\ r # None
  BY Numbers DEF Known
<1>2. \A x \in Queued' : ~Ask(x, r)
  <2>1. \A x \in Queued : ~Ask(x, r)
    <3> SUFFICES ASSUME NEW x \in Queued, Ask(x, r) PROVE FALSE
      OBVIOUS
    <3>1. x \in Requests
      BY SeqFacts DEF StateOK, Queued
    <3>2. x.run = r /\ x.kind # "create"
      BY <1>1, <3>1, RequestKinds DEF Ask
    <3> QED BY <1>1, <3>2 DEF KnownInv, RequestKnown, Queued
  <2> QED BY <2>1 DEF Unasked, Ask
<1>3. \A h \in SetOf(down') : ~Piece(h, r)
  <2>1. \A h \in SetOf(down) : ~Piece(h, r)
    BY <1>1 DEF KnownInv, FrameKnown, Piece, RunKinds
  <2> QED BY <2>1 DEF Longer, Piece
<1>4. \A i \in 1 .. Len(down') : ~Piece(down'[i], r)
  BY <1>3, DownLength
<1>5. InOrder(r)'
  BY <1>3, <1>4 DEF InOrder
<1>6. \A k \in 1 .. Chunks : ~Come(r, k)'
  <2>1. \A k \in 1 .. Chunks : <<Last, k>> \notin Texts
    BY PieceNumbers DEF Unanswered
  <2> QED BY <1>3, <2>1 DEF Come
<1>7. Last \in Nat /\ Len(<<Last>>) = 1 /\ <<Last>>[1] = Last
  BY PieceNumbers
<1>8. Todo(r)'
  BY <1>7 DEF Todo
<1>9. OneMessage(r)'
  <2>1. \A x \in SetOf(up') \cup SetOf(inbox') : ~Ask(x, r)
    BY <1>2 DEF Queued
  <2>2. (\A i \in 1 .. Len(up') : ~Ask(up'[i], r)) /\ (\A i \in 1 .. Len(inbox') : ~Ask(inbox'[i], r))
    BY <2>1 DEF SetOf
  <2>3. Alone(r)'
    BY <2>1, <2>2 DEF Alone
  <2> QED BY <2>1, <2>3 DEF OneMessage
<1>10. Given(r)'
  BY <1>6 DEF Given
<1> QED BY <1>5, <1>8, <1>9, <1>10 DEF Fits

\* The next question is sent to a session whose answer has come in whole.
LEMMA FitsDelivered ==
    ASSUME StateOK, StateOK', TextInv, NEW r \in Runs, Fits(r), Whole(Last), Last' = Last + 1,
           \A x \in Texts' : x \in Texts \/ x = <<Last', 0>>,
           UNCHANGED <<sess, down, inbox>>,
           NEW y, y.q = Last', y.kind = "message", y.run = r,
           up' = up \/ Longer(up', up, y)
    PROVE  Fits(r)'
<1>1. /\ Last \in Nat /\ Chunks \in 1 .. Chunks /\ Chunks \in Nat /\ <<Last, Chunks>> \in Texts
  BY PieceNumbers DEF Whole, Texts
<1>2. Come(r, Chunks)
  BY <1>1 DEF Come
<1> DEFINE s == sess[r].todo
           g == sess[r].given
<1>3. g \in 0 .. Chunks /\ s \in Seq(0 .. MaxAsks)
  BY DEF StateOK, Sessions
<1>4. ~Sought(r) /\ \A i \in 1 .. Len(s) : s[i] = Last => i = 1 /\ Chunks <= g
  BY <1>1, <1>2 DEF Fits, Given
<1>5. \A i \in 1 .. Len(s) : s[i] <= Last /\ (s[i] = Last \/ (i = 1 /\ g = Chunks))
  BY DEF Fits, Todo
<1>6. \A f \in SetOf(down) : ~Piece(f, r)
  <2> SUFFICES ASSUME NEW f \in SetOf(down), Piece(f, r) PROVE FALSE
    OBVIOUS
  <2>1. <<Last, Chunks>>[2] < f.body[2]
    <3> DEFINE x == <<Last, Chunks>>
    <3>1. x \in Texts /\ x[1] = Last
      BY <1>1
    <3> HIDE DEF x
    <3>2. x[2] < f.body[2]
      BY <3>1 DEF Fits, InOrder
    <3> QED BY <3>2 DEF x
  <2>2. f.body[2] \in 0 .. Chunks
    BY PieceNumbers
  <2> QED BY <1>1, <2>1, <2>2
<1>7. \A i \in 1 .. Len(down) : ~Piece(down[i], r)
  BY <1>6, Lengths
<1>8. InOrder(r)'
  BY <1>6, <1>7 DEF InOrder
<1>9. \A i \in 1 .. Len(s) : s[i] \in Nat
  <2> HIDE DEF s
  <2>1. \A i \in 1 .. Len(s) : s[i] \in 0 .. MaxAsks
    <3>1. PICK S : S = 0 .. MaxAsks
      OBVIOUS
    <3>2. s \in Seq(S)
      BY <1>3, <3>1
    <3> QED BY <3>1, <3>2, SeqFacts
  <2>2. \A n \in 0 .. MaxAsks : n \in Nat
    OBVIOUS
  <2> QED BY <2>1, <2>2
<1> HIDE DEF s, g
<1>10. Todo(r)'
  <2>1. \A i \in 1 .. Len(s) : /\ s[i] <= Last + 1 /\ s[i] # Last + 1
                               /\ (i = 1 /\ g = Chunks)
    BY <1>1, <1>3, <1>4, <1>5, <1>9
  <2>2. sess'[r].todo = s /\ sess'[r].given = g
    BY DEF s, g
  <2> QED BY <2>1, <2>2 DEF Todo
<1>11. \A k \in 1 .. Chunks : ~Come(r, k)'
  <2> SUFFICES ASSUME NEW k \in 1 .. Chunks, <<Last + 1, k>> \in Texts' PROVE FALSE
    BY <1>6 DEF Come
  <2> DEFINE z == <<Last + 1, k>>
  <2>0. z[1] = Last + 1 /\ z[2] = k /\ z \in Texts' /\ k # 0
    BY <1>1
  <2>1. z # <<Last + 1, 0>>
    BY <2>0
  <2> HIDE DEF z
  <2>2. z \in Texts
    BY <2>0, <2>1
  <2>3. z[1] <= Last
    BY <2>2 DEF TextInv
  <2> QED BY <1>1, <2>0, <2>3
<1>12. Given(r)'
  BY <1>11 DEF Given
<1>13. \A x \in SetOf(up) \cup SetOf(inbox) : ~Ask(x, r)
  BY <1>4 DEF Sought
<1>14. \A x \in SetOf(up') \cup SetOf(inbox') : Ask(x, r) => x.q = Last + 1
  BY <1>13 DEF Longer
<1>15. Alone(r)'
  <2>1. \A i \in 1 .. Len(inbox) : ~Ask(inbox[i], r)
    BY <1>13, Lengths
  <2>2. \A i \in 1 .. Len(up) : ~Ask(up[i], r)
    BY <1>13, Lengths
  <2>3. \A i \in 1 .. Len(up') : Ask(up'[i], r) => i = Len(up) + 1
    BY <2>2, Lengths DEF Longer
  <2> QED BY <1>13, <2>1, <2>3 DEF Alone
<1>16. OneMessage(r)'
  <2>1. \A i \in 1 .. Len(s) : s[i] # Last + 1
    BY <1>1, <1>5, <1>9
  <2>2. sess'[r].todo = s
    BY DEF s
  <2> QED BY <1>14, <1>15, <2>1, <2>2 DEF OneMessage
<1> QED BY <1>8, <1>10, <1>12, <1>16 DEF Fits

\* A step that delivers no question and shows no text.
Calm == StateOK /\ StateOK' /\ TextInv /\ Unasked /\ Last' = Last /\ Texts' = Texts

\* The run of a conversation that has one is the only one chosen.
LEMMA ChosenOnly ==
    ASSUME CreateInv, NEW r \in Runs, Chosen(r)
    PROVE  /\ conv.run # None => r = conv.run
           /\ r # conv.run => conv.pending /\ twin.queued = 0
<1>1. ASSUME NEW f \in SetOf(down), Introduces(f, r) PROVE conv.pending /\ conv.run = None
                                                            /\ twin.queued = 0
  <2>1. Replied
    BY <1>1 DEF Replied, Reply, Introduces
  <2> QED BY <2>1 DEF CreateInv
<1> QED BY <1>1 DEF Chosen

\* Only a create that is granted chooses another.
LEMMA ChosenStep ==
    ASSUME Page = "twin", ~Crossing, Typed, KnownInv, PlainInv, CreateInv,
           [Step]_state, ~Granting, ~Deliver, NEW r \in Runs, Chosen(r)'
    PROVE  Chosen(r)
<1>1. \A f \in SetOf(down') : Introduces(f, r) => f \in SetOf(down)
  <2> SUFFICES ASSUME NEW f \in SetOf(down'), Introduces(f, r) PROVE f \in SetOf(down)
    OBVIOUS
  <2>1. Reply(f) /\ f.kind # "connected"
    BY DEF Reply, Introduces
  <2>2. CASE \E g : Longer(down', down, g) /\ Says(g)
    BY <2>1, <2>2 DEF Longer, Says
  <2> QED BY <2>1, <2>2, DownStep DEF DownSays, Shorter
<1>2. CASE conv'.run = conv.run
  BY <1>1, <1>2 DEF Chosen
<1>3. CASE conv'.run # conv.run
  <2>1. Frames
    <3>1. CASE RunnerSide
      BY <1>3, <3>1, RunnerPage DEF PageSame
    <3>2. CASE Drops \/ UNCHANGED state \/ Submit \/ Forget
      BY <1>3, <3>2 DEF Drops, state, page, Submit, Forget
    <3> QED BY <3>1, <3>2, TwinSteps DEF UserSide
  <2>2. PICK f : f = Head(down)
    OBVIOUS
  <2>3. /\ f \in SetOf(down)
        /\ \/ TookCreated(f) \/ TookDenied(f) \/ TookResponse(f) \/ TookState(f) \/ TookOther(f)
    BY <2>1, <2>2, FramesShape
  <2>4. TookCreated(f)
    BY <1>3, <2>3 DEF TookDenied, TookResponse, TookState, TookOther, SameConv
  <2>5. CASE conv'.run = r
    BY <2>3, <2>4, <2>5 DEF TookCreated, Chosen, Introduces
  <2> QED BY <1>1, <2>5 DEF Chosen
<1> QED BY <1>2, <1>3

\* A session at work.
LEMMA FitsWorks ==
    ASSUME Typed, Calm, NEW r \in Runs, Fits(r), NEW t \in Runs, Works(t) \/ SessionFails(t)
    PROVE  Fits(r)'
<1>1. StateOK /\ StateOK' /\ Unasked /\ Last' = Last /\ Texts' = Texts /\ TextInv
  BY DEF Calm
<1>2. FrameOK(Frame("state", t, "processing")) /\ FrameOK(Frame("state", t, "ready"))
      /\ FrameOK(Frame("state", t, "error")) /\ FrameOK(Frame("generated", t, None))
  BY FrameType DEF States
<1>3. CASE SessionFails(t)
  <2>1. NoPiece(r)
    BY <1>1, <1>2, <1>3, FailsShape, NoPieceTold
  <2>2. CASE r = t
    <3>1. sess'[r].todo = <<>>
      BY <1>3, <2>2, FailsShape
    <3> QED BY <1>1, <2>1, <3>1, FitsEmptied
  <2>3. CASE r # t
    <3>1. sess'[r].todo = sess[r].todo /\ sess'[r].given = sess[r].given
      BY <1>3, <2>3, FailsShape
    <3> QED BY <1>1, <2>1, <3>1, FitsQuiet
  <2> QED BY <2>2, <2>3
<1>4. CASE Works(t)
  <2>0. sess[t] \in Sessions /\ (sess[t].state = "processing" => sess[t].todo # <<>>)
    BY AtWorkHas
  <2>1. CASE r # t
    <3>1. sess'[r].todo = sess[r].todo /\ sess'[r].given = sess[r].given
      BY <1>4, <2>1, WorksShape
    <3>2. NoPiece(r)
      <4>1. CASE \/ Broadcast(<<Frame("state", t, "processing")>>)
                 \/ Broadcast(<<Frame("state", t, "ready")>>)
                 \/ Broadcast(<<Frame("generated", t, None)>>)
        BY <1>1, <1>2, <4>1, NoPieceTold
      <4>2. CASE UNCHANGED down
        BY <4>2 DEF NoPiece
      <4>3. CASE NextPiece(sess[t]) \in Items /\ Broadcast(<<Frame("response", t, NextPiece(sess[t]))>>)
        <5>1. FrameOK(Frame("response", t, NextPiece(sess[t])))
          BY <4>3, FrameType
        <5> QED BY <1>1, <2>1, <4>3, <5>1, NoPieceTold
      <4> QED BY <1>4, <4>1, <4>2, <4>3, WorksShape
    <3> QED BY <1>1, <3>1, <3>2, FitsQuiet
  <2>2. CASE r = t /\ sess'[r].todo = sess[r].todo /\ sess'[r].given = sess[r].given
             /\ \/ Broadcast(<<Frame("state", t, "processing")>>)
                \/ Broadcast(<<Frame("generated", t, None)>>)
    <3>1. NoPiece(r)
      BY <1>1, <1>2, <2>2, NoPieceTold
    <3> QED BY <1>1, <2>2, <3>1, FitsQuiet
  <2>3. CASE /\ r = t /\ sess[t].state = "processing" /\ sess'[t].todo = Tail(sess[t].todo)
             /\ (UNCHANGED down \/ Broadcast(<<Frame("state", t, "ready")>>))
    <3>1. NoPiece(r)
      <4>1. CASE UNCHANGED down
        BY <4>1 DEF NoPiece
      <4>2. CASE Broadcast(<<Frame("state", t, "ready")>>)
        BY <1>1, <1>2, <4>2, NoPieceTold
      <4> QED BY <2>3, <4>1, <4>2
    <3> QED BY <1>1, <2>0, <2>3, <3>1, FitsAnswered
  <2>4. CASE /\ r = t /\ sess[t].state = "processing" /\ sess[t].given + 1 \in 1 .. Chunks
             /\ sess'[t].todo = sess[t].todo /\ sess'[t].given = sess[t].given + 1
             /\ NextPiece(sess[t]) \in Items /\ Broadcast(<<Frame("response", t, NextPiece(sess[t]))>>)
    <3>1. PICK f : f = Frame("response", t, NextPiece(sess[t]))
      OBVIOUS
    <3>2. FrameOK(f) /\ Broadcast(<<f>>)
      BY <2>4, <3>1, FrameType
    <3>3. f.kind = "response" /\ f.run = r /\ f.body = NextPiece(sess[r])
      BY <2>4, <3>1, FrameFields
    <3>4. f.body = <<Head(sess[r].todo), sess[r].given + 1>> /\ Piece(f, r)
      BY <3>3 DEF NextPiece, Piece
    <3>5. down' = down \/ Longer(down', down, f)
      BY <1>1, <3>2, BroadcastShape
    <3> QED BY <1>1, <2>0, <2>4, <3>4, <3>5, FitsSaid
  <2> QED BY <1>4, <2>1, <2>2, <2>3, <2>4, WorksShape
<1> QED BY <1>3, <1>4

\* The runner reads a request of a session.
LEMMA FitsReads ==
    ASSUME Typed, KnownInv, PlainInv, Calm, NEW r \in Runs, Fits(r), RunnerReads, ~Granting
    PROVE  Fits(r)'
<1>1. StateOK /\ StateOK' /\ Unasked /\ Last' = Last /\ Texts' = Texts /\ TextInv
  BY DEF Calm
<1> DEFINE x == Head(inbox)
<1>2. /\ x \in SetOf(inbox) /\ x \in Requests /\ Shorter(inbox', inbox) /\ x = inbox[1]
      /\ inbox' \in Seq(Requests) /\ up' = up
  BY <1>1, ReadShape
<1>3. x.kind # "create" /\ x.kind # "output"
  BY <1>2 DEF Granting, PlainInv
<1>4. x.run \in Runs /\ sess[x.run] \in Sessions
  BY <1>2, <1>3, RequestKinds, AtWorkHas
<1>5. FrameOK(Frame("state", x.run, sess[x.run].state))
  <2>1. sess[x.run].state \in States
    BY <1>4 DEF Sessions
  <2> QED BY <1>4, <2>1, FrameType
<1>6. Head(inbox) = x
  OBVIOUS
<1> HIDE DEF x
<1>7. NoPiece(r)
  <2>1. CASE UNCHANGED down
    BY <2>1 DEF NoPiece
  <2>2. CASE Broadcast(<<Frame("state", x.run, sess[x.run].state)>>)
    BY <1>1, <1>5, <2>2, NoPieceTold
  <2>3. ASSUME NEW b \in BOOLEAN, Broadcast(<<Frame("ack", x.run, b)>>) PROVE NoPiece(r)
    <3>1. FrameOK(Frame("ack", x.run, b))
      BY <1>4, FrameType
    <3> QED BY <1>1, <2>3, <3>1, NoPieceTold
  <2>4. ASSUME Broadcast(<<Frame("ack", x.run, FALSE)>>) \/ Broadcast(<<Frame("ack", x.run, TRUE)>>)
        PROVE  NoPiece(r)
    <3>1. \E b \in BOOLEAN : Broadcast(<<Frame("ack", x.run, b)>>)
      BY <2>4, Zenon
    <3> QED BY <2>3, <3>1
  <2> QED BY <1>3, <1>6, <2>1, <2>2, <2>4, ReadsShape
<1>8. CASE sess'[r].todo = sess[r].todo /\ sess'[r].given = sess[r].given
  BY <1>1, <1>7, <1>8, FitsQuiet
<1>9. CASE /\ x.kind = "message" /\ r = x.run /\ sess'[r].todo = Append(sess[r].todo, x.q)
           /\ sess'[r].given = sess[r].given
  <2>1. Ask(x, r) /\ x \in Queued
    BY <1>2, <1>9 DEF Ask, Queued
  <2>2. Len(inbox') \in Nat /\ Alone(r)
    BY <1>2, SeqFacts DEF Fits, OneMessage
  <2>3. ~Sought(r)'
    BY <1>1, <1>2, <2>1, <2>2, AloneRead
  <2> QED BY <1>1, <1>7, <1>9, <2>1, <2>3, FitsHeard
<1> QED BY <1>3, <1>6, <1>8, <1>9, ReadsShape

\* A session created for another run.
LEMMA FitsCreated ==
    ASSUME Calm, NEW r \in Runs, Fits(r), Known(r), NEW b \in {"page", "other"}, NEW q,
           NEW w \in Askers, CreatesOne(b, q, w)
    PROVE  Fits(r)'
<1>1. StateOK /\ StateOK' /\ Unasked /\ Last' = Last /\ Texts' = Texts /\ TextInv
  BY DEF Calm
<1>2. sess'[r] = sess[r]
  BY DEF Known, CreatesOne
<1>3. FrameOK(Denied(b))
      /\ \A t \in Runs : FrameOK(Created(t, w))
  BY FrameType
<1>4. NoPiece(r)
  <2>1. CASE Broadcast(<<Denied(b)>>)
    BY <1>1, <1>3, <2>1, NoPieceTold DEF Denied
  <2>2. CASE \E t \in Runs : Broadcast(<<Created(t, w)>>)
    <3>1. PICK t \in Runs : Broadcast(<<Created(t, w)>>)
      BY <2>2
    <3> QED BY <1>1, <1>3, <3>1, NoPieceTold DEF Created
  <2> QED BY <2>1, <2>2 DEF CreatesOne
<1> QED BY <1>1, <1>2, <1>4, FitsQuiet

\* The session this page asked for.
LEMMA FitsGranted ==
    ASSUME Page = "twin", Typed, KnownInv, CreateInv, Calm, Granting, NEW r \in Runs, Chosen(r)'
    PROVE  Fits(r)'
<1>1. StateOK /\ StateOK' /\ Unasked /\ Last' = Last /\ Texts' = Texts /\ TextInv
  BY DEF Calm
<1> DEFINE x == Head(inbox)
<1>2. x \in SetOf(inbox) /\ x \in Requests /\ x.kind = "create" /\ x.run = None
  BY <1>1, ReadShape, RequestKinds DEF Granting
<1>3. Ask(x, None) /\ Sought(None) /\ x.q = Last
  BY <1>2 DEF Ask, Sought, CreateInv, OneCreate
<1>4. conv.run = None /\ ~Replied /\ Unanswered /\ conv' = conv
  <2>1. conv' = conv
    BY ReadShape, <1>1 DEF Granting, page
  <2> QED BY <1>3, <2>1 DEF CreateInv, OneCreate
<1> DEFINE q == x.q
<1>7. CreatesOne("page", q, "page")
  BY <1>2, ReadsShape DEF Granting
<1>5. "page" \in Askers /\ "page" \in {"page", "other"}
  BY DEF Askers
<1>6. q = Last
  BY <1>3
<1> HIDE DEF x, q
<1>8. PICK f : f \in SetOf(down') /\ Introduces(f, r)
  BY <1>4, Numbers DEF Chosen
<1>9. f.kind = "created" /\ f.body.id = r /\ f \notin SetOf(down)
  BY <1>4, <1>8 DEF Introduces, Replied, Reply
<1>10. CASE Broadcast(<<Denied("page")>>)
  <2>1. f = Denied("page")
    BY <1>5, <1>8, <1>9, <1>10, FrameType, Told
  <2> QED BY <1>9, <2>1, CreateFields
<1>11. ASSUME NEW t \in Runs, sess[t].by = None, sess'[t] = Session("page", q),
              Broadcast(<<Created(t, "page")>>)
       PROVE  Fits(r)'
  <2> DEFINE g == Created(t, "page")
  <2>1. FrameOK(g) /\ g.kind = "created" /\ g.body.id = t /\ Broadcast(<<g>>)
    BY <1>5, <1>11, FrameType DEF Created, Frame
  <2> HIDE DEF g
  <2>2. down' = down \/ Longer(down', down, g)
    BY <1>1, <2>1, BroadcastShape
  <2>3. f = g
    BY <1>8, <1>9, <2>2 DEF Longer
  <2>4. r = t /\ sess'[r].todo = <<Last>> /\ sess'[r].given = 0
    BY <1>6, <1>9, <1>11, <2>1, <2>3 DEF Session
  <2> QED BY <1>1, <1>4, <1>11, <2>1, <2>2, <2>4, FitsFresh
<1> QED BY <1>7, <1>10, <1>11 DEF CreatesOne

\* The page reads a frame.
LEMMA FitsFrames ==
    ASSUME Page = "twin", ~Crossing, Typed, Typed', KnownInv, PlaceInv, Frames,
           Unasked, Last' = Last, NEW r \in Runs, Chosen(r)
    PROVE  Fits(r)'
<1> DEFINE f == Head(down)
<1>1. /\ sess' = sess /\ down # <<>> /\ Shorter(down', down) /\ f = down[1]
      /\ \/ TookCreated(f) \/ TookDenied(f) \/ TookResponse(f) \/ TookState(f) \/ TookOther(f)
  BY FramesShape DEF PlaceInv
<1>2. /\ TextNews /\ (Piece(f, conv.run) => f.body \in Texts')
  BY TextFrames
<1>3. StateOK /\ StateOK' /\ Fits(r) /\ CreateInv /\ TextInv
  BY DEF PlaceInv, PieceInv, Typed
<1>4. ~Deliver
  BY FramesOnly DEF PlaceInv
<1>5. \A x \in Texts' : x \in Texts \/ (Piece(f, conv.run) /\ x = f.body)
  BY <1>2, <1>4 DEF TextNews
<1>6. Texts \subseteq Texts'
  BY <1>2, <1>4 DEF TextNews
<1> HIDE DEF f
<1>7. CASE TookResponse(f)
  <2>1. Piece(f, conv.run) /\ conv.run \in Runs
    BY <1>7 DEF TookResponse, Piece
  <2>2. r = conv.run
    BY <1>3, <2>1, ChosenOnly, Numbers
  <2>3. Texts' = Texts \cup {f.body}
    BY <1>2, <1>5, <1>6, <2>1
  <2> QED BY <1>1, <1>3, <2>1, <2>2, <2>3, FitsRead
<1>8. CASE ~TookResponse(f)
  <2>1. ~Piece(f, conv.run)
    BY <1>1, <1>8 DEF TookCreated, TookDenied, TookState, TookOther, Piece
  <2>2. Texts' = Texts
    BY <1>5, <1>6, <2>1
  <2>3. NoPiece(r)
    BY <1>1 DEF NoPiece
  <2> QED BY <1>1, <1>3, <2>2, <2>3, FitsQuiet
<1> QED BY <1>7, <1>8

\* A question is delivered.
LEMMA FitsDeliver ==
    ASSUME Page = "twin", Typed, Typed', PlaceInv, Deliver, NEW r \in Runs, Chosen(r)'
    PROVE  Fits(r)'
<1>1. StateOK /\ StateOK' /\ CreateInv /\ TextInv
  BY DEF PlaceInv, Typed
<1>2. PICK q : q = twin.queued
  OBVIOUS
<1>3. /\ TextNews /\ q > 0 /\ q \in Nat /\ Last \in Nat /\ q = Last + 1 /\ q = asked /\ Last' = q
      /\ DeliveredNew(q) \/ (DeliveredOn(q) /\ conv.run \in Runs)
      /\ UNCHANGED <<sess, inbox, down>>
  BY <1>2, TextDeliver
<1>4. ~Replied
  BY <1>1, <1>2, <1>3 DEF CreateInv
<1>5. conv'.run = r
  BY <1>3, <1>4 DEF Chosen, Replied, Reply, Introduces
<1>6. DeliveredOn(q) /\ conv.run = r
  BY <1>3, <1>5, Numbers DEF DeliveredNew, DeliveredOn, SameConv
<1>7. Fits(r)
  BY <1>6 DEF PlaceInv, PieceInv, Chosen
<1>8. Whole(Last)
  <2>1. Last # 0
    BY <1>1, <1>6, Numbers DEF TextInv
  <2>2. Whole(asked - 1) \/ conv.error \/ conv.run = None \/ conv.state # "ready"
    BY <1>2, <1>3, <2>1 DEF PlaceInv, WaitInv
  <2>3. asked - 1 = Last
    BY <1>3
  <2> QED BY <1>6, <2>2, <2>3, Numbers DEF DeliveredOn
<1>9. \A x \in Texts' : x \in Texts \/ x = <<Last', 0>>
  <2>1. ~Frames
    BY FramesOnly DEF PlaceInv
  <2> QED BY <1>3, <2>1 DEF TextNews
<1> DEFINE y == Request("message", r, q)
<1>10. y.q = Last' /\ y.kind = "message" /\ y.run = r /\ (up' = up \/ Longer(up', up, y))
  BY <1>3, <1>6, Numbers DEF DeliveredOn, Request
<1> HIDE DEF y
<1>11. Last' = Last + 1 /\ UNCHANGED <<sess, down, inbox>>
  BY <1>3
<1> QED BY <1>1, <1>7, <1>8, <1>9, <1>10, <1>11, FitsDelivered

\* What is on its way to this page fits what it shows.
LEMMA PieceStep ==
    ASSUME Page = "twin", ~Crossing, Typed, Typed', KnownInv, PlaceInv,
           [Step]_state
    PROVE  PieceInv'
<1>1. StateOK /\ StateOK' /\ CreateInv /\ TextInv /\ PlainInv
  BY DEF PlaceInv, Typed
<1>2. SUFFICES ASSUME NEW r \in Runs, Chosen(r)' PROVE Fits(r)'
  BY DEF PieceInv
<1>3. CASE Deliver
  BY <1>2, <1>3, FitsDeliver
<1>4. ASSUME ~Deliver PROVE Last' = Last /\ Unasked /\ TextNews
  BY <1>1, <1>4, LastKept, UnaskedStep, TextStep
<1>5. ASSUME ~Deliver, ~Frames PROVE Calm
  <2>1. Texts' = Texts
    BY <1>4, <1>5 DEF TextNews
  <2> QED BY <1>1, <1>4, <1>5, <2>1 DEF Calm
<1>6. CASE ~Deliver /\ ~Frames /\ Granting
  BY <1>1, <1>2, <1>5, <1>6, FitsGranted
<1>7. ASSUME ~Deliver, ~Granting PROVE Chosen(r) /\ Fits(r) /\ Known(r)
  <2>1. Chosen(r)
    BY <1>1, <1>2, <1>7, ChosenStep
  <2>2. Fits(r)
    BY <2>1 DEF PlaceInv, PieceInv
  <2>3. Known(r)
    BY <1>2, <2>1, Numbers DEF Chosen, Introduces, KnownInv, FrameKnown
  <2> QED BY <2>1, <2>2, <2>3
<1>8. CASE Frames /\ ~Deliver /\ ~Granting
  BY <1>4, <1>7, <1>8, FitsFrames
<1>9. Frames => ~Granting
  BY <1>1, FramesOnly
<1>10. CASE ~Deliver /\ ~Frames /\ ~Granting
  <2>1. Fits(r) /\ Known(r) /\ Calm
    BY <1>5, <1>7, <1>10
  <2>2. CASE \E t \in Runs : Works(t) \/ SessionFails(t)
    BY <2>1, <2>2, FitsWorks
  <2>3. CASE RunnerReads
    BY <1>1, <1>10, <2>1, <2>3, FitsReads
  <2>4. CASE OtherCreates
    <3>1. PICK w \in Askers \ {"page"} : CreatesOne("other", 0, w)
      BY <2>4, OthersShape
    <3> QED BY <2>1, <3>1, FitsCreated
  <2>5. CASE RunnerLeaves
    <3>1. NoPiece(r)
      BY <1>1, <2>5, LeavesShape, FrameType, NoPieceTold
    <3>2. CASE UNCHANGED sess
      BY <2>1, <3>1, <3>2, FitsQuiet DEF Calm
    <3>3. CASE sess'[r].todo = <<>>
      BY <2>1, <3>1, <3>3, FitsEmptied DEF Calm
    <3> QED BY <2>5, <3>2, <3>3, LeavesShape
  <2>6. CASE sess' = sess /\ NoPiece(r)
    BY <2>1, <2>6, FitsQuiet DEF Calm
  <2>7. CASE Opens \/ Drops
    <3>1. (down' = <<>> \/ down' = <<Frame("connected", None, None)>>) /\ sess' = sess
      BY <2>7 DEF Opens, Drops, runner
    <3>2. \A g \in SetOf(down') : ~Piece(g, r)
      <4>1. SetOf(<<>>) = {}
        BY DEF SetOf
      <4>2. ASSUME NEW h, down' = <<h>>, h.kind = "connected" PROVE \A g \in SetOf(down') : ~Piece(g, r)
        <5>1. SetOf(<<h>>) = {h}
          BY DEF SetOf
        <5> QED BY <4>2, <5>1 DEF Piece
      <4>3. Frame("connected", None, None).kind = "connected"
        BY FrameFields
      <4> QED BY <3>1, <4>1, <4>2, <4>3
    <3> QED BY <2>6, <3>1, <3>2 DEF NoPiece
  <2>8. CASE RelayReads
    <3>1. PICK f : Longer(down', down, f) /\ f.kind = (IF here THEN "sent" ELSE "refused")
      BY <1>1, <2>8, RelayShape
    <3>2. ~Piece(f, r) /\ sess' = sess
      BY <2>8, <3>1 DEF Piece, RelayReads
    <3> QED BY <2>6, <3>1, <3>2 DEF NoPiece
  <2>9. CASE RetryFires \/ RunnerReturns \/ Submit \/ Forget \/ UNCHANGED state
    <3>1. down' = down /\ sess' = sess
      BY <2>9 DEF RetryFires, RunnerReturns, Submit, Forget, state, net, runner
    <3> QED BY <2>6, <3>1 DEF NoPiece
  <2> QED BY <1>10, <2>2, <2>3, <2>4, <2>5, <2>7, <2>8, <2>9, TwinSteps DEF RunnerSide, UserSide
<1> QED BY <1>3, <1>6, <1>8, <1>9, <1>10

\* Nothing is shown or asked at the start.
LEMMA PlaceInit ==
    ASSUME Page = "twin", Init
    PROVE  PlaceInv
<1>1. /\ up = <<>> /\ down = <<>> /\ inbox = <<>> /\ shown = <<>> /\ stream = <<>>
      /\ asked = 0 /\ twin = [queued |-> 0, has |-> FALSE]
      /\ conv = [run |-> None, loaded |-> None, pending |-> FALSE, state |-> "disconnected",
                 error |-> FALSE, generating |-> FALSE]
  BY DEF Init
<1>2. SetOf(<<>>) = {} /\ Len(<<>>) = 0 /\ 1 .. 0 = {}
  BY DEF SetOf
<1>3. /\ conv.run = None /\ ~conv.pending /\ conv.state = "disconnected"
      /\ twin.queued = 0 /\ ~twin.has
  BY <1>1
<1>4. Last = 0 /\ Texts = {}
  BY <1>1, <1>2, <1>3 DEF Last, Texts
<1>5. Placed
  BY <1>1, <1>2 DEF Placed
<1>6. TextInv /\ PlainInv
  BY <1>1, <1>2, <1>3, <1>4 DEF TextInv, PlainInv
<1>7. CreateInv
  BY <1>1, <1>2, <1>3 DEF CreateInv, OneCreate, Alone, Sought, Replied
<1>8. PieceInv
  BY <1>1, <1>2, <1>3, Numbers DEF PieceInv, Chosen
<1>9. EndInv /\ WaitInv
  BY <1>1, <1>2, <1>3 DEF EndInv, WaitInv
<1> QED BY <1>5, <1>6, <1>7, <1>8, <1>9 DEF PlaceInv

\* Every step keeps it.
LEMMA PlaceStep ==
    ASSUME Page = "twin", (asked' # asked => InTime), ~Crossing, Typed, Typed', KnownInv, PlaceInv,
           [Step]_state
    PROVE  PlaceInv'
<1>1. PlainInv
  BY DEF PlaceInv
<1>2. Placed' /\ TextInv' /\ PlainInv'
  BY <1>1, TextStep, PlainStep
<1>3. CreateInv' /\ PieceInv' /\ EndInv' /\ WaitInv'
  BY CreateStep, PieceStep, EndStep, WaitStep
<1> QED BY <1>2, <1>3 DEF PlaceInv

\* Nothing of it changes when nothing does.
LEMMA PlaceStays ==
    ASSUME PlaceInv, UNCHANGED state
    PROVE  PlaceInv'
<1>1. UNCHANGED <<conv, shown, stream, twin, asked, up, down, inbox, sess>>
  BY DEF state, page, net, runner
<1>2. Last' = Last /\ Texts' = Texts
  BY <1>1 DEF Last, Texts
<1>3. Placed'
  BY <1>1 DEF PlaceInv, Placed, LastAsk
<1>4. TextInv' /\ PlainInv'
  BY <1>1, <1>2 DEF PlaceInv, TextInv, PlainInv, Heads, Mark
<1>5. CreateInv'
  <2>1. /\ Sought(None)' = Sought(None) /\ Replied' = Replied /\ Alone(None)' = Alone(None)
        /\ Unanswered' = Unanswered
    BY <1>1, <1>2 DEF Sought, Replied, Alone, Unanswered
  <2> QED BY <1>1, <1>2, <2>1 DEF PlaceInv, CreateInv, OneCreate
<1>6. PieceInv'
  <2>1. ASSUME NEW r PROVE Chosen(r)' = Chosen(r) /\ Fits(r)' = Fits(r)
    <3>1. /\ Chosen(r)' = Chosen(r) /\ InOrder(r)' = InOrder(r) /\ Todo(r)' = Todo(r)
          /\ OneMessage(r)' = OneMessage(r)
      BY <1>1, <1>2 DEF Chosen, InOrder, Todo, OneMessage, Alone, Sought
    <3>2. Given(r)' = Given(r)
      BY <1>1, <1>2 DEF Given, Come, Sought
    <3> QED BY <3>1, <3>2 DEF Fits
  <2> QED BY <2>1 DEF PlaceInv, PieceInv
<1>7. \A r : Dead(r)' = Dead(r)
  BY <1>1 DEF Dead
<1>8. EndInv' /\ WaitInv'
  BY <1>1, <1>7 DEF PlaceInv, EndInv, WaitInv, Whole
<1> QED
  BY <1>3, <1>4, <1>5, <1>6, <1>8 DEF PlaceInv

\* In a conversation this page created every piece of an answer stands under
\* its own question (useChatWebSocket.ts:735), as long as no create of another
\* tab has crossed this page's and the user has asked when the page showed the
\* last answer in whole or its failure, no create unanswered; whatever sockets,
\* runners and sessions are lost meanwhile.
THEOREM AnswersPlaced ==
    ASSUME Page = "twin"
    PROVE  Spec => []CreatedPlaced
<1> DEFINE I == Typed /\ KnownInv /\ (hasty \/ crossed \/ PlaceInv)
<1>1. Init => I
  BY InitTyped, KnownInit, PlaceInit
<1>2. I /\ [Next]_vars => I'
  <2> SUFFICES ASSUME I, [Next]_vars PROVE I'
    OBVIOUS
  <2>1. Typed' /\ KnownInv' /\ [Step]_state
    BY NextTyped, KnownStep, PastStep
  <2>2. ASSUME ~hasty', ~crossed' PROVE PlaceInv'
    <3>1. PlaceInv /\ (asked' # asked => InTime) /\ (UNCHANGED state \/ ~Crossing)
      BY <2>2, PastStep
    <3> QED BY <2>1, <3>1, PlaceStep, PlaceStays
  <2> QED BY <2>1, <2>2
<1>3. I => CreatedPlaced
  BY DEF PlaceInv, CreatedPlaced
<1> HIDE DEF I
<1> QED
  BY <1>1, <1>2, <1>3, PTL DEF Spec
=============================================================================
