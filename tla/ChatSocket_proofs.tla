-------------------------- MODULE ChatSocket_proofs --------------------------
(***************************************************************************)
(* What the hook's guards and refs are worth, for any number of runners,    *)
(* calls, losses and refused tokens.  As long as no run of the effect       *)
(* overtakes a token fetch there is one connection under way at most, it    *)
(* leads to the page's runner, its intervals end with it, and a first open  *)
(* is not read as a reconnect: the refs of the hook name the last timer and *)
(* interval only, and the invariant Sound says that there never is another  *)
(* to name.  Whatever is overtaken, a run has one connection (Lines).       *)
(***************************************************************************)
EXTENDS ChatSocket, TLAPS

(* No two connections under way, and none without a runner.                 *)
Single ==
    /\ \A i \in Efforts \cup timers : \A j \in Efforts \cup timers : i = j
    /\ Efforts \cap timers = {}
    /\ runner = NoRunner => Efforts \cup timers = {}

(* What is under way belongs to the last run of the effect.                 *)
Current == \A i \in Efforts \cup timers : calls[i].to = runner /\ calls[i].run = run

(* wsRef holds the one socket that lives.                                   *)
Held ==
    /\ ws # 0 => Live(ws)
    /\ \A i \in Ids : Live(i) => ws = i

(* The refs name the one timer and the one interval there is.               *)
Armed ==
    /\ timers \subseteq {timerRef}
    /\ \A t \in timers : calls[t].phase \in {"lost", "closed"}
Pinging ==
    /\ pings \subseteq {pingRef}
    /\ \A i \in pings : i = ws /\ Open(i)

(* hasConnectedRef is set while, or after, a socket of this run is admitted. *)
Remembered ==
    admitted => \/ \E j \in Ids : calls[j].run = run /\ calls[j].phase = "lost"
                \/ ws # 0 /\ calls[ws].phase = "admitted"
Reopened == \A i \in reopened : AfterLoss(i)
Marked == Reopened /\ \A i \in reopened : calls[i].phase # "unused"

Sound ==
    /\ StateOK /\ Single /\ Current /\ Held
    /\ Armed /\ Pinging /\ Remembered /\ Marked
-----------------------------------------------------------------------------
(* What a step leaves of the calls. *)

Call == [to : Runners \cup {NoRunner}, run : 0 .. MaxRuns, phase : Phases]

LEMMA Numbers ==
    /\ 0 \in Refs /\ 0 \notin Ids /\ Ids \subseteq Refs
    /\ 0 \in 0 .. MaxRuns /\ 0 \in Nat
  BY SocketAssumption DEF Refs, Ids

LEMMA PhaseSet ==
    ASSUME StateOK, NEW i \in Ids, NEW p \in Phases, To(i, p)
    PROVE  /\ calls' \in [Ids -> Call]
           /\ \A j \in Ids : /\ calls'[j].to = calls[j].to
                             /\ calls'[j].run = calls[j].run
                             /\ calls'[j].phase = IF j = i THEN p ELSE calls[j].phase
  BY DEF StateOK, To, Call

LEMMA CleanedCalls ==
    ASSUME StateOK
    PROVE  /\ Cleaned \in [Ids -> Call]
           /\ \A j \in Ids : /\ Cleaned[j].to = calls[j].to
                             /\ Cleaned[j].run = calls[j].run
                             /\ Cleaned[j].phase = IF j = ws THEN "closed" ELSE calls[j].phase
  <1>1. CASE ws = 0
    BY <1>1 DEF StateOK, Cleaned, Call, Ids
  <1>2. CASE ws # 0
    <2>1. ws \in Ids
      BY <1>2, SocketAssumption DEF StateOK, Refs, Ids
    <2>2. Cleaned = [calls EXCEPT ![ws].phase = "closed"]
      BY <1>2 DEF Cleaned
    <2> QED
      BY <2>1, <2>2 DEF StateOK, Call, Phases
  <1> QED
    BY <1>1, <1>2

LEMMA CallAdded ==
    ASSUME NEW f \in [Ids -> Call], NEW i \in Ids, NEW c \in Call, f[i].phase = "unused",
           calls' = [f EXCEPT ![i] = c]
    PROVE  /\ calls' \in [Ids -> Call]
           /\ calls'[i] = c
           /\ \A j \in Ids : j # i => calls'[j] = f[j]
  OBVIOUS

\* A socket or a call that counts has been made.
LEMMA Used ==
    ASSUME NEW i \in Ids, i \in Efforts
    PROVE  calls[i].phase \in {"token", "opening", "open", "admitted"}
  BY DEF Efforts, Live

\* The one effort there is excludes a timer.
LEMMA NoTimers ==
    ASSUME Single, NEW i \in Efforts
    PROVE  timers = {} /\ \A j \in Efforts : j = i
  BY DEF Single

LEMMA NoEfforts ==
    ASSUME Single, NEW t \in timers
    PROVE  Efforts = {} /\ timers = {t}
  BY DEF Single
-----------------------------------------------------------------------------
(* One lemma per action. *)

LEMMA InitSound == Init => Sound
  <1> SUFFICES ASSUME Init PROVE Sound
    OBVIOUS
  <1>1. \A i \in Ids : calls[i] = Unused
    BY DEF Init
  <1>2. Efforts = {} /\ timers = {}
    BY <1>1 DEF Init, Efforts, Live, Unused
  <1>3. StateOK
    <2>1. Unused \in Call
      BY Numbers DEF Unused, Call, Phases
    <2>2. calls \in [Ids -> Call]
      BY <2>1 DEF Init
    <2>3. faults \in [drops : Nat, failures : Nat, refusals : Nat]
      BY DEF Init
    <2> QED
      BY <2>2, <2>3, Numbers DEF Init, StateOK, Call
  <1>4. Single /\ Current
    BY <1>2 DEF Single, Current
  <1>5. Held /\ Armed /\ Pinging /\ Remembered /\ Marked
    BY <1>1, <1>2 DEF Init, Held, Armed, Pinging, Remembered, Marked, Reopened, AfterLoss, Live, Unused
  <1> QED
    BY <1>3, <1>4, <1>5 DEF Sound

\* The losses before a run of the effect are the losses after it.
LEMMA MarksKept ==
    ASSUME StateOK, Marked, reopened' = reopened, calls' \in [Ids -> Call],
           \A j \in Ids : calls[j].phase # "unused" => calls'[j].run = calls[j].run,
           \A j \in Ids : calls[j].phase = "lost" => calls'[j].phase = "lost",
           \A j \in Ids : calls[j].phase # "unused" => calls'[j].phase # "unused"
    PROVE  Marked'
  <1>1. reopened \subseteq Ids
    BY DEF StateOK
  <1>2. ASSUME NEW i \in reopened
        PROVE  /\ calls'[i].phase # "unused"
               /\ \E j \in Ids : j # i /\ calls'[j].run = calls'[i].run /\ calls'[j].phase = "lost"
    <2>1. calls[i].phase # "unused" /\ calls'[i].run = calls[i].run
      BY <1>1, <1>2 DEF Marked
    <2>2. PICK j \in Ids : j # i /\ calls[j].run = calls[i].run /\ calls[j].phase = "lost"
      BY <1>2 DEF Marked, Reopened, AfterLoss
    <2>3. calls[j].phase # "unused"
      BY <2>2
    <2> QED
      BY <1>1, <1>2, <2>1, <2>2, <2>3
  <1> QED
    BY <1>2 DEF Marked, Reopened, AfterLoss

LEMMA EffectSound ==
    ASSUME Sound, AwaitingToken = {}, NEW r \in Runners \cup {NoRunner}, EffectRuns(r)
    PROVE  Sound'
  <1> USE DEF Sound
  <1>1. /\ Cleaned \in [Ids -> Call]
        /\ \A j \in Ids : /\ Cleaned[j].to = calls[j].to
                          /\ Cleaned[j].run = calls[j].run
                          /\ Cleaned[j].phase = IF j = ws THEN "closed" ELSE calls[j].phase
    BY CleanedCalls
  <1>2. \A j \in Ids : Cleaned[j].phase \in {"unused", "lost", "closed"}
    <2> SUFFICES ASSUME NEW j \in Ids
                 PROVE  Cleaned[j].phase \in {"unused", "lost", "closed"}
      OBVIOUS
    <2>1. calls[j].phase # "token"
      BY DEF AwaitingToken
    <2>2. calls[j].phase \in Phases
      BY DEF StateOK
    <2>3. Live(j) => ws = j
      BY DEF Held
    <2> QED
      BY <1>1, <2>1, <2>2, <2>3 DEF Live, Phases
  <1>3. timers' = {} /\ pings' = {} /\ ws' = 0 /\ admitted' = FALSE /\ reopened' = reopened
    BY DEF EffectRuns, TimersCleared, PingsCleared, Armed, Pinging
  <1>4. run' \in 0 .. MaxRuns /\ runner' = r
    BY SocketAssumption DEF EffectRuns, StateOK
  <1>5. \A j \in Ids : calls[j].phase = "lost" \/ calls[j].phase = "unused" => j # ws
    BY Numbers DEF Held, Live
  <1>6. \A j \in Ids : /\ calls[j].phase = "lost" => Cleaned[j].phase = "lost"
                       /\ calls[j].phase = "unused" => Cleaned[j].phase = "unused"
                       /\ calls[j].phase # "unused" => Cleaned[j].phase # "unused"
    BY <1>1, <1>5
  <1>7. CASE r = NoRunner
    <2>1. calls' = Cleaned
      BY <1>7 DEF EffectRuns
    <2>2. \A j \in Ids : ~Live(j)' /\ calls'[j].phase # "token"
      BY <1>2, <2>1 DEF Live
    <2>3. Efforts' = {}
      BY <2>2 DEF Efforts
    <2>4. StateOK'
      BY <1>1, <1>3, <1>4, <2>1, Numbers DEF EffectRuns, StateOK, Call
    <2>5. Single' /\ Current'
      BY <1>3, <2>3 DEF Single, Current
    <2>6. Held' /\ Armed' /\ Pinging' /\ Remembered'
      BY <1>3, <2>2 DEF Held, Armed, Pinging, Remembered
    <2>7. Marked'
      BY <1>1, <1>3, <1>6, <2>1, MarksKept
    <2> QED
      BY <2>4, <2>5, <2>6, <2>7
  <1>8. CASE r # NoRunner
    <2> DEFINE c == [to |-> r, run |-> run', phase |-> "token"]
    <2>1. PICK i \in Ids : calls[i] = Unused /\ calls' = [Cleaned EXCEPT ![i] = c]
      BY <1>8 DEF EffectRuns
    <2>2. c \in Call
      BY <1>4 DEF Call, Phases
    <2>3. calls[i].phase = "unused"
      BY <2>1 DEF Unused
    <2>4. Cleaned[i].phase = "unused"
      BY <1>6, <2>3
    <2>5. /\ calls' \in [Ids -> Call]
          /\ calls'[i] = c
          /\ \A j \in Ids : j # i => calls'[j] = Cleaned[j]
      BY <1>1, <2>1, <2>2, <2>4, CallAdded
    <2>6. \A j \in Ids : ~Live(j)' /\ (calls'[j].phase = "token" => j = i)
      BY <1>2, <2>5 DEF Live
    <2>7. Efforts' \subseteq {i}
      BY <2>6 DEF Efforts
    <2>8. StateOK'
      BY <1>3, <1>4, <2>5, Numbers DEF EffectRuns, StateOK, Call
    <2>9. Single'
      BY <1>3, <1>4, <1>8, <2>7 DEF Single
    <2>10. Current'
      BY <1>3, <1>4, <2>5, <2>7 DEF Current
    <2>11. Held' /\ Armed' /\ Pinging' /\ Remembered'
      BY <1>3, <2>6 DEF Held, Armed, Pinging, Remembered
    <2>12. Marked'
      BY <1>1, <1>3, <1>6, <2>3, <2>5, MarksKept
    <2> QED
      BY <2>8, <2>9, <2>10, <2>11, <2>12
  <1> QED
    BY <1>7, <1>8

\* The effort an action takes is the only one, and of the current run.
LEMMA TheEffort ==
    ASSUME Sound, NEW i \in Ids, calls[i].phase \in {"token", "opening", "open", "admitted"}
    PROVE  /\ i \in Efforts /\ timers = {}
           /\ runner # NoRunner /\ calls[i].to = runner /\ calls[i].run = run
           /\ \A j \in Ids : j # i => calls[j].phase \in {"unused", "lost", "closed"}
  <1>1. i \in Efforts
    BY DEF Efforts, Live
  <1>2. timers = {} /\ \A j \in Efforts : j = i
    BY <1>1, NoTimers DEF Sound
  <1>3. runner # NoRunner
    BY <1>1 DEF Sound, Single
  <1>4. calls[i].to = runner /\ calls[i].run = run
    BY <1>1 DEF Sound, Current
  <1>5. ASSUME NEW j \in Ids, j # i
        PROVE  calls[j].phase \in {"unused", "lost", "closed"}
    <2>1. j \notin Efforts
      BY <1>2, <1>5
    <2>2. calls[j].phase \in Phases
      BY DEF Sound, StateOK
    <2> QED
      BY <1>5, <2>1, <2>2 DEF Efforts, Live, Phases
  <1> QED
    BY <1>1, <1>2, <1>3, <1>4, <1>5

\* After a step of the only effort it is still the only one, or there is none.
LEMMA EffortStep ==
    ASSUME Sound, NEW i \in Ids, calls[i].phase \in {"token", "opening", "open", "admitted"},
           NEW p \in Phases, To(i, p), UNCHANGED <<runner, run>>,
           timers' = {} \/ (timers' = {i} /\ p \in {"lost", "closed"})
    PROVE  /\ Single' /\ Current'
           /\ calls' \in [Ids -> Call]
           /\ \A j \in Ids : Live(j)' <=> (j = i /\ p \in {"opening", "open", "admitted"})
  <1>1. /\ runner # NoRunner /\ calls[i].to = runner /\ calls[i].run = run
        /\ \A j \in Ids : j # i => calls[j].phase \in {"unused", "lost", "closed"}
    BY TheEffort
  <1>2. /\ calls' \in [Ids -> Call]
        /\ \A j \in Ids : /\ calls'[j].to = calls[j].to
                          /\ calls'[j].run = calls[j].run
                          /\ calls'[j].phase = IF j = i THEN p ELSE calls[j].phase
    BY PhaseSet DEF Sound
  <1>3. \A j \in Ids : j # i => calls'[j].phase \in {"unused", "lost", "closed"}
    BY <1>1, <1>2
  <1>4. calls'[i].phase = p
    BY <1>2
  <1>5. \A j \in Ids : Live(j)' <=> (j = i /\ p \in {"opening", "open", "admitted"})
    BY <1>3, <1>4 DEF Live
  <1>6. Efforts' = IF p \in {"token", "opening", "open", "admitted"} THEN {i} ELSE {}
    BY <1>3, <1>4, <1>5 DEF Efforts
  <1>7. (Efforts' \cup timers') \subseteq {i} /\ Efforts' \cap timers' = {}
    BY <1>6
  <1>8. Single'
    BY <1>1, <1>7 DEF Single
  <1>9. Current'
    BY <1>1, <1>2, <1>7 DEF Current
  <1> QED
    BY <1>2, <1>5, <1>8, <1>9

LEMMA PhaseMarks ==
    ASSUME Sound, NEW i \in Ids, calls[i].phase \in {"token", "opening", "open", "admitted"},
           NEW p \in Phases \ {"unused"}, To(i, p), reopened' = reopened
    PROVE  Marked'
  <1>1. /\ calls' \in [Ids -> Call]
        /\ \A j \in Ids : /\ calls'[j].run = calls[j].run
                          /\ calls'[j].phase = IF j = i THEN p ELSE calls[j].phase
    BY PhaseSet DEF Sound
  <1>2. \A j \in Ids : calls[j].phase = "lost" => calls'[j].phase = "lost"
    BY <1>1
  <1>3. \A j \in Ids : calls[j].phase # "unused" => calls'[j].phase # "unused"
    BY <1>1
  <1> QED
    BY <1>1, <1>2, <1>3, MarksKept DEF Sound

\* A loss of this run of the effect is not forgotten.
LossBefore == \E j \in Ids : calls[j].run = run /\ calls[j].phase = "lost"
LEMMA LossKept ==
    ASSUME Sound, LossBefore, NEW i \in Ids, calls[i].phase # "lost",
           NEW p \in Phases, To(i, p), run' = run
    PROVE  LossBefore'
  <1>1. PICK j \in Ids : calls[j].run = run /\ calls[j].phase = "lost"
    BY DEF LossBefore
  <1>2. calls'[j].run = calls[j].run /\ calls'[j].phase = "lost"
    BY <1>1, PhaseSet DEF Sound
  <1> QED
    BY <1>1, <1>2 DEF LossBefore

LEMMA TokenGrantedSound ==
    ASSUME Sound, NEW i \in Ids, TokenGranted(i)
    PROVE  Sound'
  <1>1. calls[i].phase = "token" /\ To(i, "opening") /\ "opening" \in Phases \ {"unused"}
    BY DEF TokenGranted, Phases
  <1>2. timers = {} /\ timers' = {}
    BY <1>1, TheEffort DEF TokenGranted
  <1>3. /\ Single' /\ Current' /\ calls' \in [Ids -> Call]
        /\ \A j \in Ids : Live(j)' <=> j = i
    BY <1>1, <1>2, EffortStep DEF TokenGranted
  <1>4. StateOK'
    BY <1>3, Numbers DEF Sound, StateOK, TokenGranted, flags, Call
  <1>5. Held'
    BY <1>3 DEF Held, TokenGranted
  <1>6. ws = 0
    <2>1. \A j \in Ids : calls[j].phase \notin {"opening", "open", "admitted"}
      BY <1>1, TheEffort
    <2>2. ws # 0 => ws \in Ids
      BY SocketAssumption DEF Sound, StateOK, Refs, Ids
    <2> QED
      BY <2>1, <2>2 DEF Sound, Held, Live
  <1>7. Pinging'
    <2>1. pings = {}
      BY <1>6, Numbers DEF Sound, Pinging, StateOK
    <2> QED
      BY <2>1 DEF Pinging, TokenGranted
  <1>8. Armed'
    BY <1>2 DEF Armed
  <1>9. Remembered'
    <2> SUFFICES ASSUME admitted PROVE LossBefore'
      BY DEF Remembered, LossBefore, TokenGranted, flags
    <2>1. LossBefore
      BY <1>6 DEF Sound, Remembered, LossBefore
    <2> QED
      BY <1>1, <2>1, LossKept DEF TokenGranted
  <1>10. Marked'
    BY <1>1, PhaseMarks DEF TokenGranted, flags
  <1> QED
    BY <1>3, <1>4, <1>5, <1>7, <1>8, <1>9, <1>10 DEF Sound

LEMMA TokenRefusedSound ==
    ASSUME Sound, NEW i \in Ids, TokenRefused(i)
    PROVE  Sound'
  <1>1. calls[i].phase = "token" /\ To(i, "closed") /\ "closed" \in Phases \ {"unused"}
    BY DEF TokenRefused, Phases
  <1>2. timers = {} /\ timers' = {}
    BY <1>1, TheEffort DEF TokenRefused, refs
  <1>3. /\ Single' /\ Current' /\ calls' \in [Ids -> Call]
        /\ \A j \in Ids : ~Live(j)'
    BY <1>1, <1>2, EffortStep DEF TokenRefused
  <1>4. faults' \in [drops : Nat, failures : Nat, refusals : Nat]
    BY DEF Sound, StateOK, TokenRefused
  <1>5. StateOK'
    BY <1>3, <1>4 DEF Sound, StateOK, TokenRefused, refs, flags, Call
  <1>6. ws = 0
    <2>1. \A j \in Ids : calls[j].phase \notin {"opening", "open", "admitted"}
      BY <1>1, TheEffort
    <2>2. ws # 0 => ws \in Ids
      BY SocketAssumption DEF Sound, StateOK, Refs, Ids
    <2> QED
      BY <2>1, <2>2 DEF Sound, Held, Live
  <1>7. Held'
    BY <1>3, <1>6 DEF Held, TokenRefused, refs
  <1>8. pings = {}
    BY <1>6, Numbers DEF Sound, Pinging, StateOK
  <1>9. Pinging' /\ Armed'
    BY <1>2, <1>8 DEF Pinging, Armed, TokenRefused, refs
  <1>10. Remembered'
    <2> SUFFICES ASSUME admitted PROVE LossBefore'
      BY DEF Remembered, LossBefore, TokenRefused, flags
    <2>1. LossBefore
      BY <1>6 DEF Sound, Remembered, LossBefore
    <2> QED
      BY <1>1, <2>1, LossKept DEF TokenRefused
  <1>11. Marked'
    BY <1>1, PhaseMarks DEF TokenRefused, flags
  <1> QED
    BY <1>3, <1>5, <1>7, <1>9, <1>10, <1>11 DEF Sound

\* A socket that lives is the one wsRef holds.
LEMMA LiveHeld ==
    ASSUME Sound, NEW i \in Ids, calls[i].phase \in {"opening", "open", "admitted"}
    PROVE  ws = i
  BY DEF Sound, Held, Live

LEMMA OpenedSound ==
    ASSUME Sound, NEW i \in Ids, Opened(i)
    PROVE  Sound'
  <1>1. calls[i].phase = "opening" /\ To(i, "open") /\ "open" \in Phases \ {"unused"}
    BY DEF Opened, Phases
  <1>2. ws = i /\ ws' = i
    BY <1>1, LiveHeld DEF Opened
  <1>3. /\ connected' = TRUE /\ attempts' = 0 /\ admitted' = admitted
        /\ reopened' = IF admitted THEN reopened \cup {i} ELSE reopened
        /\ pings' = pings \cup {i} /\ pingRef' = i
    BY <1>2 DEF Opened, AttemptsAfterOpen, OpenIsReconnect
  <1>4. timers = {} /\ timers' = {}
    BY <1>1, TheEffort DEF Opened
  <1>5. /\ Single' /\ Current' /\ calls' \in [Ids -> Call]
        /\ \A j \in Ids : Live(j)' <=> j = i
    BY <1>1, <1>4, EffortStep DEF Opened
  <1>6. StateOK'
    BY <1>3, <1>5, Numbers DEF Sound, StateOK, Opened, Call
  <1>7. Held' /\ Armed'
    BY <1>2, <1>4, <1>5 DEF Held, Armed
  <1>8. Pinging'
    <2>1. pings = {}
      BY <1>1, <1>2 DEF Sound, Pinging, Open
    <2>2. Open(i)'
      BY <1>1, PhaseSet DEF Open, Sound
    <2> QED
      BY <1>2, <1>3, <2>1, <2>2 DEF Pinging
  <1>9. admitted => LossBefore
    BY <1>1, <1>2 DEF Sound, Remembered, LossBefore
  <1>10. admitted => LossBefore'
    BY <1>1, <1>9, LossKept DEF Opened
  <1>11. Remembered'
    BY <1>3, <1>10 DEF Remembered, LossBefore
  <1>12. Marked'
    <2>1. CASE ~admitted
      BY <1>1, <1>3, <2>1, PhaseMarks
    <2>2. CASE admitted
      <3>1. /\ calls' \in [Ids -> Call]
            /\ \A j \in Ids : /\ calls'[j].run = calls[j].run
                              /\ calls'[j].phase = IF j = i THEN "open" ELSE calls[j].phase
        BY <1>1, PhaseSet DEF Sound
      <3>2. reopened \subseteq Ids /\ reopened' = reopened \cup {i}
        BY <1>3, <2>2 DEF Sound, StateOK
      <3>3. ASSUME NEW k \in reopened
            PROVE  /\ calls'[k].phase # "unused"
                   /\ \E j \in Ids : j # k /\ calls'[j].run = calls'[k].run
                                     /\ calls'[j].phase = "lost"
        <4>1. calls[k].phase # "unused"
          BY <3>3 DEF Sound, Marked
        <4>2. PICK j \in Ids : j # k /\ calls[j].run = calls[k].run /\ calls[j].phase = "lost"
          BY <3>3 DEF Sound, Marked, Reopened, AfterLoss
        <4> QED
          BY <1>1, <3>1, <3>2, <4>1, <4>2
      <3>4. /\ calls'[i].phase # "unused"
            /\ \E j \in Ids : j # i /\ calls'[j].run = calls'[i].run /\ calls'[j].phase = "lost"
        <4>1. PICK j \in Ids : calls'[j].run = run' /\ calls'[j].phase = "lost"
          BY <1>10, <2>2 DEF LossBefore
        <4>2. calls[i].run = run /\ run' = run
          BY <1>1, TheEffort DEF Opened
        <4>3. calls'[i].phase = "open" /\ calls'[i].run = run'
          BY <3>1, <4>2
        <4> QED
          BY <4>1, <4>3
      <3> QED
        BY <3>2, <3>3, <3>4 DEF Marked, Reopened, AfterLoss
    <2> QED
      BY <2>1, <2>2
  <1> QED
    BY <1>5, <1>6, <1>7, <1>8, <1>11, <1>12 DEF Sound

LEMMA AdmittedSound ==
    ASSUME Sound, NEW i \in Ids, Admitted(i)
    PROVE  Sound'
  <1>1. calls[i].phase = "open" /\ To(i, "admitted") /\ "admitted" \in Phases \ {"unused"}
    BY DEF Admitted, Phases
  <1>2. ws = i /\ ws' = i
    BY <1>1, LiveHeld DEF Admitted, refs
  <1>3. timers = {} /\ timers' = {}
    BY <1>1, TheEffort DEF Admitted, refs
  <1>4. /\ Single' /\ Current' /\ calls' \in [Ids -> Call]
        /\ \A j \in Ids : Live(j)' <=> j = i
    BY <1>1, <1>3, EffortStep DEF Admitted
  <1>5. admitted' \in BOOLEAN
    BY DEF Admitted
  <1>6. StateOK'
    BY <1>4, <1>5 DEF Sound, StateOK, Admitted, refs, Call
  <1>7. Held' /\ Armed'
    BY <1>2, <1>3, <1>4 DEF Held, Armed
  <1>8. calls'[i].phase = "admitted"
    BY <1>1, PhaseSet DEF Sound
  <1>9. Pinging'
    BY <1>2, <1>8 DEF Sound, Pinging, Open, Admitted, refs
  <1>10. Remembered'
    BY <1>2, <1>8, Numbers DEF Remembered
  <1>11. Marked'
    BY <1>1, PhaseMarks DEF Admitted
  <1> QED
    BY <1>4, <1>6, <1>7, <1>9, <1>10, <1>11 DEF Sound

LEMMA LostSound ==
    ASSUME Sound, NEW i \in Ids, Lost(i)
    PROVE  Sound'
  <1> DEFINE p == IF calls[i].phase = "admitted" THEN "lost" ELSE "closed"
  <1>1. /\ calls[i].phase \in {"opening", "open", "admitted"}
        /\ To(i, p) /\ p \in Phases \ {"unused"} /\ p \in {"lost", "closed"}
    BY DEF Lost, Live, Phases
  <1>2. ws = i
    BY <1>1, LiveHeld
  <1>3. /\ ws' = 0 /\ connected' = FALSE
        /\ pings' = PingsCleared /\ pingRef' = 0
        /\ UNCHANGED <<attempts, admitted, reopened, runner, run>>
        /\ IF MayRetry THEN timers' = timers \cup {i} /\ timerRef' = i
           ELSE UNCHANGED <<timers, timerRef>>
    BY <1>2 DEF Lost
  <1>4. timers = {}
    BY <1>1, TheEffort
  <1>5. timers' = {} \/ timers' = {i}
    BY <1>3, <1>4
  <1>6. /\ Single' /\ Current' /\ calls' \in [Ids -> Call]
        /\ \A j \in Ids : ~Live(j)'
    <2> HIDE DEF p
    <2> QED
      BY <1>1, <1>3, <1>5, EffortStep
  <1>7. calls'[i].phase \in {"lost", "closed"}
    BY <1>1, PhaseSet DEF Sound
  <1>8. faults' \in [drops : Nat, failures : Nat, refusals : Nat]
    <2>1. faults \in [drops : Nat, failures : Nat, refusals : Nat]
      BY DEF Sound, StateOK
    <2>2. \/ faults' = [faults EXCEPT !.drops = @ + 1]
          \/ faults' = [faults EXCEPT !.failures = @ + 1]
      BY DEF Lost
    <2> QED
      BY <2>1, <2>2
  <1>9. pings' = {}
    BY <1>3 DEF Sound, Pinging, PingsCleared
  <1>10. StateOK'
    <2>1. timerRef' \in Refs /\ timers' \subseteq Ids
      BY <1>3, <1>4, Numbers DEF Sound, StateOK
    <2> QED
      BY <1>3, <1>6, <1>8, <1>9, <2>1, Numbers DEF Sound, StateOK, Call
  <1>11. Held' /\ Pinging'
    BY <1>3, <1>6, <1>9 DEF Held, Pinging
  <1>12. Armed'
    <2>1. CASE MayRetry
      BY <1>3, <1>4, <1>7, <2>1 DEF Armed, MayRetry
    <2>2. CASE ~MayRetry
      BY <1>3, <1>4, <2>2 DEF Armed
    <2> QED
      BY <2>1, <2>2
  <1>13. Remembered'
    <2> SUFFICES ASSUME admitted PROVE LossBefore'
      BY <1>3 DEF Remembered, LossBefore
    <2>1. CASE calls[i].phase = "admitted"
      <3>1. calls'[i].phase = "lost" /\ calls'[i].run = calls[i].run
        BY <1>1, <2>1, PhaseSet DEF Sound
      <3>2. calls[i].run = run'
        BY <1>1, <1>3, TheEffort
      <3> QED
        BY <3>1, <3>2 DEF LossBefore
    <2>2. CASE calls[i].phase # "admitted"
      <3>1. LossBefore
        BY <1>2, <2>2 DEF Sound, Remembered, LossBefore
      <3> QED
        BY <1>1, <1>3, <3>1, LossKept
    <2> QED
      BY <2>1, <2>2
  <1>14. Marked'
    <2> HIDE DEF p
    <2> QED
      BY <1>1, <1>3, PhaseMarks
  <1> QED
    BY <1>6, <1>10, <1>11, <1>12, <1>13, <1>14 DEF Sound

LEMMA TimerFiresSound ==
    ASSUME Sound, NEW t \in Ids, TimerFires(t)
    PROVE  Sound'
  <1>1. t \in timers
    BY DEF TimerFires
  <1>2. Efforts = {} /\ timers = {t} /\ timers' = {}
    <2>1. Efforts = {} /\ timers = {t}
      BY <1>1, NoEfforts DEF Sound
    <2> QED
      BY <2>1 DEF TimerFires
  <1>3. runner # NoRunner /\ calls[t].to = runner /\ calls[t].run = run
    <2>1. runner # NoRunner
      BY <1>1 DEF Sound, Single
    <2>2. calls[t].to = runner /\ calls[t].run = run
      BY <1>1 DEF Sound, Current
    <2> QED
      BY <2>1, <2>2
  <1> DEFINE c == [to |-> calls[t].to, run |-> calls[t].run, phase |-> "token"]
  <1>4. PICK i \in Ids : calls[i] = Unused /\ calls' = [calls EXCEPT ![i] = c]
    BY DEF TimerFires
  <1>5. calls \in [Ids -> Call] /\ calls[i].phase = "unused" /\ c \in Call
    <2>1. calls \in [Ids -> Call]
      BY DEF Sound, StateOK, Call
    <2>2. calls[t] \in Call
      BY <2>1
    <2> QED
      BY <1>4, <2>1, <2>2 DEF Unused, Call, Phases
  <1>6. /\ calls' \in [Ids -> Call]
        /\ calls'[i] = c
        /\ \A j \in Ids : j # i => calls'[j] = calls[j]
    BY <1>4, <1>5, CallAdded
  <1>7. \A j \in Ids : calls[j].phase \notin {"token", "opening", "open", "admitted"}
    BY <1>2 DEF Efforts, Live
  <1>8. \A j \in Ids : ~Live(j)' /\ (calls'[j].phase = "token" => j = i)
    BY <1>6, <1>7 DEF Live
  <1>9. Efforts' \subseteq {i}
    BY <1>8 DEF Efforts
  <1>10. runner' = runner /\ run' = run
    BY DEF TimerFires
  <1>11. Single' /\ Current'
    <2>1. Single'
      BY <1>2, <1>3, <1>9, <1>10 DEF Single
    <2>2. Current'
      BY <1>2, <1>3, <1>6, <1>9, <1>10 DEF Current
    <2> QED
      BY <2>1, <2>2
  <1>12. attempts' \in Nat
    BY DEF Sound, StateOK, TimerFires
  <1>13. StateOK'
    BY <1>2, <1>6, <1>12 DEF Sound, StateOK, TimerFires, Call
  <1>14. ws = 0 /\ ws' = 0
    <2>1. ws # 0 => ws \in Ids
      BY SocketAssumption DEF Sound, StateOK, Refs, Ids
    <2>2. ws = 0
      BY <1>7, <2>1 DEF Sound, Held, Live
    <2> QED
      BY <2>2 DEF TimerFires
  <1>15. pings = {} /\ pings' = {}
    BY <1>14, Numbers DEF Sound, Pinging, StateOK, TimerFires
  <1>16. Held' /\ Armed' /\ Pinging'
    BY <1>2, <1>8, <1>14, <1>15 DEF Held, Armed, Pinging
  <1>17. Remembered'
    <2> SUFFICES ASSUME admitted PROVE LossBefore'
      BY DEF Remembered, LossBefore, TimerFires
    <2>1. PICK j \in Ids : calls[j].run = run /\ calls[j].phase = "lost"
      BY <1>14 DEF Sound, Remembered
    <2>2. calls'[j] = calls[j]
      BY <1>5, <1>6, <2>1
    <2> QED
      BY <1>10, <2>1, <2>2 DEF LossBefore
  <1>18. Marked'
    <2>1. \A j \in Ids : calls[j].phase # "unused" => calls'[j] = calls[j]
      BY <1>5, <1>6
    <2>2. reopened' = reopened
      BY DEF TimerFires
    <2> QED
      BY <1>6, <2>1, <2>2, MarksKept DEF Sound
  <1> QED
    BY <1>11, <1>13, <1>16, <1>17, <1>18 DEF Sound
-----------------------------------------------------------------------------
(* The invariant, and what it is for. *)

LEMMA StepSound ==
    ASSUME Sound, Step, run' = run \/ AwaitingToken = {}
    PROVE  Sound'
  <1>1. ASSUME NEW r \in Runners \cup {NoRunner}, EffectRuns(r) PROVE Sound'
    <2>1. run' = run + 1 /\ run \in Nat
      BY <1>1, SocketAssumption DEF EffectRuns, Sound, StateOK
    <2>2. AwaitingToken = {}
      BY <2>1
    <2> QED
      BY <1>1, <2>2, EffectSound
  <1>2. ASSUME NEW i \in Ids, TokenGranted(i) PROVE Sound'
    BY <1>2, TokenGrantedSound
  <1>3. ASSUME NEW i \in Ids, TokenRefused(i) PROVE Sound'
    BY <1>3, TokenRefusedSound
  <1>4. ASSUME NEW i \in Ids, Opened(i) PROVE Sound'
    BY <1>4, OpenedSound
  <1>5. ASSUME NEW i \in Ids, Admitted(i) PROVE Sound'
    BY <1>5, AdmittedSound
  <1>6. ASSUME NEW i \in Ids, Lost(i) PROVE Sound'
    BY <1>6, LostSound
  <1>7. ASSUME NEW i \in Ids, TimerFires(i) PROVE Sound'
    BY <1>7, TimerFiresSound
  <1> QED
    BY <1>1, <1>2, <1>3, <1>4, <1>5, <1>6, <1>7 DEF Step

LEMMA StutterSound ==
    ASSUME Sound, UNCHANGED state
    PROVE  Sound'
  BY DEF state, refs, flags, Sound, StateOK, Single, Current, Held, Armed,
         Pinging, Remembered, Marked, Reopened, AfterLoss, Efforts, Live, Open

\* As long as no fetch is overtaken, no step of the effect has overtaken one.
LEMMA PastStep ==
    ASSUME [Next]_vars, ~overtaken'
    PROVE  /\ ~overtaken
           /\ UNCHANGED state \/ (Step /\ (run' = run \/ AwaitingToken = {}))
  <1>1. CASE UNCHANGED vars
    BY <1>1 DEF vars
  <1>2. CASE Next
    BY <1>2, Zenon DEF Next, Record
  <1> QED
    BY <1>1, <1>2

LEMMA SoundAlways == Spec => [](overtaken \/ Sound)
  <1>1. Init => overtaken \/ Sound
    BY InitSound
  <1>2. (overtaken \/ Sound) /\ [Next]_vars => (overtaken \/ Sound)'
    <2> SUFFICES ASSUME overtaken \/ Sound, [Next]_vars, ~overtaken' PROVE Sound'
      OBVIOUS
    <2>1. /\ ~overtaken
          /\ UNCHANGED state \/ (Step /\ (run' = run \/ AwaitingToken = {}))
      BY PastStep
    <2> QED
      BY <2>1, StepSound, StutterSound
  <1> QED
    BY <1>1, <1>2, PTL DEF Spec
-----------------------------------------------------------------------------
(* What holds however the runs of the effect overlap: the state keeps its   *)
(* types, and a run has one connection under way at most.                   *)

Replaced == \A t \in timers : calls[t].phase \in {"lost", "closed"}
OnePerRun ==
    \A i, j \in Under : calls[i].run = calls[j].run => i = j
RunsBefore == \A i \in Under : calls[i].run \in 0 .. run
Lines == StateOK /\ Replaced /\ OnePerRun /\ RunsBefore

LEMMA InitLines == Init => Lines
  <1> SUFFICES ASSUME Init PROVE Lines
    OBVIOUS
  <1>1. StateOK
    BY InitSound DEF Sound
  <1>2. Under = {} /\ timers = {}
    BY DEF Init, Under, Efforts, Live, Unused
  <1> QED
    BY <1>1, <1>2 DEF Lines, Replaced, OnePerRun, RunsBefore

\* What goes on in a connection under way, or ends it, adds none.
LEMMA GoesOn ==
    ASSUME Lines, NEW i \in Efforts, NEW p \in Phases, To(i, p), run' = run,
           \/ timers' \subseteq timers
           \/ timers' = timers \cup {i} /\ p \in {"lost", "closed"}
    PROVE  /\ Replaced' /\ OnePerRun' /\ RunsBefore'
           /\ calls' \in [Ids -> Call]
  <1>1. i \in Ids /\ calls[i].phase \in {"token", "opening", "open", "admitted"}
    BY Used DEF Efforts
  <1>2. /\ calls' \in [Ids -> Call]
        /\ \A j \in Ids : /\ calls'[j].to = calls[j].to
                          /\ calls'[j].run = calls[j].run
                          /\ calls'[j].phase = IF j = i THEN p ELSE calls[j].phase
    BY <1>1, PhaseSet DEF Lines
  <1>3. timers \subseteq Ids /\ i \notin timers
    BY <1>1 DEF Lines, Replaced, StateOK
  <1>4. Efforts' \subseteq Efforts
    BY <1>1, <1>2 DEF Efforts, Live
  <1>5. Under' \subseteq Under /\ Under \subseteq Ids
    BY <1>3, <1>4 DEF Under, Efforts
  <1>6. Replaced'
    <2> SUFFICES ASSUME NEW t \in timers' PROVE calls'[t].phase \in {"lost", "closed"}
      BY DEF Replaced
    <2>1. CASE t = i
      BY <1>1, <1>2, <1>3, <2>1
    <2>2. CASE t # i
      <3>1. t \in timers /\ t \in Ids
        BY <1>3, <2>2
      <3> QED
        BY <1>2, <2>2, <3>1 DEF Lines, Replaced
    <2> QED
      BY <2>1, <2>2
  <1>7. OnePerRun'
    BY <1>2, <1>5 DEF Lines, OnePerRun
  <1>8. RunsBefore'
    BY <1>2, <1>5 DEF Lines, RunsBefore
  <1> QED
    BY <1>2, <1>6, <1>7, <1>8

LEMMA EffectLines ==
    ASSUME Lines, NEW r \in Runners \cup {NoRunner}, EffectRuns(r)
    PROVE  Lines'
  <1>1. /\ Cleaned \in [Ids -> Call]
        /\ \A j \in Ids : /\ Cleaned[j].to = calls[j].to
                          /\ Cleaned[j].run = calls[j].run
                          /\ Cleaned[j].phase = IF j = ws THEN "closed" ELSE calls[j].phase
    BY CleanedCalls DEF Lines
  <1>2. /\ timers' \subseteq timers /\ timers \subseteq Ids /\ pings' \subseteq pings
        /\ run' = run + 1 /\ run \in Nat /\ run' \in 0 .. MaxRuns /\ ws' = 0
    BY SocketAssumption DEF EffectRuns, TimersCleared, PingsCleared, Lines, StateOK
  <1>3. \A j \in Under : j \in Ids /\ calls[j].run \in 0 .. run
    BY DEF Lines, RunsBefore, Under, Efforts, StateOK
  <1>4. CASE r = NoRunner
    <2>1. calls' = Cleaned
      BY <1>4 DEF EffectRuns
    <2>2. Under' \subseteq Under
      BY <1>1, <1>2, <2>1 DEF Under, Efforts, Live
    <2>3. StateOK'
      BY <1>1, <1>2, <2>1, Numbers DEF EffectRuns, Lines, StateOK, Call
    <2>4. Replaced'
      BY <1>1, <1>2, <2>1 DEF Lines, Replaced
    <2>5. OnePerRun'
      BY <1>1, <1>3, <2>1, <2>2 DEF Lines, OnePerRun
    <2>6. RunsBefore'
      BY <1>1, <1>2, <1>3, <2>1, <2>2 DEF RunsBefore
    <2> QED
      BY <2>3, <2>4, <2>5, <2>6 DEF Lines
  <1>5. CASE r # NoRunner
    <2> DEFINE c == [to |-> r, run |-> run', phase |-> "token"]
    <2>1. PICK i \in Ids : calls[i] = Unused /\ calls' = [Cleaned EXCEPT ![i] = c]
      BY <1>5 DEF EffectRuns
    <2>2. c \in Call
      BY <1>2 DEF Call, Phases
    <2>3. /\ calls' \in [Ids -> Call]
          /\ calls'[i] = c
          /\ \A j \in Ids : j # i => calls'[j] = Cleaned[j]
      BY <1>1, <2>1, <2>2
    <2>4. i \notin timers
      BY <2>1 DEF Lines, Replaced, Unused
    <2>5. \A j \in Under' : j # i => j \in Under
      BY <1>1, <1>2, <2>3 DEF Under, Efforts, Live
    <2>6. \A j \in Under' : /\ j = i => calls'[j].run = run + 1
                            /\ j # i => calls'[j].run = calls[j].run /\ calls'[j].run \in 0 .. run
      BY <1>1, <1>2, <1>3, <2>3, <2>5
    <2>7. StateOK'
      BY <1>2, <2>3, Numbers DEF EffectRuns, Lines, StateOK, Call
    <2>8. Replaced'
      BY <1>1, <1>2, <2>3, <2>4 DEF Lines, Replaced
    <2>9. OnePerRun'
      <3> SUFFICES ASSUME NEW j \in Under', NEW k \in Under', calls'[j].run = calls'[k].run
                   PROVE  j = k
        BY DEF OnePerRun
      <3>1. j = i <=> k = i
        BY <1>2, <2>6
      <3> QED
        BY <2>5, <2>6, <3>1 DEF Lines, OnePerRun
    <2>10. RunsBefore'
      BY <1>2, <2>6 DEF RunsBefore
    <2> QED
      BY <2>7, <2>8, <2>9, <2>10 DEF Lines
  <1> QED
    BY <1>4, <1>5

LEMMA LostLines ==
    ASSUME Lines, NEW i \in Ids, Lost(i)
    PROVE  Lines'
  <1> DEFINE p == IF calls[i].phase = "admitted" THEN "lost" ELSE "closed"
  <1>1. To(i, p) /\ p \in Phases /\ p \in {"lost", "closed"} /\ i \in Efforts /\ run' = run
    BY DEF Lost, Phases, Efforts
  <1>2. \/ timers' = timers
        \/ timers' = timers \cup {i}
    BY DEF Lost, refs
  <1> HIDE DEF p
  <1>3. Replaced' /\ OnePerRun' /\ RunsBefore' /\ calls' \in [Ids -> Call]
    BY <1>1, <1>2, GoesOn
  <1>4. faults' \in [drops : Nat, failures : Nat, refusals : Nat]
    <2>1. faults \in [drops : Nat, failures : Nat, refusals : Nat]
      BY DEF Lines, StateOK
    <2>2. \/ faults' = [faults EXCEPT !.drops = @ + 1]
          \/ faults' = [faults EXCEPT !.failures = @ + 1]
      BY DEF Lost
    <2> QED
      BY <2>1, <2>2
  <1>5. /\ timers' \subseteq Ids /\ pings' \subseteq Ids /\ reopened' \subseteq Ids
        /\ ws' \in Refs /\ timerRef' \in Refs /\ pingRef' \in Refs
    BY <1>2, Numbers DEF Lost, PingsCleared, refs, flags, Lines, StateOK
  <1>6. attempts' = attempts /\ admitted' = admitted /\ connected' \in BOOLEAN
    BY DEF Lost, flags, Lines, StateOK
  <1> QED
    BY <1>3, <1>4, <1>5, <1>6 DEF Lost, Lines, StateOK, Call

LEMMA TimerFiresLines ==
    ASSUME Lines, NEW t \in Ids, TimerFires(t)
    PROVE  Lines'
  <1> DEFINE c == [to |-> calls[t].to, run |-> calls[t].run, phase |-> "token"]
  <1>1. PICK i \in Ids : calls[i] = Unused /\ calls' = [calls EXCEPT ![i] = c]
    BY DEF TimerFires
  <1>2. calls \in [Ids -> Call] /\ calls[i].phase = "unused" /\ c \in Call
    <2>1. calls \in [Ids -> Call]
      BY DEF Lines, StateOK, Call
    <2>2. calls[t] \in Call
      BY <2>1
    <2> QED
      BY <1>1, <2>1, <2>2 DEF Unused, Call, Phases
  <1>3. /\ calls' \in [Ids -> Call]
        /\ calls'[i] = c
        /\ \A j \in Ids : j # i => calls'[j] = calls[j]
    BY <1>1, <1>2, CallAdded
  <1>4. /\ t \in timers /\ timers' = timers \ {t} /\ i \notin timers /\ timers \subseteq Ids
        /\ run' = run
    BY <1>2 DEF TimerFires, Lines, Replaced, StateOK
  <1>5. t \in Under /\ t \notin Efforts
    BY <1>4 DEF Under, Efforts, Live, Lines, Replaced
  <1>6. \A j \in Under' : j # i => j \in Under /\ j \in Ids /\ j # t
    BY <1>3, <1>4, <1>5 DEF Under, Efforts, Live
  <1>7. \A j \in Under' : /\ j = i => calls'[j].run = calls[t].run
                          /\ j # i => calls'[j].run = calls[j].run /\ calls[j].run # calls[t].run
    BY <1>3, <1>5, <1>6 DEF Lines, OnePerRun
  <1>8. attempts' \in Nat
    BY DEF Lines, StateOK, TimerFires
  <1>9. StateOK'
    BY <1>3, <1>4, <1>8 DEF Lines, StateOK, TimerFires, Call
  <1>10. Replaced'
    BY <1>3, <1>4 DEF Lines, Replaced
  <1>11. OnePerRun'
    <2> SUFFICES ASSUME NEW j \in Under', NEW k \in Under', calls'[j].run = calls'[k].run
                 PROVE  j = k
      BY DEF OnePerRun
    <2>1. j = i <=> k = i
      BY <1>7
    <2> QED
      BY <1>6, <1>7, <2>1 DEF Lines, OnePerRun
  <1>12. RunsBefore'
    BY <1>4, <1>5, <1>6, <1>7 DEF Lines, RunsBefore
  <1> QED
    BY <1>9, <1>10, <1>11, <1>12 DEF Lines

LEMMA StepLines == Lines /\ Step => Lines'
  <1> SUFFICES ASSUME Lines, Step PROVE Lines'
    OBVIOUS
  <1>1. ASSUME NEW r \in Runners \cup {NoRunner}, EffectRuns(r) PROVE Lines'
    BY <1>1, EffectLines
  <1>2. ASSUME NEW i \in Ids, TokenGranted(i) PROVE Lines'
    <2>1. i \in Efforts /\ "opening" \in Phases /\ To(i, "opening")
      BY <1>2 DEF TokenGranted, Efforts, Phases
    <2>2. Replaced' /\ OnePerRun' /\ RunsBefore' /\ calls' \in [Ids -> Call]
      BY <1>2, <2>1, GoesOn DEF TokenGranted
    <2> QED
      BY <1>2, <2>2, Numbers DEF TokenGranted, flags, Lines, StateOK, Call
  <1>3. ASSUME NEW i \in Ids, TokenRefused(i) PROVE Lines'
    <2>1. i \in Efforts /\ "closed" \in Phases /\ To(i, "closed")
      BY <1>3 DEF TokenRefused, Efforts, Phases
    <2>2. Replaced' /\ OnePerRun' /\ RunsBefore' /\ calls' \in [Ids -> Call]
      BY <1>3, <2>1, GoesOn DEF TokenRefused, refs
    <2>3. faults' \in [drops : Nat, failures : Nat, refusals : Nat]
      BY <1>3 DEF TokenRefused, Lines, StateOK
    <2> QED
      BY <1>3, <2>2, <2>3 DEF TokenRefused, refs, flags, Lines, StateOK, Call
  <1>4. ASSUME NEW i \in Ids, Opened(i) PROVE Lines'
    <2>1. i \in Efforts /\ "open" \in Phases /\ To(i, "open")
      BY <1>4 DEF Opened, Efforts, Live, Phases
    <2>2. Replaced' /\ OnePerRun' /\ RunsBefore' /\ calls' \in [Ids -> Call]
      BY <1>4, <2>1, GoesOn DEF Opened
    <2>3. /\ pings' \subseteq Ids /\ pingRef' \in Refs /\ attempts' \in Nat
          /\ connected' \in BOOLEAN /\ admitted' \in BOOLEAN /\ reopened' \subseteq Ids
      BY <1>4, Numbers DEF Opened, AttemptsAfterOpen, flags, Lines, StateOK
    <2> QED
      BY <1>4, <2>2, <2>3 DEF Opened, Lines, StateOK, Call
  <1>5. ASSUME NEW i \in Ids, Admitted(i) PROVE Lines'
    <2>1. i \in Efforts /\ "admitted" \in Phases /\ To(i, "admitted")
      BY <1>5 DEF Admitted, Efforts, Live, Phases
    <2>2. Replaced' /\ OnePerRun' /\ RunsBefore' /\ calls' \in [Ids -> Call]
      BY <1>5, <2>1, GoesOn DEF Admitted, refs
    <2>3. admitted' \in BOOLEAN
      BY <1>5 DEF Admitted, Lines, StateOK
    <2> QED
      BY <1>5, <2>2, <2>3 DEF Admitted, refs, Lines, StateOK, Call
  <1>6. ASSUME NEW i \in Ids, Lost(i) PROVE Lines'
    BY <1>6, LostLines
  <1>7. ASSUME NEW i \in Ids, TimerFires(i) PROVE Lines'
    BY <1>7, TimerFiresLines
  <1> QED
    BY <1>1, <1>2, <1>3, <1>4, <1>5, <1>6, <1>7 DEF Step

LEMMA LinesAlways == Spec => []Lines
  <1>1. Lines /\ [Next]_vars => Lines'
    <2> SUFFICES ASSUME Lines, [Next]_vars PROVE Lines'
      OBVIOUS
    <2>1. CASE UNCHANGED vars
      BY <2>1 DEF vars, state, refs, flags, Lines, StateOK, Replaced, OnePerRun, RunsBefore,
                  Under, Efforts, Live
    <2>2. CASE Next
      BY <2>2, StepLines DEF Next
    <2> QED
      BY <2>1, <2>2
  <1> QED
    BY <1>1, InitLines, PTL DEF Spec
-----------------------------------------------------------------------------
(* The state of the hook keeps its types: the refs name calls, timers and   *)
(* intervals that were made, and nothing else is left running.              *)
THEOREM TypeCorrect == Spec => []TypeOK
  <1>1. Init => overtaken \in BOOLEAN
    BY DEF Init
  <1>2. overtaken \in BOOLEAN /\ [Next]_vars => (overtaken \in BOOLEAN)'
    <2>1. ASSUME overtaken \in BOOLEAN, UNCHANGED vars PROVE overtaken' \in BOOLEAN
      BY <2>1 DEF vars
    <2>2. ASSUME Next PROVE overtaken' \in BOOLEAN
      BY <2>2, Zenon DEF Next, Record
    <2> QED
      BY <2>1, <2>2
  <1>3. Lines => StateOK
    BY DEF Lines
  <1> QED
    BY <1>1, <1>2, <1>3, LinesAlways, PTL DEF Spec, TypeOK

(* A run of the effect has one connection under way at most, orphans        *)
(* included; and while no token fetch was overtaken there is one in all,    *)
(* of the last run, and none without a runner.                              *)
THEOREM OneConnectionAlways == Spec => []OneConnection
  <1>1. Lines /\ (overtaken \/ Sound) => OneConnection
    <2> SUFFICES ASSUME Lines, overtaken \/ Sound PROVE OneConnection
      OBVIOUS
    <2>1. Efforts \cap timers = {}
      BY DEF Lines, Replaced, Efforts, Live
    <2>2. \A i, j \in Under : calls[i].run = calls[j].run => i = j
      BY DEF Lines, OnePerRun
    <2>3. ~overtaken => /\ \A i \in Under : calls[i].run = run
                        /\ runner = NoRunner => Under = {}
      BY DEF Sound, Current, Single, Under
    <2> QED
      BY <2>1, <2>2, <2>3 DEF OneConnection
  <1> QED
    BY <1>1, LinesAlways, SoundAlways, PTL

(* While no token fetch was overtaken, the socket the page reads and writes *)
(* leads to the runner it shows, through every loss and change of runner.   *)
THEOREM RightRunnerAlways == Spec => []RightRunner
  <1>1. (overtaken \/ Sound) => RightRunner
    <2> SUFFICES ASSUME Sound, ws # 0 PROVE calls[ws].to = runner
      BY DEF RightRunner, LeadsToRunner
    <2>1. ws \in Ids
      BY SocketAssumption DEF Sound, StateOK, Refs, Ids
    <2>2. ws \in Efforts
      BY <2>1 DEF Sound, Held, Efforts
    <2> QED
      BY <2>2 DEF Sound, Current
  <1> QED
    BY <1>1, SoundAlways, PTL

(* While no token fetch was overtaken, no ping interval outlives its        *)
(* socket, though the ref names only the last.                              *)
THEOREM NoPingLeftAlways == Spec => []NoPingLeft
  <1>1. (overtaken \/ Sound) => NoPingLeft
    BY DEF Sound, Pinging, NoPingLeft
  <1> QED
    BY <1>1, SoundAlways, PTL

(* While no token fetch was overtaken, an open read as a reconnect follows  *)
(* the loss of an admitted socket.                                          *)
THEOREM ReconnectsOnlyAlways == Spec => []ReconnectsOnly
  <1>1. (overtaken \/ Sound) => ReconnectsOnly
    BY DEF Sound, Marked, Reopened, ReconnectsOnly
  <1> QED
    BY <1>1, SoundAlways, PTL
=============================================================================
