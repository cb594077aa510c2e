------------------------- MODULE DeviceRelay_proofs -------------------------
(***************************************************************************)
(* Theorems of DeviceRelay for any sockets, replicas, keys and faults.     *)
(***************************************************************************)
EXTENDS DeviceRelay, TLAPS

-----------------------------------------------------------------------------
(* Type correctness. *)

\* Initially every variable has its type.
LEMMA InitTyping == Init => TypeOK
<1> SUFFICES ASSUME Init PROVE TypeOK
  OBVIOUS
<1> USE SocketAssumption DEF Init
<1>1. pc \in [Sockets -> Steps]
  BY DEF Steps
<1>2. sweep \in [pc : {"idle", "select", "age", "close", "clear", "unregister", "finish"},
                home : Replicas \cup {None}, seen : BOOLEAN, stale : SUBSET Sockets]
  BY DEF NoSweep
<1>3. holders \in [Sockets -> SUBSET Sockets]
  OBVIOUS
<1> QED
  BY <1>1, <1>2, <1>3 DEF TypeOK

\* The steps of a handshake keep every variable in its type.
LEMMA HandshakeTyping ==
  ASSUME TypeOK, NEW s \in Sockets, Handshake(s)
  PROVE  TypeOK'
<1> USE SocketAssumption DEF TypeOK, Guarded, Steps, Ended, handlerVars, dbVars,
        globalVars, managerVars, redisVars, Goto
<1>1. CASE \E r \in Replicas : Connect(s, r)
  BY <1>1 DEF Connect
<1>2. CASE ReadHolders(s)
  BY <1>2 DEF ReadHolders
<1>3. CASE ProbeAnswered(s)
  BY <1>3 DEF ProbeAnswered, Refuse
<1>4. CASE ProbeSilent(s)
  BY <1>4 DEF ProbeSilent, Fault
<1>5. CASE CloseHolders(s)
  BY <1>5 DEF CloseHolders, Close, IsOpen
<1>6. CASE EvictHolders(s)
  BY <1>6 DEF EvictHolders, ClearIfCurrent, HangUp
<1>7. CASE InsertRow(s)
  BY <1>7 DEF InsertRow
<1>8. CASE LoseInsertRace(s)
  BY <1>8 DEF LoseInsertRace, Refuse
<1>9. CASE Adopt(s)
  BY <1>9 DEF Adopt
<1>10. CASE UpsertDevice(s)
  BY <1>10 DEF UpsertDevice
<1>11. CASE TakePointer(s)
  BY <1>11 DEF TakePointer
<1>12. CASE HandshakeDbError(s)
  BY <1>12 DEF HandshakeDbError, InGuard, Fault
<1> QED
  BY <1>1, <1>2, <1>3, <1>4, <1>5, <1>6, <1>7, <1>8, <1>9, <1>10, <1>11, <1>12
     DEF Handshake

\* So do the steps of a registration.
LEMMA RegistrationTyping ==
  ASSUME TypeOK, NEW s \in Sockets, Registration(s)
  PROVE  TypeOK'
<1> USE SocketAssumption DEF TypeOK, Guarded, Locked, InLoop, Leaving, Steps, Ended,
        handlerVars, dbVars, globalVars, managerVars, redisVars, Goto
<1>1. CASE ClaimUnheld(s)
  BY <1>1 DEF ClaimUnheld
<1>2. CASE RegisterPrimary(s)
  BY <1>2 DEF RegisterPrimary, StopListener
<1>3. CASE RegisterIfUnowned(s)
  BY <1>3 DEF RegisterIfUnowned
<1>4. CASE ConfirmEntitled(s)
  BY <1>4 DEF ConfirmEntitled, StopListener, Unlock
<1>5. CASE Install(s)
  BY <1>5 DEF Install
<1>6. CASE StartListener(s)
  BY <1>6 DEF StartListener, Unlock
<1>7. CASE PublishConnected(s)
  BY <1>7 DEF PublishConnected
<1>8. CASE RegisterError(s)
  <2>1. presence' \in BOOLEAN
    BY <1>8, Zenon DEF RegisterError
  <2>2. /\ lock' \in [Replicas -> Sockets \cup {None, Sweeper}]
        /\ reg' \in [Replicas -> Sockets \cup {None}]
    BY <1>8 DEF RegisterError, Unlock
  <2>3. wire' \in [Sockets -> {"up", "silent", "down"}]
    BY <1>8 DEF RegisterError
  <2>4. /\ pc' \in [Sockets -> Steps]
        /\ \A t \in Sockets : pc'[t] # "new" => home[t] \in Replicas
    <3>1. pc[s] # "new" /\ pc' = [pc EXCEPT ![s] = IF entered[s] THEN "yield" ELSE "teardown"]
      BY <1>8 DEF RegisterError
    <3> QED
      BY <3>1
  <2>5. faults' \in Nat
    BY <1>8 DEF RegisterError, Fault
  <2> QED
    BY <1>8, <2>1, <2>2, <2>3, <2>4, <2>5 DEF RegisterError
<1>9. CASE YieldClaim(s)
  BY <1>9 DEF YieldClaim, Fault, ClearIfCurrent
<1>10. CASE Ack(s)
  BY <1>10 DEF Ack
<1> QED
  BY <1>1, <1>2, <1>3, <1>4, <1>5, <1>6, <1>7, <1>8, <1>9, <1>10
     DEF Registration

\* So do the steps of the message loop.
LEMMA LoopTyping ==
  ASSUME TypeOK, NEW s \in Sockets, Loop(s)
  PROVE  TypeOK'
<1> USE SocketAssumption DEF TypeOK, Guarded, Locked, InLoop, Leaving, Steps, Ended,
        handlerVars, dbVars, globalVars, managerVars, redisVars, Goto
<1>1. CASE Heartbeat(s)
  BY <1>1 DEF Heartbeat, Fault
<1>2. CASE HealGate(s)
  BY <1>2 DEF HealGate
<1>3. CASE Heal(s)
  BY <1>3 DEF Heal
<1>4. CASE HeartbeatDbError(s)
  BY <1>4 DEF HeartbeatDbError, Fault
<1>5. CASE Disconnect(s)
  BY <1>5 DEF Disconnect
<1> QED
  BY <1>1, <1>2, <1>3, <1>4, <1>5
     DEF Loop

\* So do the steps of a teardown.
LEMMA CleanupTyping ==
  ASSUME TypeOK, NEW s \in Sockets, Cleanup(s)
  PROVE  TypeOK'
<1> USE SocketAssumption DEF TypeOK, Guarded, Locked, InLoop, Leaving, Steps, Ended,
        handlerVars, dbVars, globalVars, managerVars, redisVars, Goto
<1>1. CASE Teardown(s)
  BY <1>1 DEF Teardown
<1>2. CASE UnregisterIfCurrent(s)
  <2>1. presence' \in BOOLEAN
    BY <1>2, Zenon DEF UnregisterIfCurrent
  <2> QED
    BY <1>2, <2>1 DEF UnregisterIfCurrent, Fault
<1>3. CASE FinishUnregister(s)
  BY <1>3 DEF FinishUnregister, StopListener, Unlock
<1>4. CASE ClearOwnPointer(s)
  BY <1>4 DEF ClearOwnPointer, ClearIfCurrent
<1>5. CASE CloseOwnRow(s)
  BY <1>5 DEF CloseOwnRow, Close, IsOpen
<1>6. CASE AnnounceGone(s)
  BY <1>6 DEF AnnounceGone
<1>7. CASE CleanupDbError(s)
  <2>1. row' \in [Sockets -> {"none", "open", "closed"}]
    BY <1>7 DEF CleanupDbError, Close, IsOpen
  <2>2. /\ pc' \in [Sockets -> Steps] /\ faults' \in Nat
        /\ \A t \in Sockets : pc'[t] # "new" => home[t] \in Replicas
    <3>1. pc[s] # "new" /\ pc' = [pc EXCEPT ![s] = "unsaved"]
      BY <1>7 DEF CleanupDbError
    <3>2. faults' \in Nat
      BY <1>7 DEF CleanupDbError, Fault
    <3> QED
      BY <3>1, <3>2
  <2> QED
    BY <1>7, <2>1, <2>2 DEF CleanupDbError
<1> QED
  BY <1>1, <1>2, <1>3, <1>4, <1>5, <1>6, <1>7
     DEF Cleanup

\* So do the steps of the sweep.
LEMMA SweepTyping ==
  ASSUME TypeOK, Sweep
  PROVE  TypeOK'
<1> USE SocketAssumption DEF TypeOK, handlerVars, dbVars, globalVars, managerVars,
        redisVars
<1>1. CASE \E r \in Replicas : SweepScan(r)
  <2>1. PICK r \in Replicas : SweepScan(r)
    BY <1>1
  <2>2. \E b \in BOOLEAN : sweep' = [pc |-> "select", home |-> r, seen |-> b, stale |-> {}]
    BY <2>1, Zenon DEF SweepScan
  <2>3. faults' \in Nat
    BY <2>1 DEF SweepScan, Fault
  <2> QED
    BY <2>1, <2>2, <2>3 DEF SweepScan
<1>2. CASE SweepSelect
  BY <1>2 DEF SweepSelect, SweepOn, NoSweep, Open
<1>3. CASE SweepCloseSecondaries
  BY <1>3 DEF SweepCloseSecondaries, SweepOn, NoSweep, Close, IsOpen
<1>4. CASE SweepClosePrimaries
  BY <1>4 DEF SweepClosePrimaries, SweepTo, Close, IsOpen
<1>5. CASE SweepClearPointer
  BY <1>5 DEF SweepClearPointer, SweepTo, ClearIfCurrent
<1>6. CASE SweepUnregister
  <2>1. presence' \in BOOLEAN
    BY <1>6, Zenon DEF SweepUnregister
  <2>2. faults' \in Nat
    BY <1>6 DEF SweepUnregister, Fault
  <2>3. sweep' = [sweep EXCEPT !.pc = "finish"] /\ lock' \in [Replicas -> Sockets \cup {None, Sweeper}]
    BY <1>6 DEF SweepUnregister, SweepTo
  <2> QED
    BY <1>6, <2>1, <2>2, <2>3 DEF SweepUnregister
<1>7. CASE SweepFinish
  BY <1>7 DEF SweepFinish, NoSweep, StopListener, Unlock
<1>8. CASE SweepDbError
  BY <1>8 DEF SweepDbError, NoSweep, Fault
<1> QED
  BY <1>1, <1>2, <1>3, <1>4, <1>5, <1>6, <1>7, <1>8
     DEF Sweep

\* So does what happens around the handlers.
LEMMA EnvironmentTyping ==
  ASSUME TypeOK, Environment
  PROVE  TypeOK'
<1> USE SocketAssumption DEF TypeOK, Ended, handlerVars, dbVars, globalVars,
        managerVars, redisVars
<1>1. CASE \E s \in Sockets : PeerSilent(s)
  BY <1>1 DEF PeerSilent
<1>2. CASE \E s \in Sockets : WireDown(s)
  BY <1>2 DEF WireDown, HangUp
<1>3. CASE \E s \in Sockets : ListenerEnds(s)
  BY <1>3 DEF ListenerEnds, Fault
<1>4. CASE \E s \in Sockets : RowAges(s)
  BY <1>4 DEF RowAges
<1>5. CASE PresenceExpires
  BY <1>5 DEF PresenceExpires
<1>6. CASE \E r \in Replicas : Restart(r)
  BY <1>6 DEF Restart, Steps, HangUp, Unlock, NoSweep, Fault
<1> QED
  BY <1>1, <1>2, <1>3, <1>4, <1>5, <1>6
     DEF Environment

\* Every step keeps every variable in its type.
LEMMA StepTyping == TypeOK /\ [Next]_vars => TypeOK'
<1> SUFFICES ASSUME TypeOK, [Next]_vars PROVE TypeOK'
  OBVIOUS
<1>1. CASE UNCHANGED vars
  BY <1>1 DEF TypeOK, vars, handlerVars, dbVars, globalVars, managerVars, redisVars
<1>2. CASE Next
  BY <1>2, HandshakeTyping, RegistrationTyping, LoopTyping, CleanupTyping,
     SweepTyping, EnvironmentTyping DEF Next
<1> QED
  BY <1>1, <1>2

\* Type correctness: every state any number of sockets and replicas can reach is
\* well typed, and a handler past its first step runs on a replica.
THEOREM Typing == Spec => []TypeOK
  BY InitTyping, StepTyping, PTL DEF Spec

-----------------------------------------------------------------------------
(* The pending-key guard. *)

\* A handshake never finds its loop already entered, and does not enter it.
LEMMA HandshakeEntered ==
  ASSUME TypeOK, EnteredInv, NEW s \in Sockets, Handshake(s)
  PROVE  EnteredInv'
<1>1. /\ entered' = entered
      /\ \E l : /\ pc' = [pc EXCEPT ![s] = l] /\ l \notin InLoop
                /\ l \in Guarded \cup {"new"} => pc[s] \in Guarded \cup {"new"}
  <2> USE DEF Guarded, InLoop, Goto
  <2>1. CASE \E r \in Replicas : Connect(s, r)
    BY <2>1 DEF Connect
  <2>2. CASE ReadHolders(s)
    BY <2>2 DEF ReadHolders
  <2>3. CASE ProbeSilent(s)
    BY <2>3 DEF ProbeSilent
  <2>4. CASE CloseHolders(s)
    BY <2>4 DEF CloseHolders
  <2>5. CASE EvictHolders(s)
    BY <2>5 DEF EvictHolders
  <2>6. CASE InsertRow(s)
    BY <2>6 DEF InsertRow
  <2>7. CASE Adopt(s)
    BY <2>7 DEF Adopt
  <2>8. CASE UpsertDevice(s)
    BY <2>8 DEF UpsertDevice
  <2>9. CASE ProbeAnswered(s)
    BY <2>9 DEF ProbeAnswered, Refuse
  <2>10. CASE LoseInsertRace(s)
    BY <2>10 DEF LoseInsertRace, Refuse
  <2>11. CASE TakePointer(s)
    BY <2>11 DEF TakePointer
  <2>12. CASE HandshakeDbError(s)
    <3>1. entered' = entered
      BY <2>12 DEF HandshakeDbError
    <3>2. pc' = [pc EXCEPT ![s] = "dead"] \/ pc' = [pc EXCEPT ![s] = "done"]
      BY <2>12 DEF HandshakeDbError
    <3> QED
      BY <3>1, <3>2
  <2> QED
    BY <2>1, <2>2, <2>3, <2>4, <2>5, <2>6, <2>7, <2>8, <2>9, <2>10, <2>11, <2>12 DEF Handshake
<1>2. PICK l : /\ pc' = [pc EXCEPT ![s] = l] /\ l \notin InLoop
               /\ l \in Guarded \cup {"new"} => pc[s] \in Guarded \cup {"new"}
  BY <1>1
<1>3. ASSUME NEW t \in Sockets
      PROVE  /\ pc'[t] \in InLoop => entered[t]
             /\ pc'[t] \in Guarded \cup {"new"} => ~entered[t]
  <2>1. pc'[t] = IF t = s THEN l ELSE pc[t]
    BY <1>2 DEF TypeOK
  <2> QED
    BY <1>2, <2>1 DEF EnteredInv
<1> QED
  BY <1>1, <1>3 DEF EnteredInv

\* The loop is entered through the ack only.
LEMMA RegistrationEntered ==
  ASSUME TypeOK, EnteredInv, NEW s \in Sockets, Registration(s)
  PROVE  EnteredInv'
<1> USE DEF TypeOK, EnteredInv, Guarded, InLoop, Goto
<1>1. CASE ClaimUnheld(s)
  BY <1>1 DEF ClaimUnheld
<1>2. CASE RegisterPrimary(s)
  BY <1>2 DEF RegisterPrimary
<1>3. CASE RegisterIfUnowned(s)
  BY <1>3 DEF RegisterIfUnowned
<1>4. CASE ConfirmEntitled(s)
  BY <1>4 DEF ConfirmEntitled
<1>5. CASE Install(s)
  BY <1>5 DEF Install
<1>6. CASE StartListener(s)
  BY <1>6 DEF StartListener
<1>7. CASE PublishConnected(s)
  BY <1>7 DEF PublishConnected
<1>8. CASE RegisterError(s)
  BY <1>8 DEF RegisterError
<1>9. CASE YieldClaim(s)
  BY <1>9 DEF YieldClaim
<1>10. CASE Ack(s)
  BY <1>10 DEF Ack
<1> QED
  BY <1>1, <1>2, <1>3, <1>4, <1>5, <1>6, <1>7, <1>8, <1>9, <1>10 DEF Registration

\* Whoever is in the loop has entered it; a teardown does not go back.
LEMMA LoopEntered ==
  ASSUME TypeOK, EnteredInv, NEW s \in Sockets, Loop(s) \/ Cleanup(s)
  PROVE  EnteredInv'
<1> USE DEF TypeOK, EnteredInv, Guarded, InLoop, Goto
<1>1. CASE Heartbeat(s)
  BY <1>1 DEF Heartbeat
<1>2. CASE HealGate(s)
  BY <1>2 DEF HealGate
<1>3. CASE Heal(s)
  BY <1>3 DEF Heal
<1>4. CASE HeartbeatDbError(s)
  BY <1>4 DEF HeartbeatDbError
<1>5. CASE Disconnect(s)
  BY <1>5 DEF Disconnect
<1>6. CASE Teardown(s)
  BY <1>6 DEF Teardown
<1>7. CASE UnregisterIfCurrent(s)
  BY <1>7 DEF UnregisterIfCurrent
<1>8. CASE FinishUnregister(s)
  BY <1>8 DEF FinishUnregister
<1>9. CASE ClearOwnPointer(s)
  BY <1>9 DEF ClearOwnPointer
<1>10. CASE CloseOwnRow(s)
  BY <1>10 DEF CloseOwnRow
<1>11. CASE AnnounceGone(s)
  BY <1>11 DEF AnnounceGone
<1>12. CASE CleanupDbError(s)
  BY <1>12 DEF CleanupDbError
<1> QED
  BY <1>1, <1>2, <1>3, <1>4, <1>5, <1>6, <1>7, <1>8, <1>9, <1>10, <1>11, <1>12 DEF Loop, Cleanup

\* The sweep and the environment move no handler into the loop.
LEMMA OtherEntered ==
  ASSUME TypeOK, EnteredInv, Sweep \/ Environment \/ UNCHANGED vars
  PROVE  EnteredInv'
<1> USE DEF TypeOK, EnteredInv, handlerVars
<1>1. CASE \E r \in Replicas : Restart(r)
  BY <1>1 DEF Restart, Guarded, InLoop
<1>2. CASE Sweep \/ PresenceExpires \/ UNCHANGED vars
  BY <1>2 DEF Sweep, SweepScan, SweepSelect, SweepCloseSecondaries, SweepClosePrimaries,
     SweepClearPointer, SweepUnregister, SweepFinish, SweepDbError, PresenceExpires, vars
<1>3. CASE \E s \in Sockets : PeerSilent(s) \/ WireDown(s) \/ ListenerEnds(s) \/ RowAges(s)
  BY <1>3 DEF PeerSilent, WireDown, ListenerEnds, RowAges
<1> QED
  BY <1>1, <1>2, <1>3 DEF Environment

\* A step leaves the guards alone, or releases one, or is a Connect or a Restart.
SameGuard(t) == (InGuard(t)' <=> InGuard(t)) /\ home'[t] = home[t]
KeepsGuards  == pending' = pending /\ \A t \in Sockets : SameGuard(t)
LeavesGuard(s) ==
    /\ InGuard(s) /\ ~InGuard(s)'
    /\ pending' = pending \ {GuardOf(s)}
    /\ home' = home
    /\ \A t \in Sockets \ {s} : SameGuard(t)

\* A handshake keeps the guard as it is or leaves it, whatever step it takes.
LEMMA HandshakeGuards ==
  ASSUME TypeOK, EnteredInv, NEW s \in Sockets, Handshake(s)
  PROVE  KeepsGuards \/ LeavesGuard(s) \/ \E r \in Replicas : Connect(s, r)
<1> USE DEF TypeOK, Guarded, Goto, InGuard, SameGuard, handlerVars, dbVars, globalVars,
        managerVars, redisVars
<1>1. CASE ReadHolders(s)
  BY <1>1 DEF ReadHolders, KeepsGuards
<1>2. CASE ProbeSilent(s)
  BY <1>2 DEF ProbeSilent, KeepsGuards
<1>3. CASE CloseHolders(s)
  BY <1>3 DEF CloseHolders, KeepsGuards
<1>4. CASE EvictHolders(s)
  BY <1>4 DEF EvictHolders, KeepsGuards
<1>5. CASE InsertRow(s)
  BY <1>5 DEF InsertRow, KeepsGuards
<1>6. CASE Adopt(s)
  BY <1>6 DEF Adopt, KeepsGuards, EnteredInv
<1>7. CASE UpsertDevice(s)
  BY <1>7 DEF UpsertDevice, KeepsGuards
<1>8. CASE ProbeAnswered(s)
  BY <1>8 DEF ProbeAnswered, Refuse, LeavesGuard
<1>9. CASE LoseInsertRace(s)
  BY <1>9 DEF LoseInsertRace, Refuse, LeavesGuard
<1>10. CASE TakePointer(s)
  BY <1>10 DEF TakePointer, LeavesGuard
<1>11. CASE HandshakeDbError(s)
  BY <1>11 DEF HandshakeDbError, LeavesGuard
<1> QED
  BY <1>1, <1>2, <1>3, <1>4, <1>5, <1>6, <1>7, <1>8, <1>9, <1>10, <1>11
     DEF Handshake

\* Registration takes place after the guard was left, and does not touch it.
LEMMA RegistrationGuards ==
  ASSUME TypeOK, NEW s \in Sockets, Registration(s)
  PROVE  KeepsGuards \/ LeavesGuard(s)
<1> USE DEF TypeOK, Guarded, Goto, InGuard, SameGuard, handlerVars, dbVars, globalVars,
        managerVars, redisVars
<1>1. CASE ClaimUnheld(s)
  <2>1. CASE entered[s]
    BY <1>1, <2>1 DEF ClaimUnheld, KeepsGuards
  <2>2. CASE ~entered[s]
    BY <1>1, <2>2 DEF ClaimUnheld, LeavesGuard
  <2> QED
    BY <2>1, <2>2
<1>2. CASE RegisterPrimary(s)
  BY <1>2 DEF RegisterPrimary, KeepsGuards
<1>3. CASE RegisterIfUnowned(s)
  BY <1>3 DEF RegisterIfUnowned, KeepsGuards
<1>4. CASE ConfirmEntitled(s)
  BY <1>4 DEF ConfirmEntitled, KeepsGuards
<1>5. CASE Install(s)
  BY <1>5 DEF Install, KeepsGuards
<1>6. CASE StartListener(s)
  BY <1>6 DEF StartListener, KeepsGuards
<1>7. CASE PublishConnected(s)
  BY <1>7 DEF PublishConnected, KeepsGuards
<1>8. CASE RegisterError(s)
  BY <1>8 DEF RegisterError, KeepsGuards
<1>9. CASE YieldClaim(s)
  BY <1>9 DEF YieldClaim, KeepsGuards
<1>10. CASE Ack(s)
  BY <1>10 DEF Ack, KeepsGuards
<1> QED
  BY <1>1, <1>2, <1>3, <1>4, <1>5, <1>6, <1>7, <1>8, <1>9, <1>10
     DEF Registration

\* Neither the loop nor a teardown touches the guard.
LEMMA LoopGuards ==
  ASSUME TypeOK, EnteredInv, NEW s \in Sockets, Loop(s) \/ Cleanup(s)
  PROVE  KeepsGuards
<1> USE DEF TypeOK, Guarded, InLoop, EnteredInv, Goto, InGuard, SameGuard, KeepsGuards,
        handlerVars, dbVars, globalVars, managerVars, redisVars
<1>1. CASE Heartbeat(s)
  BY <1>1 DEF Heartbeat
<1>2. CASE HealGate(s)
  BY <1>2 DEF HealGate
<1>3. CASE Heal(s)
  BY <1>3 DEF Heal
<1>4. CASE HeartbeatDbError(s)
  BY <1>4 DEF HeartbeatDbError
<1>5. CASE Disconnect(s)
  BY <1>5 DEF Disconnect
<1>6. CASE Teardown(s)
  BY <1>6 DEF Teardown
<1>7. CASE UnregisterIfCurrent(s)
  BY <1>7 DEF UnregisterIfCurrent
<1>8. CASE FinishUnregister(s)
  BY <1>8 DEF FinishUnregister
<1>9. CASE ClearOwnPointer(s)
  BY <1>9 DEF ClearOwnPointer
<1>10. CASE CloseOwnRow(s)
  BY <1>10 DEF CloseOwnRow
<1>11. CASE AnnounceGone(s)
  BY <1>11 DEF AnnounceGone
<1>12. CASE CleanupDbError(s)
  BY <1>12 DEF CleanupDbError
<1> QED
  BY <1>1, <1>2, <1>3, <1>4, <1>5, <1>6, <1>7, <1>8, <1>9, <1>10, <1>11, <1>12
     DEF Loop, Cleanup

\* Nor do the sweep and the environment, a restart apart.
LEMMA OtherGuards ==
  ASSUME TypeOK, Sweep \/ Environment \/ UNCHANGED vars
  PROVE  KeepsGuards \/ \E r \in Replicas : Restart(r)
<1> USE DEF InGuard, SameGuard, KeepsGuards, handlerVars, dbVars, globalVars, managerVars,
        redisVars
<1>1. CASE UNCHANGED vars
  BY <1>1 DEF vars
<1>2. CASE \E r \in Replicas : SweepScan(r)
  BY <1>2 DEF SweepScan
<1>3. CASE SweepSelect
  BY <1>3 DEF SweepSelect
<1>4. CASE SweepCloseSecondaries
  BY <1>4 DEF SweepCloseSecondaries
<1>5. CASE SweepClosePrimaries
  BY <1>5 DEF SweepClosePrimaries
<1>6. CASE SweepClearPointer
  BY <1>6 DEF SweepClearPointer
<1>7. CASE SweepUnregister
  BY <1>7 DEF SweepUnregister
<1>8. CASE SweepFinish
  BY <1>8 DEF SweepFinish
<1>9. CASE SweepDbError
  BY <1>9 DEF SweepDbError
<1>10. CASE \E s \in Sockets : PeerSilent(s) \/ WireDown(s)
  BY <1>10 DEF PeerSilent, WireDown
<1>11. CASE \E s \in Sockets : ListenerEnds(s) \/ RowAges(s)
  BY <1>11 DEF ListenerEnds, RowAges
<1>12. CASE PresenceExpires
  BY <1>12 DEF PresenceExpires
<1> QED
  BY <1>1, <1>2, <1>3, <1>4, <1>5, <1>6, <1>7, <1>8, <1>9, <1>10, <1>11, <1>12
     DEF Sweep, Environment

\* Nobody is in the guard at first.
LEMMA InitGuard == Init => EnteredInv /\ GuardInv
  BY DEF Init, EnteredInv, GuardInv, HandshakeExclusion, GuardHeld, GuardReleased, InGuard,
     InLoop, Guarded

\* A step that keeps every guard keeps the guard invariant.
LEMMA KeepsGuardInv ==
  ASSUME GuardInv, KeepsGuards
  PROVE  GuardInv'
<1>1. \A t \in Sockets : (InGuard(t)' <=> InGuard(t)) /\ GuardOf(t)' = GuardOf(t)
  BY DEF KeepsGuards, SameGuard, GuardOf
<1>2. pending' = pending
  BY DEF KeepsGuards
<1> QED
  BY <1>1, <1>2 DEF GuardInv, HandshakeExclusion, GuardHeld, GuardReleased

\* Releasing one's own pair releases nobody else's: by exclusion no other
\* handshake holds it.
LEMMA LeavesGuardInv ==
  ASSUME GuardInv, NEW s \in Sockets, LeavesGuard(s)
  PROVE  GuardInv'
<1>1. \A t \in Sockets : GuardOf(t)' = GuardOf(t)
  BY DEF LeavesGuard, GuardOf
<1>2. \A t \in Sockets : InGuard(t)' <=> InGuard(t) /\ t # s
  BY DEF LeavesGuard, SameGuard
<1>3. InGuard(s) /\ pending' = pending \ {GuardOf(s)}
  BY DEF LeavesGuard
<1>4. HandshakeExclusion'
  BY <1>1, <1>2 DEF GuardInv, HandshakeExclusion
<1>5. GuardHeld'
  <2> SUFFICES ASSUME NEW t \in Sockets, InGuard(t)', Key[t] # NoKey
               PROVE  GuardOf(t)' \in pending'
    BY DEF GuardHeld
  <2>1. InGuard(t) /\ t # s /\ GuardOf(t) \in pending
    BY <1>2 DEF GuardInv, GuardHeld
  <2>2. GuardOf(t) # GuardOf(s)
    BY <2>1, <1>3 DEF GuardInv, HandshakeExclusion
  <2> QED
    BY <2>1, <2>2, <1>1, <1>3
<1>6. GuardReleased'
  <2> SUFFICES ASSUME NEW g \in pending'
               PROVE  \E t \in Sockets : InGuard(t)' /\ GuardOf(t)' = g
    BY DEF GuardReleased
  <2>1. PICK t \in Sockets : InGuard(t) /\ GuardOf(t) = g
    BY <1>3 DEF GuardInv, GuardReleased
  <2>2. t # s
    BY <2>1, <1>3
  <2> QED
    BY <2>1, <2>2, <1>1, <1>2
<1> QED
  BY <1>4, <1>5, <1>6 DEF GuardInv

\* A handshake enters the guard only where the pair is free.
LEMMA ConnectGuardInv ==
  ASSUME TypeOK, GuardInv, NEW s \in Sockets, NEW r \in Replicas, Connect(s, r)
  PROVE  GuardInv'
<1>1. ~InGuard(s) /\ home' = [home EXCEPT ![s] = r] /\ entered' = entered
  BY DEF Connect, InGuard, Guarded
<1>2. ASSUME NEW t \in Sockets \ {s}
      PROVE  (InGuard(t)' <=> InGuard(t)) /\ GuardOf(t)' = GuardOf(t)
  BY DEF TypeOK, Connect, Goto, InGuard, GuardOf
<1>3. GuardOf(s)' = <<r, Key[s]>>
  BY <1>1 DEF TypeOK, GuardOf
<1>4. CASE pending' = pending /\ (InGuard(s)' => Key[s] = NoKey)
  <2>1. HandshakeExclusion'
    <3> SUFFICES ASSUME NEW t \in Sockets, NEW u \in Sockets, InGuard(t)', InGuard(u)',
                        GuardOf(t)' = GuardOf(u)', Key[t] # NoKey
                 PROVE  t = u
      BY DEF HandshakeExclusion
    <3>1. Key[t] = Key[u]
      BY DEF GuardOf
    <3>2. t # s /\ u # s
      BY <3>1, <1>4
    <3> QED
      BY <3>2, <1>2 DEF GuardInv, HandshakeExclusion
  <2>2. GuardHeld'
    BY <1>2, <1>4 DEF GuardInv, GuardHeld
  <2>3. GuardReleased'
    BY <1>1, <1>2, <1>4 DEF GuardInv, GuardReleased
  <2> QED
    BY <2>1, <2>2, <2>3 DEF GuardInv
<1>5. CASE /\ Key[s] # NoKey /\ <<r, Key[s]>> \notin pending /\ InGuard(s)'
           /\ pending' = pending \cup {<<r, Key[s]>>}
  <2>1. \A t \in Sockets \ {s} : InGuard(t) => GuardOf(t) # <<r, Key[s]>>
    BY <1>5 DEF GuardInv, GuardHeld, GuardOf
  <2>2. HandshakeExclusion'
    BY <1>2, <1>3, <2>1 DEF GuardInv, HandshakeExclusion
  <2>3. GuardHeld'
    BY <1>2, <1>3, <1>5 DEF GuardInv, GuardHeld
  <2>4. GuardReleased'
    BY <1>1, <1>2, <1>3, <1>5 DEF GuardInv, GuardReleased
  <2> QED
    BY <2>2, <2>3, <2>4 DEF GuardInv
<1>6. \/ pending' = pending /\ (InGuard(s)' => Key[s] = NoKey)
      \/ /\ Key[s] # NoKey /\ <<r, Key[s]>> \notin pending /\ InGuard(s)'
         /\ pending' = pending \cup {<<r, Key[s]>>}
  BY DEF TypeOK, Connect, Goto, InGuard, Guarded
<1> QED
  BY <1>4, <1>5, <1>6

\* A restart empties one replica's guard and ends the handshakes inside it.
LEMMA RestartGuardInv ==
  ASSUME TypeOK, GuardInv, NEW r \in Replicas, Restart(r)
  PROVE  GuardInv'
<1>1. \A t \in Sockets : GuardOf(t)' = GuardOf(t)
  BY DEF Restart, GuardOf
<1>2. \A t \in Sockets : InGuard(t)' <=> InGuard(t) /\ home[t] # r
  BY DEF TypeOK, Restart, InGuard, Guarded, Ended
<1>3. pending' = {g \in pending : g[1] # r}
  BY DEF Restart
<1>4. \A t \in Sockets : GuardOf(t)[1] = home[t]
  BY DEF GuardOf
<1>5. HandshakeExclusion'
  BY <1>1, <1>2 DEF GuardInv, HandshakeExclusion
<1>6. GuardHeld'
  BY <1>1, <1>2, <1>3, <1>4 DEF GuardInv, GuardHeld
<1>7. GuardReleased'
  BY <1>1, <1>2, <1>3, <1>4 DEF GuardInv, GuardReleased
<1> QED
  BY <1>5, <1>6, <1>7 DEF GuardInv

\* Every step keeps, leaves or enters the guard, or is a restart.
LEMMA StepGuard == TypeOK /\ EnteredInv /\ GuardInv /\ [Next]_vars => (EnteredInv /\ GuardInv)'
<1> SUFFICES ASSUME TypeOK, EnteredInv, GuardInv, [Next]_vars
             PROVE  EnteredInv' /\ GuardInv'
  OBVIOUS
<1>1. CASE \E s \in Sockets : Handshake(s) \/ Registration(s) \/ Loop(s) \/ Cleanup(s)
  <2>1. PICK s \in Sockets : Handshake(s) \/ Registration(s) \/ Loop(s) \/ Cleanup(s)
    BY <1>1
  <2>2. EnteredInv'
    BY <2>1, HandshakeEntered, RegistrationEntered, LoopEntered
  <2>3. KeepsGuards \/ LeavesGuard(s) \/ \E r \in Replicas : Connect(s, r)
    BY <2>1, HandshakeGuards, RegistrationGuards, LoopGuards
  <2> QED
    BY <2>2, <2>3, KeepsGuardInv, LeavesGuardInv, ConnectGuardInv
<1>2. CASE Sweep \/ Environment \/ UNCHANGED vars
  <2>1. KeepsGuards \/ \E r \in Replicas : Restart(r)
    BY <1>2, OtherGuards
  <2> QED
    BY <1>2, <2>1, OtherEntered, KeepsGuardInv, RestartGuardInv
<1> QED
  BY <1>1, <1>2 DEF Next

\* The pending-key guard excludes: however many sockets a runner opens, with
\* whatever errors and restarts, one handshake per instance key and replica is
\* between the look at its holders and its own row and socket being recorded.
THEOREM Exclusion == Spec => []HandshakeExclusion
<1>1. TypeOK /\ EnteredInv /\ GuardInv => HandshakeExclusion
  BY DEF GuardInv
<1> QED
  BY <1>1, InitTyping, InitGuard, StepTyping, StepGuard, PTL DEF Spec

\* The pending-key guard is never leaked: every pair in it belongs to a handshake
\* that is still running, so no exit of a handshake locks its runner out.
THEOREM Release == Spec => []GuardReleased
<1>1. TypeOK /\ EnteredInv /\ GuardInv => GuardReleased
  BY DEF GuardInv
<1> QED
  BY <1>1, InitTyping, InitGuard, StepTyping, StepGuard, PTL DEF Spec
-----------------------------------------------------------------------------
(***************************************************************************)
(* The runner manager's half (the lock, the registry and the inbound       *)
(* listener), and what handlers leave behind and supersede.                *)
(***************************************************************************)

\* A step outside the manager: it leaves the lock, the registry and the entry
\* alone, may end a listener task, and moves handlers outside the lock, none out of
\* Holding unless its socket is not registered.
Quiet ==
    /\ reg' = reg /\ entry' = entry /\ lock' = lock /\ tasks' \subseteq tasks
    /\ \A t \in Sockets : home'[t] = home[t] \/ pc[t] = "new"
    /\ \A t \in Sockets :
         \/ pc'[t] = pc[t]
         \/ /\ pc[t] \notin Locked /\ pc'[t] \notin Locked
            /\ pc[t] \in Holding => pc'[t] \in Holding \/ reg[home[t]] # t
    /\ sweep'.pc # "idle" => sweep'.home \in Replicas
    /\ sweep'.pc = "finish" => sweep.pc = "finish" /\ sweep'.home = sweep.home

\* The steps of a handshake are quiet.
LEMMA HandshakeQuiet ==
  ASSUME TypeOK, LockHeld, NEW s \in Sockets, Handshake(s)
  PROVE  Quiet
<1> USE DEF TypeOK, Quiet, Guarded, Locked, InLoop, Holding, Goto, handlerVars, dbVars,
        globalVars, managerVars, redisVars
<1>0. sweep.pc # "idle" => sweep.home \in Replicas
  BY DEF LockHeld
<1> USE <1>0
<1>1. CASE ReadHolders(s)
  BY <1>1 DEF ReadHolders
<1>2. CASE ProbeAnswered(s)
  BY <1>2 DEF ProbeAnswered, Refuse
<1>3. CASE ProbeSilent(s)
  BY <1>3 DEF ProbeSilent
<1>4. CASE CloseHolders(s)
  BY <1>4 DEF CloseHolders
<1>5. CASE EvictHolders(s)
  BY <1>5 DEF EvictHolders
<1>6. CASE InsertRow(s)
  BY <1>6 DEF InsertRow
<1>7. CASE LoseInsertRace(s)
  BY <1>7 DEF LoseInsertRace, Refuse
<1>8. CASE Adopt(s)
  BY <1>8 DEF Adopt
<1>9. CASE UpsertDevice(s)
  BY <1>9 DEF UpsertDevice
<1>10. CASE TakePointer(s)
  BY <1>10 DEF TakePointer
<1>11. CASE HandshakeDbError(s)
  BY <1>11 DEF HandshakeDbError, InGuard
<1>12. CASE \E r \in Replicas : Connect(s, r)
  BY <1>12 DEF Connect
<1> QED
  BY <1>1, <1>2, <1>3, <1>4, <1>5, <1>6, <1>7, <1>8, <1>9, <1>10, <1>11, <1>12
     DEF Handshake

\* So are those of the loop, of a teardown outside the lock, and the claim.
LEMMA LoopQuiet ==
  ASSUME TypeOK, LockHeld, NEW s \in Sockets,
         ClaimUnheld(s) \/ PublishConnected(s) \/ YieldClaim(s) \/ Ack(s)
           \/ Loop(s)
           \/ Teardown(s) \/ ClearOwnPointer(s) \/ CloseOwnRow(s) \/ AnnounceGone(s) \/ CleanupDbError(s)
  PROVE  Quiet
<1> USE DEF TypeOK, Quiet, Guarded, Locked, InLoop, Holding, Goto, handlerVars, dbVars,
        globalVars, managerVars, redisVars
<1>0. sweep.pc # "idle" => sweep.home \in Replicas
  BY DEF LockHeld
<1> USE <1>0
<1>1. CASE ClaimUnheld(s)
  BY <1>1 DEF ClaimUnheld
<1>2. CASE PublishConnected(s)
  BY <1>2 DEF PublishConnected
<1>3. CASE YieldClaim(s)
  BY <1>3 DEF YieldClaim
<1>4. CASE Ack(s)
  BY <1>4 DEF Ack
<1>5. CASE Heartbeat(s)
  BY <1>5 DEF Heartbeat
<1>6. CASE HealGate(s)
  BY <1>6 DEF HealGate
<1>7. CASE Heal(s)
  BY <1>7 DEF Heal
<1>8. CASE HeartbeatDbError(s)
  BY <1>8 DEF HeartbeatDbError
<1>9. CASE Disconnect(s)
  BY <1>9 DEF Disconnect
<1>10. CASE Teardown(s)
  BY <1>10 DEF Teardown
<1>11. CASE ClearOwnPointer(s)
  BY <1>11 DEF ClearOwnPointer
<1>12. CASE CloseOwnRow(s)
  BY <1>12 DEF CloseOwnRow
<1>13. CASE AnnounceGone(s)
  BY <1>13 DEF AnnounceGone
<1>14. CASE CleanupDbError(s)
  BY <1>14 DEF CleanupDbError
<1> QED
  BY <1>1, <1>2, <1>3, <1>4, <1>5, <1>6, <1>7, <1>8, <1>9, <1>10, <1>11, <1>12, <1>13, <1>14
     DEF Loop

\* So are those of the sweep before it reaches the manager, and the environment's.
LEMMA OtherQuiet ==
  ASSUME TypeOK, LockHeld,
         \/ \E r \in Replicas : SweepScan(r)
         \/ SweepSelect \/ SweepCloseSecondaries \/ SweepClosePrimaries \/ SweepClearPointer \/ SweepDbError
         \/ \E s \in Sockets : PeerSilent(s) \/ WireDown(s) \/ ListenerEnds(s) \/ RowAges(s)
         \/ PresenceExpires \/ UNCHANGED vars
  PROVE  Quiet
<1> USE DEF TypeOK, Quiet, Guarded, Locked, InLoop, Holding, Goto, handlerVars, dbVars,
        globalVars, managerVars, redisVars
<1>0. sweep.pc # "idle" => sweep.home \in Replicas
  BY DEF LockHeld
<1> USE <1>0
<1>1. CASE SweepSelect
  BY <1>1 DEF SweepSelect, SweepOn, NoSweep
<1>2. CASE SweepCloseSecondaries
  BY <1>2 DEF SweepCloseSecondaries, SweepOn, NoSweep
<1>3. CASE SweepClosePrimaries
  BY <1>3 DEF SweepClosePrimaries, SweepTo
<1>4. CASE SweepClearPointer
  BY <1>4 DEF SweepClearPointer, SweepTo
<1>5. CASE SweepDbError
  BY <1>5 DEF SweepDbError, NoSweep
<1>6. CASE \E r \in Replicas : SweepScan(r)
  BY <1>6 DEF SweepScan
<1>7. CASE \E s \in Sockets : PeerSilent(s) \/ WireDown(s)
  BY <1>7 DEF PeerSilent, WireDown
<1>8. CASE \E s \in Sockets : ListenerEnds(s) \/ RowAges(s)
  BY <1>8 DEF ListenerEnds, RowAges
<1>9. CASE PresenceExpires
  BY <1>9 DEF PresenceExpires
<1>10. CASE UNCHANGED vars
  BY <1>10 DEF vars
<1> QED
  BY <1>1, <1>2, <1>3, <1>4, <1>5, <1>6, <1>7, <1>8, <1>9, <1>10

\* A quiet step keeps the lock, the registry and the listener in agreement.
LEMMA QuietManagerInv ==
  ASSUME TypeOK, ManagerInv, Quiet
  PROVE  ManagerInv'
<1> USE SocketAssumption DEF ManagerInv
<1>1. \A t \in Sockets : pc[t] \in Locked \/ pc'[t] \in Locked => pc'[t] = pc[t] /\ home'[t] = home[t]
  BY DEF Quiet, Locked
<1>2. \A r \in Replicas : reg[r] # None => reg[r] \in Sockets /\ home'[reg[r]] = home[reg[r]]
  BY DEF TypeOK, Quiet, RegistryOwned, Holding, InLoop
<1>3. LockHeld'
  BY <1>1 DEF LockHeld, Quiet
<1>4. RegistryOwned'
  BY <1>1, <1>2 DEF RegistryOwned, Quiet, Locked
<1>5. \A r \in Replicas : Replacing(r)' <=> Replacing(r)
  BY <1>1 DEF Replacing, Locked
<1>6. \A t \in tasks' : home'[t] = home[t]
  BY <1>2 DEF TypeOK, Quiet, ListenerOwned
<1>7. ListenerOwned'
  BY <1>5, <1>6 DEF ListenerOwned, Quiet
<1> QED
  BY <1>3, <1>4, <1>7

\* One handler at a time is inside a replica's lock, none while the lock is free or
\* the sweep has it.
LEMMA LockExclusion ==
  ASSUME TypeOK, LockHeld, NEW s \in Sockets, pc[s] \in Locked
  PROVE  /\ home[s] \in Replicas
         /\ \A t \in Sockets : pc[t] \in Locked /\ home[t] = home[s] => t = s
         /\ lock[home[s]] # None
         /\ ~(sweep.pc = "finish" /\ sweep.home = home[s])
<1> USE SocketAssumption
<1>1. pc[s] # "new" /\ lock[home[s]] = s
  BY DEF LockHeld, Locked
<1> QED
  BY <1>1 DEF TypeOK, LockHeld

\* Taking the free lock: a primary's registration, which stops the old listener.
LEMMA RegisterPrimaryInv ==
  ASSUME TypeOK, ManagerInv, NEW s \in Sockets, RegisterPrimary(s)
  PROVE  ManagerInv'
<1> USE SocketAssumption DEF ManagerInv
<1> DEFINE r == home[s]
<1>1. /\ r \in Replicas /\ lock[r] = None /\ pc[s] = "register" /\ s \notin Secondary
      /\ lock' = [lock EXCEPT ![r] = s] /\ pc' = [pc EXCEPT ![s] = "install"]
      /\ home' = home /\ reg' = reg /\ sweep' = sweep
      /\ entry' = [entry EXCEPT ![r] = None] /\ tasks' = tasks \ {entry[r]}
  BY DEF RegisterPrimary, TypeOK, StopListener, Goto
<1>2. \A t \in Sockets : pc[t] \in Locked => home[t] # r
  BY <1>1, LockExclusion
<1>3. LockHeld'
  BY <1>1, <1>2 DEF LockHeld, TypeOK, Locked
<1>4. RegistryOwned'
  BY <1>1 DEF RegistryOwned, TypeOK, Holding, InLoop
<1>5. \A q \in Replicas : Replacing(q)' <=> Replacing(q) \/ q = r
  BY <1>1 DEF Replacing, TypeOK
<1>6. ListenerOwned'
  BY <1>1, <1>5 DEF ListenerOwned, TypeOK
<1> QED
  BY <1>3, <1>4, <1>6

\* A secondary enters the lock only over a registry that holds nobody else.
LEMMA RegisterIfUnownedInv ==
  ASSUME TypeOK, ManagerInv, NEW s \in Sockets, RegisterIfUnowned(s)
  PROVE  ManagerInv'
<1> USE SocketAssumption DEF ManagerInv
<1>1. CASE reg[home[s]] \notin {None, s}
  <2>1. Quiet
    BY <1>1 DEF RegisterIfUnowned, Quiet, TypeOK, Goto, LockHeld, Locked, Holding, InLoop
  <2> QED
    BY <2>1, QuietManagerInv
<1>2. CASE reg[home[s]] \in {None, s}
  <2> DEFINE r == home[s]
  <2>1. /\ r \in Replicas /\ lock[r] = None /\ pc[s] = "register"
        /\ lock' = [lock EXCEPT ![r] = s] /\ pc' = [pc EXCEPT ![s] = "entitle"]
        /\ home' = home /\ reg' = reg /\ sweep' = sweep /\ entry' = entry /\ tasks' = tasks
    BY <1>2 DEF RegisterIfUnowned, TypeOK, Goto
  <2>2. \A t \in Sockets : pc[t] \in Locked => home[t] # r
    BY <2>1, LockExclusion
  <2>3. reg[r] = None
    BY <1>2, <2>1 DEF RegistryOwned, Holding, InLoop
  <2>4. LockHeld'
    BY <2>1, <2>2 DEF LockHeld, TypeOK, Locked
  <2>5. RegistryOwned'
    BY <2>1, <2>3 DEF RegistryOwned, TypeOK, Holding, InLoop
  <2>6. \A q \in Replicas : Replacing(q)' <=> Replacing(q)
    BY <2>1 DEF Replacing, TypeOK
  <2>7. ListenerOwned'
    BY <2>1, <2>6 DEF ListenerOwned, TypeOK
  <2> QED
    BY <2>4, <2>5, <2>7
<1> QED
  BY <1>1, <1>2

\* The entitled secondary goes on as a primary does; the other one lets go.
LEMMA ConfirmEntitledInv ==
  ASSUME TypeOK, ManagerInv, NEW s \in Sockets, ConfirmEntitled(s)
  PROVE  ManagerInv'
<1> USE SocketAssumption DEF ManagerInv
<1> DEFINE r == home[s]
<1>1. /\ r \in Replicas /\ pc[s] = "entitle"
      /\ home' = home /\ reg' = reg /\ sweep' = sweep
      /\ \A t \in Sockets : pc[t] \in Locked /\ home[t] = r => t = s
      /\ ~(sweep.pc = "finish" /\ sweep.home = r)
  BY LockExclusion DEF ConfirmEntitled, Locked
<1>2. CASE ptr = s
  <2>1. /\ lock' = lock /\ pc' = [pc EXCEPT ![s] = "install"]
        /\ entry' = [entry EXCEPT ![r] = None] /\ tasks' = tasks \ {entry[r]}
    BY <1>2 DEF ConfirmEntitled, TypeOK, StopListener, Goto
  <2>2. LockHeld'
    BY <1>1, <2>1 DEF LockHeld, TypeOK, Locked
  <2>3. RegistryOwned'
    BY <1>1, <2>1 DEF RegistryOwned, TypeOK, Holding, InLoop
  <2>4. \A q \in Replicas : Replacing(q)' <=> Replacing(q) \/ q = r
    BY <1>1, <2>1 DEF Replacing, TypeOK
  <2>5. ListenerOwned'
    BY <1>1, <2>1, <2>4 DEF ListenerOwned, TypeOK
  <2> QED
    BY <2>2, <2>3, <2>5
<1>3. CASE ptr # s
  <2>1. /\ lock' = [lock EXCEPT ![r] = None] /\ pc' = [pc EXCEPT ![s] = "yield"]
        /\ entry' = entry /\ tasks' = tasks
    BY <1>3 DEF ConfirmEntitled, Unlock, Goto
  <2>2. LockHeld'
    BY <1>1, <2>1 DEF LockHeld, TypeOK, Locked
  <2>3. RegistryOwned'
    BY <1>1, <2>1 DEF RegistryOwned, TypeOK, Holding, InLoop
  <2>4. \A q \in Replicas : Replacing(q)' <=> Replacing(q)
    BY <1>1, <2>1 DEF Replacing, TypeOK
  <2>5. ListenerOwned'
    BY <1>1, <2>1, <2>4 DEF ListenerOwned, TypeOK
  <2> QED
    BY <2>2, <2>3, <2>5
<1> QED
  BY <1>2, <1>3

\* The registry changes hands, under the lock and with no listener running.
LEMMA InstallInv ==
  ASSUME TypeOK, ManagerInv, NEW s \in Sockets, Install(s)
  PROVE  ManagerInv'
<1> USE SocketAssumption DEF ManagerInv
<1> DEFINE r == home[s]
<1>1. /\ r \in Replicas /\ pc[s] = "install" /\ pc' = [pc EXCEPT ![s] = "listen"]
      /\ home' = home /\ reg' = [reg EXCEPT ![r] = s] /\ sweep' = sweep
      /\ lock' = lock /\ entry' = entry /\ tasks' = tasks
      /\ \A t \in Sockets : pc[t] \in Locked /\ home[t] = r => t = s
  BY LockExclusion DEF Install, Locked, Goto
<1>2. LockHeld'
  BY <1>1 DEF LockHeld, TypeOK, Locked
<1>3. RegistryOwned'
  BY <1>1 DEF RegistryOwned, TypeOK, Holding, InLoop, Locked
<1>4. \A q \in Replicas : (Replacing(q)' <=> Replacing(q)) /\ Replacing(r)
  BY <1>1 DEF Replacing, TypeOK
<1>5. ListenerOwned'
  BY <1>1, <1>4 DEF ListenerOwned, TypeOK
<1> QED
  BY <1>2, <1>3, <1>5

\* The new listener starts where the old one was stopped, and the lock is given up.
LEMMA StartListenerInv ==
  ASSUME TypeOK, ManagerInv, NEW s \in Sockets, StartListener(s)
  PROVE  ManagerInv'
<1> USE SocketAssumption DEF ManagerInv
<1> DEFINE r == home[s]
<1>1. /\ r \in Replicas /\ pc[s] = "listen" /\ pc' = [pc EXCEPT ![s] = "publish"]
      /\ home' = home /\ reg' = reg /\ sweep' = sweep
      /\ lock' = [lock EXCEPT ![r] = None] /\ entry' = [entry EXCEPT ![r] = s]
      /\ tasks' = tasks \cup {s}
      /\ \A t \in Sockets : pc[t] \in Locked /\ home[t] = r => t = s
      /\ ~(sweep.pc = "finish" /\ sweep.home = r)
  BY LockExclusion DEF StartListener, Locked, Goto, Unlock
<1>2. reg[r] = s
  BY <1>1 DEF RegistryOwned
<1>3. LockHeld'
  BY <1>1 DEF LockHeld, TypeOK, Locked
<1>4. RegistryOwned'
  BY <1>1, <1>2 DEF RegistryOwned, TypeOK, Holding, InLoop
<1>5. \A q \in Replicas : Replacing(q)' <=> Replacing(q) /\ q # r
  BY <1>1 DEF Replacing, TypeOK, Locked
<1>6. Replacing(r)
  BY <1>1 DEF Replacing
<1>7. ListenerOwned'
  BY <1>1, <1>2, <1>5, <1>6 DEF ListenerOwned, TypeOK
<1> QED
  BY <1>3, <1>4, <1>7

\* A failed registration is rolled back before the lock is released.
LEMMA RegisterErrorInv ==
  ASSUME TypeOK, ManagerInv, NEW s \in Sockets, RegisterError(s)
  PROVE  ManagerInv'
<1> USE SocketAssumption DEF ManagerInv
<1> DEFINE r == home[s]
<1>0. /\ home' = home /\ sweep' = sweep /\ entry' = entry /\ tasks' = tasks
      /\ pc[s] \in {"register", "publish", "listen", "entitle"} /\ r \in Replicas
      /\ \E l \in {"yield", "teardown"} : pc' = [pc EXCEPT ![s] = l]
  BY DEF RegisterError, TypeOK, Goto
<1>1. CASE pc[s] \in {"register", "publish"}
  <2>1. reg' = reg /\ lock' = lock
    BY <1>1 DEF RegisterError
  <2>2. Quiet
    BY <1>0, <1>1, <2>1 DEF Quiet, TypeOK, LockHeld, Locked, Holding, InLoop
  <2> QED
    BY <2>2, QuietManagerInv
<1>2. CASE pc[s] \in {"listen", "entitle"}
  <2>1. /\ lock' = [lock EXCEPT ![r] = None]
        /\ reg' = [reg EXCEPT ![r] = IF pc[s] = "listen" THEN None ELSE @]
    BY <1>2 DEF RegisterError, Unlock, TypeOK
  <2>2. /\ \A t \in Sockets : pc[t] \in Locked /\ home[t] = r => t = s
        /\ ~(sweep.pc = "finish" /\ sweep.home = r)
    BY <1>2, LockExclusion DEF Locked
  <2>3. LockHeld'
    BY <1>0, <2>1, <2>2 DEF LockHeld, TypeOK, Locked
  <2>4. RegistryOwned'
    BY <1>0, <1>2, <2>1, <2>2 DEF RegistryOwned, TypeOK, Holding, InLoop, Locked
  <2>5. \A q \in Replicas : Replacing(q)' <=> Replacing(q) /\ q # r
    BY <1>0, <1>2, <2>2 DEF Replacing, TypeOK, Locked
  <2>6. Replacing(r) <=> pc[s] = "listen"
    BY <1>0, <1>2, <2>2 DEF Replacing, TypeOK, Locked
  <2>7. ListenerOwned'
    BY <1>0, <2>1, <2>5, <2>6 DEF ListenerOwned, TypeOK
  <2> QED
    BY <2>3, <2>4, <2>7
<1> QED
  BY <1>0, <1>1, <1>2

\* The compare of a teardown is made under the lock it then holds.
LEMMA UnregisterInv ==
  ASSUME TypeOK, ManagerInv, NEW s \in Sockets, UnregisterIfCurrent(s)
  PROVE  ManagerInv'
<1> USE SocketAssumption DEF ManagerInv
<1>1. CASE reg[home[s]] # s
  <2>1. Quiet
    BY <1>1 DEF UnregisterIfCurrent, Quiet, TypeOK, Goto, LockHeld, Locked, Holding, InLoop
  <2> QED
    BY <2>1, QuietManagerInv
<1>2. CASE reg[home[s]] = s
  <2> DEFINE r == home[s]
  <2>1. /\ r \in Replicas /\ lock[r] = None /\ pc[s] = "unreg"
        /\ lock' = [lock EXCEPT ![r] = s] /\ pc' = [pc EXCEPT ![s] = "unregistering"]
        /\ home' = home /\ reg' = reg /\ sweep' = sweep /\ entry' = entry /\ tasks' = tasks
    BY <1>2 DEF UnregisterIfCurrent, TypeOK, Goto
  <2>2. \A t \in Sockets : pc[t] \in Locked => home[t] # r
    BY <2>1, LockExclusion
  <2>3. LockHeld'
    BY <2>1, <2>2 DEF LockHeld, TypeOK, Locked
  <2>4. RegistryOwned'
    BY <1>2, <2>1 DEF RegistryOwned, TypeOK, Holding, InLoop
  <2>5. \A q \in Replicas : Replacing(q)' <=> Replacing(q)
    BY <2>1 DEF Replacing, TypeOK
  <2>6. ListenerOwned'
    BY <2>1, <2>5 DEF ListenerOwned, TypeOK
  <2> QED
    BY <2>3, <2>4, <2>6
<1> QED
  BY <1>1, <1>2

\* A teardown empties the registry and its listener together, then gives up the lock.
LEMMA FinishUnregisterInv ==
  ASSUME TypeOK, ManagerInv, NEW s \in Sockets, FinishUnregister(s)
  PROVE  ManagerInv'
<1> USE SocketAssumption DEF ManagerInv
<1> DEFINE r == home[s]
<1>1. /\ r \in Replicas /\ pc[s] = "unregistering" /\ pc' = [pc EXCEPT ![s] = "clear"]
      /\ home' = home /\ reg' = [reg EXCEPT ![r] = None] /\ sweep' = sweep
      /\ lock' = [lock EXCEPT ![r] = None]
      /\ entry' = [entry EXCEPT ![r] = None] /\ tasks' = tasks \ {entry[r]}
      /\ \A t \in Sockets : pc[t] \in Locked /\ home[t] = r => t = s
      /\ ~(sweep.pc = "finish" /\ sweep.home = r)
  BY LockExclusion DEF FinishUnregister, Locked, Goto, StopListener, Unlock
<1>2. LockHeld'
  BY <1>1 DEF LockHeld, TypeOK, Locked
<1>3. \A q \in Replicas \ {r} : reg[q] # s
  BY <1>1 DEF RegistryOwned
<1>4. RegistryOwned'
  <2>1. \A t \in Sockets \ {s} : pc'[t] = pc[t]
    BY <1>1 DEF TypeOK
  <2>2. pc'[s] = "clear" /\ reg'[r] = None
    BY <1>1 DEF TypeOK
  <2>3. \A q \in Replicas \ {r} : reg'[q] = reg[q]
    BY <1>1 DEF TypeOK
  <2>4. \A q \in Replicas : reg'[q] # None => home'[reg'[q]] = q /\ pc'[reg'[q]] \in Holding
    BY <1>1, <1>3, <2>1, <2>2, <2>3 DEF RegistryOwned, TypeOK
  <2>5. \A t \in Sockets : pc'[t] \in {"listen", "unregistering"} => reg'[home'[t]] = t
    BY <1>1, <2>1, <2>2, <2>3 DEF RegistryOwned, TypeOK, Locked
  <2>6. \A t \in Secondary : pc'[t] \in {"entitle", "install"} => reg'[home'[t]] = None
    BY <1>1, <2>1, <2>2, <2>3 DEF RegistryOwned, TypeOK
  <2> QED
    BY <2>4, <2>5, <2>6 DEF RegistryOwned
<1>5. \A q \in Replicas : (Replacing(q)' <=> Replacing(q)) /\ ~Replacing(r)
  BY <1>1 DEF Replacing, TypeOK, Locked
<1>6. ListenerOwned'
  BY <1>1, <1>5 DEF ListenerOwned, TypeOK
<1> QED
  BY <1>2, <1>4, <1>6

\* The sweep takes the lock as a teardown does, whoever is registered.
LEMMA SweepManagerInv ==
  ASSUME TypeOK, ManagerInv, SweepUnregister \/ SweepFinish
  PROVE  ManagerInv'
<1> USE SocketAssumption DEF ManagerInv
<1> DEFINE r == sweep.home
<1>1. CASE SweepUnregister
  <2>1. /\ r \in Replicas /\ lock[r] = None /\ lock' = [lock EXCEPT ![r] = Sweeper]
        /\ sweep' = [sweep EXCEPT !.pc = "finish"] /\ sweep.pc = "unregister"
        /\ pc' = pc /\ home' = home /\ reg' = reg /\ entry' = entry /\ tasks' = tasks
    BY <1>1 DEF SweepUnregister, SweepTo, LockHeld, handlerVars
  <2>2. \A t \in Sockets : pc[t] \in Locked => home[t] # r
    BY <2>1, LockExclusion
  <2>3. LockHeld'
    BY <2>1, <2>2 DEF LockHeld, TypeOK
  <2>4. RegistryOwned' /\ ListenerOwned'
    BY <2>1 DEF RegistryOwned, ListenerOwned, Replacing
  <2> QED
    BY <2>3, <2>4
<1>2. CASE SweepFinish
  <2>1. /\ r \in Replicas /\ lock[r] = Sweeper /\ lock' = [lock EXCEPT ![r] = None]
        /\ sweep'.pc = "idle" /\ reg' = [reg EXCEPT ![r] = None]
        /\ entry' = [entry EXCEPT ![r] = None] /\ tasks' = tasks \ {entry[r]}
        /\ pc' = pc /\ home' = home
    BY <1>2 DEF SweepFinish, NoSweep, LockHeld, StopListener, Unlock, handlerVars
  <2>2. \A t \in Sockets : pc[t] \in Locked => home[t] # r
    BY <2>1 DEF LockHeld
  <2>3. LockHeld'
    BY <2>1, <2>2 DEF LockHeld, TypeOK
  <2>4. RegistryOwned'
    BY <2>1, <2>2 DEF RegistryOwned, TypeOK, Locked
  <2>5. \A q \in Replicas : (Replacing(q)' <=> Replacing(q)) /\ ~Replacing(r)
    BY <2>1, <2>2 DEF Replacing, Locked
  <2>6. ListenerOwned'
    BY <2>1, <2>5 DEF ListenerOwned, TypeOK
  <2> QED
    BY <2>3, <2>4, <2>6
<1> QED
  BY <1>1, <1>2

\* A restart empties one replica's manager and ends every handler that used it.
LEMMA RestartManagerInv ==
  ASSUME TypeOK, ManagerInv, NEW r \in Replicas, Restart(r)
  PROVE  ManagerInv'
<1> USE SocketAssumption DEF ManagerInv
<1>1. /\ home' = home /\ lock' = [lock EXCEPT ![r] = None]
      /\ reg' = [reg EXCEPT ![r] = None] /\ entry' = [entry EXCEPT ![r] = None]
      /\ tasks' = {t \in tasks : home[t] # r}
      /\ sweep' = IF sweep.home = r THEN NoSweep ELSE sweep
  BY DEF Restart, Unlock
<1>2. \A t \in Sockets : /\ home[t] # r => pc'[t] = pc[t]
                         /\ home[t] = r => pc'[t] \in Ended
  <2> DEFINE lost == {s \in Sockets : home[s] = r /\ pc[s] \notin Ended}
  <2>1. pc' = [s \in Sockets |-> IF s \in lost THEN "dead" ELSE pc[s]]
    BY DEF Restart
  <2>2. \A t \in Sockets : pc'[t] = IF t \in lost THEN "dead" ELSE pc[t]
    BY <2>1
  <2> QED
    BY <2>2 DEF Ended
<1>3. LockHeld'
  BY <1>1, <1>2 DEF LockHeld, TypeOK, Locked, Ended, NoSweep
<1>4. RegistryOwned'
  BY <1>1, <1>2 DEF RegistryOwned, TypeOK, Ended
<1>5. \A q \in Replicas : Replacing(q)' <=> Replacing(q) /\ q # r
  BY <1>1, <1>2 DEF Replacing, Ended
<1>6. ListenerOwned'
  BY <1>1, <1>5 DEF ListenerOwned, TypeOK
<1> QED
  BY <1>3, <1>4, <1>6

\* The manager is empty at first.
LEMMA InitManager == Init => ManagerInv
  BY SocketAssumption DEF Init, ManagerInv, LockHeld, RegistryOwned, ListenerOwned, Replacing,
     Locked, NoSweep

\* Every step is a quiet one or one of the nine that touch the manager.
LEMMA StepManager == TypeOK /\ ManagerInv /\ [Next]_vars => ManagerInv'
<1> SUFFICES ASSUME TypeOK, ManagerInv, [Next]_vars PROVE ManagerInv'
  OBVIOUS
<1>0. LockHeld
  BY DEF ManagerInv
<1>1. ASSUME NEW s \in Sockets, Handshake(s) \/ Loop(s) PROVE ManagerInv'
  BY <1>0, <1>1, HandshakeQuiet, LoopQuiet, QuietManagerInv
<1>2. ASSUME NEW s \in Sockets, Registration(s) PROVE ManagerInv'
  BY <1>0, <1>2, LoopQuiet, QuietManagerInv, RegisterPrimaryInv, RegisterIfUnownedInv,
     ConfirmEntitledInv, InstallInv, StartListenerInv, RegisterErrorInv DEF Registration
<1>3. ASSUME NEW s \in Sockets, Cleanup(s) PROVE ManagerInv'
  BY <1>0, <1>3, LoopQuiet, QuietManagerInv, UnregisterInv, FinishUnregisterInv DEF Cleanup
<1>4. CASE Sweep
  BY <1>0, <1>4, OtherQuiet, QuietManagerInv, SweepManagerInv DEF Sweep
<1>5. CASE Environment \/ UNCHANGED vars
  BY <1>0, <1>5, OtherQuiet, QuietManagerInv, RestartManagerInv DEF Environment
<1> QED
  BY <1>1, <1>2, <1>3, <1>4, <1>5 DEF Next

\* The manager's half of the invariant is always true.
LEMMA ManagerAlways == Spec => [](TypeOK /\ ManagerInv)
  BY InitTyping, InitManager, StepTyping, StepManager, PTL DEF Spec

\* The listener is never stale: whenever nobody is inside the registration lock, the
\* entry names the registered socket and no other task forwards frames.
THEOREM ListenerFollows == Spec => []ListenerFollowsRegistry
<1>1. ASSUME TypeOK, ManagerInv PROVE ListenerFollowsRegistry
  <2> SUFFICES ASSUME NEW r \in Replicas, lock[r] = None
               PROVE  /\ entry[r] = reg[r]
                      /\ \A s \in tasks : home[s] = r => s = reg[r]
    BY DEF ListenerFollowsRegistry
  <2>1. ~Replacing(r)
    BY <1>1, SocketAssumption DEF ManagerInv, LockHeld, Replacing, Locked
  <2> QED
    BY <1>1, <2>1 DEF ManagerInv, ListenerOwned
<1> QED
  BY <1>1, ManagerAlways, PTL

\* One forwarder: at no instant do two listener tasks of a replica relay the
\* device's frames, whatever replaces, fails or restarts.
THEOREM OneForwarder == Spec => []SingleForwarder
<1>1. ASSUME TypeOK, ManagerInv PROVE SingleForwarder
  BY <1>1 DEF ManagerInv, ListenerOwned, SingleForwarder
<1> QED
  BY <1>1, ManagerAlways, PTL

\* No step of a handler revives a handler that has ended.
LEMMA HandlerEnds ==
  ASSUME TypeOK, NEW s \in Sockets, Handshake(s) \/ Registration(s) \/ Loop(s) \/ Cleanup(s)
  PROVE  \A t \in Sockets : pc[t] \in Ended => pc'[t] \in Ended
<1> SUFFICES pc' = pc \/ (pc[s] \notin Ended /\ \A t \in Sockets \ {s} : pc'[t] = pc[t])
  BY DEF TypeOK
<1> USE DEF Ended, Goto, handlerVars
<1>1. CASE ReadHolders(s)
  BY <1>1 DEF ReadHolders, TypeOK
<1>2. CASE ProbeAnswered(s)
  BY <1>2 DEF ProbeAnswered, Refuse, TypeOK
<1>3. CASE ProbeSilent(s)
  BY <1>3 DEF ProbeSilent, TypeOK
<1>4. CASE CloseHolders(s)
  BY <1>4 DEF CloseHolders, TypeOK
<1>5. CASE EvictHolders(s)
  BY <1>5 DEF EvictHolders, TypeOK
<1>6. CASE InsertRow(s)
  BY <1>6 DEF InsertRow, TypeOK
<1>7. CASE LoseInsertRace(s)
  BY <1>7 DEF LoseInsertRace, Refuse, TypeOK
<1>8. CASE Adopt(s)
  BY <1>8 DEF Adopt, TypeOK
<1>9. CASE UpsertDevice(s)
  BY <1>9 DEF UpsertDevice, TypeOK
<1>10. CASE TakePointer(s)
  BY <1>10 DEF TakePointer, TypeOK
<1>11. CASE HandshakeDbError(s)
  BY <1>11 DEF HandshakeDbError, InGuard, Guarded, TypeOK
<1>12. CASE ClaimUnheld(s)
  BY <1>12 DEF ClaimUnheld, TypeOK
<1>13. CASE RegisterPrimary(s)
  BY <1>13 DEF RegisterPrimary, TypeOK
<1>14. CASE RegisterIfUnowned(s)
  BY <1>14 DEF RegisterIfUnowned, TypeOK
<1>15. CASE ConfirmEntitled(s)
  BY <1>15 DEF ConfirmEntitled, TypeOK
<1>16. CASE Install(s)
  BY <1>16 DEF Install, TypeOK
<1>17. CASE StartListener(s)
  BY <1>17 DEF StartListener, TypeOK
<1>18. CASE PublishConnected(s)
  BY <1>18 DEF PublishConnected, TypeOK
<1>19. CASE RegisterError(s)
  BY <1>19 DEF RegisterError, TypeOK
<1>20. CASE YieldClaim(s)
  BY <1>20 DEF YieldClaim, TypeOK
<1>21. CASE Ack(s)
  BY <1>21 DEF Ack, TypeOK
<1>22. CASE Heartbeat(s)
  BY <1>22 DEF Heartbeat, TypeOK
<1>23. CASE HealGate(s)
  BY <1>23 DEF HealGate, TypeOK
<1>24. CASE Heal(s)
  BY <1>24 DEF Heal, TypeOK
<1>25. CASE HeartbeatDbError(s)
  BY <1>25 DEF HeartbeatDbError, TypeOK
<1>26. CASE Disconnect(s)
  BY <1>26 DEF Disconnect, TypeOK
<1>27. CASE Teardown(s)
  BY <1>27 DEF Teardown, TypeOK
<1>28. CASE UnregisterIfCurrent(s)
  BY <1>28 DEF UnregisterIfCurrent, TypeOK
<1>29. CASE FinishUnregister(s)
  BY <1>29 DEF FinishUnregister, TypeOK
<1>30. CASE ClearOwnPointer(s)
  BY <1>30 DEF ClearOwnPointer, TypeOK
<1>31. CASE CloseOwnRow(s)
  BY <1>31 DEF CloseOwnRow, TypeOK
<1>32. CASE AnnounceGone(s)
  BY <1>32 DEF AnnounceGone, TypeOK
<1>33. CASE CleanupDbError(s)
  BY <1>33 DEF CleanupDbError, TypeOK
<1>34. CASE \E r \in Replicas : Connect(s, r)
  BY <1>34 DEF Connect, TypeOK
<1> QED
  BY <1>1, <1>2, <1>3, <1>4, <1>5, <1>6, <1>7, <1>8, <1>9, <1>10, <1>11, <1>12, <1>13, <1>14, <1>15, <1>16, <1>17, <1>18, <1>19, <1>20, <1>21, <1>22, <1>23, <1>24, <1>25, <1>26, <1>27, <1>28, <1>29, <1>30, <1>31, <1>32, <1>33, <1>34
     DEF Handshake, Registration, Loop, Cleanup

\* Nor does any other step.
LEMMA EndedStays ==
  ASSUME TypeOK, [Next]_vars
  PROVE  \A t \in Sockets : pc[t] \in Ended => pc'[t] \in Ended
<1>1. ASSUME NEW s \in Sockets, Handshake(s) \/ Registration(s) \/ Loop(s) \/ Cleanup(s)
      PROVE  \A t \in Sockets : pc[t] \in Ended => pc'[t] \in Ended
  BY <1>1, HandlerEnds
<1>2. CASE Sweep
  <2>1. pc' = pc
    BY <1>2 DEF Sweep, SweepScan, SweepSelect, SweepOn, SweepCloseSecondaries, SweepClosePrimaries,
       SweepTo, SweepClearPointer, SweepUnregister, SweepFinish, SweepDbError, handlerVars
  <2> QED
    BY <2>1
<1>3. ASSUME NEW r \in Replicas, Restart(r)
      PROVE  \A t \in Sockets : pc[t] \in Ended => pc'[t] \in Ended
  <2> DEFINE lost == {s \in Sockets : home[s] = r /\ pc[s] \notin Ended}
  <2>1. pc' = [s \in Sockets |-> IF s \in lost THEN "dead" ELSE pc[s]]
    BY <1>3 DEF Restart
  <2>2. \A t \in Sockets : pc[t] \in Ended => pc'[t] = pc[t]
    BY <2>1
  <2> QED
    BY <2>2
<1>4. CASE PresenceExpires \/ UNCHANGED vars
           \/ \E s \in Sockets : PeerSilent(s) \/ WireDown(s) \/ ListenerEnds(s) \/ RowAges(s)
  <2>1. pc' = pc
    BY <1>4 DEF PresenceExpires, PeerSilent, WireDown, ListenerEnds, RowAges, vars, handlerVars
  <2> QED
    BY <2>1
<1> QED
  BY <1>1, <1>2, <1>3, <1>4 DEF Next, Environment

\* A step leaves a replica's registration alone, empties it, or installs a socket.
LEMMA RegistrySteps ==
  ASSUME TypeOK, ManagerInv, [Next]_vars, NEW r \in Replicas
  PROVE  reg'[r] \in {reg[r], None} \/ \E s \in Sockets : Install(s)
<1>0. LockHeld
  BY DEF ManagerInv
<1>1. ASSUME Quiet PROVE reg'[r] = reg[r]
  BY <1>1 DEF Quiet
<1>2. ASSUME NEW s \in Sockets, Registration(s)
      PROVE  reg'[r] \in {reg[r], None} \/ Install(s)
  <2>1. CASE ClaimUnheld(s) \/ PublishConnected(s) \/ YieldClaim(s) \/ Ack(s)
    BY <1>0, <1>1, <2>1, LoopQuiet
  <2>2. CASE RegisterPrimary(s) \/ RegisterIfUnowned(s)
    BY <2>2 DEF RegisterPrimary, RegisterIfUnowned, TypeOK, managerVars
  <2>3. CASE ConfirmEntitled(s) \/ StartListener(s) \/ RegisterError(s)
    BY <2>3 DEF ConfirmEntitled, StartListener, RegisterError, TypeOK, managerVars
  <2> QED
    BY <1>2, <2>1, <2>2, <2>3 DEF Registration
<1>3. ASSUME NEW s \in Sockets, Handshake(s) \/ Loop(s) \/ Cleanup(s)
      PROVE  reg'[r] \in {reg[r], None}
  <2>1. CASE UnregisterIfCurrent(s) \/ FinishUnregister(s)
    BY <2>1 DEF UnregisterIfCurrent, FinishUnregister, TypeOK
  <2> QED
    BY <1>0, <1>1, <1>3, <2>1, HandshakeQuiet, LoopQuiet DEF Cleanup
<1>4. CASE Sweep
  <2>1. CASE SweepUnregister \/ SweepFinish
    BY <2>1 DEF SweepUnregister, SweepFinish, TypeOK
  <2> QED
    BY <1>0, <1>1, <1>4, <2>1, OtherQuiet DEF Sweep
<1>5. CASE Environment \/ UNCHANGED vars
  <2>1. ASSUME NEW q \in Replicas, Restart(q) PROVE reg'[r] \in {reg[r], None}
    BY <2>1 DEF Restart, TypeOK
  <2> QED
    BY <1>0, <1>1, <1>5, <2>1, OtherQuiet DEF Environment
<1> QED
  BY <1>2, <1>3, <1>4, <1>5 DEF Next

\* Every step of the backend is a step of each replica's slot, or leaves it alone.
LEMMA SlotStep ==
  ASSUME TypeOK, ManagerInv, ManagerInv', [Next]_vars, NEW r \in Replicas
  PROVE  [Slot(r)!Next]_<<reg[r], {s \in Sockets : pc[s] \in Ended}>>
<1> DEFINE ended == {s \in Sockets : pc[s] \in Ended}
<1>1. ended \subseteq ended' /\ ended' \in SUBSET Sockets
  BY EndedStays
<1>2. reg'[r] \notin ended'
  BY SocketAssumption DEF ManagerInv, RegistryOwned, Holding, InLoop, Ended
<1>3. CASE reg'[r] \in {reg[r], None}
  <2>1. Slot(r)!Leave
    BY <1>1, <1>2, <1>3 DEF Slot!Leave
  <2> QED
    BY <2>1 DEF Slot!Next
<1>4. ASSUME NEW s \in Sockets, Install(s), reg'[r] \notin {reg[r], None}
      PROVE  Slot(r)!Next
  <2>1. /\ home[s] = r /\ reg'[r] = s /\ pc[s] = "install"
        /\ pc' = [pc EXCEPT ![s] = "listen"]
    BY <1>4 DEF Install, TypeOK, Goto
  <2>2. s \notin ended /\ ended' = ended
    BY <2>1 DEF TypeOK, Ended
  <2>3. s \in Secondary => reg[r] = None
    BY <2>1 DEF ManagerInv, RegistryOwned
  <2>4. Slot(r)!Take(s)
    BY <2>1, <2>2, <2>3 DEF Slot!Take
  <2> QED
    BY <2>4 DEF Slot!Next
<1> QED
  BY <1>3, <1>4, RegistrySteps

\* The registry of every replica implements the abstract slot: a secondary is
\* installed only where nobody else is registered, and a handler that has ended
\* never leaves its socket registered (register_if_unowned, unregister_if_current).
THEOREM ImplementsSlot == Spec => RegistryImplementsSlot
<1>1. ASSUME Init PROVE \A r \in Replicas : Slot(r)!Init
  BY <1>1 DEF Init, Slot!Init, Ended
<1>2. ASSUME TypeOK /\ ManagerInv, (TypeOK /\ ManagerInv)', [Next]_vars
      PROVE  [\A r \in Replicas : [Slot(r)!Next]_<<reg[r], {s \in Sockets : pc[s] \in Ended}>>]_vars
  BY <1>2, SlotStep
<1> QED
  BY <1>1, <1>2, ManagerAlways, PTL DEF Spec, RegistryImplementsSlot

\* A handler inside the teardown is registered itself: the compare still holds.
LEMMA FinishUnregisterSpares ==
  ASSUME TypeOK, ManagerInv, NEW s \in Sockets, FinishUnregister(s)
  PROVE  /\ \A r \in Replicas : reg[r] # s => reg'[r] = reg[r] /\ entry'[r] = entry[r]
         /\ tasks \ tasks' \subseteq {s}
<1> DEFINE q == home[s]
<1>1. /\ pc[s] = "unregistering" /\ q \in Replicas /\ reg[q] = s
      /\ reg' = [reg EXCEPT ![q] = None] /\ entry' = [entry EXCEPT ![q] = None]
      /\ tasks' = tasks \ {entry[q]}
  BY DEF FinishUnregister, StopListener, TypeOK, ManagerInv, RegistryOwned
<1>2. ~Replacing(q)
  BY <1>1 DEF Replacing, ManagerInv, LockHeld, Locked
<1>3. entry[q] = s
  BY <1>1, <1>2 DEF ManagerInv, ListenerOwned
<1> QED
  BY <1>1, <1>3 DEF TypeOK

\* The rest of a teardown does not reach the manager, and clears only the pointer
\* that still names its own socket.
LEMMA CleanupSpares ==
  ASSUME TypeOK, ManagerInv, NEW s \in Sockets, Cleanup(s)
  PROVE  /\ ptr' \in {ptr} \cup (IF ptr = s THEN {None} ELSE {})
         /\ \A r \in Replicas : reg[r] # s => reg'[r] = reg[r] /\ entry'[r] = entry[r]
         /\ tasks \ tasks' \subseteq {s}
<1> USE DEF dbVars, managerVars, ClearIfCurrent
<1>1. CASE Teardown(s) \/ UnregisterIfCurrent(s)
  BY <1>1 DEF Teardown, UnregisterIfCurrent
<1>2. CASE FinishUnregister(s)
  BY <1>2, FinishUnregisterSpares DEF FinishUnregister
<1>3. CASE ClearOwnPointer(s) \/ CloseOwnRow(s)
  BY <1>3 DEF ClearOwnPointer, CloseOwnRow
<1>4. CASE AnnounceGone(s)
  BY <1>4 DEF AnnounceGone
<1>5. CASE CleanupDbError(s)
  BY <1>5 DEF CleanupDbError
<1> QED
  BY <1>1, <1>2, <1>3, <1>4, <1>5 DEF Cleanup

\* A teardown never takes down a newer socket's pointer, registration or listener
\* (_cleanup, unregister_if_current, clear_ws_session_if_current), whatever the
\* interleaving of teardowns, registrations and sweeps.
THEOREM TeardownSpares == Spec => TeardownSparesNewer
<1>1. ASSUME TypeOK /\ ManagerInv, [Next]_vars
      PROVE  [\A s \in Sockets : Cleanup(s) =>
                /\ ptr' \in {ptr} \cup (IF ptr = s THEN {None} ELSE {})
                /\ \A r \in Replicas : reg[r] # s => reg'[r] = reg[r] /\ entry'[r] = entry[r]
                /\ tasks \ tasks' \subseteq {s}]_vars
  BY <1>1, CleanupSpares
<1> QED
  BY <1>1, ManagerAlways, PTL DEF Spec, TeardownSparesNewer

-----------------------------------------------------------------------------
(* Rows, adopted sockets and pointers. *)

\* A handshake records its row, its socket and its pointer in this order, and
\* leaves none behind unless its process or database fails.
LEMMA HandshakeSpan ==
  ASSUME TypeOK, EnteredInv, SpanInv, HolderInv, NEW s \in Sockets, Handshake(s)
  PROVE  SpanInv'
<1> USE SocketAssumption DEF TypeOK, SpanInv, Span, IsOpen, InGuard, Guarded, BeforeRow, Unadopted,
        Leaving, Ended, Locked, InLoop, Goto, handlerVars, dbVars, globalVars
<1>1. CASE \E r \in Replicas : Connect(s, r)
  BY <1>1 DEF Connect
<1>2. CASE ReadHolders(s)
  BY <1>2 DEF ReadHolders
<1>3. CASE ProbeAnswered(s)
  BY <1>3 DEF ProbeAnswered, Refuse
<1>4. CASE ProbeSilent(s)
  BY <1>4 DEF ProbeSilent
<1>5. CASE CloseHolders(s)
  BY <1>5 DEF CloseHolders, Close
<1>6. CASE EvictHolders(s)
  BY <1>6 DEF EvictHolders, ClearIfCurrent, HolderInv
<1>7. CASE InsertRow(s)
  BY <1>7 DEF InsertRow
<1>8. CASE LoseInsertRace(s)
  BY <1>8 DEF LoseInsertRace, Refuse
<1>9. CASE Adopt(s)
  BY <1>9 DEF Adopt
<1>10. CASE UpsertDevice(s)
  BY <1>10 DEF UpsertDevice
<1>11. CASE TakePointer(s)
  BY <1>11 DEF TakePointer, EnteredInv
<1>12. CASE HandshakeDbError(s)
  BY <1>12 DEF HandshakeDbError
<1> QED
  BY <1>1, <1>2, <1>3, <1>4, <1>5, <1>6, <1>7, <1>8, <1>9, <1>10, <1>11, <1>12
     DEF Handshake

\* A registration changes neither rows nor sockets, and claims the pointer at most.
LEMMA RegistrationSpan ==
  ASSUME TypeOK, EnteredInv, SpanInv, NEW s \in Sockets, Registration(s)
  PROVE  SpanInv'
<1> USE SocketAssumption DEF TypeOK, SpanInv, Span, IsOpen, InGuard, Guarded, BeforeRow, Unadopted,
        Leaving, Ended, Locked, InLoop, Goto, handlerVars, dbVars, globalVars
<1>1. CASE ClaimUnheld(s)
  BY <1>1 DEF ClaimUnheld
<1>2. CASE RegisterPrimary(s)
  BY <1>2 DEF RegisterPrimary
<1>3. CASE RegisterIfUnowned(s)
  BY <1>3 DEF RegisterIfUnowned
<1>4. CASE ConfirmEntitled(s)
  BY <1>4 DEF ConfirmEntitled
<1>5. CASE Install(s)
  BY <1>5 DEF Install
<1>6. CASE StartListener(s)
  BY <1>6 DEF StartListener
<1>7. CASE PublishConnected(s)
  BY <1>7 DEF PublishConnected
<1>8. CASE RegisterError(s)
  <2>1. /\ pc[s] \in {"register", "listen", "entitle", "publish"}
        /\ pc' = [pc EXCEPT ![s] = IF entered[s] THEN "yield" ELSE "teardown"]
        /\ entered' = entered /\ row' = row /\ ptr' = ptr /\ live' = live
    BY <1>8 DEF RegisterError
  <2> QED
    BY <2>1
<1>9. CASE YieldClaim(s)
  BY <1>9 DEF YieldClaim, ClearIfCurrent
<1>10. CASE Ack(s)
  BY <1>10 DEF Ack
<1> QED
  BY <1>1, <1>2, <1>3, <1>4, <1>5, <1>6, <1>7, <1>8, <1>9, <1>10 DEF Registration

\* The loop keeps row and socket; a heartbeat of it may claim the pointer.
LEMMA LoopSpan ==
  ASSUME TypeOK, EnteredInv, SpanInv, NEW s \in Sockets, Loop(s)
  PROVE  SpanInv'
<1> USE SocketAssumption DEF TypeOK, EnteredInv, SpanInv, Span, IsOpen, InGuard, Guarded, BeforeRow,
        Unadopted, Leaving, Ended, Locked, InLoop, Goto, handlerVars, dbVars, globalVars
<1>1. CASE Heartbeat(s)
  BY <1>1 DEF Heartbeat
<1>2. CASE HealGate(s)
  BY <1>2 DEF HealGate
<1>3. CASE Heal(s)
  BY <1>3 DEF Heal
<1>4. CASE HeartbeatDbError(s)
  BY <1>4 DEF HeartbeatDbError
<1>5. CASE Disconnect(s)
  BY <1>5 DEF Disconnect
<1> QED
  BY <1>1, <1>2, <1>3, <1>4, <1>5 DEF Loop

\* A teardown gives each of them up before it ends.
LEMMA CleanupSpan ==
  ASSUME TypeOK, EnteredInv, SpanInv, NEW s \in Sockets, Cleanup(s)
  PROVE  SpanInv'
<1> USE SocketAssumption DEF TypeOK, SpanInv, Span, IsOpen, InGuard, Guarded, BeforeRow, Unadopted,
        Leaving, Ended, Locked, InLoop, Goto, Close, ClearIfCurrent, handlerVars, dbVars, globalVars
<1>1. CASE Teardown(s)
  BY <1>1 DEF Teardown
<1>2. CASE UnregisterIfCurrent(s)
  BY <1>2 DEF UnregisterIfCurrent
<1>3. CASE FinishUnregister(s)
  BY <1>3 DEF FinishUnregister
<1>4. CASE ClearOwnPointer(s)
  BY <1>4 DEF ClearOwnPointer
<1>5. CASE CloseOwnRow(s)
  BY <1>5 DEF CloseOwnRow
<1>6. CASE AnnounceGone(s)
  BY <1>6 DEF AnnounceGone
<1>7. CASE CleanupDbError(s)
  BY <1>7 DEF CleanupDbError
<1> QED
  BY <1>1, <1>2, <1>3, <1>4, <1>5, <1>6, <1>7 DEF Cleanup

\* The sweep and the environment close rows, clear pointers and end handlers.
LEMMA OtherSpan ==
  ASSUME TypeOK, SpanInv, Sweep \/ Environment \/ UNCHANGED vars
  PROVE  SpanInv'
<1> USE SocketAssumption DEF TypeOK, SpanInv, Span, IsOpen, InGuard, Guarded, BeforeRow, Unadopted,
        Leaving, Ended, Locked, InLoop, Close, ClearIfCurrent, handlerVars, dbVars, globalVars
<1>1. CASE SweepSelect \/ SweepDbError \/ \E r \in Replicas : SweepScan(r)
  BY <1>1 DEF SweepSelect, SweepDbError, SweepScan
<1>2. CASE SweepCloseSecondaries
  BY <1>2 DEF SweepCloseSecondaries
<1>3. CASE SweepClosePrimaries
  BY <1>3 DEF SweepClosePrimaries
<1>4. CASE SweepClearPointer
  BY <1>4 DEF SweepClearPointer
<1>5. CASE SweepUnregister \/ SweepFinish
  BY <1>5 DEF SweepUnregister, SweepFinish
<1>6. CASE \E s \in Sockets : PeerSilent(s) \/ WireDown(s)
  BY <1>6 DEF PeerSilent, WireDown
<1>7. CASE \E s \in Sockets : ListenerEnds(s) \/ RowAges(s)
  BY <1>7 DEF ListenerEnds, RowAges
<1>8. CASE PresenceExpires \/ UNCHANGED vars
  BY <1>8 DEF PresenceExpires, vars
<1>9. ASSUME NEW r \in Replicas, Restart(r) PROVE SpanInv'
  <2>1. /\ entered' = entered /\ row' = row /\ ptr' = ptr
        /\ live' = {t \in live : home[t] # r}
    BY <1>9 DEF Restart
  <2>2. \A t \in Sockets : pc'[t] = pc[t] \/ (home[t] = r /\ pc'[t] = "dead")
    BY <1>9 DEF Restart
  <2>3. \A t \in Sockets : home[t] = r => pc'[t] \in Ended
    BY <1>9 DEF Restart
  <2> QED
    BY <2>1, <2>2, <2>3
<1> QED
  BY <1>1, <1>2, <1>3, <1>4, <1>5, <1>6, <1>7, <1>8, <1>9 DEF Sweep, Environment

-----------------------------------------------------------------------------
(* The holders a handshake supersedes. *)

\* Where a handshake looks for holders and deals with them.
Looking == {"resolve", "probe", "supersede", "evict"}

\* A step that leaves t's look at its holders alone, or finds or leaves it elsewhere.
Settles(t) ==
    pc'[t] \in Looking =>
      /\ pc'[t] = pc[t] /\ holders'[t] = holders[t] /\ home'[t] = home[t]
      /\ faults' = 0 => faults = 0

\* Every recorded row stays, a closed one closed; a recorded socket keeps its replica,
\* and comes back neither to life nor to _LIVE_SOCKETS except by its own adoption.
Lasting ==
    \A h \in Sockets : row[h] # "none" =>
        /\ row'[h] # "none"
        /\ row[h] = "closed" => row'[h] = "closed"
        /\ home'[h] = home[h]
        /\ wire'[h] = "up" => wire[h] = "up"
        /\ h \in live' => h \in live \/ pc[h] = "adopt"
        /\ pc[h] \in Leaving \cup Ended => pc'[h] \in Leaving \cup Ended

\* A step that spares the handshake of t keeps its holders as they should be.
LEMMA HolderStep ==
  ASSUME TypeOK, GuardInv, SpanInv, HolderInv, Lasting, \A t \in Sockets : Settles(t)
  PROVE  HolderInv'
<1> SUFFICES ASSUME NEW t \in Sockets, pc'[t] \in {"probe", "supersede", "evict"},
                    NEW h \in holders'[t]
             PROVE  /\ Key[h] = Key[t] /\ row'[h] # "none"
                    /\ pc'[t] = "supersede" /\ faults' = 0 => ~CanAnswer(t, h)'
                    /\ pc'[t] = "evict" => row'[h] = "closed"
  BY DEF HolderInv, Settles, Looking
<1>0. /\ pc'[t] = pc[t] /\ holders'[t] = holders[t] /\ home'[t] = home[t]
      /\ faults' = 0 => faults = 0
  BY DEF Settles, Looking
<1>1. h \in Sockets /\ Key[h] = Key[t] /\ row[h] # "none" /\ Key[t] # NoKey
  BY <1>0 DEF TypeOK, HolderInv
<1>2. pc'[t] = "evict" => row'[h] = "closed"
  BY <1>0, <1>1 DEF HolderInv, Lasting
<1>3. ASSUME pc'[t] = "supersede", faults' = 0, CanAnswer(t, h)' PROVE FALSE
  <2>1. ~CanAnswer(t, h)
    BY <1>0, <1>3 DEF HolderInv
  <2>2. /\ home[h] = home[t] /\ wire[h] = "up" /\ (h \in live \/ pc[h] = "adopt")
        /\ pc[h] \notin Leaving \cup Ended
    BY <1>0, <1>1, <1>3 DEF CanAnswer, Lasting
  <2>3. pc[h] = "adopt" /\ h # t
    BY <1>0, <1>3, <2>1, <2>2 DEF CanAnswer
  <2>4. InGuard(h) /\ InGuard(t) /\ GuardOf(h) = GuardOf(t)
    BY <1>0, <1>1, <1>3, <2>2, <2>3 DEF InGuard, Guarded, GuardOf
  <2> QED
    BY <1>1, <2>3, <2>4 DEF GuardInv, HandshakeExclusion
<1> QED
  BY <1>1, <1>2, <1>3 DEF Lasting

\* The steps of a handshake around the look at its holders are such steps.
LEMMA HandshakeSettles ==
  ASSUME TypeOK, SpanInv, NEW s \in Sockets,
         ProbeAnswered(s) \/ EvictHolders(s) \/ InsertRow(s) \/ LoseInsertRace(s)
           \/ Adopt(s) \/ UpsertDevice(s) \/ TakePointer(s) \/ HandshakeDbError(s)
  PROVE  Lasting /\ \A t \in Sockets : Settles(t)
<1> USE DEF TypeOK, SpanInv, Span, IsOpen, Lasting, Settles, Looking, BeforeRow, Unadopted, InLoop, Leaving,
        Ended, Goto, handlerVars, dbVars, globalVars
<1>1. CASE ProbeAnswered(s)
  BY <1>1 DEF ProbeAnswered, Refuse
<1>2. CASE EvictHolders(s)
  BY <1>2 DEF EvictHolders
<1>3. CASE InsertRow(s)
  BY <1>3 DEF InsertRow
<1>4. CASE LoseInsertRace(s)
  BY <1>4 DEF LoseInsertRace, Refuse
<1>5. CASE Adopt(s)
  BY <1>5 DEF Adopt
<1>6. CASE UpsertDevice(s)
  BY <1>6 DEF UpsertDevice
<1>7. CASE TakePointer(s)
  BY <1>7 DEF TakePointer
<1>8. CASE HandshakeDbError(s)
  BY <1>8 DEF HandshakeDbError, InGuard, Fault
<1> QED
  BY <1>1, <1>2, <1>3, <1>4, <1>5, <1>6, <1>7, <1>8

\* So are those of a registration.
LEMMA RegistrationSettles ==
  ASSUME TypeOK, SpanInv, NEW s \in Sockets,
         Registration(s)
  PROVE  Lasting /\ \A t \in Sockets : Settles(t)
<1> USE DEF TypeOK, SpanInv, Span, IsOpen, Lasting, Settles, Looking, BeforeRow, Unadopted, InLoop, Leaving,
        Ended, Goto, handlerVars, dbVars, globalVars
<1>1. CASE ClaimUnheld(s)
  BY <1>1 DEF ClaimUnheld
<1>2. CASE RegisterPrimary(s)
  BY <1>2 DEF RegisterPrimary
<1>3. CASE RegisterIfUnowned(s)
  BY <1>3 DEF RegisterIfUnowned
<1>4. CASE ConfirmEntitled(s)
  BY <1>4 DEF ConfirmEntitled
<1>5. CASE Install(s)
  BY <1>5 DEF Install
<1>6. CASE StartListener(s)
  BY <1>6 DEF StartListener
<1>7. CASE PublishConnected(s)
  BY <1>7 DEF PublishConnected
<1>8. CASE RegisterError(s)
  <2>1. /\ pc' = [pc EXCEPT ![s] = IF entered[s] THEN "yield" ELSE "teardown"]
        /\ pc[s] \in {"register", "listen", "entitle", "publish"}
        /\ home' = home /\ wire' = wire /\ holders' = holders /\ row' = row /\ live' = live
        /\ faults' = faults + 1
    BY <1>8 DEF RegisterError, Fault
  <2> QED
    BY <2>1
<1>9. CASE YieldClaim(s)
  BY <1>9 DEF YieldClaim, Fault
<1>10. CASE Ack(s)
  BY <1>10 DEF Ack
<1> QED
  BY <1>1, <1>2, <1>3, <1>4, <1>5, <1>6, <1>7, <1>8, <1>9, <1>10 DEF Registration

\* So are those of the loop.
LEMMA LoopSettles ==
  ASSUME TypeOK, SpanInv, NEW s \in Sockets,
         Loop(s)
  PROVE  Lasting /\ \A t \in Sockets : Settles(t)
<1> USE DEF TypeOK, SpanInv, Span, IsOpen, Lasting, Settles, Looking, BeforeRow, Unadopted, InLoop, Leaving,
        Ended, Goto, handlerVars, dbVars, globalVars
<1>1. CASE Heartbeat(s)
  BY <1>1 DEF Heartbeat, Fault
<1>2. CASE HealGate(s)
  BY <1>2 DEF HealGate
<1>3. CASE Heal(s)
  BY <1>3 DEF Heal
<1>4. CASE HeartbeatDbError(s)
  BY <1>4 DEF HeartbeatDbError, Fault
<1>5. CASE Disconnect(s)
  BY <1>5 DEF Disconnect
<1> QED
  BY <1>1, <1>2, <1>3, <1>4, <1>5 DEF Loop

\* So are those of a teardown.
LEMMA CleanupSettles ==
  ASSUME TypeOK, SpanInv, NEW s \in Sockets,
         Cleanup(s)
  PROVE  Lasting /\ \A t \in Sockets : Settles(t)
<1> USE DEF TypeOK, SpanInv, Span, IsOpen, Lasting, Settles, Looking, BeforeRow, Unadopted, InLoop, Leaving,
        Ended, Goto, handlerVars, dbVars, globalVars
<1>1. CASE Teardown(s)
  BY <1>1 DEF Teardown
<1>2. CASE UnregisterIfCurrent(s)
  BY <1>2 DEF UnregisterIfCurrent, Fault
<1>3. CASE FinishUnregister(s)
  BY <1>3 DEF FinishUnregister
<1>4. CASE ClearOwnPointer(s)
  BY <1>4 DEF ClearOwnPointer
<1>5. CASE CloseOwnRow(s)
  BY <1>5 DEF CloseOwnRow, Close, IsOpen
<1>6. CASE AnnounceGone(s)
  BY <1>6 DEF AnnounceGone
<1>7. CASE CleanupDbError(s)
  BY <1>7 DEF CleanupDbError, Fault, Close, IsOpen
<1> QED
  BY <1>1, <1>2, <1>3, <1>4, <1>5, <1>6, <1>7 DEF Cleanup

\* So are those of the sweep and the environment.
LEMMA OtherSettles ==
  ASSUME TypeOK, SpanInv, Sweep \/ Environment \/ UNCHANGED vars
  PROVE  Lasting /\ \A t \in Sockets : Settles(t)
<1> USE DEF TypeOK, SpanInv, Span, IsOpen, Lasting, Settles, Looking, BeforeRow, Unadopted, InLoop, Leaving,
        Ended, Close, Fault, handlerVars, dbVars, globalVars
<1>1. CASE SweepSelect \/ SweepDbError \/ \E r \in Replicas : SweepScan(r)
  BY <1>1 DEF SweepSelect, SweepDbError, SweepScan
<1>2. CASE SweepCloseSecondaries \/ SweepClosePrimaries
  BY <1>2 DEF SweepCloseSecondaries, SweepClosePrimaries
<1>3. CASE SweepClearPointer \/ SweepUnregister \/ SweepFinish
  BY <1>3 DEF SweepClearPointer, SweepUnregister, SweepFinish
<1>4. CASE \E s \in Sockets : PeerSilent(s) \/ WireDown(s)
  BY <1>4 DEF PeerSilent, WireDown, HangUp
<1>5. CASE \E s \in Sockets : ListenerEnds(s) \/ RowAges(s)
  BY <1>5 DEF ListenerEnds, RowAges
<1>6. CASE PresenceExpires \/ UNCHANGED vars
  BY <1>6 DEF PresenceExpires, vars
<1>7. ASSUME NEW r \in Replicas, Restart(r) PROVE Lasting /\ \A t \in Sockets : Settles(t)
  <2>1. /\ home' = home /\ row' = row /\ holders' = holders /\ faults' = faults + 1
        /\ live' \subseteq live
    BY <1>7 DEF Restart
  <2>2. \A t \in Sockets : (pc'[t] = pc[t] \/ pc'[t] = "dead") /\ (wire'[t] = "up" => wire[t] = "up")
    BY <1>7 DEF Restart, HangUp
  <2> QED
    BY <2>1, <2>2
<1> QED
  BY <1>1, <1>2, <1>3, <1>4, <1>5, <1>6, <1>7 DEF Sweep, Environment

\* The look itself: a handshake reads open rows with its key, supersedes them when
\* nobody can answer its probe, and closes them.
LEMMA LookHolders ==
  ASSUME TypeOK, SpanInv, GuardInv, HolderInv, NEW s \in Sockets,
         (\E r \in Replicas : Connect(s, r)) \/ ReadHolders(s) \/ ProbeSilent(s) \/ CloseHolders(s)
  PROVE  HolderInv'
<1> USE DEF TypeOK, Goto, IsOpen, handlerVars, dbVars, globalVars
<1>1. CASE \E r \in Replicas : Connect(s, r)
  <2>1. /\ \A t \in Sockets \ {s} : pc'[t] = pc[t] /\ home'[t] = home[t] /\ wire'[t] = wire[t]
        /\ row' = row /\ holders' = holders /\ live' = live /\ faults' = faults
        /\ pc'[s] \in {"insert", "resolve", "done"} /\ (pc'[s] = "resolve" => Key[s] # NoKey)
        /\ pc[s] = "new" /\ row[s] = "none"
    BY <1>1 DEF Connect, SpanInv, Span, BeforeRow
  <2> QED
    BY <2>1 DEF HolderInv, CanAnswer
<1>2. CASE ReadHolders(s)
  BY <1>2 DEF ReadHolders, HolderInv, CanAnswer, SpanInv, Span, BeforeRow, Leaving, Ended
<1>3. CASE ProbeSilent(s)
  BY <1>3 DEF ProbeSilent, HolderInv, CanAnswer, SpanInv, Span, BeforeRow, Leaving, Ended, Fault
<1>4. CASE CloseHolders(s)
  BY <1>4 DEF CloseHolders, HolderInv, CanAnswer, SpanInv, Span, BeforeRow, Leaving, Ended, Close
<1> QED
  BY <1>1, <1>2, <1>3, <1>4

\* Initially nobody holds anything.
LEMMA InitSpans == Init => SpanInv /\ HolderInv
  BY SocketAssumption DEF Init, SpanInv, Span, HolderInv, IsOpen, InGuard, Guarded, BeforeRow, Unadopted, Leaving, Ended

\* The spans and the holders agree at every step.
LEMMA StepSpans ==
  TypeOK /\ EnteredInv /\ GuardInv /\ SpanInv /\ HolderInv /\ [Next]_vars
    => (SpanInv /\ HolderInv)'
<1> SUFFICES ASSUME TypeOK, EnteredInv, GuardInv, SpanInv, HolderInv, [Next]_vars
             PROVE  SpanInv' /\ HolderInv'
  OBVIOUS
<1>1. ASSUME NEW s \in Sockets, Handshake(s) PROVE SpanInv' /\ HolderInv'
  <2>1. SpanInv'
    BY <1>1, HandshakeSpan
  <2>2. HolderInv'
    BY <1>1, HandshakeSettles, HolderStep, LookHolders DEF Handshake
  <2> QED
    BY <2>1, <2>2
<1>2. ASSUME NEW s \in Sockets, Registration(s) PROVE SpanInv' /\ HolderInv'
  BY <1>2, RegistrationSpan, RegistrationSettles, HolderStep
<1>3. ASSUME NEW s \in Sockets, Loop(s) PROVE SpanInv' /\ HolderInv'
  BY <1>3, LoopSpan, LoopSettles, HolderStep
<1>4. ASSUME NEW s \in Sockets, Cleanup(s) PROVE SpanInv' /\ HolderInv'
  BY <1>4, CleanupSpan, CleanupSettles, HolderStep
<1>5. CASE Sweep \/ Environment \/ UNCHANGED vars
  BY <1>5, OtherSpan, OtherSettles, HolderStep
<1> QED
  BY <1>1, <1>2, <1>3, <1>4, <1>5 DEF Next

\* The handlers' whole invariant is always true.
THEOREM Inductive == Spec => []HandlerInv
<1>1. EnteredInv /\ GuardInv /\ ManagerInv /\ SpanInv /\ HolderInv <=> HandlerInv
  BY DEF HandlerInv
<1> QED
  BY <1>1, InitTyping, InitGuard, InitManager, InitSpans, StepTyping, StepGuard, StepManager,
     StepSpans, PTL DEF Spec

\* A handler that ran to its end, on whichever path, left no row, adopted socket,
\* pointer, registration or listener behind (devices_ws.py's _cleanup and the error
\* exits of its handshake).
THEOREM NothingLeft == Spec => []NoResidue
<1>1. ASSUME TypeOK, HandlerInv PROVE NoResidue
  <2> SUFFICES ASSUME NEW s \in Sockets, pc[s] = "done"
               PROVE  /\ s \notin live /\ s \notin tasks /\ ptr # s /\ ~IsOpen(s)
                      /\ \A r \in Replicas : reg[r] # s /\ entry[r] # s
    BY DEF NoResidue
  <2>1. s \notin live /\ ptr # s /\ ~IsOpen(s)
    BY <1>1 DEF HandlerInv, SpanInv, Span, Unadopted, Ended
  <2>2. \A r \in Replicas : reg[r] # s
    BY <1>1, SocketAssumption DEF HandlerInv, ManagerInv, RegistryOwned, Holding, InLoop
  <2>3. \A r \in Replicas : entry[r] # s
    BY <1>1, <2>2, SocketAssumption DEF HandlerInv, ManagerInv, ListenerOwned
  <2> QED
    BY <1>1, <2>1, <2>2, <2>3 DEF HandlerInv, ManagerInv, ListenerOwned
<1> QED
  BY <1>1, Typing, Inductive, PTL

\* A handshake that supersedes its key's holders, before anything has failed, spares
\* every socket of its replica that still serves a live wire: its probe would have been
\* answered (_register_socket, probe_holders_alive).
THEOREM SparesAlive == Spec => SupersedeSparesAlive
<1>1. ASSUME TypeOK /\ HandlerInv, NEW s \in Sockets, CloseHolders(s), faults = 0,
             NEW h \in holders[s], IsOpen(h), home[h] = home[s], wire[h] = "up", pc[h] \in InLoop
      PROVE  FALSE
  <2>1. pc[s] = "supersede" /\ h \in Sockets
    BY <1>1 DEF CloseHolders, TypeOK
  <2>2. h \in live
    BY <1>1, <2>1 DEF HandlerInv, SpanInv, Span, Unadopted, BeforeRow, Leaving, Ended, InLoop
  <2>3. CanAnswer(s, h)
    BY <1>1, <2>2 DEF CanAnswer, Leaving, Ended, InLoop
  <2> QED
    BY <1>1, <2>1, <2>3 DEF HandlerInv, HolderInv
<1>2. TypeOK /\ HandlerInv /\ [Next]_vars
        => [\A s \in Sockets : CloseHolders(s) /\ faults = 0 =>
              \A h \in holders[s] : ~(IsOpen(h) /\ home[h] = home[s] /\ wire[h] = "up"
                                      /\ pc[h] \in InLoop)]_vars
  BY <1>1
<1> QED
  BY <1>2, Typing, Inductive, PTL DEF Spec, SupersedeSparesAlive

-----------------------------------------------------------------------------
(* What clients are shown, on one replica and before anything has failed. *)

\* A step that leaves the registry of r and what clients see of it alone, or empties
\* the registry, or is a fault; it takes its socket no further than it was.
Discreet ==
    faults' = 0 =>
      /\ faults = 0
      /\ \A r \in Replicas : reg'[r] # None =>
           /\ reg'[r] = reg[r] /\ status' = status
           /\ pc'[reg[r]] \notin {"listen", "publish"} => pc[reg[r]] \notin {"listen", "publish"}

\* A discreet step keeps a registered socket shown as connected.
LEMMA DiscreetShown == ShownInv /\ Discreet => ShownInv'
  BY DEF ShownInv, Discreet

\* The handshake is discreet.
LEMMA HandshakeDiscreet ==
  ASSUME TypeOK, ManagerInv, NEW s \in Sockets, Handshake(s)
  PROVE  Discreet
<1> USE SocketAssumption DEF TypeOK, ManagerInv, RegistryOwned, Holding, InLoop, Discreet, Goto, Fault,
        handlerVars, dbVars, globalVars, managerVars, redisVars
<1>1. CASE \E r \in Replicas : Connect(s, r)
  BY <1>1 DEF Connect
<1>2. CASE ReadHolders(s)
  BY <1>2 DEF ReadHolders
<1>3. CASE ProbeAnswered(s)
  BY <1>3 DEF ProbeAnswered, Refuse
<1>4. CASE ProbeSilent(s)
  BY <1>4 DEF ProbeSilent
<1>5. CASE CloseHolders(s)
  BY <1>5 DEF CloseHolders
<1>6. CASE EvictHolders(s)
  BY <1>6 DEF EvictHolders
<1>7. CASE InsertRow(s)
  BY <1>7 DEF InsertRow
<1>8. CASE LoseInsertRace(s)
  BY <1>8 DEF LoseInsertRace, Refuse
<1>9. CASE Adopt(s)
  BY <1>9 DEF Adopt
<1>10. CASE UpsertDevice(s)
  BY <1>10 DEF UpsertDevice
<1>11. CASE TakePointer(s)
  BY <1>11 DEF TakePointer
<1>12. CASE HandshakeDbError(s)
  BY <1>12 DEF HandshakeDbError
<1> QED
  BY <1>1, <1>2, <1>3, <1>4, <1>5, <1>6, <1>7, <1>8, <1>9, <1>10, <1>11, <1>12 DEF Handshake

\* So is a registration, but for the installation and the notice that ends it.
LEMMA RegistrationShown ==
  ASSUME TypeOK, ManagerInv, ShownInv, NEW s \in Sockets, Registration(s),
         \A q, r \in Replicas : q = r
  PROVE  ShownInv'
<1> USE SocketAssumption DEF TypeOK, ManagerInv, RegistryOwned, Holding, InLoop, Goto, Fault,
        handlerVars, dbVars, globalVars, managerVars, redisVars
<1>0. CASE Discreet
  BY <1>0, DiscreetShown
<1>1. CASE ClaimUnheld(s)
  BY <1>0, <1>1 DEF ClaimUnheld, Discreet
<1>2. CASE RegisterPrimary(s)
  BY <1>0, <1>2 DEF RegisterPrimary, Discreet
<1>3. CASE RegisterIfUnowned(s)
  BY <1>0, <1>3 DEF RegisterIfUnowned, Discreet
<1>4. CASE ConfirmEntitled(s)
  BY <1>0, <1>4 DEF ConfirmEntitled, Discreet
<1>5. CASE StartListener(s)
  BY <1>0, <1>5 DEF StartListener, Discreet
<1>6. CASE RegisterError(s)
  BY <1>0, <1>6 DEF RegisterError, Discreet
<1>7. CASE YieldClaim(s)
  BY <1>0, <1>7 DEF YieldClaim, Discreet
<1>8. CASE Ack(s)
  BY <1>0, <1>8 DEF Ack, Discreet
<1>9. CASE PublishConnected(s)
  BY <1>9 DEF PublishConnected, ShownInv
<1>10. CASE Install(s)
  <2>1. \A r \in Replicas : r = home[s] /\ reg'[r] = s /\ pc'[s] = "listen"
    BY <1>10 DEF Install
  <2> QED
    BY <2>1 DEF ShownInv
<1> QED
  BY <1>1, <1>2, <1>3, <1>4, <1>5, <1>6, <1>7, <1>8, <1>9, <1>10 DEF Registration

\* So are the loop and the teardown, whose notice finds no socket registered.
LEMMA LeavingDiscreet ==
  ASSUME TypeOK, ManagerInv, NEW s \in Sockets, Loop(s) \/ Cleanup(s),
         \A q, r \in Replicas : q = r
  PROVE  Discreet
<1> USE SocketAssumption DEF TypeOK, ManagerInv, RegistryOwned, Holding, InLoop, Discreet, Goto, Fault,
        handlerVars, dbVars, globalVars, managerVars, redisVars
<1>1. CASE Heartbeat(s)
  BY <1>1 DEF Heartbeat
<1>2. CASE HealGate(s)
  BY <1>2 DEF HealGate
<1>3. CASE Heal(s)
  BY <1>3 DEF Heal
<1>4. CASE HeartbeatDbError(s)
  BY <1>4 DEF HeartbeatDbError
<1>5. CASE Disconnect(s)
  BY <1>5 DEF Disconnect
<1>6. CASE Teardown(s)
  BY <1>6 DEF Teardown
<1>7. CASE UnregisterIfCurrent(s)
  BY <1>7 DEF UnregisterIfCurrent
<1>8. CASE FinishUnregister(s)
  BY <1>8 DEF FinishUnregister
<1>9. CASE ClearOwnPointer(s)
  BY <1>9 DEF ClearOwnPointer
<1>10. CASE CloseOwnRow(s)
  BY <1>10 DEF CloseOwnRow
<1>11. CASE CleanupDbError(s)
  BY <1>11 DEF CleanupDbError
<1>12. CASE AnnounceGone(s)
  BY <1>12 DEF AnnounceGone
<1> QED
  BY <1>1, <1>2, <1>3, <1>4, <1>5, <1>6, <1>7, <1>8, <1>9, <1>10, <1>11, <1>12 DEF Loop, Cleanup

\* So are the sweep and the environment: a restart is a fault.
LEMMA OtherDiscreet ==
  ASSUME TypeOK, Sweep \/ Environment \/ UNCHANGED vars
  PROVE  Discreet
<1> USE SocketAssumption DEF TypeOK, Discreet, Fault, handlerVars, dbVars, globalVars, managerVars, redisVars
<1>1. CASE SweepSelect \/ SweepDbError \/ \E r \in Replicas : SweepScan(r)
  BY <1>1 DEF SweepSelect, SweepDbError, SweepScan
<1>2. CASE SweepCloseSecondaries \/ SweepClosePrimaries \/ SweepClearPointer
  BY <1>2 DEF SweepCloseSecondaries, SweepClosePrimaries, SweepClearPointer
<1>3. CASE SweepUnregister
  BY <1>3 DEF SweepUnregister
<1>4. CASE SweepFinish
  BY <1>4 DEF SweepFinish
<1>5. CASE \E s \in Sockets : PeerSilent(s) \/ WireDown(s)
  BY <1>5 DEF PeerSilent, WireDown
<1>6. CASE \E s \in Sockets : ListenerEnds(s) \/ RowAges(s)
  BY <1>6 DEF ListenerEnds, RowAges
<1>7. CASE PresenceExpires \/ UNCHANGED vars
  BY <1>7 DEF PresenceExpires, vars
<1>8. CASE \E r \in Replicas : Restart(r)
  BY <1>8 DEF Restart
<1> QED
  BY <1>1, <1>2, <1>3, <1>4, <1>5, <1>6, <1>7, <1>8 DEF Sweep, Environment

\* On one replica, before anything has failed, a registered socket that has announced
\* itself is never shown as gone: a late runner_disconnected of an older socket is
\* withheld (_cleanup re-checks the registry before it publishes).
THEOREM NeverFalselyGone ==
  ASSUME \A q, r \in Replicas : q = r
  PROVE  Spec => []NoFalseGone
<1>1. Init => ShownInv
  BY DEF Init, ShownInv
<1>2. TypeOK /\ ManagerInv /\ ShownInv /\ [Next]_vars => ShownInv'
  BY HandshakeDiscreet, LeavingDiscreet, OtherDiscreet, DiscreetShown, RegistrationShown DEF Next
<1>3. ShownInv => NoFalseGone
  BY DEF ShownInv, NoFalseGone, InLoop
<1> QED
  BY <1>1, <1>2, <1>3, ManagerAlways, PTL DEF Spec

-----------------------------------------------------------------------------
(* The pointer of a device whose runners are all secondaries. *)

\* A secondary's handshake never takes the pointer, and clears it only.
LEMMA HandshakeRoute ==
  ASSUME TypeOK, ManagerInv, SpanInv, RouteInv, NEW s \in Sockets, Handshake(s)
  PROVE  RouteInv'
<1> USE SocketAssumption DEF TypeOK, ManagerInv, RegistryOwned, LockHeld, Holding, Locked, InLoop, RouteInv, OnlySecondaries,
        Goto, Fault, ClearIfCurrent, handlerVars, dbVars, globalVars, managerVars, redisVars
<1>1. CASE \E r \in Replicas : Connect(s, r)
  BY <1>1 DEF Connect, SpanInv, Span
<1>2. CASE ReadHolders(s)
  BY <1>2 DEF ReadHolders
<1>3. CASE ProbeAnswered(s)
  BY <1>3 DEF ProbeAnswered, Refuse
<1>4. CASE ProbeSilent(s)
  BY <1>4 DEF ProbeSilent
<1>5. CASE CloseHolders(s)
  BY <1>5 DEF CloseHolders
<1>6. CASE EvictHolders(s)
  BY <1>6 DEF EvictHolders
<1>7. CASE InsertRow(s)
  BY <1>7 DEF InsertRow
<1>8. CASE LoseInsertRace(s)
  BY <1>8 DEF LoseInsertRace, Refuse
<1>9. CASE Adopt(s)
  BY <1>9 DEF Adopt
<1>10. CASE UpsertDevice(s)
  BY <1>10 DEF UpsertDevice
<1>11. CASE TakePointer(s)
  BY <1>11 DEF TakePointer
<1>12. CASE HandshakeDbError(s)
  BY <1>12 DEF HandshakeDbError
<1> QED
  BY <1>1, <1>2, <1>3, <1>4, <1>5, <1>6, <1>7, <1>8, <1>9, <1>10, <1>11, <1>12 DEF Handshake

\* A registration ends with the socket registered or its claim handed back.
LEMMA RegistrationRoute ==
  ASSUME TypeOK, ManagerInv, RouteInv, NEW s \in Sockets, Registration(s)
  PROVE  RouteInv'
<1> USE SocketAssumption DEF TypeOK, ManagerInv, RegistryOwned, LockHeld, Holding, Locked, InLoop, RouteInv, OnlySecondaries,
        Goto, Fault, ClearIfCurrent, handlerVars, dbVars, globalVars, managerVars, redisVars
<1>1. CASE ClaimUnheld(s)
  BY <1>1 DEF ClaimUnheld
<1>2. CASE RegisterPrimary(s)
  BY <1>2 DEF RegisterPrimary
<1>3. CASE RegisterIfUnowned(s)
  BY <1>3 DEF RegisterIfUnowned
<1>4. CASE ConfirmEntitled(s)
  BY <1>4 DEF ConfirmEntitled
<1>5. CASE Install(s)
  BY <1>5 DEF Install
<1>6. CASE StartListener(s)
  BY <1>6 DEF StartListener
<1>7. CASE PublishConnected(s)
  BY <1>7 DEF PublishConnected
<1>8. CASE RegisterError(s)
  BY <1>8 DEF RegisterError
<1>9. CASE YieldClaim(s)
  BY <1>9 DEF YieldClaim
<1>10. CASE Ack(s)
  BY <1>10 DEF Ack
<1> QED
  BY <1>1, <1>2, <1>3, <1>4, <1>5, <1>6, <1>7, <1>8, <1>9, <1>10 DEF Registration

\* A heal points at the socket its gate found registered, which still is.
LEMMA LoopRoute ==
  ASSUME TypeOK, ManagerInv, RouteInv, NEW s \in Sockets, Loop(s)
  PROVE  RouteInv'
<1> USE SocketAssumption DEF TypeOK, ManagerInv, RegistryOwned, LockHeld, Holding, Locked, InLoop, RouteInv, OnlySecondaries,
        Goto, Fault, ClearIfCurrent, handlerVars, dbVars, globalVars, managerVars, redisVars
<1>1. CASE Heartbeat(s)
  BY <1>1 DEF Heartbeat
<1>2. CASE HealGate(s)
  BY <1>2 DEF HealGate
<1>3. CASE Heal(s)
  BY <1>3 DEF Heal
<1>4. CASE HeartbeatDbError(s)
  BY <1>4 DEF HeartbeatDbError
<1>5. CASE Disconnect(s)
  BY <1>5 DEF Disconnect
<1> QED
  BY <1>1, <1>2, <1>3, <1>4, <1>5 DEF Loop

\* A teardown unregisters its own socket and clears its pointer next.
LEMMA CleanupRoute ==
  ASSUME TypeOK, ManagerInv, RouteInv, NEW s \in Sockets, Cleanup(s)
  PROVE  RouteInv'
<1> USE SocketAssumption DEF TypeOK, ManagerInv, RegistryOwned, LockHeld, Holding, Locked, InLoop, RouteInv, OnlySecondaries,
        Goto, Fault, ClearIfCurrent, handlerVars, dbVars, globalVars, managerVars, redisVars
<1>1. CASE Teardown(s)
  BY <1>1 DEF Teardown
<1>2. CASE UnregisterIfCurrent(s)
  BY <1>2 DEF UnregisterIfCurrent
<1>3. CASE FinishUnregister(s)
  BY <1>3 DEF FinishUnregister
<1>4. CASE ClearOwnPointer(s)
  BY <1>4 DEF ClearOwnPointer
<1>5. CASE CloseOwnRow(s)
  BY <1>5 DEF CloseOwnRow
<1>6. CASE AnnounceGone(s)
  BY <1>6 DEF AnnounceGone
<1>7. CASE CleanupDbError(s)
  BY <1>7 DEF CleanupDbError
<1> QED
  BY <1>1, <1>2, <1>3, <1>4, <1>5, <1>6, <1>7 DEF Cleanup

\* The sweep finds no primary to close, so it reaches neither pointer nor registry.
LEMMA OtherRoute ==
  ASSUME TypeOK, ManagerInv, SpanInv, RouteInv, Sweep \/ Environment \/ UNCHANGED vars
  PROVE  RouteInv'
<1> USE DEF TypeOK, RouteInv, OnlySecondaries, Fault, handlerVars, dbVars, globalVars, managerVars, redisVars
<1>1. CASE SweepSelect
  <2>1. OnlySecondaries => Open \subseteq Secondary
    BY DEF Open, IsOpen, SpanInv, Span, BeforeRow
  <2>2. {s \in Open : IF s \in Secondary THEN s \notin fresh ELSE ~sweep.seen} \in SUBSET Sockets
    BY DEF Open
  <2>3. OnlySecondaries => sweep'.pc \in {"idle", "age"} /\ sweep'.stale \subseteq Secondary
    BY <1>1, <2>1, <2>2 DEF SweepSelect, SweepOn, NoSweep
  <2> QED
    BY <1>1, <2>3 DEF SweepSelect
<1>8. CASE SweepDbError \/ \E r \in Replicas : SweepScan(r)
  BY <1>8 DEF SweepDbError, SweepScan
<1>2. CASE SweepCloseSecondaries
  BY <1>2 DEF SweepCloseSecondaries, SweepOn, NoSweep
<1>3. CASE SweepClosePrimaries \/ SweepClearPointer \/ SweepUnregister \/ SweepFinish
  BY <1>3 DEF SweepClosePrimaries, SweepClearPointer, SweepUnregister, SweepFinish
<1>4. CASE \E s \in Sockets : PeerSilent(s) \/ WireDown(s)
  BY <1>4 DEF PeerSilent, WireDown
<1>5. CASE \E s \in Sockets : ListenerEnds(s) \/ RowAges(s)
  BY <1>5 DEF ListenerEnds, RowAges
<1>6. CASE PresenceExpires \/ UNCHANGED vars
  BY <1>6 DEF PresenceExpires, vars
<1>7. CASE \E r \in Replicas : Restart(r)
  BY <1>7 DEF Restart
<1> QED
  BY <1>1, <1>2, <1>3, <1>4, <1>5, <1>6, <1>7, <1>8 DEF Sweep, Environment

\* Until a primary connects, and before anything has failed, a settled device whose
\* pointer is set can be dispatched to: the pointer's socket is registered
\* (claim_ws_session_if_unheld, register_if_unowned, clear_ws_session_if_current).
THEOREM Routable == Spec => []RoutablePointer
<1>1. Init => RouteInv
  BY SocketAssumption DEF Init, RouteInv, NoSweep
<1>2. TypeOK /\ HandlerInv /\ RouteInv /\ [Next]_vars => RouteInv'
  BY HandshakeRoute, RegistrationRoute, LoopRoute, CleanupRoute, OtherRoute DEF Next, HandlerInv
<1>3. TypeOK /\ HandlerInv /\ RouteInv => RoutablePointer
  <2> SUFFICES ASSUME TypeOK, HandlerInv, RouteInv, faults = 0, OnlySecondaries, Settled,
                      ptr # None
               PROVE  reg[home[ptr]] = ptr
    BY DEF RoutablePointer
  <2>1. ptr \in Sockets /\ pc[ptr] = "serve"
    BY DEF TypeOK, Settled, HandlerInv, SpanInv, Span, RouteInv, Ended
  <2> QED
    BY <2>1 DEF RouteInv
<1> QED
  BY <1>1, <1>2, <1>3, Typing, Inductive, PTL DEF Spec
=============================================================================
