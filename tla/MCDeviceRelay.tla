--------------------------- MODULE MCDeviceRelay ---------------------------
(* Instances of DeviceRelay for TLC.  A run that checks several scenes has   *)
(* the first state choose one: its cast are the sockets that connect.        *)
EXTENDS DeviceRelay, TLC

CONSTANTS p1, p2, p3, s1, s2, r1, r2, kp, ks
VARIABLE cast

\* Keyed primaries of one runner, a primary from before instance keys, and
\* secondaries.
Keys == p1 :> kp @@ p2 :> kp @@ p3 :> NoKey @@ s1 :> ks @@ s2 :> ks
\* Every instance listens on a port of its own.
OwnPort == [s \in Sockets |-> s]

Handlers == \E s \in cast : Handshake(s) \/ Registration(s) \/ Loop(s) \/ Cleanup(s)
CastNext == Handlers \/ Sweep \/ Environment

AllInit == Init /\ cast = Sockets

\* Connections end with a close the server sees; half-open ones, which matter to the
\* probe, are in the scenes where a primary reconnects with the same key.
CleanCloseNext ==
    \/ Handlers \/ Sweep
    \/ \E s \in Sockets : WireDown(s) \/ ListenerEnds(s) \/ RowAges(s)
    \/ PresenceExpires
    \/ \E r \in Replicas : Restart(r)

\* The protocol without the scheduled sweep, restarts, aging and half-open
\* connections: what the handlers owe each other when only the runners come and go.
HandlersOnlyNext == Handlers \/ \E s \in Sockets : WireDown(s) \/ ListenerEnds(s)

-----------------------------------------------------------------------------
\* One primary and one secondary, one fault of any kind.
OwnerChangeSpec == AllInit /\ [][CleanCloseNext /\ UNCHANGED cast]_<<vars, cast>>

\* A keyed primary reconnecting with one fault of any kind; and a keyed and a legacy
\* primary beside a secondary, without faults and without the sweep.
Reconnecting == cast = {p1, p2}
Mixed == cast = {p1, p3, s1}
ContentionInit == Init /\ cast \in {{p1, p2}, {p1, p3, s1}}
ContentionNext ==
    /\ \/ Reconnecting /\ CastNext
       \/ Mixed /\ HandlersOnlyNext /\ faults' = 0
    /\ UNCHANGED cast
ContentionSpec == ContentionInit /\ [][ContentionNext]_<<vars, cast>>

-----------------------------------------------------------------------------
\* Every socket connects, without the sweep, restarts and aging: a primary's runner
\* that reconnects on either of two replicas.
ReplicasSpec ==
    /\ AllInit
    /\ [][(HandlersOnlyNext \/ \E s \in Sockets : PeerSilent(s)) /\ UNCHANGED cast]_<<vars, cast>>
    /\ HandlerFairness

\* The same with the sweep and connections that close cleanly: a lone secondary.
LoneSpec == OwnerChangeSpec /\ HandlerFairness /\ SweepFairness

\* A primary and a secondary on one replica, without faults.
BesideSpec == AllInit /\ [][Next /\ UNCHANGED cast]_<<vars, cast>>
=============================================================================
