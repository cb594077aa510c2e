\* A primary reconnecting (one fault), and three sockets without faults, on one replica.
SPECIFICATION ContentionSpec
CONSTANTS
    p1 = p1  p2 = p2  p3 = p3  s1 = s1  s2 = s2
    r1 = r1  r2 = r2  kp = kp  ks = ks
    NoKey = NoKey  None = None  Sweeper = Sweeper
    Sockets = {p1, p2, p3, s1}
    Secondary = {s1}
    Replicas = {r1}
    Key <- Keys
    Port <- OwnPort
    MaxFaults = 1
INVARIANTS
    HandlerInv
    NoFalseGone
PROPERTIES
    SupersedeSparesAlive
\* Without the sweep the system stops once every handler has ended.
CHECK_DEADLOCK FALSE
