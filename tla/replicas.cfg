\* A keyed primary reconnecting on either of two replicas; no sweep, no fault.
SPECIFICATION ReplicasSpec
CONSTANTS
    p1 = p1  p2 = p2  p3 = p3  s1 = s1  s2 = s2
    r1 = r1  r2 = r2  kp = kp  ks = ks
    NoKey = NoKey  None = None  Sweeper = Sweeper
    Sockets = {p1, p2}
    Secondary = {}
    Replicas = {r1, r2}
    Key <- Keys
    Port <- OwnPort
    MaxFaults = 0
PROPERTIES
    RowlessSocketLeaves
    HandlersSettle
\* Without the sweep the system stops once every handler has ended.
CHECK_DEADLOCK FALSE
