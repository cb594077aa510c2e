\* A secondary against a primary, no fault: the heal takes the pointer.
SPECIFICATION BesideSpec
CONSTANTS
    p1 = p1  p2 = p2  p3 = p3  s1 = s1  s2 = s2
    r1 = r1  r2 = r2  kp = kp  ks = ks
    NoKey = NoKey  None = None  Sweeper = Sweeper
    Sockets = {p1, s1}
    Secondary = {s1}
    Replicas = {r1}
    Key <- Keys
    Port <- OwnPort
    MaxFaults = 0
PROPERTIES
    SecondaryNeverDisplaces
