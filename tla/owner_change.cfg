\* One primary and one secondary on one replica, one fault of any kind.
SPECIFICATION OwnerChangeSpec
CONSTANTS
    p1 = p1  p2 = p2  p3 = p3  s1 = s1  s2 = s2
    r1 = r1  r2 = r2  kp = kp  ks = ks
    NoKey = NoKey  None = None  Sweeper = Sweeper
    Sockets = {p1, s1}
    Secondary = {s1}
    Replicas = {r1}
    Key <- Keys
    Port <- OwnPort
    MaxFaults = 1
INVARIANTS
    SingleForwarder
    NoResidue
PROPERTIES
    TeardownSparesNewer
    RegistryImplementsSlot
