SPECIFICATION MCSpec
CONSTANTS
    t1 = t1
    t2 = t2
    Tabs = {t1, t2}
    N = 2
    MaxRetries = 2
    UserOps = {"retry", "cancel", "clear"}
    MaxFaults = 1
    MaxCloses = 1
INVARIANTS
    CompletedIsStored
    SyncingIsHeld
    AloneOneImage
PROPERTIES
    NotDroppedBeforeStored
    RunEnds
CHECK_DEADLOCK FALSE
