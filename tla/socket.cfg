SPECIFICATION MCSpec
CONSTANTS
    r1 = r1
    r2 = r2
    Runners = {r1, r2}
    NoRunner = NoRunner
    MaxAttempts = 2
    MaxCalls = 6
    MaxRuns = 3
    MaxDrops = 2
    MaxFailures = 2
    MaxRefusals = 1
INVARIANTS
    OneConnection
    RightRunner
PROPERTIES
    Reconnects
CHECK_DEADLOCK FALSE
