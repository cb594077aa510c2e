SPECIFICATION MCSpec
CONSTANTS
    None = None
    Page = "twin"
    Chunks = 2
    RELOAD_MAX_RETRIES = 1
    MidReload = TRUE
    MaxAsks = 2
    MaxOthers = 1
    MaxRuns = 3
    MaxDrops = 1
    MaxLeaves = 1
    MaxFailures = 1
INVARIANTS
    CreatedPlaced
    OwnText
    LoadedMissesNothing
PROPERTIES
    FirstRefusalsSorted
    ReloadRelearns
    SteadyQuestionsEnd
    WorkflowEnds
CHECK_DEADLOCK FALSE
