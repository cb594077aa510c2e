SPECIFICATION MCSpec
CONSTANTS
    e1 = e1
    e2 = e2
    o1 = o1
    i1 = i1
    Edits = {e1, e2}
    Others = {o1, i1}
    Imports = {i1}
    MaxCalls = 2
    MaxVersion = 5
    MaxReloads = 1
    MaxFailures = 2
    MaxDrops = 1
INVARIANTS
    OneSavedIsSaved
PROPERTIES
    NoLostUpdate
    EditorReleasedHeard
CHECK_DEADLOCK FALSE
