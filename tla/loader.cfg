SPECIFICATION FairSpec
CONSTANTS
    p1 = p1
    p2 = p2
    e1 = e1
    e2 = e2
    o1 = o1
    Projects = {p1, p2}
    Edits = {e1, e2}
    Others = {o1}
    None = None
    Absent = Absent
    NameOf <- OwnNames
    Slots = {1, 2}
    MaxRetries = 2
    Settings <- LoaderSettings
INVARIANTS
    OneLoad
    UndisturbedHomeKept
    PatientEditsKept
    UnfailedChoiceStands
PROPERTIES
    LoadEnds
CHECK_DEADLOCK FALSE
