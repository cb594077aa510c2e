SPECIFICATION Spec
CONSTANTS
    l1 = l1
    l2 = l2
    null = null
    missing = missing
    Null = null
    Missing = missing
    Links = {l1, l2}
    MaxLength = 4
    Times = {1, 2}
    Pairs <- AllPairs
INVARIANTS
    ListsConverge
    ListsLoseNothing
    UndoRestoresItems
CHECK_DEADLOCK FALSE
