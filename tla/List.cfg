SPECIFICATION Spec
CONSTANTS
    e1 = e1
    e2 = e2
    e3 = e3
    NULL = NULL
    Entries = {e1, e2, e3}
    MaxItems = 4
INVARIANTS TypeOK BothWays NothingFreed WalkComplete
PROPERTIES ImplementsItemList
