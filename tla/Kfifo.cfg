SPECIFICATION FairSpec
CONSTANTS
    Size = 2
    Width = 4
    MaxPut = 2
    MaxGet = 2
    MaxBytes = 7
    Retry = TRUE
INVARIANTS TypeOK DataIntact Inductive NoDataRace
PROPERTIES ImplementsQueue PutEnds AllFetched
CHECK_DEADLOCK FALSE
