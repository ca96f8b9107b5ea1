SPECIFICATION Spec
CONSTANTS
    Size = 4
    Width = 8
    MaxPut = 3
    MaxGet = 2
    MaxBytes = 10
    Retry = FALSE
INVARIANTS DataAtOffsets
CHECK_DEADLOCK FALSE
