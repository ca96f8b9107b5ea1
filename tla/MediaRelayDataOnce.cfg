SPECIFICATION Spec
CONSTANTS
    c1 = c1
    c2 = c2
    b1 = b1
    Channels = {c1}
    Buffers = {b1}
    Out <- MCOut
    InCap = 2
    OutCap = 1
    ChunkLen = 2
    MaxDgram = 2
    MaxUnits <- MCUnits
    MaxTasks = 3
    MaxPads = 2
INVARIANTS DataOnce
CHECK_DEADLOCK FALSE
