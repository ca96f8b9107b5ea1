SPECIFICATION FairSpec
CONSTANTS
    c1 = c1
    c2 = c2
    b1 = b1
    Channels = {c1, c2}
    Buffers = {b1}
    Out <- MCOut
    InCap = 2
    OutCap = 1
    ChunkLen = 2
    MaxDgram = 2
    MaxUnits <- MCUnits
    MaxTasks = 2
    MaxPads = 2
INVARIANTS TypeOK Conservation CleanStart Copies PadStream
CHECK_DEADLOCK FALSE
PROPERTIES HandlerReturns UnitsLeave
