SPECIFICATION FairSpec
CONSTANTS
    p = p
    q = q
    cnc = cnc
    cncHd = cncHd
    tvb = tvb
    Clients = {p, q}
    Fds = {1}
    Names = {cnc}
    Uncut = {}
    Starts <- MCStarts
    Kind <- AllTS
    Config <- OneChannel
    BufCap = 2
    MaxSends = 1
    MaxChunks = 2
INVARIANTS TypeOK OpenIsWatched ChunksInOrder NoInnocentClosed Answered
PROPERTIES HandlerReturns GoneIsClosed RequestIsRead
CHECK_DEADLOCK FALSE
