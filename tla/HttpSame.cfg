SPECIFICATION Spec
CONSTANTS
    p = p
    q = q
    cnc = cnc
    cncHd = cncHd
    tvb = tvb
    Clients = {p, q}
    Fds = {1}
    Names = {cnc, tvb}
    Uncut = {}
    Starts <- MCStarts
    Kind <- AllTS
    Config <- OneChannel
    BufCap = 2
    MaxSends = 1
    MaxChunks = 2
INVARIANTS SameChannel
CHECK_DEADLOCK FALSE
