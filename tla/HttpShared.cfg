SPECIFICATION Spec
CONSTANTS
    p = p
    q = q
    cnc = cnc
    cncHd = cncHd
    tvb = tvb
    Clients = {p, q}
    Fds = {1, 2}
    Names = {cnc, cncHd}
    Uncut = {cncHd}
    Starts <- MCStarts
    Kind <- AllTS
    Config <- OneChannel
    BufCap = 1
    MaxSends = 2
    MaxChunks = 1
SYMMETRY Sym
INVARIANTS DanglingIfShared StaleCells
CHECK_DEADLOCK FALSE
