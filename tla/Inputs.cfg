SPECIFICATION FairSpec
CONSTANTS
    NULL = NULL
    p = p
    q = q
    a1 = a1
    a2 = a2
    chan = chan
    Fds = {1, 2, 3}
    Heap = {a1, a2}
    Chan = chan
    Clients = {p, q}
    Garbage = {"positive", "zero", "negative"}
    NsecPerSec = 3
    MsecPerSec = 2
    Delays = {1, 2}
    MaxNow = 6
    MaxCalls = 3
INVARIANTS TypeOK EventsCurrent Owned
PROPERTIES NotEarly TimersServed ClientsAccepted
CHECK_DEADLOCK FALSE
