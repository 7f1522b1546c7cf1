CONSTANTS
    c1 = c1
    c2 = c2
    i1 = i1
    e1 = e1
    e2 = e2
    Conn <- Conns
    Dialed = {c2}
    Self = {c2}
    IP = {i1}
    Endpoint = {e1, e2}
    IpOf <- IpMap
    EpOf <- EpMap
    Banner = {b1}
    Duration = {1, 2}
    CacheAge = 1
    Forever = 9
    MaxTime = 4
SPECIFICATION Spec
CHECK_DEADLOCK FALSE
INVARIANT DurableBans
PROPERTY BansHold
