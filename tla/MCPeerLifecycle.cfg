SPECIFICATION FairSpec
CONSTANTS
    a1 = a1
    a2 = a2
    c1 = c1
    NoPeer = NoPeer
    Peer <- MCPeer
    Hash <- MCHash
    HashOf <- MCHashOf
    Dialed <- MCDialed
    Ctl <- MCCtl
    StatusCap = 1
CHECK_DEADLOCK FALSE
INVARIANTS TypeOK LiveRouted AddSucceeds OneNotice
PROPERTIES StoppedLeave StopReturns AnnounceReturns ShutdownCompletes
