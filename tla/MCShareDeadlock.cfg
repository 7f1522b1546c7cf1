CONSTANTS
    p1 = p1
    None = None
    Peer <- OnePeer
    DataCap = 2
    PerPeer = 2
    Unasked = 0
SPECIFICATION FairSpec
CHECK_DEADLOCK FALSE
PROPERTY RequestEnds
