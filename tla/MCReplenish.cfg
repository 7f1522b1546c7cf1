SPECIFICATION FairSpec
CONSTANTS
    good = good
    other = other
    own = own
    NoCache = NoCache
    Endpoint <- MCEndpoint
    Own <- MCOwn
    Good <- MCGood
    Special = {other}
    Seeds = {good}
    Cached = {other}
    TargetPeers = 1
    MinReseed = 3
    PeerShareAmount = 2
    Redial = 1
    Reseed = 1
    Extra = 1
    UintRange = 8
INVARIANT DialOvershoot
PROPERTIES NeverIsolated
