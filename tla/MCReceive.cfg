CONSTANTS
    p1 = p1
    p2 = p2
    None = None
    NoParcel = NoParcel
    Peer <- MCPeer
    Source = p1
    DataCap = 1
    PerPeer = 1
    Unasked = 1
    Hash = {h1}
    Reader = {r1}
    Buckets = 2
    FromCap = 1
    MaxParcels = 2
SPECIFICATION ReceiveFairSpec
CHECK_DEADLOCK FALSE
INVARIANTS ReceiveTypeOK AnswerFromAsked Window HasFinds SeenIsFiltered
PROPERTY DataServed
