CONSTANTS
    p1 = p1
    p2 = p2
    p3 = p3
    Peer <- Peers
    Payload = {m1}
    Fanout = 1
    NoParcel = NoParcel
SPECIFICATION Spec
SYMMETRY Symmetry
INVARIANTS TypeOK BroadcastReach NoEcho
