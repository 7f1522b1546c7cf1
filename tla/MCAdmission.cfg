CONSTANTS
    a1 = a1
    a2 = a2
    b = b
    NoPeer = NoPeer
    NilSlice = NilSlice
    Cat = Cat
    Manager = Manager
    Dialer = Dialer
    Limit = 1
    MaxTime = 1
    Hash = {"x", "y"}
    Addr = {"ip1", "ip1:1", "ip1:2"}
    Host = {"ip1"}
    Peer <- MCPeer
    Caller <- MCCaller
    HashOf <- MCHashOf
    IpOf <- MCIpOf
    EpOf <- MCEpOf
    Inbound <- MCInbound
    Candidates <- MCCandidates
SPECIFICATION AdmissionSpec
INVARIANTS AdmissionTypeOK CountersExact SliceFresh ExactLimit OvershootBounded
PROPERTIES RegistrySpec CatTrims
