CONSTANTS
    Network = {"main", "test"}
    Port = {0, 1, 65535, 65536}
SPECIFICATION FairSpec
CHECK_DEADLOCK FALSE
INVARIANTS SameProtocol PeersCompatible StreamReadable NoSpuriousRefusal NoSelfPeer
PROPERTIES HalfOpenEnds
