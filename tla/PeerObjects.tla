---------------------------- MODULE PeerObjects -----------------------------
(***************************************************************************)
(* Peer objects and the map from peer hash to peer object that the peer    *)
(* store keeps.  A peer object is a pointer: one is made per connection    *)
(* and never recycled, and two objects may carry the same hash (a node     *)
(* that connects a second time, or that dials us while we dial it).        *)
(***************************************************************************)
EXTENDS Integers, FiniteSets

CONSTANTS
    Peer,        \* peer objects
    NoPeer,      \* nil
    Hash,        \* peer hashes, "ip:port nodeid"
    HashOf       \* Peer.Hash of every object

ASSUME PeerAssumption ==
    /\ IsFiniteSet(Peer)
    /\ NoPeer \notin Peer
    /\ HashOf \in [Peer -> Hash]

\* The type of the map: a hash without an entry reads as nil.
PeerMap == [Hash -> Peer \cup {NoPeer}]

EmptyMap == [h \in Hash |-> NoPeer]

\* The peer objects a map holds.
Stored(m) == {p \in Peer : m[HashOf[p]] = p}

\* PeerStore.Add: refused when the hash is taken.
AddTo(m, p) ==
    IF m[HashOf[p]] = NoPeer THEN [m EXCEPT ![HashOf[p]] = p] ELSE m

\* Deleting by hash, without the pointer comparison of PeerStore.Remove.
RemoveByHash(m, p) == [m EXCEPT ![HashOf[p]] = NoPeer]

\* PeerStore.Remove: no effect unless this very object is stored.
RemoveFrom(m, p) ==
    IF m[HashOf[p]] = p THEN [m EXCEPT ![HashOf[p]] = NoPeer] ELSE m

=============================================================================
