----------------------------- MODULE PeerStore ------------------------------
(***************************************************************************)
(* The peer store (peerStore.go): the map of active peers together with    *)
(* the redundant state it keeps to answer queries quickly: a counter per   *)
(* ip and per ip:port, the numbers of incoming and outgoing peers, and a   *)
(* cached slice of all peers that is thrown away by every change.          *)
(*                                                                         *)
(* Every method runs under the store's mutex and is one action, except     *)
(* Slice: on a cache miss it gives up the read lock and takes the write    *)
(* lock, so other goroutines run between SliceMiss and SliceRebuild.       *)
(*                                                                         *)
(* A counter that Go deletes when it reaches zero reads as zero here, and  *)
(* len(ps.peers) is the number of stored objects, since Add files each one *)
(* under its own hash.                                                     *)
(***************************************************************************)
EXTENDS PeerObjects

CONSTANTS
    Addr,        \* keys of the counters: "ip" and "ip:port"
    IpOf,        \* Peer.Endpoint.IP
    EpOf,        \* Peer.Endpoint.String()
    Inbound,     \* the peer objects with IsIncoming set
    Caller,      \* goroutines that use the store
    NilSlice     \* a nil curSlice; an empty slice is {}

ASSUME AddrAssumption ==
    /\ IpOf \in [Peer -> Addr]
    /\ EpOf \in [Peer -> Addr]
    /\ Inbound \subseteq Peer
    /\ \A S \in SUBSET Peer : NilSlice # S

VARIABLES
    peers,       \* hash -> peer object or nil
    connected,   \* address -> number of uses
    curSlice,    \* the cached slice, as a set: its order is random
    incoming,    \* number of incoming peers
    outgoing,    \* number of outgoing peers
    num,         \* per caller: the number its last counting query returned
    handed,      \* per caller: the peers its last Get or Slice returned
    pc           \* per caller: "idle", or "rebuild" between Slice's two locks

state == <<peers, connected, curSlice, incoming, outgoing>>
vars == <<peers, connected, curSlice, incoming, outgoing, num, handed, pc>>

Registry == INSTANCE PeerRegistry WITH registry <- peers

-----------------------------------------------------------------------------
Init ==
    /\ peers = EmptyMap
    /\ connected = [a \in Addr |-> 0]
    /\ curSlice = NilSlice
    /\ incoming = 0
    /\ outgoing = 0
    /\ num = [c \in Caller |-> 0]
    /\ handed = [c \in Caller |-> {}]
    /\ pc = [c \in Caller |-> "idle"]

\* connected[ip] and connected[ip:port] of p, both changed by d.
Bump(f, p, d) ==
    [a \in Addr |-> f[a] + (IF IpOf[p] = a THEN d ELSE 0)
                         + (IF EpOf[p] = a THEN d ELSE 0)]

\* The counters, changed by d for the peer p.
Recount(p, d) ==
    /\ connected' = Bump(connected, p, d)
    /\ incoming' = incoming + (IF p \in Inbound THEN d ELSE 0)
    /\ outgoing' = outgoing + (IF p \in Inbound THEN 0 ELSE d)

\* As Add, but without throwing the cached slice away.
AddKeepsSlice(p) ==
    /\ UNCHANGED <<curSlice, num, handed, pc>>
    /\ IF peers[HashOf[p]] = NoPeer
         THEN peers' = AddTo(peers, p) /\ Recount(p, 1)
         ELSE UNCHANGED <<peers, connected, incoming, outgoing>>

\* Add a peer; an error, and no change, if its hash is tracked already.
Add(p) ==
    /\ UNCHANGED <<num, handed, pc>>
    /\ IF peers[HashOf[p]] = NoPeer
         THEN /\ peers' = AddTo(peers, p)
              /\ curSlice' = NilSlice
              /\ Recount(p, 1)
         ELSE UNCHANGED state

\* As Remove, but testing only the hash where Remove compares the pointer.
RemoveAnyHash(p) ==
    /\ UNCHANGED <<num, handed, pc>>
    /\ IF peers[HashOf[p]] # NoPeer
         THEN /\ peers' = RemoveByHash(peers, p)
              /\ curSlice' = NilSlice
              /\ Recount(p, -1)
         ELSE UNCHANGED state

\* As Remove, but counting down also when the object is not stored.
RemoveAlwaysCounts(p) ==
    /\ peers' = RemoveFrom(peers, p)
    /\ curSlice' = NilSlice
    /\ Recount(p, -1)
    /\ UNCHANGED <<num, handed, pc>>

\* As Remove, but without throwing the cached slice away.
RemoveKeepsSlice(p) ==
    /\ UNCHANGED <<curSlice, num, handed, pc>>
    /\ IF peers[HashOf[p]] = p
         THEN peers' = RemoveFrom(peers, p) /\ Recount(p, -1)
         ELSE UNCHANGED <<peers, connected, incoming, outgoing>>

\* Remove this very object, if it is stored.
Remove(p) ==
    /\ UNCHANGED <<num, handed, pc>>
    /\ IF peers[HashOf[p]] = p
         THEN /\ peers' = RemoveFrom(peers, p)
              /\ curSlice' = NilSlice
              /\ Recount(p, -1)
         ELSE UNCHANGED state

-----------------------------------------------------------------------------
(* Queries, each under the read lock. *)

Answer(c, n) ==
    /\ pc[c] = "idle"
    /\ num' = [num EXCEPT ![c] = n]
    /\ UNCHANGED <<state, handed, pc>>

Total(c)        == Answer(c, Cardinality(Stored(peers)))
Incoming(c)     == Answer(c, incoming)
Outgoing(c)     == Answer(c, outgoing)
Count(c, a)     == Answer(c, connected[a])
Connected(c, a) == Answer(c, IF connected[a] > 0 THEN 1 ELSE 0)

Get(c, h) ==
    /\ pc[c] = "idle"
    /\ handed' = [handed EXCEPT ![c] = {peers[h]} \ {NoPeer}]
    /\ UNCHANGED <<state, num, pc>>

\* Slice finds the cached slice and returns a copy of it.
SliceHit(c) ==
    /\ pc[c] = "idle"
    /\ curSlice # NilSlice
    /\ handed' = [handed EXCEPT ![c] = curSlice]
    /\ UNCHANGED <<state, num, pc>>

\* Slice finds no cached slice and gives up the read lock.
SliceMiss(c) ==
    /\ pc[c] = "idle"
    /\ curSlice = NilSlice
    /\ pc' = [pc EXCEPT ![c] = "rebuild"]
    /\ UNCHANGED <<state, num, handed>>

\* Under the write lock, Slice rebuilds the cache and returns it.
SliceRebuild(c) ==
    /\ pc[c] = "rebuild"
    /\ curSlice' = Stored(peers)
    /\ handed' = [handed EXCEPT ![c] = Stored(peers)]
    /\ pc' = [pc EXCEPT ![c] = "idle"]
    /\ UNCHANGED <<peers, connected, incoming, outgoing, num>>

\* The caller is done with its answers, which were local to it.
Forget(c) ==
    /\ pc[c] = "idle"
    /\ num' = [num EXCEPT ![c] = 0]
    /\ handed' = [handed EXCEPT ![c] = {}]
    /\ UNCHANGED <<state, pc>>

Next ==
    \/ \E p \in Peer : Add(p) \/ Remove(p)
    \/ \E c \in Caller :
        \/ Total(c)
        \/ Incoming(c)
        \/ Outgoing(c)
        \/ SliceHit(c)
        \/ SliceMiss(c)
        \/ SliceRebuild(c)
        \/ Forget(c)
        \/ \E a \in Addr : Count(c, a) \/ Connected(c, a)
        \/ \E h \in Hash : Get(c, h)

Spec == Init /\ [][Next]_vars

-----------------------------------------------------------------------------
\* The types of the store's state.  That no counter goes below zero depends on
\* Remove ignoring an object that is not stored (peerStore.go, Remove).
TypeOK ==
    /\ peers \in PeerMap
    /\ connected \in [Addr -> Nat]
    /\ curSlice \in {NilSlice} \cup SUBSET Peer
    /\ incoming \in Nat
    /\ outgoing \in Nat
    /\ num \in [Caller -> Nat]
    /\ handed \in [Caller -> SUBSET Peer]
    /\ pc \in [Caller -> {"idle", "rebuild"}]

\* The counters agree with the map after any sequence of Add and Remove, also
\* of objects that share a hash or an ip: connected[ip] and connected[ip:port]
\* are the numbers allowIncoming and canDial decide on (peerStore.go, Add and
\* Remove).
CountersExact ==
    /\ \A a \in Addr : connected[a] = Registry!Uses(Stored(peers), a)
    /\ incoming = Cardinality(Stored(peers) \cap Inbound)
    /\ outgoing = Cardinality(Stored(peers) \ Inbound)

\* A cached slice is never stale: it holds exactly the stored peers, although
\* it is rebuilt after the miss was seen under an earlier lock (peerStore.go,
\* Slice).
SliceFresh == curSlice # NilSlice => curSlice = Stored(peers)

\* The inductive invariant behind the refinement.
IInv == TypeOK /\ CountersExact /\ SliceFresh

\* The store implements the registry: each answer computed from a counter or
\* from the cached slice is the one the map itself gives at that instant.
RegistrySpec == Registry!Spec

=============================================================================
