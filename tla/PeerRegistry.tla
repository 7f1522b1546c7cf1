---------------------------- MODULE PeerRegistry ----------------------------
(***************************************************************************)
(* What the peer store promises to the goroutines that share it: a map     *)
(* from peer hash to peer object in which every operation takes effect at  *)
(* one instant, and in which every number and every list handed to a       *)
(* caller describes the map at the instant the call returns.  Module       *)
(* PeerStore implements it with separate counters and a cached slice.      *)
(***************************************************************************)
EXTENDS PeerObjects

CONSTANTS
    Addr,        \* keys of the counters: "ip" and "ip:port"
    IpOf,        \* Peer.Endpoint.IP
    EpOf,        \* Peer.Endpoint.String()
    Inbound,     \* the peer objects with IsIncoming set
    Caller       \* goroutines that use the store

VARIABLES
    registry,    \* hash -> peer object or nil
    num,         \* per caller: the number its last counting query returned
    handed       \* per caller: the peers its last Get or Slice returned

vars == <<registry, num, handed>>

\* How often the peers in S use an address, as an ip or as an endpoint.
Uses(S, a) == Cardinality({p \in S : IpOf[p] = a})
            + Cardinality({p \in S : EpOf[p] = a})

-----------------------------------------------------------------------------
Init ==
    /\ registry = EmptyMap
    /\ num = [c \in Caller |-> 0]
    /\ handed = [c \in Caller |-> {}]

Add(p) ==
    /\ registry' = AddTo(registry, p)
    /\ UNCHANGED <<num, handed>>

Remove(p) ==
    /\ registry' = RemoveFrom(registry, p)
    /\ UNCHANGED <<num, handed>>

\* A counting query answers n.
Answer(c, n) ==
    /\ num' = [num EXCEPT ![c] = n]
    /\ UNCHANGED <<registry, handed>>

Total(c)        == Answer(c, Cardinality(Stored(registry)))
Incoming(c)     == Answer(c, Cardinality(Stored(registry) \cap Inbound))
Outgoing(c)     == Answer(c, Cardinality(Stored(registry) \ Inbound))
Count(c, a)     == Answer(c, Uses(Stored(registry), a))
Connected(c, a) == Answer(c, IF Uses(Stored(registry), a) > 0 THEN 1 ELSE 0)

\* A lookup hands out the peers in S.
HandOut(c, S) ==
    /\ handed' = [handed EXCEPT ![c] = S]
    /\ UNCHANGED <<registry, num>>

Get(c, h) == HandOut(c, {registry[h]} \ {NoPeer})
Slice(c)  == HandOut(c, Stored(registry))

\* The caller is done with its answers.
Forget(c) ==
    /\ num' = [num EXCEPT ![c] = 0]
    /\ handed' = [handed EXCEPT ![c] = {}]
    /\ UNCHANGED registry

Next ==
    \/ \E p \in Peer : Add(p) \/ Remove(p)
    \/ \E c \in Caller :
        \/ Total(c)
        \/ Incoming(c)
        \/ Outgoing(c)
        \/ Slice(c)
        \/ Forget(c)
        \/ \E a \in Addr : Count(c, a) \/ Connected(c, a)
        \/ \E h \in Hash : Get(c, h)

Spec == Init /\ [][Next]_vars

=============================================================================
