-------------------------------- MODULE Mesh --------------------------------
(***************************************************************************)
(* Two nodes that dial each other, possibly at the same time.  Each node   *)
(* knows the other by one hash, so of several connections between them a   *)
(* node keeps the one it announced last and stops the others; stopping     *)
(* closes the connection, which stops the peer at its other end too.       *)
(*                                                                         *)
(* A node's peers, notices and store are those of PeerLifecycle, without   *)
(* the limit on peerStatus and with replacing a peer as one step; the TCP  *)
(* connections, which PeerLifecycle leaves open, tie the two nodes         *)
(* together.                                                               *)
(***************************************************************************)
EXTENDS Naturals, Sequences, FiniteSets

CONSTANTS
    Node,        \* the two nodes
    Conn,        \* connections that may be made
    Dialer,      \* Conn -> Node: the node that dials
    Fragile,     \* bound: connections that the network may break
    None         \* no connection

ASSUME MeshAssumption ==
    /\ Cardinality(Node) = 2
    /\ \A c \in Conn : Dialer[c] \in Node
    /\ None \notin Conn

VARIABLES
    tcp,         \* per connection: "none", "dialing", "open" or "closed"
    end,         \* per node and connection: its peer is "none", "up" or
                 \* "stopped", or the handshake "failed"
    announced,   \* per node: connections announced so far
    peerStatus,  \* per node: the notices for manageOnline
    store        \* per node: the connection of the stored peer

vars == <<tcp, end, announced, peerStatus, store>>

Init ==
    /\ tcp = [c \in Conn |-> "none"]
    /\ end = [n \in Node |-> [c \in Conn |-> "none"]]
    /\ announced = [n \in Node |-> {}]
    /\ peerStatus = [n \in Node |-> <<>>]
    /\ store = [n \in Node |-> None]

Online(c) == [conn |-> c, online |-> TRUE]
Offline(c) == [conn |-> c, online |-> FALSE]

-----------------------------------------------------------------------------
(* Making a connection. *)

\* The replenish loop of the dialer is inside Dial.
Dialing(c) ==
    /\ tcp[c] # "none"
    /\ end[Dialer[c]][c] # "failed"
    /\ c \notin announced[Dialer[c]]

\* The replenish loop, which makes one connection at a time, dials when the
\* other node is not in its store.
Dial(c) ==
    /\ tcp[c] = "none"
    /\ store[Dialer[c]] = None
    /\ \A d \in Conn : Dialer[d] = Dialer[c] => ~Dialing(d)
    /\ tcp' = [tcp EXCEPT ![c] = "dialing"]
    /\ UNCHANGED <<end, announced, peerStatus, store>>

\* handshakeIncoming succeeds: it replies and makes a peer.
AcceptPeer(n, c) ==
    /\ n # Dialer[c]
    /\ tcp[c] = "dialing"
    /\ end[n][c] = "none"
    /\ end' = [end EXCEPT ![n][c] = "up"]
    /\ UNCHANGED <<tcp, announced, peerStatus, store>>

\* handshakeOutgoing reads the reply, which may have been followed by a close.
DialPeer(n, c) ==
    /\ n = Dialer[c]
    /\ end[n][c] = "none"
    /\ \E m \in Node \ {n} : end[m][c] # "none"
    /\ end' = [end EXCEPT ![n][c] = "up"]
    /\ tcp' = [tcp EXCEPT ![c] = IF @ = "dialing" THEN "open" ELSE @]
    /\ UNCHANGED <<announced, peerStatus, store>>

\* handshakeOutgoing gets no reply in time, or finds the connection closed.
DialFails(n, c) ==
    /\ n = Dialer[c]
    /\ end[n][c] = "none"
    /\ tcp[c] \in {"dialing", "closed"}
    /\ end' = [end EXCEPT ![n][c] = "failed"]
    /\ tcp' = [tcp EXCEPT ![c] = "closed"]
    /\ UNCHANGED <<announced, peerStatus, store>>

\* The goroutine of the handshake announces the peer, which may have been
\* stopped by its read loop in the meantime.
Announce(n, c) ==
    /\ end[n][c] \in {"up", "stopped"}
    /\ c \notin announced[n]
    /\ announced' = [announced EXCEPT ![n] = @ \cup {c}]
    /\ peerStatus' = [peerStatus EXCEPT ![n] = Append(@, Online(c))]
    /\ UNCHANGED <<tcp, end, store>>

-----------------------------------------------------------------------------
(* The end of a connection. *)

\* The network breaks a connection.
Break(c) ==
    /\ c \in Fragile
    /\ tcp[c] \in {"dialing", "open"}
    /\ tcp' = [tcp EXCEPT ![c] = "closed"]
    /\ UNCHANGED <<end, announced, peerStatus, store>>

\* The read loop of a peer finds its connection closed, and stops the peer.
LoopStops(n, c) ==
    /\ end[n][c] = "up"
    /\ tcp[c] = "closed"
    /\ end' = [end EXCEPT ![n][c] = "stopped"]
    /\ peerStatus' = [peerStatus EXCEPT ![n] = Append(@, Offline(c))]
    /\ UNCHANGED <<tcp, announced, store>>

-----------------------------------------------------------------------------
(* manageOnline. *)

\* As TakeOnline, but the old peer is only taken out of the store.
TakeOnlineKeepsOld(n) ==
    /\ peerStatus[n] # <<>>
    /\ Head(peerStatus[n]).online
    /\ store' = [store EXCEPT ![n] = Head(peerStatus[n]).conn]
    /\ peerStatus' = [peerStatus EXCEPT ![n] = Tail(@)]
    /\ UNCHANGED <<tcp, end, announced>>

\* An online notice: the peer with the same hash is stopped, which closes its
\* connection and queues its offline notice, and replaced.
TakeOnline(n) ==
    /\ peerStatus[n] # <<>>
    /\ Head(peerStatus[n]).online
    /\ LET old == store[n]
           stops == old # None /\ end[n][old] # "stopped"
       IN  /\ end' = IF stops THEN [end EXCEPT ![n][old] = "stopped"] ELSE end
           /\ tcp' = IF stops THEN [tcp EXCEPT ![old] = "closed"] ELSE tcp
           /\ peerStatus' = [peerStatus EXCEPT ![n] =
                  IF stops THEN Append(Tail(@), Offline(old)) ELSE Tail(@)]
    /\ store' = [store EXCEPT ![n] = Head(peerStatus[n]).conn]
    /\ UNCHANGED announced

\* As TakeOffline, but by hash: whatever peer is stored is removed.
TakeOfflineByHash(n) ==
    /\ peerStatus[n] # <<>>
    /\ ~Head(peerStatus[n]).online
    /\ store' = [store EXCEPT ![n] = None]
    /\ peerStatus' = [peerStatus EXCEPT ![n] = Tail(@)]
    /\ UNCHANGED <<tcp, end, announced>>

\* An offline notice: the peer is removed, if it is the stored one.
TakeOffline(n) ==
    /\ peerStatus[n] # <<>>
    /\ ~Head(peerStatus[n]).online
    /\ store' = [store EXCEPT ![n] = IF @ = Head(peerStatus[n]).conn THEN None ELSE @]
    /\ peerStatus' = [peerStatus EXCEPT ![n] = Tail(@)]
    /\ UNCHANGED <<tcp, end, announced>>

-----------------------------------------------------------------------------
Handshake(n, c) == AcceptPeer(n, c) \/ DialPeer(n, c) \/ DialFails(n, c) \/ Announce(n, c)

ManageOnline(n) == TakeOnline(n) \/ TakeOffline(n)

Next ==
    \/ \E c \in Conn : Dial(c) \/ Break(c)
    \/ \E n \in Node : ManageOnline(n) \/ \E c \in Conn : Handshake(n, c) \/ LoopStops(n, c)

\* The goroutines of a node go on when they can; nothing forces a node to dial or
\* a connection to break.
Spec ==
    /\ Init
    /\ [][Next]_vars
    /\ \A n \in Node :
        /\ WF_vars(ManageOnline(n))
        /\ \A c \in Conn : WF_vars(Handshake(n, c)) /\ WF_vars(LoopStops(n, c))

-----------------------------------------------------------------------------
\* A stopped peer that stays in the store, since its offline notice overtook its
\* online notice (StoppedLeave of PeerLifecycle).
Zombie(n) == store[n] # None /\ end[n][store[n]] = "stopped"

\* However the two nodes dial each other and whatever breaks, they end up with the
\* same connection stored, or both with none, but for a stopped peer left behind:
\* neither keeps a peer the other has dropped (controller_connections.go,
\* manageOnline, "existing peers with the same hash are removed").
StoresAgree ==
    <>[](\/ \E n \in Node : Zombie(n)
         \/ \A n, m \in Node : store[n] = store[m])

\* Of several connections between two nodes all but one are closed in the end
\* (controller_connections.go, manageOnline, old.Stop).
OneStaysOpen == <>[](Cardinality({c \in Conn : \A n \in Node : end[n][c] = "up"}) <= 1)

=============================================================================
