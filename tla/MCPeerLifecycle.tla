-------------------------- MODULE MCPeerLifecycle ---------------------------
(***************************************************************************)
(* Two connections to the same node, which have the same hash: one is      *)
(* dialed and one is incoming.  A goroutine of the controller stops peers. *)
(***************************************************************************)
EXTENDS PeerLifecycle

CONSTANTS a1, a2, c1

MCPeer == {a1, a2}
MCHash == {"x"}
MCHashOf == [p \in Peer |-> "x"]
MCDialed == {a1}
MCCtl == {c1}

=============================================================================
