---------------------------- MODULE MCPeerShare -----------------------------
(***************************************************************************)
(* One peer.                                                               *)
(***************************************************************************)
EXTENDS PeerShare

CONSTANT p1

OnePeer == {p1}

=============================================================================
