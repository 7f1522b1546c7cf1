----------------------------- MODULE MCPeerSend -----------------------------
(***************************************************************************)
(* Two goroutines that send to a peer with a small send channel.           *)
(***************************************************************************)
EXTENDS PeerSend

CONSTANTS s1, s2

TwoSenders == {s1, s2}
=============================================================================
