----------------------------- MODULE MCReceive ------------------------------
(***************************************************************************)
(* Two peers, of which p1 is followed.                                     *)
(***************************************************************************)
EXTENDS Receive

CONSTANTS p1, p2

MCPeer == {p1, p2}

=============================================================================
