------------------------------- MODULE MCMesh -------------------------------
(***************************************************************************)
(* Three connections, of which A dials two and B one.                      *)
(***************************************************************************)
EXTENDS Mesh, TLC

CONSTANTS A, B, c1, c2, c3

MCNode == {A, B}
MCConn == {c1, c2, c3}
MCFragile == {c1}
MCDialer == c1 :> A @@ c2 :> A @@ c3 :> B

=============================================================================
