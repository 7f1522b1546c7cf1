----------------------------- MODULE MCRouting ------------------------------
(***************************************************************************)
(* Instances of Routing.                                                   *)
(***************************************************************************)
EXTENDS Routing, TLC

CONSTANTS p1, p2, p3

Peers == {p1, p2, p3}
Symmetry == Permutations(Peers)
=============================================================================
