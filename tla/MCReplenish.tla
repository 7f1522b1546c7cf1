---------------------------- MODULE MCReplenish ----------------------------
(***************************************************************************)
(* Model checking module Replenish: an endpoint of a node that is always   *)
(* there, one of a node that does what it likes, and the node's own.       *)
(***************************************************************************)
EXTENDS Replenish

CONSTANTS good, other, own

MCEndpoint == {good, other, own}
MCOwn == {own}
MCGood == {good}

=============================================================================
