------------------------------- MODULE MCBans -------------------------------
(***************************************************************************)
(* Instances of Bans: an incoming and a dialed connection of one ip; in    *)
(* the run for the bans, the dialed one leads to the node itself.          *)
(***************************************************************************)
EXTENDS Bans

CONSTANTS c1, c2, i1, e1, e2

Conns == {c1, c2}
IpMap == [c \in Conns |-> i1]
EpMap == [c \in Conns |-> IF c = c1 THEN e1 ELSE e2]
=============================================================================
