--------------------------- MODULE Configuration ----------------------------
(***************************************************************************)
(* What NewNetwork does with a configuration (network.go): it refuses one  *)
(* that Check rejects and adjusts the others with Sanitize.  A candidate   *)
(* is a record of the fields that matter here, and of                      *)
(*   unset          the names of the fields that are empty or zero         *)
(*   badPort        ListenPort is not a number                             *)
(*   badSpecial     parseSpecial fails on Special                          *)
(*   Special        the addresses setSpecial files: the special endpoints  *)
(*                  and their ips                                          *)
(***************************************************************************)
EXTENDS Integers

MustBeSet == {
    "ListenPort", "PeerShareAmount", "RoundTime", "TargetPeers", "Fanout",
    "HandshakeTimeout", "DialTimeout", "ReadDeadline", "WriteDeadline",
    "ChannelCapacity", "PeerShareTimeout"}

\* Configuration.Check returns no error.
CheckConf(c) ==
    /\ c.unset \cap MustBeSet = {}
    /\ ~ c.badPort
    /\ c.ProtocolVersion \in 9..11
    /\ c.ProtocolVersionMinimum <= 11
    /\ "Special" \notin c.unset => ~ c.badSpecial

Least(a, b) == IF a < b THEN a ELSE b

\* Configuration.Sanitize.
Sanitize(c) ==
    [c EXCEPT !.MaxIncoming = Least(c.MaxIncoming, c.MaxPeers),
              !.DropTo = Least(c.DropTo, c.MaxPeers)]

\* The configurations a node can run with, out of those it is given.
Usable(candidates) == {Sanitize(c) : c \in {d \in candidates : CheckConf(d)}}

=============================================================================
