---------------------------- MODULE MCAdmission -----------------------------
(***************************************************************************)
(* a1 and a2 are two connections to the same node (same hash), one         *)
(* incoming and one dialed; b is another node on the same ip.  The address *)
(* of the first node is special in one configuration.                      *)
(***************************************************************************)
EXTENDS Admission, TLC

CONSTANTS a1, a2, b

MCPeer == {a1, a2, b}
MCInbound == {a1, b}
MCHashOf == (a1 :> "x" @@ a2 :> "x" @@ b :> "y")
MCIpOf == [p \in MCPeer |-> "ip1"]
MCEpOf == (a1 :> "ip1:1" @@ a2 :> "ip1:1" @@ b :> "ip1:2")
MCCaller == MCInbound \cup {Cat, Manager, Dialer}

Base == [unset |-> {"Special"}, badPort |-> FALSE, badSpecial |-> TRUE,
         ProtocolVersion |-> 10, ProtocolVersionMinimum |-> 9,
         MaxPeers |-> 1, MaxIncoming |-> 3, DropTo |-> 2,
         PeerIPLimitIncoming |-> 0, Special |-> {}]

\* One that Sanitize lowers, one with a special peer and a limit per ip, one
\* that Check refuses.
MCCandidates == {
    Base,
    [Base EXCEPT !.unset = {}, !.badSpecial = FALSE,
                 !.Special = {"ip1:1", "ip1"}, !.PeerIPLimitIncoming = 1],
    [Base EXCEPT !.unset = {"TargetPeers"}, !.MaxPeers = 9]}
=============================================================================
