----------------------------- MODULE Admission ------------------------------
(***************************************************************************)
(* How many connections a node has: the listen loop behind the limiter,    *)
(* the limits on incoming connections (allowIncoming), the handshakes that *)
(* run at the same time, manageOnline, which puts the new peers into the   *)
(* store, and the cat round, which drops peers again.  The application may *)
(* change the special addresses meanwhile (Network.SetSpecial).  It        *)
(* composes PeerStore, Limiter and Configuration: every access to the      *)
(* store is an action of PeerStore, one per critical section.              *)
(*                                                                         *)
(* A member of Inbound stands for an attempt to connect and, when the      *)
(* handshake succeeds, for the peer made of it; the others are dialed.  A  *)
(* host that never gets beyond the limiter or the handshake is one too.    *)
(* Bans are module Bans: here any attempt may come from a banned ip.  The  *)
(* capacity of the status channel and Network.Stop are module              *)
(* PeerLifecycle, the choice of what to dial is module Replenish.          *)
(***************************************************************************)
EXTENDS PeerStore, Limiter, Configuration

CONSTANTS
    Cat,         \* the run loop, as a caller of the store
    Manager,     \* manageOnline, as a caller of the store
    Dialer,      \* the replenish loop, as a caller of the store
    Candidates   \* configurations the node may be started with

ASSUME AdmissionAssumption ==
    /\ Inbound \cup {Cat, Manager, Dialer} \subseteq Caller
    /\ Cat # Manager /\ Cat # Dialer /\ Manager # Dialer
    /\ {Cat, Manager, Dialer} \cap Inbound = {}
    /\ \A p \in Inbound : IpOf[p] \in Host

\* The numbers are unsigned in Go.
ASSUME CandidatesAssumption ==
    Candidates \subseteq [
        unset : SUBSET STRING, badPort : BOOLEAN, badSpecial : BOOLEAN,
        ProtocolVersion : Nat, ProtocolVersionMinimum : Nat,
        MaxPeers : Nat, MaxIncoming : Nat, DropTo : Nat,
        PeerIPLimitIncoming : Nat, Special : SUBSET Addr]

VARIABLES
    conf,        \* net.conf
    special,     \* c.special: the special endpoints and their ips
    listening,   \* the listen loop runs
    stage,       \* per peer: how far its admission has come
    ended,       \* peers on which Stop was called
    status,      \* c.peerStatus: [peer, online] notices, oldest first
    mgr,         \* manageOnline: where it is, its new and its old peer
    cat,         \* runCatRound: where it is, the peers left, how many to drop;
                 \* ghost: the addresses that were special at some time of it
    waived,      \* ghost: peers let in above MaxIncoming, since their ip was special
    width        \* ghost: how many admissions ran at the same time at most,
                 \* overall ("all", without waived ones) and per ip

admVars == <<conf, special, listening, stage, ended, status, mgr, cat, waived, width>>
allVars == <<vars, limiterVars, admVars>>

SpecialIp(p) == IpOf[p] \in special
SpecialEp(p) == EpOf[p] \in special
Regular == Inbound \ waived

-----------------------------------------------------------------------------
AdmissionInit ==
    /\ Init
    /\ LimiterInit
    /\ conf \in Usable(Candidates)
    /\ special = conf.Special
    /\ listening = TRUE
    /\ stage = [p \in Peer |-> "off"]
    /\ ended = {}
    /\ status = << >>
    /\ mgr = [at |-> "idle", new |-> NoPeer, old |-> NoPeer]
    /\ cat = [at |-> "idle", left |-> {}, toDrop |-> 0, seen |-> {}]
    /\ waived = {}
    /\ width = [a \in Addr \cup {"all"} |-> 0]

To(p, s) == stage' = [stage EXCEPT ![p] = s]

\* Peer.Stop, when q are the notices in the channel: each object tells only
\* once that it is offline.
Stop(p, q) ==
    /\ ended' = ended \cup {p}
    /\ status' = IF p \in ended THEN q
                 ELSE Append(q, [peer |-> p, online |-> FALSE])

-----------------------------------------------------------------------------
(* The listen loop and the check of a new connection. *)

\* A connection passes the limiter and gets a goroutine of its own.
Accept(p) ==
    /\ listening
    /\ stage[p] = "off"
    /\ Accepts(IpOf[p])
    /\ To(p, "arrived")
    /\ UNCHANGED <<vars, conf, special, listening, ended, status, mgr, cat, waived, width>>

\* The limiter closes the connection; its error is not a net.OpError, and the
\* loop goes on.
TurnAway(p) ==
    /\ listening
    /\ stage[p] = "off"
    /\ Refuses(IpOf[p])
    /\ UNCHANGED <<vars, admVars>>

\* Network.Stop has closed the listener, or accepting fails for good.
ListenEnds ==
    /\ listening
    /\ listening' = FALSE
    /\ UNCHANGED <<vars, limiterVars, conf, special, stage, ended, status, mgr, cat,
                   waived, width>>

\* The ip is banned.
RefusedBan(p) ==
    /\ stage[p] = "arrived"
    /\ To(p, "reject")
    /\ UNCHANGED <<vars, limiterVars, conf, special, listening, ended, status, mgr,
                   cat, waived, width>>

\* The admissions that passed the check and are not stored yet.
InFlight(st) ==
    {p \in Inbound : st[p] \in {"below max", "handshake", "made", "queued"}}

Widen(a, n) == width' = [width EXCEPT ![a] = IF n > @ THEN n ELSE @]

\* As CheckMax, but letting one too many in.
CheckMaxLate(p) ==
    /\ stage[p] = "arrived"
    /\ Total(p)
    /\ IF num'[p] > conf.MaxIncoming
         THEN To(p, "full") /\ UNCHANGED <<waived, width>>
         ELSE /\ To(p, "below max")
              /\ waived' = waived \ {p}
              /\ Widen("all", Cardinality(InFlight(stage') \cap Regular'))
    /\ UNCHANGED <<limiterVars, conf, special, listening, ended, status, mgr, cat>>

\* Whether the node is full.
CheckMax(p) ==
    /\ stage[p] = "arrived"
    /\ Total(p)
    /\ IF num'[p] >= conf.MaxIncoming
         THEN To(p, "full") /\ UNCHANGED <<waived, width>>
         ELSE /\ To(p, "below max")
              /\ waived' = waived \ {p}
              /\ Widen("all", Cardinality(InFlight(stage') \cap Regular'))
    /\ UNCHANGED <<limiterVars, conf, special, listening, ended, status, mgr, cat>>

\* The node is full, which does not matter if the ip is special.
CheckSpecial(p) ==
    /\ stage[p] = "full"
    /\ IF SpecialIp(p)
         THEN To(p, "below max") /\ waived' = waived \cup {p}
         ELSE To(p, "reject") /\ UNCHANGED waived
    /\ UNCHANGED <<vars, limiterVars, conf, special, listening, ended, status, mgr,
                   cat, width>>

\* There is no limit per ip.
NoIpLimit(p) ==
    /\ stage[p] = "below max"
    /\ conf.PeerIPLimitIncoming = 0
    /\ To(p, "handshake")
    /\ UNCHANGED <<vars, limiterVars, conf, special, listening, ended, status, mgr,
                   cat, waived, width>>

\* Too many peers with the same ip; special ones are no exception.
CheckIp(p) ==
    /\ stage[p] = "below max"
    /\ conf.PeerIPLimitIncoming > 0
    /\ Count(p, IpOf[p])
    /\ IF num'[p] >= conf.PeerIPLimitIncoming
         THEN To(p, "reject") /\ UNCHANGED width
         ELSE /\ To(p, "handshake")
              /\ Widen(IpOf[p], Cardinality({q \in InFlight(stage') :
                    IpOf[q] = IpOf[p] /\ stage'[q] # "below max"}))
    /\ UNCHANGED <<limiterVars, conf, special, listening, ended, status, mgr, cat, waived>>

\* makePeerShare collects alternatives from the store's slice.
CollectShare(p) ==
    /\ stage[p] = "reject"
    /\ \/ SliceHit(p) /\ To(p, "refuse")
       \/ SliceMiss(p) /\ UNCHANGED stage
       \/ SliceRebuild(p) /\ To(p, "refuse")
    /\ UNCHANGED <<limiterVars, conf, special, listening, ended, status, mgr, cat,
                   waived, width>>

\* RejectWithShare sends them and closes the connection.
RejectWithShare(p) ==
    /\ stage[p] = "refuse"
    /\ Forget(p)
    /\ To(p, "off")
    /\ UNCHANGED <<limiterVars, conf, special, listening, ended, status, mgr, cat,
                   waived, width>>

-----------------------------------------------------------------------------
(* Handshakes and peers. *)

\* canDial: the replenish loop dials an endpoint that is not connected.
DialOut(p) ==
    /\ p \notin Inbound
    /\ stage[p] = "off"
    /\ Connected(Dialer, EpOf[p])
    /\ To(p, IF num'[Dialer] = 0 THEN "handshake" ELSE "off")
    /\ UNCHANGED <<limiterVars, conf, special, listening, ended, status, mgr, cat,
                   waived, width>>

\* The goroutine of an incoming connection is done with the store.
Checked(p) == IF p \in Inbound THEN Forget(p) ELSE UNCHANGED vars

HandshakeFails(p) ==
    /\ stage[p] = "handshake"
    /\ Checked(p)
    /\ To(p, "off")
    /\ UNCHANGED <<limiterVars, conf, special, listening, ended, status, mgr, cat,
                   waived, width>>

\* newPeer, whose loops run from here on.
HandshakeSucceeds(p) ==
    /\ stage[p] = "handshake"
    /\ Checked(p)
    /\ To(p, "made")
    /\ UNCHANGED <<limiterVars, conf, special, listening, ended, status, mgr, cat,
                   waived, width>>

Announce(p) ==
    /\ stage[p] = "made"
    /\ To(p, "queued")
    /\ status' = Append(status, [peer |-> p, online |-> TRUE])
    /\ UNCHANGED <<vars, limiterVars, conf, special, listening, ended, mgr, cat,
                   waived, width>>

\* The connection fails, and the loops call Stop.
ConnectionEnds(p) ==
    /\ stage[p] \in {"made", "queued", "known"}
    /\ p \notin ended
    /\ Stop(p, status)
    /\ UNCHANGED <<vars, limiterVars, conf, special, listening, stage, mgr, cat,
                   waived, width>>

-----------------------------------------------------------------------------
(* manageOnline, without the gauges it sets after every notice. *)

MgrTo(at) == mgr' = [mgr EXCEPT !.at = at]

TakeOnline ==
    /\ mgr.at = "idle"
    /\ status # << >>
    /\ Head(status).online
    /\ LET p == Head(status).peer
           old == peers[HashOf[p]]
       IN  /\ Get(Manager, HashOf[p])
           /\ \/ /\ old = NoPeer
                 /\ status' = Tail(status)
                 /\ mgr' = [at |-> "add", new |-> p, old |-> NoPeer]
                 /\ UNCHANGED ended
              \/ /\ old # NoPeer
                 /\ Stop(old, Tail(status))
                 /\ mgr' = [at |-> "remove", new |-> p, old |-> old]
    /\ UNCHANGED <<limiterVars, conf, special, listening, stage, cat, waived, width>>

RemoveOld ==
    /\ mgr.at = "remove"
    /\ Remove(mgr.old)
    /\ MgrTo("add")
    /\ UNCHANGED <<limiterVars, conf, special, listening, stage, ended, status, cat,
                   waived, width>>

AddNew ==
    /\ mgr.at = "add"
    /\ Add(mgr.new)
    /\ MgrTo("done")
    /\ To(mgr.new, "known")
    /\ UNCHANGED <<limiterVars, conf, special, listening, ended, status, cat, waived,
                   width>>

TakeOffline ==
    /\ mgr.at = "idle"
    /\ status # << >>
    /\ ~ Head(status).online
    /\ Remove(Head(status).peer)
    /\ status' = Tail(status)
    /\ UNCHANGED <<limiterVars, conf, special, listening, stage, ended, mgr, cat,
                   waived, width>>

\* The notice is handled.
NoticeDone ==
    /\ mgr.at = "done"
    /\ Forget(Manager)
    /\ mgr' = [at |-> "idle", new |-> NoPeer, old |-> NoPeer]
    /\ UNCHANGED <<limiterVars, conf, special, listening, stage, ended, status, cat,
                   waived, width>>

-----------------------------------------------------------------------------
(* The cat round.  It also writes the peer file, see module Bans. *)

\* The round has its list of peers, and knows how many are too many.
CatCounts(listed) ==
    cat' = IF Cardinality(listed) > conf.DropTo
             THEN [at |-> "drop", left |-> listed,
                   toDrop |-> Cardinality(listed) - conf.DropTo, seen |-> special]
             ELSE [at |-> "over", left |-> {}, toDrop |-> 0, seen |-> {}]

CatRound ==
    /\ cat.at = "idle"
    /\ \/ SliceHit(Cat) /\ CatCounts(handed'[Cat])
       \/ SliceMiss(Cat) /\ UNCHANGED cat
       \/ SliceRebuild(Cat) /\ CatCounts(handed'[Cat])
    /\ UNCHANGED <<limiterVars, conf, special, listening, stage, ended, status, mgr,
                   waived, width>>

CatEnds ==
    /\ cat.at = "over"
    /\ Forget(Cat)
    /\ cat' = [at |-> "idle", left |-> {}, toDrop |-> 0, seen |-> {}]
    /\ UNCHANGED <<limiterVars, conf, special, listening, stage, ended, status, mgr,
                   waived, width>>

\* The loop goes on with the peers left and n to drop, or is over.
CatGoesOn(left, n) ==
    cat' = IF left = {} \/ n = 0
             THEN [at |-> "over", left |-> {}, toDrop |-> 0, seen |-> {}]
             ELSE [at |-> "drop", left |-> left, toDrop |-> n, seen |-> cat.seen]

\* As CatSkip, but counting the special peer as dropped.
CatSkipCounted(p) ==
    /\ cat.at = "drop"
    /\ p \in cat.left
    /\ SpecialEp(p)
    /\ CatGoesOn(cat.left \ {p}, cat.toDrop - 1)
    /\ UNCHANGED <<vars, limiterVars, conf, special, listening, stage, ended, status,
                   mgr, waived, width>>

\* The next peer, in random order, is special and stays.
CatSkip(p) ==
    /\ cat.at = "drop"
    /\ p \in cat.left
    /\ SpecialEp(p)
    /\ CatGoesOn(cat.left \ {p}, cat.toDrop)
    /\ UNCHANGED <<vars, limiterVars, conf, special, listening, stage, ended, status,
                   mgr, waived, width>>

\* The next peer is stopped, which counts even if it was stopped before.
CatDrop(p) ==
    /\ cat.at = "drop"
    /\ p \in cat.left
    /\ ~ SpecialEp(p)
    /\ Stop(p, status)
    /\ CatGoesOn(cat.left \ {p}, cat.toDrop - 1)
    /\ UNCHANGED <<vars, limiterVars, conf, special, listening, stage, mgr, waived, width>>

-----------------------------------------------------------------------------
\* Network.SetSpecial: other addresses are special from now on, or none; what does
\* not parse changes nothing.
SetSpecial(S) ==
    /\ special' = S
    /\ cat' = IF cat.at = "drop" THEN [cat EXCEPT !.seen = @ \cup S] ELSE cat
    /\ UNCHANGED <<vars, limiterVars, conf, listening, stage, ended, status, mgr,
                   waived, width>>

AdmissionNext ==
    \/ Tick /\ UNCHANGED <<vars, admVars>>
    \/ ListenEnds
    \/ TakeOnline
    \/ RemoveOld
    \/ AddNew
    \/ TakeOffline
    \/ NoticeDone
    \/ CatRound
    \/ CatEnds
    \/ \E S \in {{}} \cup {c.Special : c \in Candidates} : SetSpecial(S)
    \/ \E p \in Inbound :
        \/ Accept(p)
        \/ TurnAway(p)
        \/ RefusedBan(p)
        \/ CheckMax(p)
        \/ CheckSpecial(p)
        \/ NoIpLimit(p)
        \/ CheckIp(p)
        \/ CollectShare(p)
        \/ RejectWithShare(p)
    \/ \E p \in Peer :
        \/ DialOut(p)
        \/ HandshakeFails(p)
        \/ HandshakeSucceeds(p)
        \/ Announce(p)
        \/ ConnectionEnds(p)
        \/ CatSkip(p)
        \/ CatDrop(p)

AdmissionSpec == AdmissionInit /\ [][AdmissionNext]_allVars

-----------------------------------------------------------------------------
\* The types of the state, together with those of the store: a notice is about
\* a peer, and manageOnline has a peer in its hands when it needs one.
AdmissionTypeOK ==
    /\ TypeOK
    /\ status \in Seq([peer : Peer, online : BOOLEAN])
    /\ mgr \in [at : {"idle", "remove", "add", "done"},
                new : Peer \cup {NoPeer}, old : Peer \cup {NoPeer}]
    /\ mgr.at \in {"remove", "add"} => mgr.new # NoPeer
    /\ mgr.at = "remove" => mgr.old # NoPeer

\* The limits on incoming connections are exceeded by no more than the number
\* of admissions that ran at the same time: the stored peers that came in, without
\* those let in above the maximum because their ip was special then, stay below
\* MaxIncoming, which Sanitize keeps below MaxPeers, plus that number, and those of
\* one ip below PeerIPLimitIncoming plus the number for that ip; also while peers
\* are replaced, which lowers the counts for a moment, and while the special
\* addresses change (controller_connections.go, allowIncoming, manageOnline;
\* controller.go, setSpecial).
OvershootBounded ==
    LET Few(S, limit, n) == S = {} \/ Cardinality(S) < limit + n
        admitted == Stored(peers) \cap Inbound
    IN  /\ Few(admitted \cap Regular,
               Least(conf.MaxIncoming, conf.MaxPeers), width["all"])
        /\ conf.PeerIPLimitIncoming > 0 =>
            \A a \in Host : Few({p \in admitted : IpOf[p] = a},
                                conf.PeerIPLimitIncoming, width[a])

\* When a cat round ends, no more than DropTo of the peers it listed still run,
\* or only ones that were special at some time of the round, although peers end by
\* themselves, are replaced or join, and special ones become ordinary, while it goes
\* through its list (controller_cat.go, runCatRound; controller.go, setSpecial).
CatTrims ==
    [][cat.at = "drop" /\ cat'.at = "over" =>
        LET running == handed[Cat] \ ended'
        IN  \/ Cardinality(running) <= Least(conf.DropTo, conf.MaxPeers)
            \/ \A p \in running : EpOf[p] \in cat.seen]_allVars

=============================================================================
