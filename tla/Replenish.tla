------------------------------ MODULE Replenish -----------------------------
(***************************************************************************)
(* The replenish loop (controller_cat.go, catReplenish) with the dialer    *)
(* and the seed it uses: in every round it lists endpoints to connect to   *)
(* (special peers, seeds, one endpoint shared by a peer) and dials them    *)
(* one by one until there are enough connections.                          *)
(*                                                                         *)
(* Around it, peers arrive in the store some time after their handshake,   *)
(* other nodes connect and connections end, the application bans, the seed *)
(* server may be down at first, and time passes.  Times are countdowns.    *)
(* What a dialed node answers is its own choice.  The loop may hang for    *)
(* good in a peer request, in a dial or in the seed's http.Get, and so may *)
(* manageOnline.  Network.Stop and Network.SetSpecial are left out.        *)
(***************************************************************************)
EXTENDS Integers, Sequences, FiniteSets, SequencesExt

CONSTANTS
    Endpoint,    \* endpoints of other nodes, and of this one
    Own,         \* the endpoints that lead to this node
    Special,     \* c.specialEndpoints
    Seeds,       \* the endpoints in the seed file
    Good,        \* nodes that are always there and accept every connection
    Cached,      \* endpoints loaded from the peer file
    TargetPeers, \* conf.TargetPeers
    MinReseed,   \* conf.MinReseed
    PeerShareAmount,  \* conf.PeerShareAmount
    Redial,      \* conf.RedialInterval, in ticks
    Reseed,      \* conf.PeerReseedInterval, in ticks
    Extra,       \* how many more attempts than listed endpoints, 5 in the code
    UintRange,   \* 2^64: where uint wraps around
    NoCache      \* the seed has not been retrieved

ASSUME ReplenishAssumption ==
    /\ IsFiniteSet(Endpoint)
    /\ Cached \subseteq Endpoint
    /\ TargetPeers \in Nat \ {0}
    /\ MinReseed \in Nat
    /\ PeerShareAmount \in Nat \ {0}
    /\ Redial \in Nat
    /\ Reseed \in Nat \ {0}
    /\ Extra \in Nat \ {0}
    /\ UintRange \in Nat
    /\ UintRange > Cardinality(Endpoint)

VARIABLES
    rpc,         \* where the loop is: "boot" or "boot dial" at first, then "top",
                 \* "seed", "share", "loop" or "dial"; or "hung"
    boot,        \* the bootstrap endpoints left; done when empty
    connect,     \* the list of endpoints to dial
    attempts,    \* dials in this round
    limit,       \* attemptsLimit
    cur,         \* the endpoint being dialed (a set of one, or empty)
    wait,        \* per endpoint: ticks until it may be dialed again
    seedUp,      \* the seed server answers
    cache,       \* seed.cache
    ttl,         \* ticks until the cached seed is out of date
    reseedIn,    \* ticks until a reseed is due
    connected,   \* endpoints of the peers in the store
    outgoing,    \* those of them that this node dialed
    online,      \* endpoints of dialed peers whose online notice is on its way
    wedged,      \* manageOnline waits for itself (PeerLifecycle, Wedged)
    banned,      \* banned endpoints
    alts,        \* the alternatives the last c.Dial of the loop has returned
    lag          \* ghost: how many dialed peers were on their way to the store
                 \* when the loop began to dial another one, at most

store == <<connected, outgoing, wedged>>
vars == <<rpc, boot, connect, attempts, limit, cur, wait, seedUp, cache, ttl,
          reseedIn, store, online, banned, alts, lag>>
world == <<seedUp, cache, ttl, reseedIn, store, online, banned>>

Init ==
    /\ rpc = "boot"
    /\ boot = Cached
    /\ connect = <<>>
    /\ attempts = 0
    /\ limit = 0
    /\ cur = {}
    /\ wait = [e \in Endpoint |-> 0]
    /\ seedUp \in BOOLEAN
    /\ cache = NoCache
    /\ ttl = 0
    /\ reseedIn = Reseed
    /\ connected = {}
    /\ outgoing = {}
    /\ online = {}
    /\ wedged = FALSE
    /\ banned = {}
    /\ alts = {}
    /\ lag = 0

Total == Cardinality(connected)

\* The closure canDial, with Dialer.CanDial.
CanDial(e) == e \notin connected /\ e \notin banned /\ wait[e] = 0

-----------------------------------------------------------------------------
(* Dialing. *)

\* Dialer.Dial: refuses an endpoint it has dialed too recently (then c.Dial returns
\* at once), otherwise records the attempt and begins to connect.
Dial(e, at) ==
    IF wait[e] = 0
      THEN /\ cur' = {e}
           /\ rpc' = at
           /\ wait' = [wait EXCEPT ![e] = Redial]
      ELSE UNCHANGED <<cur, rpc, wait>>

Dialing == rpc \in {"boot dial", "dial"}

\* c.Dial returns, and the loop goes on where it dialed; in a round, it finds the
\* result in alts.
Returns(found) ==
    /\ Dialing
    /\ cur' = {}
    /\ rpc' = IF rpc = "dial" THEN "loop" ELSE "boot"
    /\ alts' = IF rpc = "dial" THEN found ELSE {}
    /\ UNCHANGED <<boot, connect, attempts, limit, wait, seedUp, cache, ttl, reseedIn,
                   store, lag>>

\* The handshake succeeds.
DialSucceeds(e) ==
    /\ e \in cur \ Own
    /\ Returns({})
    /\ online' = online \cup {e}
    /\ UNCHANGED banned

\* The node is full and offers alternatives; also this node itself, whose
\* rejection has another loopback value than its handshake.  Dial returns them
\* without a peer, and the loop takes them over only with one: connect is left
\* alone.
DialRejected(e, found) ==
    /\ e \in cur \ Good
    /\ Returns(found)
    /\ UNCHANGED <<online, banned>>

\* There is no connection, or the handshake fails.
DialFails(e) ==
    /\ e \in cur \ Good
    /\ Returns({})
    /\ UNCHANGED <<online, banned>>

\* The node dialed itself: banEndpoint.
DialLoops(e) ==
    /\ e \in cur \cap Own
    /\ Returns({})
    /\ banned' = banned \cup {e}
    /\ UNCHANGED online

\* The loop waits for good, and what it had in its hands does not matter any more.
Hangs ==
    /\ rpc' = "hung"
    /\ boot' = {}
    /\ connect' = <<>>
    /\ attempts' = 0
    /\ limit' = 0
    /\ cur' = {}
    /\ alts' = {}
    /\ UNCHANGED <<wait, seedUp, cache, ttl, reseedIn, store, banned, lag>>

\* c.Dial does not return: its online notice, or the offline notice of a peer that
\* banEndpoint stops, waits for a manageOnline that is wedged; or the peer request
\* of a p2p1 node, after the notice, waits for a manageData that is stuck.
DialHangs(e) ==
    /\ Dialing
    /\ e \in cur
    /\ \/ wedged /\ UNCHANGED online
       \/ e \notin Own /\ online' = online \cup {e}
    /\ Hangs

-----------------------------------------------------------------------------
(* catReplenish. *)

\* One endpoint of the peer file.
Bootstrap(e) ==
    /\ rpc = "boot"
    /\ e \in boot
    /\ boot' = boot \ {e}
    /\ IF CanDial(e) THEN Dial(e, "boot dial") ELSE UNCHANGED <<rpc, cur, wait>>
    /\ UNCHANGED <<connect, attempts, limit, world, alts, lag>>

BootstrapEnds ==
    /\ rpc = "boot"
    /\ boot = {}
    /\ rpc' = "top"
    /\ UNCHANGED <<boot, connect, attempts, limit, cur, wait, world, alts, lag>>

\* The start of a round, when there are too few connections: the special peers.
Top ==
    /\ rpc = "top"
    /\ Total < TargetPeers
    /\ connect' \in SetToSeqs({e \in Special : CanDial(e)})
    /\ rpc' = "seed"
    /\ UNCHANGED <<boot, attempts, limit, cur, wait, world, alts, lag>>

\* As Fresh, but a cached seed never gets out of date.
FreshForever == cache # NoCache

\* seed.retrieve: the cached seed if it is not out of date, else what the server
\* says; a server that does not answer yields an empty seed, which is cached too.
Fresh == cache # NoCache /\ ttl > 0

Retrieved == IF Fresh THEN cache ELSE IF seedUp THEN Seeds ELSE {}

\* The number of connections up to which the seed is used; with an empty seed it
\* wraps around.
ReseedBelow(size) == IF size < MinReseed THEN (size - 1) % UintRange ELSE MinReseed

\* The seeds, if there are few connections or the last reseed is long ago.
SeedStep ==
    /\ rpc = "seed"
    /\ cache' = Retrieved
    /\ ttl' = IF Fresh THEN ttl ELSE Reseed
    /\ IF Total <= ReseedBelow(Cardinality(Retrieved)) \/ reseedIn = 0
         THEN /\ \E s \in SetToSeqs({e \in Retrieved : CanDial(e)}) : connect' = connect \o s
              /\ reseedIn' = Reseed
         ELSE UNCHANGED <<connect, reseedIn>>
    /\ rpc' = "share"
    /\ UNCHANGED <<boot, attempts, limit, cur, wait, seedUp, store, online, banned,
                   alts, lag>>

\* WebScanner waits for good for a server that takes the request and never answers:
\* http.Get has no timeout.
SeedHangs ==
    /\ rpc = "seed"
    /\ ~Fresh
    /\ ~seedUp
    /\ Hangs
    /\ UNCHANGED online

\* processPeerShare: what a response lists without the banned endpoints, nothing if
\* the response is malformed.
ProcessPeerShare(listed, malformed) == IF malformed THEN {} ELSE listed \ banned

\* shuffleTrimShare: some PeerShareAmount of them.
ShuffleTrimShare(S) ==
    IF Cardinality(S) <= PeerShareAmount THEN {S}
    ELSE {T \in SUBSET S : Cardinality(T) = PeerShareAmount}

\* One of the endpoints a peer shares, if there is a peer to ask and it answers.
Share ==
    /\ rpc = "share"
    /\ \/ UNCHANGED connect
       \/ /\ Total > 0
          /\ \E listed \in SUBSET Endpoint, malformed \in BOOLEAN :
             \E T \in ShuffleTrimShare(ProcessPeerShare(listed, malformed)) :
             \E e \in T : CanDial(e) /\ connect' = Append(connect, e)
    /\ limit' = Len(connect') + Extra
    /\ attempts' = 0
    /\ rpc' = "loop"
    /\ UNCHANGED <<boot, cur, wait, world, alts, lag>>

\* asyncPeerRequest does not return: it waits for the lock of the listeners, which
\* manageData keeps (module PeerShare), or in Peer.Send (module PeerSend).
ShareHangs ==
    /\ rpc = "share"
    /\ Total > 0
    /\ Hangs
    /\ UNCHANGED online

\* As Wanted, but without the look at the number of connections.
WantedAll == connect # <<>> /\ attempts < limit

\* The condition of the dial loop.
Wanted == connect # <<>> /\ attempts < limit /\ Total < TargetPeers

\* The next endpoint of the list, skipped if it cannot be dialed any more.
LoopDial ==
    /\ rpc = "loop"
    /\ Wanted
    /\ connect' = Tail(connect)
    /\ IF CanDial(Head(connect))
         THEN attempts' = attempts + 1 /\ Dial(Head(connect), "dial")
         ELSE UNCHANGED <<attempts, rpc, cur, wait>>
    /\ lag' = IF Cardinality(online) > lag THEN Cardinality(online) ELSE lag
    /\ alts' = {}
    /\ UNCHANGED <<boot, limit, world>>

\* The round is over, and with it its variables.
LoopEnds ==
    /\ rpc = "loop"
    /\ ~Wanted
    /\ rpc' = "top"
    /\ connect' = <<>>
    /\ attempts' = 0
    /\ limit' = 0
    /\ alts' = {}
    /\ UNCHANGED <<boot, cur, wait, world, lag>>

-----------------------------------------------------------------------------
(* Around the loop. *)

local == <<rpc, boot, connect, attempts, limit, cur, alts, lag>>

\* manageOnline adds a dialed peer to the store.
Online(e) ==
    /\ ~wedged
    /\ e \in online
    /\ online' = online \ {e}
    /\ connected' = connected \cup {e}
    /\ outgoing' = outgoing \cup {e}
    /\ UNCHANGED <<local, wait, seedUp, cache, ttl, reseedIn, wedged, banned>>

\* A connection comes in, and its peer is added to the store, in the place of one
\* with the same hash.  A node that dials itself is its own peer here for a moment.
Incoming(e) ==
    /\ ~wedged
    /\ connected' = connected \cup {e}
    /\ outgoing' = outgoing \ {e}
    /\ UNCHANGED <<local, wait, seedUp, cache, ttl, reseedIn, wedged, online, banned>>

\* A connection ends, or is dropped by a cat round or a ban.
Lost(e) ==
    /\ ~wedged
    /\ e \in connected
    /\ connected' = connected \ {e}
    /\ outgoing' = outgoing \ {e}
    /\ UNCHANGED <<local, wait, seedUp, cache, ttl, reseedIn, wedged, online, banned>>

\* manageOnline replaces a peer of the store and waits in its Stop for room in the
\* status channel, which only it could make.
Wedge ==
    /\ ~wedged
    /\ connected # {}
    /\ wedged' = TRUE
    /\ UNCHANGED <<local, wait, seedUp, cache, ttl, reseedIn, connected, outgoing, online,
                   banned>>

\* The application bans a peer, for a time; the peer is stopped, see Lost.
Ban(e) ==
    /\ e \in connected \ Good
    /\ banned' = banned \cup {e}
    /\ UNCHANGED <<local, wait, seedUp, cache, ttl, reseedIn, store, online>>

\* A ban ends.  That of an own endpoint may do so before its 50 years, when ban has
\* put a shorter one in its place.
BanEnds(e) ==
    /\ e \in banned
    /\ banned' = banned \ {e}
    /\ UNCHANGED <<local, wait, seedUp, cache, ttl, reseedIn, store, online>>

SeedRecovers ==
    /\ ~seedUp
    /\ seedUp' = TRUE
    /\ UNCHANGED <<local, wait, cache, ttl, reseedIn, store, online, banned>>

Less(n) == IF n = 0 THEN 0 ELSE n - 1

Tick ==
    /\ wait' = [e \in Endpoint |-> Less(wait[e])]
    /\ ttl' = Less(ttl)
    /\ reseedIn' = Less(reseedIn)
    /\ UNCHANGED <<local, seedUp, cache, store, online, banned>>

Outcome ==
    \E e \in cur :
        \/ DialSucceeds(e)
        \/ \E found \in SUBSET (Endpoint \ {e}) : DialRejected(e, found)
        \/ DialFails(e)
        \/ DialLoops(e)
        \/ DialHangs(e)

Loop ==
    \/ \E e \in boot : Bootstrap(e)
    \/ BootstrapEnds
    \/ Top
    \/ SeedStep
    \/ SeedHangs
    \/ Share
    \/ ShareHangs
    \/ LoopDial
    \/ LoopEnds
    \/ Outcome

Next ==
    \/ Loop
    \/ \E e \in Endpoint : Online(e) \/ Incoming(e) \/ Lost(e) \/ Ban(e) \/ BanEnds(e)
    \/ Wedge
    \/ SeedRecovers
    \/ Tick

Spec == Init /\ [][Next]_vars

\* The loop and manageOnline run as long as they are not stuck, time passes, and the
\* seed server comes back; nobody has to connect to us, and connections need not end.
FairSpec ==
    /\ Spec
    /\ WF_vars(Loop)
    /\ \A e \in Endpoint : WF_vars(Online(e))
    /\ WF_vars(SeedRecovers)
    /\ WF_vars(Tick)

-----------------------------------------------------------------------------
\* The dialed peers, in the store and on their way to it, exceed TargetPeers by no
\* more than the number that were on their way when the loop dialed on, whatever
\* comes in, is replaced, banned or lost meanwhile; after a restart there may be as
\* many as the peer file lists, since the bootstrap does not look at the target
\* (controller_cat.go, catReplenish; controller_connections.go, manageOnline).
DialOvershoot ==
    LET dialed == Cardinality(outgoing \cup online)
    IN  dialed <= TargetPeers + lag \/ dialed <= Cardinality(Cached)

\* The loop hangs for good, or manageOnline does.
Halted == rpc = "hung" \/ wedged

\* A node whose store is empty finds its way back: as long as some seed accepts
\* connections it gets a peer, also if the seed server was down at first and the
\* empty answer was cached, unless the loop or manageOnline is stuck in one of the
\* ways this module names (controller_cat.go, catReplenish; seed.go).
NeverIsolated == connected = {} ~> connected # {} \/ Halted

\* Endpoints offered by a node that rejects us go to the list of endpoints to dial
\* (controller_cat.go: "Random new peers from peers rejecting our connection").
AlternativesUsed == rpc = "loop" => alts \subseteq Range(connect)

\* The loop does not dial beyond the target (README.md: "It dials to the list
\* sequentially until either 32 connections are reached").
DialsBelowTarget ==
    [][rpc = "loop" /\ rpc' = "dial" => Cardinality(connected \cup online) < TargetPeers]_vars

=============================================================================
