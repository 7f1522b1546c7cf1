# factom-p2p in TLA+

TLA+ modules of the node in `src/` (package `p2p`), the TLC runs that check them
on small instances, and TLAPS proofs of theorems that hold for every instance.

## The system

A node keeps TCP connections to other nodes and passes parcels between them and
its application. It is one `Network` with one `controller`, and one `Peer` per
connection. Goroutines: `run` (once a second: cat round, metrics, ping),
`manageData` (parcels from all peers), `manageOnline` (peers coming and going),
`listen`, one handshake goroutine per incoming connection, `catReplenish` (dials),
`route` (parcels to the peers), two loops per peer (`readLoop`, `sendLoop`), one
clean-up per resend filter, and goroutines started for bans, disconnects, pongs and
peer shares. They meet on channels (`peerStatus`, `peerData`, `toNetwork`,
`fromNetwork`, one send channel per peer, one channel per peer request), on
mutexes, and on two kinds of stop channel (of the network and of a peer).

| Part | State | Operations | Hard behaviour | Correct when |
|---|---|---|---|---|
| Peer store | map by hash, counters per address and direction, cached slice | Add, Remove, Get, Slice, counts | Slice gives up its lock between two looks; remove by pointer, not by hash | counters and slice always agree with the map |
| Peer lifecycle | stop channel and Once of a peer, status channel, store | newPeer, Stop, online and offline notices, replacement, Network.Stop | Stop called by six kinds of goroutine; notices out of order; the receiver of a full channel sends on it | live peers stay in the store, stopped ones leave it, nobody hangs |
| Parcel channel, sending | Go channel, drop loop; stop and close of a peer | Send, Peer.Send, sendLoop | two senders drop at once; the channel is closed under a sender | order kept, nothing lost uncounted, no sender left behind |
| Peer requests | map of waiting calls, its mutex, one channel per call | asyncPeerRequest, manageData | late and unasked answers, time-outs, lock held while sending | an answer is from the peer that was asked; calls end |
| Handshake, protocols | protocol, gob encoder and decoder of each side | incoming and outgoing handshake, detection, rejection | mixed versions, downgrade, second encoder, half-open connections | both sides agree on something both can read, or give up |
| Resend filter | ring of buckets | Add, Has, turning | lookups during additions; index 0 | a hash is remembered for the promised time |
| Routing | parcel, selection | broadcast, full broadcast, random, one peer | special peers and filters change during the selection | special peers and the fanout are served, no echo |
| Bans, peer file | ban map, file | ban, banEndpoint, checks, cat round, restart | ban during a handshake; crash or error while writing | bans hold until they end, also over a restart |
| Replenish, dialer, seed | list to dial, attempts, seed cache | one round of the loop, Dial | peers enter the store late; seed empty; self-dialing; calls that never return | the node does not stay isolated, and does not dial far beyond its target |
| Limiter, listen loop, checks | history of attempts, configuration | Accept, allowIncoming, rejection | boundary of the time limit; checks and handshakes of several connections at once, replacements in between; special addresses that change | the rate limit is exact, the connection limits are exceeded by the concurrent handshakes at most |
| Cat round, run loop | list of peers, time of the last round | drop peers, write the peer file, ping, metrics | the list is stale while it is gone through, and special peers change | a round leaves no more than DropTo of the peers it listed, or only special ones |
| Receiving | `peerData`, `fromNetwork`, resend filter | readLoop, deliver, manageData, Reader | one goroutine serves all peers and sends on two channels; the application is slow or gone | everything delivered is handled; the filter knows a message before the application does |
| Two nodes | a connection and its two ends, a store each | dial, accept, replace, stop | both dial at once; stopping one end stops the other | one connection is left at most, the same in both stores |

## Modules

Each module's header says what it leaves out. A shared variable, a Go channel or
a goroutine's place in its code is one variable; a step is what happens between
two places where another goroutine can interfere (a critical section, a channel
operation, one turn of a loop over peers). Ghost variables, which no action reads
to decide anything, are named below. Operators whose comment begins with "As X, but" are
mutations of X: TLC must find a property violated when one replaces X.

* **PeerObjects** peers, hashes, and the map of the store.
* **PeerStore** implements **PeerRegistry**, its abstract specification: only the
  map, with every answer computed from it. Each critical section of `peerStore.go`
  is an action; `SliceMiss` and `SliceRebuild` are the two of `Slice`. `num` and
  `handed` hold what the methods return until the caller is done with it (`Forget`).
* **Limiter** is `limiter.go` with a clock. Ghost: `accepted`.
* **Configuration** is what `NewNetwork` makes of a configuration: `CheckConf` is
  `Check`, `Sanitize` is `Sanitize`, over records of the fields that matter.
* **Admission** composes PeerStore, Limiter and Configuration with the listen loop
  (`Accept` to `ListenEnds`), `allowIncoming` (`RefusedBan` to `CheckIp`; reading the
  number of peers and looking up the special ips are two steps, `CheckMax` and
  `CheckSpecial`), rejection (`CollectShare`, `RejectWithShare`), handshakes,
  `manageOnline` (`TakeOnline` to `NoticeDone`), the cat round (`CatRound` to `CatDrop`;
  a turn of its loop, the look at the special endpoints and the Stop, is one step) and
  `Network.SetSpecial` (`SetSpecial`) at any time. `stage` is where a
  connection's goroutine is; every access to the store is an action of PeerStore by
  the goroutine that makes it. Ghosts: `width`, the most admissions at one time;
  `waived`, the peers let in above the maximum because their ip was special then;
  `cat.seen`, the addresses that were special at some time of the round.
* **PeerLifecycle** extends PeerObjects. `EnterStop`, `NotifyOffline` and
  `WaitStopped` are `Peer.Stop` with its `sync.Once`; `NewPeer`, `Announce` the end
  of a handshake; `LeaveLoop` the end of a read or send loop; `CtlPick`, `CtlStop` a
  cat round, ban or disconnect; `RemoveOffline` to `ManagerEnd` are `manageOnline`.
* **ParcelChannel** is `ParcelChannel.Send` step by step: first select
  (`SendOk`, `SendFull`), condition and body of the drop loop (`Check`, `Take`),
  second select (`Retry`). Ghosts: `seen`, `accepted`, `refused`, `received`, `reported`.
* **PeerSend** composes ParcelChannel with `Peer.Send`, `sendLoop` and the close
  of the send channel. A receive from the closed channel yields nil at once, a send panics.
* **PeerShare** is `asyncPeerRequest` against the peer responses in `manageData`.
  `ReadLocked` is the read lock of `shareMtx`; the write-locked sections are atomic.
* **Handshake** has a dialer and a listener with all configurations of version,
  minimum version, network and listen port, one connection, and one parcel from each peer
  afterwards. Each protocol has its operators (`V9SendHandshake`, `V11Receive`, ...).
  Gob is modelled by what matters here: an encoder sends the definition of a type
  once, and a decoder fails on a missing or repeated one. A broken connection leaves
  any prefix of what was sent, its last message possibly cut short. The peer request
  a version 9 handshake stands for is in Receive. Ghosts: `garbled`, `refused`.
* **PeerHashCache** is the ring of `peerHashCache.go`. Ghosts: `had`, `age`.
* **Receive** composes PeerShare and PeerHashCache: the read loop of one peer
  (`ReadMessage` to `PeerStops`), all cases of `manageData` (`HandleOther`,
  `HandleResponse`, `HandleMessage`) and its send on `fromNetwork` (`DropCheck`,
  `DropTake`, `SendAgain`: ParcelChannel's steps with one sender), the application
  (`AppReads`). The end of `manageData` with `Network.Stop` is left out. Ghosts: `got`,
  `since`.
* **Mesh** has two nodes, the connections between them, and a peer at each end of
  a connection. A node's steps are those of PeerLifecycle, coarser (replacing a peer
  is one step, `peerStatus` has room); in exchange, closing a connection stops the
  peer at its other end.
* **Routing** is `route` with its selection functions, one peer per step. The
  resend filters are sets here (their ring is PeerHashCache), the special peers a
  set. Ghosts: `listed`, `knew`, `clean`, `steady`.
* **Bans** has a clock, the ban map, connections between check and store, the
  goroutines of `Network.Ban`, the peer file with its truncation, crash and restart.
  `CacheUnopened` and `CacheCutOff` are the two ways in which `WriteFile` fails, before
  and after the truncation; the error is only logged.
  Ghosts: `loadAge`, `mustGo`, `intruders`, `durable`.
* **Replenish** is `catReplenish` with `Dialer`, `seed` and `Dial`. Times are
  countdowns. Reading the size of the seed and its contents is one step. `alts`
  is what the last dial returned. A share is any set of endpoints, from which
  `ProcessPeerShare` and `ShuffleTrimShare` choose. `DialHangs`, `SeedHangs` and
  `ShareHangs` are the calls that may never return, `Wedge` is the wedged `manageOnline`
  of PeerLifecycle. The own endpoint may be stored (the listening end of a self-dial),
  rejected, and its ban replaced by a shorter one. Ghost: `lag`, the most dialed peers
  that were on their way to the store when the loop dialed another one.
* **MC...** modules give the constants values; **...Proofs** modules hold theorems.

## Runs

| Run | Configuration | Shows |
|---|---|---|
| `admission` | 3 peers on one ip, 2 of them (incoming, dialed) with one hash; three configurations, one of which Check refuses; special addresses set and cleared | counters and slice exact under all the callers the node has, store implements PeerRegistry; exact rate limit; overshoot bounded; cat rounds trim |
| `peer_lifecycle` | 2 connections with one hash (dialed, incoming), 1 controller goroutine, status channel of 1 | live peers routed, stopped ones leave, Stop and the announcement of a peer return, shutdown completes |
| `peer_send` | 2 senders with 4 calls each, capacity 3 | order, count; after the stop no sender is left behind but in the drop loop on an empty channel |
| `handshake` | all pairs of configurations over versions and minimum versions 9 to 11, 2 networks and the ports 0, 1, 65535 and 65536 | agreement, readable streams, no needless refusal, no self-peer, no half-open peer |
| `receive` | 2 peers, one followed, 1 request each and 1 unasked response, 2 other parcels, channels of 1, 2 buckets, 1 lookup | answers come from the peer that was asked; seen messages are filtered, exact window; manageData goes on |
| `mesh` | 3 connections, 2 dialed by one node and 1 by the other, 1 that may break | one connection left, the same for both nodes |
| `routing` | 3 peers, 1 payload, fanout 1, symmetric peers | reach and echo of broadcasts |
| `bans` | 2 connections with one ip, ban durations 1 and 2, clock to 4 | bans of an ip hold and survive restarts, unless a write was cut off |
| `replenish` | a reliable, an unreliable and the node's own endpoint, target 1, one endpoint in the peer file | never isolated for good unless it hangs; overshoot of the dials bounded |
| `share_deadlock`, `send_panics`, `ban_misses_peers` | see Disagreements | violated |

Bounds. The named bounds are `MaxCalls`, `PerPeer`, `Unasked`, `MaxParcels`,
`MaxTime` and `Fragile`. Two
connections with one hash are the smallest case with a replacement, and a status
channel of 1 instead of 10 lets two peers fill it, so that the cases where callers
wait on it happen (the runs with 2 give the same result). A channel of capacity 3
makes the drop loop run more than once. Two buckets separate the current one from
the oldest (the run with 3 buckets and 2 hashes, without the rest of Receive, gives
the same result, and the theorems hold for any number). Two incoming
peers against a maximum of one pass the check at once, or one of them is refused or let
in because its ip is special; with the dialed one the cat round has two to drop from. A
limit of one tick has attempts at age 0 and at exactly the limit; that hosts do not
disturb each other in the limiter's history is shown by `LimitAlwaysExact`, for any hosts.
The ports are both sides of both ends of the range. Three connections are the least with two dials of one
node, one of which breaks, and a dial from the other side. Fanout 1 with 3 peers separates "fits", "more than fits" and "special".
The clock runs over two ban durations and a restart. `UintRange` (2^64) is 8: only
that the predecessor of 0 is larger than any number of peers matters. Deadlock is not
checked where the environment may do nothing more (the bounds are used up, nobody
connects); hanging goroutines are excluded by liveness properties instead.

Fairness. Goroutines that can run do (weak fairness per goroutine and step), as
the Go scheduler guarantees; a closed connection or stop channel is noticed; the
time-out of a peer request fires. Not fair is what waits for something that may never
come: the close of a send channel, which comes after a Stop that may hang (`LoopCloses`),
the handshakes in Handshake, and in Replenish the steps of a loop or `manageOnline` that
hangs. `DataServed` assumes fairness of `manageData` as a whole and of a
call under way; the application never has to read. In Mesh nothing makes a node
dial. Nothing is assumed of other nodes, of the application, or of
connections failing, except in `NeverIsolated`: some seed accepts every connection
and is not banned (`Good`), and the seed server answers in the end.

## Disagreements between the code and what it says of itself

Three runs show one each:

* `share_deadlock`: `manageData` and a peer request block each other for good
  when the same peer's second response arrives in time (`controller_routing.go:100`).
* `send_panics`: `Peer.Send` may send on the closed channel (`peer.go:117`, `214`).
* `ban_misses_peers`: `ban` stops only the named peer (`controller.go:115`, `peer`
  for `p`).

The properties below are in the modules too. TLC refutes each of them when it is
put in place of the properties of the configuration named:

* `ReplenishEnds` (`MCPeerLifecycle.cfg`): after `Network.Stop` the online
  notice of a dialed peer may wait forever (`controller_connections.go:264`).
  `controller_cat_test.go:175`: "the replenish loop will terminate when the
  network stops".
* `StoppedLeave` without `<>Overtaken(p)`: a connection that fails before its
  peer is announced is stored for good (`controller_connections.go:264`), until
  another connection with the same hash replaces it.
* `StopReturns` and `AnnounceReturns` without `Wedged`: `manageOnline` waits for itself
  (`controller_connections.go:26`), with it every peer that stops. It takes as many
  notices as the channel holds while one peer is replaced.
* `NonBlocking` (module ParcelChannel, `ChanFairSpec`, 2 senders, capacity 2):
  the receive in the drop loop waits if the channel was emptied after the check
  (`parcelChannel.go:25`). The comment says "Non-blocking."
* `NewestKept` (`MCPeerSend.cfg`): with two senders Send may refuse the new
  parcel. `network.go:173`: "older messages are dropped first". With one sender
  this cannot happen: proved.
* `NoPeerWhileBanned` (`MCBans.cfg`): a ban during a handshake does not stop it
  (`controller_connections.go:85`). `network.go:138`: "prevents any connection
  being established".
* `OldFileIgnored` (`MCBans.cfg`): `PeerCacheAge` is never used. `configuration.go:47`:
  "the maximum age of the peer file to try and bootstrap peers from".
* `EmptyBroadcasts` (`MCRouting.cfg`, fanout 2): an empty address means a random
  peer. `parcel.go:29`: `"" or nil for broadcast`.
* `AlternativesUsed` (`MCReplenish.cfg`): `Dial` returns alternatives only without
  a peer and the loop uses them only with one (`controller_cat.go:256`). `README.md:98`
  of the repository: "the alternatives are added to the list".
* `DialsBelowTarget` (`MCReplenish.cfg`): dialed peers that are not in
  the store yet are not counted (`controller_cat.go:246`); `DialOvershoot` says how many
  that can be.
* `DataServed` without `Stuck` (`MCReceive.cfg`): the send on `fromNetwork` waits in
  its drop loop when the application has emptied the channel (`parcelChannel.go:25`),
  and with it every peer, until the next message would have come; the other case is
  `share_deadlock`.
* `OvershootBounded` with `width` 0 (`MCAdmission.cfg`): concurrent handshakes
  exceed `MaxIncoming` and, dialed peers apart, nothing else enforces `MaxPeers`.
  `configuration.go:61` calls it a hard cap; the cat round trims later.
* `PeersCompatible` without `prot[s] = conf[s].version`: `Check` accepts a minimum
  version above the version, and a listener configured so downgrades a version 10
  dialer to 9, below its own minimum (`controller_connections.go:170`).
* Two nodes that dial each other at the same moment may each replace the other's
  connection, so that both are closed (module Mesh; `OneStaysOpen` with "= 1"
  fails); the replenish loops then dial again.

Read off the code without a property:

* `handshakeIncoming` says that a banned endpoint is "closed without alternatives"
  (`controller_connections.go:71`); it gets alternatives like any other rejection.
* `SetSpecial` says that endpoints are separated by semicolons (`network.go:154`);
  `parseSpecial` splits at commas (`util.go:77`). It also needs a port, where
  `configuration.go:41` says that an ip without a port makes the entire ip special.
* `PeerIPLimitOutgoing` is never used.
* `README.md:139` of the repository says that the listener replies "copying the loopback
  value" of the dialer; it sends its own (`controller_connections.go:99`), which is what
  makes the loopback test work.
* `Check` accepts any number as a port (`configuration.go:200`); with "0" or "900000",
  say, a node starts, and every other node refuses its handshakes
  (`handshake_test.go:37-40`). `NoSpuriousRefusal` names this case.
* `ban` compares the new end only with the ban of the ip ("there's a stronger ban in
  place already", `controller.go:104`), so that it can shorten the ban of an endpoint, the
  50 years after a self-dial among them. `BansHold` is about ips only.
* `WebScanner` uses `http.Get`, which has no timeout (`util.go:57`): a seed server that
  takes the request and never answers stops the replenish loop for good.

A crash or an error between truncating and writing the peer file loses every saved
ban, until the next cat round saves them again; `DurableBans` leaves out exactly these
two cases.

## Proofs

Every safety property of the passing runs, invariant, action property or refinement,
is a theorem for every value of the constants. The proofs start from the modules'
named assumptions only: finite sets, positive capacities, hashes and addresses of
peers, distinct goroutines, configurations with unsigned numbers
(`CandidatesAssumption`), and that "no parcel" is not a parcel
(`NoParcelAssumption`). TLC evaluates them in the runs.

* **AdmissionProofs**, four parts that build on each other.
  * PeerStore: `TypeCorrect`, `CountersAlwaysExact`, `SliceAlwaysFresh`, and
    `StoreImplementsRegistry`. The inductive invariant is the conjunction of the
    first three: a count is exact after a removal because it was exact before and
    the removed peer was counted once, and a rebuilt slice is the map's. The refinement
    maps each method to the registry's and the cache's steps to stutters or answers.
  * Limiter: `LimitAlwaysExact`. The invariant `HistoryExact`: the history is
    in order of time, so that cutting a prefix cuts exactly what is too old; its
    entries are accepted attempts; and the last attempt of every host that is in range
    is still in it. Resetting the history when the last connection is too old is
    harmless because no host's last attempt is younger than that.
  * The composition: `AdmissionTypeCorrect`, `AdmissionUsesStore`,
    `AdmissionLimitExact`. Every step is a step of the store or a stutter, and a step
    of the limiter or a stutter, so what is proved of the two alone holds here. The
    types are needed first: `manageOnline` hands a peer, never NoPeer, to Add and Remove.
  * The limits: `CatAlwaysTrims` from `CatInv`, an account of the round under way
    (`Trimming`): there is a set of peers that the round has stopped, which with those
    still to drop are as many as are too many, and the others it went past were special
    then. Which set that is cannot be read off the special addresses, since they change.
    `OvershootAlwaysBounded`
    from `LimitInv`: the property counts stored peers only, the invariant
    also those that passed the check and are on their way (`MaxLimited`,
    `IpLimited`). That set grows only in the check, where fewer than the limit are
    stored and the width counts the others; a peer that passes because its ip is special
    becomes `waived` and leaves the count of the maximum, whatever is special later. It also needs that a peer is added to the
    store once, from one online notice (`Queued`), else it would enter unchecked.
* **ReceiveProofs** `WindowAlways`, `HasAlwaysFinds` of the resend filter alone.
  `CacheInv` adds `Placed`: a hash that was last added k turns ago is in the bucket k
  places after the current one, and in none nearer; turning the ring moves every bucket
  one place on. The lemmas about `Ptr` (modulo arithmetic on the ring) carry the proof.
  Then the composition: `ReceiveImplementsCache`, `ReceiveTypeCorrect`,
  `AnswersAlwaysFromAsked` and `SeenAlwaysFiltered`. `ReceiveInv` ties the age of a
  message to that of its hash in the filter (`Reading`), so that the last theorem
  follows from `Window`; the response manageData holds is one of the call under way
  (`Calls`).
* **PeerLifecycleProofs** `TypeCorrect`, `LiveAlwaysRouted`, `AddAlwaysSucceeds`,
  `AlwaysOneNotice`. The second and third are not inductive. `IInv` adds: peers are filed
  under their own hash (`WellKeyed`); offline notices, Stops under way and replacements
  under way are about peers that are not fresh (`NoticeStopped`, `CallStopped`,
  `ManagerHolds`), so what they remove is never a live peer; and while a replacement is
  under way the hash is still held by the old peer, since only `manageOnline` writes the
  map. `SingleNotice` states `OneNotice` by pairs (two notices, two calls, or a notice
  and a call about one peer are the same), which the steps preserve one by one; the
  cardinalities follow from it.
* **ParcelChannelProofs** `OrderAlwaysKept`, `LoneSenderKeepsNewest`, `ChanTypeCorrect`,
  `AlwaysConserved`, and for the composition with the end of the peer
  `PeerSendTypeCorrect`, `PeerSendOrderKept`, `AlwaysCounted`. `IInv` adds that a parcel
  in the channel or received is older than its sender's call under way (`CallsAhead`) and
  that a lone sender finds room at its second select (`RetryHasRoom`). The steps of
  PeerSend are the channel's, except `TakeNil`. The sum of the dropped counts is stated
  as the cardinality of a set (`Held`), because what a sum over a set computes
  is an induction the provers cannot do: a dropped parcel adds one member, and a return
  takes the call's members out.
* **HandshakeProofs** `AlwaysSameProtocol`, `AlwaysCompatible`, `AlwaysReadable`,
  `NeverSpuriouslyRefused`, `NeverSelfPeer`. `HsInv` says how far the two sides have come
  (`Control`), what their checks have established by then (`Compatible`), which type
  definitions each encoder has sent and each decoder has learnt (`Encoders`), and all that
  can be under way between them, whole or cut off (`ListenerWire`, `DialerWire`). The
  agreed protocol is a function of the two configurations, which both ends reach. A
  handshake that a node of this program sends without rejecting has no alternatives, so
  that version, network and port are all that `Valid` can refuse it for.
* **RoutingProofs** `RoutingTypeCorrect`, `BroadcastAlwaysReaches`, `NeverEchoes`.
  `RoutingInv` adds where route is (`Control`), what the ghosts say of the filters and
  special peers (`Ghosts`), that no peer that has to be served is lost between filter,
  split and choice (`Kept`), and that none that has the message is selected at any point
  (`Unechoed`).
* **BansProofs** `BansAlwaysHold`, `BansAlwaysDurable`. A saved ban is, with its full
  length, in memory while the process runs (`SavedInMemory`), in the cache that is being
  written (`SavedInCache`), or else in a complete file (`SavedInFile`), so that a crash at
  any other point than within the write finds it. When a write is cut off nothing counts
  as saved any more; when the file cannot be opened, it is as before.
* **ReplenishProofs** `DialsAlwaysBounded`. `DialInv` adds that until the bootstrap is
  over everything dialed comes from the peer file, and that a dial of a round begins with
  at least one peer less than the bound: the store is below the target then, and `lag`
  counts those on their way. Whatever else happens only moves dialed peers into the store
  or takes them out.

Only model-checked: liveness, which with ENABLED is outside the prover's reach
(`DataServed`, `StoresAgree`, `OneStaysOpen`, `StopReturns`, `StoppedLeave`,
`AnnounceReturns`, `ShutdownCompletes`, `SendReleased`, `HalfOpenEnds`,
`NeverIsolated`). The invariants named above were also checked by TLC, on the instances of the
runs.

## Not modelled

Payloads, checksums, message parts and the encodings beyond what decides whether
a stream can be read, the encodings of shares among them; logging, metrics,
Prometheus and the debug page; pings, which are one more sender in PeerSend; the
interval a peer has to keep between its requests (`controller_routing.go:90`); the
answers to pings and peer requests, sent by goroutines of their own; parsing of
addresses; the defaults of the configuration; generated code.

## Plan

Done: PeerStore, PeerLifecycle, ParcelChannel and PeerSend, PeerShare, Handshake,
PeerHashCache, Routing, Bans, Replenish; then Limiter, Configuration and Admission,
Receive, Mesh, and broken messages in Handshake.

Next, modules: `Network.Stop` called twice at once; the interval between peer
requests, with the jitter between the sender's clock and the receiver's.

Next, theorems: the refinement of PeerRegistry by PeerLifecycle's map; what holds of
Mesh's connections step by step, beneath its liveness (a store only holds connections
of its node, an end that is down stays down).
