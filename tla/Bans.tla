-------------------------------- MODULE Bans --------------------------------
(***************************************************************************)
(* Bans of one node (controller.go), the peer file that carries them over  *)
(* a restart (controller_persistence.go, newController), and the checks of *)
(* connections against them (allowIncoming, canDial), with a clock.        *)
(*                                                                         *)
(* A connection is checked before its handshake and becomes a peer after   *)
(* it; Network.Ban runs in a goroutine of its own, which looks the peer up *)
(* before it takes the mutex of the bans.  The cat round writes the file,  *)
(* which is truncated first; opening and writing it may fail, and the      *)
(* process may crash at any time.                                          *)
(***************************************************************************)
EXTENDS Integers, FiniteSets

CONSTANTS
    Conn,        \* connections to other nodes
    Dialed,      \* those that this node dials
    Self,        \* those that turn out to lead to the node itself
    IP,          \* ip addresses
    Endpoint,    \* endpoints, ip:port
    IpOf,        \* ip of a connection
    EpOf,        \* endpoint of a connection
    Banner,      \* goroutines that run ban
    Duration,    \* values of conf.ManualBan; it may change with a restart
    CacheAge,    \* conf.PeerCacheAge
    Forever,     \* the 50 years of a loopback ban
    MaxTime      \* bound: the clock stops here

ASSUME BansAssumption ==
    /\ IsFiniteSet(Conn)
    /\ Dialed \subseteq Conn
    /\ Self \subseteq Dialed
    /\ IpOf \in [Conn -> IP]
    /\ EpOf \in [Conn -> Endpoint]
    /\ IP \cap Endpoint = {}
    /\ Duration \subseteq Nat \ {0}
    /\ CacheAge \in Nat
    /\ Forever \in Nat
    /\ MaxTime \in Nat

VARIABLES
    now,         \* the clock
    up,          \* the process runs
    manualBan,   \* conf.ManualBan
    bans,        \* address -> end of its ban, 0 if it has none
    conn,        \* per connection: "off", "checked", "peer" or "stopped"
    banner,      \* per goroutine: the peers (one or none) it is about to ban
    writing,     \* the cat round is between truncating and writing the file
    cache,       \* the PeerCache it writes: [bans, peers]
    file,        \* the peer file: [whole, bans, peers, time]
    bootstrap,   \* the endpoints loaded at startup
    loadAge,     \* the age of the file when they were loaded
    mustGo,      \* peers that some ban has to stop
    intruders,   \* peers made while their ip was banned
    durable      \* address -> end of the longest ban saved since the last time
                 \* a write of the file was cut off

vars == <<now, up, manualBan, bans, conn, banner, writing, cache, file, bootstrap,
          loadAge, mustGo, intruders, durable>>

Addr == IP \cup Endpoint
NoBans == [a \in Addr |-> 0]
Stored(c) == conn[c] \in {"peer", "stopped"}
Max2(m, n) == IF m >= n THEN m ELSE n

Init ==
    /\ now = 1
    /\ up = TRUE
    /\ manualBan \in Duration
    /\ bans = NoBans
    /\ conn = [c \in Conn |-> "off"]
    /\ banner = [b \in Banner |-> {}]
    /\ writing = FALSE
    /\ cache = [bans |-> NoBans, peers |-> {}]
    /\ file = [whole |-> FALSE, bans |-> NoBans, peers |-> {}, time |-> 0]
    /\ bootstrap = {}
    /\ loadAge = 0
    /\ mustGo = {}
    /\ intruders = {}
    /\ durable = NoBans

Tick ==
    /\ now < MaxTime
    /\ now' = now + 1
    /\ UNCHANGED <<up, manualBan, bans, conn, banner, writing, cache, file, bootstrap,
                   loadAge, mustGo, intruders, durable>>

-----------------------------------------------------------------------------
(* Connections. *)

\* isBannedIP and isBannedEndpoint.
Banned(a) == now < bans[a]

\* allowIncoming for an incoming connection, whose listening port is not known
\* yet; canDial for one that is dialed.
Check(c) ==
    /\ up
    /\ conn[c] = "off"
    /\ ~Banned(IpOf[c])
    /\ c \in Dialed => ~Banned(EpOf[c])
    /\ conn' = [conn EXCEPT ![c] = "checked"]
    /\ UNCHANGED <<now, up, manualBan, bans, banner, writing, cache, file, bootstrap,
                   loadAge, mustGo, intruders, durable>>

\* The handshake succeeds and the peer is added to the store.
Join(c) ==
    /\ conn[c] = "checked"
    /\ c \notin Self
    /\ conn' = [conn EXCEPT ![c] = "peer"]
    /\ intruders' = IF Banned(IpOf[c]) THEN intruders \cup {c} ELSE intruders
    /\ UNCHANGED <<now, up, manualBan, bans, banner, writing, cache, file, bootstrap,
                   loadAge, mustGo, durable>>

\* The handshake shows that the node dialed itself: banEndpoint, which also stops
\* the peers with that endpoint.
JoinSelf(c) ==
    /\ conn[c] = "checked"
    /\ c \in Self
    /\ bans' = [bans EXCEPT ![EpOf[c]] = now + Forever]
    /\ conn' = [d \in Conn |->
                  IF d = c THEN "off"
                  ELSE IF EpOf[d] = EpOf[c] /\ conn[d] = "peer" THEN "stopped"
                  ELSE conn[d]]
    /\ UNCHANGED <<now, up, manualBan, banner, writing, cache, file, bootstrap,
                   loadAge, mustGo, intruders, durable>>

\* The handshake fails, or the connection ends and its peer leaves the store.
Leave(c) ==
    /\ conn[c] # "off"
    /\ conn' = [conn EXCEPT ![c] = "off"]
    /\ mustGo' = mustGo \ {c}
    /\ intruders' = intruders \ {c}
    /\ UNCHANGED <<now, up, manualBan, bans, banner, writing, cache, file, bootstrap,
                   loadAge, durable>>

-----------------------------------------------------------------------------
(* ban. *)

\* The goroutine of Network.Ban finds the peer in the store.
BanGet(b, c) ==
    /\ up
    /\ banner[b] = {}
    /\ Stored(c)
    /\ banner' = [banner EXCEPT ![b] = {c}]
    /\ UNCHANGED <<now, up, manualBan, bans, conn, writing, cache, file, bootstrap,
                   loadAge, mustGo, intruders, durable>>

\* Under the mutex: the ban of both keys, in which a longer ban of the ip that is
\* in place is kept.  The loop over the peers with that ip stops the banned peer
\* every time.
BanApply(b, c) ==
    LET end  == Max2(now + manualBan, bans[IpOf[c]])
        same == {d \in Conn : Stored(d) /\ IpOf[d] = IpOf[c]}
    IN  /\ c \in banner[b]
        /\ bans' = [bans EXCEPT ![IpOf[c]] = end, ![EpOf[c]] = end]
        /\ conn' = [conn EXCEPT ![c] = IF same # {} /\ @ = "peer" THEN "stopped" ELSE @]
        /\ mustGo' = mustGo \cup {d \in same : conn[d] = "peer"}
        /\ banner' = [banner EXCEPT ![b] = {}]
        /\ UNCHANGED <<now, up, manualBan, writing, cache, file, bootstrap,
                       loadAge, intruders, durable>>

-----------------------------------------------------------------------------
(* The cat round and the peer file. *)

\* createPeerCache deletes the bans that have ended.
Ongoing == [a \in Addr |-> IF bans[a] < now THEN 0 ELSE bans[a]]

\* As CacheBegin, but keeping the bans that have ended and deleting the others.
CacheBeginInverted ==
    LET live == [a \in Addr |-> IF now < bans[a] THEN 0 ELSE bans[a]]
    IN  /\ up
        /\ ~writing
        /\ writing' = TRUE
        /\ bans' = live
        /\ cache' = [bans |-> live, peers |-> {EpOf[c] : c \in {d \in Conn : Stored(d)}}]
        /\ file' = [file EXCEPT !.whole = FALSE]
        /\ UNCHANGED <<now, up, manualBan, conn, banner, bootstrap, loadAge, mustGo,
                       intruders, durable>>

\* createPeerCache, which also deletes the bans that have ended, and the start of
\* WriteFile, which truncates the file.
CacheBegin ==
    /\ up
    /\ ~writing
    /\ writing' = TRUE
    /\ bans' = Ongoing
    /\ cache' = [bans |-> Ongoing, peers |-> {EpOf[c] : c \in {d \in Conn : Stored(d)}}]
    /\ file' = [file EXCEPT !.whole = FALSE]
    /\ UNCHANGED <<now, up, manualBan, conn, banner, bootstrap, loadAge, mustGo,
                   intruders, durable>>

\* createPeerCache, after which WriteFile cannot open the file.  The error is only
\* logged, and the file is as before.
CacheUnopened ==
    /\ up
    /\ ~writing
    /\ bans' = Ongoing
    /\ UNCHANGED <<now, up, manualBan, conn, banner, writing, cache, file, bootstrap,
                   loadAge, mustGo, intruders, durable>>

\* The data is in the file.
CacheEnd ==
    /\ writing
    /\ writing' = FALSE
    /\ file' = [whole |-> TRUE, bans |-> cache.bans, peers |-> cache.peers, time |-> now]
    /\ durable' = [a \in Addr |-> Max2(durable[a], cache.bans[a])]
    /\ cache' = [bans |-> NoBans, peers |-> {}]
    /\ UNCHANGED <<now, up, manualBan, bans, conn, banner, bootstrap, loadAge,
                   mustGo, intruders>>

\* WriteFile fails once the file is truncated.  The error is only logged: the
\* process goes on, and what the file held before is lost.
CacheCutOff ==
    /\ writing
    /\ writing' = FALSE
    /\ durable' = NoBans
    /\ cache' = [bans |-> NoBans, peers |-> {}]
    /\ UNCHANGED <<now, up, manualBan, bans, conn, banner, file, bootstrap, loadAge,
                   mustGo, intruders>>

\* The process ends; if it was writing, what the file held before is lost.
Crash ==
    /\ up
    /\ up' = FALSE
    /\ conn' = [c \in Conn |-> "off"]
    /\ banner' = [b \in Banner |-> {}]
    /\ writing' = FALSE
    /\ mustGo' = {}
    /\ intruders' = {}
    /\ durable' = IF writing THEN NoBans ELSE durable
    /\ bans' = NoBans
    /\ cache' = [bans |-> NoBans, peers |-> {}]
    /\ bootstrap' = {}
    /\ loadAge' = 0
    /\ UNCHANGED <<now, manualBan, file>>

\* As Restart, but starting without bans.
RestartForgets ==
    /\ ~up
    /\ up' = TRUE
    /\ manualBan' \in Duration
    /\ bans' = NoBans
    /\ bootstrap' = file.peers
    /\ loadAge' = now - file.time
    /\ UNCHANGED <<now, conn, banner, writing, cache, file, mustGo, intruders, durable>>

\* newController loads the file, without the bans that have ended; a file that
\* cannot be parsed is ignored.
Restart ==
    /\ ~up
    /\ up' = TRUE
    /\ manualBan' \in Duration
    /\ IF file.whole
         THEN /\ bans' = [a \in Addr |-> IF file.bans[a] < now THEN 0 ELSE file.bans[a]]
              /\ bootstrap' = file.peers
              /\ loadAge' = now - file.time
         ELSE /\ bans' = NoBans
              /\ bootstrap' = {}
              /\ loadAge' = 0
    /\ UNCHANGED <<now, conn, banner, writing, cache, file, mustGo, intruders, durable>>

Next ==
    \/ Tick
    \/ \E c \in Conn :
        \/ Check(c)
        \/ Join(c)
        \/ JoinSelf(c)
        \/ Leave(c)
        \/ \E b \in Banner : BanGet(b, c) \/ BanApply(b, c)
    \/ CacheBegin
    \/ CacheUnopened
    \/ CacheEnd
    \/ CacheCutOff
    \/ Crash
    \/ Restart

Spec == Init /\ [][Next]_vars

-----------------------------------------------------------------------------
\* While the process runs, no step makes the ban of an ip end earlier: not a second
\* ban of the same ip, by the same or another peer, and not the clean-up of the cat
\* round (controller.go, ban; controller_persistence.go, createPeerCache).  The ban
\* of an endpoint may get shorter: ban compares only with the ban of the ip.
BansHold ==
    [][\A a \in IP : up /\ up' /\ now < bans[a] => bans'[a] >= bans[a]]_vars

\* A ban that a cat round has saved is in force again after a restart, until it
\* ends, unless a later round truncated the file and then the process died or the
\* write failed, before another round saved the ban again; a file that cannot be
\* opened does no harm (controller_persistence.go, createPeerCache, WriteToFile
\* and loadPeerCache; controller_cat.go, runCatRound).
DurableBans ==
    up => \A a \in IP : now < durable[a] => Banned(a)

\* A ban stops every peer of the banned ip (controller.go, ban: "bans the peer
\* indicated by the hash as well as any other peer from that ip address").
BanStopsAll == \A c \in mustGo : conn[c] # "peer"

\* No connection is established to a banned ip (network.go, Ban: "prevents any
\* connection being established for the amount of time set in the configuration").
NoPeerWhileBanned == intruders = {}

\* A peer file older than the limit is not used to bootstrap (configuration.go,
\* PeerCacheAge: "the maximum age of the peer file to try and bootstrap peers from").
OldFileIgnored == bootstrap # {} => loadAge <= CacheAge

=============================================================================
