--------------------------- MODULE PeerLifecycle ----------------------------
(***************************************************************************)
(* The life of a connection inside one node, from the end of its handshake *)
(* to its removal from the peer store.                                     *)
(*                                                                         *)
(* newPeer starts the read and the send loop of a peer; the goroutine that *)
(* did the handshake then announces the peer on the status channel.        *)
(* manageOnline alone receives from that channel and alone writes the peer *)
(* store.  Peer.Stop may be called by either loop, by the controller       *)
(* (a cat round, a ban, a disconnect) and by manageOnline itself when a    *)
(* new connection replaces an old one with the same hash; a sync.Once lets *)
(* the first caller run, and that caller sends the offline notice.         *)
(*                                                                         *)
(* Left out: what the loops read and write, and the counters of the store  *)
(* (module PeerStore, of which only the map is kept here).                 *)
(***************************************************************************)
EXTENDS PeerObjects, Sequences

CONSTANTS
    Dialed,      \* the peers whose handshake the replenish loop performs
    Ctl,         \* goroutines of the controller that stop stored peers
    StatusCap    \* the capacity of peerStatus, 10 in the code

ASSUME LifecycleAssumption ==
    /\ Dialed \subseteq Peer
    /\ StatusCap \in Nat \ {0}

VARIABLES
    hs,          \* per peer: its handshake is "pending", "made" or "announced"
    once,        \* per peer: its stopper is "fresh", "busy" or "done"
    pc,          \* per goroutine: where it is
    call,        \* per goroutine: "none", or where it is inside Peer.Stop
    target,      \* per goroutine: the peer it stops, or is about to stop, or nil
    peerStatus,  \* the status channel: notices [peer, online]
    registry,    \* the peer store's map
    cur,         \* the peer whose online notice manageOnline handles, or nil
    old,         \* the peer it replaces, or nil
    netStopped   \* Network.stopper is closed

vars == <<hs, once, pc, call, target, peerStatus, registry, cur, old, netStopped>>

Reader(p) == <<"read", p>>
Sender(p) == <<"send", p>>
Loops == {"read", "send"} \X Peer
Ctls == {"ctl"} \X Ctl
Manager == <<"online", NoPeer>>
Goroutine == Loops \cup Ctls \cup {Manager}

Status == [peer : Peer, online : BOOLEAN]
Notice(p, on) == [peer |-> p, online |-> on]
Queued(n) == \E i \in 1..Len(peerStatus) : peerStatus[i] = n

-----------------------------------------------------------------------------
Init ==
    /\ hs = [p \in Peer |-> "pending"]
    /\ once = [p \in Peer |-> "fresh"]
    /\ pc = [g \in Goroutine |-> IF g \in Loops THEN "off" ELSE "run"]
    /\ call = [g \in Goroutine |-> "none"]
    /\ target = [g \in Goroutine |-> NoPeer]
    /\ peerStatus = <<>>
    /\ registry = EmptyMap
    /\ cur = NoPeer
    /\ old = NoPeer
    /\ netStopped = FALSE

-----------------------------------------------------------------------------
(* Peer.Stop, called by goroutine g for peer p. *)

\* As EnterStop, but with a plain check of the stop channel instead of a Once:
\* a caller that finds the peer stopping runs the body again.
EnterStopTwice(g, p) ==
    /\ target' = [target EXCEPT ![g] = p]
    /\ call' = [call EXCEPT ![g] = IF once[p] = "done" THEN "wait" ELSE "notify"]
    /\ once' = [once EXCEPT ![p] = IF @ = "fresh" THEN "busy" ELSE @]

\* The first caller enters the body of the Once and closes the stop channel and
\* the connection; any other waits for the first to leave the body.
EnterStop(g, p) ==
    /\ target' = [target EXCEPT ![g] = p]
    /\ call' = [call EXCEPT ![g] = IF once[p] = "fresh" THEN "notify" ELSE "wait"]
    /\ once' = [once EXCEPT ![p] = IF @ = "fresh" THEN "busy" ELSE @]

\* As NotifyOffline, but a plain send, without the case for a stopped network.
NotifyNoSelect(g) ==
    /\ call[g] = "notify"
    /\ Len(peerStatus) < StatusCap
    /\ peerStatus' = Append(peerStatus, Notice(target[g], FALSE))
    /\ once' = [once EXCEPT ![target[g]] = "done"]
    /\ call' = [call EXCEPT ![g] = "none"]
    /\ target' = [target EXCEPT ![g] = NoPeer]
    /\ UNCHANGED <<hs, pc, registry, cur, old, netStopped>>

\* The end of the body: the offline notice is sent when the channel has room,
\* or given up once the network is stopped.
NotifyOffline(g) ==
    /\ call[g] = "notify"
    /\ \/ /\ Len(peerStatus) < StatusCap
          /\ peerStatus' = Append(peerStatus, Notice(target[g], FALSE))
       \/ /\ netStopped
          /\ UNCHANGED peerStatus
    /\ once' = [once EXCEPT ![target[g]] = "done"]
    /\ call' = [call EXCEPT ![g] = "none"]
    /\ target' = [target EXCEPT ![g] = NoPeer]
    /\ UNCHANGED <<hs, pc, registry, cur, old, netStopped>>

\* A later caller returns.
WaitStopped(g) ==
    /\ call[g] = "wait"
    /\ once[target[g]] = "done"
    /\ call' = [call EXCEPT ![g] = "none"]
    /\ target' = [target EXCEPT ![g] = NoPeer]
    /\ UNCHANGED <<hs, once, pc, peerStatus, registry, cur, old, netStopped>>

-----------------------------------------------------------------------------
(* The handshake goroutine of a peer: one per incoming connection, and the *)
(* replenish loop, one after the other, for the dialed ones.               *)

\* The handshake succeeds: newPeer starts the loops.
NewPeer(p) ==
    /\ hs[p] = "pending"
    /\ p \in Dialed => \A q \in Dialed : hs[q] # "made"
    /\ hs' = [hs EXCEPT ![p] = "made"]
    /\ pc' = [pc EXCEPT ![Reader(p)] = "run", ![Sender(p)] = "run"]
    /\ UNCHANGED <<once, call, target, peerStatus, registry, cur, old, netStopped>>

\* As Announce, but on a queue without a bound.
AnnounceUnbounded(p) ==
    /\ hs[p] = "made"
    /\ peerStatus' = Append(peerStatus, Notice(p, TRUE))
    /\ hs' = [hs EXCEPT ![p] = "announced"]
    /\ UNCHANGED <<once, pc, call, target, registry, cur, old, netStopped>>

\* The online notice; this send waits for room whether or not the network is
\* stopped.
Announce(p) ==
    /\ hs[p] = "made"
    /\ Len(peerStatus) < StatusCap
    /\ peerStatus' = Append(peerStatus, Notice(p, TRUE))
    /\ hs' = [hs EXCEPT ![p] = "announced"]
    /\ UNCHANGED <<once, pc, call, target, registry, cur, old, netStopped>>

-----------------------------------------------------------------------------
(* The read and the send loop. *)

\* As LeaveLoop, but the send loop does not watch the network's stop channel.
LeaveLoopIgnoresNet(g) ==
    /\ pc[g] = "run"
    /\ g[1] = "send" => ~netStopped \/ once[g[2]] # "fresh"
    /\ pc' = [pc EXCEPT ![g] = "end"]
    /\ EnterStop(g, g[2])
    /\ UNCHANGED <<hs, peerStatus, registry, cur, old, netStopped>>

\* A loop returns, and its deferred Stop begins: the connection failed, a
\* message was invalid, or the stop channel was found closed.  The goroutine ends
\* when Stop returns (the send loop then closes the send channel: module PeerSend).
LeaveLoop(g) ==
    /\ pc[g] = "run"
    /\ pc' = [pc EXCEPT ![g] = "end"]
    /\ EnterStop(g, g[2])
    /\ UNCHANGED <<hs, peerStatus, registry, cur, old, netStopped>>

-----------------------------------------------------------------------------
(* A cat round, a ban or a disconnect: a peer is taken from the store (by  *)
(* Slice or Get), and stopped later, when it may have left the store.      *)

CtlPick(g, p) ==
    /\ pc[g] = "run"
    /\ call[g] = "none"
    /\ p \in Stored(registry)
    /\ pc' = [pc EXCEPT ![g] = "picked"]
    /\ target' = [target EXCEPT ![g] = p]
    /\ UNCHANGED <<hs, once, call, peerStatus, registry, cur, old, netStopped>>

CtlStop(g) ==
    /\ pc[g] = "picked"
    /\ pc' = [pc EXCEPT ![g] = "run"]
    /\ EnterStop(g, target[g])
    /\ UNCHANGED <<hs, peerStatus, registry, cur, old, netStopped>>

-----------------------------------------------------------------------------
(* manageOnline. *)

\* An offline notice, handled by deleting whatever has the hash of its peer.
RemoveSameHash ==
    /\ pc[Manager] = "run"
    /\ peerStatus # <<>>
    /\ ~Head(peerStatus).online
    /\ peerStatus' = Tail(peerStatus)
    /\ registry' = RemoveByHash(registry, Head(peerStatus).peer)
    /\ UNCHANGED <<hs, once, pc, call, target, cur, old, netStopped>>

\* An offline notice, received and forgotten.
ForgetOffline ==
    /\ pc[Manager] = "run"
    /\ peerStatus # <<>>
    /\ ~Head(peerStatus).online
    /\ peerStatus' = Tail(peerStatus)
    /\ UNCHANGED <<hs, once, pc, call, target, registry, cur, old, netStopped>>

\* As RemoveOffline, but manageOnline ends when the store does not have the peer.
RemoveOfflineOrEnd ==
    /\ pc[Manager] = "run"
    /\ peerStatus # <<>>
    /\ ~Head(peerStatus).online
    /\ peerStatus' = Tail(peerStatus)
    /\ registry' = RemoveFrom(registry, Head(peerStatus).peer)
    /\ pc' = [pc EXCEPT ![Manager] =
                IF Head(peerStatus).peer \in Stored(registry) THEN "run" ELSE "end"]
    /\ UNCHANGED <<hs, once, call, target, cur, old, netStopped>>

\* An offline notice: the peer is removed from the store.
RemoveOffline ==
    /\ pc[Manager] = "run"
    /\ peerStatus # <<>>
    /\ ~Head(peerStatus).online
    /\ peerStatus' = Tail(peerStatus)
    /\ registry' = RemoveFrom(registry, Head(peerStatus).peer)
    /\ UNCHANGED <<hs, once, pc, call, target, cur, old, netStopped>>

\* An online notice while no peer with that hash is stored.
TakeOnline ==
    /\ pc[Manager] = "run"
    /\ peerStatus # <<>>
    /\ Head(peerStatus).online
    /\ registry[HashOf[Head(peerStatus).peer]] = NoPeer
    /\ peerStatus' = Tail(peerStatus)
    /\ cur' = Head(peerStatus).peer
    /\ pc' = [pc EXCEPT ![Manager] = "add"]
    /\ UNCHANGED <<hs, once, call, target, registry, old, netStopped>>

\* An online notice while a peer with that hash is stored: the old one is
\* stopped first.
TakeReplacement ==
    /\ pc[Manager] = "run"
    /\ peerStatus # <<>>
    /\ Head(peerStatus).online
    /\ registry[HashOf[Head(peerStatus).peer]] # NoPeer
    /\ peerStatus' = Tail(peerStatus)
    /\ cur' = Head(peerStatus).peer
    /\ pc' = [pc EXCEPT ![Manager] = "replace"]
    /\ old' = registry[HashOf[Head(peerStatus).peer]]
    /\ EnterStop(Manager, old')
    /\ UNCHANGED <<hs, registry, netStopped>>

\* Stop of the old peer returned, but the old peer is left to its own notice.
SkipRemoveOld ==
    /\ pc[Manager] = "replace"
    /\ call[Manager] = "none"
    /\ old' = NoPeer
    /\ pc' = [pc EXCEPT ![Manager] = "add"]
    /\ UNCHANGED <<hs, once, call, target, peerStatus, registry, cur, netStopped>>

\* Stop of the old peer returned: it is removed from the store.
RemoveOld ==
    /\ pc[Manager] = "replace"
    /\ call[Manager] = "none"
    /\ registry' = RemoveFrom(registry, old)
    /\ old' = NoPeer
    /\ pc' = [pc EXCEPT ![Manager] = "add"]
    /\ UNCHANGED <<hs, once, call, target, peerStatus, cur, netStopped>>

\* The announced peer is added to the store.
AddNew ==
    /\ pc[Manager] = "add"
    /\ registry' = AddTo(registry, cur)
    /\ cur' = NoPeer
    /\ pc' = [pc EXCEPT ![Manager] = "run"]
    /\ UNCHANGED <<hs, once, call, target, peerStatus, old, netStopped>>

\* manageOnline sees the network's stop channel closed.
ManagerEnd ==
    /\ pc[Manager] = "run"
    /\ netStopped
    /\ pc' = [pc EXCEPT ![Manager] = "end"]
    /\ UNCHANGED <<hs, once, call, target, peerStatus, registry, cur, old, netStopped>>

ManagerStep ==
    \/ RemoveOffline
    \/ TakeOnline
    \/ TakeReplacement
    \/ RemoveOld
    \/ AddNew
    \/ ManagerEnd

\* Network.Stop.
NetworkStop ==
    /\ ~netStopped
    /\ netStopped' = TRUE
    /\ UNCHANGED <<hs, once, pc, call, target, peerStatus, registry, cur, old>>

-----------------------------------------------------------------------------
Next ==
    \/ \E p \in Peer : NewPeer(p) \/ Announce(p)
    \/ \E g \in Goroutine : NotifyOffline(g) \/ WaitStopped(g)
    \/ \E g \in Loops : LeaveLoop(g)
    \/ \E g \in Ctls : CtlStop(g) \/ \E p \in Peer : CtlPick(g, p)
    \/ ManagerStep
    \/ NetworkStop

Spec == Init /\ [][Next]_vars

\* A blocked goroutine whose wait is over runs eventually; a loop notices a
\* closed stop channel (the read loop through its closed connection), the send
\* loop also the network's.  Nothing forces a connection to be made or to fail,
\* a peer to be picked or the network to be stopped.
Fairness ==
    /\ \A p \in Peer : WF_vars(Announce(p))
    /\ \A g \in Goroutine : WF_vars(NotifyOffline(g)) /\ WF_vars(WaitStopped(g))
    /\ \A g \in Loops :
        /\ WF_vars(once[g[2]] # "fresh" /\ LeaveLoop(g))
        /\ WF_vars(g[1] = "send" /\ netStopped /\ LeaveLoop(g))
    /\ \A g \in Ctls : WF_vars(CtlStop(g))
    /\ WF_vars(ManagerStep)
    /\ WF_vars(ManagerEnd)

FairSpec == Spec /\ Fairness

-----------------------------------------------------------------------------
\* The types of the variables; the status channel is never over its capacity.
TypeOK ==
    /\ hs \in [Peer -> {"pending", "made", "announced"}]
    /\ once \in [Peer -> {"fresh", "busy", "done"}]
    /\ pc \in [Goroutine -> {"off", "run", "end", "picked", "replace", "add"}]
    /\ call \in [Goroutine -> {"none", "notify", "wait"}]
    /\ target \in [Goroutine -> Peer \cup {NoPeer}]
    /\ peerStatus \in Seq(Status)
    /\ Len(peerStatus) <= StatusCap
    /\ registry \in PeerMap
    /\ cur \in Peer \cup {NoPeer}
    /\ old \in Peer \cup {NoPeer}
    /\ netStopped \in BOOLEAN

\* A peer that has been announced and that nobody stopped is never lost: it is
\* in the store, or its online notice is still on its way there.  The offline
\* notice of an older connection with the same hash, which arrives after the
\* replacement, must not take the new one out (controller_connections.go,
\* manageOnline; peerStore.go, Remove).
Arriving(p) ==
    \/ Queued(Notice(p, TRUE))
    \/ cur = p

LiveRouted ==
    \A p \in Peer :
        hs[p] = "announced" /\ once[p] = "fresh" => p \in Stored(registry) \/ Arriving(p)

\* Adding an announced peer cannot fail: when manageOnline reaches the Add, no
\* other peer has the hash, although loops and controller stop peers meanwhile
\* (controller_connections.go, manageOnline, the "Unable to add peer" error).
AddSucceeds ==
    pc[Manager] = "add" => registry[HashOf[cur]] = NoPeer

\* The facts that make the two properties above inductive: a peer is filed under
\* its own hash; an offline notice, a Stop under way and a replacement under way
\* are all about a peer that is not fresh any more; and only while it handles an
\* online notice does manageOnline hold a peer.
WellKeyed == \A h \in Hash : registry[h] # NoPeer => HashOf[registry[h]] = h

NoticeStopped ==
    \A i \in 1..Len(peerStatus) :
        ~peerStatus[i].online => once[peerStatus[i].peer] # "fresh"

CallStopped ==
    \A g \in Goroutine :
        /\ call[g] # "none" => target[g] \in Peer /\ once[target[g]] # "fresh"
        /\ pc[g] = "picked" => call[g] = "none" /\ target[g] \in Peer

ManagerHolds ==
    /\ pc[Manager] \in {"run", "end"} => cur = NoPeer
    /\ pc[Manager] \in {"replace", "add"} => cur \in Peer
    /\ pc[Manager] = "replace" =>
        /\ old \in Peer
        /\ once[old] # "fresh"
        /\ registry[HashOf[cur]] = old
    /\ pc[Manager] \in {"run", "end", "replace", "add"}

IInv ==
    /\ TypeOK
    /\ WellKeyed
    /\ NoticeStopped
    /\ CallStopped
    /\ ManagerHolds
    /\ AddSucceeds
    /\ LiveRouted

\* However many goroutines stop a peer at the same time, its offline notice is
\* sent once, and only by the one that entered the body (peer.go, Stop).
OneNotice ==
    \A p \in Peer :
        LET sending == {g \in Goroutine : call[g] = "notify" /\ target[g] = p}
            queued  == {i \in 1..Len(peerStatus) : peerStatus[i] = Notice(p, FALSE)}
        IN  /\ Cardinality(sending) + Cardinality(queued) <= 1
            /\ once[p] = "fresh" => sending = {} /\ queued = {}

\* manageOnline, the only receiver of the status channel, waits in Peer.Stop for room
\* in that channel, or for another caller that does: nobody will make any.
Wedged ==
    /\ call[Manager] # "none"
    /\ once[target[Manager]] = "busy"
    /\ Len(peerStatus) = StatusCap

\* Whoever calls Peer.Stop returns from it: apart from the case above, no caller
\* waits forever on the Once or on the status channel (peer.go, Stop).
StopReturns == \A g \in Goroutine : call[g] # "none" ~> call[g] = "none" \/ Wedged

\* A peer that was made gets its online notice into the status channel, although
\* that is a plain send which competes with the offline notices of other peers; it
\* waits for good only in the case above, and on a full channel once the network is
\* stopped and nobody receives any more (controller_connections.go,
\* handshakeIncoming and handshakeOutgoing).
AnnounceReturns ==
    \A p \in Peer :
        hs[p] = "made" ~>
            (hs[p] = "announced" \/ Wedged \/ (netStopped /\ Len(peerStatus) = StatusCap))

\* The offline notice of p is ahead of its online notice: the loops run before the
\* peer is announced.
Overtaken(p) ==
    \E i \in 1..Len(peerStatus) :
        /\ peerStatus[i] = Notice(p, FALSE)
        /\ \/ hs[p] = "made"
           \/ \E j \in (i + 1)..Len(peerStatus) : peerStatus[j] = Notice(p, TRUE)

\* A peer that was stopped leaves the store while the network runs, also when it was
\* stopped before it was added or is about to be replaced; the exceptions are Overtaken
\* and Wedged (README.md: "Upon receiving the offline notification, the controller will
\* remove that peer from the *PeerStore*").
StoppedLeave ==
    \A p \in Peer :
        \/ <>Overtaken(p)
        \/ (p \in Stored(registry) /\ once[p] = "done")
             ~> (p \notin Stored(registry) \/ netStopped \/ Wedged)

\* After Network.Stop both loops of every peer end, and so does manageOnline
\* (peer.go, sendLoop and readLoop; controller_connections.go, manageOnline).
ShutdownCompletes ==
    /\ \A g \in Loops : (netStopped /\ pc[g] # "off") ~> (pc[g] = "end" /\ call[g] = "none")
    /\ netStopped ~> pc[Manager] = "end"

\* The replenish loop gets past the peers it has dialed when the network stops
\* (controller_cat_test.go: "and the replenish loop will terminate when the
\* network stops").
ReplenishEnds == \A p \in Dialed : (netStopped /\ hs[p] = "made") ~> hs[p] # "made"

=============================================================================
