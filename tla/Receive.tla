------------------------------ MODULE Receive -------------------------------
(***************************************************************************)
(* The way of a parcel from a connection to the application: the read loop *)
(* of a peer notes the hash of an application message in the peer's resend *)
(* filter and hands the parcel to manageData, which answers pings and peer *)
(* requests, passes peer responses on to the waiting call (PeerShare), and *)
(* puts messages on fromNetwork, the lossy channel the application reads.  *)
(*                                                                         *)
(* The read loop of one peer, Source, and its resend filter (PeerHashCache)*)
(* are modelled step by step; the other peers send responses only.         *)
(***************************************************************************)
EXTENDS PeerShare, PeerHashCache

CONSTANTS
    Source,      \* the peer whose read loop and resend filter are followed
    NoParcel,    \* the read loop has nothing to deliver
    FromCap,     \* ChannelCapacity, of fromNetwork
    MaxParcels   \* bound: parcels that are no peer response

ASSUME ReceiveAssumption ==
    /\ Source \in Peer
    /\ FromCap \in Nat \ {0}
    /\ MaxParcels \in Nat

VARIABLES
    reading,     \* the parcel the read loop of Source is to deliver
    parcels,     \* those that came so far
    alive,       \* Source is not stopped
    fromNetwork, \* the channel to the application
    message,     \* the message manageData is sending on fromNetwork
    got,         \* the messages the application has received
    since        \* per hash: turns of the filter since the read loop took a
                 \* message with it off the connection, Buckets if longer

shareVars == vars
readVars == <<reading, parcels, alive, since>>
appVars == <<fromNetwork, message, got>>
receiveVars == <<shareVars, cacheVars, readVars, appVars>>

\* PeerShare without the variables of manageData.
callVars == <<rpc, listener, async, requests, pending, strays, parcel, answer>>

Message == [type : {"Message"}, from : {Source}, hash : Hash]
Other == [type |-> "Other", from |-> Source]

ReceiveInit ==
    /\ Init
    /\ CacheInit
    /\ reading = NoParcel
    /\ parcels = 0
    /\ alive = TRUE
    /\ fromNetwork = <<>>
    /\ message = NoParcel
    /\ got = {}
    /\ since = [h \in Hash |-> Buckets]

-----------------------------------------------------------------------------
(* The read loop of Source. *)

\* prot.Receive returns a valid parcel.
Read ==
    /\ alive
    /\ reading = NoParcel
    /\ parcels < MaxParcels
    /\ parcels' = parcels + 1

\* As ReadMessage, but without noting the hash before the message is delivered.
ReadMessageUnnoted(m) ==
    /\ Read
    /\ reading' = m
    /\ since' = [since EXCEPT ![m.hash] = 0]
    /\ UNCHANGED <<cacheVars, alive, shareVars, appVars>>

\* An application message: its hash enters the resend filter at once.
ReadMessage(m) ==
    /\ Read
    /\ Add(m.hash)
    /\ reading' = m
    /\ since' = [since EXCEPT ![m.hash] = 0]
    /\ UNCHANGED <<alive, shareVars, appVars>>

ReadOther ==
    /\ Read
    /\ reading' = Other
    /\ UNCHANGED <<alive, since, cacheVars, shareVars, appVars>>

\* The handshake of a version 9 node is a peer request, which the goroutine of the
\* handshake puts on peerData itself.
HandshakeRequest ==
    /\ parcels < MaxParcels
    /\ Deliver(Other)
    /\ parcels' = parcels + 1
    /\ UNCHANGED <<reading, alive, since, callVars, mpc, cacheVars, appVars>>

\* deliver waits for room in peerData; when the peer is stopped while there is
\* room, the select may still take this case.
DeliverParcel ==
    /\ reading # NoParcel
    /\ Deliver(reading)
    /\ reading' = NoParcel
    /\ UNCHANGED <<parcels, alive, since, callVars, mpc, cacheVars, appVars>>

DeliverGivesUp ==
    /\ reading # NoParcel
    /\ ~alive
    /\ reading' = NoParcel
    /\ UNCHANGED <<parcels, alive, since, shareVars, cacheVars, appVars>>

\* Peer.Stop of Source, which stops the filter first.
PeerStops ==
    /\ alive
    /\ CacheStop
    /\ alive' = FALSE
    /\ UNCHANGED <<reading, parcels, since, shareVars, appVars>>

\* The read loop of p is at its receive.
Reads(p) == p = Source => alive /\ reading = NoParcel

ReadResponse ==
    /\ \/ \E p \in Peer : Reads(p) /\ Stray(p)
       \/ \E r \in pending : Reads(r.from) /\ Respond(r)
    /\ UNCHANGED <<cacheVars, readVars, appVars>>

-----------------------------------------------------------------------------
(* manageData. *)

\* A ping or a peer request: a goroutine sends the pong or the share (PeerSend).
\* Parcels of other types are ignored.
HandleOther ==
    /\ Take("Other")
    /\ UNCHANGED <<callVars, mpc, cacheVars, readVars, appVars>>

HandleResponse ==
    /\ Handle \/ PassOn
    /\ UNCHANGED <<cacheVars, readVars, appVars>>

\* As HandleMessage, but waiting for room in fromNetwork.
HandleMessageWaits ==
    /\ Len(fromNetwork) < FromCap
    /\ Take("Message")
    /\ fromNetwork' = Append(fromNetwork, Head(peerData))
    /\ UNCHANGED <<callVars, mpc, cacheVars, readVars, message, got>>

\* A message: the first select of fromNetwork.Send.
HandleMessage ==
    /\ Take("Message")
    /\ IF Len(fromNetwork) < FromCap
         THEN /\ fromNetwork' = Append(fromNetwork, Head(peerData))
              /\ UNCHANGED <<mpc, message>>
         ELSE /\ mpc' = "check"
              /\ message' = Head(peerData)
              /\ UNCHANGED fromNetwork
    /\ UNCHANGED <<callVars, cacheVars, readVars, got>>

\* The drop loop of fromNetwork.Send, whose receive waits on an empty channel,
\* and its second select (ParcelChannel).
DropCheck ==
    /\ mpc = "check"
    /\ mpc' = IF Len(fromNetwork) > FromCap \div 2 THEN "take" ELSE "retry"
    /\ UNCHANGED <<callVars, peerData, cacheVars, readVars, appVars>>

DropTake ==
    /\ mpc = "take"
    /\ fromNetwork # <<>>
    /\ fromNetwork' = Tail(fromNetwork)
    /\ mpc' = "check"
    /\ UNCHANGED <<callVars, peerData, cacheVars, readVars, message, got>>

\* The second select.
SendAgain ==
    /\ mpc = "retry"
    /\ fromNetwork' = IF Len(fromNetwork) < FromCap
                        THEN Append(fromNetwork, message) ELSE fromNetwork
    /\ mpc' = "idle"
    /\ message' = NoParcel
    /\ UNCHANGED <<callVars, peerData, cacheVars, readVars, got>>

\* The application reads from Network.FromNetwork.
AppReads ==
    /\ fromNetwork # <<>>
    /\ got' = got \cup {Head(fromNetwork)}
    /\ fromNetwork' = Tail(fromNetwork)
    /\ UNCHANGED <<shareVars, cacheVars, readVars, message>>

-----------------------------------------------------------------------------
\* asyncPeerRequest.
Call ==
    /\ (\E p \in Peer : Request(p)) \/ Answered \/ TimedOut \/ Leave
    /\ UNCHANGED <<cacheVars, readVars, appVars>>

\* route looks a hash up, or the cleanup goroutine ends.
UseFilter ==
    /\ \/ \E r \in Reader : HasStep(r) \/ \E h \in Hash : HasBegin(r, h)
       \/ CleanupEnds
    /\ UNCHANGED <<shareVars, readVars, appVars>>

\* The filter turns.
TurnFilter ==
    /\ DropOldestBucket
    /\ since' = [h \in Hash |-> IF since[h] = Buckets THEN Buckets ELSE since[h] + 1]
    /\ UNCHANGED <<shareVars, reading, parcels, alive, appVars>>

\* A step of manageData.
ManageData ==
    \/ HandleOther \/ HandleResponse \/ HandleMessage
    \/ DropCheck \/ DropTake \/ SendAgain

ReceiveNext ==
    \/ \E m \in Message : ReadMessage(m)
    \/ ReadOther \/ HandshakeRequest \/ DeliverParcel \/ DeliverGivesUp \/ PeerStops \/ ReadResponse
    \/ ManageData \/ AppReads
    \/ Call \/ UseFilter \/ TurnFilter

ReceiveSpec == ReceiveInit /\ [][ReceiveNext]_receiveVars

\* manageData and the call go on when they can, and the timer fires.  Neither the
\* peers nor the application have to do anything.
ReceiveFairSpec ==
    /\ ReceiveSpec
    /\ WF_receiveVars(ManageData)
    /\ WF_receiveVars(Call /\ rpc # "idle")

-----------------------------------------------------------------------------
\* The types of the variables; peerData, fromNetwork and the call's channel are
\* never over their capacity.
ReceiveTypeOK ==
    /\ CacheTypeOK
    /\ rpc \in {"idle", "wait", "leave"}
    /\ listener \in Peer \cup {None}
    /\ async \in Seq(Response)
    /\ Len(async) <= 1
    /\ requests \in [Peer -> 0..PerPeer]
    /\ pending \in SUBSET Response
    /\ strays \in 0..Unasked
    /\ peerData \in Seq(Response \cup Message \cup {Other})
    /\ Len(peerData) <= DataCap
    /\ mpc \in {"idle", "send", "check", "take", "retry"}
    /\ parcel \in Response \cup {Nothing}
    /\ answer \in Response \cup {Nothing}
    /\ reading \in Message \cup {Other, NoParcel}
    /\ parcels \in 0..MaxParcels
    /\ alive \in BOOLEAN
    /\ fromNetwork \in Seq(Message)
    /\ Len(fromNetwork) <= FromCap
    /\ message \in Message \cup {NoParcel}
    /\ got \in SUBSET Message
    /\ since \in [Hash -> 0..Buckets]

InChannel(s, m) == \E i \in 1..Len(s) : s[i] = m

\* The filter knows a message no later than the application can: from the moment
\* its message is in peerData, and for as long as the filter is meant to remember,
\* a hash of Source is found, so a broadcast of the message cannot go back to
\* Source (peer.go, readLoop: "p.resend.Add" before deliver).
SeenIsFiltered ==
    \A m \in Message :
        InChannel(peerData, m) \/ m = message \/ InChannel(fromNetwork, m) \/ m \in got
            => Held(m.hash) \/ since[m.hash] = Buckets

\* The two ways in which manageData waits forever: for room in the channel of a
\* call that waits for the lock it holds, and in the drop loop, for a parcel of a
\* channel that the application has emptied.
Stuck ==
    \/ mpc = "send" /\ async # <<>> /\ rpc = "leave"
    \/ mpc = "take" /\ fromNetwork = <<>>

\* manageData handles whatever the read loops deliver, with an application that
\* never reads and with requests that are answered late or never, unless it is
\* stuck in one of the two ways above (controller_routing.go, manageData).
DataServed == peerData # <<>> ~> peerData = <<>> \/ Stuck

=============================================================================
