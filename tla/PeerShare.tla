----------------------------- MODULE PeerShare ------------------------------
(***************************************************************************)
(* The replenish loop asks a peer for addresses and waits for the answer   *)
(* (asyncPeerRequest); manageData, which handles the parcels of all peers, *)
(* passes a peer response on to the waiting call through a channel found   *)
(* in shareListener.  The two meet on the mutex of that map: manageData    *)
(* holds its read lock while it sends on the call's channel, and the call  *)
(* needs the write lock to end.                                            *)
(*                                                                         *)
(* The replenish loop makes one call at a time, so shareListener has at    *)
(* most one entry.  A peer response is the peer and the number of the      *)
(* request it answers, 0 if it answers none.  Parcels of other types reach *)
(* peerData in module Receive.                                             *)
(***************************************************************************)
EXTENDS Integers, Sequences, FiniteSets

CONSTANTS
    Peer,        \* peers, told apart by their hash
    None,        \* no peer
    DataCap,     \* the capacity of peerData
    PerPeer,     \* bound: requests made to each peer
    Unasked      \* bound: responses that answer no request

ASSUME ShareAssumption ==
    /\ None \notin Peer
    /\ DataCap \in Nat \ {0}
    /\ PerPeer \in Nat
    /\ Unasked \in Nat

VARIABLES
    rpc,         \* asyncPeerRequest: "idle", "wait" or "leave"
    listener,    \* the peer with an entry in shareListener
    async,       \* the channel of that entry, of capacity 1
    requests,    \* per peer: requests sent to it
    pending,     \* requests not answered yet
    strays,      \* responses sent without a request
    peerData,    \* the channel from the read loops to manageData
    mpc,         \* manageData: "idle", or "send" while it holds the read lock
    parcel,      \* the response manageData is sending
    answer       \* what the call is returning: a response, or Nothing for a timeout

vars == <<rpc, listener, async, requests, pending, strays, peerData, mpc, parcel, answer>>

ResponseOf(p, n) == [type |-> "PeerResponse", from |-> p, request |-> n]
Response == {ResponseOf(p, n) : p \in Peer, n \in 0..PerPeer}
Nothing == ResponseOf(None, 0)

Init ==
    /\ rpc = "idle"
    /\ listener = None
    /\ async = <<>>
    /\ requests = [p \in Peer |-> 0]
    /\ pending = {}
    /\ strays = 0
    /\ peerData = <<>>
    /\ mpc = "idle"
    /\ parcel = Nothing
    /\ answer = Nothing

ReadLocked == mpc = "send"

-----------------------------------------------------------------------------
(* asyncPeerRequest. *)

\* Under the write lock the call registers a new channel; it then sends the
\* request, which may get lost with the connection.
Request(p) ==
    /\ rpc = "idle"
    /\ ~ReadLocked
    /\ requests[p] < PerPeer
    /\ listener' = p
    /\ async' = <<>>
    /\ requests' = [requests EXCEPT ![p] = @ + 1]
    /\ pending' = pending \cup {ResponseOf(p, requests[p] + 1)}
    /\ rpc' = "wait"
    /\ UNCHANGED <<strays, peerData, mpc, parcel, answer>>

\* The select takes the response.
Answered ==
    /\ rpc = "wait"
    /\ async # <<>>
    /\ answer' = Head(async)
    /\ async' = Tail(async)
    /\ rpc' = "leave"
    /\ UNCHANGED <<listener, requests, pending, strays, peerData, mpc, parcel>>

\* The select takes the timer, which it may also do when there is a response.
TimedOut ==
    /\ rpc = "wait"
    /\ answer' = Nothing
    /\ rpc' = "leave"
    /\ UNCHANGED <<listener, async, requests, pending, strays, peerData, mpc, parcel>>

\* The deferred function: under the write lock the entry is deleted.
Leave ==
    /\ rpc = "leave"
    /\ ~ReadLocked
    /\ listener' = None
    /\ async' = <<>>
    /\ answer' = Nothing
    /\ rpc' = "idle"
    /\ UNCHANGED <<requests, pending, strays, peerData, mpc, parcel>>

-----------------------------------------------------------------------------
(* The peers and their read loops, which wait while peerData is full. *)

Deliver(r) ==
    /\ Len(peerData) < DataCap
    /\ peerData' = Append(peerData, r)

\* A peer answers a request, however late.
Respond(r) ==
    /\ r \in pending
    /\ Deliver(r)
    /\ pending' = pending \ {r}
    /\ UNCHANGED <<rpc, listener, async, requests, strays, mpc, parcel, answer>>

\* A peer sends a response nobody asked for.
Stray(p) ==
    /\ strays < Unasked
    /\ Deliver(ResponseOf(p, 0))
    /\ strays' = strays + 1
    /\ UNCHANGED <<rpc, listener, async, requests, pending, mpc, parcel, answer>>

-----------------------------------------------------------------------------
(* manageData. *)

\* manageData, back at its select, takes a parcel of this type.
Take(type) ==
    /\ mpc = "idle"
    /\ peerData # <<>>
    /\ Head(peerData).type = type
    /\ peerData' = Tail(peerData)

\* As Handle, but any response goes to the waiting call.
HandleAny ==
    /\ Take("PeerResponse")
    /\ IF listener # None
         THEN mpc' = "send" /\ parcel' = Head(peerData)
         ELSE UNCHANGED <<mpc, parcel>>
    /\ UNCHANGED <<rpc, listener, async, requests, pending, strays, answer>>

\* A peer response: dropped unless a call waits for this peer.
Handle ==
    /\ Take("PeerResponse")
    /\ IF listener = Head(peerData).from
         THEN mpc' = "send" /\ parcel' = Head(peerData)
         ELSE UNCHANGED <<mpc, parcel>>
    /\ UNCHANGED <<rpc, listener, async, requests, pending, strays, answer>>

\* As PassOn, but without waiting for the buffer of the call's channel.
PassOnUnbounded ==
    /\ mpc = "send"
    /\ async' = Append(async, parcel)
    /\ mpc' = "idle"
    /\ parcel' = Nothing
    /\ UNCHANGED <<rpc, listener, requests, pending, strays, peerData, answer>>

\* The send on the call's channel; the read lock is given up after it.
PassOn ==
    /\ mpc = "send"
    /\ async = <<>>
    /\ async' = <<parcel>>
    /\ mpc' = "idle"
    /\ parcel' = Nothing
    /\ UNCHANGED <<rpc, listener, requests, pending, strays, peerData, answer>>

Next ==
    \/ \E p \in Peer : Request(p) \/ Stray(p)
    \/ \E r \in pending : Respond(r)
    \/ Answered
    \/ TimedOut
    \/ Leave
    \/ Handle
    \/ PassOn

Spec == Init /\ [][Next]_vars

\* The timer fires, and goroutines that can run do; peers need not answer.
FairSpec ==
    /\ Spec
    /\ WF_vars(Answered \/ TimedOut)
    /\ WF_vars(Leave)
    /\ WF_vars(Handle)
    /\ WF_vars(PassOn)

-----------------------------------------------------------------------------
\* A call gets only responses of the peer it asked, although late responses of
\* other peers arrive while it waits, and manageData may be in the middle of
\* passing one on when the call ends (controller_routing.go, manageData;
\* controller_cat.go, asyncPeerRequest).
AnswerFromAsked ==
    /\ mpc = "send" => parcel.from = listener
    /\ \A i \in 1..Len(async) : async[i].from = listener
    /\ rpc = "leave" /\ answer # Nothing => answer.from = listener

\* Every call comes to an end (controller_cat.go: "if there is no response from
\* the peer after 5 seconds, it times out").
RequestEnds == rpc # "idle" ~> rpc = "idle"

=============================================================================
