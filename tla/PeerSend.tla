------------------------------ MODULE PeerSend ------------------------------
(***************************************************************************)
(* Peer.Send against the end of the peer: callers (route, runPing, the     *)
(* pong and the share goroutines, the replenish loop) check the peer's     *)
(* stop channel and then use the send channel, which the send loop closes  *)
(* when it ends.                                                           *)
(*                                                                         *)
(* The send channel is a ParcelChannel; sending on it once it is closed    *)
(* panics, and receiving from it never waits.                              *)
(***************************************************************************)
EXTENDS ParcelChannel

VARIABLES
    at,          \* per sender: "out" of or "in" Peer.Send, past its check
    stop,        \* Peer.stop is closed
    closed,      \* Peer.send is closed
    loop,        \* sendLoop: "run", "exit" (inside its deferred Stop) or "end"
    crashed      \* a goroutine panicked and took the process down

peerVars == <<at, stop, closed, loop, crashed>>
vars == <<chanVars, peerVars>>

Init ==
    /\ ChanInit
    /\ at = [s \in Sender |-> "out"]
    /\ stop = FALSE
    /\ closed = FALSE
    /\ loop = "run"
    /\ crashed = FALSE

-----------------------------------------------------------------------------
\* Peer.Send finds the stop channel open; had it found it closed, it would
\* return without any effect.
Enter(s) ==
    /\ at[s] = "out"
    /\ calls[s] < MaxCalls
    /\ ~stop
    /\ at' = [at EXCEPT ![s] = "in"]
    /\ UNCHANGED <<chanVars, stop, closed, loop, crashed>>

\* The steps of ParcelChannel.Send on the open channel; the last one leaves
\* Peer.Send.
Transmit(s) ==
    /\ at[s] = "in"
    /\ \/ ~closed /\ (SendOk(s) \/ SendFull(s) \/ Retry(s))
       \/ Check(s)
       \/ Take(s)
    /\ at' = [at EXCEPT ![s] = IF pc'[s] = "idle" THEN "out" ELSE "in"]
    /\ UNCHANGED <<stop, closed, loop, crashed>>

\* The drop loop receives nil from the closed, empty channel, and counts it.
TakeNil(s) ==
    /\ at[s] = "in"
    /\ pc[s] = "take"
    /\ closed
    /\ ch = <<>>
    /\ dropped' = [dropped EXCEPT ![s] = @ + 1]
    /\ pc' = [pc EXCEPT ![s] = "check"]
    /\ UNCHANGED <<ch, calls, seen, accepted, refused, received, reported, peerVars>>

\* Either select of ParcelChannel.Send finds the channel closed.
Panic(s) ==
    /\ at[s] = "in"
    /\ pc[s] \in {"idle", "retry"}
    /\ closed
    /\ crashed' = TRUE
    /\ UNCHANGED <<chanVars, at, stop, closed, loop>>

-----------------------------------------------------------------------------
\* The send loop writes a parcel to the connection.
Deliver ==
    /\ loop = "run"
    /\ Receive
    /\ UNCHANGED peerVars

\* The write fails, and the deferred Stop begins.
DeliverFails ==
    /\ loop = "run"
    /\ Receive
    /\ loop' = "exit"
    /\ stop' = TRUE
    /\ UNCHANGED <<at, closed, crashed>>

\* The send loop finds the stop channel closed.
LoopSeesStop ==
    /\ loop = "run"
    /\ stop
    /\ loop' = "exit"
    /\ UNCHANGED <<chanVars, at, stop, closed, crashed>>

\* The deferred Stop has returned; the send loop closes the send channel.  Stop
\* may wait for good on the status channel (PeerLifecycle, Wedged), so that the
\* send loop need not get here.
LoopCloses ==
    /\ loop = "exit"
    /\ loop' = "end"
    /\ closed' = TRUE
    /\ UNCHANGED <<chanVars, at, stop, crashed>>

\* Any other goroutine stops the peer.
Stop ==
    /\ ~stop
    /\ stop' = TRUE
    /\ UNCHANGED <<chanVars, at, closed, loop, crashed>>

Next ==
    /\ ~crashed
    /\ \/ \E s \in Sender : Enter(s) \/ Transmit(s) \/ TakeNil(s) \/ Panic(s)
       \/ Deliver
       \/ DeliverFails
       \/ LoopSeesStop
       \/ LoopCloses
       \/ Stop

Spec == Init /\ [][Next]_vars

\* Callers inside Peer.Send and the send loop keep running while they can.
\* Nothing is assumed of LoopCloses, nor of the others that stop the peer.
FairSpec ==
    /\ Spec
    /\ \A s \in Sender : WF_vars(Next /\ (Transmit(s) \/ TakeNil(s) \/ Panic(s)))
    /\ WF_vars(Next /\ Deliver)
    /\ WF_vars(Next /\ LoopSeesStop)

-----------------------------------------------------------------------------
\* As long as the send channel is open no accepted parcel disappears uncounted: it
\* is in the channel, went to the send loop, or is in a dropped count that a
\* caller has got or will get, although two senders drop, and the send loop takes,
\* at the same time.  On the closed channel nils are counted too (peer.go, Send
\* and sendLoop; parcelChannel.go, Send).
Counted == closed \/ Conservation

\* The sender is in the drop loop, on an open channel that others have emptied.
\* When the send loop then closes the channel the sender gets nil, leaves the
\* drop loop and panics at the second select.
Parked(s) == pc[s] = "take" /\ ch = <<>> /\ ~closed

\* Peer.Send is not quite "non-blocking", and this is all that can go wrong: a
\* call under way when the peer is stopped returns, or the process panics, or the
\* call waits for good in the drop loop on the emptied channel, whether or not the
\* send loop gets to the close (peer.go, Send and sendLoop; parcelChannel.go, Send).
SendReleased ==
    \A s \in Sender :
        (at[s] = "in" /\ stop) ~> (at[s] = "out" \/ crashed \/ []Parked(s))

\* Nothing is sent on the channel once it is closed, which would panic (peer.go,
\* Send: "don't send when stopped").
NoPanic == ~crashed

=============================================================================
