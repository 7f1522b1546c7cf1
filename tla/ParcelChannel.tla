--------------------------- MODULE ParcelChannel ----------------------------
(***************************************************************************)
(* The lossy channel between the application, the controller and the peers *)
(* (parcelChannel.go).  Send tries the channel, and when it is full drops  *)
(* the oldest parcels until half are left and tries again.  None of this   *)
(* is atomic: the consumer receives, and other senders send, between any   *)
(* two of its channel operations.                                          *)
(*                                                                         *)
(* A parcel is the sender's name and the number of its call, so that the   *)
(* order of a sender's parcels can be seen.                                *)
(***************************************************************************)
EXTENDS Integers, Sequences, FiniteSets

CONSTANTS
    Sender,      \* goroutines that call Send
    Cap,         \* ChannelCapacity
    MaxCalls     \* bound: calls of Send per sender

ASSUME ChannelAssumption ==
    /\ IsFiniteSet(Sender)
    /\ Cap \in Nat \ {0}
    /\ MaxCalls \in Nat

VARIABLES
    ch,          \* the Go channel
    pc,          \* per sender: "idle", "check", "take" or "retry"
    calls,       \* per sender: calls of Send so far; also the parcel it sends
    dropped,     \* per sender: Send's local variable
    seen,        \* per sender: the last of its parcels that was received
    accepted,    \* number of calls that returned true
    refused,     \* number of calls that returned false
    received,    \* number of parcels the consumer received
    reported     \* sum of the dropped counts that the calls returned

callVars == <<pc, calls, dropped, accepted, refused, reported>>
chanVars == <<ch, pc, calls, dropped, seen, accepted, refused, received, reported>>

Parcel == Sender \X (1..MaxCalls)

ChanInit ==
    /\ ch = <<>>
    /\ pc = [s \in Sender |-> "idle"]
    /\ calls = [s \in Sender |-> 0]
    /\ dropped = [s \in Sender |-> 0]
    /\ seen = [s \in Sender |-> 0]
    /\ accepted = 0
    /\ refused = 0
    /\ received = 0
    /\ reported = 0

-----------------------------------------------------------------------------
\* The call returns; its dropped count goes to the caller.
Return(s, ok) ==
    /\ pc' = [pc EXCEPT ![s] = "idle"]
    /\ dropped' = [dropped EXCEPT ![s] = 0]
    /\ reported' = reported + dropped[s]
    /\ IF ok
         THEN accepted' = accepted + 1 /\ UNCHANGED refused
         ELSE refused' = refused + 1 /\ UNCHANGED accepted

\* The first select, when the channel has room.
SendOk(s) ==
    /\ pc[s] = "idle"
    /\ calls[s] < MaxCalls
    /\ Len(ch) < Cap
    /\ calls' = [calls EXCEPT ![s] = @ + 1]
    /\ ch' = Append(ch, <<s, calls[s] + 1>>)
    /\ Return(s, TRUE)
    /\ UNCHANGED <<seen, received>>

\* The first select, when the channel is full.
SendFull(s) ==
    /\ pc[s] = "idle"
    /\ calls[s] < MaxCalls
    /\ Len(ch) = Cap
    /\ calls' = [calls EXCEPT ![s] = @ + 1]
    /\ pc' = [pc EXCEPT ![s] = "check"]
    /\ UNCHANGED <<ch, dropped, seen, accepted, refused, received, reported>>

\* The condition of the drop loop.
Check(s) ==
    /\ pc[s] = "check"
    /\ pc' = [pc EXCEPT ![s] = IF Len(ch) > Cap \div 2 THEN "take" ELSE "retry"]
    /\ UNCHANGED <<ch, calls, dropped, seen, accepted, refused, received, reported>>

\* As Take, but without counting.
TakeUncounted(s) ==
    /\ pc[s] = "take"
    /\ ch # <<>>
    /\ ch' = Tail(ch)
    /\ pc' = [pc EXCEPT ![s] = "check"]
    /\ UNCHANGED <<calls, dropped, seen, accepted, refused, received, reported>>

\* The body of the drop loop: a plain receive, which waits on an empty channel.
Take(s) ==
    /\ pc[s] = "take"
    /\ ch # <<>>
    /\ ch' = Tail(ch)
    /\ dropped' = [dropped EXCEPT ![s] = @ + 1]
    /\ pc' = [pc EXCEPT ![s] = "check"]
    /\ UNCHANGED <<calls, seen, accepted, refused, received, reported>>

\* As Retry, but the new parcel goes in front of the ones that were kept.
RetryInFront(s) ==
    /\ pc[s] = "retry"
    /\ IF Len(ch) < Cap
         THEN ch' = <<<<s, calls[s]>>>> \o ch /\ Return(s, TRUE)
         ELSE UNCHANGED ch /\ Return(s, FALSE)
    /\ UNCHANGED <<calls, seen, received>>

\* As Retry, but trusting the drop loop to have made room.
RetryUnchecked(s) ==
    /\ pc[s] = "retry"
    /\ ch' = Append(ch, <<s, calls[s]>>)
    /\ Return(s, TRUE)
    /\ UNCHANGED <<calls, seen, received>>

\* As Retry, but a plain send, which waits for room.
RetryWaits(s) ==
    /\ pc[s] = "retry"
    /\ Len(ch) < Cap
    /\ ch' = Append(ch, <<s, calls[s]>>)
    /\ Return(s, TRUE)
    /\ UNCHANGED <<calls, seen, received>>

\* The second select.
Retry(s) ==
    /\ pc[s] = "retry"
    /\ IF Len(ch) < Cap
         THEN ch' = Append(ch, <<s, calls[s]>>) /\ Return(s, TRUE)
         ELSE UNCHANGED ch /\ Return(s, FALSE)
    /\ UNCHANGED <<calls, seen, received>>

\* The consumer at the other end: route, a send loop or the application.
Receive ==
    /\ ch # <<>>
    /\ ch' = Tail(ch)
    /\ seen' = [seen EXCEPT ![Head(ch)[1]] = Head(ch)[2]]
    /\ received' = received + 1
    /\ UNCHANGED callVars

SendStep(s) == SendOk(s) \/ SendFull(s) \/ Check(s) \/ Take(s) \/ Retry(s)

ChanNext == Receive \/ \E s \in Sender : SendStep(s)

ChanSpec == ChanInit /\ [][ChanNext]_chanVars

\* Inside Send a goroutine keeps running as long as it can, and so does the
\* consumer; nothing forces the application to send another parcel.
ChanFairSpec ==
    /\ ChanSpec
    /\ WF_chanVars(Receive)
    /\ \A s \in Sender :
        WF_chanVars(Check(s)) /\ WF_chanVars(Take(s)) /\ WF_chanVars(Retry(s))

-----------------------------------------------------------------------------
\* The types of the variables; the channel is never over its capacity.
ChanTypeOK ==
    /\ ch \in Seq(Parcel)
    /\ Len(ch) <= Cap
    /\ pc \in [Sender -> {"idle", "check", "take", "retry"}]
    /\ calls \in [Sender -> 0..MaxCalls]
    /\ dropped \in [Sender -> Nat]
    /\ seen \in [Sender -> 0..MaxCalls]
    /\ accepted \in Nat
    /\ refused \in Nat
    /\ received \in Nat
    /\ reported \in Nat

\* The parcels in the dropped counts of the calls under way, numbered per sender.
Held(d) == UNION {{s} \X (1..d[s]) : s \in Sender}

\* Every accepted parcel is still in the channel, was received, or is in a dropped
\* count that a caller has got or will get, which is what the dropped metrics claim.
Conservation == accepted = Len(ch) + received + reported + Cardinality(Held(dropped))

\* Each sender's parcels stay in the order of its calls, also across a drop, and
\* none is received twice or after a later one (parcelChannel.go, Send).
OrderKept ==
    /\ \A i, j \in 1..Len(ch) : i < j /\ ch[i][1] = ch[j][1] => ch[i][2] < ch[j][2]
    /\ \A i \in 1..Len(ch) : seen[ch[i][1]] < ch[i][2]

\* Send does not lose the parcel it was given (network.go: "older messages are
\* dropped first").  True for a channel with one sender only.
NewestKept == refused = 0

Lone == Cardinality(Sender) = 1
LoneKeepsNewest == Lone => NewestKept

\* What makes OrderKept inductive: a parcel that was sent is not newer than its
\* sender's last call, and older than the call under way.
Behind(s, n) == n <= calls[s] /\ (pc[s] # "idle" => n < calls[s])

CallsAhead ==
    /\ \A i \in 1..Len(ch) : Behind(ch[i][1], ch[i][2])
    /\ \A s \in Sender : Behind(s, seen[s])

\* What makes LoneKeepsNewest inductive: after the drop loop there is room, and
\* only the consumer runs before the second select.
RetryHasRoom ==
    Lone => refused = 0 /\ \A s \in Sender : pc[s] = "retry" => Len(ch) < Cap

IInv == ChanTypeOK /\ OrderKept /\ CallsAhead /\ RetryHasRoom

\* Send always returns (parcelChannel.go: "Non-blocking.").
NonBlocking == \A s \in Sender : pc[s] # "idle" ~> pc[s] = "idle"

=============================================================================
