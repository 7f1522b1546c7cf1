------------------------ MODULE ParcelChannelProofs -------------------------
(***************************************************************************)
(* The order of each sender's parcels, and the fate of a lone sender's     *)
(* newest parcel, for any number of senders and calls and any capacity;    *)
(* then the same for the send channel of a peer, which is closed while     *)
(* senders are inside Send (PeerSend).                                     *)
(***************************************************************************)
EXTENDS PeerSend, FiniteSetTheorems, TLAPS

(* The channel. *)

LEMMA Put ==
    ASSUME NEW q \in Seq(Parcel), NEW e \in Parcel
    PROVE  /\ Append(q, e) \in Seq(Parcel)
           /\ Len(Append(q, e)) = Len(q) + 1
           /\ Len(q) \in Nat
           /\ \A i \in 1..Len(q) : Append(q, e)[i] = q[i]
           /\ Append(q, e)[Len(q) + 1] = e
  OBVIOUS

LEMMA Drop ==
    ASSUME NEW q \in Seq(Parcel), q # <<>>
    PROVE  /\ Tail(q) \in Seq(Parcel)
           /\ Len(Tail(q)) = Len(q) - 1
           /\ Len(q) \in Nat \ {0}
           /\ \A i \in 1..Len(Tail(q)) : Tail(q)[i] = q[i + 1]
           /\ Head(q) = q[1]
  OBVIOUS

LEMMA Element ==
    ASSUME NEW q \in Seq(Parcel), NEW i \in 1..Len(q)
    PROVE  q[i][1] \in Sender /\ q[i][2] \in 1..MaxCalls
  <1>1. q[i] \in Parcel
    OBVIOUS
  <1> QED
    BY <1>1 DEF Parcel

(* Two senders are not one. *)
LEMMA LoneSender ==
    ASSUME Lone, NEW s \in Sender, NEW t \in Sender
    PROVE  s = t
  <1>1. IsFiniteSet(Sender)
    BY ChannelAssumption
  <1> QED
    BY <1>1, FS_Singleton DEF Lone

-----------------------------------------------------------------------------
LEMMA InitIInv == ChanInit => IInv
  <1> SUFFICES ASSUME ChanInit PROVE IInv
    OBVIOUS
  <1>1. ChanTypeOK
    BY ChannelAssumption DEF ChanInit, ChanTypeOK
  <1>2. OrderKept /\ CallsAhead
    BY ChannelAssumption DEF ChanInit, OrderKept, CallsAhead, Behind
  <1>3. RetryHasRoom
    BY DEF ChanInit, RetryHasRoom
  <1> QED
    BY <1>1, <1>2, <1>3 DEF IInv

(* A step that puts the parcel of the call of s on the channel. *)
LEMMA PutKeeps ==
    ASSUME IInv, NEW s \in Sender, NEW n \in 1..MaxCalls, Len(ch) < Cap,
           ch' = Append(ch, <<s, n>>), UNCHANGED seen,
           pc' = [pc EXCEPT ![s] = "idle"],
           calls' = [calls EXCEPT ![s] = n],
           calls[s] <= n, pc[s] = "idle" => calls[s] < n
    PROVE  /\ ch' \in Seq(Parcel)
           /\ Len(ch') <= Cap
           /\ OrderKept'
           /\ CallsAhead'
  <1> DEFINE e == <<s, n>>
  <1>1. e \in Parcel /\ e[1] = s /\ e[2] = n
    BY DEF Parcel
  <1> HIDE DEF e
  <1>2. /\ ch' \in Seq(Parcel)
        /\ Len(ch') = Len(ch) + 1
        /\ Len(ch) \in Nat
        /\ \A i \in 1..Len(ch) : ch'[i] = ch[i]
        /\ ch'[Len(ch) + 1] = e
    BY <1>1, Put DEF IInv, ChanTypeOK, e
  <1>3. \A i \in 1..Len(ch) : ch[i][1] \in Sender /\ ch[i][2] \in 1..MaxCalls
    BY Element DEF IInv, ChanTypeOK
  <1>4. \A i \in 1..Len(ch) : ch[i][1] = s => ch[i][2] < n
    BY <1>3 DEF IInv, ChanTypeOK, CallsAhead, Behind
  <1>5. seen[s] < n
    BY DEF IInv, ChanTypeOK, CallsAhead, Behind
  <1>6. \A i \in 1..Len(ch') : i \in 1..Len(ch) \/ i = Len(ch) + 1
    BY <1>2
  <1>7. OrderKept'
    <2>1. ASSUME NEW i \in 1..Len(ch'), NEW j \in 1..Len(ch'), i < j, ch'[i][1] = ch'[j][1]
          PROVE  ch'[i][2] < ch'[j][2]
      <3>1. i \in 1..Len(ch)
        BY <1>2, <2>1
      <3>2. CASE j \in 1..Len(ch)
        BY <1>2, <2>1, <3>1, <3>2 DEF IInv, OrderKept
      <3>3. CASE j = Len(ch) + 1
        BY <1>1, <1>2, <1>4, <2>1, <3>1, <3>3
      <3> QED
        BY <1>6, <3>2, <3>3
    <2>2. ASSUME NEW i \in 1..Len(ch') PROVE seen'[ch'[i][1]] < ch'[i][2]
      BY <1>1, <1>2, <1>5, <1>6 DEF IInv, OrderKept
    <2> QED
      BY <2>1, <2>2 DEF OrderKept
  <1>8. CallsAhead'
    <2>1. \A t \in Sender : calls'[t] = (IF t = s THEN n ELSE calls[t])
      BY DEF IInv, ChanTypeOK
    <2>2. \A t \in Sender : pc'[t] = (IF t = s THEN "idle" ELSE pc[t])
      BY DEF IInv, ChanTypeOK
    <2>3. ASSUME NEW t \in Sender, NEW m \in Nat, Behind(t, m), t = s => m <= n
          PROVE  Behind(t, m)'
      BY <2>1, <2>2, <2>3 DEF Behind
    <2>4. ASSUME NEW i \in 1..Len(ch') PROVE Behind(ch[i][1], ch[i][2])'
      <3>1. CASE i \in 1..Len(ch)
        <4> DEFINE t == ch[i][1]
        <4> DEFINE m == ch[i][2]
        <4>1. Behind(t, m) /\ t \in Sender /\ m \in Nat /\ (t = s => m <= n)
          BY <1>3, <1>4, <3>1 DEF IInv, CallsAhead
        <4>2. ch'[i][1] = t /\ ch'[i][2] = m
          BY <1>2, <3>1
        <4> HIDE DEF t, m
        <4>3. m <= calls'[t] /\ (pc'[t] # "idle" => m < calls'[t])
          BY <2>1, <2>2, <4>1 DEF Behind
        <4> QED
          BY <4>2, <4>3 DEF Behind
      <3>2. CASE i = Len(ch) + 1
        BY <1>1, <1>2, <2>1, <2>2, <3>2 DEF Behind
      <3> QED
        BY <1>6, <3>1, <3>2
    <2>5. ASSUME NEW t \in Sender PROVE Behind(t, seen[t])'
      <3>1. Behind(t, seen[t]) /\ seen[t] \in Nat
        BY ChannelAssumption DEF IInv, CallsAhead, ChanTypeOK
      <3> QED
        BY <1>5, <2>3, <3>1, ChannelAssumption
    <2> QED
      BY <2>4, <2>5 DEF CallsAhead
  <1>9. Len(ch') <= Cap
    BY <1>2, ChannelAssumption
  <1> QED
    BY <1>2, <1>7, <1>8, <1>9

(* A step that takes the oldest parcel off the channel. *)
LEMMA DropKeeps ==
    ASSUME IInv, ch # <<>>, ch' = Tail(ch)
    PROVE  /\ ch' \in Seq(Parcel)
           /\ Len(ch') <= Cap
           /\ Len(ch') <= Len(ch)
           /\ \A i \in 1..Len(ch') : i + 1 \in 1..Len(ch) /\ ch'[i] = ch[i + 1]
           /\ 1 \in 1..Len(ch) /\ Head(ch) = ch[1]
           /\ UNCHANGED seen => OrderKept'
  <1>1. /\ ch' \in Seq(Parcel)
        /\ Len(ch') = Len(ch) - 1
        /\ Len(ch) \in Nat \ {0}
        /\ \A i \in 1..Len(ch') : ch'[i] = ch[i + 1]
        /\ Head(ch) = ch[1]
    BY Drop DEF IInv, ChanTypeOK
  <1>2. \A i \in 1..Len(ch') : i + 1 \in 1..Len(ch)
    BY <1>1
  <1>3. ASSUME UNCHANGED seen PROVE OrderKept'
    <2>1. ASSUME NEW i \in 1..Len(ch'), NEW j \in 1..Len(ch'), i < j, ch'[i][1] = ch'[j][1]
          PROVE  ch'[i][2] < ch'[j][2]
      BY <1>1, <1>2, <2>1 DEF IInv, OrderKept
    <2>2. ASSUME NEW i \in 1..Len(ch') PROVE seen'[ch'[i][1]] < ch'[i][2]
      BY <1>1, <1>2, <1>3 DEF IInv, OrderKept
    <2> QED
      BY <2>1, <2>2 DEF OrderKept
  <1>4. Len(ch') <= Cap
    BY <1>1, ChannelAssumption DEF IInv, ChanTypeOK
  <1> QED
    BY <1>1, <1>2, <1>3, <1>4

LEMMA ReturnType ==
    ASSUME ChanTypeOK, NEW s \in Sender, NEW ok \in BOOLEAN, Return(s, ok)
    PROVE  /\ pc' \in [Sender -> {"idle", "check", "take", "retry"}]
           /\ dropped' \in [Sender -> Nat]
           /\ reported' \in Nat /\ accepted' \in Nat /\ refused' \in Nat
           /\ \A t \in Sender : pc'[t] = "retry" => t # s /\ pc[t] = "retry"
           /\ ok => refused' = refused
  BY DEF ChanTypeOK, Return

-----------------------------------------------------------------------------
LEMMA SendOkKeeps ==
    ASSUME IInv, NEW s \in Sender, SendOk(s)
    PROVE  IInv'
  <1> DEFINE n == calls[s] + 1
  <1>1. n \in 1..MaxCalls /\ calls[s] < n /\ calls[s] <= n
    BY ChannelAssumption DEF IInv, ChanTypeOK, SendOk
  <1>2. calls' = [calls EXCEPT ![s] = n] /\ calls' \in [Sender -> 0..MaxCalls]
    BY <1>1 DEF IInv, ChanTypeOK, SendOk
  <1>3. ch' \in Seq(Parcel) /\ Len(ch') <= Cap /\ OrderKept' /\ CallsAhead'
    BY <1>1, <1>2, PutKeeps DEF SendOk, Return
  <1>4. ChanTypeOK'
    BY <1>2, <1>3, ReturnType DEF IInv, ChanTypeOK, SendOk
  <1>5. RetryHasRoom'
    BY ReturnType, LoneSender DEF IInv, ChanTypeOK, RetryHasRoom, Lone, SendOk
  <1> QED
    BY <1>3, <1>4, <1>5 DEF IInv

LEMMA RetryKeeps ==
    ASSUME IInv, NEW s \in Sender, Retry(s)
    PROVE  IInv'
  <1>1. CASE Len(ch) < Cap
    <2> DEFINE n == calls[s]
    <2>1. n \in 1..MaxCalls /\ calls' = [calls EXCEPT ![s] = n] /\ pc[s] # "idle"
      <3>1. 0 <= seen[s] /\ seen[s] < n
        BY DEF IInv, ChanTypeOK, CallsAhead, Behind, Retry
      <3> QED
        BY <3>1, ChannelAssumption DEF IInv, ChanTypeOK, Retry
    <2>2. ch' = Append(ch, <<s, n>>) /\ Return(s, TRUE)
      BY <1>1 DEF Retry
    <2>3. ch' \in Seq(Parcel) /\ Len(ch') <= Cap /\ OrderKept' /\ CallsAhead'
      <3>1. calls[s] <= n /\ (pc[s] = "idle" => calls[s] < n)
        BY <2>1
      <3>2. pc' = [pc EXCEPT ![s] = "idle"] /\ UNCHANGED seen
        BY <2>2 DEF Retry, Return
      <3> HIDE DEF n
      <3> QED
        BY <1>1, <2>1, <2>2, <3>1, <3>2, PutKeeps
    <2>4. ChanTypeOK'
      BY <2>2, <2>3, ReturnType DEF IInv, ChanTypeOK, Retry
    <2>5. RetryHasRoom'
      BY <2>2, ReturnType, LoneSender DEF IInv, RetryHasRoom, Lone
    <2> QED
      BY <2>3, <2>4, <2>5 DEF IInv
  <1>2. CASE ~(Len(ch) < Cap)
    <2>1. ch' = ch /\ Return(s, FALSE) /\ UNCHANGED <<calls, seen, received>>
      BY <1>2 DEF Retry
    <2>2. ChanTypeOK'
      BY <2>1, ReturnType DEF IInv, ChanTypeOK
    <2>3. OrderKept'
      BY <2>1 DEF IInv, OrderKept
    <2>4. \A t \in Sender : pc'[t] # "idle" => pc[t] # "idle"
      BY <2>1 DEF IInv, ChanTypeOK, Return
    <2>5. CallsAhead'
      BY <2>1, <2>4, Element DEF IInv, ChanTypeOK, CallsAhead, Behind
    <2>6. ~Lone
      BY <1>2 DEF IInv, RetryHasRoom, Retry
    <2> QED
      BY <2>2, <2>3, <2>5, <2>6 DEF IInv, RetryHasRoom, Lone
  <1> QED
    BY <1>1, <1>2

LEMMA SendFullKeeps ==
    ASSUME IInv, NEW s \in Sender, SendFull(s)
    PROVE  IInv'
  <1>1. /\ calls' \in [Sender -> 0..MaxCalls]
        /\ \A t \in Sender : calls'[t] = (IF t = s THEN calls[t] + 1 ELSE calls[t])
        /\ pc' \in [Sender -> {"idle", "check", "take", "retry"}]
        /\ \A t \in Sender : pc'[t] = (IF t = s THEN "check" ELSE pc[t])
    BY ChannelAssumption DEF IInv, ChanTypeOK, SendFull
  <1>2. ChanTypeOK'
    BY <1>1 DEF IInv, ChanTypeOK, SendFull
  <1>3. OrderKept'
    BY DEF IInv, OrderKept, SendFull
  <1>4. CallsAhead'
    <2>1. ASSUME NEW t \in Sender, NEW m \in Nat, Behind(t, m)
          PROVE  m <= calls'[t] /\ (pc'[t] # "idle" => m < calls'[t])
      BY <1>1, <2>1 DEF IInv, ChanTypeOK, Behind, SendFull
    <2>2. \A i \in 1..Len(ch) : ch[i][1] \in Sender /\ ch[i][2] \in Nat
      BY Element, ChannelAssumption DEF IInv, ChanTypeOK
    <2>3. \A t \in Sender : seen[t] \in Nat
      BY ChannelAssumption DEF IInv, ChanTypeOK
    <2>4. UNCHANGED <<ch, seen>>
      BY DEF SendFull
    <2> QED
      BY <2>1, <2>2, <2>3, <2>4 DEF IInv, CallsAhead, Behind
  <1>5. RetryHasRoom'
    BY <1>1 DEF IInv, RetryHasRoom, Lone, SendFull
  <1> QED
    BY <1>2, <1>3, <1>4, <1>5 DEF IInv

LEMMA CheckKeeps ==
    ASSUME IInv, NEW s \in Sender, Check(s)
    PROVE  IInv'
  <1>1. /\ pc' \in [Sender -> {"idle", "check", "take", "retry"}]
        /\ \A t \in Sender : pc'[t] # "idle" => pc[t] # "idle"
        /\ \A t \in Sender : pc'[t] = "retry" => t = s \/ pc[t] = "retry"
        /\ pc'[s] = "retry" => ~(Len(ch) > Cap \div 2)
    BY DEF IInv, ChanTypeOK, Check
  <1>2. ChanTypeOK'
    BY <1>1 DEF IInv, ChanTypeOK, Check
  <1>3. OrderKept'
    BY DEF IInv, OrderKept, Check
  <1>4. CallsAhead'
    BY <1>1, Element DEF IInv, ChanTypeOK, CallsAhead, Behind, Check
  <1>5. RetryHasRoom'
    <2>1. Len(ch) \in Nat
      BY DEF IInv, ChanTypeOK
    <2>2. ~(Len(ch) > Cap \div 2) => Len(ch) < Cap
      BY <2>1, ChannelAssumption
    <2> QED
      BY <1>1, <2>2 DEF IInv, RetryHasRoom, Lone, Check
  <1> QED
    BY <1>2, <1>3, <1>4, <1>5 DEF IInv

LEMMA TakeKeeps ==
    ASSUME IInv, NEW s \in Sender, Take(s)
    PROVE  IInv'
  <1>1. /\ ch' \in Seq(Parcel)
        /\ Len(ch') <= Cap
        /\ \A i \in 1..Len(ch') : i + 1 \in 1..Len(ch) /\ ch'[i] = ch[i + 1]
        /\ OrderKept'
    BY DropKeeps DEF Take
  <1>2. /\ pc' \in [Sender -> {"idle", "check", "take", "retry"}]
        /\ \A t \in Sender : pc'[t] # "idle" => pc[t] # "idle"
        /\ \A t \in Sender : pc'[t] = "retry" => t # s
        /\ dropped' \in [Sender -> Nat]
    BY DEF IInv, ChanTypeOK, Take
  <1>3. ChanTypeOK'
    BY <1>1, <1>2 DEF IInv, ChanTypeOK, Take
  <1>4. CallsAhead'
    BY <1>1, <1>2, Element DEF IInv, ChanTypeOK, CallsAhead, Behind, Take
  <1>5. RetryHasRoom'
    BY <1>2, LoneSender DEF IInv, RetryHasRoom, Lone, Take
  <1> QED
    BY <1>1, <1>3, <1>4, <1>5 DEF IInv

LEMMA ReceiveKeeps ==
    ASSUME IInv, Receive
    PROVE  IInv'
  <1> DEFINE u == ch[1][1]
  <1> DEFINE m == ch[1][2]
  <1>1. /\ ch' \in Seq(Parcel)
        /\ Len(ch') <= Cap
        /\ Len(ch') <= Len(ch)
        /\ \A i \in 1..Len(ch') : i + 1 \in 1..Len(ch) /\ ch'[i] = ch[i + 1]
        /\ 1 \in 1..Len(ch) /\ Head(ch) = ch[1]
    BY DropKeeps DEF Receive
  <1>2. u \in Sender /\ m \in 1..MaxCalls
    BY <1>1, Element DEF IInv, ChanTypeOK
  <1>3. /\ seen' \in [Sender -> 0..MaxCalls]
        /\ \A t \in Sender : seen'[t] = (IF t = u THEN m ELSE seen[t])
    <2>1. seen' = [seen EXCEPT ![u] = m]
      BY <1>1 DEF Receive
    <2>2. m \in 0..MaxCalls
      BY <1>2
    <2> HIDE DEF u, m
    <2> QED
      BY <1>2, <2>1, <2>2 DEF IInv, ChanTypeOK
  <1>4. ChanTypeOK'
    BY <1>1, <1>3 DEF IInv, ChanTypeOK, Receive, callVars
  <1>5. OrderKept'
    <2>1. ASSUME NEW i \in 1..Len(ch'), NEW j \in 1..Len(ch'), i < j, ch'[i][1] = ch'[j][1]
          PROVE  ch'[i][2] < ch'[j][2]
      BY <1>1, <2>1 DEF IInv, OrderKept
    <2>2. ASSUME NEW i \in 1..Len(ch') PROVE seen'[ch'[i][1]] < ch'[i][2]
      <3>1. ch'[i] = ch[i + 1] /\ i + 1 \in 1..Len(ch) /\ 1 < i + 1
        BY <1>1
      <3>2. ch[i + 1][1] \in Sender
        BY <3>1, Element DEF IInv, ChanTypeOK
      <3> QED
        BY <1>1, <1>3, <3>1, <3>2 DEF IInv, OrderKept
    <2> QED
      BY <2>1, <2>2 DEF OrderKept
  <1>6. CallsAhead'
    <2>1. ASSUME NEW i \in 1..Len(ch) PROVE Behind(ch[i][1], ch[i][2])
      BY DEF IInv, CallsAhead
    <2>2. ASSUME NEW t \in Sender PROVE Behind(t, seen[t])'
      BY <1>1, <1>3, <2>1 DEF IInv, CallsAhead, Behind, Receive, callVars
    <2> QED
      BY <1>1, <2>1, <2>2 DEF CallsAhead, Behind, Receive, callVars
  <1>7. RetryHasRoom'
    <2>1. Len(ch) \in Nat /\ Len(ch') \in Nat
      BY <1>1 DEF IInv, ChanTypeOK
    <2> QED
      BY <1>1, <2>1, ChannelAssumption DEF IInv, RetryHasRoom, Lone, Receive, callVars
  <1> QED
    BY <1>4, <1>5, <1>6, <1>7 DEF IInv

LEMMA NextIInv == IInv /\ [ChanNext]_chanVars => IInv'
  <1>1. IInv /\ UNCHANGED chanVars => IInv'
    BY DEF IInv, chanVars, ChanTypeOK, OrderKept, CallsAhead, Behind, RetryHasRoom, Lone
  <1> QED
    BY <1>1, SendOkKeeps, RetryKeeps, SendFullKeeps, CheckKeeps, TakeKeeps, ReceiveKeeps
       DEF ChanNext, SendStep

LEMMA IInvHolds == ChanSpec => []IInv
  BY InitIInv, NextIInv, PTL DEF ChanSpec

\* Whatever senders and consumer do between the channel operations of Send, the
\* parcels of one sender are received in the order of its calls and none twice.
THEOREM OrderAlwaysKept == ChanSpec => []OrderKept
  <1>1. IInv => OrderKept
    BY DEF IInv
  <1> QED
    BY <1>1, IInvHolds, PTL

\* On a channel with one sender Send never loses the parcel it was given,
\* whatever the capacity: the drop loop leaves room and only the consumer runs
\* before the second select.
THEOREM LoneSenderKeepsNewest == ChanSpec => []LoneKeepsNewest
  <1>1. IInv => LoneKeepsNewest
    BY DEF IInv, RetryHasRoom, LoneKeepsNewest, NewestKept
  <1> QED
    BY <1>1, IInvHolds, PTL

\* The channel is never over its capacity and carries only parcels that were sent,
\* for any number of senders that drop and send at the same time
\* (parcelChannel.go, Send).
THEOREM ChanTypeCorrect == ChanSpec => []ChanTypeOK
  <1>1. IInv => ChanTypeOK
    BY DEF IInv
  <1> QED
    BY <1>1, IInvHolds, PTL

-----------------------------------------------------------------------------
(* The send channel of a peer.  Its senders and its send loop take the steps of a *)
(* ParcelChannel, and one more: a receive from the closed channel.                *)

LEMMA TakeNilKeeps ==
    ASSUME IInv, NEW s \in Sender, TakeNil(s)
    PROVE  IInv'
  <1>1. /\ pc' \in [Sender -> {"idle", "check", "take", "retry"}]
        /\ \A t \in Sender : pc'[t] # "idle" => pc[t] # "idle"
        /\ \A t \in Sender : pc'[t] = "retry" => pc[t] = "retry"
        /\ dropped' \in [Sender -> Nat]
    BY DEF IInv, ChanTypeOK, TakeNil
  <1>2. UNCHANGED <<ch, calls, seen, accepted, refused, received, reported>>
    BY DEF TakeNil
  <1>3. ChanTypeOK'
    BY <1>1, <1>2 DEF IInv, ChanTypeOK
  <1>4. OrderKept'
    BY <1>2 DEF IInv, OrderKept
  <1>5. CallsAhead'
    BY <1>1, <1>2, Element DEF IInv, ChanTypeOK, CallsAhead, Behind
  <1>6. RetryHasRoom'
    BY <1>1, <1>2 DEF IInv, RetryHasRoom, Lone
  <1> QED
    BY <1>3, <1>4, <1>5, <1>6 DEF IInv

LEMMA PeerSendStep ==
    [Next]_vars => [ChanNext]_chanVars \/ \E s \in Sender : TakeNil(s)
  <1> SUFFICES ASSUME [Next]_vars
               PROVE  [ChanNext]_chanVars \/ \E s \in Sender : TakeNil(s)
    OBVIOUS
  <1>1. ASSUME NEW s \in Sender, Enter(s) \/ Panic(s) PROVE UNCHANGED chanVars
    BY <1>1 DEF Enter, Panic
  <1>2. ASSUME NEW s \in Sender, Transmit(s) PROVE ChanNext
    BY <1>2 DEF Transmit, ChanNext, SendStep
  <1>3. CASE Deliver \/ DeliverFails
    BY <1>3 DEF Deliver, DeliverFails, ChanNext
  <1>4. CASE LoopSeesStop \/ LoopCloses \/ Stop \/ UNCHANGED vars
    BY <1>4 DEF LoopSeesStop, LoopCloses, Stop, vars
  <1> QED
    BY <1>1, <1>2, <1>3, <1>4 DEF Next

LEMMA PeerSendIInv == Spec => []IInv
  <1>1. Init => IInv
    BY InitIInv DEF Init
  <1>2. IInv /\ [Next]_vars => IInv'
    BY PeerSendStep, NextIInv, TakeNilKeeps
  <1> QED
    BY <1>1, <1>2, PTL DEF Spec

\* The send channel of a peer is never over its capacity, also when it is closed
\* under the senders (peer.go, Send and sendLoop).
THEOREM PeerSendTypeCorrect == Spec => []ChanTypeOK
  <1>1. IInv => ChanTypeOK
    BY DEF IInv
  <1> QED
    BY <1>1, PeerSendIInv, PTL

\* The send loop gets the parcels of every caller of Peer.Send in the order of its
\* calls and none twice, up to the end of the peer (peer.go, Send and sendLoop).
THEOREM PeerSendOrderKept == Spec => []OrderKept
  <1>1. IInv => OrderKept
    BY DEF IInv
  <1> QED
    BY <1>1, PeerSendIInv, PTL

-----------------------------------------------------------------------------
(* The account of parcels.  The dropped counts of the calls under way are the *)
(* cardinality of a set, which one more dropped parcel makes larger by one    *)
(* and a return smaller by the call's count.                                  *)

LEMMA HeldMembers ==
    ASSUME NEW d \in [Sender -> Nat]
    PROVE  \A x : x \in Held(d) <=> \E s \in Sender : \E n \in 1..d[s] : x = <<s, n>>
  BY DEF Held

LEMMA HeldGrows ==
    ASSUME NEW d \in [Sender -> Nat], IsFiniteSet(Held(d)), NEW s \in Sender
    PROVE  /\ IsFiniteSet(Held([d EXCEPT ![s] = @ + 1]))
           /\ Cardinality(Held([d EXCEPT ![s] = @ + 1])) = Cardinality(Held(d)) + 1
  <1> DEFINE e == [d EXCEPT ![s] = @ + 1]
             x == <<s, d[s] + 1>>
  <1>1. e \in [Sender -> Nat] /\ e[s] = d[s] + 1 /\ \A t \in Sender \ {s} : e[t] = d[t]
    OBVIOUS
  <1> HIDE DEF e
  <1>2. \A t \in Sender : \A n \in 1..e[t] : n \in 1..d[t] \/ (t = s /\ n = d[s] + 1)
    BY <1>1
  <1>3. \A t \in Sender : \A n \in 1..d[t] : n \in 1..e[t]
    BY <1>1
  <1>4. d[s] + 1 \in 1..e[s] /\ d[s] + 1 \notin 1..d[s]
    BY <1>1
  <1>5. Held(e) = Held(d) \cup {x}
    BY <1>1, <1>2, <1>3, <1>4, HeldMembers
  <1>6. x \notin Held(d)
    BY <1>4, HeldMembers
  <1> HIDE DEF x
  <1>7. /\ IsFiniteSet(Held(d) \cup {x})
        /\ Cardinality(Held(d) \cup {x}) = Cardinality(Held(d)) + 1
    BY <1>6, FS_AddElement
  <1>8. IsFiniteSet(Held(e)) /\ Cardinality(Held(e)) = Cardinality(Held(d)) + 1
    BY <1>5, <1>7
  <1> QED
    BY <1>8 DEF e

LEMMA HeldReturned ==
    ASSUME NEW d \in [Sender -> Nat], IsFiniteSet(Held(d)), NEW s \in Sender
    PROVE  /\ IsFiniteSet(Held([d EXCEPT ![s] = 0]))
           /\ Cardinality(Held([d EXCEPT ![s] = 0])) = Cardinality(Held(d)) - d[s]
  <1> DEFINE e == [d EXCEPT ![s] = 0]
             P == {s} \X (1..d[s])
  <1>1. e \in [Sender -> Nat] /\ e[s] = 0 /\ \A t \in Sender \ {s} : e[t] = d[t]
    OBVIOUS
  <1>2. /\ IsFiniteSet({s}) /\ Cardinality({s}) = 1
        /\ IsFiniteSet(1..d[s]) /\ Cardinality(1..d[s]) = d[s] /\ d[s] \in Nat
    <2>1. d[s] \in Nat
      OBVIOUS
    <2>2. IsFiniteSet(1..d[s]) /\ Cardinality(1..d[s]) = IF 1 > d[s] THEN 0 ELSE d[s] - 1 + 1
      BY <2>1, FS_Interval
    <2>3. (IF 1 > d[s] THEN 0 ELSE d[s] - 1 + 1) = d[s]
      BY <2>1
    <2> QED
      BY <2>1, <2>2, <2>3, FS_Singleton
  <1>3. Cardinality(P) = d[s]
    <2>1. Cardinality(P) = Cardinality({s}) * Cardinality(1..d[s])
      BY <1>2, FS_Product
    <2> HIDE DEF P
    <2>2. Cardinality(P) = 1 * d[s]
      BY <1>2, <2>1
    <2> QED
      BY <1>2, <2>2
  <1> HIDE DEF e
  <1>4. \A t \in Sender : \A n \in 1..e[t] : t # s /\ n \in 1..d[t]
    BY <1>1
  <1>5. \A t \in Sender \ {s} : \A n \in 1..d[t] : n \in 1..e[t]
    BY <1>1
  <1>6. \A x : x \in P <=> \E n \in 1..d[s] : x = <<s, n>>
    OBVIOUS
  <1> HIDE DEF P
  <1>7. \A x \in Held(e) : x \in Held(d) /\ x \notin P
    BY <1>1, <1>4, <1>6, HeldMembers
  <1>8. \A x \in Held(d) : x \in P \/ x \in Held(e)
    BY <1>1, <1>5, <1>6, HeldMembers
  <1>9. \A x \in P : x \in Held(d)
    BY <1>6, HeldMembers
  <1>10. Held(e) = Held(d) \ P /\ Held(d) \cap P = P
    BY <1>7, <1>8, <1>9
  <1>11. IsFiniteSet(Held(d) \ P)
         /\ Cardinality(Held(d) \ P) = Cardinality(Held(d)) - Cardinality(Held(d) \cap P)
    BY FS_Difference
  <1> QED
    BY <1>3, <1>10, <1>11 DEF e

HeldFinite == IsFiniteSet(Held(dropped))

LEMMA InitCounted == ChanInit => HeldFinite /\ Conservation
  <1> SUFFICES ASSUME ChanInit PROVE HeldFinite /\ Conservation
    OBVIOUS
  <1>1. dropped \in [Sender -> Nat] /\ \A s \in Sender : dropped[s] = 0
    BY DEF ChanInit
  <1>2. Held(dropped) = {}
    BY <1>1, HeldMembers
  <1>3. IsFiniteSet({}) /\ Cardinality({}) = 0
    BY FS_EmptySet
  <1>4. accepted = 0 /\ Len(ch) = 0 /\ received = 0 /\ reported = 0
    BY DEF ChanInit
  <1> QED
    BY <1>2, <1>3, <1>4 DEF HeldFinite, Conservation

(* A parcel that is accepted, dropped, received or reported stays accounted for. *)
LEMMA StepCounted ==
    ASSUME ChanTypeOK, HeldFinite, [ChanNext]_chanVars
    PROVE  HeldFinite' /\ (Conservation => Conservation')
  <1> DEFINE H == Cardinality(Held(dropped))
             Goal == HeldFinite' /\ (Conservation => Conservation')
  <1>1. /\ ch \in Seq(Parcel) /\ Len(ch) \in Nat /\ dropped \in [Sender -> Nat]
        /\ accepted \in Nat /\ received \in Nat /\ reported \in Nat
        /\ IsFiniteSet(Held(dropped)) /\ H \in Nat
    BY FS_CardinalityType DEF ChanTypeOK, HeldFinite
  <1>2. ASSUME NEW x PROVE Len(Append(ch, x)) = Len(ch) + 1
    BY <1>1
  <1>3. ASSUME NEW s \in Sender, NEW ok \in BOOLEAN, Return(s, ok), UNCHANGED received,
               Len(ch') = IF ok THEN Len(ch) + 1 ELSE Len(ch)
        PROVE  Goal
    <2> DEFINE D == Held([dropped EXCEPT ![s] = 0])
    <2>1. /\ Held(dropped)' = D /\ reported' = reported + dropped[s]
          /\ accepted' = IF ok THEN accepted + 1 ELSE accepted
      BY <1>3 DEF Return, Held
    <2>2. IsFiniteSet(D) /\ Cardinality(D) = H - dropped[s] /\ dropped[s] \in Nat
      BY <1>1, HeldReturned
    <2> HIDE DEF D
    <2>3. Conservation => accepted = Len(ch) + received + reported + H
      BY DEF Conservation
    <2> HIDE DEF H
    <2>4. Conservation =>
            accepted' = Len(ch') + received' + reported' + Cardinality(D)
      BY <1>1, <1>3, <2>1, <2>2, <2>3
    <2> QED
      BY <2>1, <2>2, <2>4 DEF HeldFinite, Conservation
  <1>4. ASSUME NEW s \in Sender, SendOk(s) PROVE Goal
    <2>1. Len(ch') = Len(ch) + 1 /\ Return(s, TRUE) /\ UNCHANGED received
      BY <1>2, <1>4 DEF SendOk
    <2> QED
      BY <1>3, <2>1
  <1>5. ASSUME NEW s \in Sender, Retry(s) PROVE Goal
    <2>1. /\ UNCHANGED received
          /\ \/ Len(ch') = Len(ch) + 1 /\ Return(s, TRUE)
             \/ Len(ch') = Len(ch) /\ Return(s, FALSE)
      BY <1>2, <1>5 DEF Retry
    <2> QED
      BY <1>3, <2>1
  <1>6. ASSUME NEW s \in Sender, SendFull(s) \/ Check(s) PROVE Goal
    BY <1>6 DEF SendFull, Check, HeldFinite, Conservation
  <1>7. ASSUME NEW s \in Sender, Take(s) PROVE Goal
    <2> DEFINE D == Held([dropped EXCEPT ![s] = @ + 1])
    <2>1. Held(dropped)' = D /\ UNCHANGED <<accepted, received, reported>>
      BY <1>7 DEF Take, Held
    <2>2. Len(ch') = Len(ch) - 1
      BY <1>1, <1>7 DEF Take
    <2>3. IsFiniteSet(D) /\ Cardinality(D) = H + 1
      BY <1>1, HeldGrows
    <2> HIDE DEF D
    <2>4. Conservation => accepted = Len(ch) + received + reported + H
      BY DEF Conservation
    <2> HIDE DEF H
    <2>5. Conservation =>
            accepted' = Len(ch') + received' + reported' + Cardinality(D)
      BY <1>1, <2>1, <2>2, <2>3, <2>4
    <2> QED
      BY <2>1, <2>3, <2>5 DEF HeldFinite, Conservation
  <1>8. CASE Receive
    <2>1. /\ UNCHANGED <<accepted, dropped, reported>>
          /\ received' = received + 1 /\ ch' = Tail(ch) /\ ch # << >>
      BY <1>8 DEF Receive, callVars
    <2>2. Len(ch') = Len(ch) - 1
      BY <1>1, <2>1
    <2>3. Held(dropped)' = Held(dropped)
      BY <2>1
    <2>4. Conservation => accepted = Len(ch) + received + reported + H
      BY DEF Conservation
    <2>5. Cardinality(Held(dropped)') = H
      BY <2>3
    <2> HIDE DEF H
    <2>6. Conservation =>
            accepted' = Len(ch') + received' + reported' + Cardinality(Held(dropped)')
      BY <1>1, <2>1, <2>2, <2>4, <2>5
    <2> QED
      BY <1>1, <2>3, <2>6 DEF HeldFinite, Conservation
  <1>9. CASE UNCHANGED chanVars
    BY <1>9 DEF chanVars, HeldFinite, Conservation
  <1> HIDE DEF Goal
  <1>10. Goal
    BY <1>4, <1>5, <1>6, <1>7, <1>8, <1>9 DEF ChanNext, SendStep, Goal
  <1> QED
    BY <1>10 DEF Goal

\* Whatever senders and consumer do at the same time, every parcel the channel
\* accepted is in it, was received or is in a dropped count that a caller gets.
THEOREM AlwaysConserved == ChanSpec => []Conservation
  <1>1. IInv => ChanTypeOK
    BY DEF IInv
  <1> QED
    BY <1>1, InitCounted, StepCounted, IInvHolds, PTL DEF ChanSpec

\* The same of the send channel of a peer, until it is closed: after that the drop
\* loop counts the nils it receives too (peer.go, Send and sendLoop).
THEOREM AlwaysCounted == Spec => []Counted
  <1> DEFINE CountInv == HeldFinite /\ Counted
  <1>1. Init => CountInv
    BY InitCounted DEF Init, Counted
  <1>2. ASSUME IInv, CountInv, [Next]_vars PROVE CountInv'
    <2>1. closed => closed'
      BY <1>2 DEF Next, Enter, Transmit, TakeNil, Panic, Deliver, DeliverFails,
                  LoopSeesStop, LoopCloses, Stop, vars, peerVars
    <2>2. CASE [ChanNext]_chanVars
      BY <1>2, <2>1, <2>2, StepCounted DEF IInv, Counted
    <2>3. ASSUME NEW s \in Sender, TakeNil(s) PROVE CountInv'
      <3>1. closed /\ closed'
        BY <2>3 DEF TakeNil, peerVars
      <3>2. dropped' = [dropped EXCEPT ![s] = @ + 1] /\ dropped \in [Sender -> Nat]
        BY <1>2, <2>3 DEF TakeNil, IInv, ChanTypeOK
      <3>3. HeldFinite'
        BY <1>2, <3>2, HeldGrows DEF HeldFinite
      <3> QED
        BY <3>1, <3>3 DEF Counted
    <2> QED
      BY <1>2, <2>2, <2>3, PeerSendStep
  <1>3. CountInv => Counted
    OBVIOUS
  <1> HIDE DEF CountInv
  <1> QED
    BY <1>1, <1>2, <1>3, PeerSendIInv, PTL DEF Spec

=============================================================================
