------------------------ MODULE PeerLifecycleProofs -------------------------
(***************************************************************************)
(* A live, announced peer is never lost, adding it to the store never      *)
(* fails, and a stopped peer sends one offline notice: for any number of   *)
(* connections and of goroutines that stop them, and any capacity of the   *)
(* status channel.                                                         *)
(***************************************************************************)
EXTENDS PeerLifecycle, SequenceTheorems, FiniteSetTheorems, TLAPS

(* The goroutines. *)

LEMMA Goroutines ==
    /\ Manager \in Goroutine
    /\ Loops \subseteq Goroutine /\ Ctls \subseteq Goroutine
    /\ Manager \notin Loops /\ Manager \notin Ctls
    /\ \A g \in Loops : g[2] \in Peer
    /\ \A p \in Peer : Reader(p) \in Loops /\ Sender(p) \in Loops
  BY DEF Manager, Loops, Ctls, Goroutine, Reader, Sender

(* The status channel. *)

LEMMA Put ==
    ASSUME NEW s \in Seq(Status), NEW e \in Status
    PROVE  /\ Append(s, e) \in Seq(Status)
           /\ Len(Append(s, e)) = Len(s) + 1
           /\ \A i \in 1..Len(s) : Append(s, e)[i] = s[i]
           /\ Append(s, e)[Len(s) + 1] = e
  OBVIOUS

LEMMA Take ==
    ASSUME NEW s \in Seq(Status), s # <<>>
    PROVE  /\ Tail(s) \in Seq(Status)
           /\ Len(Tail(s)) = Len(s) - 1
           /\ \A i \in 1..Len(Tail(s)) : Tail(s)[i] = s[i + 1]
           /\ Head(s) = s[1]
           /\ Len(s) \in Nat \ {0}
           /\ Head(s) \in Status
  OBVIOUS

LEMMA Element ==
    ASSUME NEW s \in Seq(Status), NEW i \in 1..Len(s)
    PROVE  s[i] \in Status /\ s[i].peer \in Peer /\ s[i].online \in BOOLEAN
  <1>1. s[i] \in Status
    OBVIOUS
  <1> QED
    BY <1>1 DEF Status

LEMMA NoticeType ==
    ASSUME NEW p \in Peer, NEW on \in BOOLEAN
    PROVE  Notice(p, on) \in Status /\ Notice(p, on).peer = p /\ Notice(p, on).online = on
  BY DEF Notice, Status

(* A notice stays in the channel until it is received. *)

LEMMA PutQueued ==
    ASSUME peerStatus \in Seq(Status), NEW e \in Status,
           peerStatus' = Append(peerStatus, e), NEW n
    PROVE  Queued(n)' <=> Queued(n) \/ n = e
  <1>1. /\ Len(peerStatus') = Len(peerStatus) + 1
        /\ \A i \in 1..Len(peerStatus) : peerStatus'[i] = peerStatus[i]
        /\ peerStatus'[Len(peerStatus) + 1] = e
        /\ Len(peerStatus) \in Nat
    BY Put
  <1> QED
    BY <1>1 DEF Queued

LEMMA TakeQueued ==
    ASSUME peerStatus \in Seq(Status), peerStatus # <<>>,
           peerStatus' = Tail(peerStatus), NEW n, Queued(n), n # Head(peerStatus)
    PROVE  Queued(n)'
  <1>1. /\ Len(peerStatus') = Len(peerStatus) - 1
        /\ \A i \in 1..Len(peerStatus') : peerStatus'[i] = peerStatus[i + 1]
        /\ Head(peerStatus) = peerStatus[1]
        /\ Len(peerStatus) \in Nat \ {0}
    BY Take
  <1>2. PICK i \in 1..Len(peerStatus) : peerStatus[i] = n
    BY DEF Queued
  <1>3. i # 1 /\ i - 1 \in 1..Len(peerStatus') /\ peerStatus'[i - 1] = n
    BY <1>1, <1>2
  <1> QED
    BY <1>3 DEF Queued

-----------------------------------------------------------------------------
LEMMA InitIInv == Init => IInv
  <1> SUFFICES ASSUME Init PROVE IInv
    OBVIOUS
  <1>1. TypeOK
    <2>1. registry \in PeerMap
      BY DEF Init, PeerMap, EmptyMap
    <2>2. peerStatus \in Seq(Status) /\ Len(peerStatus) <= StatusCap
      BY LifecycleAssumption DEF Init
    <2>3. pc \in [Goroutine -> {"off", "run", "end", "picked", "replace", "add"}]
      BY DEF Init
    <2> QED
      BY <2>1, <2>2, <2>3 DEF Init, TypeOK
  <1>2. WellKeyed
    BY DEF Init, WellKeyed, EmptyMap
  <1>3. NoticeStopped
    BY DEF Init, NoticeStopped
  <1>4. CallStopped
    BY DEF Init, CallStopped
  <1>5. ManagerHolds /\ AddSucceeds
    BY Goroutines DEF Init, ManagerHolds, AddSucceeds
  <1>6. LiveRouted
    BY DEF Init, LiveRouted
  <1> QED
    BY <1>1, <1>2, <1>3, <1>4, <1>5, <1>6 DEF IInv

(* What entering Stop does: the peer is not fresh afterwards, and no peer  *)
(* becomes fresh again.                                                    *)
LEMMA EnterStopEffect ==
    ASSUME TypeOK, CallStopped, NEW g \in Goroutine, NEW p \in Peer, EnterStop(g, p)
    PROVE  /\ once' \in [Peer -> {"fresh", "busy", "done"}]
           /\ call' \in [Goroutine -> {"none", "notify", "wait"}]
           /\ target' \in [Goroutine -> Peer \cup {NoPeer}]
           /\ once'[p] # "fresh"
           /\ \A q \in Peer : once[q] # "fresh" => once'[q] # "fresh"
           /\ \A k \in Goroutine :
                call'[k] # "none" => target'[k] \in Peer /\ once'[target'[k]] # "fresh"
           /\ target'[g] = p
           /\ \A k \in Goroutine \ {g} : target'[k] = target[k]
  <1>1. /\ once' \in [Peer -> {"fresh", "busy", "done"}]
        /\ once'[p] # "fresh"
        /\ \A q \in Peer : once[q] # "fresh" => once'[q] # "fresh"
    BY DEF EnterStop, TypeOK
  <1>2. /\ call' \in [Goroutine -> {"none", "notify", "wait"}]
        /\ \A k \in Goroutine \ {g} : call'[k] = call[k]
    BY DEF EnterStop, TypeOK
  <1>3. /\ target' \in [Goroutine -> Peer \cup {NoPeer}]
        /\ target'[g] = p
        /\ \A k \in Goroutine \ {g} : target'[k] = target[k]
    BY DEF EnterStop, TypeOK
  <1> QED
    BY <1>1, <1>2, <1>3 DEF CallStopped

(* The parts of the invariant that a step keeps when it leaves the queue,  *)
(* the store and the handshakes alone and makes no peer fresh.             *)
LEMMA StopKeeps ==
    ASSUME IInv, UNCHANGED <<hs, peerStatus, registry>>,
           \A q \in Peer : once[q] # "fresh" => once'[q] # "fresh",
           once' \in [Peer -> {"fresh", "busy", "done"}]
    PROVE  /\ WellKeyed'
           /\ NoticeStopped'
           /\ cur' = cur => LiveRouted'
  <1>1. WellKeyed'
    BY DEF IInv, WellKeyed
  <1>2. NoticeStopped'
    <2>1. \A j \in 1..Len(peerStatus) : peerStatus[j].peer \in Peer
      BY Element DEF IInv, TypeOK
    <2> QED
      BY <2>1 DEF IInv, NoticeStopped
  <1>3. ASSUME cur' = cur PROVE LiveRouted'
    BY <1>3 DEF IInv, LiveRouted, Arriving, Queued, Stored
  <1> QED
    BY <1>1, <1>2, <1>3

(* What a step does that puts a notice on the status channel. *)
LEMMA PutKeeps ==
    ASSUME IInv, NEW e \in Status, Len(peerStatus) < StatusCap,
           peerStatus' = Append(peerStatus, e),
           \A q \in Peer : once[q] # "fresh" => once'[q] # "fresh",
           e.online \/ once'[e.peer] # "fresh"
    PROVE  /\ peerStatus' \in Seq(Status)
           /\ Len(peerStatus') <= StatusCap
           /\ \A n : Queued(n) => Queued(n)'
           /\ Queued(e)'
           /\ NoticeStopped'
  <1>1. /\ peerStatus' \in Seq(Status)
        /\ Len(peerStatus') = Len(peerStatus) + 1
        /\ \A j \in 1..Len(peerStatus) : peerStatus'[j] = peerStatus[j]
        /\ peerStatus'[Len(peerStatus) + 1] = e
        /\ Len(peerStatus) \in Nat
    BY Put DEF IInv, TypeOK
  <1>2. \A n : Queued(n)' <=> Queued(n) \/ n = e
    BY PutQueued DEF IInv, TypeOK
  <1>3. \A j \in 1..Len(peerStatus) : peerStatus[j].peer \in Peer
    BY Element DEF IInv, TypeOK
  <1>4. NoticeStopped'
    <2> SUFFICES ASSUME NEW j \in 1..Len(peerStatus'), ~peerStatus'[j].online
                 PROVE  once'[peerStatus'[j].peer] # "fresh"
      BY DEF NoticeStopped
    <2>1. CASE j \in 1..Len(peerStatus)
      BY <1>1, <1>3, <2>1 DEF IInv, NoticeStopped
    <2>2. CASE j = Len(peerStatus) + 1
      BY <1>1, <2>2
    <2> QED
      BY <1>1, <2>1, <2>2
  <1>5. Len(peerStatus') <= StatusCap
    BY <1>1, LifecycleAssumption
  <1> QED
    BY <1>1, <1>2, <1>4, <1>5

(* What a step does that takes a notice from the status channel. *)
LEMMA TakeKeeps ==
    ASSUME IInv, peerStatus # <<>>, peerStatus' = Tail(peerStatus),
           \A q \in Peer : once[q] # "fresh" => once'[q] # "fresh"
    PROVE  /\ peerStatus' \in Seq(Status)
           /\ Len(peerStatus') <= StatusCap
           /\ \A n : Queued(n) /\ n # Head(peerStatus) => Queued(n)'
           /\ NoticeStopped'
           /\ Head(peerStatus).peer \in Peer
           /\ Head(peerStatus).online \in BOOLEAN
           /\ ~Head(peerStatus).online => once[Head(peerStatus).peer] # "fresh"
  <1>1. /\ peerStatus' \in Seq(Status)
        /\ Len(peerStatus') = Len(peerStatus) - 1
        /\ \A j \in 1..Len(peerStatus') : peerStatus'[j] = peerStatus[j + 1]
        /\ Head(peerStatus) = peerStatus[1]
        /\ Len(peerStatus) \in Nat \ {0}
    BY Take DEF IInv, TypeOK
  <1>2. \A j \in 1..Len(peerStatus) :
            peerStatus[j].peer \in Peer /\ peerStatus[j].online \in BOOLEAN
    BY Element DEF IInv, TypeOK
  <1>3. NoticeStopped'
    <2> SUFFICES ASSUME NEW j \in 1..Len(peerStatus'), ~peerStatus'[j].online
                 PROVE  once'[peerStatus'[j].peer] # "fresh"
      BY DEF NoticeStopped
    <2>1. j + 1 \in 1..Len(peerStatus) /\ peerStatus'[j] = peerStatus[j + 1]
      BY <1>1
    <2> QED
      BY <1>2, <2>1 DEF IInv, NoticeStopped
  <1>4. \A n : Queued(n) /\ n # Head(peerStatus) => Queued(n)'
    BY TakeQueued DEF IInv, TypeOK
  <1>5. Len(peerStatus') <= StatusCap
    BY <1>1, LifecycleAssumption DEF IInv, TypeOK
  <1>6. 1 \in 1..Len(peerStatus)
    BY <1>1
  <1> QED
    BY <1>1, <1>2, <1>3, <1>4, <1>5, <1>6 DEF IInv, NoticeStopped

-----------------------------------------------------------------------------
(* One lemma per action, or per group of actions of the same shape. *)

LEMMA NotifyKeeps ==
    ASSUME IInv, NEW g \in Goroutine, NotifyOffline(g)
    PROVE  IInv'
  <1> DEFINE p == target[g]
  <1>1. p \in Peer /\ once[p] # "fresh"
    BY DEF IInv, CallStopped, NotifyOffline
  <1>2. /\ once' \in [Peer -> {"fresh", "busy", "done"}]
        /\ once'[p] = "done"
        /\ \A q \in Peer : once[q] # "fresh" <=> once'[q] # "fresh"
    BY <1>1 DEF IInv, TypeOK, NotifyOffline
  <1>3. /\ call' \in [Goroutine -> {"none", "notify", "wait"}]
        /\ target' \in [Goroutine -> Peer \cup {NoPeer}]
        /\ call'[g] = "none"
        /\ \A k \in Goroutine \ {g} : call'[k] = call[k] /\ target'[k] = target[k]
    BY DEF IInv, TypeOK, NotifyOffline
  <1>4. Notice(p, FALSE) \in Status /\ Notice(p, FALSE).peer = p
    BY <1>1, NoticeType
  <1>5. /\ peerStatus' \in Seq(Status)
        /\ Len(peerStatus') <= StatusCap
        /\ \A n : Queued(n) => Queued(n)'
        /\ NoticeStopped'
    <2>1. CASE UNCHANGED peerStatus
      <3>1. \A j \in 1..Len(peerStatus) : peerStatus[j].peer \in Peer
        BY Element DEF IInv, TypeOK
      <3> QED
        BY <1>2, <2>1, <3>1 DEF IInv, TypeOK, Queued, NoticeStopped
    <2>2. CASE Len(peerStatus) < StatusCap /\ peerStatus' = Append(peerStatus, Notice(p, FALSE))
      BY <1>2, <1>4, <2>2, PutKeeps
    <2> QED
      BY <2>1, <2>2 DEF NotifyOffline
  <1>6. TypeOK'
    BY <1>2, <1>3, <1>5 DEF IInv, TypeOK, NotifyOffline
  <1>7. WellKeyed'
    BY DEF IInv, WellKeyed, NotifyOffline
  <1>8. CallStopped'
    <2>1. ASSUME NEW k \in Goroutine, pc'[k] = "picked" PROVE target'[k] \in Peer
      <3>1. k # g
        BY <2>1 DEF IInv, CallStopped, NotifyOffline
      <3> QED
        BY <1>3, <2>1, <3>1 DEF IInv, CallStopped, NotifyOffline
    <2> QED
      BY <1>2, <1>3, <2>1 DEF IInv, CallStopped, NotifyOffline
  <1>9. ManagerHolds' /\ AddSucceeds'
    BY <1>2 DEF IInv, ManagerHolds, AddSucceeds, NotifyOffline
  <1>10. LiveRouted'
    BY <1>2, <1>5 DEF IInv, LiveRouted, Arriving, Stored, NotifyOffline
  <1> QED
    BY <1>5, <1>6, <1>7, <1>8, <1>9, <1>10 DEF IInv

LEMMA WaitKeeps ==
    ASSUME IInv, NEW g \in Goroutine, WaitStopped(g)
    PROVE  IInv'
  <1>1. /\ call' \in [Goroutine -> {"none", "notify", "wait"}]
        /\ target' \in [Goroutine -> Peer \cup {NoPeer}]
        /\ call'[g] = "none"
        /\ \A k \in Goroutine \ {g} : call'[k] = call[k] /\ target'[k] = target[k]
    BY DEF IInv, TypeOK, WaitStopped
  <1>2. TypeOK'
    BY <1>1 DEF IInv, TypeOK, WaitStopped
  <1>3. WellKeyed' /\ NoticeStopped' /\ LiveRouted'
    BY StopKeeps DEF IInv, TypeOK, WaitStopped
  <1>4. CallStopped'
    <2>1. ASSUME NEW k \in Goroutine, pc'[k] = "picked"
          PROVE  call'[k] = "none" /\ target'[k] \in Peer
      <3>1. k # g
        BY <2>1 DEF IInv, CallStopped, WaitStopped
      <3> QED
        BY <1>1, <2>1, <3>1 DEF IInv, CallStopped, WaitStopped
    <2> QED
      BY <1>1, <2>1 DEF IInv, CallStopped, WaitStopped
  <1>5. ManagerHolds' /\ AddSucceeds'
    BY DEF IInv, ManagerHolds, AddSucceeds, WaitStopped
  <1> QED
    BY <1>2, <1>3, <1>4, <1>5 DEF IInv

LEMMA NewPeerKeeps ==
    ASSUME IInv, NEW p \in Peer, NewPeer(p)
    PROVE  IInv'
  <1>1. /\ pc' \in [Goroutine -> {"off", "run", "end", "picked", "replace", "add"}]
        /\ pc'[Manager] = pc[Manager]
        /\ \A g \in Goroutine : pc'[g] = "picked" => pc[g] = "picked"
    <2>1. Reader(p) \in Goroutine \ {Manager} /\ Sender(p) \in Goroutine \ {Manager}
      BY Goroutines
    <2> QED
      BY <2>1, Goroutines DEF IInv, TypeOK, NewPeer
  <1>2. /\ hs' \in [Peer -> {"pending", "made", "announced"}]
        /\ \A q \in Peer : hs'[q] = "announced" => hs[q] = "announced"
    BY DEF IInv, TypeOK, NewPeer
  <1>3. TypeOK'
    BY <1>1, <1>2 DEF IInv, TypeOK, NewPeer
  <1>4. WellKeyed' /\ NoticeStopped'
    BY DEF IInv, WellKeyed, NoticeStopped, NewPeer
  <1>5. CallStopped'
    BY <1>1 DEF IInv, CallStopped, NewPeer
  <1>6. ManagerHolds' /\ AddSucceeds'
    BY <1>1 DEF IInv, ManagerHolds, AddSucceeds, NewPeer
  <1>7. LiveRouted'
    BY <1>2 DEF IInv, LiveRouted, Arriving, Queued, Stored, NewPeer
  <1> QED
    BY <1>3, <1>4, <1>5, <1>6, <1>7 DEF IInv

LEMMA AnnounceKeeps ==
    ASSUME IInv, NEW p \in Peer, Announce(p)
    PROVE  IInv'
  <1>1. /\ peerStatus' \in Seq(Status)
        /\ Len(peerStatus') <= StatusCap
        /\ \A n : Queued(n) => Queued(n)'
        /\ Queued(Notice(p, TRUE))'
        /\ NoticeStopped'
    <2>1. Notice(p, TRUE) \in Status /\ Notice(p, TRUE).online
      BY NoticeType
    <2> QED
      BY <2>1, PutKeeps DEF Announce
  <1>2. hs' \in [Peer -> {"pending", "made", "announced"}]
    BY DEF IInv, TypeOK, Announce
  <1>3. TypeOK'
    BY <1>1, <1>2 DEF IInv, TypeOK, Announce
  <1>4. WellKeyed' /\ CallStopped'
    BY DEF IInv, WellKeyed, CallStopped, Announce
  <1>5. ManagerHolds' /\ AddSucceeds'
    BY DEF IInv, ManagerHolds, AddSucceeds, Announce
  <1>6. LiveRouted'
    <2>1. ASSUME NEW q \in Peer, q # p, hs'[q] = "announced" PROVE hs[q] = "announced"
      BY <2>1 DEF IInv, TypeOK, Announce
    <2> QED
      BY <1>1, <2>1 DEF IInv, LiveRouted, Arriving, Stored, Announce
  <1> QED
    BY <1>1, <1>3, <1>4, <1>5, <1>6 DEF IInv

LEMMA LeaveLoopKeeps ==
    ASSUME IInv, NEW g \in Loops, LeaveLoop(g)
    PROVE  IInv'
  <1>1. g \in Goroutine /\ g[2] \in Peer /\ g # Manager
    BY Goroutines
  <1>2. /\ once' \in [Peer -> {"fresh", "busy", "done"}]
        /\ call' \in [Goroutine -> {"none", "notify", "wait"}]
        /\ target' \in [Goroutine -> Peer \cup {NoPeer}]
        /\ \A q \in Peer : once[q] # "fresh" => once'[q] # "fresh"
        /\ \A k \in Goroutine :
                call'[k] # "none" => target'[k] \in Peer /\ once'[target'[k]] # "fresh"
        /\ \A k \in Goroutine \ {g} : target'[k] = target[k]
    BY <1>1, EnterStopEffect DEF IInv, LeaveLoop
  <1>3. /\ pc' \in [Goroutine -> {"off", "run", "end", "picked", "replace", "add"}]
        /\ pc'[Manager] = pc[Manager]
        /\ \A k \in Goroutine : pc'[k] = "picked" => k # g /\ pc[k] = "picked"
    BY <1>1, Goroutines DEF IInv, TypeOK, LeaveLoop
  <1>4. TypeOK'
    BY <1>2, <1>3 DEF IInv, TypeOK, LeaveLoop
  <1>5. WellKeyed' /\ NoticeStopped' /\ LiveRouted'
    BY <1>2, StopKeeps DEF LeaveLoop
  <1>6. CallStopped'
    <2>1. \A k \in Goroutine \ {g} : call'[k] = call[k]
      BY DEF IInv, TypeOK, LeaveLoop, EnterStop
    <2> QED
      BY <1>2, <1>3, <2>1 DEF IInv, CallStopped
  <1>7. ManagerHolds' /\ AddSucceeds'
    BY <1>2, <1>3 DEF IInv, ManagerHolds, AddSucceeds, LeaveLoop
  <1> QED
    BY <1>4, <1>5, <1>6, <1>7 DEF IInv

LEMMA CtlPickKeeps ==
    ASSUME IInv, NEW g \in Ctls, NEW p \in Peer, CtlPick(g, p)
    PROVE  IInv'
  <1>1. g \in Goroutine /\ g # Manager
    BY Goroutines
  <1>2. /\ pc' \in [Goroutine -> {"off", "run", "end", "picked", "replace", "add"}]
        /\ pc'[Manager] = pc[Manager]
        /\ \A k \in Goroutine \ {g} : pc'[k] = pc[k] /\ target'[k] = target[k]
        /\ target' \in [Goroutine -> Peer \cup {NoPeer}]
        /\ target'[g] = p
        /\ call[g] = "none"
    BY <1>1, Goroutines DEF IInv, TypeOK, CtlPick
  <1>3. TypeOK'
    BY <1>2 DEF IInv, TypeOK, CtlPick
  <1>4. WellKeyed' /\ NoticeStopped' /\ LiveRouted'
    BY StopKeeps DEF IInv, TypeOK, CtlPick
  <1>5. CallStopped'
    BY <1>2 DEF IInv, CallStopped, CtlPick
  <1>6. ManagerHolds' /\ AddSucceeds'
    BY <1>2 DEF IInv, ManagerHolds, AddSucceeds, CtlPick
  <1> QED
    BY <1>3, <1>4, <1>5, <1>6 DEF IInv

LEMMA CtlStopKeeps ==
    ASSUME IInv, NEW g \in Ctls, CtlStop(g)
    PROVE  IInv'
  <1>1. g \in Goroutine /\ g # Manager /\ target[g] \in Peer
    BY Goroutines DEF IInv, CallStopped, CtlStop
  <1>2. /\ once' \in [Peer -> {"fresh", "busy", "done"}]
        /\ call' \in [Goroutine -> {"none", "notify", "wait"}]
        /\ target' \in [Goroutine -> Peer \cup {NoPeer}]
        /\ \A q \in Peer : once[q] # "fresh" => once'[q] # "fresh"
        /\ \A k \in Goroutine :
                call'[k] # "none" => target'[k] \in Peer /\ once'[target'[k]] # "fresh"
        /\ \A k \in Goroutine \ {g} : target'[k] = target[k]
    BY <1>1, EnterStopEffect DEF IInv, CtlStop
  <1>3. /\ pc' \in [Goroutine -> {"off", "run", "end", "picked", "replace", "add"}]
        /\ pc'[Manager] = pc[Manager]
        /\ \A k \in Goroutine : pc'[k] = "picked" => k # g /\ pc[k] = "picked"
    BY <1>1, Goroutines DEF IInv, TypeOK, CtlStop
  <1>4. TypeOK'
    BY <1>2, <1>3 DEF IInv, TypeOK, CtlStop
  <1>5. WellKeyed' /\ NoticeStopped' /\ LiveRouted'
    BY <1>2, StopKeeps DEF CtlStop
  <1>6. CallStopped'
    <2>1. \A k \in Goroutine \ {g} : call'[k] = call[k]
      BY DEF IInv, TypeOK, CtlStop, EnterStop
    <2> QED
      BY <1>2, <1>3, <2>1 DEF IInv, CallStopped
  <1>7. ManagerHolds' /\ AddSucceeds'
    BY <1>2, <1>3 DEF IInv, ManagerHolds, AddSucceeds, CtlStop
  <1> QED
    BY <1>4, <1>5, <1>6, <1>7 DEF IInv

(* Taking one object out of the map takes no other object out. *)
LEMMA RemoveEffect ==
    ASSUME NEW m \in PeerMap, \A h \in Hash : m[h] # NoPeer => HashOf[m[h]] = h,
           NEW p \in Peer
    PROVE  /\ RemoveFrom(m, p) \in PeerMap
           /\ \A h \in Hash : RemoveFrom(m, p)[h] # NoPeer => HashOf[RemoveFrom(m, p)[h]] = h
           /\ Stored(RemoveFrom(m, p)) = Stored(m) \ {p}
           /\ m[HashOf[p]] = p => RemoveFrom(m, p)[HashOf[p]] = NoPeer
  BY PeerAssumption DEF PeerMap, RemoveFrom, Stored

LEMMA AddEffect ==
    ASSUME NEW m \in PeerMap, \A h \in Hash : m[h] # NoPeer => HashOf[m[h]] = h,
           NEW p \in Peer, m[HashOf[p]] = NoPeer
    PROVE  /\ AddTo(m, p) \in PeerMap
           /\ \A h \in Hash : AddTo(m, p)[h] # NoPeer => HashOf[AddTo(m, p)[h]] = h
           /\ Stored(AddTo(m, p)) = Stored(m) \cup {p}
  BY PeerAssumption DEF PeerMap, AddTo, Stored

LEMMA RemoveOfflineKeeps ==
    ASSUME IInv, RemoveOffline
    PROVE  IInv'
  <1> DEFINE p == Head(peerStatus).peer
  <1>1. /\ peerStatus' \in Seq(Status)
        /\ Len(peerStatus') <= StatusCap
        /\ \A n : Queued(n) /\ n # Head(peerStatus) => Queued(n)'
        /\ NoticeStopped'
        /\ p \in Peer
        /\ once[p] # "fresh"
    BY TakeKeeps DEF RemoveOffline
  <1>2. /\ registry' \in PeerMap
        /\ WellKeyed'
        /\ Stored(registry)' = Stored(registry) \ {p}
    BY <1>1, RemoveEffect DEF IInv, TypeOK, WellKeyed, RemoveOffline, Stored
  <1>3. TypeOK'
    BY <1>1, <1>2 DEF IInv, TypeOK, RemoveOffline
  <1>4. CallStopped'
    BY DEF IInv, CallStopped, RemoveOffline
  <1>5. ManagerHolds' /\ AddSucceeds'
    BY DEF IInv, ManagerHolds, AddSucceeds, RemoveOffline
  <1>6. LiveRouted'
    <2>1. ASSUME NEW q \in Peer PROVE Notice(q, TRUE) # Head(peerStatus)
      BY NoticeType DEF RemoveOffline
    <2> QED
      BY <1>1, <1>2, <2>1 DEF IInv, LiveRouted, Arriving, RemoveOffline
  <1> QED
    BY <1>1, <1>2, <1>3, <1>4, <1>5, <1>6 DEF IInv

LEMMA TakeOnlineKeeps ==
    ASSUME IInv, TakeOnline
    PROVE  IInv'
  <1> DEFINE p == Head(peerStatus).peer
  <1>1. /\ peerStatus' \in Seq(Status)
        /\ Len(peerStatus') <= StatusCap
        /\ \A n : Queued(n) /\ n # Head(peerStatus) => Queued(n)'
        /\ NoticeStopped'
        /\ p \in Peer
    BY TakeKeeps DEF TakeOnline
  <1>2. /\ pc' \in [Goroutine -> {"off", "run", "end", "picked", "replace", "add"}]
        /\ pc'[Manager] = "add"
        /\ \A k \in Goroutine : pc'[k] = "picked" => pc[k] = "picked"
    BY Goroutines DEF IInv, TypeOK, TakeOnline
  <1>3. TypeOK'
    BY <1>1, <1>2 DEF IInv, TypeOK, TakeOnline
  <1>4. WellKeyed' /\ CallStopped'
    BY <1>2 DEF IInv, WellKeyed, CallStopped, TakeOnline
  <1>5. ManagerHolds' /\ AddSucceeds'
    BY <1>1, <1>2 DEF ManagerHolds, AddSucceeds, TakeOnline
  <1>6. LiveRouted'
    <2>1. ASSUME NEW q \in Peer, q # p PROVE Notice(q, TRUE) # Head(peerStatus)
      BY <2>1, NoticeType
    <2>2. cur = NoPeer /\ cur' = p
      BY DEF IInv, ManagerHolds, TakeOnline
    <2> QED
      BY <1>1, <2>1, <2>2, PeerAssumption
         DEF IInv, LiveRouted, Arriving, Stored, TakeOnline
  <1> QED
    BY <1>1, <1>3, <1>4, <1>5, <1>6 DEF IInv

LEMMA TakeReplacementKeeps ==
    ASSUME IInv, TakeReplacement
    PROVE  IInv'
  <1> DEFINE p == Head(peerStatus).peer
  <1> DEFINE r == registry[HashOf[p]]
  <1>1. p \in Peer
    BY Element, Take DEF IInv, TypeOK, TakeReplacement
  <1>2. r \in Peer /\ HashOf[p] \in Hash
    BY <1>1, PeerAssumption DEF IInv, TypeOK, PeerMap, TakeReplacement
  <1>3. old' = r /\ EnterStop(Manager, r)
    BY DEF TakeReplacement
  <1>4. /\ once' \in [Peer -> {"fresh", "busy", "done"}]
        /\ call' \in [Goroutine -> {"none", "notify", "wait"}]
        /\ target' \in [Goroutine -> Peer \cup {NoPeer}]
        /\ once'[r] # "fresh"
        /\ \A q \in Peer : once[q] # "fresh" => once'[q] # "fresh"
        /\ \A k \in Goroutine :
                call'[k] # "none" => target'[k] \in Peer /\ once'[target'[k]] # "fresh"
        /\ \A k \in Goroutine \ {Manager} : target'[k] = target[k]
    BY <1>2, <1>3, Goroutines, EnterStopEffect DEF IInv
  <1>5. /\ peerStatus' \in Seq(Status)
        /\ Len(peerStatus') <= StatusCap
        /\ \A n : Queued(n) /\ n # Head(peerStatus) => Queued(n)'
        /\ NoticeStopped'
    BY <1>4, TakeKeeps DEF TakeReplacement
  <1>6. /\ pc' \in [Goroutine -> {"off", "run", "end", "picked", "replace", "add"}]
        /\ pc'[Manager] = "replace"
        /\ \A k \in Goroutine : pc'[k] = "picked" => k # Manager /\ pc[k] = "picked"
    BY Goroutines DEF IInv, TypeOK, TakeReplacement
  <1>7. TypeOK'
    BY <1>1, <1>2, <1>3, <1>4, <1>5, <1>6 DEF IInv, TypeOK, TakeReplacement
  <1>8. WellKeyed'
    BY DEF IInv, WellKeyed, TakeReplacement
  <1>9. CallStopped'
    <2>1. \A k \in Goroutine \ {Manager} : call'[k] = call[k]
      BY <1>3 DEF IInv, TypeOK, EnterStop
    <2> QED
      BY <1>4, <1>6, <2>1 DEF IInv, CallStopped
  <1>10. ManagerHolds' /\ AddSucceeds'
    BY <1>1, <1>2, <1>3, <1>4, <1>6 DEF ManagerHolds, AddSucceeds, TakeReplacement
  <1>11. LiveRouted'
    <2>1. ASSUME NEW q \in Peer, q # p PROVE Notice(q, TRUE) # Head(peerStatus)
      BY <2>1, NoticeType
    <2>2. cur = NoPeer /\ cur' = p
      BY DEF IInv, ManagerHolds, TakeReplacement
    <2> QED
      BY <1>4, <1>5, <2>1, <2>2, PeerAssumption
         DEF IInv, LiveRouted, Arriving, Stored, TakeReplacement
  <1> QED
    BY <1>5, <1>7, <1>8, <1>9, <1>10, <1>11 DEF IInv

LEMMA RemoveOldKeeps ==
    ASSUME IInv, RemoveOld
    PROVE  IInv'
  <1>1. /\ old \in Peer /\ once[old] # "fresh"
        /\ cur \in Peer /\ registry[HashOf[cur]] = old
        /\ HashOf[old] = HashOf[cur]
    BY PeerAssumption DEF IInv, ManagerHolds, WellKeyed, RemoveOld
  <1>2. /\ registry' \in PeerMap
        /\ WellKeyed'
        /\ Stored(registry)' = Stored(registry) \ {old}
        /\ registry'[HashOf[cur]] = NoPeer
    BY <1>1, RemoveEffect DEF IInv, TypeOK, WellKeyed, RemoveOld, Stored
  <1>3. /\ pc' \in [Goroutine -> {"off", "run", "end", "picked", "replace", "add"}]
        /\ pc'[Manager] = "add"
        /\ \A k \in Goroutine : pc'[k] = "picked" => pc[k] = "picked"
    BY Goroutines DEF IInv, TypeOK, RemoveOld
  <1>4. TypeOK'
    BY <1>2, <1>3 DEF IInv, TypeOK, RemoveOld
  <1>5. NoticeStopped' /\ CallStopped'
    BY <1>3 DEF IInv, NoticeStopped, CallStopped, RemoveOld
  <1>6. ManagerHolds' /\ AddSucceeds'
    BY <1>1, <1>2, <1>3 DEF ManagerHolds, AddSucceeds, RemoveOld
  <1>7. LiveRouted'
    BY <1>1, <1>2 DEF IInv, LiveRouted, Arriving, Queued, RemoveOld
  <1> QED
    BY <1>2, <1>4, <1>5, <1>6, <1>7 DEF IInv

LEMMA AddNewKeeps ==
    ASSUME IInv, AddNew
    PROVE  IInv'
  <1>1. cur \in Peer /\ registry[HashOf[cur]] = NoPeer
    BY DEF IInv, ManagerHolds, AddSucceeds, AddNew
  <1>2. /\ registry' \in PeerMap
        /\ WellKeyed'
        /\ Stored(registry)' = Stored(registry) \cup {cur}
    BY <1>1, AddEffect DEF IInv, TypeOK, WellKeyed, AddNew, Stored
  <1>3. /\ pc' \in [Goroutine -> {"off", "run", "end", "picked", "replace", "add"}]
        /\ pc'[Manager] = "run"
        /\ \A k \in Goroutine : pc'[k] = "picked" => pc[k] = "picked"
    BY Goroutines DEF IInv, TypeOK, AddNew
  <1>4. TypeOK'
    BY <1>2, <1>3 DEF IInv, TypeOK, AddNew
  <1>5. NoticeStopped' /\ CallStopped'
    BY <1>3 DEF IInv, NoticeStopped, CallStopped, AddNew
  <1>6. ManagerHolds' /\ AddSucceeds'
    BY <1>3 DEF ManagerHolds, AddSucceeds, AddNew
  <1>7. LiveRouted'
    BY <1>1, <1>2 DEF IInv, LiveRouted, Arriving, Queued, AddNew
  <1> QED
    BY <1>2, <1>4, <1>5, <1>6, <1>7 DEF IInv

LEMMA EndKeeps ==
    ASSUME IInv, ManagerEnd \/ NetworkStop \/ UNCHANGED vars
    PROVE  IInv'
  <1>1. UNCHANGED <<hs, once, call, target, peerStatus, registry, cur, old>>
    BY DEF ManagerEnd, NetworkStop, vars
  <1>2. /\ pc' \in [Goroutine -> {"off", "run", "end", "picked", "replace", "add"}]
        /\ \/ pc'[Manager] = pc[Manager]
           \/ pc[Manager] = "run" /\ pc'[Manager] = "end"
        /\ \A k \in Goroutine : pc'[k] = "picked" => pc[k] = "picked"
    <2>1. CASE ManagerEnd
      BY <2>1, Goroutines DEF IInv, TypeOK, ManagerEnd
    <2>2. CASE NetworkStop \/ UNCHANGED vars
      BY <2>2 DEF IInv, TypeOK, NetworkStop, vars
    <2> QED
      BY <2>1, <2>2
  <1>3. netStopped' \in BOOLEAN
    BY DEF IInv, TypeOK, ManagerEnd, NetworkStop, vars
  <1>4. TypeOK'
    BY <1>1, <1>2, <1>3 DEF IInv, TypeOK
  <1>5. WellKeyed' /\ NoticeStopped' /\ LiveRouted'
    BY <1>1, StopKeeps DEF IInv, TypeOK
  <1>6. CallStopped'
    BY <1>1, <1>2 DEF IInv, CallStopped
  <1>7. ManagerHolds' /\ AddSucceeds'
    BY <1>1, <1>2 DEF IInv, ManagerHolds, AddSucceeds
  <1> QED
    BY <1>4, <1>5, <1>6, <1>7 DEF IInv

-----------------------------------------------------------------------------
LEMMA NextIInv == IInv /\ [Next]_vars => IInv'
  <1> SUFFICES ASSUME IInv, [Next]_vars PROVE IInv'
    OBVIOUS
  <1>1. ASSUME NEW p \in Peer, NewPeer(p) \/ Announce(p) PROVE IInv'
    BY <1>1, NewPeerKeeps, AnnounceKeeps
  <1>2. ASSUME NEW g \in Goroutine, NotifyOffline(g) \/ WaitStopped(g) PROVE IInv'
    BY <1>2, NotifyKeeps, WaitKeeps
  <1>3. ASSUME NEW g \in Loops, LeaveLoop(g) PROVE IInv'
    BY <1>3, LeaveLoopKeeps
  <1>4. ASSUME NEW g \in Ctls, CtlStop(g) \/ \E p \in Peer : CtlPick(g, p) PROVE IInv'
    BY <1>4, CtlStopKeeps, CtlPickKeeps
  <1>5. ASSUME ManagerStep PROVE IInv'
    BY <1>5, RemoveOfflineKeeps, TakeOnlineKeeps, TakeReplacementKeeps, RemoveOldKeeps,
       AddNewKeeps, EndKeeps DEF ManagerStep
  <1>6. CASE NetworkStop \/ UNCHANGED vars
    BY <1>6, EndKeeps
  <1> QED
    BY <1>1, <1>2, <1>3, <1>4, <1>5, <1>6 DEF Next

LEMMA IInvHolds == Spec => []IInv
  BY InitIInv, NextIInv, PTL DEF Spec

\* The variables keep their types in every behaviour, and the status channel
\* never holds more than its capacity.
THEOREM TypeCorrect == Spec => []TypeOK
  <1>1. IInv => TypeOK
    BY DEF IInv
  <1> QED
    BY <1>1, IInvHolds, PTL

\* A peer that was announced and that nobody stopped is in the store or on its
\* way there, whatever old connections with the same hash do: the pointer
\* comparison of PeerStore.Remove and the order Stop, Remove, Add of
\* manageOnline are what the proof rests on.
THEOREM LiveAlwaysRouted == Spec => []LiveRouted
  <1>1. IInv => LiveRouted
    BY DEF IInv
  <1> QED
    BY <1>1, IInvHolds, PTL

\* The error branch of manageOnline's Add is dead: the hash of the announced
\* peer is always free when Add is reached.
THEOREM AddAlwaysSucceeds == Spec => []AddSucceeds
  <1>1. IInv => AddSucceeds
    BY DEF IInv
  <1> QED
    BY <1>1, IInvHolds, PTL

-----------------------------------------------------------------------------
(* One offline notice per peer.  What makes OneNotice inductive, beside    *)
(* IInv: at most one goroutine is about to send the notice, none while the *)
(* notice is in the channel, and it is there once.                         *)

Absent(s, p) == \A i \in 1..Len(s) : s[i] # Notice(p, FALSE)

NotTwice(s) ==
    \A p \in Peer : \A i, j \in 1..Len(s) :
        s[i] = Notice(p, FALSE) /\ s[j] = Notice(p, FALSE) => i = j

Notifies(g) == call[g] = "notify"

SingleNotice ==
    /\ \A g, k \in Goroutine : Notifies(g) /\ Notifies(k) /\ target[g] = target[k] => g = k
    /\ \A g \in Goroutine : Notifies(g) => Absent(peerStatus, target[g])
    /\ NotTwice(peerStatus)

(* How the channel operations change what is in the channel. *)
LEMMA TakeSingle ==
    ASSUME NEW s \in Seq(Status), s # <<>>
    PROVE  /\ NotTwice(s) => NotTwice(Tail(s))
           /\ \A p \in Peer : Absent(s, p) => Absent(Tail(s), p)
  <1>1. /\ Len(Tail(s)) = Len(s) - 1 /\ Len(s) \in Nat \ {0}
        /\ \A i \in 1..Len(Tail(s)) : Tail(s)[i] = s[i + 1]
    BY Take
  <1>2. \A i \in 1..Len(Tail(s)) : i + 1 \in 1..Len(s)
    BY <1>1
  <1>3. ASSUME NotTwice(s), NEW p \in Peer, NEW i \in 1..Len(Tail(s)), NEW j \in 1..Len(Tail(s)),
               Tail(s)[i] = Notice(p, FALSE), Tail(s)[j] = Notice(p, FALSE)
        PROVE  i = j
    <2>1. i + 1 = j + 1
      BY <1>1, <1>2, <1>3 DEF NotTwice
    <2> QED
      BY <2>1
  <1>4. NotTwice(s) => NotTwice(Tail(s))
    BY <1>3 DEF NotTwice
  <1>5. \A p \in Peer : Absent(s, p) => Absent(Tail(s), p)
    BY <1>1, <1>2 DEF Absent
  <1> QED
    BY <1>4, <1>5

LEMMA PutSingle ==
    ASSUME NEW s \in Seq(Status), NEW e \in Status, NotTwice(s),
           e.online \/ Absent(s, e.peer)
    PROVE  /\ NotTwice(Append(s, e))
           /\ \A p \in Peer : Absent(s, p) /\ e # Notice(p, FALSE) => Absent(Append(s, e), p)
  <1>1. /\ Len(Append(s, e)) = Len(s) + 1 /\ Len(s) \in Nat
        /\ \A i \in 1..Len(s) : Append(s, e)[i] = s[i]
        /\ Append(s, e)[Len(s) + 1] = e
    BY Put
  <1>2. \A i \in 1..Len(Append(s, e)) : i \in 1..Len(s) \/ i = Len(s) + 1
    BY <1>1
  <1>3. ASSUME NEW p \in Peer, e = Notice(p, FALSE)
        PROVE  Absent(s, p)
    <2>1. e.online = FALSE /\ e.peer = p
      BY <1>3, NoticeType
    <2> QED
      BY <2>1
  <1>4. NotTwice(Append(s, e))
    <2>1. ASSUME NEW p \in Peer,
                 NEW i \in 1..Len(Append(s, e)), NEW j \in 1..Len(Append(s, e)),
                 Append(s, e)[i] = Notice(p, FALSE), Append(s, e)[j] = Notice(p, FALSE)
          PROVE  i = j
      <3>1. CASE i \in 1..Len(s) /\ j \in 1..Len(s)
        BY <1>1, <2>1, <3>1 DEF NotTwice
      <3>2. CASE i = Len(s) + 1 /\ j \in 1..Len(s)
        BY <1>1, <1>3, <2>1, <3>2 DEF Absent
      <3>3. CASE j = Len(s) + 1 /\ i \in 1..Len(s)
        BY <1>1, <1>3, <2>1, <3>3 DEF Absent
      <3> QED
        BY <1>2, <3>1, <3>2, <3>3
    <2> QED
      BY <2>1 DEF NotTwice
  <1>5. \A p \in Peer : Absent(s, p) /\ e # Notice(p, FALSE) => Absent(Append(s, e), p)
    BY <1>1, <1>2 DEF Absent
  <1> QED
    BY <1>4, <1>5

(* A fresh peer has no notice, on its way or in the channel. *)
LEMMA FreshSilent ==
    ASSUME IInv, NEW p \in Peer, once[p] = "fresh"
    PROVE  /\ Absent(peerStatus, p)
           /\ \A g \in Goroutine : Notifies(g) => target[g] \in Peer /\ target[g] # p
  <1>1. ASSUME NEW i \in 1..Len(peerStatus), peerStatus[i] = Notice(p, FALSE)
        PROVE  FALSE
    <2>1. peerStatus[i].online = FALSE /\ peerStatus[i].peer = p
      BY <1>1, NoticeType
    <2> QED
      BY <2>1 DEF IInv, NoticeStopped
  <1>2. ASSUME NEW g \in Goroutine, Notifies(g)
        PROVE  target[g] \in Peer /\ target[g] # p
    BY <1>2 DEF IInv, CallStopped, Notifies
  <1> QED
    BY <1>1, <1>2 DEF Absent

LEMMA SingleInit == Init => SingleNotice
  <1> SUFFICES ASSUME Init PROVE SingleNotice
    OBVIOUS
  <1>1. \A g \in Goroutine : ~Notifies(g)
    BY DEF Init, Notifies
  <1>2. peerStatus = <<>>
    BY DEF Init
  <1> QED
    BY <1>1, <1>2 DEF SingleNotice, NotTwice

(* A step in which nobody new is about to send, and the channel is left    *)
(* alone, loses its head or gets an online notice.                         *)
LEMMA SingleShrinks ==
    ASSUME IInv, SingleNotice,
           \A g \in Goroutine : Notifies(g)' => Notifies(g) /\ target'[g] = target[g],
           \/ UNCHANGED peerStatus
           \/ peerStatus # <<>> /\ peerStatus' = Tail(peerStatus)
           \/ \E p \in Peer : peerStatus' = Append(peerStatus, Notice(p, TRUE))
    PROVE  SingleNotice'
  <1> DEFINE Stays ==
        /\ NotTwice(peerStatus')
        /\ \A p \in Peer : Absent(peerStatus, p) => Absent(peerStatus', p)
  <1>1. Stays
    <2>0. peerStatus \in Seq(Status) /\ NotTwice(peerStatus)
      BY DEF IInv, TypeOK, SingleNotice
    <2>1. CASE UNCHANGED peerStatus
      BY <2>0, <2>1 DEF NotTwice, Absent
    <2>2. CASE peerStatus # <<>> /\ peerStatus' = Tail(peerStatus)
      BY <2>0, <2>2, TakeSingle
    <2>3. ASSUME NEW p \in Peer, peerStatus' = Append(peerStatus, Notice(p, TRUE))
          PROVE  Stays
      <3>1. Notice(p, TRUE) \in Status /\ Notice(p, TRUE).online
            /\ \A q \in Peer : Notice(p, TRUE) # Notice(q, FALSE)
        BY NoticeType DEF Notice
      <3> QED
        BY <2>0, <2>3, <3>1, PutSingle
    <2> QED
      BY <2>1, <2>2, <2>3
  <1>2. \A g \in Goroutine : Notifies(g) => target[g] \in Peer
    BY DEF IInv, CallStopped, Notifies
  <1>3. \A g, k \in Goroutine :
            Notifies(g)' /\ Notifies(k)' /\ target'[g] = target'[k] => g = k
    BY DEF SingleNotice
  <1>4. \A g \in Goroutine : Notifies(g)' => Absent(peerStatus', target'[g])
    BY <1>1, <1>2 DEF SingleNotice
  <1> QED
    BY <1>1, <1>3, <1>4 DEF SingleNotice, NotTwice, Absent

(* Entering Stop: the goroutine is about to send only if the peer is fresh. *)
LEMMA EnterSingle ==
    ASSUME IInv, SingleNotice, NEW g \in Goroutine, NEW p \in Peer, EnterStop(g, p),
           \/ UNCHANGED peerStatus
           \/ peerStatus # <<>> /\ peerStatus' = Tail(peerStatus)
    PROVE  SingleNotice'
  <1>1. /\ Notifies(g)' => once[p] = "fresh"
        /\ target'[g] = p
        /\ \A k \in Goroutine \ {g} : (Notifies(k)' <=> Notifies(k)) /\ target'[k] = target[k]
    BY DEF EnterStop, IInv, TypeOK, Notifies
  <1>2. CASE ~Notifies(g)'
    <2>1. \A k \in Goroutine : Notifies(k)' => Notifies(k) /\ target'[k] = target[k]
      BY <1>1, <1>2
    <2> QED
      BY <2>1, SingleShrinks
  <1>3. CASE Notifies(g)'
    <2>1. /\ Absent(peerStatus, p)
          /\ \A k \in Goroutine : Notifies(k) => target[k] \in Peer /\ target[k] # p
      BY <1>1, <1>3, FreshSilent
    <2>2. /\ NotTwice(peerStatus')
          /\ \A q \in Peer : Absent(peerStatus, q) => Absent(peerStatus', q)
      <3>1. CASE UNCHANGED peerStatus
        BY <3>1 DEF SingleNotice, NotTwice, Absent
      <3>2. CASE peerStatus # <<>> /\ peerStatus' = Tail(peerStatus)
        BY <3>2, TakeSingle DEF SingleNotice, IInv, TypeOK
      <3> QED
        BY <3>1, <3>2
    <2>3. \A k, l \in Goroutine :
            Notifies(k)' /\ Notifies(l)' /\ target'[k] = target'[l] => k = l
      BY <1>1, <2>1 DEF SingleNotice
    <2>4. \A k \in Goroutine : Notifies(k)' => Absent(peerStatus', target'[k])
      BY <1>1, <2>1, <2>2 DEF SingleNotice
    <2> QED
      BY <2>2, <2>3, <2>4 DEF SingleNotice, NotTwice, Absent
  <1> QED
    BY <1>2, <1>3

LEMMA NotifySingle ==
    ASSUME IInv, SingleNotice, NEW g \in Goroutine, NotifyOffline(g)
    PROVE  SingleNotice'
  <1> DEFINE p == target[g]
  <1>1. p \in Peer /\ Notifies(g) /\ Absent(peerStatus, p)
    BY DEF NotifyOffline, IInv, CallStopped, SingleNotice, Notifies
  <1>2. /\ ~Notifies(g)'
        /\ \A k \in Goroutine \ {g} : (Notifies(k)' <=> Notifies(k)) /\ target'[k] = target[k]
    BY DEF NotifyOffline, IInv, TypeOK, Notifies
  <1>3. CASE UNCHANGED peerStatus
    <2>1. \A k \in Goroutine : Notifies(k)' => Notifies(k) /\ target'[k] = target[k]
      BY <1>2
    <2> QED
      BY <1>3, <2>1, SingleShrinks
  <1>4. CASE peerStatus' = Append(peerStatus, Notice(p, FALSE))
    <2> DEFINE e == Notice(p, FALSE)
    <2>1. e \in Status /\ e.peer = p
      BY <1>1, NoticeType
    <2>2. \A q \in Peer : q # p => e # Notice(q, FALSE)
      BY DEF Notice
    <2>3. /\ NotTwice(peerStatus')
          /\ \A q \in Peer : Absent(peerStatus, q) /\ q # p => Absent(peerStatus', q)
      <3>1. peerStatus \in Seq(Status) /\ NotTwice(peerStatus)
        BY DEF IInv, TypeOK, SingleNotice
      <3> HIDE DEF e
      <3>2. peerStatus' = Append(peerStatus, e)
        BY <1>4 DEF e
      <3> QED
        BY <1>1, <2>1, <2>2, <3>1, <3>2, PutSingle
    <2>4. \A k \in Goroutine : Notifies(k)' => /\ Notifies(k) /\ target'[k] = target[k]
                                             /\ target[k] \in Peer /\ target[k] # p
      BY <1>1, <1>2 DEF SingleNotice, IInv, CallStopped, Notifies
    <2>5. \A k \in Goroutine : Notifies(k)' => Absent(peerStatus', target'[k])
      BY <2>3, <2>4 DEF SingleNotice
    <2>6. \A k, l \in Goroutine :
            Notifies(k)' /\ Notifies(l)' /\ target'[k] = target'[l] => k = l
      BY <2>4 DEF SingleNotice
    <2> QED
      BY <2>3, <2>5, <2>6 DEF SingleNotice, NotTwice, Absent
  <1> QED
    BY <1>3, <1>4 DEF NotifyOffline

LEMMA NextSingle == IInv /\ SingleNotice /\ [Next]_vars => SingleNotice'
  <1> SUFFICES ASSUME IInv, SingleNotice, [Next]_vars PROVE SingleNotice'
    OBVIOUS
  <1>1. ASSUME NEW p \in Peer, NewPeer(p) \/ Announce(p) PROVE SingleNotice'
    <2>1. \A g \in Goroutine : Notifies(g)' => Notifies(g) /\ target'[g] = target[g]
      BY <1>1 DEF NewPeer, Announce, Notifies
    <2> QED
      BY <1>1, <2>1, SingleShrinks DEF NewPeer, Announce
  <1>2. ASSUME NEW g \in Goroutine, WaitStopped(g) PROVE SingleNotice'
    <2>1. \A k \in Goroutine : Notifies(k)' => Notifies(k) /\ target'[k] = target[k]
      BY <1>2 DEF WaitStopped, Notifies, IInv, TypeOK
    <2> QED
      BY <1>2, <2>1, SingleShrinks DEF WaitStopped
  <1>3. ASSUME NEW g \in Loops, LeaveLoop(g) PROVE SingleNotice'
    BY <1>3, Goroutines, EnterSingle DEF LeaveLoop
  <1>4. ASSUME NEW g \in Ctls, CtlStop(g) PROVE SingleNotice'
    <2>1. g \in Goroutine /\ target[g] \in Peer
      BY <1>4, Goroutines DEF CtlStop, IInv, CallStopped
    <2> QED
      BY <1>4, <2>1, EnterSingle DEF CtlStop
  <1>5. ASSUME NEW g \in Ctls, NEW p \in Peer, CtlPick(g, p) PROVE SingleNotice'
    <2>1. \A k \in Goroutine : Notifies(k)' => Notifies(k) /\ target'[k] = target[k]
      BY <1>5, Goroutines DEF CtlPick, Notifies, IInv, TypeOK
    <2> QED
      BY <1>5, <2>1, SingleShrinks DEF CtlPick
  <1>6. CASE TakeReplacement
    <2>1. Head(peerStatus).peer \in Peer
      BY <1>6, Element, Take DEF IInv, TypeOK, TakeReplacement
    <2>2. old' \in Peer /\ Manager \in Goroutine
      BY <1>6, <2>1, Goroutines, PeerAssumption DEF IInv, TypeOK, PeerMap, TakeReplacement
    <2> QED
      BY <1>6, <2>2, EnterSingle DEF TakeReplacement
  <1>7. CASE RemoveOffline \/ TakeOnline \/ RemoveOld \/ AddNew \/ ManagerEnd
             \/ NetworkStop \/ UNCHANGED vars
    <2>1. \A g \in Goroutine : Notifies(g)' => Notifies(g) /\ target'[g] = target[g]
      BY <1>7 DEF RemoveOffline, TakeOnline, RemoveOld, AddNew, ManagerEnd, NetworkStop,
                  vars, Notifies
    <2>2. UNCHANGED peerStatus \/ (peerStatus # <<>> /\ peerStatus' = Tail(peerStatus))
      BY <1>7 DEF RemoveOffline, TakeOnline, RemoveOld, AddNew, ManagerEnd, NetworkStop, vars
    <2> QED
      BY <2>1, <2>2, SingleShrinks
  <1> QED
    BY <1>1, <1>2, <1>3, <1>4, <1>5, <1>6, <1>7, NotifySingle DEF Next, ManagerStep

LEMMA AtMostOne ==
    ASSUME NEW S, \A x, y \in S : x = y
    PROVE  Cardinality(S) = IF S = {} THEN 0 ELSE 1
  <1>1. CASE S = {}
    <2>1. Cardinality({}) = 0
      BY FS_EmptySet
    <2> QED
      BY <1>1, <2>1
  <1>2. CASE S # {}
    <2>1. PICK x \in S : TRUE
      BY <1>2
    <2>2. S = {x}
      BY <2>1
    <2> QED
      BY <1>2, <2>2, FS_Singleton
  <1> QED
    BY <1>1, <1>2

LEMMA SingleIsOne == IInv /\ SingleNotice => OneNotice
  <1> SUFFICES ASSUME IInv, SingleNotice, NEW p \in Peer
               PROVE  LET sending == {g \in Goroutine : call[g] = "notify" /\ target[g] = p}
                          queued  == {i \in 1..Len(peerStatus) :
                                        peerStatus[i] = Notice(p, FALSE)}
                      IN  /\ Cardinality(sending) + Cardinality(queued) <= 1
                          /\ once[p] = "fresh" => sending = {} /\ queued = {}
    BY DEF OneNotice
  <1> DEFINE sending == {g \in Goroutine : call[g] = "notify" /\ target[g] = p}
  <1> DEFINE queued == {i \in 1..Len(peerStatus) : peerStatus[i] = Notice(p, FALSE)}
  <1>1. \A g, k \in sending : g = k
    BY DEF SingleNotice, Notifies
  <1>2. \A i, j \in queued : i = j
    BY DEF SingleNotice, NotTwice
  <1>3. sending = {} \/ queued = {}
    BY DEF SingleNotice, Notifies, Absent
  <1>4. once[p] = "fresh" => sending = {} /\ queued = {}
    BY FreshSilent DEF Absent, Notifies
  <1>5. /\ Cardinality(sending) = IF sending = {} THEN 0 ELSE 1
        /\ Cardinality(queued) = IF queued = {} THEN 0 ELSE 1
    <2> HIDE DEF sending, queued
    <2> QED
      BY <1>1, <1>2, AtMostOne
  <1> HIDE DEF sending, queued
  <1>6. Cardinality(sending) + Cardinality(queued) <= 1
    BY <1>3, <1>5
  <1> QED
    BY <1>4, <1>6 DEF sending, queued

\* A peer tells once that it is offline, however many loops and goroutines of the
\* controller stop it at the same time (peer.go, Stop).
THEOREM AlwaysOneNotice == Spec => []OneNotice
  BY InitIInv, NextIInv, SingleInit, NextSingle, SingleIsOne, PTL DEF Spec

=============================================================================
