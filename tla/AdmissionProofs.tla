-------------------------- MODULE AdmissionProofs ---------------------------
(***************************************************************************)
(* Proofs about modules PeerStore, Limiter and Admission, in four parts.   *)
(*                                                                         *)
(* 1. The peer store's counters and its cached slice are exact, and the    *)
(*    store implements the registry, for any set of peers, hashes and      *)
(*    addresses.                                                           *)
(* 2. The limiter refuses exactly the attempts it should, for every limit  *)
(*    and any set of hosts: the history is in order of time, so the prefix *)
(*    that clearHistory cuts holds all attempts out of range and nothing   *)
(*    else, and an attempt that is cut cannot matter again.                *)
(* 3. The composition of listener, limits, manager and cat round uses the  *)
(*    two only through their operations, so what is proved of them alone   *)
(*    holds in the running node.                                           *)
(* 4. What only the composition has: a cat round trims the peers, and the  *)
(*    limits on incoming connections are exceeded by no more than the      *)
(*    number of admissions at the same time.                               *)
(***************************************************************************)
EXTENDS Admission, FiniteSetTheorems, SequenceTheorems, WellFoundedInduction, TLAPS
-----------------------------------------------------------------------------
(* 1. The peer store. *)

(* What Add and Remove do to the set of stored objects. *)

LEMMA AddStored ==
    ASSUME NEW m \in PeerMap, NEW p \in Peer, m[HashOf[p]] = NoPeer
    PROVE  /\ AddTo(m, p) \in PeerMap
           /\ p \notin Stored(m)
           /\ Stored(AddTo(m, p)) = Stored(m) \cup {p}
  BY PeerAssumption DEF PeerMap, AddTo, Stored

LEMMA RemoveStored ==
    ASSUME NEW m \in PeerMap, NEW p \in Peer, m[HashOf[p]] = p
    PROVE  /\ RemoveFrom(m, p) \in PeerMap
           /\ p \in Stored(m)
           /\ Stored(RemoveFrom(m, p)) = Stored(m) \ {p}
  BY PeerAssumption DEF PeerMap, RemoveFrom, Stored

LEMMA StoredFinite ==
    ASSUME NEW m
    PROVE  IsFiniteSet(Stored(m)) /\ Stored(m) \subseteq Peer
  BY PeerAssumption, FS_Subset DEF Stored

(* Counting the members of a part T of a set before and after one changes. *)

LEMMA CountAdd ==
    ASSUME NEW S, IsFiniteSet(S), NEW p, p \notin S, NEW T
    PROVE  /\ Cardinality(S \cap T) \in Nat
           /\ Cardinality((S \cup {p}) \cap T)
                = Cardinality(S \cap T) + (IF p \in T THEN 1 ELSE 0)
  <1>1. IsFiniteSet(S \cap T)
    BY FS_Subset, S \cap T \subseteq S
  <1>2. Cardinality(S \cap T) \in Nat
    BY <1>1, FS_CardinalityType
  <1>3. CASE p \in T
    <2>1. (S \cup {p}) \cap T = (S \cap T) \cup {p}
      BY <1>3
    <2> QED
      BY <1>1, <1>2, <1>3, <2>1, FS_AddElement
  <1>4. CASE p \notin T
    <2>1. (S \cup {p}) \cap T = S \cap T
      BY <1>4
    <2> DEFINE n == Cardinality(S \cap T)
    <2>2. n = n + 0
      BY <1>2
    <2>3. (IF p \in T THEN 1 ELSE 0) = 0
      BY <1>4
    <2> QED
      BY <1>2, <2>1, <2>2, <2>3, Zenon
  <1> QED
    BY <1>3, <1>4

LEMMA CountRemove ==
    ASSUME NEW S, IsFiniteSet(S), NEW p \in S, NEW T
    PROVE  /\ Cardinality(S \cap T) \in Nat
           /\ Cardinality((S \ {p}) \cap T)
                = Cardinality(S \cap T) + (IF p \in T THEN -1 ELSE 0)
           /\ Cardinality((S \ {p}) \cap T) \in Nat
  <1> DEFINE R == S \ {p}
  <1>1. IsFiniteSet(R) /\ p \notin R
    BY FS_Subset, R \subseteq S
  <1>2. S = R \cup {p}
    OBVIOUS
  <1>3. /\ Cardinality(R \cap T) \in Nat
        /\ Cardinality((R \cup {p}) \cap T)
             = Cardinality(R \cap T) + (IF p \in T THEN 1 ELSE 0)
    BY <1>1, CountAdd
  <1> HIDE DEF R
  <1>4. Cardinality(S \cap T) = Cardinality(R \cap T) + (IF p \in T THEN 1 ELSE 0)
    BY <1>2, <1>3
  <1> QED
    BY <1>3, <1>4 DEF R

(* The parts of Peer that the counters count. *)

OnIp(a) == {q \in Peer : IpOf[q] = a}
OnEp(a) == {q \in Peer : EpOf[q] = a}

LEMMA UsesParts ==
    ASSUME NEW S \in SUBSET Peer, NEW a
    PROVE  Registry!Uses(S, a)
             = Cardinality(S \cap OnIp(a)) + Cardinality(S \cap OnEp(a))
  <1>1. {p \in S : IpOf[p] = a} = S \cap OnIp(a)
    BY DEF OnIp
  <1>2. {p \in S : EpOf[p] = a} = S \cap OnEp(a)
    BY DEF OnEp
  <1> QED
    BY <1>1, <1>2 DEF Registry!Uses, Registry!Cardinality, Cardinality

-----------------------------------------------------------------------------
LEMMA InitIInv == Init => IInv
  <1> SUFFICES ASSUME Init PROVE IInv
    OBVIOUS
  <1>1. Stored(peers) = {}
    BY PeerAssumption DEF Init, Stored, EmptyMap
  <1>2. TypeOK
    BY DEF Init, TypeOK, PeerMap, EmptyMap
  <1>3. CountersExact
    <2>1. Stored(peers) \cap Inbound = {} /\ Stored(peers) \ Inbound = {}
      BY <1>1
    <2>2. ASSUME NEW a \in Addr
          PROVE  connected[a] = Registry!Uses(Stored(peers), a)
      <3>1. Stored(peers) \cap OnIp(a) = {} /\ Stored(peers) \cap OnEp(a) = {}
        BY <1>1
      <3> QED
        BY <1>1, <3>1, UsesParts, FS_EmptySet DEF Init
    <2> QED
      BY <2>1, <2>2, FS_EmptySet DEF Init, CountersExact
  <1>4. SliceFresh
    BY DEF Init, SliceFresh
  <1> QED
    BY <1>2, <1>3, <1>4 DEF IInv

LEMMA OutgoingPart ==
    ASSUME NEW S \in SUBSET Peer
    PROVE  S \ Inbound = S \cap (Peer \ Inbound)
  OBVIOUS

(* Adding an object that was not stored keeps every counter exact. *)
LEMMA AddCounts ==
    ASSUME IInv, NEW p \in Peer, peers[HashOf[p]] = NoPeer,
           peers' = AddTo(peers, p), Recount(p, 1)
    PROVE  /\ CountersExact'
           /\ connected' \in [Addr -> Nat]
           /\ incoming' \in Nat
           /\ outgoing' \in Nat
  <1> DEFINE S == Stored(peers)
  <1>1. /\ p \notin S
        /\ Stored(peers)' = S \cup {p}
        /\ S \cup {p} \in SUBSET Peer
        /\ IsFiniteSet(S)
        /\ S \in SUBSET Peer
    BY AddStored, StoredFinite DEF IInv, TypeOK, Stored
  <1> HIDE DEF S
  <1>2. ASSUME NEW a \in Addr
        PROVE  connected'[a] = Registry!Uses(Stored(peers)', a) /\ connected'[a] \in Nat
    <2>1. /\ Cardinality(S \cap OnIp(a)) \in Nat
          /\ Cardinality((S \cup {p}) \cap OnIp(a))
               = Cardinality(S \cap OnIp(a)) + (IF p \in OnIp(a) THEN 1 ELSE 0)
      BY <1>1, CountAdd
    <2>2. /\ Cardinality(S \cap OnEp(a)) \in Nat
          /\ Cardinality((S \cup {p}) \cap OnEp(a))
               = Cardinality(S \cap OnEp(a)) + (IF p \in OnEp(a) THEN 1 ELSE 0)
      BY <1>1, CountAdd
    <2>3. connected[a] = Cardinality(S \cap OnIp(a)) + Cardinality(S \cap OnEp(a))
      BY <1>1, UsesParts DEF IInv, CountersExact, S
    <2>4. Registry!Uses(S \cup {p}, a)
            = Cardinality((S \cup {p}) \cap OnIp(a)) + Cardinality((S \cup {p}) \cap OnEp(a))
      BY <1>1, UsesParts
    <2>5. connected'[a] = connected[a] + (IF p \in OnIp(a) THEN 1 ELSE 0)
                                       + (IF p \in OnEp(a) THEN 1 ELSE 0)
      BY DEF Recount, Bump, OnIp, OnEp
    <2> QED
      BY <1>1, <2>1, <2>2, <2>3, <2>4, <2>5
  <1>3. /\ incoming' = Cardinality((S \cup {p}) \cap Inbound)
        /\ incoming' \in Nat
    BY <1>1, CountAdd DEF Recount, IInv, CountersExact, S
  <1>4. /\ outgoing' = Cardinality((S \cup {p}) \ Inbound)
        /\ outgoing' \in Nat
    <2>1. outgoing = Cardinality(S \cap (Peer \ Inbound))
      BY <1>1, OutgoingPart DEF IInv, CountersExact, S
    <2>2. (S \cup {p}) \ Inbound = (S \cup {p}) \cap (Peer \ Inbound)
      BY <1>1
    <2> QED
      BY <1>1, <2>1, <2>2, CountAdd DEF Recount
  <1>5. connected' \in [Addr -> Nat]
    BY <1>2 DEF Recount, Bump
  <1> QED
    BY <1>1, <1>2, <1>3, <1>4, <1>5 DEF CountersExact

(* Removing a stored object keeps every counter exact. *)
LEMMA RemoveCounts ==
    ASSUME IInv, NEW p \in Peer, peers[HashOf[p]] = p,
           peers' = RemoveFrom(peers, p), Recount(p, -1)
    PROVE  /\ CountersExact'
           /\ connected' \in [Addr -> Nat]
           /\ incoming' \in Nat
           /\ outgoing' \in Nat
  <1> DEFINE S == Stored(peers)
  <1>1. /\ p \in S
        /\ Stored(peers)' = S \ {p}
        /\ S \ {p} \in SUBSET Peer
        /\ IsFiniteSet(S)
        /\ S \in SUBSET Peer
    BY RemoveStored, StoredFinite DEF IInv, TypeOK, Stored
  <1> HIDE DEF S
  <1>2. ASSUME NEW a \in Addr
        PROVE  connected'[a] = Registry!Uses(Stored(peers)', a) /\ connected'[a] \in Nat
    <2>1. /\ Cardinality(S \cap OnIp(a)) \in Nat
          /\ Cardinality((S \ {p}) \cap OnIp(a))
               = Cardinality(S \cap OnIp(a)) + (IF p \in OnIp(a) THEN -1 ELSE 0)
          /\ Cardinality((S \ {p}) \cap OnIp(a)) \in Nat
      BY <1>1, CountRemove
    <2>2. /\ Cardinality(S \cap OnEp(a)) \in Nat
          /\ Cardinality((S \ {p}) \cap OnEp(a))
               = Cardinality(S \cap OnEp(a)) + (IF p \in OnEp(a) THEN -1 ELSE 0)
          /\ Cardinality((S \ {p}) \cap OnEp(a)) \in Nat
      BY <1>1, CountRemove
    <2>3. connected[a] = Cardinality(S \cap OnIp(a)) + Cardinality(S \cap OnEp(a))
      BY <1>1, UsesParts DEF IInv, CountersExact, S
    <2>4. Registry!Uses(S \ {p}, a)
            = Cardinality((S \ {p}) \cap OnIp(a)) + Cardinality((S \ {p}) \cap OnEp(a))
      BY <1>1, UsesParts
    <2>5. connected'[a] = connected[a] + (IF p \in OnIp(a) THEN -1 ELSE 0)
                                       + (IF p \in OnEp(a) THEN -1 ELSE 0)
      BY DEF Recount, Bump, OnIp, OnEp
    <2> QED
      BY <1>1, <2>1, <2>2, <2>3, <2>4, <2>5
  <1>3. /\ incoming' = Cardinality((S \ {p}) \cap Inbound)
        /\ incoming' \in Nat
    <2>1. incoming = Cardinality(S \cap Inbound)
      BY DEF IInv, CountersExact, S
    <2>2. /\ Cardinality((S \ {p}) \cap Inbound)
               = Cardinality(S \cap Inbound) + (IF p \in Inbound THEN -1 ELSE 0)
          /\ Cardinality((S \ {p}) \cap Inbound) \in Nat
      BY <1>1, CountRemove
    <2> QED
      BY <2>1, <2>2 DEF Recount
  <1>4. /\ outgoing' = Cardinality((S \ {p}) \ Inbound)
        /\ outgoing' \in Nat
    <2>1. outgoing = Cardinality(S \cap (Peer \ Inbound))
      BY <1>1, OutgoingPart DEF IInv, CountersExact, S
    <2>2. (S \ {p}) \ Inbound = (S \ {p}) \cap (Peer \ Inbound)
      BY <1>1
    <2> QED
      BY <1>1, <2>1, <2>2, CountRemove DEF Recount
  <1>5. connected' \in [Addr -> Nat]
    BY <1>2 DEF Recount, Bump
  <1> QED
    BY <1>1, <1>2, <1>3, <1>4, <1>5 DEF CountersExact

(* A step that leaves the map and the counters alone. *)
LEMMA CountersUnchanged ==
    ASSUME CountersExact, UNCHANGED <<peers, connected, incoming, outgoing>>
    PROVE  CountersExact'
  BY DEF CountersExact, Stored

-----------------------------------------------------------------------------
LEMMA NextIInv == IInv /\ [Next]_vars => IInv'
  <1> SUFFICES ASSUME IInv, [Next]_vars PROVE IInv'
    OBVIOUS
  <1> USE DEF IInv
  <1>1. ASSUME NEW p \in Peer, Add(p) PROVE IInv'
    <2>1. CASE peers[HashOf[p]] = NoPeer
      <3>1. CountersExact' /\ connected' \in [Addr -> Nat] /\ incoming' \in Nat /\ outgoing' \in Nat
        BY <1>1, <2>1, AddCounts DEF Add
      <3>2. TypeOK'
        BY <1>1, <2>1, <3>1, AddStored DEF Add, TypeOK
      <3>3. SliceFresh'
        BY <1>1, <2>1 DEF Add, SliceFresh
      <3> QED
        BY <3>1, <3>2, <3>3
    <2>2. CASE peers[HashOf[p]] # NoPeer
      BY <1>1, <2>2, CountersUnchanged DEF Add, state, TypeOK, SliceFresh, Stored
    <2> QED
      BY <2>1, <2>2
  <1>2. ASSUME NEW p \in Peer, Remove(p) PROVE IInv'
    <2>1. CASE peers[HashOf[p]] = p
      <3>1. CountersExact' /\ connected' \in [Addr -> Nat] /\ incoming' \in Nat /\ outgoing' \in Nat
        BY <1>2, <2>1, RemoveCounts DEF Remove
      <3>2. TypeOK'
        BY <1>2, <2>1, <3>1, RemoveStored DEF Remove, TypeOK
      <3>3. SliceFresh'
        BY <1>2, <2>1 DEF Remove, SliceFresh
      <3> QED
        BY <3>1, <3>2, <3>3
    <2>2. CASE peers[HashOf[p]] # p
      BY <1>2, <2>2, CountersUnchanged DEF Remove, state, TypeOK, SliceFresh, Stored
    <2> QED
      BY <2>1, <2>2
  <1>3. ASSUME NEW c \in Caller, NEW n \in Nat, Answer(c, n) PROVE IInv'
    BY <1>3, CountersUnchanged DEF Answer, state, TypeOK, SliceFresh, Stored
  <1>4. ASSUME NEW c \in Caller, Total(c) PROVE IInv'
    <2>1. Cardinality(Stored(peers)) \in Nat
      BY StoredFinite, FS_CardinalityType
    <2> QED
      BY <1>3, <1>4, <2>1 DEF Total
  <1>5. ASSUME NEW c \in Caller, Incoming(c) \/ Outgoing(c) PROVE IInv'
    BY <1>3, <1>5 DEF Incoming, Outgoing, TypeOK
  <1>6. ASSUME NEW c \in Caller, NEW a \in Addr, Count(c, a) \/ Connected(c, a)
        PROVE  IInv'
    <2>1. connected[a] \in Nat /\ (IF connected[a] > 0 THEN 1 ELSE 0) \in Nat
      BY DEF TypeOK
    <2> QED
      BY <1>3, <1>6, <2>1 DEF Count, Connected
  <1>7. ASSUME NEW c \in Caller, NEW h \in Hash, Get(c, h) PROVE IInv'
    <2>1. {peers[h]} \ {NoPeer} \in SUBSET Peer
      BY DEF TypeOK, PeerMap
    <2> QED
      BY <1>7, <2>1, CountersUnchanged DEF Get, state, TypeOK, SliceFresh, Stored
  <1>8. ASSUME NEW c \in Caller, SliceHit(c) PROVE IInv'
    BY <1>8, CountersUnchanged DEF SliceHit, state, TypeOK, SliceFresh, Stored
  <1>9. ASSUME NEW c \in Caller, SliceMiss(c) PROVE IInv'
    BY <1>9, CountersUnchanged DEF SliceMiss, state, TypeOK, SliceFresh, Stored
  <1>10. ASSUME NEW c \in Caller, SliceRebuild(c) PROVE IInv'
    BY <1>10, CountersUnchanged DEF SliceRebuild, TypeOK, SliceFresh, Stored
  <1>11. ASSUME NEW c \in Caller, Forget(c) PROVE IInv'
    BY <1>11, CountersUnchanged DEF Forget, state, TypeOK, SliceFresh, Stored
  <1>12. CASE UNCHANGED vars
    BY <1>12, CountersUnchanged DEF vars, TypeOK, SliceFresh, Stored
  <1> QED
    BY <1>1, <1>2, <1>4, <1>5, <1>6, <1>7, <1>8, <1>9, <1>10, <1>11, <1>12 DEF Next

LEMMA IInvHolds == Spec => []IInv
  BY InitIInv, NextIInv, PTL DEF Spec

\* The state is well typed in every behaviour; in particular no counter of the
\* store goes below zero, whichever objects Remove is called with.
THEOREM TypeCorrect == Spec => []TypeOK
  <1>1. IInv => TypeOK
    BY DEF IInv
  <1> QED
    BY <1>1, IInvHolds, PTL

\* The counters that allowIncoming and canDial decide on are exact after any
\* sequence of Add and Remove, for any sharing of hashes and addresses.
THEOREM CountersAlwaysExact == Spec => []CountersExact
  <1>1. IInv => CountersExact
    BY DEF IInv
  <1> QED
    BY <1>1, IInvHolds, PTL

\* A cached slice is never stale, although Slice rebuilds it after giving up the
\* lock under which it saw the miss.
THEOREM SliceAlwaysFresh == Spec => []SliceFresh
  <1>1. IInv => SliceFresh
    BY DEF IInv
  <1> QED
    BY <1>1, IInvHolds, PTL

-----------------------------------------------------------------------------
(* The refinement: each step is a step of the registry or a stutter. *)

(* The registry's own copies of the shared definitions. *)
LEMMA SameRegistry ==
    /\ \A m : Registry!Stored(m) = Stored(m)
    /\ \A m, p : Registry!AddTo(m, p) = AddTo(m, p)
    /\ \A m, p : Registry!RemoveFrom(m, p) = RemoveFrom(m, p)
    /\ \A S : Registry!Cardinality(S) = Cardinality(S)
    /\ Registry!EmptyMap = EmptyMap
  <1>1. \A m : Registry!Stored(m) = Stored(m)
    BY DEF Registry!Stored, Stored
  <1>2. \A m, p : Registry!AddTo(m, p) = AddTo(m, p)
    BY DEF Registry!AddTo, AddTo
  <1>3. \A m, p : Registry!RemoveFrom(m, p) = RemoveFrom(m, p)
    BY DEF Registry!RemoveFrom, RemoveFrom
  <1>4. \A S : Registry!Cardinality(S) = Cardinality(S)
    BY DEF Registry!Cardinality, Cardinality
  <1>5. Registry!EmptyMap = EmptyMap
    BY DEF Registry!EmptyMap, EmptyMap
  <1> QED
    BY <1>1, <1>2, <1>3, <1>4, <1>5

LEMMA NextRefines == IInv /\ [Next]_vars => [Registry!Next]_(Registry!vars)
  <1> SUFFICES ASSUME IInv, [Next]_vars
               PROVE  Registry!Next \/ UNCHANGED Registry!vars
    OBVIOUS
  <1> USE DEF IInv
  <1>1. ASSUME NEW p \in Peer, Add(p) PROVE Registry!Add(p)
    BY <1>1, SameRegistry DEF Add, Registry!Add, AddTo, state
  <1>2. ASSUME NEW p \in Peer, Remove(p) PROVE Registry!Remove(p)
    BY <1>2, SameRegistry DEF Remove, Registry!Remove, RemoveFrom, state
  <1>3. ASSUME NEW c \in Caller, NEW n, Answer(c, n) PROVE Registry!Answer(c, n)
    BY <1>3 DEF Answer, Registry!Answer, state
  <1>4. ASSUME NEW c \in Caller, Total(c) PROVE Registry!Total(c)
    BY <1>3, <1>4, SameRegistry DEF Total, Registry!Total
  <1>5. ASSUME NEW c \in Caller, Incoming(c) PROVE Registry!Incoming(c)
    BY <1>3, <1>5, SameRegistry DEF Incoming, Registry!Incoming, CountersExact
  <1>6. ASSUME NEW c \in Caller, Outgoing(c) PROVE Registry!Outgoing(c)
    BY <1>3, <1>6, SameRegistry DEF Outgoing, Registry!Outgoing, CountersExact
  <1>7. ASSUME NEW c \in Caller, NEW a \in Addr, Count(c, a)
        PROVE  Registry!Count(c, a)
    BY <1>3, <1>7, SameRegistry DEF Count, Registry!Count, CountersExact
  <1>8. ASSUME NEW c \in Caller, NEW a \in Addr, Connected(c, a)
        PROVE  Registry!Connected(c, a)
    BY <1>3, <1>8, SameRegistry DEF Connected, Registry!Connected, CountersExact
  <1>9. ASSUME NEW c \in Caller, NEW h \in Hash, Get(c, h) PROVE Registry!Get(c, h)
    BY <1>9 DEF Get, Registry!Get, Registry!HandOut, state
  <1>10. ASSUME NEW c \in Caller, SliceHit(c) \/ SliceRebuild(c) PROVE Registry!Slice(c)
    BY <1>10, SameRegistry
       DEF SliceHit, SliceRebuild, Registry!Slice, Registry!HandOut, state, SliceFresh
  <1>11. ASSUME NEW c \in Caller, SliceMiss(c) PROVE UNCHANGED Registry!vars
    BY <1>11 DEF SliceMiss, state, Registry!vars
  <1>12. ASSUME NEW c \in Caller, Forget(c) PROVE Registry!Forget(c)
    BY <1>12 DEF Forget, Registry!Forget, state
  <1>13. CASE UNCHANGED vars
    BY <1>13 DEF vars, Registry!vars
  <1> QED
    BY <1>1, <1>2, <1>4, <1>5, <1>6, <1>7, <1>8, <1>9, <1>10, <1>11, <1>12, <1>13
       DEF Next, Registry!Next

\* The store implements the registry: whatever the goroutines that share it do,
\* each answer computed from a counter or from the cached slice is the answer
\* the map of peers gives at that instant.
THEOREM StoreImplementsRegistry == Spec => RegistrySpec
  <1>1. Init => Registry!Init
    BY SameRegistry DEF Init, Registry!Init
  <1> QED
    BY <1>1, IInvHolds, NextRefines, PTL DEF Spec, RegistrySpec, Registry!Spec

-----------------------------------------------------------------------------
(* 2. The limiter. *)

Attempt == [host : Host, time : Int]

(* A history in order of time. *)
Ordered(hist) ==
    \A i, j \in DOMAIN hist : i <= j => hist[i].time <= hist[j].time

LEMMA HistoryType ==
    ASSUME NEW hist \in Seq(Attempt)
    PROVE  /\ Len(hist) \in Nat
           /\ DOMAIN hist = 1..Len(hist)
           /\ \A j \in 1..Len(hist) : hist[j] \in Attempt
           /\ \A j \in 1..Len(hist) : hist[j].time \in Int
  <1>1. Len(hist) \in Nat /\ DOMAIN hist = 1..Len(hist)
    OBVIOUS
  <1>2. ASSUME NEW j \in 1..Len(hist) PROVE hist[j] \in Attempt
    OBVIOUS
  <1>3. \A a \in Attempt : a.time \in Int
    BY DEF Attempt
  <1> QED
    BY <1>1, <1>2, <1>3

(* The loop of clearHistory stops at the first attempt in range. *)
LEMMA ExpiredExists ==
    ASSUME NEW hist \in Seq(Attempt), NEW tl \in Int
    PROVE  /\ Expired(hist, tl) \in 0..Len(hist)
           /\ \A j \in 1..Expired(hist, tl) : hist[j].time <= tl
           /\ Expired(hist, tl) < Len(hist) => hist[Expired(hist, tl) + 1].time > tl
  <1> DEFINE Ok(i) == /\ \A j \in 1..i : hist[j].time <= tl
                      /\ i < Len(hist) => hist[i + 1].time > tl
  <1>1. \E i \in 0..Len(hist) : Ok(i)
    <2> DEFINE young == {j \in Nat : j < Len(hist) /\ hist[j + 1].time > tl}
    <2>0. Len(hist) \in Nat /\ \A j \in 1..Len(hist) : hist[j].time \in Int
      BY HistoryType
    <2>1. CASE young = {}
      <3>1. Ok(Len(hist))
        <4>1. ASSUME NEW j \in 1..Len(hist) PROVE hist[j].time <= tl
          <5>1. j - 1 \notin young
            BY <2>1
          <5> QED
            BY <2>0, <5>1
        <4> QED
          BY <2>0, <4>1
      <3> QED
        BY <2>0, <3>1
    <2>2. CASE young # {}
      <3>1. PICK m \in young : \A y \in young : ~ (<<y, m>> \in OpToRel(<, Nat))
        BY <2>2, WFMin, NatLessThanWellFounded
      <3>2. \A y \in young : ~ (y < m)
        BY <3>1 DEF OpToRel
      <3>3. \A j \in 1..m : hist[j].time <= tl
        <4>1. ASSUME NEW j \in 1..m PROVE hist[j].time <= tl
          <5>1. j - 1 \in Nat /\ j - 1 < m /\ j - 1 < Len(hist) /\ (j - 1) + 1 = j
            BY <2>0
          <5>2. j - 1 \notin young
            BY <3>2, <5>1
          <5> QED
            BY <2>0, <5>1, <5>2
        <4> QED
          BY <4>1
      <3>4. Ok(m) /\ m \in 0..Len(hist)
        BY <2>0, <3>3
      <3> QED
        BY <3>4
    <2> QED
      BY <2>1, <2>2
  <1>2. Expired(hist, tl) = CHOOSE i \in 0..Len(hist) : Ok(i)
    BY DEF Expired
  <1> HIDE DEF Ok
  <1>3. Expired(hist, tl) \in 0..Len(hist) /\ Ok(Expired(hist, tl))
    BY <1>1, <1>2
  <1> QED
    BY <1>3 DEF Ok

(* What clearHistory keeps of an ordered history: the attempts in range, in *)
(* their order.                                                             *)
LEMMA Cleared ==
    ASSUME NEW hist \in Seq(Attempt), NEW tl \in Int, Ordered(hist)
    PROVE  LET rest == SubSeq(hist, Expired(hist, tl) + 1, Len(hist))
           IN  /\ rest \in Seq(Attempt)
               /\ Ordered(rest)
               /\ \A i \in DOMAIN rest :
                    rest[i].time > tl /\ \E j \in DOMAIN hist : rest[i] = hist[j]
               /\ \A j \in DOMAIN hist :
                    hist[j].time > tl => \E i \in DOMAIN rest : rest[i] = hist[j]
  <1> DEFINE n == Expired(hist, tl)
             rest == SubSeq(hist, n + 1, Len(hist))
  <1>1. /\ n \in 0..Len(hist)
        /\ \A j \in 1..n : hist[j].time <= tl
        /\ n < Len(hist) => hist[n + 1].time > tl
    BY ExpiredExists
  <1>2. Len(hist) \in Nat /\ DOMAIN hist = 1..Len(hist) /\ \A j \in 1..Len(hist) : hist[j] \in Attempt
    BY HistoryType
  <1> HIDE DEF n
  <1>3. /\ rest \in Seq(Attempt)
        /\ Len(rest) = IF n + 1 <= Len(hist) THEN Len(hist) - (n + 1) + 1 ELSE 0
        /\ \A i \in 1..(Len(hist) - (n + 1) + 1) : rest[i] = hist[n + 1 + i - 1]
    BY <1>1, <1>2, SubSeqProperties
  <1> HIDE DEF rest
  <1>4. DOMAIN rest = 1..(Len(hist) - n) /\ \A i \in 1..(Len(hist) - n) : rest[i] = hist[n + i]
    <2>1. Len(rest) = Len(hist) - n
      <3>0. n \in Int /\ n <= Len(hist) /\ Len(hist) \in Int
        BY <1>1, <1>2
      <3>1. \A k, l \in Int : k <= l =>
                l - (k + 1) + 1 = l - k /\ (~ (k + 1 <= l) => l - k = 0)
        OBVIOUS
      <3> QED
        BY <1>3, <3>0, <3>1
    <2>3. DOMAIN rest = 1..Len(rest)
      BY <1>3, HistoryType
    <2>2. ASSUME NEW i \in 1..(Len(hist) - n) PROVE rest[i] = hist[n + i]
      <3>1. i \in 1..(Len(hist) - (n + 1) + 1) /\ n + 1 + i - 1 = n + i
        BY <1>1, <1>2
      <3> QED
        BY <1>3, <3>1
    <2> QED
      BY <2>1, <2>2, <2>3
  <1>5. \A j \in 1..Len(hist) : hist[j].time \in Int
    BY HistoryType
  <1>6. Ordered(rest)
    <2>1. ASSUME NEW i \in DOMAIN rest, NEW j \in DOMAIN rest, i <= j
          PROVE  rest[i].time <= rest[j].time
      <3>1. n + i \in DOMAIN hist /\ n + j \in DOMAIN hist /\ n + i <= n + j
        BY <1>1, <1>2, <1>4, <2>1
      <3> QED
        BY <1>4, <3>1 DEF Ordered
    <2> QED
      BY <2>1 DEF Ordered
  <1>7. ASSUME NEW i \in DOMAIN rest
        PROVE  rest[i].time > tl /\ \E j \in DOMAIN hist : rest[i] = hist[j]
    <2>1. n < Len(hist) /\ n + i \in DOMAIN hist /\ n + 1 \in DOMAIN hist /\ n + 1 <= n + i
      BY <1>1, <1>2, <1>4
    <2>2. hist[n + 1].time <= hist[n + i].time
      BY <2>1 DEF Ordered
    <2> QED
      BY <1>1, <1>4, <1>5, <1>2, <2>1, <2>2
  <1>8. ASSUME NEW j \in DOMAIN hist, hist[j].time > tl
        PROVE  \E i \in DOMAIN rest : rest[i] = hist[j]
    <2>1. j > n
      BY <1>1, <1>2, <1>5, <1>8
    <2>2. j - n \in DOMAIN rest /\ n + (j - n) = j
      BY <1>1, <1>2, <1>4, <2>1
    <2>3. rest[j - n] = hist[j]
      BY <1>4, <2>2
    <2> QED
      BY <2>2, <2>3
  <1> QED
    BY <1>3, <1>6, <1>7, <1>8 DEF n, rest

-----------------------------------------------------------------------------
(* What ClearHistory returns in a state that satisfies the invariant: ordered *)
(* accepted attempts in range, among them the last one of every host that is  *)
(* in range.                                                                  *)
LEMMA ClearHistoryKeeps ==
    ASSUME HistoryExact
    PROVE  /\ ClearHistory \in Seq(Attempt)
           /\ Ordered(ClearHistory)
           /\ \A i \in DOMAIN ClearHistory :
                /\ ClearHistory[i].time > now - Limit
                /\ ClearHistory[i].time <= now
                /\ ClearHistory[i].time <= accepted[ClearHistory[i].host]
           /\ \A h \in Host : accepted[h] > now - Limit =>
                \E i \in DOMAIN ClearHistory :
                    ClearHistory[i].host = h /\ ClearHistory[i].time = accepted[h]
  <1> DEFINE tl == now - Limit
             kept == IF lastConnection < tl THEN << >> ELSE history
  <1>0. history \in Seq(Attempt) /\ << >> \in Seq(Attempt) /\ tl \in Int
    BY LimiterAssumption DEF HistoryExact, Attempt
  <1>1. kept \in Seq(Attempt) /\ Ordered(kept)
    <2>1. DOMAIN << >> = {}
      OBVIOUS
    <2> QED
      BY <1>0, <2>1 DEF HistoryExact, Ordered
  <1>2. ClearHistory = SubSeq(kept, Expired(kept, tl) + 1, Len(kept))
    BY DEF ClearHistory
  <1>3. \A i \in DOMAIN kept : kept[i].time <= now /\ kept[i].time <= accepted[kept[i].host]
    <2>1. DOMAIN << >> = {}
      OBVIOUS
    <2> QED
      BY <2>1 DEF HistoryExact
  <1>4. ASSUME NEW h \in Host, accepted[h] > tl
        PROVE  \E i \in DOMAIN kept : kept[i].host = h /\ kept[i].time = accepted[h]
    <2>1. ~ (lastConnection < tl)
      BY <1>0, <1>4 DEF HistoryExact
    <2> QED
      BY <1>4, <2>1 DEF HistoryExact
  <1> HIDE DEF kept, tl
  <1>5. /\ ClearHistory \in Seq(Attempt)
        /\ Ordered(ClearHistory)
        /\ \A i \in DOMAIN ClearHistory :
            ClearHistory[i].time > tl /\ \E j \in DOMAIN kept : ClearHistory[i] = kept[j]
        /\ \A j \in DOMAIN kept :
            kept[j].time > tl => \E i \in DOMAIN ClearHistory : ClearHistory[i] = kept[j]
    BY <1>0, <1>1, <1>2, Cleared
  <1>6. ASSUME NEW h \in Host, accepted[h] > tl
        PROVE  \E i \in DOMAIN ClearHistory :
                    ClearHistory[i].host = h /\ ClearHistory[i].time = accepted[h]
    <2>1. PICK j \in DOMAIN kept : kept[j].host = h /\ kept[j].time = accepted[h]
      BY <1>4, <1>6
    <2>2. PICK i \in DOMAIN ClearHistory : ClearHistory[i] = kept[j]
      BY <1>5, <1>6, <2>1
    <2> QED
      BY <2>1, <2>2
  <1>7. ASSUME NEW i \in DOMAIN ClearHistory
        PROVE  /\ ClearHistory[i].time > tl
               /\ ClearHistory[i].time <= now
               /\ ClearHistory[i].time <= accepted[ClearHistory[i].host]
    BY <1>3, <1>5
  <1> QED
    BY <1>5, <1>6, <1>7 DEF tl

LEMMA ExactFromHistory == HistoryExact => ExactLimit
  <1> SUFFICES ASSUME HistoryExact, NEW h \in Host
               PROVE  InHistory(h, ClearHistory) <=> now - accepted[h] < Limit
    BY DEF ExactLimit
  <1>0. now \in Nat /\ Limit \in Nat /\ accepted[h] \in Int
    BY LimiterAssumption DEF HistoryExact
  <1>1. ASSUME InHistory(h, ClearHistory) PROVE now - accepted[h] < Limit
    <2>1. PICK i \in DOMAIN ClearHistory : ClearHistory[i].host = h
      BY <1>1 DEF InHistory
    <2>2. ClearHistory[i].time > now - Limit /\ ClearHistory[i].time <= accepted[h]
      BY <2>1, ClearHistoryKeeps
    <2>3. ClearHistory[i].time \in Int
      BY ClearHistoryKeeps, HistoryType
    <2> QED
      BY <1>0, <2>2, <2>3
  <1>2. ASSUME now - accepted[h] < Limit PROVE InHistory(h, ClearHistory)
    <2>1. accepted[h] > now - Limit
      BY <1>0, <1>2
    <2> QED
      BY <2>1, ClearHistoryKeeps DEF InHistory
  <1> QED
    BY <1>1, <1>2

-----------------------------------------------------------------------------
LEMMA InitExact == LimiterInit => HistoryExact
  <1> SUFFICES ASSUME LimiterInit PROVE HistoryExact
    OBVIOUS
  <1>1. Past \in Int /\ Past <= 0 /\ Past <= Past /\ ~ (Past > 0 - Limit)
    BY LimiterAssumption DEF Past
  <1>2. << >> \in Seq([host : Host, time : Int]) /\ DOMAIN << >> = {}
    OBVIOUS
  <1> QED
    BY <1>1, <1>2 DEF LimiterInit, HistoryExact

LEMMA AcceptsExact ==
    ASSUME HistoryExact, NEW h \in Host, Accepts(h) PROVE HistoryExact'
  <1> DEFINE rest == ClearHistory
             new == [host |-> h, time |-> now]
  <1>0. now \in Nat /\ lastConnection \in Int /\ accepted \in [Host -> Int] /\ Limit \in Nat
    BY LimiterAssumption DEF HistoryExact
  <1>1. /\ now' = now
        /\ lastConnection' = now
        /\ history' = Append(rest, new)
        /\ accepted' = [accepted EXCEPT ![h] = now]
    BY DEF Accepts
  <1>2. /\ rest \in Seq(Attempt)
        /\ Ordered(rest)
        /\ \A i \in DOMAIN rest :
            rest[i].time <= now /\ rest[i].time <= accepted[rest[i].host]
        /\ \A g \in Host : accepted[g] > now - Limit =>
            \E i \in DOMAIN rest : rest[i].host = g /\ rest[i].time = accepted[g]
    BY ClearHistoryKeeps
  <1>3. new \in Attempt
    BY <1>0 DEF Attempt
  <1> HIDE DEF rest
  <1>4. /\ Len(rest) \in Nat
        /\ DOMAIN rest = 1..Len(rest)
        /\ \A i \in 1..Len(rest) : rest[i] \in Attempt /\ rest[i].time \in Int
    BY <1>2, HistoryType
  <1>5. /\ history' \in Seq(Attempt)
        /\ DOMAIN history' = 1..(Len(rest) + 1)
        /\ \A i \in 1..Len(rest) : history'[i] = rest[i]
        /\ history'[Len(rest) + 1] = new
    <2>1. /\ history' \in Seq(Attempt)
          /\ Len(history') = Len(rest) + 1
          /\ \A i \in 1..Len(rest) : history'[i] = rest[i]
          /\ history'[Len(rest) + 1] = new
      BY <1>1, <1>2, <1>3, AppendProperties
    <2>2. DOMAIN history' = 1..Len(history')
      BY <2>1, HistoryType
    <2> QED
      BY <2>1, <2>2
  <1>6. new.host = h /\ new.time = now
    OBVIOUS
  <1> HIDE DEF new
  <1>7. \A i, j \in DOMAIN history' : i <= j => history'[i].time <= history'[j].time
    <2> SUFFICES ASSUME NEW i \in DOMAIN history', NEW j \in DOMAIN history', i <= j
                 PROVE  history'[i].time <= history'[j].time
      OBVIOUS
    <2>1. CASE j \in 1..Len(rest)
      <3>1. i \in 1..Len(rest)
        BY <1>4, <1>5, <2>1
      <3> QED
        BY <1>2, <1>4, <1>5, <2>1, <3>1 DEF Ordered
    <2>2. CASE j = Len(rest) + 1
      <3>1. CASE i \in 1..Len(rest)
        BY <1>2, <1>4, <1>5, <1>6, <2>2, <3>1
      <3>2. CASE i = Len(rest) + 1
        BY <1>0, <1>5, <1>6, <2>2, <3>2
      <3> QED
        BY <1>4, <1>5, <3>1, <3>2
    <2> QED
      BY <1>4, <1>5, <2>1, <2>2
  <1>8. \A g \in Host : accepted[g] \in Int /\ accepted'[g] = (IF g = h THEN now ELSE accepted[g])
    BY <1>0, <1>1
  <1>11. \A g \in Host : accepted[g] <= lastConnection
    BY DEF HistoryExact
  <1>12. lastConnection <= now
    BY DEF HistoryExact
  <1>9. \A i \in DOMAIN history' :
            history'[i].time <= now' /\ history'[i].time <= accepted'[history'[i].host]
    <2> SUFFICES ASSUME NEW i \in DOMAIN history'
                 PROVE  history'[i].time <= now' /\ history'[i].time <= accepted'[history'[i].host]
      OBVIOUS
    <2>1. CASE i \in 1..Len(rest)
      <3>1. rest[i].host \in Host /\ rest[i].time \in Int
        BY <1>4, <2>1 DEF Attempt
      <3>2. rest[i].time <= now /\ rest[i].time <= accepted[rest[i].host]
        BY <1>2, <1>4, <2>1
      <3>3. history'[i] = rest[i]
        BY <1>5, <2>1
      <3> QED
        BY <1>0, <1>1, <1>8, <3>1, <3>2, <3>3
    <2>2. CASE i = Len(rest) + 1
      BY <1>0, <1>1, <1>5, <1>6, <1>8, <2>2
    <2> QED
      BY <1>4, <1>5, <2>1, <2>2
  <1>10. \A g \in Host :
            /\ accepted'[g] <= lastConnection'
            /\ accepted'[g] > now' - Limit =>
                \E i \in DOMAIN history' : history'[i].host = g /\ history'[i].time = accepted'[g]
    <2> SUFFICES ASSUME NEW g \in Host
                 PROVE  /\ accepted'[g] <= lastConnection'
                        /\ accepted'[g] > now' - Limit =>
                            \E i \in DOMAIN history' :
                                history'[i].host = g /\ history'[i].time = accepted'[g]
      OBVIOUS
    <2>1. accepted'[g] <= lastConnection'
      BY <1>0, <1>1, <1>8, <1>11, <1>12
    <2>2. CASE g = h
      <3>1. Len(rest) + 1 \in DOMAIN history'
        BY <1>4, <1>5
      <3> QED
        BY <1>5, <1>6, <1>8, <2>1, <2>2, <3>1
    <2>3. CASE g # h
      <3>1. ASSUME accepted'[g] > now' - Limit
            PROVE  \E i \in DOMAIN history' :
                        history'[i].host = g /\ history'[i].time = accepted'[g]
        <4>1. PICK i \in DOMAIN rest : rest[i].host = g /\ rest[i].time = accepted[g]
          BY <1>1, <1>2, <1>8, <2>3, <3>1
        <4>2. i \in DOMAIN history' /\ history'[i] = rest[i]
          BY <1>4, <1>5
        <4> QED
          BY <1>8, <2>3, <4>1, <4>2
      <3> QED
        BY <2>1, <3>1
    <2> QED
      BY <2>2, <2>3
  <1>13. history' \in Seq([host : Host, time : Int])
    BY <1>5 DEF Attempt
  <1>14. now' \in Nat /\ lastConnection' \in Int /\ lastConnection' <= now' /\ accepted' \in [Host -> Int]
    BY <1>0, <1>1
  <1> QED
    BY <1>7, <1>9, <1>10, <1>13, <1>14 DEF HistoryExact

LEMMA RefusesExact ==
    ASSUME HistoryExact, NEW h \in Host, Refuses(h) PROVE HistoryExact'
  <1> DEFINE rest == ClearHistory
  <1>1. history' = rest /\ UNCHANGED <<now, lastConnection, accepted>>
    BY DEF Refuses
  <1>2. /\ rest \in Seq(Attempt)
        /\ Ordered(rest)
        /\ \A i \in DOMAIN rest :
            rest[i].time <= now /\ rest[i].time <= accepted[rest[i].host]
        /\ \A g \in Host : accepted[g] > now - Limit =>
            \E i \in DOMAIN rest : rest[i].host = g /\ rest[i].time = accepted[g]
    BY ClearHistoryKeeps
  <1> HIDE DEF rest
  <1> QED
    BY <1>1, <1>2 DEF HistoryExact, Attempt, Ordered

LEMMA TickExact == ASSUME HistoryExact, Tick PROVE HistoryExact'
  <1>1. now' = now + 1 /\ UNCHANGED <<lastConnection, history, accepted>>
    BY DEF Tick
  <1>2. now \in Nat /\ Limit \in Nat /\ lastConnection \in Int /\ lastConnection <= now
    BY LimiterAssumption DEF HistoryExact
  <1>3. \A i \in DOMAIN history : history[i].time \in Int
    <2>1. history \in Seq(Attempt)
      BY DEF HistoryExact, Attempt
    <2> QED
      BY <2>1, HistoryType
  <1>4. \A i \in DOMAIN history :
            history[i].time <= now + 1 /\ history[i].time <= accepted[history[i].host]
    BY <1>2, <1>3 DEF HistoryExact
  <1>5. \A h \in Host :
            /\ accepted[h] <= lastConnection
            /\ accepted[h] > now + 1 - Limit => accepted[h] > now - Limit
    <2>1. \A h \in Host : accepted[h] \in Int /\ accepted[h] <= lastConnection
      BY DEF HistoryExact
    <2>2. \A a, n, l \in Int : a > n + 1 - l => a > n - l
      OBVIOUS
    <2>3. now \in Int /\ Limit \in Int
      BY <1>2
    <2>4. ASSUME NEW h \in Host, accepted[h] > now + 1 - Limit
          PROVE  accepted[h] > now - Limit
      BY <2>1, <2>2, <2>3, <2>4
    <2> QED
      BY <2>1, <2>4
  <1> QED
    BY <1>1, <1>2, <1>4, <1>5 DEF HistoryExact

LEMMA NextExact == HistoryExact /\ [LimiterNext]_limiterVars => HistoryExact'
  <1> SUFFICES ASSUME HistoryExact, [LimiterNext]_limiterVars PROVE HistoryExact'
    OBVIOUS
  <1>1. CASE Tick
    BY <1>1, TickExact
  <1>2. ASSUME NEW h \in Host, Accepts(h) PROVE HistoryExact'
    BY <1>2, AcceptsExact
  <1>3. ASSUME NEW h \in Host, Refuses(h) PROVE HistoryExact'
    BY <1>3, RefusesExact
  <1>4. CASE UNCHANGED limiterVars
    BY <1>4 DEF limiterVars, HistoryExact
  <1> QED
    BY <1>1, <1>2, <1>3, <1>4 DEF LimiterNext

\* An attempt to connect is refused if and only if the last accepted connection
\* of its host is younger than the limit, for any limit, any number of hosts and
\* at any time (limiter.go, clearHistory and isInHistory).
THEOREM LimitAlwaysExact == LimiterSpec => []ExactLimit
  BY InitExact, NextExact, ExactFromHistory, PTL DEF LimiterSpec

-----------------------------------------------------------------------------
(* 3. The composition. *)

Notice == [peer : Peer, online : BOOLEAN]

(* The constants of the composition have the types the store wants. *)
LEMMA Addresses ==
    /\ \A p \in Peer : IpOf[p] \in Addr /\ EpOf[p] \in Addr /\ HashOf[p] \in Hash
    /\ \A p \in Inbound : p \in Peer /\ p \in Caller
    /\ Cat \in Caller /\ Manager \in Caller /\ Dialer \in Caller
  BY AddrAssumption, PeerAssumption, AdmissionAssumption

(* Every step is a step of the store, or leaves it alone. *)
LEMMA StoreStep == AdmissionTypeOK /\ AdmissionNext => [Next]_vars
  <1> SUFFICES ASSUME AdmissionTypeOK, AdmissionNext PROVE Next \/ UNCHANGED vars
    OBVIOUS
  <1>1. CASE (Tick /\ UNCHANGED <<vars, admVars>>) \/ ListenEnds
    BY <1>1 DEF ListenEnds
  <1>2. CASE TakeOnline
    <2>0. status \in Seq(Notice)
      BY DEF AdmissionTypeOK, Notice
    <2>1. Head(status) \in Notice
      BY <1>2, <2>0 DEF TakeOnline
    <2>2. Head(status).peer \in Peer
      BY <2>1 DEF Notice
    <2> QED
      BY <1>2, <2>2, Addresses DEF TakeOnline, Next
  <1>3. CASE RemoveOld
    <2>1. mgr.old \in Peer
      BY <1>3 DEF RemoveOld, AdmissionTypeOK
    <2> QED
      BY <1>3, <2>1 DEF RemoveOld, Next
  <1>4. CASE AddNew
    <2>1. mgr.new \in Peer
      BY <1>4 DEF AddNew, AdmissionTypeOK
    <2> QED
      BY <1>4, <2>1 DEF AddNew, Next
  <1>5. CASE TakeOffline
    <2>0. status \in Seq(Notice)
      BY DEF AdmissionTypeOK, Notice
    <2>1. Head(status) \in Notice
      BY <1>5, <2>0 DEF TakeOffline
    <2>2. Head(status).peer \in Peer
      BY <2>1 DEF Notice
    <2> QED
      BY <1>5, <2>2 DEF TakeOffline, Next
  <1>6. CASE NoticeDone \/ CatRound \/ CatEnds
    BY <1>6, Addresses DEF NoticeDone, CatRound, CatEnds, Next
  <1>7. ASSUME NEW S, SetSpecial(S) PROVE UNCHANGED vars
    BY <1>7 DEF SetSpecial
  <1>8. ASSUME NEW p \in Inbound,
               Accept(p) \/ TurnAway(p) \/ RefusedBan(p) \/ CheckSpecial(p) \/ NoIpLimit(p)
        PROVE  UNCHANGED vars
    BY <1>8 DEF Accept, TurnAway, RefusedBan, CheckSpecial, NoIpLimit
  <1>9. ASSUME NEW p \in Inbound,
               CheckMax(p) \/ CheckIp(p) \/ CollectShare(p) \/ RejectWithShare(p)
        PROVE  Next
    BY <1>9, Addresses DEF CheckMax, CheckIp, CollectShare, RejectWithShare, Next
  <1>10. ASSUME NEW p \in Peer, DialOut(p) PROVE Next
    BY <1>10, Addresses DEF DialOut, Next
  <1>11. ASSUME NEW p \in Peer, HandshakeFails(p) \/ HandshakeSucceeds(p)
         PROVE  Next \/ UNCHANGED vars
    BY <1>11, Addresses DEF HandshakeFails, HandshakeSucceeds, Checked, Next
  <1>12. ASSUME NEW p \in Peer, Announce(p) \/ ConnectionEnds(p) \/ CatSkip(p) \/ CatDrop(p)
         PROVE  UNCHANGED vars
    BY <1>12 DEF Announce, ConnectionEnds, CatSkip, CatDrop
  <1> QED
    BY <1>1, <1>2, <1>3, <1>4, <1>5, <1>6, <1>7, <1>8, <1>9, <1>10, <1>11, <1>12
       DEF AdmissionNext

(* Every step is a step of the limiter, or leaves it alone. *)
LEMMA LimiterStep == AdmissionNext => [LimiterNext]_limiterVars
  <1> SUFFICES ASSUME AdmissionNext PROVE LimiterNext \/ UNCHANGED limiterVars
    OBVIOUS
  <1>1. CASE Tick /\ UNCHANGED <<vars, admVars>>
    BY <1>1 DEF LimiterNext
  <1>2. ASSUME NEW S, SetSpecial(S) PROVE UNCHANGED limiterVars
    BY <1>2 DEF SetSpecial
  <1>3. ASSUME NEW p \in Inbound, Accept(p) \/ TurnAway(p) PROVE LimiterNext
    BY <1>3, AdmissionAssumption DEF Accept, TurnAway, LimiterNext
  <1>4. CASE \/ ListenEnds \/ TakeOnline \/ RemoveOld \/ AddNew \/ TakeOffline
             \/ NoticeDone \/ CatRound \/ CatEnds
    BY <1>4 DEF ListenEnds, TakeOnline, RemoveOld, AddNew, TakeOffline, NoticeDone,
                CatRound, CatEnds
  <1>5. ASSUME NEW p \in Inbound,
               \/ RefusedBan(p) \/ CheckMax(p) \/ CheckSpecial(p) \/ NoIpLimit(p)
               \/ CheckIp(p) \/ CollectShare(p) \/ RejectWithShare(p)
        PROVE  UNCHANGED limiterVars
    BY <1>5 DEF RefusedBan, CheckMax, CheckSpecial, NoIpLimit, CheckIp, CollectShare,
                RejectWithShare
  <1>6. ASSUME NEW p \in Peer,
               \/ DialOut(p) \/ HandshakeFails(p) \/ HandshakeSucceeds(p) \/ Announce(p)
               \/ ConnectionEnds(p) \/ CatSkip(p) \/ CatDrop(p)
        PROVE  UNCHANGED limiterVars
    BY <1>6 DEF DialOut, HandshakeFails, HandshakeSucceeds, Announce, ConnectionEnds,
                CatSkip, CatDrop
  <1> QED
    BY <1>1, <1>2, <1>3, <1>4, <1>5, <1>6 DEF AdmissionNext

-----------------------------------------------------------------------------
(* A notice about a peer is added, and one is taken off. *)
LEMMA NoticeAdded ==
    ASSUME NEW q \in Seq(Notice), NEW p \in Peer, NEW on \in BOOLEAN
    PROVE  Append(q, [peer |-> p, online |-> on]) \in Seq(Notice)
  <1>1. [peer |-> p, online |-> on] \in Notice
    BY DEF Notice
  <1> QED
    BY <1>1

LEMMA StopTyped ==
    ASSUME NEW q \in Seq(Notice), NEW p \in Peer, Stop(p, q)
    PROVE  status' \in Seq(Notice)
  BY NoticeAdded DEF Stop

LEMMA NextTyped ==
    AdmissionTypeOK /\ IInv /\ [AdmissionNext]_allVars => AdmissionTypeOK'
  <1> SUFFICES ASSUME AdmissionTypeOK, IInv, [AdmissionNext]_allVars
               PROVE  AdmissionTypeOK'
    OBVIOUS
  <1>1. TypeOK'
    <2>1. [Next]_vars
      BY StoreStep DEF allVars
    <2> QED
      BY <2>1, NextIInv DEF IInv
  <1>2. status \in Seq(Notice)
    BY DEF AdmissionTypeOK, Notice
  <1> DEFINE Hands(m) == /\ m \in [at : {"idle", "remove", "add", "done"},
                                   new : Peer \cup {NoPeer}, old : Peer \cup {NoPeer}]
                         /\ m.at \in {"remove", "add"} => m.new # NoPeer
                         /\ m.at = "remove" => m.old # NoPeer
  <1>3. Hands(mgr)
    BY DEF AdmissionTypeOK
  <1>4. SUFFICES status' \in Seq(Notice) /\ Hands(mgr')
    BY <1>1 DEF AdmissionTypeOK, Notice
  <1>5. ASSUME UNCHANGED <<status, mgr>> PROVE status' \in Seq(Notice) /\ Hands(mgr')
    BY <1>2, <1>3, <1>5
  <1>6. CASE TakeOnline
    <2> DEFINE p == Head(status).peer
               old == peers[HashOf[p]]
    <2>1. Head(status) \in Notice /\ Tail(status) \in Seq(Notice)
      BY <1>2, <1>6 DEF TakeOnline
    <2>2. p \in Peer
      BY <2>1 DEF Notice
    <2>3. old \in Peer \cup {NoPeer}
      BY <2>2, Addresses DEF AdmissionTypeOK, TypeOK, PeerMap
    <2>4. CASE old = NoPeer
      <3>1. status' = Tail(status) /\ mgr' = [at |-> "add", new |-> p, old |-> NoPeer]
        BY <1>6, <2>4 DEF TakeOnline
      <3> QED
        BY <2>1, <2>2, <3>1, PeerAssumption
    <2>5. CASE old # NoPeer
      <3>1. Stop(old, Tail(status)) /\ mgr' = [at |-> "remove", new |-> p, old |-> old]
        BY <1>6, <2>5 DEF TakeOnline
      <3>2. status' \in Seq(Notice)
        BY <2>1, <2>3, <2>5, <3>1, StopTyped
      <3> HIDE DEF p, old
      <3> QED
        BY <2>2, <2>3, <2>5, <3>1, <3>2, PeerAssumption
    <2> QED
      BY <2>4, <2>5
  <1>7. CASE RemoveOld \/ AddNew
    BY <1>2, <1>3, <1>7 DEF RemoveOld, AddNew, MgrTo
  <1>8. CASE TakeOffline
    <2>1. status' \in Seq(Notice)
      BY <1>2, <1>8 DEF TakeOffline
    <2> QED
      BY <1>3, <1>8, <2>1 DEF TakeOffline
  <1>9. CASE NoticeDone
    BY <1>2, <1>9 DEF NoticeDone
  <1>10. ASSUME NEW p \in Peer, Announce(p) PROVE status' \in Seq(Notice) /\ Hands(mgr')
    BY <1>2, <1>3, <1>10, NoticeAdded DEF Announce
  <1>11. ASSUME NEW p \in Peer, ConnectionEnds(p) \/ CatDrop(p)
         PROVE  status' \in Seq(Notice) /\ Hands(mgr')
    <2>1. Stop(p, status) /\ UNCHANGED mgr
      BY <1>11 DEF ConnectionEnds, CatDrop
    <2> QED
      BY <1>2, <1>3, <2>1, StopTyped
  <1>12. CASE \/ Tick /\ UNCHANGED <<vars, admVars>>
              \/ ListenEnds \/ CatRound \/ CatEnds \/ UNCHANGED allVars
    BY <1>5, <1>12 DEF ListenEnds, CatRound, CatEnds, allVars, admVars
  <1>13. ASSUME NEW S, SetSpecial(S) PROVE UNCHANGED <<status, mgr>>
    BY <1>13 DEF SetSpecial
  <1>14. ASSUME NEW p \in Inbound,
                \/ Accept(p) \/ TurnAway(p) \/ RefusedBan(p) \/ CheckMax(p)
                \/ CheckSpecial(p) \/ NoIpLimit(p) \/ CheckIp(p) \/ CollectShare(p) \/ RejectWithShare(p)
         PROVE  UNCHANGED <<status, mgr>>
    BY <1>14 DEF Accept, TurnAway, RefusedBan, CheckMax, CheckSpecial, NoIpLimit,
                 CheckIp, CollectShare, RejectWithShare, admVars
  <1>15. ASSUME NEW p \in Peer,
                DialOut(p) \/ HandshakeFails(p) \/ HandshakeSucceeds(p) \/ CatSkip(p)
         PROVE  UNCHANGED <<status, mgr>>
    BY <1>15 DEF DialOut, HandshakeFails, HandshakeSucceeds, CatSkip
  <1> HIDE DEF Hands
  <1> QED
    BY <1>5, <1>6, <1>7, <1>8, <1>9, <1>10, <1>11, <1>12, <1>13, <1>14, <1>15
       DEF AdmissionNext

LEMMA InitTyped == AdmissionInit => AdmissionTypeOK /\ IInv
  <1> SUFFICES ASSUME AdmissionInit PROVE AdmissionTypeOK /\ IInv
    OBVIOUS
  <1>1. Init
    BY DEF AdmissionInit
  <1>2. IInv
    BY <1>1, InitIInv
  <1>3. TypeOK
    BY <1>2 DEF IInv
  <1>4. status = << >> /\ mgr = [at |-> "idle", new |-> NoPeer, old |-> NoPeer]
    BY DEF AdmissionInit
  <1> QED
    BY <1>2, <1>3, <1>4 DEF AdmissionTypeOK

LEMMA NextBoth ==
    AdmissionTypeOK /\ IInv /\ [AdmissionNext]_allVars => IInv' /\ [Next]_vars
  <1> SUFFICES ASSUME AdmissionTypeOK, IInv, [AdmissionNext]_allVars
               PROVE  IInv' /\ [Next]_vars
    OBVIOUS
  <1>1. [Next]_vars
    BY StoreStep DEF allVars
  <1> QED
    BY <1>1, NextIInv

\* Notices are about peers, and manageOnline always has the peers it removes and
\* adds, in the running node with any number of peers and callers.
THEOREM AdmissionTypeCorrect == AdmissionSpec => []AdmissionTypeOK
  BY InitTyped, NextTyped, NextBoth, PTL DEF AdmissionSpec

\* The node uses the store only through its operations: everything proved of the
\* store alone, exact counters and fresh slices, holds while connections are
\* admitted, replaced and dropped.
THEOREM AdmissionUsesStore == AdmissionSpec => Spec
  <1>1. AdmissionInit => Init
    BY DEF AdmissionInit
  <1> QED
    BY <1>1, InitTyped, NextTyped, NextBoth, PTL DEF AdmissionSpec, Spec

\* The rate limit is exact in the running node, where the listen loop competes
\* with everything else.
THEOREM AdmissionLimitExact == AdmissionSpec => []ExactLimit
  <1>1. AdmissionInit => LimiterInit
    BY DEF AdmissionInit
  <1>2. [AdmissionNext]_allVars => [LimiterNext]_limiterVars
    BY LimiterStep DEF allVars
  <1>3. AdmissionSpec => LimiterSpec
    BY <1>1, <1>2, PTL DEF AdmissionSpec, LimiterSpec
  <1> QED
    BY <1>3, LimitAlwaysExact, PTL


-----------------------------------------------------------------------------
(* 4. The cat round stops as many peers as are too many, or all it may. *)

(* Sanitize leaves limits that are not above MaxPeers. *)
Settings ==
    /\ conf.MaxPeers \in Nat
    /\ conf.MaxIncoming \in Nat /\ conf.MaxIncoming <= conf.MaxPeers
    /\ conf.DropTo \in Nat /\ conf.DropTo <= conf.MaxPeers
    /\ conf.PeerIPLimitIncoming \in Nat

(* Of the peers of its list that the round has gone past, it has stopped some, *)
(* which with those still to drop are as many as are too many; the others were *)
(* special then.                                                               *)
Dropped(D) ==
    /\ D \subseteq handed[Cat] \ cat.left
    /\ D \subseteq ended
    /\ Cardinality(D) + cat.toDrop + conf.DropTo = Cardinality(handed[Cat])
    /\ \A q \in handed[Cat] \ cat.left : q \in D \/ EpOf[q] \in cat.seen

Trimming ==
    cat.at = "drop" =>
        /\ cat = [at |-> "drop", left |-> cat.left, toDrop |-> cat.toDrop, seen |-> cat.seen]
        /\ cat.left \subseteq handed[Cat]
        /\ cat.toDrop \in Nat \ {0}
        /\ special \subseteq cat.seen
        /\ \E D : Dropped(D)

-----------------------------------------------------------------------------
(* The limits: a peer counts from its check until it leaves the store. *)

Stages == {"off", "arrived", "full", "reject", "refuse", "below max", "handshake",
           "made", "queued", "known"}
IpPassed == {"handshake", "made", "queued"}
MaxPassed == IpPassed \cup {"below max"}

(* The incoming peers that are stored, or in one of the stages. *)
Counting(stages) == {p \in Inbound : p \in Stored(peers) \/ stage[p] \in stages}

Within(S, limit, n) == S = {} \/ Cardinality(S) < limit + n

Shape ==
    /\ stage \in [Peer -> Stages]
    /\ width \in [Addr \cup {"all"} -> Nat]

(* The peers a queue of notices has online notices of; each has only one. *)
Announced(q) == {q[i].peer : i \in {j \in DOMAIN q : q[j].online}}
Once(q) ==
    \A i, j \in DOMAIN q : q[i].online /\ q[j].online /\ q[i].peer = q[j].peer => i = j

(* An online notice is about a queued peer, and so is the one manageOnline has *)
(* in its hands: a peer is added once.                                         *)
Queued ==
    /\ Once(status)
    /\ \A p \in Announced(status) : stage[p] = "queued"
    /\ mgr.at \in {"remove", "add"} =>
        stage[mgr.new] = "queued" /\ mgr.new \notin Announced(status)

MaxLimited == Within(Counting(MaxPassed) \cap Regular, conf.MaxIncoming, width["all"])

IpLimited ==
    conf.PeerIPLimitIncoming > 0 =>
        \A a \in Addr : Within({p \in Counting(IpPassed) : IpOf[p] = a},
                               conf.PeerIPLimitIncoming, width[a])

LimitInv == Shape /\ Queued /\ MaxLimited /\ IpLimited

-----------------------------------------------------------------------------
LEMMA SettingsKept == AdmissionInit => Settings
  <1> SUFFICES ASSUME AdmissionInit PROVE Settings
    OBVIOUS
  <1>1. PICK c \in Candidates : conf = Sanitize(c)
    BY DEF AdmissionInit, Usable
  <1> DEFINE in == Least(c.MaxIncoming, c.MaxPeers)
             to == Least(c.DropTo, c.MaxPeers)
             d == [c EXCEPT !.MaxIncoming = in]
  <1>2. /\ c.MaxPeers \in Nat /\ c.MaxIncoming \in Nat /\ c.DropTo \in Nat
        /\ c.PeerIPLimitIncoming \in Nat
        /\ c = [f \in DOMAIN c |-> c[f]]
        /\ {"MaxPeers", "MaxIncoming", "DropTo", "PeerIPLimitIncoming"} \subseteq DOMAIN c
    BY CandidatesAssumption
  <1>3. in \in Nat /\ in <= c.MaxPeers /\ to \in Nat /\ to <= c.MaxPeers
    BY <1>2 DEF Least
  <1>4. conf = [d EXCEPT !.DropTo = to]
    BY <1>1 DEF Sanitize
  <1> HIDE DEF in, to
  <1>5. /\ d.MaxPeers = c.MaxPeers /\ d.MaxIncoming = in
        /\ d.PeerIPLimitIncoming = c.PeerIPLimitIncoming
        /\ d = [f \in DOMAIN c |-> d[f]]
    BY <1>2
  <1> HIDE DEF d
  <1>6. /\ conf.MaxPeers = d.MaxPeers /\ conf.MaxIncoming = d.MaxIncoming
        /\ conf.PeerIPLimitIncoming = d.PeerIPLimitIncoming /\ conf.DropTo = to
    BY <1>2, <1>4, <1>5
  <1> QED
    BY <1>2, <1>3, <1>5, <1>6 DEF Settings

(* Only the round itself changes its list, and no peer is ever restarted. *)
LEMMA CatQuiet ==
    ASSUME AdmissionTypeOK, AdmissionNext, ~ CatRound, ~ CatEnds,
           \A p \in Peer : ~ CatSkip(p) /\ ~ CatDrop(p), \A S : ~ SetSpecial(S)
    PROVE  /\ UNCHANGED <<cat, conf, special>>
           /\ ended \subseteq ended'
           /\ handed'[Cat] = handed[Cat]
  <1>0. handed \in [Caller -> SUBSET Peer]
    BY DEF AdmissionTypeOK, TypeOK
  <1> DEFINE Goal == /\ UNCHANGED <<cat, conf, special>>
                     /\ ended \subseteq ended'
                     /\ handed'[Cat] = handed[Cat]
  <1>1. CASE (Tick /\ UNCHANGED <<vars, admVars>>) \/ ListenEnds
    BY <1>1 DEF ListenEnds, vars, admVars
  <1>2. CASE TakeOnline
    <2> DEFINE h == HashOf[Head(status).peer]
    <2>1. Get(Manager, h) /\ UNCHANGED <<cat, conf, special>>
      BY <1>2 DEF TakeOnline
    <2>2. handed'[Cat] = handed[Cat]
      BY <1>0, <2>1, Addresses, AdmissionAssumption DEF Get
    <2>3. ended \subseteq ended'
      BY <1>2 DEF TakeOnline, Stop
    <2> QED
      BY <2>1, <2>2, <2>3
  <1>3. CASE RemoveOld \/ AddNew \/ TakeOffline
    BY <1>3 DEF RemoveOld, AddNew, TakeOffline, Remove, Add
  <1>4. CASE NoticeDone
    BY <1>0, <1>4, Addresses, AdmissionAssumption DEF NoticeDone, Forget
  <1>5. ASSUME NEW p \in Inbound, CheckSpecial(p) PROVE Goal
    BY <1>5 DEF CheckSpecial, vars
  <1>6. ASSUME NEW p \in Inbound, Accept(p) \/ TurnAway(p) \/ RefusedBan(p) \/ NoIpLimit(p)
        PROVE  Goal
    BY <1>6 DEF Accept, TurnAway, RefusedBan, NoIpLimit, vars, admVars
  <1>7. ASSUME NEW p \in Inbound, CheckMax(p) \/ CheckIp(p)
        PROVE  Goal
    BY <1>7 DEF CheckMax, CheckIp, Total, Count, Answer
  <1>8. ASSUME NEW p \in Inbound, CollectShare(p) \/ RejectWithShare(p)
        PROVE  Goal
    <2>1. p # Cat /\ p \in Caller
      BY Addresses, AdmissionAssumption
    <2>2. \/ SliceMiss(p)
          \/ SliceHit(p) \/ SliceRebuild(p) \/ Forget(p)
      BY <1>8 DEF CollectShare, RejectWithShare
    <2>3. UNCHANGED handed \/ \E v : handed' = [handed EXCEPT ![p] = v]
      BY <2>2, Zenon DEF SliceHit, SliceMiss, SliceRebuild, Forget
    <2>4. handed'[Cat] = handed[Cat]
      BY <1>0, <2>1, <2>3, Addresses
    <2> QED
      BY <1>8, <2>4 DEF CollectShare, RejectWithShare
  <1>9. ASSUME NEW p \in Peer, DialOut(p) PROVE Goal
    BY <1>9 DEF DialOut, Connected, Answer
  <1>10. ASSUME NEW p \in Peer, HandshakeFails(p) \/ HandshakeSucceeds(p) PROVE Goal
    <2>1. handed'[Cat] = handed[Cat]
      <3>1. CASE p \in Inbound
        <4>1. p # Cat /\ p \in Caller
          BY <3>1, Addresses, AdmissionAssumption
        <4>2. handed' = [handed EXCEPT ![p] = {}]
          BY <1>10, <3>1 DEF HandshakeFails, HandshakeSucceeds, Checked, Forget
        <4> QED
          BY <1>0, <4>1, <4>2, Addresses
      <3>2. CASE p \notin Inbound
        BY <1>10, <3>2 DEF HandshakeFails, HandshakeSucceeds, Checked, vars
      <3> QED
        BY <3>1, <3>2
    <2> QED
      BY <1>10, <2>1 DEF HandshakeFails, HandshakeSucceeds
  <1>11. ASSUME NEW p \in Peer, Announce(p) \/ ConnectionEnds(p) PROVE Goal
    BY <1>11 DEF Announce, ConnectionEnds, Stop, vars
  <1> HIDE DEF Goal
  <1>12. Goal
    BY <1>1, <1>2, <1>3, <1>4, <1>5, <1>6, <1>7, <1>8, <1>9, <1>10, <1>11
       DEF AdmissionNext, Goal
  <1> QED
    BY <1>12 DEF Goal

(* What is left of a finite set without a part of it. *)
LEMMA CountRest ==
    ASSUME NEW S, IsFiniteSet(S), NEW T \in SUBSET S, NEW R \in SUBSET (S \ T)
    PROVE  /\ Cardinality(S) \in Nat /\ Cardinality(T) \in Nat /\ Cardinality(R) \in Nat
           /\ Cardinality(T) <= Cardinality(S)
           /\ Cardinality(R) <= Cardinality(S) - Cardinality(T)
  <1>1. IsFiniteSet(T) /\ IsFiniteSet(S \ T)
    BY FS_Subset, S \ T \subseteq S
  <1>2. Cardinality(S \ T) = Cardinality(S) - Cardinality(S \cap T)
    BY <1>1, FS_Difference
  <1>3. S \cap T = T
    OBVIOUS
  <1>4. IsFiniteSet(R) /\ Cardinality(R) <= Cardinality(S \ T)
    BY <1>1, FS_Subset
  <1>5. Cardinality(T) <= Cardinality(S)
    BY FS_Subset
  <1> QED
    BY <1>1, <1>2, <1>3, <1>4, <1>5, FS_CardinalityType

LEMMA HandedFinite ==
    ASSUME AdmissionTypeOK, NEW S \in SUBSET handed[Cat]
    PROVE  IsFiniteSet(handed[Cat]) /\ IsFiniteSet(S) /\ Cardinality(S) \in Nat
  <1>1. handed[Cat] \in SUBSET Peer
    BY Addresses DEF AdmissionTypeOK, TypeOK
  <1> QED
    BY <1>1, PeerAssumption, FS_Subset, FS_CardinalityType

(* What a round that ends has left running. *)
Trimmed(running) ==
    \/ Cardinality(running) <= Least(conf.DropTo, conf.MaxPeers)
    \/ \A q \in running : EpOf[q] \in cat.seen

(* The round goes past a peer, which is special or was stopped. *)
LEMMA GoesPast ==
    ASSUME AdmissionTypeOK, Settings, Trimming, cat.at = "drop", NEW p \in cat.left,
           UNCHANGED <<conf, special, handed>>, NEW n \in Int,
           \/ SpecialEp(p) /\ n = cat.toDrop /\ UNCHANGED ended
           \/ ~ SpecialEp(p) /\ n = cat.toDrop - 1 /\ ended' = ended \cup {p},
           CatGoesOn(cat.left \ {p}, n)
    PROVE  /\ Trimming'
           /\ cat'.at = "over" => Trimmed(handed[Cat] \ ended')
  <1> DEFINE listed == handed[Cat]
             left == cat.left \ {p}
             running == listed \ ended'
  <1>1. /\ cat.left \subseteq listed /\ cat.toDrop \in Nat \ {0} /\ special \subseteq cat.seen
        /\ \E D : Dropped(D)
    BY DEF Trimming
  <1>2. PICK old : Dropped(old)
    BY <1>1
  <1>3. /\ old \subseteq listed /\ p \in listed /\ p \notin old /\ old \subseteq ended
        /\ Cardinality(old) + cat.toDrop + conf.DropTo = Cardinality(listed)
        /\ \A q \in listed \ cat.left : q \in old \/ EpOf[q] \in cat.seen
        /\ old \cap cat.left = {}
    BY <1>1, <1>2 DEF Dropped
  <1>4. IsFiniteSet(old) /\ Cardinality(old) \in Nat /\ Cardinality(listed) \in Nat
    BY <1>3, HandedFinite
  <1>5. PICK new : /\ new \subseteq listed \ left /\ new \subseteq ended'
                   /\ Cardinality(new) + n + conf.DropTo = Cardinality(listed)
                   /\ \A q \in listed \ left : q \in new \/ EpOf[q] \in cat.seen
    <2>1. CASE SpecialEp(p)
      <3>1. EpOf[p] \in cat.seen
        BY <1>1, <2>1 DEF SpecialEp
      <3>2. \A q \in listed \ left : q \in old \/ EpOf[q] \in cat.seen
        BY <1>3, <3>1
      <3>3. old \subseteq listed \ left
        BY <1>3
      <3>4. n = cat.toDrop /\ UNCHANGED ended
        BY <2>1
      <3> HIDE DEF listed, left
      <3> QED
        BY <1>3, <3>2, <3>3, <3>4
    <2>2. CASE ~ SpecialEp(p)
      <3> DEFINE new == old \cup {p}
      <3>1. Cardinality(new) = Cardinality(old) + 1
        BY <1>3, <1>4, FS_AddElement
      <3>2. n = cat.toDrop - 1 /\ new \subseteq ended'
        BY <1>3, <2>2
      <3>3. \A q \in listed \ left : q \in new \/ EpOf[q] \in cat.seen
        BY <1>3
      <3>4. new \subseteq listed \ left
        BY <1>3
      <3> HIDE DEF listed, left, new
      <3>5. Cardinality(new) + n + conf.DropTo = Cardinality(listed)
        BY <1>1, <1>3, <1>4, <3>1, <3>2 DEF Settings
      <3> QED
        BY <3>2, <3>3, <3>4, <3>5
    <2> QED
      BY <2>1, <2>2
  <1>6. Trimming'
    <2> SUFFICES ASSUME cat'.at = "drop" PROVE Trimming'
      BY DEF Trimming
    <2>1. cat' = [at |-> "drop", left |-> left, toDrop |-> n, seen |-> cat.seen]
      BY DEF CatGoesOn
    <2>2. n \in Nat \ {0}
      BY <1>1, <1>5 DEF CatGoesOn
    <2>3. cat'.left = left /\ cat'.toDrop = n /\ cat'.seen = cat.seen /\ handed'[Cat] = listed
      BY <2>1
    <2>4. left \subseteq listed
      BY <1>1
    <2> HIDE DEF left, listed
    <2>5. Dropped(new)'
      BY <1>5, <2>3 DEF Dropped
    <2> QED
      BY <1>1, <2>1, <2>2, <2>3, <2>4, <2>5 DEF Trimming
  <1>7. ASSUME cat'.at = "over" PROVE Trimmed(running)
    <2>1. left = {} \/ n = 0
      BY <1>7 DEF CatGoesOn
    <2>2. CASE left = {}
      <3>1. \A q \in listed : q \in ended' \/ EpOf[q] \in cat.seen
        BY <1>5, <2>2
      <3> QED
        BY <3>1 DEF Trimmed
    <2>3. CASE n = 0
      <3>1. running \subseteq listed \ new /\ new \subseteq listed
        BY <1>5
      <3>2. IsFiniteSet(listed)
        BY HandedFinite
      <3> HIDE DEF listed, running, left
      <3>3. /\ Cardinality(new) \in Nat /\ Cardinality(running) \in Nat
            /\ Cardinality(running) <= Cardinality(listed) - Cardinality(new)
        BY <3>1, <3>2, CountRest
      <3>4. Cardinality(running) <= conf.DropTo
        BY <1>4, <1>5, <2>3, <3>3 DEF Settings
      <3>5. Least(conf.DropTo, conf.MaxPeers) = conf.DropTo
        BY DEF Settings, Least
      <3> QED
        BY <3>4, <3>5 DEF Trimmed
    <2> QED
      BY <2>1, <2>2, <2>3
  <1> QED
    BY <1>6, <1>7

LEMMA CatRoundTrims ==
    ASSUME AdmissionTypeOK, AdmissionTypeOK', Settings, CatRound
    PROVE  Trimming'
  <1> SUFFICES ASSUME cat'.at = "drop" PROVE Trimming'
    BY DEF Trimming
  <1> DEFINE listed == handed'[Cat]
  <1>1. cat.at = "idle" /\ UNCHANGED <<conf, special>>
    BY DEF CatRound
  <1>2. CatCounts(listed)
    BY <1>1 DEF CatRound
  <1>3. /\ Cardinality(listed) > conf.DropTo
        /\ cat' = [at |-> "drop", left |-> listed,
                   toDrop |-> Cardinality(listed) - conf.DropTo, seen |-> special]
    BY <1>2 DEF CatCounts
  <1>4. listed \in SUBSET Peer
    BY Addresses DEF AdmissionTypeOK, TypeOK
  <1>5. Cardinality(listed) \in Nat
    BY <1>4, PeerAssumption, FS_Subset, FS_CardinalityType
  <1>6. Cardinality({}) = 0
    BY FS_EmptySet
  <1>7. /\ cat'.left = listed /\ cat'.toDrop = Cardinality(listed) - conf.DropTo
        /\ cat'.seen = special
    BY <1>3
  <1> HIDE DEF listed
  <1>8. /\ cat'.toDrop \in Nat \ {0}
        /\ 0 + cat'.toDrop + conf.DropTo = Cardinality(listed)
    BY <1>3, <1>5, <1>7 DEF Settings
  <1>9. Dropped({})'
    BY <1>1, <1>6, <1>7, <1>8 DEF Dropped, listed
  <1> QED
    BY <1>1, <1>3, <1>7, <1>8, <1>9 DEF Trimming, listed

LEMMA SettingsStay == AdmissionTypeOK /\ [AdmissionNext]_allVars => conf' = conf
  <1> SUFFICES ASSUME AdmissionTypeOK, [AdmissionNext]_allVars PROVE conf' = conf
    OBVIOUS
  <1>1. CASE CatRound \/ CatEnds \/ \E p \in Peer : CatSkip(p) \/ CatDrop(p)
    BY <1>1 DEF CatRound, CatEnds, CatSkip, CatDrop
  <1>2. CASE UNCHANGED allVars
    BY <1>2 DEF allVars, admVars
  <1>3. CASE \E S : SetSpecial(S)
    BY <1>3 DEF SetSpecial
  <1> QED
    BY <1>1, <1>2, <1>3, CatQuiet

(* The special addresses change, which the round takes note of. *)
LEMMA SetSpecialTrims ==
    ASSUME Trimming, NEW S, SetSpecial(S), cat.at = "drop"
    PROVE  Trimming' /\ cat'.at = "drop"
  <1>1. /\ cat.left \subseteq handed[Cat] /\ cat.toDrop \in Nat \ {0}
        /\ \E D : Dropped(D)
    BY DEF Trimming
  <1>2. PICK D : Dropped(D)
    BY <1>1
  <1>3. UNCHANGED <<handed, ended, conf>> /\ special' = S
    BY DEF SetSpecial, vars
  <1>4. cat' = [at |-> "drop", left |-> cat.left, toDrop |-> cat.toDrop,
                seen |-> cat.seen \cup S]
    BY DEF SetSpecial, Trimming
  <1>5. /\ cat'.at = cat.at /\ cat'.left = cat.left /\ cat'.toDrop = cat.toDrop
        /\ cat'.seen = cat.seen \cup S
    BY <1>4
  <1>6. Dropped(D)'
    BY <1>2, <1>3, <1>5 DEF Dropped
  <1> QED
    BY <1>1, <1>3, <1>4, <1>5, <1>6 DEF Trimming

(* Every step keeps the round's account, and the step that ends it settles it. *)
LEMMA NextTrims ==
    ASSUME AdmissionTypeOK, AdmissionTypeOK', Settings, Trimming, [AdmissionNext]_allVars
    PROVE  /\ Trimming'
           /\ cat.at = "drop" /\ cat'.at = "over" => Trimmed(handed[Cat] \ ended')
  <1> DEFINE Goal == /\ Trimming'
                     /\ cat.at = "drop" /\ cat'.at = "over" => Trimmed(handed[Cat] \ ended')
  <1>1. CASE CatRound
    BY <1>1, CatRoundTrims DEF CatRound
  <1>2. CASE CatEnds
    BY <1>2 DEF CatEnds, Trimming
  <1>3. ASSUME NEW p \in Peer, CatSkip(p) PROVE Goal
    <2>1. /\ cat.at = "drop" /\ p \in cat.left /\ SpecialEp(p)
          /\ UNCHANGED <<conf, special, handed, ended>>
          /\ CatGoesOn(cat.left \ {p}, cat.toDrop)
      BY <1>3 DEF CatSkip, vars
    <2>2. cat.toDrop \in Int
      BY <2>1 DEF Trimming
    <2> QED
      BY <2>1, <2>2, GoesPast
  <1>4. ASSUME NEW p \in Peer, CatDrop(p) PROVE Goal
    <2>1. /\ cat.at = "drop" /\ p \in cat.left /\ ~ SpecialEp(p) /\ ended' = ended \cup {p}
          /\ UNCHANGED <<conf, special, handed>>
          /\ CatGoesOn(cat.left \ {p}, cat.toDrop - 1)
      BY <1>4 DEF CatDrop, Stop, vars
    <2>2. cat.toDrop - 1 \in Int
      BY <2>1 DEF Trimming
    <2> QED
      BY <2>1, <2>2, GoesPast
  <1>5. ASSUME UNCHANGED <<cat, conf, special>>, ended \subseteq ended',
               handed'[Cat] = handed[Cat]
        PROVE  Goal
    <2>1. \A D : Dropped(D) => Dropped(D)'
      BY <1>5 DEF Dropped
    <2>2. Trimming'
      BY <1>5, <2>1 DEF Trimming
    <2> QED
      BY <1>5, <2>2
  <1>6. CASE UNCHANGED allVars
    BY <1>5, <1>6 DEF allVars, admVars, vars
  <1>7. ASSUME NEW S, SetSpecial(S) PROVE Goal
    <2>1. CASE cat.at = "drop"
      BY <1>7, <2>1, SetSpecialTrims
    <2>2. CASE cat.at # "drop"
      BY <1>7, <2>2 DEF SetSpecial, Trimming
    <2> QED
      BY <2>1, <2>2
  <1> HIDE DEF Goal
  <1>8. Goal
    BY <1>1, <1>2, <1>3, <1>4, <1>5, <1>6, <1>7, CatQuiet DEF Goal
  <1> QED
    BY <1>8 DEF Goal

LEMMA InitTrims == AdmissionInit => Trimming
  BY DEF AdmissionInit, Trimming

(* The invariant of the cat round. *)
CatInv == AdmissionTypeOK /\ IInv /\ Settings /\ Trimming

LEMMA NextCatInv == CatInv /\ [AdmissionNext]_allVars => CatInv'
  <1> SUFFICES ASSUME CatInv, [AdmissionNext]_allVars PROVE CatInv'
    OBVIOUS
  <1> USE DEF CatInv
  <1>1. AdmissionTypeOK' /\ IInv'
    BY NextTyped, NextBoth
  <1>2. Settings'
    BY SettingsStay DEF Settings
  <1> QED
    BY <1>1, <1>2, NextTrims

LEMMA CatInvHolds == AdmissionSpec => []CatInv
  <1>1. AdmissionInit => CatInv
    BY InitTyped, SettingsKept, InitTrims DEF CatInv
  <1> QED
    BY <1>1, NextCatInv, PTL DEF AdmissionSpec

\* A cat round leaves at most DropTo of the peers it listed running, or only ones
\* that were special at some time of it, for any number of peers, whatever ends, is
\* replaced, joins or becomes special or ordinary between its steps.
THEOREM CatAlwaysTrims == AdmissionSpec => CatTrims
  <1> DEFINE Ends == cat.at = "drop" /\ cat'.at = "over" =>
                LET running == handed[Cat] \ ended'
                IN  \/ Cardinality(running) <= Least(conf.DropTo, conf.MaxPeers)
                    \/ \A p \in running : EpOf[p] \in cat.seen
  <1>1. CatInv /\ CatInv' /\ [AdmissionNext]_allVars => [Ends]_allVars
    BY NextTrims DEF CatInv, Trimmed
  <1> HIDE DEF Ends
  <1>2. AdmissionSpec => [][Ends]_allVars
    BY <1>1, CatInvHolds, PTL DEF AdmissionSpec
  <1> QED
    BY <1>2 DEF CatTrims, Ends

-----------------------------------------------------------------------------
(* The limits.  Every step keeps the shape of the state and never lowers the *)
(* number of admissions that ran at the same time.                           *)

Kept ==
    /\ stage' \in [Peer -> Stages]
    /\ width' \in [Addr \cup {"all"} -> Nat]
    /\ \A a \in Addr \cup {"all"} : width'[a] >= width[a]

LEMMA StageMoves ==
    ASSUME Shape, NEW p \in Peer, NEW s \in Stages, To(p, s)
    PROVE  /\ stage' \in [Peer -> Stages]
           /\ stage'[p] = s
           /\ \A q \in Peer \ {p} : stage'[q] = stage[q]
  BY DEF Shape, To

LEMMA Widens ==
    ASSUME Shape, NEW a \in Addr \cup {"all"}, NEW n \in Nat, Widen(a, n)
    PROVE  /\ width' \in [Addr \cup {"all"} -> Nat]
           /\ width'[a] >= n
           /\ \A b \in Addr \cup {"all"} : width'[b] >= width[b]
  BY DEF Shape, Widen

LEMMA SameWidth ==
    ASSUME Shape, UNCHANGED width
    PROVE  /\ width' \in [Addr \cup {"all"} -> Nat]
           /\ \A a \in Addr \cup {"all"} : width'[a] >= width[a]
  BY DEF Shape

(* A peer that starts to count was queued, unless a check lets it pass. *)
Entering ==
    \E p \in Inbound : CheckMax(p) \/ CheckSpecial(p) \/ CheckIp(p) \/ NoIpLimit(p)

NoneEnters ==
    /\ UNCHANGED waived
    /\ \A q \in Inbound :
        /\ q \in Stored(peers)' => q \in Stored(peers) \/ stage[q] = "queued"
        /\ stage'[q] \in IpPassed => stage[q] \in IpPassed
        /\ stage'[q] \in MaxPassed => stage[q] \in MaxPassed

LEMMA NoneMoves ==
    ASSUME Shape, UNCHANGED <<stage, waived, width>>,
           \A q \in Inbound : q \in Stored(peers)' => q \in Stored(peers)
    PROVE  Kept /\ NoneEnters
  BY SameWidth DEF Kept, NoneEnters, Shape

LEMMA OneMoves ==
    ASSUME Shape, UNCHANGED <<peers, waived, width>>, NEW p \in Peer, NEW s \in Stages, To(p, s),
           p \notin Inbound \/ s \notin MaxPassed
             \/ (s \in IpPassed /\ stage[p] \in IpPassed)
    PROVE  Kept /\ NoneEnters
  <1>1. /\ stage' \in [Peer -> Stages]
        /\ stage'[p] = s
        /\ \A q \in Peer \ {p} : stage'[q] = stage[q]
    BY StageMoves
  <1>2. Stored(peers)' = Stored(peers)
    BY DEF Stored
  <1>3. Kept
    BY <1>1, SameWidth DEF Kept
  <1>4. ASSUME NEW q \in Inbound
        PROVE  /\ stage'[q] \in IpPassed => stage[q] \in IpPassed
               /\ stage'[q] \in MaxPassed => stage[q] \in MaxPassed
    BY <1>1, AddrAssumption DEF MaxPassed
  <1> QED
    BY <1>2, <1>3, <1>4 DEF NoneEnters

LEMMA StepEnters ==
    ASSUME AdmissionTypeOK, Shape, Queued, [AdmissionNext]_allVars, ~ Entering
    PROVE  Kept /\ NoneEnters
  <1> USE DEF Stages, IpPassed, MaxPassed
  <1>0. peers \in PeerMap /\ Inbound \subseteq Peer
    BY AddrAssumption DEF AdmissionTypeOK, TypeOK
  <1>1. ASSUME UNCHANGED <<peers, stage, waived, width>> PROVE Kept /\ NoneEnters
    BY <1>1, NoneMoves DEF Stored
  <1>2. CASE (Tick /\ UNCHANGED <<vars, admVars>>) \/ ListenEnds \/ UNCHANGED allVars
    BY <1>1, <1>2 DEF ListenEnds, allVars, vars, admVars
  <1>3. CASE TakeOnline
    BY <1>1, <1>3 DEF TakeOnline, Get, state
  <1>4. ASSUME NEW p \in Peer, Remove(p), UNCHANGED <<stage, waived, width>>
        PROVE  Kept /\ NoneEnters
    <2>1. \/ peers' = peers
          \/ peers[HashOf[p]] = p /\ peers' = RemoveFrom(peers, p)
      BY <1>4 DEF Remove, state
    <2>2. Stored(peers)' \subseteq Stored(peers)
      BY <1>0, <2>1, RemoveStored DEF Stored
    <2> QED
      BY <1>4, <2>2, NoneMoves
  <1>5. CASE RemoveOld
    <2>1. mgr.old \in Peer
      BY <1>5 DEF RemoveOld, AdmissionTypeOK
    <2> QED
      BY <1>4, <1>5, <2>1 DEF RemoveOld
  <1>6. CASE AddNew
    <2>1. mgr.new \in Peer /\ stage[mgr.new] = "queued"
      BY <1>6 DEF AddNew, AdmissionTypeOK, Queued
    <2>2. /\ stage' \in [Peer -> Stages]
          /\ stage'[mgr.new] = "known"
          /\ \A q \in Peer \ {mgr.new} : stage'[q] = stage[q]
      BY <1>6, <2>1, StageMoves DEF AddNew
    <2>3. \/ peers' = peers
          \/ peers[HashOf[mgr.new]] = NoPeer /\ peers' = AddTo(peers, mgr.new)
      BY <1>6 DEF AddNew, Add, state
    <2>4. \A q \in Stored(peers)' : q \in Stored(peers) \/ q = mgr.new
      BY <1>0, <2>1, <2>3, AddStored DEF Stored
    <2>5. Kept
      BY <1>6, <2>2, SameWidth DEF Kept, AddNew
    <2>6. UNCHANGED waived
      BY <1>6 DEF AddNew
    <2> QED
      BY <1>0, <2>1, <2>2, <2>4, <2>5, <2>6 DEF NoneEnters
  <1>7. CASE TakeOffline
    <2>0. status \in Seq(Notice)
      BY DEF AdmissionTypeOK, Notice
    <2>1. Head(status) \in Notice
      BY <1>7, <2>0 DEF TakeOffline
    <2>2. Head(status).peer \in Peer
      BY <2>1 DEF Notice
    <2> QED
      BY <1>4, <1>7, <2>2 DEF TakeOffline
  <1>8. CASE NoticeDone \/ CatEnds
    BY <1>1, <1>8 DEF NoticeDone, CatEnds, Forget, state
  <1>9. CASE CatRound
    BY <1>1, <1>9 DEF CatRound, SliceHit, SliceMiss, SliceRebuild, state
  <1>10. ASSUME NEW S, SetSpecial(S) PROVE Kept /\ NoneEnters
    BY <1>1, <1>10 DEF SetSpecial, vars
  <1>11. ASSUME NEW p \in Inbound, Accept(p) \/ RefusedBan(p) PROVE Kept /\ NoneEnters
    <2>1. p \in Peer /\ UNCHANGED <<peers, waived, width>> /\ (To(p, "arrived") \/ To(p, "reject"))
      BY <1>0, <1>11 DEF Accept, RefusedBan, vars
    <2> QED
      BY <2>1, OneMoves
  <1>12. ASSUME NEW p \in Inbound, TurnAway(p) PROVE Kept /\ NoneEnters
    BY <1>1, <1>12 DEF TurnAway, vars, admVars
  <1>13. ASSUME NEW p \in Inbound, CollectShare(p) PROVE Kept /\ NoneEnters
    <2>1. /\ p \in Peer /\ UNCHANGED <<peers, waived, width>>
          /\ To(p, "refuse") \/ UNCHANGED stage
      BY <1>0, <1>13 DEF CollectShare, SliceHit, SliceMiss, SliceRebuild, state
    <2> QED
      BY <1>1, <2>1, OneMoves
  <1>14. ASSUME NEW p \in Inbound, RejectWithShare(p) PROVE Kept /\ NoneEnters
    <2>1. p \in Peer /\ UNCHANGED <<peers, waived, width>> /\ To(p, "off")
      BY <1>0, <1>14 DEF RejectWithShare, Forget, state
    <2> QED
      BY <2>1, OneMoves
  <1>15. ASSUME NEW p \in Peer, DialOut(p) PROVE Kept /\ NoneEnters
    <2>1. /\ p \notin Inbound /\ UNCHANGED <<peers, waived, width>>
          /\ To(p, "handshake") \/ To(p, "off")
      BY <1>15 DEF DialOut, Connected, Answer, state
    <2> QED
      BY <2>1, OneMoves
  <1>16. ASSUME NEW p \in Peer, HandshakeFails(p) \/ HandshakeSucceeds(p)
         PROVE  Kept /\ NoneEnters
    <2>1. /\ stage[p] = "handshake" /\ UNCHANGED <<peers, waived, width>>
          /\ To(p, "off") \/ To(p, "made")
      BY <1>16 DEF HandshakeFails, HandshakeSucceeds, Checked, Forget, state, vars
    <2> QED
      BY <2>1, OneMoves
  <1>17. ASSUME NEW p \in Peer, Announce(p) PROVE Kept /\ NoneEnters
    <2>1. stage[p] = "made" /\ UNCHANGED <<peers, waived, width>> /\ To(p, "queued")
      BY <1>17 DEF Announce, vars
    <2> QED
      BY <2>1, OneMoves
  <1>18. ASSUME NEW p \in Peer, ConnectionEnds(p) \/ CatSkip(p) \/ CatDrop(p)
         PROVE  Kept /\ NoneEnters
    BY <1>1, <1>18 DEF ConnectionEnds, CatSkip, CatDrop, vars
  <1> QED
    BY <1>2, <1>3, <1>5, <1>6, <1>7, <1>8, <1>9, <1>10, <1>11, <1>12, <1>13, <1>14,
       <1>15, <1>16, <1>17, <1>18
       DEF AdmissionNext, Entering

-----------------------------------------------------------------------------
(* Notices added to a queue and taken from it. *)

LEMMA AnnouncedOff ==
    ASSUME NEW q \in Seq(Notice), NEW e \in Notice, ~ e.online
    PROVE  /\ Announced(Append(q, e)) = Announced(q)
           /\ Once(q) => Once(Append(q, e))
  <1> DEFINE r == Append(q, e)
  <1>1. /\ DOMAIN r = 1..(Len(q) + 1) /\ DOMAIN q = 1..Len(q) /\ Len(q) \in Nat
        /\ \A i \in 1..Len(q) : r[i] = q[i]
        /\ r[Len(q) + 1] = e
    OBVIOUS
  <1> HIDE DEF r
  <1>2. {j \in DOMAIN r : r[j].online} = {j \in DOMAIN q : q[j].online}
    BY <1>1
  <1>3. Announced(r) = Announced(q)
    BY <1>1, <1>2 DEF Announced
  <1>4. Once(q) => Once(r)
    BY <1>1, <1>2 DEF Once
  <1> QED
    BY <1>3, <1>4 DEF r

LEMMA AnnouncedOn ==
    ASSUME NEW q \in Seq(Notice), NEW e \in Notice, e.online, e.peer \notin Announced(q)
    PROVE  /\ Announced(Append(q, e)) = Announced(q) \cup {e.peer}
           /\ Once(q) => Once(Append(q, e))
  <1> DEFINE r == Append(q, e)
  <1>1. /\ DOMAIN r = 1..(Len(q) + 1) /\ DOMAIN q = 1..Len(q) /\ Len(q) \in Nat
        /\ \A i \in 1..Len(q) : r[i] = q[i]
        /\ r[Len(q) + 1] = e
    OBVIOUS
  <1> HIDE DEF r
  <1>2. {j \in DOMAIN r : r[j].online} = {j \in DOMAIN q : q[j].online} \cup {Len(q) + 1}
    BY <1>1
  <1>3. Announced(r) = Announced(q) \cup {e.peer}
    BY <1>1, <1>2 DEF Announced
  <1>4. \A i \in DOMAIN q : q[i].online => q[i].peer # e.peer
    BY DEF Announced
  <1>5. Once(q) => Once(r)
    BY <1>1, <1>4 DEF Once
  <1> QED
    BY <1>3, <1>5 DEF r

LEMMA AnnouncedTail ==
    ASSUME NEW q \in Seq(Notice), q # << >>, Once(q)
    PROVE  /\ Announced(Tail(q)) \subseteq Announced(q)
           /\ Once(Tail(q))
           /\ Head(q).online =>
                Head(q).peer \in Announced(q) /\ Head(q).peer \notin Announced(Tail(q))
  <1> DEFINE r == Tail(q)
  <1>1. /\ DOMAIN r = 1..(Len(q) - 1) /\ DOMAIN q = 1..Len(q) /\ Len(q) \in Nat \ {0}
        /\ \A i \in 1..(Len(q) - 1) : r[i] = q[i + 1]
        /\ Head(q) = q[1]
    OBVIOUS
  <1> HIDE DEF r
  <1>2. \A i \in DOMAIN r : i + 1 \in DOMAIN q /\ i + 1 # 1 /\ r[i] = q[i + 1]
    BY <1>1
  <1>3. Announced(r) \subseteq Announced(q)
    BY <1>2 DEF Announced
  <1>4. Once(r)
    BY <1>1, <1>2 DEF Once
  <1>5. ASSUME q[1].online PROVE q[1].peer \in Announced(q) /\ q[1].peer \notin Announced(r)
    <2>1. 1 \in DOMAIN q
      BY <1>1
    <2>2. \A i \in DOMAIN r : r[i].online => r[i].peer # q[1].peer
      BY <1>2, <1>5, <2>1 DEF Once
    <2> QED
      BY <1>5, <2>1, <2>2 DEF Announced
  <1> QED
    BY <1>1, <1>3, <1>4, <1>5 DEF r

LEMMA StopAnnounced ==
    ASSUME NEW q \in Seq(Notice), NEW p \in Peer, Stop(p, q)
    PROVE  /\ Announced(status') = Announced(q)
           /\ Once(q) => Once(status')
  <1> DEFINE e == [peer |-> p, online |-> FALSE]
  <1>1. e \in Notice /\ ~ e.online
    BY DEF Notice
  <1>2. status' = q \/ status' = Append(q, e)
    BY DEF Stop
  <1> HIDE DEF e
  <1> QED
    BY <1>1, <1>2, AnnouncedOff

(* A queued peer stays queued until manageOnline adds it. *)
LEMMA QueuedStays ==
    ASSUME Shape, [AdmissionNext]_allVars, ~ AddNew, NEW q \in Peer, stage[q] = "queued"
    PROVE  stage'[q] = "queued"
  <1>1. ASSUME UNCHANGED stage PROVE stage'[q] = "queued"
    BY <1>1
  <1>2. ASSUME NEW p \in Peer, NEW t, To(p, t), stage[p] # "queued"
        PROVE  stage'[q] = "queued"
    BY <1>2 DEF To, Shape
  <1>3. CASE \/ Tick /\ UNCHANGED <<vars, admVars>>
             \/ ListenEnds \/ TakeOnline \/ RemoveOld \/ TakeOffline \/ NoticeDone
             \/ CatRound \/ CatEnds \/ UNCHANGED allVars
    BY <1>1, <1>3 DEF ListenEnds, TakeOnline, RemoveOld, TakeOffline, NoticeDone,
                      CatRound, CatEnds, allVars, admVars
  <1>4. ASSUME NEW S, SetSpecial(S) PROVE stage'[q] = "queued"
    BY <1>1, <1>4 DEF SetSpecial
  <1>5. ASSUME NEW p \in Inbound,
               \/ Accept(p) \/ TurnAway(p) \/ RefusedBan(p) \/ CheckMax(p)
               \/ CheckSpecial(p) \/ NoIpLimit(p) \/ CheckIp(p) \/ CollectShare(p) \/ RejectWithShare(p)
        PROVE  stage'[q] = "queued"
    <2>1. p \in Peer
      BY AddrAssumption
    <2>2. \/ UNCHANGED stage
          \/ stage[p] # "queued" /\ \E t : To(p, t)
      BY <1>5, Zenon
         DEF Accept, TurnAway, RefusedBan, CheckMax, CheckSpecial, NoIpLimit, CheckIp, CollectShare,
             RejectWithShare, admVars
    <2> QED
      BY <1>1, <1>2, <2>1, <2>2
  <1>6. ASSUME NEW p \in Peer,
               \/ DialOut(p) \/ HandshakeFails(p) \/ HandshakeSucceeds(p) \/ Announce(p)
        PROVE  stage'[q] = "queued"
    <2>1. stage[p] # "queued" /\ \E t : To(p, t)
      BY <1>6, Zenon DEF DialOut, HandshakeFails, HandshakeSucceeds, Announce
    <2> QED
      BY <1>2, <2>1
  <1>7. ASSUME NEW p \in Peer, ConnectionEnds(p) \/ CatSkip(p) \/ CatDrop(p)
        PROVE  stage'[q] = "queued"
    BY <1>1, <1>7 DEF ConnectionEnds, CatSkip, CatDrop
  <1> QED
    BY <1>3, <1>4, <1>5, <1>6, <1>7 DEF AdmissionNext

LEMMA NextQueued ==
    ASSUME AdmissionTypeOK, Shape, Queued, [AdmissionNext]_allVars
    PROVE  Queued'
  <1>1. status \in Seq(Notice)
    BY DEF AdmissionTypeOK, Notice
  <1>2. \A p \in Announced(status) : p \in Peer
    <2>1. \A i \in DOMAIN status : status[i] \in Notice
      BY <1>1
    <2>2. \A e \in Notice : e.peer \in Peer
      BY DEF Notice
    <2> QED
      BY <2>1, <2>2 DEF Announced
  <1> DEFINE Fits(q, m, st) ==
               /\ Once(q)
               /\ \A p \in Announced(q) : st[p] = "queued"
               /\ m.at \in {"remove", "add"} =>
                    st[m.new] = "queued" /\ m.new \notin Announced(q)
  <1>3. Fits(status, mgr, stage)
    BY DEF Queued
  <1>4. SUFFICES Fits(status', mgr', stage')
    BY DEF Queued, Announced, Once
  <1>5. mgr.at \in {"remove", "add"} => mgr.new \in Peer
    BY DEF AdmissionTypeOK
  <1>6. ASSUME ~ AddNew, UNCHANGED mgr, NEW q, Announced(q) \subseteq Announced(status),
               Once(q), status' = q
        PROVE  Fits(status', mgr', stage')
    BY <1>2, <1>3, <1>5, <1>6, QueuedStays
  <1>7. CASE TakeOnline
    <2> DEFINE new == Head(status).peer
               old == peers[HashOf[new]]
    <2>1. /\ Head(status) \in Notice /\ Tail(status) \in Seq(Notice) /\ Head(status).online
          /\ status # << >> /\ UNCHANGED stage
      BY <1>1, <1>7 DEF TakeOnline
    <2>2. /\ Announced(Tail(status)) \subseteq Announced(status) /\ Once(Tail(status))
          /\ new \in Announced(status) /\ new \notin Announced(Tail(status))
      BY <1>1, <1>3, <2>1, AnnouncedTail
    <2>3. new \in Peer /\ old \in Peer \cup {NoPeer}
      BY <1>2, <2>2, Addresses DEF AdmissionTypeOK, TypeOK, PeerMap
    <2>4. mgr'.new = new
      BY <1>7 DEF TakeOnline
    <2>5. \/ status' = Tail(status)
          \/ old # NoPeer /\ Stop(old, Tail(status))
      BY <1>7 DEF TakeOnline
    <2>6. Announced(status') = Announced(Tail(status)) /\ Once(status')
      BY <2>1, <2>2, <2>3, <2>5, StopAnnounced
    <2> QED
      BY <1>3, <2>1, <2>2, <2>4, <2>6
  <1>8. CASE RemoveOld
    <2>1. UNCHANGED <<status, stage>> /\ mgr'.new = mgr.new /\ mgr.at = "remove"
      BY <1>8 DEF RemoveOld, MgrTo, AdmissionTypeOK
    <2> QED
      BY <1>3, <2>1
  <1>9. CASE AddNew
    <2>1. /\ mgr.at = "add" /\ mgr'.at = "done" /\ UNCHANGED status
          /\ To(mgr.new, "known")
      BY <1>9 DEF AddNew, MgrTo, AdmissionTypeOK
    <2>2. \A p \in Peer \ {mgr.new} : stage'[p] = stage[p]
      BY <2>1, <1>5, StageMoves DEF Stages
    <2> QED
      BY <1>2, <1>3, <2>1, <2>2
  <1>10. CASE TakeOffline
    <2>1. status # << >> /\ status' = Tail(status) /\ UNCHANGED <<mgr, stage>>
      BY <1>10 DEF TakeOffline
    <2>2. Announced(Tail(status)) \subseteq Announced(status) /\ Once(Tail(status))
      BY <1>1, <1>3, <2>1, AnnouncedTail
    <2> QED
      BY <1>3, <2>1, <2>2
  <1>11. CASE NoticeDone
    <2>1. UNCHANGED <<status, stage>> /\ mgr'.at = "idle"
      BY <1>11 DEF NoticeDone
    <2> QED
      BY <1>3, <2>1
  <1>12. ASSUME NEW p \in Peer, Announce(p) PROVE Fits(status', mgr', stage')
    <2> DEFINE e == [peer |-> p, online |-> TRUE]
    <2>1. e \in Notice /\ e.online /\ e.peer = p
      BY DEF Notice
    <2>2. /\ stage[p] = "made" /\ To(p, "queued") /\ UNCHANGED mgr
          /\ status' = Append(status, e)
      BY <1>12 DEF Announce
    <2> HIDE DEF e
    <2>3. p \notin Announced(status)
      BY <1>3, <2>2
    <2>4. Announced(status') = Announced(status) \cup {p} /\ Once(status')
      BY <1>1, <1>3, <2>1, <2>2, <2>3, AnnouncedOn
    <2>5. stage'[p] = "queued" /\ \A q \in Peer \ {p} : stage'[q] = stage[q]
      BY <2>2, StageMoves DEF Stages
    <2> QED
      BY <1>2, <1>3, <1>5, <2>2, <2>4, <2>5
  <1>13. ASSUME NEW p \in Peer, ConnectionEnds(p) \/ CatDrop(p)
         PROVE  Fits(status', mgr', stage')
    <2>1. Stop(p, status) /\ UNCHANGED <<mgr, stage>>
      BY <1>13 DEF ConnectionEnds, CatDrop
    <2>2. Announced(status') = Announced(status) /\ Once(status')
      BY <1>1, <1>3, <2>1, StopAnnounced
    <2> QED
      BY <1>3, <2>1, <2>2
  <1>14. CASE ~ AddNew /\ UNCHANGED <<status, mgr>>
    BY <1>3, <1>6, <1>14
  <1>15. CASE \/ Tick /\ UNCHANGED <<vars, admVars>>
              \/ ListenEnds \/ CatRound \/ CatEnds \/ UNCHANGED allVars
    BY <1>9, <1>14, <1>15 DEF ListenEnds, CatRound, CatEnds, allVars, admVars
  <1>16. ASSUME NEW S, SetSpecial(S) PROVE ~ AddNew /\ UNCHANGED <<status, mgr>>
    BY <1>16 DEF SetSpecial, AddNew, MgrTo, AdmissionTypeOK
  <1>17. ASSUME NEW p \in Inbound,
                \/ Accept(p) \/ TurnAway(p) \/ RefusedBan(p) \/ CheckMax(p)
                \/ CheckSpecial(p) \/ NoIpLimit(p) \/ CheckIp(p) \/ CollectShare(p) \/ RejectWithShare(p)
         PROVE  UNCHANGED <<status, mgr>>
    BY <1>17 DEF Accept, TurnAway, RefusedBan, CheckMax, CheckSpecial, NoIpLimit,
                 CheckIp, CollectShare, RejectWithShare, admVars
  <1>18. ASSUME NEW p \in Peer,
                DialOut(p) \/ HandshakeFails(p) \/ HandshakeSucceeds(p) \/ CatSkip(p)
         PROVE  UNCHANGED <<status, mgr>>
    BY <1>18 DEF DialOut, HandshakeFails, HandshakeSucceeds, CatSkip
  <1> HIDE DEF Fits
  <1> QED
    BY <1>7, <1>8, <1>9, <1>10, <1>11, <1>12, <1>13, <1>14, <1>15, <1>16, <1>17, <1>18
       DEF AdmissionNext

-----------------------------------------------------------------------------
LEMMA WithinShrinks ==
    ASSUME NEW S, IsFiniteSet(S), NEW T \in SUBSET S, NEW limit \in Nat,
           NEW n \in Nat, NEW m \in Nat, m >= n, Within(S, limit, n)
    PROVE  Within(T, limit, m)
  <1>1. /\ Cardinality(T) <= Cardinality(S)
        /\ Cardinality(S) \in Nat /\ Cardinality(T) \in Nat
    BY FS_Subset, FS_CardinalityType
  <1> QED
    BY <1>1 DEF Within

(* What a check lets pass: fewer than the limit are stored, and those on their *)
(* way are counted by the width.                                               *)
LEMMA WithinEnters ==
    ASSUME NEW S, IsFiniteSet(S), NEW F, IsFiniteSet(F), NEW T \in SUBSET (S \cup F),
           NEW limit \in Nat, NEW m \in Nat,
           Cardinality(S) < limit, m >= Cardinality(F)
    PROVE  Within(T, limit, m)
  <1>1. /\ IsFiniteSet(S \cup F)
        /\ Cardinality(S \cup F) = Cardinality(S) + Cardinality(F) - Cardinality(S \cap F)
    BY FS_Union
  <1>2. IsFiniteSet(S \cap F)
    BY FS_Subset, S \cap F \subseteq S
  <1>3. /\ Cardinality(S) \in Nat /\ Cardinality(F) \in Nat
        /\ Cardinality(S \cap F) \in Nat /\ Cardinality(S \cup F) \in Nat
    BY <1>1, <1>2, FS_CardinalityType
  <1>4. Within(S \cup F, limit, m)
    BY <1>1, <1>3 DEF Within
  <1> QED
    BY <1>1, <1>4, WithinShrinks

LEMMA CountingFinite ==
    ASSUME NEW T \in SUBSET Inbound
    PROVE  IsFiniteSet(T) /\ Cardinality(T) \in Nat
  BY PeerAssumption, AddrAssumption, FS_Subset, FS_CardinalityType

LEMMA MaxShrinks ==
    ASSUME Settings, UNCHANGED conf, Shape, Kept, MaxLimited,
           (Counting(MaxPassed) \cap Regular)' \subseteq Counting(MaxPassed) \cap Regular
    PROVE  MaxLimited'
  <1> DEFINE S == Counting(MaxPassed) \cap Regular
             T == (Counting(MaxPassed) \cap Regular)'
  <1>1. IsFiniteSet(S) /\ T \subseteq S
    BY CountingFinite DEF Regular
  <1>2. width["all"] \in Nat /\ width'["all"] \in Nat /\ width'["all"] >= width["all"]
    BY DEF Shape, Kept
  <1>3. Within(S, conf.MaxIncoming, width["all"]) /\ conf.MaxIncoming \in Nat
    BY DEF MaxLimited, Settings
  <1> HIDE DEF S, T
  <1>4. Within(T, conf.MaxIncoming, width'["all"])
    BY <1>1, <1>2, <1>3, WithinShrinks
  <1> QED
    BY <1>4 DEF MaxLimited, T, Within

LEMMA IpShrinks ==
    ASSUME Settings, UNCHANGED conf, Shape, Kept, IpLimited, conf.PeerIPLimitIncoming > 0,
           NEW a \in Addr, NEW T,
           T \subseteq {p \in Counting(IpPassed) : IpOf[p] = a}
    PROVE  Within(T, conf.PeerIPLimitIncoming, width'[a])
  <1> DEFINE S == {p \in Counting(IpPassed) : IpOf[p] = a}
  <1>1. IsFiniteSet(S)
    BY CountingFinite DEF Counting
  <1>2. width[a] \in Nat /\ width'[a] \in Nat /\ width'[a] >= width[a]
    BY DEF Shape, Kept
  <1>3. Within(S, conf.PeerIPLimitIncoming, width[a]) /\ conf.PeerIPLimitIncoming \in Nat
    BY DEF IpLimited, Settings
  <1> HIDE DEF S
  <1> QED
    BY <1>1, <1>2, <1>3, WithinShrinks DEF S

(* The number Total and Count answer is at least that of the peers limited. *)
LEMMA FewStored ==
    ASSUME IInv, NEW a \in Addr
    PROVE  /\ IsFiniteSet({q \in Stored(peers) : IpOf[q] = a})
           /\ Cardinality({q \in Stored(peers) : IpOf[q] = a}) \in Nat
           /\ Cardinality({q \in Stored(peers) : IpOf[q] = a}) <= connected[a]
  <1> DEFINE S == Stored(peers)
  <1>1. IsFiniteSet(S) /\ S \subseteq Peer
    BY StoredFinite
  <1>2. connected[a] = Cardinality(S \cap OnIp(a)) + Cardinality(S \cap OnEp(a))
    <2>1. connected[a] = Registry!Uses(S, a)
      BY DEF IInv, CountersExact
    <2> HIDE DEF S
    <2> QED
      BY <1>1, <2>1, UsesParts
  <1>3. {q \in S : IpOf[q] = a} = S \cap OnIp(a)
    BY <1>1 DEF OnIp
  <1> HIDE DEF S
  <1>4. IsFiniteSet(S \cap OnIp(a)) /\ IsFiniteSet(S \cap OnEp(a))
    BY <1>1, FS_Subset, S \cap OnIp(a) \subseteq S, S \cap OnEp(a) \subseteq S
  <1>5. Cardinality(S \cap OnIp(a)) \in Nat /\ Cardinality(S \cap OnEp(a)) \in Nat
    BY <1>4, FS_CardinalityType
  <1>6. Cardinality(S \cap OnIp(a)) <= connected[a]
    BY <1>2, <1>5
  <1> QED
    BY <1>3, <1>4, <1>5, <1>6 DEF S

(* A step by which nobody starts to count keeps both limits. *)
LEMMA NobodyLimited ==
    ASSUME Settings, UNCHANGED conf, LimitInv, Kept, NoneEnters, Queued'
    PROVE  LimitInv'
  <1> USE DEF LimitInv
  <1>1. \A q \in Inbound : q \in Counting(MaxPassed)' => q \in Counting(MaxPassed)
    BY DEF NoneEnters, Counting, MaxPassed, IpPassed
  <1>2. \A q \in Inbound : q \in Counting(IpPassed)' => q \in Counting(IpPassed)
    BY DEF NoneEnters, Counting, IpPassed
  <1>3. Regular' = Regular
    BY DEF Regular, NoneEnters
  <1>4. MaxLimited'
    BY <1>1, <1>3, MaxShrinks DEF Regular
  <1>5. IpLimited'
    <2> SUFFICES ASSUME conf.PeerIPLimitIncoming > 0, NEW a \in Addr
                 PROVE  Within({p \in Counting(IpPassed)' : IpOf[p] = a},
                               conf.PeerIPLimitIncoming, width'[a])
      BY DEF IpLimited, Within
    <2>1. Counting(IpPassed)' \subseteq Inbound
      BY DEF Counting
    <2> QED
      BY <1>2, <2>1, IpShrinks
  <1>6. Shape'
    BY DEF Kept, Shape
  <1> QED
    BY <1>4, <1>5, <1>6

(* A peer passes the check of the maximum, and does not count for the limit per *)
(* ip yet.                                                                      *)
LEMMA MaxPassedLimited ==
    ASSUME Settings, LimitInv, NEW p \in Inbound, To(p, "below max"),
           UNCHANGED <<conf, peers>>, Kept, Queued', MaxLimited'
    PROVE  LimitInv'
  <1> USE DEF LimitInv
  <1>1. p \in Peer /\ Stored(peers)' = Stored(peers)
    BY AddrAssumption DEF Stored
  <1>2. stage'[p] = "below max" /\ \A q \in Peer \ {p} : stage'[q] = stage[q]
    BY <1>1, StageMoves DEF Stages
  <1>3. \A q \in Inbound : q \in Counting(IpPassed)' => q \in Counting(IpPassed)
    BY <1>1, <1>2, Addresses DEF Counting, IpPassed
  <1>4. IpLimited'
    <2> SUFFICES ASSUME conf.PeerIPLimitIncoming > 0, NEW a \in Addr
                 PROVE  Within({q \in Counting(IpPassed)' : IpOf[q] = a},
                               conf.PeerIPLimitIncoming, width'[a])
      BY DEF IpLimited, Within
    <2>1. Counting(IpPassed)' \subseteq Inbound
      BY DEF Counting
    <2> QED
      BY <1>3, <2>1, IpShrinks
  <1>5. Shape'
    BY DEF Kept, Shape
  <1> QED
    BY <1>4, <1>5

LEMMA CheckMaxLimited ==
    ASSUME AdmissionTypeOK, Settings, LimitInv, NEW p \in Inbound, CheckMax(p), Queued'
    PROVE  LimitInv'
  <1> USE DEF LimitInv
  <1>1. /\ p \in Peer /\ p \in Caller /\ stage[p] = "arrived"
        /\ UNCHANGED <<conf, peers>> /\ num' = [num EXCEPT ![p] = Cardinality(Stored(peers))]
    BY Addresses DEF CheckMax, Total, Answer, state
  <1>2. num'[p] = Cardinality(Stored(peers))
    BY <1>1 DEF AdmissionTypeOK, TypeOK
  <1>3. Stored(peers)' = Stored(peers)
    BY <1>1 DEF Stored
  <1>4. CASE To(p, "full") /\ UNCHANGED <<waived, width>>
    <2>1. Kept /\ NoneEnters
      BY <1>1, <1>4, OneMoves DEF Stages, MaxPassed, IpPassed
    <2> QED
      BY <1>1, <2>1, NobodyLimited
  <1>5. ASSUME /\ To(p, "below max")
               /\ Widen("all", Cardinality(InFlight(stage') \cap Regular'))
               /\ ~ (num'[p] >= conf.MaxIncoming)
        PROVE  LimitInv'
    <2> DEFINE F == InFlight(stage') \cap Regular'
               S == Stored(peers)
               T == (Counting(MaxPassed) \cap Regular)'
    <2>1. stage' \in [Peer -> Stages]
      BY <1>1, <1>5, StageMoves DEF Stages
    <2>2. IsFiniteSet(F) /\ Cardinality(F) \in Nat
      BY CountingFinite DEF Regular
    <2>3. /\ Kept
          /\ width'["all"] >= Cardinality(F) /\ width'["all"] \in Nat
      BY <1>5, <2>1, <2>2, Widens DEF Kept
    <2>4. IsFiniteSet(S) /\ Cardinality(S) \in Nat
      BY StoredFinite, FS_CardinalityType
    <2>5. Cardinality(S) < conf.MaxIncoming /\ conf.MaxIncoming \in Nat
      <3>1. num'[p] = Cardinality(S)
        BY <1>2
      <3>2. ~ (Cardinality(S) >= conf.MaxIncoming)
        BY <1>5, <3>1, Zenon
      <3>3. conf.MaxIncoming \in Nat
        BY DEF Settings
      <3>4. \A n, m \in Nat : ~ (n >= m) => n < m
        OBVIOUS
      <3> QED
        BY <2>4, <3>2, <3>3, <3>4, Zenon
    <2>6. T \subseteq S \cup F
      BY <1>3 DEF Counting, InFlight, MaxPassed, IpPassed
    <2>7. MaxLimited'
      <3> HIDE DEF S, F, T
      <3>1. Within(T, conf.MaxIncoming, width'["all"])
        BY <2>2, <2>3, <2>4, <2>5, <2>6, WithinEnters
      <3> QED
        BY <1>1, <3>1 DEF MaxLimited, Within, T
    <2> QED
      BY <1>1, <1>5, <2>3, <2>7, MaxPassedLimited
  <1>6. \/ To(p, "full") /\ UNCHANGED <<waived, width>>
        \/ /\ To(p, "below max")
           /\ Widen("all", Cardinality(InFlight(stage') \cap Regular'))
           /\ ~ (num'[p] >= conf.MaxIncoming)
    BY DEF CheckMax
  <1> QED
    BY <1>4, <1>5, <1>6

(* A special ip passes too, and does not count for the maximum. *)
LEMMA CheckSpecialLimited ==
    ASSUME Settings, LimitInv, NEW p \in Inbound, CheckSpecial(p), Queued'
    PROVE  LimitInv'
  <1> USE DEF LimitInv
  <1>1. p \in Peer /\ UNCHANGED <<conf, peers, width>>
    BY Addresses DEF CheckSpecial, vars
  <1>2. CASE To(p, "reject") /\ UNCHANGED waived
    <2>1. Kept /\ NoneEnters
      BY <1>1, <1>2, OneMoves DEF Stages, MaxPassed, IpPassed
    <2> QED
      BY <1>1, <2>1, NobodyLimited
  <1>3. CASE To(p, "below max") /\ waived' = waived \cup {p}
    <2>1. /\ stage' \in [Peer -> Stages]
          /\ \A q \in Peer \ {p} : stage'[q] = stage[q]
      BY <1>1, <1>3, StageMoves DEF Stages
    <2>2. Kept
      BY <1>1, <2>1, SameWidth DEF Kept
    <2>3. Stored(peers)' = Stored(peers)
      BY <1>1 DEF Stored
    <2>4. (Counting(MaxPassed) \cap Regular)' \subseteq Counting(MaxPassed) \cap Regular
      BY <1>3, <2>1, <2>3, Addresses DEF Counting, Regular
    <2>5. MaxLimited'
      BY <1>1, <2>2, <2>4, MaxShrinks
    <2> QED
      BY <1>1, <1>3, <2>2, <2>5, MaxPassedLimited
  <1> QED
    BY <1>2, <1>3 DEF CheckSpecial

(* A peer below the maximum goes on to the handshake, which the limit per ip *)
(* has to allow.                                                             *)
LEMMA IpPassedLimited ==
    ASSUME Settings, LimitInv, NEW p \in Inbound, stage[p] = "below max", To(p, "handshake"),
           UNCHANGED <<conf, peers, waived>>, Kept, Queued',
           conf.PeerIPLimitIncoming > 0 =>
             Within({q \in Counting(IpPassed)' : IpOf[q] = IpOf[p]},
                    conf.PeerIPLimitIncoming, width'[IpOf[p]])
    PROVE  LimitInv'
  <1> USE DEF LimitInv
  <1>1. p \in Peer
    BY AddrAssumption
  <1>2. stage'[p] = "handshake" /\ \A q \in Peer \ {p} : stage'[q] = stage[q]
    BY <1>1, StageMoves DEF Stages
  <1>3. Stored(peers)' = Stored(peers) /\ Regular' = Regular
    BY DEF Stored, Regular
  <1>4. \A q \in Inbound : q \in Counting(MaxPassed)' => q \in Counting(MaxPassed)
    BY <1>2, <1>3, Addresses DEF Counting, MaxPassed, IpPassed
  <1>5. MaxLimited'
    BY <1>3, <1>4, MaxShrinks DEF Regular
  <1>6. IpLimited'
    <2> SUFFICES ASSUME conf.PeerIPLimitIncoming > 0, NEW a \in Addr
                 PROVE  Within({q \in Counting(IpPassed)' : IpOf[q] = a},
                               conf.PeerIPLimitIncoming, width'[a])
      BY DEF IpLimited, Within
    <2>1. CASE a = IpOf[p]
      BY <2>1
    <2>2. CASE a # IpOf[p]
      <3>1. {q \in Counting(IpPassed)' : IpOf[q] = a}
              \subseteq {q \in Counting(IpPassed) : IpOf[q] = a}
        BY <1>2, <1>3, <2>2, Addresses DEF Counting
      <3> QED
        BY <3>1, IpShrinks
    <2> QED
      BY <2>1, <2>2
  <1>7. Shape'
    BY DEF Kept, Shape
  <1> QED
    BY <1>5, <1>6, <1>7

LEMMA CheckIpLimited ==
    ASSUME AdmissionTypeOK, IInv, Settings, LimitInv, NEW p \in Inbound, CheckIp(p), Queued'
    PROVE  LimitInv'
  <1> USE DEF LimitInv
  <1> DEFINE a == IpOf[p]
             F == {q \in InFlight(stage') : IpOf[q] = IpOf[p] /\ stage'[q] # "below max"}
             S == {q \in Stored(peers) : IpOf[q] = a}
             T == {q \in Counting(IpPassed)' : IpOf[q] = a}
  <1>1. /\ p \in Peer /\ p \in Caller /\ a \in Addr /\ stage[p] = "below max"
        /\ UNCHANGED <<conf, peers, waived>> /\ num' = [num EXCEPT ![p] = connected[a]]
    BY Addresses DEF CheckIp, Count, Answer, state
  <1>2. num'[p] = connected[a]
    BY <1>1 DEF AdmissionTypeOK, TypeOK
  <1>3. Stored(peers)' = Stored(peers)
    BY <1>1 DEF Stored
  <1>4. CASE To(p, "reject") /\ UNCHANGED width
    <2>1. Kept /\ NoneEnters
      BY <1>1, <1>4, OneMoves DEF Stages, MaxPassed, IpPassed
    <2> QED
      BY <1>1, <2>1, NobodyLimited
  <1>5. ASSUME /\ To(p, "handshake")
               /\ Widen(a, Cardinality(F))
               /\ ~ (num'[p] >= conf.PeerIPLimitIncoming)
        PROVE  LimitInv'
    <2>1. stage' \in [Peer -> Stages]
      BY <1>1, <1>5, StageMoves DEF Stages
    <2>2. IsFiniteSet(F) /\ Cardinality(F) \in Nat
      BY CountingFinite DEF InFlight
    <2> HIDE DEF F
    <2>3. Kept /\ width'[a] >= Cardinality(F) /\ width'[a] \in Nat
      BY <1>1, <1>5, <2>1, <2>2, Widens DEF Kept
    <2>4. IsFiniteSet(S) /\ Cardinality(S) \in Nat /\ Cardinality(S) <= connected[a]
      BY <1>1, FewStored
    <2>5. connected[a] \in Nat
      BY <1>1 DEF AdmissionTypeOK, TypeOK
    <2>6. T \subseteq S \cup F
      BY <1>3 DEF Counting, InFlight, IpPassed, F
    <2> HIDE DEF S, T
    <2>7. Cardinality(S) < conf.PeerIPLimitIncoming /\ conf.PeerIPLimitIncoming \in Nat
      BY <1>2, <1>5, <2>4, <2>5 DEF Settings
    <2>8. Within(T, conf.PeerIPLimitIncoming, width'[a])
      BY <2>2, <2>3, <2>4, <2>6, <2>7, WithinEnters
    <2> QED
      BY <1>1, <1>5, <2>3, <2>8, IpPassedLimited DEF T
  <1>6. \/ To(p, "reject") /\ UNCHANGED width
        \/ /\ To(p, "handshake")
           /\ Widen(a, Cardinality(F))
           /\ ~ (num'[p] >= conf.PeerIPLimitIncoming)
    BY DEF CheckIp
  <1> QED
    BY <1>4, <1>5, <1>6

LEMMA NoIpLimited ==
    ASSUME Settings, LimitInv, NEW p \in Inbound, NoIpLimit(p), Queued'
    PROVE  LimitInv'
  <1>1. /\ p \in Peer /\ stage[p] = "below max" /\ To(p, "handshake")
        /\ UNCHANGED <<conf, peers, waived, width>> /\ conf.PeerIPLimitIncoming = 0
    BY Addresses DEF NoIpLimit, vars
  <1>2. Kept
    BY <1>1, StageMoves, SameWidth DEF LimitInv, Kept, Stages
  <1>3. ~ (conf.PeerIPLimitIncoming > 0)
    <2>1. \A n \in Nat : n = 0 => ~ (n > 0)
      OBVIOUS
    <2>2. conf.PeerIPLimitIncoming \in Nat /\ conf.PeerIPLimitIncoming = 0
      BY <1>1 DEF Settings
    <2> QED
      BY <2>1, <2>2, Zenon
  <1> QED
    BY <1>1, <1>2, <1>3, IpPassedLimited

LEMMA NextLimited ==
    ASSUME CatInv, LimitInv, [AdmissionNext]_allVars
    PROVE  LimitInv'
  <1>1. Queued'
    BY NextQueued DEF CatInv, LimitInv
  <1>2. UNCHANGED conf
    BY SettingsStay DEF CatInv
  <1>3. CASE Entering
    BY <1>1, <1>3, CheckMaxLimited, CheckSpecialLimited, CheckIpLimited, NoIpLimited
       DEF Entering, CatInv
  <1>4. CASE ~ Entering
    <2>1. Kept /\ NoneEnters
      BY <1>4, StepEnters DEF CatInv, LimitInv
    <2> QED
      BY <1>1, <1>2, <2>1, NobodyLimited DEF CatInv
  <1> QED
    BY <1>3, <1>4

LEMMA InitLimited == AdmissionInit => LimitInv
  <1> SUFFICES ASSUME AdmissionInit PROVE LimitInv
    OBVIOUS
  <1>1. /\ stage = [p \in Peer |-> "off"] /\ status = << >> /\ mgr.at = "idle"
        /\ width = [a \in Addr \cup {"all"} |-> 0] /\ peers = EmptyMap
    BY DEF AdmissionInit, Init
  <1>2. \A q \in Inbound : q \notin Stored(peers) /\ stage[q] = "off"
    BY <1>1, PeerAssumption, Addresses DEF Stored, EmptyMap
  <1>3. Counting(MaxPassed) = {} /\ Counting(IpPassed) = {}
    BY <1>2 DEF Counting, MaxPassed, IpPassed
  <1>4. Shape
    BY <1>1 DEF Shape, Stages
  <1>5. Queued
    BY <1>1 DEF Queued, Once, Announced
  <1>6. MaxLimited /\ IpLimited
    BY <1>3 DEF MaxLimited, IpLimited, Within
  <1> QED
    BY <1>4, <1>5, <1>6 DEF LimitInv

LEMMA LimitInvBounds == Settings /\ LimitInv => OvershootBounded
  <1> SUFFICES ASSUME Settings, LimitInv PROVE OvershootBounded
    OBVIOUS
  <1> DEFINE admitted == Stored(peers) \cap Inbound
  <1>1. width["all"] \in Nat /\ \A a \in Addr : width[a] \in Nat
    BY DEF LimitInv, Shape
  <1>2. Least(conf.MaxIncoming, conf.MaxPeers) = conf.MaxIncoming
    BY DEF Settings, Least
  <1>3. Within(admitted \cap Regular, conf.MaxIncoming, width["all"])
    <2> DEFINE S == Counting(MaxPassed) \cap Regular
    <2>1. IsFiniteSet(S) /\ admitted \cap Regular \subseteq S
      BY CountingFinite DEF Counting, Regular
    <2>2. Within(S, conf.MaxIncoming, width["all"]) /\ conf.MaxIncoming \in Nat
      BY DEF LimitInv, MaxLimited, Settings
    <2> HIDE DEF S, admitted
    <2> QED
      BY <1>1, <2>1, <2>2, WithinShrinks
  <1>4. ASSUME conf.PeerIPLimitIncoming > 0, NEW a \in Host
        PROVE  Within({p \in admitted : IpOf[p] = a}, conf.PeerIPLimitIncoming, width[a])
    <2> DEFINE S == {p \in Counting(IpPassed) : IpOf[p] = a}
               T == {p \in admitted : IpOf[p] = a}
    <2>1. CASE T = {}
      BY <2>1 DEF Within
    <2>2. CASE T # {}
      <3>1. a \in Addr
        BY <2>2, Addresses
      <3>2. IsFiniteSet(S) /\ T \subseteq S
        BY CountingFinite DEF Counting
      <3>3. Within(S, conf.PeerIPLimitIncoming, width[a]) /\ conf.PeerIPLimitIncoming \in Nat
        BY <1>4, <3>1 DEF LimitInv, IpLimited, Settings
      <3> HIDE DEF S, T
      <3>4. Within(T, conf.PeerIPLimitIncoming, width[a])
        BY <1>1, <3>1, <3>2, <3>3, WithinShrinks
      <3> QED
        BY <3>4 DEF T
    <2> QED
      BY <2>1, <2>2
  <1> QED
    BY <1>2, <1>3, <1>4 DEF OvershootBounded, Within

\* The limits on incoming connections are exceeded at most by the number of
\* admissions that ran at the same time and by the peers let in as special, for any
\* number of peers, addresses and configurations, also while peers are replaced and
\* the special addresses change.
THEOREM OvershootAlwaysBounded == AdmissionSpec => []OvershootBounded
  <1>1. CatInv /\ LimitInv => OvershootBounded
    BY LimitInvBounds DEF CatInv
  <1>2. CatInv /\ LimitInv /\ [AdmissionNext]_allVars => LimitInv'
    BY NextLimited
  <1>3. AdmissionInit => LimitInv
    BY InitLimited
  <1> QED
    BY <1>1, <1>2, <1>3, CatInvHolds, PTL DEF AdmissionSpec

=============================================================================
