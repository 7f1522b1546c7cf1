-------------------------- MODULE ReplenishProofs ---------------------------
(***************************************************************************)
(* How far the replenish loop dials beyond its target, for any endpoints,  *)
(* seeds, peer files, shares and limits.                                   *)
(***************************************************************************)
EXTENDS Replenish, FiniteSetTheorems, TLAPS

AllDialed == outgoing \cup online

Excess(n) == n <= TargetPeers + lag \/ n <= Cardinality(Cached)

Finite ==
    /\ IsFiniteSet(connected)
    /\ IsFiniteSet(online)
    /\ outgoing \subseteq connected
    /\ lag \in Nat
    /\ boot \subseteq Cached

(* What makes DialOvershoot inductive: until the bootstrap is over everything  *)
(* dialed comes from the peer file, and a dial of a round begins with one peer *)
(* less than the bound allows.                                                 *)
DialInv ==
    /\ Finite
    /\ rpc \in {"boot", "boot dial"} => AllDialed \subseteq Cached
    /\ rpc = "boot dial" => cur \subseteq Cached
    /\ rpc = "dial" => Cardinality(AllDialed) <= TargetPeers - 1 + lag
    /\ Excess(Cardinality(AllDialed))

-----------------------------------------------------------------------------
LEMMA Constants ==
    /\ IsFiniteSet(Cached) /\ Cardinality(Cached) \in Nat
    /\ TargetPeers \in Nat /\ TargetPeers - 1 \in Nat
  <1>1. IsFiniteSet(Cached)
    BY ReplenishAssumption, FS_Subset
  <1> QED
    BY <1>1, FS_CardinalityType, ReplenishAssumption

LEMMA BoundsGrow ==
    \A n, m, t, l, k, c \in Nat : m <= n /\ l <= k =>
        /\ n <= t + l \/ n <= c => m <= t + k \/ m <= c
        /\ n <= t - 1 + l => m <= t - 1 + k
  OBVIOUS

LEMMA OneMore ==
    \A n, u, m, t, l \in Nat : m <= u /\ (u = n \/ u = n + 1) /\ n <= t - 1 + l => m <= t + l
  OBVIOUS

LEMMA Counted ==
    ASSUME Finite
    PROVE  /\ IsFiniteSet(AllDialed)
           /\ Cardinality(AllDialed) \in Nat
           /\ Cardinality(AllDialed) <= Total + Cardinality(online)
           /\ Total \in Nat /\ Cardinality(online) \in Nat
  <1>1. IsFiniteSet(connected \cup online)
    BY FS_Union DEF Finite
  <1>2. IsFiniteSet(AllDialed) /\ Cardinality(AllDialed) <= Cardinality(connected \cup online)
    BY <1>1, FS_Subset DEF Finite, AllDialed
  <1>3. IsFiniteSet(connected \cap online)
    BY FS_Intersection DEF Finite
  <1>4. Cardinality(connected \cup online) =
            Cardinality(connected) + Cardinality(online) - Cardinality(connected \cap online)
    BY FS_Union DEF Finite
  <1>5. /\ Cardinality(connected) \in Nat /\ Cardinality(online) \in Nat
        /\ Cardinality(connected \cap online) \in Nat /\ Cardinality(AllDialed) \in Nat
        /\ Cardinality(connected \cup online) \in Nat
    BY <1>1, <1>2, <1>3, FS_CardinalityType DEF Finite
  <1> QED
    BY <1>2, <1>4, <1>5 DEF Total

LEMMA InitDials == Init => DialInv
  <1> SUFFICES ASSUME Init PROVE DialInv
    OBVIOUS
  <1>1. Finite /\ AllDialed = {}
    BY FS_EmptySet DEF Init, Finite, AllDialed
  <1>2. Cardinality(AllDialed) = 0
    BY <1>1, FS_EmptySet
  <1> QED
    BY <1>1, <1>2, Constants DEF Init, DialInv, Excess

(* A step that adds nothing to the dialed peers, and begins no dial. *)
LEMMA NothingDialed ==
    ASSUME DialInv, Finite', AllDialed' \subseteq AllDialed, lag <= lag',
           rpc' \in {"boot", "boot dial", "dial"} => rpc' = rpc,
           rpc' = "boot dial" => cur' = cur
    PROVE  DialInv'
  <1>1. /\ Cardinality(AllDialed)' <= Cardinality(AllDialed)
        /\ Cardinality(AllDialed) \in Nat /\ Cardinality(AllDialed)' \in Nat
        /\ lag \in Nat /\ lag' \in Nat
    <2>1. IsFiniteSet(AllDialed) /\ Cardinality(AllDialed) \in Nat
      BY Counted DEF DialInv
    <2>2. IsFiniteSet(AllDialed') /\ Cardinality(AllDialed') <= Cardinality(AllDialed)
      BY <2>1, FS_Subset
    <2>3. Cardinality(AllDialed') \in Nat
      BY <2>2, FS_CardinalityType
    <2> QED
      BY <2>1, <2>2, <2>3 DEF DialInv, Finite
  <1>a. /\ Excess(Cardinality(AllDialed))
        /\ rpc' = "dial" => Cardinality(AllDialed) <= TargetPeers - 1 + lag
    BY DEF DialInv
  <1> DEFINE n == Cardinality(AllDialed)
             m == Cardinality(AllDialed)'
             file == Cardinality(Cached)
  <1>b. m <= n /\ n \in Nat /\ m \in Nat /\ file \in Nat
    BY <1>1, Constants
  <1>2. Excess(Cardinality(AllDialed))'
    <2>1. n <= TargetPeers + lag \/ n <= file
      BY <1>a DEF Excess
    <2>2. Cached' = Cached /\ TargetPeers' = TargetPeers
      OBVIOUS
    <2> SUFFICES m <= TargetPeers + lag' \/ m <= file
      BY <2>2 DEF Excess
    <2> HIDE DEF n, m, file
    <2> QED
      BY <1>1, <1>b, <2>1, Constants, BoundsGrow, Zenon
  <1>3. rpc' = "dial" => Cardinality(AllDialed)' <= TargetPeers - 1 + lag'
    <2>1. rpc' = "dial" => n <= TargetPeers - 1 + lag
      BY <1>a
    <2> SUFFICES rpc' = "dial" => m <= TargetPeers - 1 + lag'
      OBVIOUS
    <2> HIDE DEF n, m, file
    <2> QED
      BY <1>1, <1>b, <2>1, Constants, BoundsGrow, Zenon
  <1> QED
    BY <1>2, <1>3 DEF DialInv

(* A dial ends with a new peer, or without one. *)
LEMMA DialEnds ==
    ASSUME DialInv, NEW e, e \in cur, Dialing, online' \subseteq online \cup {e},
           UNCHANGED <<connected, outgoing, lag>>, boot' \subseteq boot,
           rpc' = "boot" => rpc = "boot dial", rpc' \notin {"boot dial", "dial"}
    PROVE  DialInv'
  <1>1. Finite'
    <2>1. IsFiniteSet(online \cup {e})
      BY FS_AddElement DEF DialInv, Finite
    <2> QED
      BY <2>1, FS_Subset DEF DialInv, Finite
  <1>2. AllDialed' \subseteq AllDialed \cup {e}
    BY DEF AllDialed
  <1>3. CASE rpc = "boot dial"
    <2>1. AllDialed' \subseteq Cached
      BY <1>2, <1>3 DEF DialInv
    <2>2. IsFiniteSet(AllDialed') /\ Cardinality(AllDialed') <= Cardinality(Cached)
      BY <2>1, Constants, FS_Subset
    <2> QED
      BY <1>1, <2>1, <2>2 DEF DialInv, Excess
  <1>4. CASE rpc = "dial"
    <2>1. IsFiniteSet(AllDialed) /\ Cardinality(AllDialed) \in Nat
      BY Counted DEF DialInv
    <2>2. /\ IsFiniteSet(AllDialed \cup {e})
          /\ \/ Cardinality(AllDialed \cup {e}) = Cardinality(AllDialed)
             \/ Cardinality(AllDialed \cup {e}) = Cardinality(AllDialed) + 1
      BY <2>1, FS_AddElement
    <2>3. /\ Cardinality(AllDialed') <= Cardinality(AllDialed \cup {e})
          /\ IsFiniteSet(AllDialed')
      BY <1>2, <2>2, FS_Subset
    <2>4. Cardinality(AllDialed') \in Nat /\ Cardinality(AllDialed \cup {e}) \in Nat
      BY <2>2, <2>3, FS_CardinalityType
    <2>5. lag \in Nat /\ Cardinality(AllDialed) <= TargetPeers - 1 + lag
      BY <1>4 DEF DialInv, Finite
    <2>6. Cardinality(AllDialed') <= TargetPeers + lag
      BY <2>1, <2>2, <2>3, <2>4, <2>5, Constants, OneMore, Zenon
    <2> QED
      BY <1>1, <1>4, <2>6 DEF DialInv, Excess
  <1> QED
    BY <1>3, <1>4 DEF Dialing

LEMMA LoopDialKeeps == ASSUME DialInv, LoopDial PROVE DialInv'
  <1>1. /\ UNCHANGED <<boot, connected, outgoing, online>>
        /\ lag' = IF Cardinality(online) > lag THEN Cardinality(online) ELSE lag
        /\ rpc = "loop" /\ Total < TargetPeers
    BY DEF LoopDial, Wanted, world, store
  <1>2. /\ Cardinality(AllDialed) \in Nat /\ Total \in Nat /\ Cardinality(online) \in Nat
        /\ Cardinality(AllDialed) <= Total + Cardinality(online)
        /\ lag \in Nat
    BY Counted DEF DialInv, Finite
  <1>3. /\ lag' \in Nat /\ lag <= lag' /\ Cardinality(online) <= lag'
    BY <1>1, <1>2
  <1>4. Finite' /\ AllDialed' = AllDialed
    BY <1>1, <1>3 DEF DialInv, Finite, AllDialed
  <1>5. CASE rpc' = "dial"
    <2>1. Cardinality(AllDialed') <= TargetPeers - 1 + lag'
      BY <1>1, <1>2, <1>3, <1>4, Constants
    <2>2. Cardinality(AllDialed') <= TargetPeers + lag'
      BY <1>2, <1>3, <1>4, <2>1, Constants
    <2> QED
      BY <1>4, <1>5, <2>1, <2>2 DEF DialInv, Excess
  <1>6. CASE rpc' # "dial"
    <2>1. rpc' = "loop"
      BY <1>1, <1>6 DEF LoopDial, Dial
    <2> QED
      BY <1>3, <1>4, <2>1, NothingDialed
  <1> QED
    BY <1>5, <1>6

LEMMA BootstrapKeeps == ASSUME DialInv, NEW e \in boot, Bootstrap(e) PROVE DialInv'
  <1>1. /\ UNCHANGED <<connected, outgoing, online, lag>>
        /\ boot' \subseteq boot /\ rpc = "boot"
    BY DEF Bootstrap, world, store
  <1>2. Finite' /\ AllDialed' = AllDialed
    BY <1>1 DEF DialInv, Finite, AllDialed
  <1>3. \/ rpc' = "boot dial" /\ cur' = {e}
        \/ rpc' = "boot"
    BY <1>1 DEF Bootstrap, Dial
  <1>4. Excess(Cardinality(AllDialed))'
    BY <1>1, <1>2 DEF DialInv, Excess
  <1> QED
    BY <1>1, <1>2, <1>3, <1>4 DEF DialInv, Finite

LEMMA OutcomeKeeps == ASSUME DialInv, Outcome PROVE DialInv'
  <1>1. PICK e \in cur : \/ DialSucceeds(e)
                         \/ \E found \in SUBSET (Endpoint \ {e}) : DialRejected(e, found)
                         \/ DialFails(e) \/ DialLoops(e) \/ DialHangs(e)
    BY DEF Outcome
  <1>2. CASE DialHangs(e)
    <2>1. /\ Dialing /\ online' \subseteq online \cup {e} /\ rpc' = "hung"
          /\ UNCHANGED <<connected, outgoing, lag>> /\ boot' \subseteq boot
      BY <1>2 DEF DialHangs, Hangs, store
    <2> QED
      BY <2>1, DialEnds
  <1>3. CASE ~ DialHangs(e)
    <2>1. /\ Dialing /\ online' \subseteq online \cup {e}
          /\ UNCHANGED <<connected, outgoing, lag>> /\ boot' \subseteq boot
          /\ rpc' = IF rpc = "dial" THEN "loop" ELSE "boot"
      BY <1>1, <1>3 DEF DialSucceeds, DialRejected, DialFails, DialLoops, Returns, store
    <2> QED
      BY <2>1, DialEnds DEF Dialing
  <1> QED
    BY <1>2, <1>3

LEMMA LagStays == ASSUME DialInv, UNCHANGED lag PROVE lag <= lag'
  <1>1. lag \in Nat
    BY DEF DialInv, Finite
  <1>2. \A n \in Nat : n <= n
    OBVIOUS
  <1> QED
    BY <1>1, <1>2, Zenon

LEMMA StoreKeeps ==
    ASSUME DialInv, NEW e \in Endpoint, Online(e) \/ Incoming(e) \/ Lost(e)
    PROVE  DialInv'
  <1>1. UNCHANGED <<rpc, cur, boot, lag>>
    BY DEF Online, Incoming, Lost, local
  <1>2. /\ IsFiniteSet(connected') /\ IsFiniteSet(online')
        /\ outgoing' \subseteq connected' /\ AllDialed' \subseteq AllDialed
    <2>1. CASE Online(e)
      BY <2>1, FS_AddElement, FS_Subset DEF Online, DialInv, Finite, AllDialed
    <2>2. CASE Incoming(e)
      BY <2>2, FS_AddElement DEF Incoming, DialInv, Finite, AllDialed
    <2>3. CASE Lost(e)
      BY <2>3, FS_Subset DEF Lost, DialInv, Finite, AllDialed
    <2> QED
      BY <2>1, <2>2, <2>3
  <1>3. Finite'
    BY <1>1, <1>2 DEF DialInv, Finite
  <1>4. lag <= lag'
    BY <1>1, LagStays
  <1> QED
    BY <1>1, <1>2, <1>3, <1>4, NothingDialed

LEMMA NextDials == DialInv /\ [Next]_vars => DialInv'
  <1> SUFFICES ASSUME DialInv, [Next]_vars PROVE DialInv'
    OBVIOUS
  <1>1. ASSUME UNCHANGED <<connected, outgoing, online, lag>>, boot' \subseteq boot,
               rpc' \in {"boot", "boot dial", "dial"} => rpc' = rpc /\ cur' = cur
        PROVE  DialInv'
    <2>1. Finite' /\ AllDialed' = AllDialed
      BY <1>1 DEF DialInv, Finite, AllDialed
    <2>2. lag <= lag'
      BY <1>1, LagStays
    <2> QED
      BY <1>1, <2>1, <2>2, NothingDialed
  <1>2. CASE \E e \in boot : Bootstrap(e)
    BY <1>2, BootstrapKeeps
  <1>3. CASE LoopDial
    BY <1>3, LoopDialKeeps
  <1>4. CASE BootstrapEnds \/ Top \/ Share \/ LoopEnds
    BY <1>1, <1>4 DEF BootstrapEnds, Top, Share, LoopEnds, world, store
  <1>5. CASE SeedStep
    BY <1>1, <1>5 DEF SeedStep, store
  <1>6. CASE SeedHangs \/ ShareHangs
    BY <1>1, <1>6 DEF SeedHangs, ShareHangs, Hangs, store
  <1>7. CASE Outcome
    BY <1>7, OutcomeKeeps
  <1>8. CASE \E e \in Endpoint : Online(e) \/ Incoming(e) \/ Lost(e)
    BY <1>8, StoreKeeps
  <1>9. CASE \E e \in Endpoint : Ban(e) \/ BanEnds(e)
    BY <1>1, <1>9 DEF Ban, BanEnds, local, store
  <1>10. CASE Wedge \/ SeedRecovers \/ Tick \/ UNCHANGED vars
    BY <1>1, <1>10 DEF Wedge, SeedRecovers, Tick, local, store, vars
  <1> QED
    BY <1>2, <1>3, <1>4, <1>5, <1>6, <1>7, <1>8, <1>9, <1>10 DEF Next, Loop

\* The peers that were dialed exceed the target by no more than the number that were
\* on their way to the store when the loop dialed on, or are no more than the peer
\* file lists (controller_cat.go, catReplenish).
THEOREM DialsAlwaysBounded == Spec => []DialOvershoot
  <1>1. DialInv => DialOvershoot
    BY DEF DialInv, Excess, AllDialed, DialOvershoot
  <1> QED
    BY <1>1, InitDials, NextDials, PTL DEF Spec

=============================================================================
