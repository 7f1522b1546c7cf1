---------------------------- MODULE RoutingProofs ---------------------------
(***************************************************************************)
(* Whom route gives a broadcast to, for any number of peers and any        *)
(* fanout, while peers come and go, filters fill and empty, and the        *)
(* special peers change between any two steps of the selection.            *)
(***************************************************************************)
EXTENDS Routing, FiniteSetTheorems, TLAPS

\* What makes the properties inductive.  Where route is and what it has in hand:
Control ==
    /\ rpc \in {"take", "split", "send"} => todo = {}
    /\ rpc # "send" => given = {}
    /\ rpc = "take" <=> parcel = NoParcel
    /\ rpc \in {"split", "sort"} => parcel.kind = "Broadcast"
    /\ rpc = "filter" => parcel.kind \in {"Broadcast", "Full"}
    /\ rpc \in {"filter", "split"} => specials = {}

\* What the ghosts say of the filters and the special peers of this moment:
Ghosts ==
    /\ parcel # NoParcel => \A p \in knew : parcel.payload \in resend[p]
    /\ parcel # NoParcel => \A p \in clean : parcel.payload \notin resend[p]
    /\ steady \subseteq special

\* No peer that has to be served is lost before the choice:
Kept ==
    /\ rpc = "filter" => clean \subseteq selection \cup todo
    /\ rpc \in {"split", "sort"} => clean \subseteq selection
    /\ rpc = "sort" => /\ specials \cup todo \subseteq selection
                       /\ steady \cap selection \subseteq specials \cup todo
                       /\ Cardinality(selection) > Fanout

\* None that has the message is selected at any point:
Unechoed ==
    filtering /\ rpc # "take" /\ parcel.kind \in {"Broadcast", "Full"}
        => selection \cap knew = {}

RoutingInv == TypeOK /\ Control /\ Ghosts /\ Kept /\ Unechoed /\ BroadcastReach

-----------------------------------------------------------------------------
LEMMA Sizes ==
    ASSUME NEW S \in SUBSET Peer, NEW T \in SUBSET S
    PROVE  /\ IsFiniteSet(S) /\ IsFiniteSet(T)
           /\ Cardinality(S) \in Nat /\ Cardinality(T) \in Nat
           /\ Cardinality(T) <= Cardinality(S)
  <1>1. IsFiniteSet(Peer)
    BY RoutingAssumption
  <1>2. IsFiniteSet(S)
    BY <1>1, FS_Subset
  <1>3. IsFiniteSet(T) /\ Cardinality(T) <= Cardinality(S)
    BY <1>2, FS_Subset
  <1> QED
    BY <1>2, <1>3, FS_CardinalityType

(* The ghosts get smaller while route waits for its turn. *)
LEMMA ReachShrinks ==
    ASSUME TypeOK, BroadcastReach, clean' \subseteq clean, steady' \subseteq steady,
           UNCHANGED <<rpc, parcel, selection, specials>>
    PROVE  BroadcastReach'
  <1> SUFFICES ASSUME Chosen("Broadcast")
               PROVE  /\ clean' \cap steady' \subseteq selection
                      /\ Cardinality(selection) >= Smaller(Fanout, Cardinality(clean'))
                      /\ Cardinality(selection \ specials) <= Fanout
    BY DEF BroadcastReach, Chosen, Smaller
  <1>1. clean \in SUBSET Peer /\ clean' \in SUBSET clean
    BY DEF TypeOK
  <1>2. Cardinality(clean') <= Cardinality(clean)
        /\ Cardinality(clean) \in Nat /\ Cardinality(clean') \in Nat
    BY <1>1, Sizes
  <1>3. Cardinality(selection) \in Nat
    BY Sizes DEF TypeOK
  <1> QED
    BY <1>2, <1>3, RoutingAssumption DEF BroadcastReach, Smaller

LEMMA InitInv == Init => RoutingInv
  <1> SUFFICES ASSUME Init PROVE RoutingInv
    OBVIOUS
  <1> QED
    BY DEF Init, RoutingInv, TypeOK, Control, Ghosts, Kept, Unechoed, BroadcastReach, Chosen

-----------------------------------------------------------------------------
(* What goes on around route. *)

LEMMA PeersKeep ==
    ASSUME RoutingInv, NEW p \in Peer, Online(p) \/ Offline(p)
    PROVE  RoutingInv'
  <1>1. UNCHANGED <<filtering, special, resend, routeVars, ghosts>>
    BY DEF Online, Offline
  <1>2. TypeOK'
    BY <1>1 DEF RoutingInv, TypeOK, Online, Offline, routeVars, ghosts
  <1>3. Control' /\ Ghosts' /\ Kept' /\ Unechoed'
    BY <1>1 DEF RoutingInv, Control, Ghosts, Kept, Unechoed, routeVars, ghosts
  <1>4. BroadcastReach'
    BY <1>1, ReachShrinks DEF RoutingInv, routeVars, ghosts
  <1> QED
    BY <1>2, <1>3, <1>4 DEF RoutingInv

LEMMA SetSpecialKeeps ==
    ASSUME RoutingInv, NEW S \in SUBSET Peer, SetSpecial(S)
    PROVE  RoutingInv'
  <1>1. /\ UNCHANGED <<filtering, connected, gone, resend, routeVars, knew, clean>>
        /\ special' = S /\ steady' = steady \cap S
    BY DEF SetSpecial
  <1>2. TypeOK'
    BY <1>1 DEF RoutingInv, TypeOK, routeVars
  <1>3. Control' /\ Ghosts' /\ Kept' /\ Unechoed'
    BY <1>1 DEF RoutingInv, Control, Ghosts, Kept, Unechoed, routeVars
  <1>4. BroadcastReach'
    BY <1>1, ReachShrinks DEF RoutingInv, routeVars
  <1> QED
    BY <1>2, <1>3, <1>4 DEF RoutingInv

LEMMA ReceiveKeeps ==
    ASSUME RoutingInv, NEW p \in Peer, NEW m \in Payload, Receive(p, m)
    PROVE  RoutingInv'
  <1>1. /\ UNCHANGED <<filtering, connected, gone, special, routeVars, knew, steady>>
        /\ resend' = [resend EXCEPT ![p] = @ \cup {m}]
        /\ clean' \subseteq clean
        /\ parcel # NoParcel /\ m = parcel.payload => clean' = clean \ {p}
    BY DEF Receive
  <1>2. TypeOK'
    BY <1>1 DEF RoutingInv, TypeOK, routeVars
  <1>3. Ghosts'
    BY <1>1 DEF RoutingInv, TypeOK, Ghosts, routeVars
  <1>4. Control' /\ Kept' /\ Unechoed'
    BY <1>1 DEF RoutingInv, Control, Kept, Unechoed, routeVars
  <1>5. BroadcastReach'
    BY <1>1, ReachShrinks DEF RoutingInv, routeVars
  <1> QED
    BY <1>2, <1>3, <1>4, <1>5 DEF RoutingInv

LEMMA ForgetKeeps ==
    ASSUME RoutingInv, NEW p \in Peer, NEW m \in Payload, Forget(p, m)
    PROVE  RoutingInv'
  <1>1. /\ UNCHANGED <<filtering, connected, gone, special, routeVars, clean, steady>>
        /\ resend' = [resend EXCEPT ![p] = @ \ {m}]
        /\ knew' \subseteq knew
        /\ parcel # NoParcel /\ m = parcel.payload => knew' = knew \ {p}
    BY DEF Forget
  <1>2. TypeOK'
    BY <1>1 DEF RoutingInv, TypeOK, routeVars
  <1>3. Ghosts'
    BY <1>1 DEF RoutingInv, TypeOK, Ghosts, routeVars
  <1>4. Control' /\ Kept' /\ Unechoed'
    BY <1>1 DEF RoutingInv, Control, Kept, Unechoed, routeVars
  <1>5. BroadcastReach'
    BY <1>1, ReachShrinks DEF RoutingInv, routeVars
  <1> QED
    BY <1>2, <1>3, <1>4, <1>5 DEF RoutingInv

-----------------------------------------------------------------------------
(* A parcel is taken. *)

LEMMA TakenGhosts ==
    ASSUME RoutingInv, NEW m \in Payload, Taken(m), parcel'.payload = m
    PROVE  /\ Ghosts'
           /\ clean' \subseteq connected /\ knew' \subseteq connected
           /\ connected \subseteq Peer
           /\ listed' = connected /\ specials' = {} /\ given' = {}
  BY DEF RoutingInv, TypeOK, Ghosts, Taken

LEMMA ParcelMade ==
    ASSUME NEW m \in Payload
    PROVE  /\ \A kind \in {"Full", "Broadcast", "Random", "Empty"} :
                [kind |-> kind, to |-> NoParcel, payload |-> m] \in Parcel
           /\ \A p \in Peer : [kind |-> "Hash", to |-> p, payload |-> m] \in Parcel
           /\ NoParcel \notin Parcel
  BY NoParcelAssumption DEF Parcel

LEMMA TakeBroadcastKeeps ==
    ASSUME RoutingInv, NEW m \in Payload, NEW kind \in {"Full", "Broadcast"},
           TakeBroadcast(kind, m)
    PROVE  RoutingInv'
  <1>1. /\ Taken(m)
        /\ parcel' = [kind |-> kind, to |-> NoParcel, payload |-> m]
        /\ parcel' \in Parcel /\ parcel' # NoParcel
        /\ parcel'.kind = kind /\ parcel'.payload = m
    BY ParcelMade DEF TakeBroadcast
  <1>2. /\ Ghosts'
        /\ clean' \subseteq connected /\ knew' \subseteq connected
        /\ connected \subseteq Peer
        /\ listed' = connected /\ specials' = {} /\ given' = {}
    BY <1>1, TakenGhosts
  <1>3. UNCHANGED <<filtering, connected, gone, special, resend>> /\ steady' = special
    BY <1>1 DEF Taken
  <1>4. CASE filtering
    <2>1. todo' = connected /\ selection' = {} /\ rpc' = "filter"
      BY <1>4 DEF TakeBroadcast
    <2> QED
      BY <1>1, <1>2, <1>3, <1>4, <2>1
         DEF RoutingInv, TypeOK, Control, Kept, Unechoed, BroadcastReach, Chosen
  <1>5. CASE ~filtering
    <2>1. /\ todo' = {} /\ selection' = connected
          /\ rpc' = IF kind = "Broadcast" THEN "split" ELSE "send"
      BY <1>5 DEF TakeBroadcast
    <2> QED
      BY <1>1, <1>2, <1>3, <1>5, <2>1
         DEF RoutingInv, TypeOK, Control, Kept, Unechoed, BroadcastReach, Chosen
  <1> QED
    BY <1>4, <1>5

LEMMA TakeOneKeeps ==
    ASSUME RoutingInv, NEW m \in Payload,
           \/ \E kind \in {"Random", "Empty"} : TakeRandom(kind, m)
           \/ \E p \in Peer : TakeHash(p, m)
    PROVE  RoutingInv'
  <1> DEFINE One ==
        /\ Taken(m)
        /\ parcel' \in Parcel /\ parcel' # NoParcel
        /\ parcel'.kind \in {"Random", "Empty", "Hash"} /\ parcel'.payload = m
        /\ todo' = {} /\ rpc' = "send" /\ selection' \subseteq connected
  <1>1. One
    <2>1. ASSUME NEW kind \in {"Random", "Empty"}, TakeRandom(kind, m) PROVE One
      BY <2>1, ParcelMade DEF TakeRandom
    <2>2. ASSUME NEW p \in Peer, TakeHash(p, m) PROVE One
      BY <2>2, ParcelMade DEF TakeHash
    <2> QED
      BY <2>1, <2>2
  <1>2. /\ Ghosts'
        /\ clean' \subseteq connected /\ knew' \subseteq connected
        /\ connected \subseteq Peer
        /\ listed' = connected /\ specials' = {} /\ given' = {}
    BY <1>1, TakenGhosts
  <1>3. UNCHANGED <<filtering, connected, gone, special, resend>> /\ steady' = special
    BY <1>1 DEF Taken
  <1> QED
    BY <1>1, <1>2, <1>3
       DEF RoutingInv, TypeOK, Control, Kept, Unechoed, BroadcastReach, Chosen

-----------------------------------------------------------------------------
(* The selection. *)

LEMMA FilterKeeps ==
    ASSUME RoutingInv, NEW p \in Peer, Filter(p)
    PROVE  RoutingInv'
  <1>1. /\ rpc = "filter" /\ p \in todo /\ todo' = todo \ {p}
        /\ selection' = IF parcel.payload \in resend[p] THEN selection ELSE selection \cup {p}
        /\ UNCHANGED <<env, rpc, parcel, specials, given, listed>>
    BY DEF Filter
  <1>2. parcel # NoParcel
    BY <1>1 DEF RoutingInv, Control
  <1>3. TypeOK' /\ Control' /\ Ghosts'
    BY <1>1 DEF RoutingInv, TypeOK, Control, Ghosts, env, ghosts
  <1>4. Kept' /\ Unechoed'
    BY <1>1, <1>2 DEF RoutingInv, Ghosts, Kept, Unechoed, env, ghosts
  <1>5. BroadcastReach'
    BY <1>1 DEF BroadcastReach, Chosen
  <1> QED
    BY <1>3, <1>4, <1>5 DEF RoutingInv

LEMMA FilteredKeeps ==
    ASSUME RoutingInv, Filtered
    PROVE  RoutingInv'
  <1>1. /\ rpc = "filter" /\ todo = {}
        /\ rpc' = IF parcel.kind = "Broadcast" THEN "split" ELSE "send"
        /\ UNCHANGED <<env, parcel, todo, selection, specials, given, listed>>
    BY DEF Filtered
  <1>2. TypeOK' /\ Control' /\ Ghosts'
    BY <1>1 DEF RoutingInv, TypeOK, Control, Ghosts, env, ghosts
  <1>3. Kept' /\ Unechoed'
    BY <1>1 DEF RoutingInv, Kept, Unechoed, env, ghosts
  <1>4. BroadcastReach'
    BY <1>1 DEF BroadcastReach, Chosen
  <1> QED
    BY <1>2, <1>3, <1>4 DEF RoutingInv

LEMMA SplitKeeps ==
    ASSUME RoutingInv, Split
    PROVE  RoutingInv'
  <1>1. rpc = "split" /\ UNCHANGED <<env, parcel, selection, specials, given, listed>>
    BY DEF Split
  <1>2. /\ parcel.kind = "Broadcast" /\ specials = {} /\ clean \subseteq selection
        /\ selection \subseteq Peer
    BY <1>1 DEF RoutingInv, TypeOK, Control, Kept
  <1>3. /\ Cardinality(selection) \in Nat /\ Cardinality(clean) \in Nat
        /\ Cardinality(clean) <= Cardinality(selection)
    BY <1>2, Sizes
  <1>4. CASE Cardinality(selection) <= Fanout
    <2>1. rpc' = "send" /\ todo' = todo
      BY <1>4 DEF Split
    <2>2. TypeOK' /\ Control' /\ Ghosts' /\ Kept' /\ Unechoed'
      BY <1>1, <2>1 DEF RoutingInv, TypeOK, Control, Ghosts, Kept, Unechoed, env, ghosts
    <2>3. selection \ specials = selection
      BY <1>2
    <2>4. BroadcastReach'
      BY <1>1, <1>2, <1>3, <1>4, <2>1, <2>3, RoutingAssumption
         DEF BroadcastReach, Chosen, Smaller, env, ghosts
    <2> QED
      BY <2>2, <2>4 DEF RoutingInv
  <1>5. CASE ~(Cardinality(selection) <= Fanout)
    <2>1. rpc' = "sort" /\ todo' = selection
      BY <1>5 DEF Split
    <2>2. Cardinality(selection) > Fanout
      BY <1>3, <1>5, RoutingAssumption
    <2>3. TypeOK' /\ Control' /\ Ghosts' /\ Unechoed'
      BY <1>1, <2>1 DEF RoutingInv, TypeOK, Control, Ghosts, Unechoed, env, ghosts
    <2>4. Kept'
      BY <1>1, <1>2, <2>1, <2>2 DEF Kept, env, ghosts
    <2>5. BroadcastReach'
      BY <2>1 DEF BroadcastReach, Chosen
    <2> QED
      BY <2>3, <2>4, <2>5 DEF RoutingInv
  <1> QED
    BY <1>4, <1>5

LEMMA SortKeeps ==
    ASSUME RoutingInv, NEW p \in Peer, Sort(p)
    PROVE  RoutingInv'
  <1>1. /\ rpc = "sort" /\ p \in todo /\ todo' = todo \ {p}
        /\ specials' = IF p \in special THEN specials \cup {p} ELSE specials
        /\ UNCHANGED <<env, rpc, parcel, selection, given, listed>>
    BY DEF Sort
  <1>2. TypeOK' /\ Control' /\ Ghosts' /\ Unechoed'
    BY <1>1 DEF RoutingInv, TypeOK, Control, Ghosts, Unechoed, env, ghosts
  <1>3. Kept'
    BY <1>1 DEF RoutingInv, Ghosts, Kept, env, ghosts
  <1>4. BroadcastReach'
    BY <1>1 DEF BroadcastReach, Chosen
  <1> QED
    BY <1>2, <1>3, <1>4 DEF RoutingInv

LEMMA ChooseKeeps ==
    ASSUME RoutingInv, Choose
    PROVE  RoutingInv'
  <1> DEFINE regular == selection \ specials
  <1>1. /\ rpc = "sort" /\ todo = {} /\ rpc' = "send"
        /\ UNCHANGED <<env, parcel, todo, specials, given, listed>>
    BY DEF Choose
  <1>2. /\ specials \subseteq selection /\ steady \cap selection \subseteq specials
        /\ clean \subseteq selection /\ selection \subseteq Peer /\ given = {}
        /\ Cardinality(selection) > Fanout
    BY <1>1 DEF RoutingInv, TypeOK, Control, Kept
  <1>3. PICK S \in SUBSET regular :
            /\ selection' = specials \cup S
            /\ \/ S = regular /\ Cardinality(regular) < Fanout
               \/ Cardinality(S) = Fanout
    BY DEF Choose
  <1>4. selection' \subseteq selection /\ specials \subseteq selection'
    BY <1>2, <1>3
  <1>5. TypeOK' /\ Control' /\ Ghosts' /\ Kept' /\ Unechoed'
    BY <1>1, <1>2, <1>4
       DEF RoutingInv, TypeOK, Control, Ghosts, Kept, Unechoed, env, ghosts
  <1>6. selection' \ specials = S
    BY <1>3
  <1>7. /\ Cardinality(S) \in Nat /\ Cardinality(S) <= Cardinality(selection')
        /\ Cardinality(selection') \in Nat
        /\ Cardinality(clean) \in Nat /\ Cardinality(clean) <= Cardinality(selection)
        /\ Cardinality(selection) \in Nat
    <2>1. S \in SUBSET selection' /\ selection' \in SUBSET Peer
      BY <1>2, <1>3, <1>4
    <2>2. clean \in SUBSET selection /\ selection \in SUBSET Peer
      BY <1>2
    <2> QED
      BY <2>1, <2>2, Sizes
  <1>8. Cardinality(selection') >= Smaller(Fanout, Cardinality(clean))
    <2>1. CASE S = regular
      <3>1. selection' = selection
        BY <1>2, <1>3, <2>1
      <3> QED
        BY <1>7, <3>1, RoutingAssumption DEF Smaller
    <2>2. CASE Cardinality(S) = Fanout
      BY <1>7, <2>2, RoutingAssumption DEF Smaller
    <2> QED
      BY <1>3, <2>1, <2>2
  <1>9. Cardinality(selection' \ specials) <= Fanout
    BY <1>3, <1>6, <1>7, RoutingAssumption
  <1>10. clean \cap steady \subseteq selection'
    BY <1>2, <1>4
  <1>11. BroadcastReach'
    BY <1>1, <1>8, <1>9, <1>10 DEF BroadcastReach, Chosen, Smaller, env, ghosts
  <1> QED
    BY <1>5, <1>11 DEF RoutingInv

LEMMA GiveKeeps ==
    ASSUME RoutingInv, NEW p \in Peer, Give(p)
    PROVE  RoutingInv'
  <1>1. /\ rpc = "send" /\ given' = given \cup {p} /\ p \in selection
        /\ UNCHANGED <<env, rpc, parcel, todo, selection, specials, listed>>
    BY DEF Give
  <1>2. TypeOK' /\ Control' /\ Ghosts' /\ Kept' /\ Unechoed'
    BY <1>1 DEF RoutingInv, TypeOK, Control, Ghosts, Kept, Unechoed, env, ghosts
  <1>3. BroadcastReach'
    BY <1>1, ReachShrinks DEF RoutingInv, env, ghosts
  <1> QED
    BY <1>2, <1>3 DEF RoutingInv

LEMMA DoneKeeps ==
    ASSUME RoutingInv, Done
    PROVE  RoutingInv'
  BY DEF Done, RoutingInv, TypeOK, Control, Ghosts, Kept, Unechoed, BroadcastReach, Chosen

-----------------------------------------------------------------------------
LEMMA NextInv == RoutingInv /\ [Next]_vars => RoutingInv'
  <1> SUFFICES ASSUME RoutingInv, [Next]_vars PROVE RoutingInv'
    OBVIOUS
  <1>1. CASE \E p \in Peer : Online(p) \/ Offline(p) \/ Filter(p) \/ Sort(p) \/ Give(p)
    BY <1>1, PeersKeep, FilterKeeps, SortKeeps, GiveKeeps
  <1>2. CASE \E p \in Peer, m \in Payload : Receive(p, m) \/ Forget(p, m) \/ TakeHash(p, m)
    BY <1>2, ReceiveKeeps, ForgetKeeps, TakeOneKeeps
  <1>3. CASE \E S \in SUBSET Peer : SetSpecial(S)
    BY <1>3, SetSpecialKeeps
  <1>4. CASE \E m \in Payload :
                \/ \E kind \in {"Full", "Broadcast"} : TakeBroadcast(kind, m)
                \/ \E kind \in {"Random", "Empty"} : TakeRandom(kind, m)
    BY <1>4, TakeBroadcastKeeps, TakeOneKeeps
  <1>5. CASE Filtered \/ Split \/ Choose \/ Done
    BY <1>5, FilteredKeeps, SplitKeeps, ChooseKeeps, DoneKeeps
  <1>6. CASE UNCHANGED vars
    <2>1. TypeOK' /\ Control' /\ Ghosts' /\ Kept' /\ Unechoed'
      BY <1>6 DEF vars, RoutingInv, TypeOK, Control, Ghosts, Kept, Unechoed
    <2>2. BroadcastReach'
      BY <1>6, ReachShrinks DEF vars, RoutingInv
    <2> QED
      BY <2>1, <2>2 DEF RoutingInv
  <1> QED
    BY <1>1, <1>2, <1>3, <1>4, <1>5, <1>6 DEF Next

LEMMA InvHolds == Spec => []RoutingInv
  BY InitInv, NextInv, PTL DEF Spec

\* Only peers that were in the store are selected, and only selected peers are
\* given a parcel.
THEOREM RoutingTypeCorrect == Spec => []TypeOK
  <1>1. RoutingInv => TypeOK
    BY DEF RoutingInv
  <1> QED
    BY <1>1, InvHolds, PTL

\* A broadcast reaches every steady special peer and as many others as the fanout
\* asks for, and no more, with any number of peers (controller_routing.go,
\* selectBroadcastPeers).
THEOREM BroadcastAlwaysReaches == Spec => []BroadcastReach
  <1>1. RoutingInv => BroadcastReach
    BY DEF RoutingInv
  <1> QED
    BY <1>1, InvHolds, PTL

\* A broadcast never goes back to a peer whose filter has held its payload since it
\* was taken from the channel (controller_routing.go, selectNoResendPeers).
THEOREM NeverEchoes == Spec => []NoEcho
  <1>1. RoutingInv => NoEcho
    BY DEF RoutingInv, Unechoed, NoEcho, Chosen
  <1> QED
    BY <1>1, InvHolds, PTL

=============================================================================
