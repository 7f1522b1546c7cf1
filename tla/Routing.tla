------------------------------- MODULE Routing ------------------------------
(***************************************************************************)
(* The route loop (controller_routing.go): it takes a parcel from the      *)
(* toNetwork channel, selects peers by the parcel's address, and gives the *)
(* parcel to each of them.  Meanwhile peers come and go, the application   *)
(* changes the special peers, messages arrive (and enter the resend filter *)
(* of the peer that sent them) and old messages leave the filters.         *)
(*                                                                         *)
(* Selecting is not atomic: the peers are listed once, and each peer's     *)
(* filter, and whether it is special, is looked up on its own.  A resend   *)
(* filter is the set of payloads it holds (module PeerHashCache); the      *)
(* toNetwork channel offers any parcel at any time (module ParcelChannel). *)
(***************************************************************************)
EXTENDS Integers, FiniteSets

CONSTANTS
    Peer,        \* peer objects, each with a hash of its own
    Payload,     \* application messages
    Fanout,      \* conf.Fanout
    NoParcel     \* route has no parcel

ASSUME RoutingAssumption ==
    /\ IsFiniteSet(Peer)
    /\ Fanout \in Nat \ {0}

VARIABLES
    filtering,   \* conf.PeerResendFilter
    connected,   \* the peers in the store
    gone,        \* the peers that have been removed from it
    special,     \* the peers whose endpoint is special
    resend,      \* per peer: the payloads in its resend filter
    rpc,         \* route: "take", "filter", "split", "sort" or "send"
    parcel,      \* the parcel it routes: [kind, to, payload]
    todo,        \* the peers the current loop has not reached yet
    selection,   \* the peers selected so far
    specials,    \* the special peers found by selectBroadcastPeers
    given,       \* the peers that were given the parcel
    listed,      \* the peers in the store when the parcel was taken
    knew,        \* those that have held the payload in their filter ever since
    clean,       \* those that have not held it at any time since
    steady       \* the peers that have been special ever since

ghosts == <<knew, clean, steady>>
env == <<filtering, connected, gone, special, resend, ghosts>>
vars == <<filtering, connected, gone, special, resend, rpc, parcel, todo,
          selection, specials, given, listed, knew, clean, steady>>

\* The kinds of address: one of the constants, empty, or the hash of a peer.
Parcel == [kind : {"Full", "Broadcast", "Random", "Empty"}, to : {NoParcel}, payload : Payload]
            \cup [kind : {"Hash"}, to : Peer, payload : Payload]

ASSUME NoParcelAssumption == NoParcel \notin Parcel

Init ==
    /\ filtering \in BOOLEAN
    /\ connected = {}
    /\ gone = {}
    /\ special = {}
    /\ resend = [p \in Peer |-> {}]
    /\ rpc = "take"
    /\ parcel = NoParcel
    /\ todo = {}
    /\ selection = {}
    /\ specials = {}
    /\ given = {}
    /\ listed = {}
    /\ knew = {}
    /\ clean = {}
    /\ steady = {}

-----------------------------------------------------------------------------
(* What goes on around route. *)

routeVars == <<rpc, parcel, todo, selection, specials, given, listed>>

\* manageOnline adds a peer to the store, or removes one.
Online(p) ==
    /\ p \notin connected \cup gone
    /\ connected' = connected \cup {p}
    /\ UNCHANGED <<filtering, gone, special, resend, routeVars, ghosts>>

Offline(p) ==
    /\ p \in connected
    /\ connected' = connected \ {p}
    /\ gone' = gone \cup {p}
    /\ UNCHANGED <<filtering, special, resend, routeVars, ghosts>>

\* SetSpecial.
SetSpecial(S) ==
    /\ special' = S
    /\ steady' = steady \cap S
    /\ UNCHANGED <<filtering, connected, gone, resend, routeVars, knew, clean>>

\* The read loop of a peer, which runs before the peer is in the store, gets an
\* application message.
Receive(p, m) ==
    /\ filtering
    /\ p \notin gone
    /\ resend' = [resend EXCEPT ![p] = @ \cup {m}]
    /\ clean' = IF parcel # NoParcel /\ m = parcel.payload THEN clean \ {p} ELSE clean
    /\ UNCHANGED <<filtering, connected, gone, special, routeVars, knew, steady>>

\* A message gets too old for a resend filter.
Forget(p, m) ==
    /\ m \in resend[p]
    /\ resend' = [resend EXCEPT ![p] = @ \ {m}]
    /\ knew' = IF parcel # NoParcel /\ m = parcel.payload THEN knew \ {p} ELSE knew
    /\ UNCHANGED <<filtering, connected, gone, special, routeVars, clean, steady>>

-----------------------------------------------------------------------------
(* route. *)

\* A parcel is taken from toNetwork.
Taken(m) ==
    /\ rpc = "take"
    /\ listed' = connected
    /\ knew' = {p \in connected : m \in resend[p]}
    /\ clean' = {p \in connected : m \notin resend[p]}
    /\ steady' = special
    /\ specials' = {}
    /\ given' = {}
    /\ UNCHANGED <<filtering, connected, gone, special, resend>>

\* As TakeBroadcast, but filtering only the smaller broadcast.
TakeBroadcastFiltered(kind, m) ==
    /\ Taken(m)
    /\ parcel' = [kind |-> kind, to |-> NoParcel, payload |-> m]
    /\ IF filtering /\ kind = "Broadcast"
         THEN todo' = connected /\ selection' = {} /\ rpc' = "filter"
         ELSE /\ todo' = {}
              /\ selection' = connected
              /\ rpc' = IF kind = "Broadcast" THEN "split" ELSE "send"

\* A broadcast: with the filter on, the peers are looked up one after the other,
\* else all are selected.
TakeBroadcast(kind, m) ==
    /\ Taken(m)
    /\ parcel' = [kind |-> kind, to |-> NoParcel, payload |-> m]
    /\ IF filtering
         THEN todo' = connected /\ selection' = {} /\ rpc' = "filter"
         ELSE /\ todo' = {}
              /\ selection' = connected
              /\ rpc' = IF kind = "Broadcast" THEN "split" ELSE "send"

\* A parcel for any peer: randomPeer, which finds none if there are none.
TakeRandom(kind, m) ==
    /\ Taken(m)
    /\ parcel' = [kind |-> kind, to |-> NoParcel, payload |-> m]
    /\ todo' = {}
    /\ selection' \in (IF connected = {} THEN {{}} ELSE {{p} : p \in connected})
    /\ rpc' = "send"

\* As TakeHash, but without looking the peer up in the store.
TakeHashBlind(p, m) ==
    /\ Taken(m)
    /\ parcel' = [kind |-> "Hash", to |-> p, payload |-> m]
    /\ todo' = {}
    /\ selection' = {p}
    /\ rpc' = "send"

\* A parcel for one peer: PeerStore.Get.
TakeHash(p, m) ==
    /\ Taken(m)
    /\ parcel' = [kind |-> "Hash", to |-> p, payload |-> m]
    /\ todo' = {}
    /\ selection' = {p} \cap connected
    /\ rpc' = "send"

\* selectNoResendPeers: one peer of the loop.
Filter(p) ==
    /\ rpc = "filter"
    /\ p \in todo
    /\ todo' = todo \ {p}
    /\ selection' = IF parcel.payload \in resend[p] THEN selection ELSE selection \cup {p}
    /\ UNCHANGED <<env, rpc, parcel, specials, given, listed>>

\* The end of the loop.
Filtered ==
    /\ rpc = "filter"
    /\ todo = {}
    /\ rpc' = IF parcel.kind = "Broadcast" THEN "split" ELSE "send"
    /\ UNCHANGED <<env, parcel, todo, selection, specials, given, listed>>

\* selectBroadcastPeers: nothing to choose if the selection is small enough,
\* else the loop that finds the special peers begins.
Split ==
    /\ rpc = "split"
    /\ IF Cardinality(selection) <= Fanout
         THEN rpc' = "send" /\ UNCHANGED todo
         ELSE rpc' = "sort" /\ todo' = selection
    /\ UNCHANGED <<env, parcel, selection, specials, given, listed>>

\* One peer of that loop.
Sort(p) ==
    /\ rpc = "sort"
    /\ p \in todo
    /\ todo' = todo \ {p}
    /\ specials' = IF p \in special THEN specials \cup {p} ELSE specials
    /\ UNCHANGED <<env, rpc, parcel, selection, given, listed>>

\* As Choose, but it looks up again which peers are special.
ChooseRereads ==
    LET regular == selection \ special
    IN  /\ rpc = "sort"
        /\ todo = {}
        /\ IF Cardinality(regular) < Fanout
             THEN selection' = specials \cup regular
             ELSE \E S \in SUBSET regular :
                    Cardinality(S) = Fanout /\ selection' = specials \cup S
        /\ rpc' = "send"
        /\ UNCHANGED <<env, parcel, todo, specials, given, listed>>

\* All special peers, and as many regular ones as the fanout allows.
Choose ==
    LET regular == selection \ specials
    IN  /\ rpc = "sort"
        /\ todo = {}
        /\ IF Cardinality(regular) < Fanout
             THEN selection' = specials \cup regular
             ELSE \E S \in SUBSET regular :
                    Cardinality(S) = Fanout /\ selection' = specials \cup S
        /\ rpc' = "send"
        /\ UNCHANGED <<env, parcel, todo, specials, given, listed>>

\* Give the parcel to one selected peer (Peer.Send: module PeerSend).
Give(p) ==
    /\ rpc = "send"
    /\ p \in selection \ given
    /\ given' = given \cup {p}
    /\ UNCHANGED <<env, rpc, parcel, todo, selection, specials, listed>>

\* Every selected peer was given the parcel, and route waits for the next one.
Done ==
    /\ rpc = "send"
    /\ given = selection
    /\ rpc' = "take"
    /\ parcel' = NoParcel
    /\ selection' = {}
    /\ specials' = {}
    /\ given' = {}
    /\ listed' = {}
    /\ knew' = {}
    /\ clean' = {}
    /\ steady' = {}
    /\ UNCHANGED <<filtering, connected, gone, special, resend, todo>>

Next ==
    \/ \E p \in Peer : Online(p) \/ Offline(p) \/ Filter(p) \/ Sort(p) \/ Give(p)
    \/ \E p \in Peer, m \in Payload : Receive(p, m) \/ Forget(p, m) \/ TakeHash(p, m)
    \/ \E S \in SUBSET Peer : SetSpecial(S)
    \/ \E m \in Payload :
        \/ \E kind \in {"Full", "Broadcast"} : TakeBroadcast(kind, m)
        \/ \E kind \in {"Random", "Empty"} : TakeRandom(kind, m)
    \/ Filtered
    \/ Split
    \/ Choose
    \/ Done

Spec == Init /\ [][Next]_vars

-----------------------------------------------------------------------------
\* The types of the variables; only listed peers are selected, and only selected
\* ones are given the parcel.
TypeOK ==
    /\ filtering \in BOOLEAN
    /\ connected \subseteq Peer
    /\ gone \subseteq Peer
    /\ special \subseteq Peer
    /\ resend \in [Peer -> SUBSET Payload]
    /\ rpc \in {"take", "filter", "split", "sort", "send"}
    /\ parcel \in Parcel \cup {NoParcel}
    /\ listed \subseteq Peer
    /\ todo \subseteq listed
    /\ selection \subseteq listed
    /\ specials \subseteq listed
    /\ given \subseteq selection
    /\ knew \subseteq listed
    /\ clean \subseteq listed
    /\ steady \subseteq Peer

Smaller(m, n) == IF m < n THEN m ELSE n

Chosen(kind) == rpc = "send" /\ parcel.kind = kind

\* A broadcast goes to every peer that was special all the time, to as many peers
\* as the fanout asks for if there are that many, and to no more regular peers
\* than that, although peers become special and cease to be while the choice is
\* made (README.md, "those 16 peers and all the special peers are given the
\* parcel"; controller_routing.go, selectBroadcastPeers).
BroadcastReach ==
    Chosen("Broadcast") =>
        /\ clean \cap steady \subseteq selection
        /\ Cardinality(selection) >= Smaller(Fanout, Cardinality(clean))
        /\ Cardinality(selection \ specials) <= Fanout

\* A broadcast does not go back to a peer whose resend filter holds its payload,
\* though filters change while the peers are looked up (configuration.go, "to
\* prevent sending the same application parcel to peers who already sent it to
\* us"; controller_routing.go, selectNoResendPeers).
NoEcho ==
    filtering /\ (Chosen("Broadcast") \/ Chosen("Full")) => selection \cap knew = {}

\* A parcel without an address is a broadcast (parcel.go, Address: "" or nil for
\* broadcast).
EmptyBroadcasts ==
    Chosen("Empty") => Cardinality(selection) >= Smaller(Fanout, Cardinality(listed))

=============================================================================
