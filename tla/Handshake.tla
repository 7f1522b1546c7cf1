------------------------------ MODULE Handshake -----------------------------
(***************************************************************************)
(* One connection between a node that dials and a node that listens, from  *)
(* the dialer's first message to the first parcels of the two peers        *)
(* (controller_connections.go, handshake.go and the handshakes of the      *)
(* protocols).  The two agree on a protocol: 9 and 10 share one gob        *)
(* encoded handshake and differ in its version, 11 announces itself with a *)
(* signature.  The nodes may be configured for different versions, minimum *)
(* versions and networks, the listener may reject, the node may have       *)
(* dialed itself, and the connection may break at any time.                *)
(*                                                                         *)
(* Gob: an encoder sends the definition of a message type before its first *)
(* value of that type, and a decoder fails on a definition it already has  *)
(* or a value it has no definition for.  The dialer has two encoders, the  *)
(* one of its first message and the one made while detecting the reply.    *)
(***************************************************************************)
EXTENDS Integers, Sequences, FiniteSets

CONSTANTS
    Network,     \* network ids
    Port         \* listen ports a node may be configured for

Version == {9, 10, 11}

VARIABLES
    conf,        \* per side: [version, min, network, port] of its configuration
    self,        \* the two sides are the same node
    full,        \* the listener rejects incoming connections
    pc,          \* per side: "start", "wait", "peer", "failed" or "stopped"
    prot,        \* per side: the protocol of its peer, 0 for none
    using,       \* per side: the encoder its peer sends with
    defined,     \* per encoder: message types it has sent a definition of
    known,       \* per side: message types its decoder has a definition of
    wire,        \* per side: messages on their way to it
    open,        \* the TCP connection is open
    parcels,     \* per side: parcels its peer has sent
    garbled,     \* a peer could not decode a parcel of the other peer
    refused      \* sides that turned down a whole handshake that is no rejection

vars == <<conf, self, full, pc, prot, using, defined, known, wire, open, parcels, garbled, refused>>

Side == {"dialer", "listener"}
Other(s) == IF s = "dialer" THEN "listener" ELSE "dialer"
Encoder == {"dialer", "redetected", "listener"}

\* What Check accepts: a minimum above the version too, and any number as the port.
Config == [version : Version, min : Version, network : Network, port : Port]

Init ==
    /\ self \in BOOLEAN
    /\ conf \in {f \in [Side -> Config] : self => f["dialer"] = f["listener"]}
    /\ full \in BOOLEAN
    /\ pc = [s \in Side |-> IF s = "dialer" THEN "start" ELSE "wait"]
    /\ prot = [s \in Side |-> 0]
    /\ using = [s \in Side |-> s]
    /\ defined = [e \in Encoder |-> {}]
    /\ known = [s \in Side |-> {}]
    /\ wire = [s \in Side |-> <<>>]
    /\ open = TRUE
    /\ parcels = [s \in Side |-> 0]
    /\ garbled = FALSE
    /\ refused = {}

-----------------------------------------------------------------------------
(* Messages.  A gob message carries the type of its Go struct and whether  *)
(* the definition of that type comes with it.  A protocol 11 message is    *)
(* written in parts: a signature before the handshake, a length, the data; *)
(* like a gob message it is read in full or not at all.                    *)

\* The instance id a node puts into its handshakes, 0 in a rejection.
InstanceID(s) == IF self \/ s = "dialer" THEN 1 ELSE 2

\* newHandshake, with the version replaced by v.
NewHandshake(s, v) ==
    [version |-> v, network |-> conf[s].network, type |-> "Handshake",
     port |-> conf[s].port, loopback |-> InstanceID(s), alts |-> "none"]

\* What encoder e of gob makes of a value of struct go.
Gob(e, go, h) ==
    [form |-> "gob", whole |-> TRUE, go |-> go, def |-> go \notin defined[e], hs |-> h]

\* writeMessage of protocol 11.
Pbuf(h) == [form |-> "pbuf", whole |-> TRUE, go |-> "V11Msg", def |-> FALSE, hs |-> h]

\* SendHandshake of protocols 9 and 10, which use the struct V9Msg: 9 turns a
\* handshake into a peer request.
V9SendHandshake(p, e, h) ==
    Gob(e, "V9Msg",
        IF p = 9 /\ h.type = "Handshake" THEN [h EXCEPT !.type = "PeerRequest"] ELSE h)

V11SendHandshake(h) == Pbuf(h)

\* The handshake in protocol p, with encoder e if it needs one.
Encode(p, e, h) == IF p = 11 THEN V11SendHandshake(h) ELSE V9SendHandshake(p, e, h)

Defines(p, e, go) ==
    IF p = 11 THEN defined ELSE [defined EXCEPT ![e] = @ \cup {go}]

\* What the decoder of gob on side s accepts.
GobDecodes(s, m) == m.whole /\ (m.def <=> m.go \notin known[s])

\* readMessage of protocol 11: all parts of the message have to arrive.
PbufDecodes(m) == m.whole

Decodes(s, m) == IF m.form = "gob" THEN GobDecodes(s, m) ELSE PbufDecodes(m)

Learns(s, m) == IF m.form = "gob" THEN [known EXCEPT ![s] = @ \cup {m.go}] ELSE known

InRange(port) == port >= 1 /\ port <= 65535

\* As Valid, but the minimum version itself is refused.
ValidStrict(c, h) ==
    /\ h.version > c.min
    /\ h.network = c.network
    /\ InRange(h.port)
    /\ h.alts # "invalid"

\* Handshake.Valid: the port is that of the sender's configuration, which is a
\* number but need not be one of a port; a rejection may list endpoints that are
\* not valid.
Valid(c, h) ==
    /\ h.version >= c.min
    /\ h.network = c.network
    /\ InRange(h.port)
    /\ h.alts # "invalid"

\* ReadHandshake of protocols 9 and 10: a rejection without alternatives cannot be
\* parsed.
V9ReadHandshake(s, m) == GobDecodes(s, m) /\ (m.hs.type = "Reject" => m.hs.alts # "none")

\* ReadHandshake of protocol 11, after its signature.
V11ReadHandshake(m) == PbufDecodes(m)

Parses(s, m) == IF m.form = "pbuf" THEN V11ReadHandshake(m) ELSE V9ReadHandshake(s, m)

\* detectProtocolFromFirstMessage without Handshake.Valid.
DetectUnchecked(s, m) ==
    IF ~Parses(s, m) THEN 0
    ELSE IF m.form = "pbuf" THEN 11
    ELSE IF m.hs.version = 10 /\ conf[s].version = 9 THEN 9
    ELSE IF m.hs.version \in {9, 10} THEN m.hs.version
    ELSE 0

\* detectProtocolFromFirstMessage: the protocol side s finds in m, 0 if it fails.
\* The two tests of the minimum version are the same.
Detect(s, m) ==
    IF ~Parses(s, m) \/ ~Valid(conf[s], m.hs) THEN 0
    ELSE IF m.form = "pbuf" THEN 11
    ELSE IF m.hs.version = 10 /\ conf[s].version = 9 THEN 9
    ELSE IF m.hs.version \in {9, 10} THEN m.hs.version
    ELSE 0

Refuses(s, m) ==
    IF Detect(s, m) = 0 /\ m.whole /\ m.hs.type # "Reject" THEN refused \cup {s} ELSE refused

-----------------------------------------------------------------------------
(* The dialer: handshakeOutgoing. *)

\* Send the handshake with the configured protocol (selectProtocol).
DialerSend ==
    LET v == conf["dialer"].version
    IN  /\ pc["dialer"] = "start"
        /\ open
        /\ wire' = [wire EXCEPT !["listener"] =
                        Append(@, Encode(v, "dialer", NewHandshake("dialer", v)))]
        /\ defined' = Defines(v, "dialer", "V9Msg")
        /\ pc' = [pc EXCEPT !["dialer"] = "wait"]
        /\ UNCHANGED <<conf, self, full, prot, using, known, open, parcels, garbled, refused>>

\* As Fail, but the connection is left to itself.
FailKeepsOpen(s) ==
    /\ pc' = [pc EXCEPT ![s] = "failed"]
    /\ UNCHANGED <<open, prot, using, defined>>

\* The handshake fails and the connection is closed.
Fail(s) ==
    /\ pc' = [pc EXCEPT ![s] = "failed"]
    /\ open' = FALSE
    /\ UNCHANGED <<prot, using, defined>>

\* newPeer with protocol p, sending with encoder e.
MakePeer(s, p, e) ==
    /\ pc' = [pc EXCEPT ![s] = "peer"]
    /\ prot' = [prot EXCEPT ![s] = p]
    /\ using' = [using EXCEPT ![s] = e]

\* The dialer reads the reply, or is told by it that the listener is full.  It
\* does not compare the nonces.
DialerReadsAnyLoopback ==
    /\ pc["dialer"] = "wait"
    /\ wire["dialer"] # <<>>
    /\ LET m == Head(wire["dialer"])
           p == Detect("dialer", m)
       IN  /\ IF p = 0 \/ m.hs.type = "Reject"
                THEN Fail("dialer")
                ELSE /\ MakePeer("dialer", p, IF p = 9 THEN "dialer" ELSE "redetected")
                     /\ UNCHANGED <<open, defined>>
           /\ known' = Learns("dialer", m)
           /\ refused' = Refuses("dialer", m)
    /\ wire' = [wire EXCEPT !["dialer"] = Tail(@)]
    /\ UNCHANGED <<conf, self, full, parcels, garbled>>

\* The dialer reads the reply.  Its peer keeps the new encoder for protocol 9 too.
DialerReadsNewEncoder ==
    /\ pc["dialer"] = "wait"
    /\ wire["dialer"] # <<>>
    /\ LET m == Head(wire["dialer"])
           p == Detect("dialer", m)
       IN  /\ IF p = 0 \/ m.hs.loopback = InstanceID("dialer") \/ m.hs.type = "Reject"
                THEN Fail("dialer")
                ELSE /\ MakePeer("dialer", p, "redetected")
                     /\ UNCHANGED <<open, defined>>
           /\ known' = Learns("dialer", m)
           /\ refused' = Refuses("dialer", m)
    /\ wire' = [wire EXCEPT !["dialer"] = Tail(@)]
    /\ UNCHANGED <<conf, self, full, parcels, garbled>>

\* The dialer reads the reply: it fails if no protocol is found, if the reply
\* has the dialer's own nonce, and if the listener rejects.  A peer that speaks
\* protocol 9 goes on with the encoder of the first message.
DialerReads ==
    /\ pc["dialer"] = "wait"
    /\ wire["dialer"] # <<>>
    /\ LET m == Head(wire["dialer"])
           p == Detect("dialer", m)
       IN  /\ IF p = 0 \/ m.hs.loopback = InstanceID("dialer") \/ m.hs.type = "Reject"
                THEN Fail("dialer")
                ELSE /\ MakePeer("dialer", p, IF p = 9 THEN "dialer" ELSE "redetected")
                     /\ UNCHANGED <<open, defined>>
           /\ known' = Learns("dialer", m)
           /\ refused' = Refuses("dialer", m)
    /\ wire' = [wire EXCEPT !["dialer"] = Tail(@)]
    /\ UNCHANGED <<conf, self, full, parcels, garbled>>

-----------------------------------------------------------------------------
(* The listener: handshakeIncoming. *)

\* allowIncoming refuses: RejectWithShare answers in the listener's own protocol,
\* without reading, with alternatives if it has peers, and closes.  The endpoints of
\* its peers may come from its peer file, where they are not checked.
ListenerRejects ==
    /\ pc["listener"] = "wait"
    /\ full
    /\ open
    /\ \E alts \in {"none", "valid", "invalid"} :
        LET v == conf["listener"].version
            h == [NewHandshake("listener", v) EXCEPT
                    !.type = "Reject", !.loopback = 0, !.alts = alts]
        IN  /\ wire' = [wire EXCEPT !["dialer"] = Append(@, Encode(v, "listener", h))]
            /\ defined' = Defines(v, "listener", "V9Msg")
    /\ pc' = [pc EXCEPT !["listener"] = "failed"]
    /\ open' = FALSE
    /\ UNCHANGED <<conf, self, full, prot, using, known, parcels, garbled, refused>>

\* The reply is sent in protocol p with version v and a peer is made; if the
\* connection is closed already, the reply is lost and the write may fail.
Reply(p, v) ==
    \/ /\ wire' = [wire EXCEPT
                !["listener"] = Tail(@),
                !["dialer"] = IF open
                    THEN Append(@, Encode(p, "listener", NewHandshake("listener", v)))
                    ELSE @]
       /\ defined' = Defines(p, "listener", "V9Msg")
       /\ MakePeer("listener", p, "listener")
       /\ UNCHANGED open
    \/ /\ ~open
       /\ Fail("listener")
       /\ wire' = [wire EXCEPT !["listener"] = Tail(@)]

\* As ListenerReads, but the protocol is chosen before the downgrade.
ListenerReadsLateDowngrade ==
    /\ pc["listener"] = "wait"
    /\ ~full
    /\ wire["listener"] # <<>>
    /\ LET m == Head(wire["listener"])
           p == Detect("listener", m)
       IN  /\ IF p = 0
                THEN Fail("listener") /\ wire' = [wire EXCEPT !["listener"] = Tail(@)]
                ELSE Reply(m.hs.version, p)
           /\ known' = Learns("listener", m)
           /\ refused' = Refuses("listener", m)
    /\ UNCHANGED <<conf, self, full, parcels, garbled>>

\* The listener reads the first message and finds no protocol for it, or replies
\* with the version it found (in protocol 11, the one of the message).
ListenerReads ==
    /\ pc["listener"] = "wait"
    /\ ~full
    /\ wire["listener"] # <<>>
    /\ LET m == Head(wire["listener"])
           p == Detect("listener", m)
       IN  /\ IF p = 0
                THEN Fail("listener") /\ wire' = [wire EXCEPT !["listener"] = Tail(@)]
                ELSE Reply(p, IF p = 11 THEN m.hs.version ELSE p)
           /\ known' = Learns("listener", m)
           /\ refused' = Refuses("listener", m)
    /\ UNCHANGED <<conf, self, full, parcels, garbled>>

-----------------------------------------------------------------------------
(* Either side. *)

\* The deadline set by SetDeadline expires, or a closed connection is noticed.
TimedOut(s) ==
    /\ pc[s] \in {"start", "wait"}
    /\ Fail(s)
    /\ UNCHANGED <<conf, self, full, known, wire, parcels, garbled, refused>>

\* What may be left of the messages w on their way: a prefix, the last of which
\* may be cut short.
Remains(w) ==
    {SubSeq(w, 1, k) : k \in 0..Len(w)}
        \cup {Append(SubSeq(w, 1, k - 1), [w[k] EXCEPT !.whole = FALSE]) : k \in 1..Len(w)}

\* The network breaks the connection.
Break ==
    /\ open
    /\ open' = FALSE
    /\ \E d \in Remains(wire["dialer"]), l \in Remains(wire["listener"]) :
        wire' = [s \in Side |-> IF s = "dialer" THEN d ELSE l]
    /\ UNCHANGED <<conf, self, full, pc, prot, using, defined, known, parcels, garbled, refused>>

\* A parcel in each protocol.  In hs only the version matters, which 9 writes into
\* the header.
V9Send(s) == Gob(using[s], "V9Msg", NewHandshake(s, 9))
V10Send(s) == Gob(using[s], "V10Msg", NewHandshake(s, 10))
V11Send(s) == Pbuf(NewHandshake(s, 11))

\* A peer's send loop writes a parcel; one each is enough to see a bad stream.
SendParcel(s) ==
    /\ pc[s] = "peer"
    /\ open
    /\ parcels[s] = 0
    /\ wire' = [wire EXCEPT ![Other(s)] =
           Append(@, CASE prot[s] = 9 -> V9Send(s) [] prot[s] = 10 -> V10Send(s)
                       [] prot[s] = 11 -> V11Send(s))]
    /\ defined' = Defines(prot[s], using[s], IF prot[s] = 9 THEN "V9Msg" ELSE "V10Msg")
    /\ parcels' = [parcels EXCEPT ![s] = 1]
    /\ UNCHANGED <<conf, self, full, pc, prot, using, known, open, garbled, refused>>

\* writeMessage of protocol 11 refuses a parcel over V11MaxParcelSize: the send
\* loop ends, and stops the peer.
SendTooLarge(s) ==
    /\ pc[s] = "peer"
    /\ prot[s] = 11
    /\ pc' = [pc EXCEPT ![s] = "stopped"]
    /\ open' = FALSE
    /\ UNCHANGED <<conf, self, full, prot, using, defined, known, wire, parcels, garbled, refused>>

\* Whether a protocol gets back the parcel that was sent: 9 looks at the version in
\* the header.
V9Receive(m) == m.go = "V9Msg" /\ m.hs.version = 9
V10Receive(m) == m.go = "V10Msg"
V11Receive(m) == m.go = "V11Msg"

Readable(s, m) ==
    /\ Decodes(s, m)
    /\ prot[s] = 9 => V9Receive(m)
    /\ prot[s] = 10 => V10Receive(m)
    /\ prot[s] = 11 => V11Receive(m)

\* A peer's read loop: it stops on an error, and on a closed connection once it
\* has read what had arrived.
ReadParcel(s) ==
    /\ pc[s] = "peer"
    /\ wire[s] # <<>>
    /\ wire' = [wire EXCEPT ![s] = Tail(@)]
    /\ known' = Learns(s, Head(wire[s]))
    /\ IF Readable(s, Head(wire[s]))
         THEN UNCHANGED <<pc, open, garbled>>
         ELSE /\ pc' = [pc EXCEPT ![s] = "stopped"]
              /\ open' = FALSE
              /\ garbled' = (garbled \/ Head(wire[s]).whole)
    /\ UNCHANGED <<conf, self, full, prot, using, defined, parcels, refused>>

\* A peer's loops find the connection closed, and stop it.
ReadFails(s) ==
    /\ pc[s] = "peer"
    /\ ~open
    /\ wire[s] = <<>>
    /\ pc' = [pc EXCEPT ![s] = "stopped"]
    /\ UNCHANGED <<conf, self, full, prot, using, defined, known, wire, open, parcels, garbled, refused>>

Next ==
    \/ DialerSend
    \/ DialerReads
    \/ ListenerRejects
    \/ ListenerReads
    \/ Break
    \/ \E s \in Side : TimedOut(s) \/ SendParcel(s) \/ SendTooLarge(s)
                      \/ ReadParcel(s) \/ ReadFails(s)

Spec == Init /\ [][Next]_vars

\* The read loops run; nothing forces the connection to break, a peer to send, or a
\* handshake to go on.
FairSpec ==
    /\ Spec
    /\ \A s \in Side : WF_vars(ReadParcel(s)) /\ WF_vars(ReadFails(s))

-----------------------------------------------------------------------------
\* When both ends have a peer, they speak the same protocol, whatever versions
\* they are configured for: the listener's downgrade from 10 to 9 reaches the
\* dialer with the version of the reply (controller_connections.go,
\* detectProtocolFromFirstMessage and handshakeIncoming).
SameProtocol ==
    (\A s \in Side : prot[s] # 0) => prot["dialer"] = prot["listener"]

\* No end gets a peer that speaks a version below its own minimum or that belongs
\* to another network, also after a downgrade (handshake.go, Valid); but a node
\* whose minimum is above its version, which Check accepts, may get one with its
\* own version.
PeersCompatible ==
    \A s \in Side : prot[s] # 0 =>
        /\ prot[s] >= conf[s].min \/ prot[s] = conf[s].version
        /\ conf[Other(s)].network = conf[s].network

\* The first parcels can be read by the other end.  This is what the exchange of
\* encoders is for: a fresh encoder would define V9Msg a second time
\* (controller_connections.go, handshakeOutgoing, "would try to register it again").
StreamReadable == ~garbled

\* The protocol that a dialer and a listener should speak: the dialer's own, but 9
\* with a listener that is configured for 9 and not spoken to in 11.
Common(d, l) == IF d.version = 10 /\ l.version = 9 THEN 9 ELSE d.version

\* A handshake that arrives is turned down only by a node that should: one of
\* another network, one with a minimum version above the protocol the two have in
\* common, or one that is told a listen port out of range, which Check lets a node
\* start with.  So every pair of compatible nodes connects, across all versions and
\* downgrades (controller_connections.go, detectProtocolFromFirstMessage;
\* handshake.go, Valid).
NoSpuriousRefusal ==
    \A s \in refused :
        \/ conf["dialer"].network # conf["listener"].network
        \/ Common(conf["dialer"], conf["listener"]) < conf[s].min
        \/ ~InRange(conf[Other(s)].port)

\* A node that dials itself never gets an outgoing peer
\* (controller_connections.go, handshakeOutgoing, the loopback test).
NoSelfPeer == self => pc["dialer"] # "peer"

\* A peer whose other end failed the handshake or stopped is stopped as well, so
\* that the listener does not keep a peer the dialer has refused
\* (controller_connections.go, handshakeOutgoing, failfunc; peer.go, readLoop).
HalfOpenEnds ==
    \A s \in Side :
        (pc[s] = "peer" /\ pc[Other(s)] \in {"failed", "stopped"}) ~> pc[s] = "stopped"

=============================================================================
