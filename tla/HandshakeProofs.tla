--------------------------- MODULE HandshakeProofs --------------------------
(***************************************************************************)
(* Two nodes that connect agree on a protocol, across all versions,        *)
(* minimum versions and downgrades, and understand each other's first      *)
(* parcels, for any set of networks and wherever the connection breaks.    *)
(***************************************************************************)
EXTENDS Handshake, SequenceTheorems, TLAPS

GoStruct == {"V9Msg", "V10Msg", "V11Msg"}

Hs == [version : Version, network : Network, type : {"Handshake", "PeerRequest", "Reject"},
       port : Port, loopback : {0, 1, 2}, alts : {"none", "valid", "invalid"}]

Msg == [form : {"gob", "pbuf"}, whole : BOOLEAN, go : GoStruct, def : BOOLEAN, hs : Hs]

HsTypeOK ==
    /\ conf \in [Side -> Config]
    /\ self \in BOOLEAN
    /\ full \in BOOLEAN
    /\ pc \in [Side -> {"start", "wait", "peer", "failed", "stopped"}]
    /\ prot \in [Side -> {0, 9, 10, 11}]
    /\ using \in [Side -> Encoder]
    /\ defined \in [Encoder -> SUBSET GoStruct]
    /\ known \in [Side -> SUBSET GoStruct]
    /\ wire \in [Side -> Seq(Msg)]
    /\ open \in BOOLEAN
    /\ parcels \in [Side -> {0, 1}]
    /\ garbled \in BOOLEAN
    /\ refused \subseteq Side

\* The protocol the two sides should speak.
Agreed == Common(conf["dialer"], conf["listener"])

\* The messages that may be seen, cut short or whole: the first handshake of a side
\* in protocol p, the dialer's, the listener's answer to it, and a side's parcel.
Form(p) == IF p = 11 THEN "pbuf" ELSE "gob"

Packet(form, whole, go, def, hs) ==
    [form |-> form, whole |-> whole, go |-> go, def |-> def, hs |-> hs]

Greeting(version, network, type, port, loopback) ==
    [version |-> version, network |-> network, type |-> type, port |-> port,
     loopback |-> loopback, alts |-> "none"]

\* Named, so that the provers take the two for values.
Yes == TRUE
No == FALSE

HelloGo(p) == IF p = 11 THEN "V11Msg" ELSE "V9Msg"
HelloType(p) == IF p = 9 THEN "PeerRequest" ELSE "Handshake"
HelloDef(p) == IF p = 11 THEN No ELSE Yes

HelloHs(s, p) ==
    Greeting(p, conf[s].network, HelloType(p), conf[s].port, InstanceID(s))

Hello(s, p, w) == Packet(Form(p), w, HelloGo(p), HelloDef(p), HelloHs(s, p))

First(w) == Hello("dialer", conf["dialer"].version, w)

Answer(w) == Hello("listener", Agreed, w)

ParcelGo(p) == IF p = 11 THEN "V11Msg" ELSE IF p = 10 THEN "V10Msg" ELSE "V9Msg"

ParcelDef(p) == IF p = 10 THEN Yes ELSE No

Parcel(s, w) ==
    Packet(Form(Agreed), w, ParcelGo(Agreed), ParcelDef(Agreed), NewHandshake(s, Agreed))

\* The definitions a handshake in protocol p leaves behind, on both sides.
Base(p) == IF p = 11 THEN {} ELSE {"V9Msg"}

-----------------------------------------------------------------------------
(* What makes the properties inductive. *)

\* How far the two sides have come: both may only have a peer with the agreed
\* protocol, the dialer after the listener, and whoever gives up closes.
Control ==
    /\ \A s \in Side :
        /\ prot[s] \in {0, Agreed}
        /\ pc[s] = "peer" => prot[s] # 0
        /\ prot[s] # 0 => pc[s] \in {"peer", "stopped"}
        /\ parcels[s] # 0 => prot[s] # 0
        /\ open => pc[s] \notin {"failed", "stopped"}
    /\ prot["dialer"] # 0 => prot["listener"] # 0 /\ ~self
    /\ pc["listener"] # "start"

\* What the validity checks have established.
Compatible ==
    /\ prot["listener"] # 0 =>
        /\ conf["dialer"].version >= conf["listener"].min
        /\ conf["dialer"].network = conf["listener"].network
    /\ prot["dialer"] # 0 => Agreed >= conf["dialer"].min

\* What the encoders have sent and the decoders have learnt, before the parcels.
Encoders ==
    /\ pc["dialer"] = "start" => defined["dialer"] = {}
    /\ pc["dialer"] = "wait" => defined["dialer"] = Base(conf["dialer"].version)
    /\ pc["dialer"] \in {"start", "wait"} => known["dialer"] = {}
    /\ prot["dialer"] = 0 => defined["redetected"] = {}
    /\ prot["dialer"] # 0 /\ parcels["dialer"] = 0 =>
        /\ using["dialer"] = IF Agreed = 9 THEN "dialer" ELSE "redetected"
        /\ defined[using["dialer"]] = IF Agreed = 9 THEN {"V9Msg"} ELSE {}
    /\ pc["listener"] = "wait" => defined["listener"] = {} /\ known["listener"] = {}
    /\ prot["listener"] # 0 /\ parcels["listener"] = 0 =>
        using["listener"] = "listener" /\ defined["listener"] = Base(Agreed)
    /\ \A s \in Side :
        prot[s] # 0 /\ (parcels[Other(s)] = 0 \/ wire[s] # <<>>) => known[s] = Base(Agreed)

\* A parcel of the other side is all that a peer may find on the wire.
ParcelWire(s) ==
    \/ wire[s] = <<>>
    \/ parcels[Other(s)] = 1 /\ \E w \in BOOLEAN : wire[s] = <<Parcel(Other(s), w)>>

ListenerWire ==
    /\ pc["dialer"] = "start" => wire["listener"] = <<>>
    /\ pc["listener"] = "wait" =>
        /\ wire["dialer"] = <<>>
        /\ wire["listener"] = <<>> \/ \E w \in BOOLEAN : wire["listener"] = <<First(w)>>
    /\ prot["listener"] # 0 => ParcelWire("listener")

DialerWire ==
    /\ pc["dialer"] \in {"start", "wait"} /\ prot["listener"] = 0 =>
        wire["dialer"] = <<>> \/ \E m \in Msg : m.hs.type = "Reject" /\ wire["dialer"] = <<m>>
    /\ pc["dialer"] \in {"start", "wait"} /\ prot["listener"] # 0 =>
        /\ pc["dialer"] = "wait"
        /\ \/ wire["dialer"] = <<>> /\ ~open
           \/ \E w \in BOOLEAN :
                /\ wire["dialer"] = <<Answer(w)>>
                /\ open => w /\ parcels["listener"] = 0
           \/ \E w \in BOOLEAN :
                /\ wire["dialer"] = <<Answer(Yes), Parcel("listener", w)>>
                /\ parcels["listener"] = 1
    /\ prot["dialer"] # 0 => ParcelWire("dialer")

HsInv ==
    /\ HsTypeOK
    /\ Control
    /\ Compatible
    /\ Encoders
    /\ ListenerWire
    /\ DialerWire
    /\ StreamReadable
    /\ NoSpuriousRefusal

-----------------------------------------------------------------------------
(* Queues of at most two messages. *)
LEMMA OneOrTwo ==
    ASSUME NEW S, NEW a \in S, NEW b \in S, NEW q \in Seq(S)
    PROVE  /\ <<a>> \in Seq(S) /\ <<a, b>> \in Seq(S)
           /\ Len(q) = 0 => q = <<>>
           /\ Len(q) = 1 /\ q[1] = a => q = <<a>>
           /\ Len(q) = 2 /\ q[1] = a /\ q[2] = b => q = <<a, b>>
  <1>1. /\ <<a>> \in Seq(S) /\ <<a, b>> \in Seq(S)
        /\ Len(<<a>>) = 1 /\ Len(<<a, b>>) = 2
        /\ <<a>>[1] = a /\ <<a, b>>[1] = a /\ <<a, b>>[2] = b
    OBVIOUS
  <1>2. Len(q) = 0 => q = <<>>
    BY EmptySeq
  <1>3. ASSUME Len(q) = 1, q[1] = a PROVE q = <<a>>
    <2>1. \A i \in 1..Len(q) : q[i] = <<a>>[i]
      BY <1>3
    <2> QED
      BY <1>1, <1>3, <2>1, SeqEqual
  <1>4. ASSUME Len(q) = 2, q[1] = a, q[2] = b PROVE q = <<a, b>>
    <2>1. \A i \in 1..Len(q) : i = 1 \/ i = 2
      BY <1>4
    <2>2. \A i \in 1..Len(q) : q[i] = <<a, b>>[i]
      BY <1>1, <1>4, <2>1
    <2> QED
      BY <1>1, <1>4, <2>2, SeqEqual
  <1> QED
    BY <1>1, <1>2, <1>3, <1>4

LEMMA Queues ==
    ASSUME NEW S, NEW a \in S, NEW b \in S
    PROVE  /\ <<>> \in Seq(S) /\ <<a>> \in Seq(S) /\ <<a, b>> \in Seq(S)
           /\ <<a>> # <<>> /\ <<a, b>> # <<>>
           /\ Head(<<a>>) = a /\ Tail(<<a>>) = <<>>
           /\ Head(<<a, b>>) = a /\ Tail(<<a, b>>) = <<b>>
           /\ Append(<<>>, a) = <<a>> /\ Append(<<a>>, b) = <<a, b>>
  <1>1. /\ <<>> \in Seq(S) /\ <<a>> \in Seq(S) /\ <<a, b>> \in Seq(S)
        /\ <<a>> # <<>> /\ <<a, b>> # <<>>
    OBVIOUS
  <1>2. Head(<<a>>) = a /\ Head(<<a, b>>) = a
    OBVIOUS
  <1>3. Tail(<<a>>) = <<>>
    OBVIOUS
  <1>4. Tail(<<a, b>>) = <<b>>
    OBVIOUS
  <1>5. Append(<<>>, a) = <<a>>
    OBVIOUS
  <1>6. Append(<<a>>, b) = <<a, b>>
    <2>1. /\ Append(<<a>>, b) \in Seq(S)
          /\ Len(Append(<<a>>, b)) = Len(<<a>>) + 1
          /\ Append(<<a>>, b)[Len(<<a>>) + 1] = b
          /\ \A i \in 1..Len(<<a>>) : Append(<<a>>, b)[i] = <<a>>[i]
      BY <1>1, AppendProperties
    <2>2. Len(<<a>>) = 1 /\ <<a>>[1] = a /\ 1 \in 1..1
      OBVIOUS
    <2> DEFINE q == Append(<<a>>, b)
    <2>3. q \in Seq(S) /\ Len(q) = 2 /\ q[1] = a /\ q[2] = b
      BY <2>1, <2>2
    <2> HIDE DEF q
    <2>4. q = <<a, b>>
      BY <2>3, OneOrTwo
    <2> QED
      BY <2>4 DEF q
  <1> QED
    BY <1>1, <1>2, <1>3, <1>4, <1>5, <1>6

Cut(m) == [m EXCEPT !.whole = FALSE]

LEMMA RemainsOfNone == \A q \in Remains(<<>>) : q = <<>>
  BY DEF Remains

LEMMA RemainsOfOne ==
    ASSUME NEW a \in Msg
    PROVE  \A q \in Remains(<<a>>) : q \in {<<>>, <<a>>, <<Cut(a)>>}
  BY DEF Remains, Cut

LEMMA RemainsOfTwo ==
    ASSUME NEW a \in Msg, NEW b \in Msg
    PROVE  \A q \in Remains(<<a, b>>) :
               q \in {<<>>, <<a>>, <<Cut(a)>>, <<a, b>>, <<a, Cut(b)>>}
  <1> DEFINE w == <<a, b>>
  <1>1. /\ Len(w) = 2 /\ 0..2 = {0, 1, 2} /\ 1..2 = {1, 2}
        /\ w[1] = a /\ w[2] = b
    OBVIOUS
  <1>2. Cut(a) \in Msg /\ Cut(b) \in Msg
    BY DEF Cut, Msg
  <1> HIDE DEF w
  <1>3. SubSeq(w, 1, 0) = <<>>
    BY SubSeqEmpty
  <1>4. SubSeq(w, 1, 1) = <<a>>
    <2> DEFINE q == SubSeq(w, 1, 1)
    <2>1. \A i \in 1..1 : w[i] \in Msg
      BY <1>1
    <2>2. q \in Seq(Msg) /\ Len(q) = 1 /\ q[1] = w[1]
      BY <2>1, SubSeqProperties
    <2> QED
      BY <1>1, <2>2, OneOrTwo
  <1>5. SubSeq(w, 1, 2) = <<a, b>>
    <2> DEFINE q == SubSeq(w, 1, 2)
    <2>1. \A i \in 1..2 : w[i] \in Msg
      BY <1>1
    <2>2. q \in Seq(Msg) /\ Len(q) = 2 /\ q[1] = w[1] /\ q[2] = w[2]
      BY <2>1, SubSeqProperties
    <2> HIDE DEF q
    <2>3. q = <<a, b>>
      BY <1>1, <2>2, OneOrTwo
    <2> QED
      BY <2>3 DEF q
  <1>6. 1 - 1 = 0 /\ 2 - 1 = 1
    OBVIOUS
  <1>7. [w[1] EXCEPT !.whole = FALSE] = Cut(a) /\ [w[2] EXCEPT !.whole = FALSE] = Cut(b)
    BY <1>1 DEF Cut
  <1>8. Append(<<>>, Cut(a)) = <<Cut(a)>> /\ Append(<<a>>, Cut(b)) = <<a, Cut(b)>>
    BY <1>2, Queues
  <1>9. ASSUME NEW q \in Remains(w)
        PROVE  q \in {<<>>, <<a>>, <<Cut(a)>>, <<a, b>>, <<a, Cut(b)>>}
    <2>1. ASSUME NEW k \in {0, 1, 2}, q = SubSeq(w, 1, k)
          PROVE  q \in {<<>>, <<a>>, <<a, b>>}
      BY <1>3, <1>4, <1>5, <2>1
    <2>2. ASSUME NEW k \in {1, 2},
                 q = Append(SubSeq(w, 1, k - 1), [w[k] EXCEPT !.whole = FALSE])
          PROVE  q \in {<<Cut(a)>>, <<a, Cut(b)>>}
      <3>1. CASE k = 1
        BY <1>3, <1>6, <1>7, <1>8, <2>2, <3>1
      <3>2. CASE k = 2
        BY <1>4, <1>6, <1>7, <1>8, <2>2, <3>2
      <3> QED
        BY <3>1, <3>2
    <2> QED
      BY <1>1, <2>1, <2>2 DEF Remains
  <1> QED
    BY <1>9 DEF w

-----------------------------------------------------------------------------
(* The messages. *)
LEMMA Versions ==
    ASSUME HsTypeOK
    PROVE  LET v == conf["dialer"].version
           IN  /\ v \in Version /\ Agreed \in Version
               /\ Agreed = 11 <=> v = 11
               /\ Agreed = 10 => v = 10 /\ conf["listener"].version # 9
               /\ v = 10 /\ conf["listener"].version = 9 => Agreed = 9
               /\ ~(v = 10 /\ conf["listener"].version = 9) => Agreed = v
  BY DEF HsTypeOK, Config, Version, Side, Agreed, Common

LEMMA Fixed ==
    ASSUME UNCHANGED <<conf, self>>
    PROVE  /\ Agreed' = Agreed
           /\ \A w : First(w)' = First(w) /\ Answer(w)' = Answer(w)
           /\ \A s, w : Parcel(s, w)' = Parcel(s, w)
  BY DEF Agreed, First, Answer, Parcel, Hello, HelloHs, NewHandshake, InstanceID

LEMMA PacketFields ==
    ASSUME NEW f, NEW w, NEW g, NEW d, NEW h, NEW u
    PROVE  /\ Packet(f, w, g, d, h).form = f
           /\ Packet(f, w, g, d, h).whole = w
           /\ Packet(f, w, g, d, h).go = g
           /\ Packet(f, w, g, d, h).def = d
           /\ Packet(f, w, g, d, h).hs = h
           /\ [Packet(f, w, g, d, h) EXCEPT !.whole = u] = Packet(f, u, g, d, h)
  BY DEF Packet

LEMMA GreetingFields ==
    ASSUME NEW v, NEW n, NEW t, NEW q, NEW l, NEW u
    PROVE  /\ Greeting(v, n, t, q, l).version = v
           /\ Greeting(v, n, t, q, l).network = n
           /\ Greeting(v, n, t, q, l).type = t
           /\ Greeting(v, n, t, q, l).port = q
           /\ Greeting(v, n, t, q, l).loopback = l
           /\ Greeting(v, n, t, q, l).alts = "none"
           /\ [Greeting(v, n, t, q, l) EXCEPT !.type = u] = Greeting(v, n, u, q, l)
  BY DEF Greeting

LEMMA PacketIsMsg ==
    ASSUME NEW f \in {"gob", "pbuf"}, NEW w \in BOOLEAN, NEW g \in GoStruct,
           NEW d \in BOOLEAN, NEW h \in Hs
    PROVE  Packet(f, w, g, d, h) \in Msg
  BY DEF Packet, Msg

LEMMA GreetingIsHs ==
    ASSUME HsTypeOK, NEW s \in Side, NEW v \in Version,
           NEW t \in {"Handshake", "PeerRequest", "Reject"}, NEW l \in {0, 1, 2}
    PROVE  Greeting(v, conf[s].network, t, conf[s].port, l) \in Hs
  BY DEF Greeting, Hs, HsTypeOK, Config

LEMMA Greets ==
    \A s, v : NewHandshake(s, v) =
                  Greeting(v, conf[s].network, "Handshake", conf[s].port, InstanceID(s))
  BY DEF NewHandshake, Greeting

LEMMA CutPacket ==
    ASSUME NEW f, NEW w, NEW g, NEW d, NEW h
    PROVE  Cut(Packet(f, w, g, d, h)) = Packet(f, No, g, d, h)
  <1>1. [Packet(f, w, g, d, h) EXCEPT !.whole = No] = Packet(f, No, g, d, h)
    BY PacketFields
  <1> QED
    BY <1>1, Zenon DEF No, Cut

LEMMA HelloIsMsg ==
    ASSUME HsTypeOK, NEW s \in Side, NEW p \in Version, NEW w \in BOOLEAN
    PROVE  /\ Hello(s, p, w) \in Msg
           /\ Hello(s, p, w).whole = w
           /\ Hello(s, p, w).hs.type # "Reject"
           /\ Hello(s, p, w).hs.loopback = InstanceID(s)
           /\ Cut(Hello(s, p, w)) = Hello(s, p, No)
  <1>1. Hello(s, p, w) \in Msg
    <2>1. /\ InstanceID(s) \in {0, 1, 2}
          /\ HelloType(p) \in {"Handshake", "PeerRequest", "Reject"}
          /\ Form(p) \in {"gob", "pbuf"}
          /\ HelloGo(p) \in GoStruct
      BY DEF InstanceID, HelloType, Form, HelloGo, GoStruct
    <2>2. Yes \in BOOLEAN /\ No \in BOOLEAN
      BY DEF Yes, No
    <2>3. HelloDef(p) \in BOOLEAN
      BY <2>2 DEF HelloDef
    <2>4. HelloHs(s, p) \in Hs
      BY <2>1, <2>2, GreetingIsHs DEF HelloHs
    <2> QED
      BY <2>1, <2>3, <2>4, PacketIsMsg DEF Hello
  <1>2. Hello(s, p, w).whole = w /\ Hello(s, p, w).hs = HelloHs(s, p)
    BY PacketFields DEF Hello
  <1>3. HelloHs(s, p).type # "Reject" /\ HelloHs(s, p).loopback = InstanceID(s)
    BY GreetingFields DEF HelloHs, HelloType
  <1>4. Cut(Hello(s, p, w)) = Hello(s, p, No)
    BY CutPacket DEF Hello
  <1> QED
    BY <1>1, <1>2, <1>3, <1>4

LEMMA Messages ==
    ASSUME HsTypeOK, NEW w \in BOOLEAN
    PROVE  /\ First(w) \in Msg /\ Answer(w) \in Msg
           /\ First(w).whole = w /\ Answer(w).whole = w
           /\ First(w).hs.type # "Reject" /\ Answer(w).hs.type # "Reject"
           /\ Answer(w).hs.loopback = InstanceID("listener")
           /\ Cut(First(w)) = First(No) /\ Cut(Answer(w)) = Answer(No)
  BY Versions, HelloIsMsg DEF First, Answer, Side

LEMMA ParcelIsMsg ==
    ASSUME HsTypeOK, NEW s \in Side, NEW w \in BOOLEAN
    PROVE  /\ Parcel(s, w) \in Msg
           /\ Parcel(s, w).whole = w
           /\ Cut(Parcel(s, w)) = Parcel(s, No)
  <1>1. Parcel(s, w) \in Msg
    <2>1. InstanceID(s) \in {0, 1, 2} /\ Agreed \in Version
      BY Versions DEF InstanceID
    <2>2. Yes \in BOOLEAN /\ No \in BOOLEAN
      BY DEF Yes, No
    <2>3. NewHandshake(s, Agreed) \in Hs
      BY <2>1, <2>2, Greets, GreetingIsHs
    <2>4. /\ Form(Agreed) \in {"gob", "pbuf"}
          /\ ParcelGo(Agreed) \in GoStruct
          /\ ParcelDef(Agreed) \in BOOLEAN
      BY <2>2 DEF Form, GoStruct, ParcelGo, ParcelDef
    <2> QED
      BY <2>3, <2>4, PacketIsMsg DEF Parcel
  <1>2. Parcel(s, w).whole = w
    BY PacketFields DEF Parcel
  <1>3. Cut(Parcel(s, w)) = Parcel(s, No)
    BY CutPacket DEF Parcel
  <1> QED
    BY <1>1, <1>2, <1>3

(* The reply to a node's first message, with an encoder that has sent nothing. *)
LEMMA EncodeHello ==
    ASSUME HsTypeOK, NEW s \in Side, defined[s] = {}, NEW p \in Version
    PROVE  /\ Encode(p, s, NewHandshake(s, p)) = Hello(s, p, Yes)
           /\ Defines(p, s, "V9Msg") = [defined EXCEPT ![s] = Base(p)]
  <1>1. Encode(p, s, NewHandshake(s, p)) = Hello(s, p, Yes)
    <2> DEFINE h(t) == Greeting(p, conf[s].network, t, conf[s].port, InstanceID(s))
    <2>1. /\ NewHandshake(s, p) = h("Handshake")
          /\ HelloHs(s, p) = h(HelloType(p))
      BY Greets DEF HelloHs
    <2>2. /\ h("Handshake").type = "Handshake"
          /\ [h("Handshake") EXCEPT !.type = "PeerRequest"] = h("PeerRequest")
      BY GreetingFields
    <2> HIDE DEF h
    <2>3. \A x : Gob(s, "V9Msg", x) = Packet("gob", Yes, "V9Msg", Yes, x)
      <3>1. ("V9Msg" \notin defined[s]) = TRUE
        OBVIOUS
      <3> QED
        BY <3>1, Zenon DEF Gob, Packet, Yes
    <2>4. \A x : Pbuf(x) = Packet("pbuf", Yes, "V11Msg", No, x)
      BY Zenon DEF Pbuf, Packet, Yes, No
    <2>5. Encode(p, s, NewHandshake(s, p)) =
            IF p = 11 THEN Packet("pbuf", Yes, "V11Msg", No, h("Handshake"))
            ELSE Packet("gob", Yes, "V9Msg", Yes, h(HelloType(p)))
      <3>1. CASE p = 9
        BY <2>1, <2>2, <2>3, <3>1 DEF Encode, V9SendHandshake, HelloType
      <3>2. CASE p = 10
        BY <2>1, <2>3, <3>2 DEF Encode, V9SendHandshake, HelloType
      <3>3. CASE p = 11
        BY <2>1, <2>4, <3>3 DEF Encode, V11SendHandshake, HelloType
      <3> QED
        BY <3>1, <3>2, <3>3 DEF Version
    <2> QED
      BY <2>1, <2>5 DEF Hello, Form, HelloGo, HelloDef, HelloType
  <1>2. Defines(p, s, "V9Msg") = [defined EXCEPT ![s] = Base(p)]
    BY DEF Defines, Base, HsTypeOK, Side, Encoder
  <1> QED
    BY <1>1, <1>2

(* What a side that has learnt nothing finds in the other's first message. *)
LEMMA DetectHello ==
    ASSUME HsTypeOK, NEW s \in Side, NEW t \in Side, known[s] = {},
           NEW p \in Version, NEW w \in BOOLEAN
    PROVE  LET m == Hello(t, p, w)
           IN  /\ Detect(s, m) = IF w /\ Valid(conf[s], m.hs)
                                   THEN IF p = 10 /\ conf[s].version = 9 THEN 9 ELSE p
                                   ELSE 0
               /\ Learns(s, m) = [known EXCEPT ![s] = Base(p)]
               /\ Valid(conf[s], m.hs) <=>
                    /\ p >= conf[s].min
                    /\ conf[t].network = conf[s].network
                    /\ InRange(conf[t].port)
  <1> DEFINE m == Hello(t, p, w)
  <1>1. /\ m.form = Form(p) /\ m.whole = w /\ m.hs.version = p
        /\ m.hs.network = conf[t].network /\ m.hs.port = conf[t].port
        /\ m.hs.alts = "none"
        /\ m.hs.type # "Reject"
        /\ p # 11 => m.go = "V9Msg" /\ m.def
    <2>1. HelloDef(p) <=> p # 11
      BY DEF HelloDef, Yes, No
    <2> QED
      BY <2>1, PacketFields, GreetingFields DEF Hello, HelloHs, HelloType, HelloGo
  <1> HIDE DEF m
  <1>2. Parses(s, m) <=> w
    BY <1>1 DEF Parses, Form, V9ReadHandshake, V11ReadHandshake, GobDecodes, PbufDecodes
  <1>3. Detect(s, m) = IF w /\ Valid(conf[s], m.hs)
                         THEN IF p = 10 /\ conf[s].version = 9 THEN 9 ELSE p ELSE 0
    BY <1>1, <1>2 DEF Detect, Form, Version
  <1>4. Learns(s, m) = [known EXCEPT ![s] = Base(p)]
    BY <1>1 DEF Learns, Base, Form, HsTypeOK, Version
  <1>5. Valid(conf[s], m.hs) <=>
            /\ p >= conf[s].min
            /\ conf[t].network = conf[s].network
            /\ InRange(conf[t].port)
    BY <1>1 DEF Valid
  <1> QED
    BY <1>3, <1>4, <1>5 DEF m

(* A rejection, in whatever protocol. *)
LEMMA EncodeReject ==
    ASSUME HsTypeOK, NEW p \in Version, NEW a \in {"none", "valid", "invalid"}
    PROVE  LET h == [NewHandshake("listener", p) EXCEPT
                        !.type = "Reject", !.loopback = 0, !.alts = a]
           IN  /\ Encode(p, "listener", h) \in Msg
               /\ Encode(p, "listener", h).hs.type = "Reject"
  <1> DEFINE h == [NewHandshake("listener", p) EXCEPT
                        !.type = "Reject", !.loopback = 0, !.alts = a]
  <1>1. NewHandshake("listener", p) \in Hs
    <2>1. InstanceID("listener") \in {0, 1, 2}
      BY DEF InstanceID
    <2> QED
      BY <2>1, Greets, GreetingIsHs DEF Side
  <1>2. h \in Hs /\ h.type = "Reject"
    BY <1>1 DEF Hs
  <1> HIDE DEF h
  <1>3. Encode(p, "listener", h) = IF p = 11 THEN Pbuf(h) ELSE Gob("listener", "V9Msg", h)
    BY <1>2 DEF Encode, V11SendHandshake, V9SendHandshake
  <1>4. Pbuf(h) \in Msg /\ Pbuf(h).hs = h
    BY <1>2 DEF Pbuf, Msg, GoStruct
  <1>5. Gob("listener", "V9Msg", h) \in Msg /\ Gob("listener", "V9Msg", h).hs = h
    BY <1>2 DEF Gob, Msg, GoStruct
  <1> QED
    BY <1>2, <1>3, <1>4, <1>5 DEF h

(* The parcel a peer sends first. *)
LEMMA EncodeParcel ==
    ASSUME HsInv, NEW s \in Side, prot[s] # 0, parcels[s] = 0
    PROVE  (CASE prot[s] = 9 -> V9Send(s) [] prot[s] = 10 -> V10Send(s)
              [] prot[s] = 11 -> V11Send(s)) = Parcel(s, Yes)
  <1>1. prot[s] = Agreed /\ Agreed \in {9, 10, 11}
    BY Versions DEF HsInv, Control, Version
  <1>2. defined[using[s]] = IF Agreed = 9 THEN {"V9Msg"}
                            ELSE IF Agreed = 10 /\ s = "listener" THEN {"V9Msg"} ELSE {}
    BY <1>1 DEF HsInv, Encoders, Base, Side
  <1>3. CASE Agreed = 9
    <2>1. ("V9Msg" \notin defined[using[s]]) = FALSE
      BY <1>2, <1>3
    <2>2. V9Send(s) = Packet("gob", Yes, "V9Msg", No, NewHandshake(s, 9))
      BY <2>1, Zenon DEF V9Send, Gob, Packet, Yes, No
    <2> QED
      BY <1>1, <1>3, <2>2 DEF Parcel, Form, ParcelGo, ParcelDef
  <1>4. CASE Agreed = 10
    <2>1. ("V10Msg" \notin defined[using[s]]) = TRUE
      BY <1>2, <1>4
    <2>2. V10Send(s) = Packet("gob", Yes, "V10Msg", Yes, NewHandshake(s, 10))
      BY <2>1, Zenon DEF V10Send, Gob, Packet, Yes
    <2> QED
      BY <1>1, <1>4, <2>2 DEF Parcel, Form, ParcelGo, ParcelDef
  <1>5. CASE Agreed = 11
    <2>1. V11Send(s) = Packet("pbuf", Yes, "V11Msg", No, NewHandshake(s, 11))
      BY Zenon DEF V11Send, Pbuf, Packet, Yes, No
    <2> QED
      BY <1>1, <1>5, <2>1 DEF Parcel, Form, ParcelGo, ParcelDef
  <1> QED
    BY <1>1, <1>3, <1>4, <1>5

(* A peer that knows what the handshake defined can read a parcel that is whole. *)
LEMMA ReadableParcel ==
    ASSUME HsTypeOK, NEW s \in Side, NEW t \in Side, NEW w \in BOOLEAN,
           prot[s] = Agreed, known[s] = Base(Agreed)
    PROVE  Readable(s, Parcel(t, w)) <=> w
  <1> DEFINE m == Parcel(t, w)
  <1>1. Agreed \in {9, 10, 11}
    BY Versions DEF Version
  <1>2. /\ m.form = Form(Agreed) /\ m.whole = w /\ m.go = ParcelGo(Agreed)
        /\ m.def = ParcelDef(Agreed) /\ m.hs.version = Agreed
    BY PacketFields, GreetingFields, Greets DEF Parcel
  <1> HIDE DEF m
  <1>3. Decodes(s, m) <=> w
    <2>1. CASE Agreed = 9
      BY <1>2, <2>1 DEF Decodes, GobDecodes, Form, ParcelGo, ParcelDef, Base, No
    <2>2. CASE Agreed = 10
      BY <1>2, <2>2 DEF Decodes, GobDecodes, Form, ParcelGo, ParcelDef, Base, Yes
    <2>3. CASE Agreed = 11
      BY <1>2, <2>3 DEF Decodes, PbufDecodes, Form
    <2> QED
      BY <1>1, <2>1, <2>2, <2>3
  <1>4. Readable(s, m) <=> w
    BY <1>1, <1>2, <1>3 DEF Readable, V9Receive, V10Receive, V11Receive, ParcelGo
  <1> QED
    BY <1>4 DEF m

-----------------------------------------------------------------------------
(* The initial state and the steps. *)
LEMMA HsInitInv == Init => HsInv
  <1> SUFFICES ASSUME Init PROVE HsInv
    OBVIOUS
  <1>1. HsTypeOK
    <2>1. using \in [Side -> Encoder] /\ pc \in [Side -> {"start", "wait", "peer", "failed", "stopped"}]
      BY DEF Init, Side, Encoder
    <2>2. wire \in [Side -> Seq(Msg)] /\ parcels \in [Side -> {0, 1}]
      BY DEF Init
    <2> QED
      BY <2>1, <2>2 DEF Init, HsTypeOK
  <1>2. Control /\ Compatible
    BY DEF Init, Control, Compatible, Side
  <1>3. Encoders
    BY DEF Init, Encoders, Side, Encoder
  <1>4. ListenerWire /\ DialerWire
    BY DEF Init, ListenerWire, DialerWire, Side
  <1>5. StreamReadable /\ NoSpuriousRefusal
    BY DEF Init, StreamReadable, NoSpuriousRefusal
  <1> QED
    BY <1>1, <1>2, <1>3, <1>4, <1>5 DEF HsInv

(* What the names of the sides and the fixed configuration make of the invariant's *)
(* parts after a step.                                                             *)
LEMMA OtherSide ==
    /\ "dialer" \in Side /\ "listener" \in Side
    /\ Other("dialer") = "listener" /\ Other("listener") = "dialer"
    /\ \A s \in Side : s = "dialer" \/ s = "listener"
  BY DEF Side, Other

(* A side that is out stays out, and closes the connection. *)
LEMMA EndsInv ==
    ASSUME HsInv, NEW s \in Side, NEW x \in {"failed", "stopped"},
           prot[s] # 0 => x = "stopped",
           pc' = [pc EXCEPT ![s] = x], open' = FALSE,
           UNCHANGED <<conf, self, full, prot, using, defined, known, wire, parcels, garbled,
                       refused>>
    PROVE  HsInv'
  <1>1. HsTypeOK'
    BY DEF HsInv, HsTypeOK
  <1>2. \A t \in Side : pc'[t] = IF t = s THEN x ELSE pc[t]
    BY DEF HsInv, HsTypeOK
  <1>3. Agreed' = Agreed
    BY Fixed
  <1>4. Control' /\ Compatible'
    BY <1>2, <1>3, OtherSide DEF HsInv, Control, Compatible
  <1>5. Encoders'
    BY <1>2, <1>3, OtherSide DEF HsInv, Encoders, Base
  <1>6. ListenerWire'
    BY <1>2, Fixed, OtherSide DEF HsInv, ListenerWire, ParcelWire
  <1>7. DialerWire'
    BY <1>2, Fixed, OtherSide DEF HsInv, DialerWire, ParcelWire
  <1>8. StreamReadable' /\ NoSpuriousRefusal'
    BY DEF HsInv, StreamReadable, NoSpuriousRefusal
  <1> QED
    BY <1>1, <1>4, <1>5, <1>6, <1>7, <1>8 DEF HsInv

LEMMA TimedOutInv == ASSUME HsInv, NEW s \in Side, TimedOut(s) PROVE HsInv'
  <1>1. prot[s] = 0
    BY DEF HsInv, Control, TimedOut
  <1> QED
    BY <1>1, EndsInv DEF TimedOut, Fail

LEMMA SendTooLargeInv == ASSUME HsInv, NEW s \in Side, SendTooLarge(s) PROVE HsInv'
  BY EndsInv DEF SendTooLarge

LEMMA ReadFailsInv == ASSUME HsInv, NEW s \in Side, ReadFails(s) PROVE HsInv'
  <1>1. open' = FALSE
    BY DEF HsInv, HsTypeOK, ReadFails
  <1> QED
    BY <1>1, EndsInv DEF ReadFails

LEMMA DialerSendInv == ASSUME HsInv, DialerSend PROVE HsInv'
  <1> DEFINE v == conf["dialer"].version
  <1>1. /\ pc["dialer"] = "start" /\ open /\ prot["dialer"] = 0 /\ prot["listener"] = 0
        /\ wire["listener"] = <<>> /\ defined["dialer"] = {}
        /\ pc["listener"] = "wait" /\ parcels["dialer"] = 0
    BY OtherSide DEF HsInv, Control, HsTypeOK, Encoders, ListenerWire, DialerWire, DialerSend
  <1>2. /\ Encode(v, "dialer", NewHandshake("dialer", v)) = First(Yes)
        /\ Defines(v, "dialer", "V9Msg") = [defined EXCEPT !["dialer"] = Base(v)]
    BY <1>1, EncodeHello, Versions, OtherSide DEF First, HsInv
  <1>3. First(Yes) \in Msg /\ Yes \in BOOLEAN
    BY Messages DEF Yes, HsInv
  <1>4. wire' = [wire EXCEPT !["listener"] = <<First(Yes)>>]
    BY <1>1, <1>2, <1>3, Queues DEF DialerSend
  <1>5. /\ wire'["listener"] = <<First(Yes)>> /\ wire'["dialer"] = wire["dialer"]
        /\ <<First(Yes)>> \in Seq(Msg)
        /\ pc'["dialer"] = "wait" /\ pc'["listener"] = "wait"
        /\ \A e \in Encoder : defined'[e] = IF e = "dialer" THEN Base(v) ELSE defined[e]
    BY <1>1, <1>2, <1>3, <1>4, Queues, OtherSide DEF HsInv, HsTypeOK, DialerSend
  <1>6. HsTypeOK'
    <2>1. wire' \in [Side -> Seq(Msg)]
      BY <1>4, <1>5 DEF HsInv, HsTypeOK
    <2>2. defined' \in [Encoder -> SUBSET GoStruct]
      BY <1>2 DEF HsInv, HsTypeOK, DialerSend, Base, GoStruct
    <2> QED
      BY <2>1, <2>2 DEF HsInv, HsTypeOK, DialerSend
  <1>7. Agreed' = Agreed /\ \A w : First(w)' = First(w)
    BY Fixed DEF DialerSend
  <1>8. Control' /\ Compatible'
    BY <1>1, <1>5, <1>7, OtherSide DEF HsInv, Control, Compatible, DialerSend
  <1>9. Encoders'
    BY <1>1, <1>5, <1>7, OtherSide DEF HsInv, Encoders, Base, DialerSend, Encoder
  <1>10. ListenerWire'
    BY <1>1, <1>3, <1>5, <1>7 DEF HsInv, ListenerWire, DialerSend
  <1>11. DialerWire'
    BY <1>1, <1>5, <1>7 DEF HsInv, DialerWire, DialerSend
  <1>12. StreamReadable' /\ NoSpuriousRefusal'
    BY DEF HsInv, StreamReadable, NoSpuriousRefusal, DialerSend
  <1> QED
    BY <1>6, <1>8, <1>9, <1>10, <1>11, <1>12 DEF HsInv

(* A side that gives up on the message it reads. *)
LEMMA FailInv ==
    ASSUME HsInv, NEW s \in Side, pc[s] = "wait", wire[s] # <<>>, Fail(s),
           wire' = [wire EXCEPT ![s] = Tail(@)],
           known' \in [Side -> SUBSET GoStruct], known'[Other(s)] = known[Other(s)],
           refused' \subseteq Side, NoSpuriousRefusal',
           UNCHANGED <<conf, self, full, parcels, garbled>>
    PROVE  HsInv'
  <1>1. HsTypeOK'
    <2>1. Tail(wire[s]) \in Seq(Msg)
      BY HeadTailProperties DEF HsInv, HsTypeOK
    <2>2. wire' \in [Side -> Seq(Msg)]
      BY <2>1 DEF HsInv, HsTypeOK
    <2> QED
      BY <2>2 DEF HsInv, HsTypeOK, Fail
  <1>2. \A t \in Side : /\ pc'[t] = IF t = s THEN "failed" ELSE pc[t]
                        /\ t # s => wire'[t] = wire[t]
    BY DEF HsInv, HsTypeOK, Fail
  <1>3. Agreed' = Agreed
    BY Fixed
  <1>4. /\ prot[s] = 0 /\ parcels[s] = 0
        /\ s = "dialer" => pc["listener"] # "wait"
        /\ s = "listener" => pc["dialer"] # "start"
    BY OtherSide DEF HsInv, HsTypeOK, Control, ListenerWire
  <1>5. Control' /\ Compatible'
    BY <1>2, <1>3, <1>4, OtherSide DEF HsInv, Control, Compatible, Fail
  <1>6. Encoders'
    BY <1>2, <1>3, <1>4, OtherSide DEF HsInv, Encoders, Base, Fail
  <1>7. ListenerWire'
    BY <1>2, <1>4, Fixed, OtherSide DEF HsInv, ListenerWire, ParcelWire, Fail
  <1>8. DialerWire'
    BY <1>2, <1>4, Fixed, OtherSide DEF HsInv, DialerWire, ParcelWire, Fail
  <1>9. StreamReadable'
    BY DEF HsInv, StreamReadable
  <1> QED
    BY <1>1, <1>5, <1>6, <1>7, <1>8, <1>9 DEF HsInv

LEMMA ListenerRejectsInv == ASSUME HsInv, ListenerRejects PROVE HsInv'
  <1> DEFINE v == conf["listener"].version
  <1>1. PICK a \in {"none", "valid", "invalid"} :
            LET h == [NewHandshake("listener", v) EXCEPT
                        !.type = "Reject", !.loopback = 0, !.alts = a]
            IN  wire' = [wire EXCEPT !["dialer"] = Append(@, Encode(v, "listener", h))]
    BY DEF ListenerRejects
  <1> DEFINE m == Encode(v, "listener", [NewHandshake("listener", v) EXCEPT
                        !.type = "Reject", !.loopback = 0, !.alts = a])
  <1>2. v \in Version
    BY OtherSide DEF HsInv, HsTypeOK, Config
  <1>3. m \in Msg /\ m.hs.type = "Reject"
    BY <1>2, EncodeReject DEF HsInv
  <1>4. wire' = [wire EXCEPT !["dialer"] = Append(@, m)]
    BY <1>1
  <1> HIDE DEF m
  <1>5. /\ pc["listener"] = "wait" /\ wire["dialer"] = <<>>
        /\ prot["listener"] = 0 /\ prot["dialer"] = 0
        /\ parcels["listener"] = 0
    BY OtherSide DEF HsInv, ListenerWire, Control, ListenerRejects, HsTypeOK
  <1>6. wire' = [wire EXCEPT !["dialer"] = <<m>>] /\ <<m>> \in Seq(Msg)
    BY <1>3, <1>4, <1>5, Queues
  <1>7. /\ wire'["dialer"] = <<m>> /\ wire'["listener"] = wire["listener"]
        /\ pc'["listener"] = "failed" /\ pc'["dialer"] = pc["dialer"]
    BY <1>6, OtherSide DEF HsInv, HsTypeOK, ListenerRejects
  <1>8. defined' = Defines(v, "listener", "V9Msg")
    BY DEF ListenerRejects
  <1>9. HsTypeOK'
    <2>1. wire' \in [Side -> Seq(Msg)]
      BY <1>6 DEF HsInv, HsTypeOK
    <2>2. defined' \in [Encoder -> SUBSET GoStruct]
      BY <1>8 DEF HsInv, HsTypeOK, Defines, GoStruct
    <2> QED
      BY <2>1, <2>2 DEF HsInv, HsTypeOK, ListenerRejects
  <1>10. /\ defined'["dialer"] = defined["dialer"]
         /\ defined'["redetected"] = defined["redetected"]
    BY <1>8 DEF Defines, HsInv, HsTypeOK, Encoder
  <1>11. Agreed' = Agreed
    BY Fixed DEF ListenerRejects
  <1>12. Control' /\ Compatible'
    BY <1>5, <1>7, <1>11, OtherSide DEF HsInv, Control, Compatible, ListenerRejects
  <1>13. Encoders'
    BY <1>5, <1>7, <1>10, <1>11, OtherSide DEF HsInv, Encoders, Base, ListenerRejects
  <1>14. ListenerWire'
    BY <1>5, <1>7 DEF HsInv, ListenerWire, ListenerRejects
  <1>15. DialerWire'
    BY <1>3, <1>5, <1>7 DEF HsInv, DialerWire, ListenerRejects
  <1>16. StreamReadable' /\ NoSpuriousRefusal'
    BY DEF HsInv, StreamReadable, NoSpuriousRefusal, ListenerRejects
  <1> QED
    BY <1>9, <1>12, <1>13, <1>14, <1>15, <1>16 DEF HsInv

LEMMA ListenerReadsInv == ASSUME HsInv, ListenerReads PROVE HsInv'
  <1> DEFINE l == conf["listener"]
             v == conf["dialer"].version
             m == Head(wire["listener"])
  <1>1. /\ pc["listener"] = "wait" /\ wire["listener"] # <<>>
        /\ wire["dialer"] = <<>> /\ pc["dialer"] # "start"
        /\ prot["listener"] = 0 /\ prot["dialer"] = 0
        /\ parcels["listener"] = 0 /\ parcels["dialer"] = 0
        /\ known["listener"] = {} /\ defined["listener"] = {}
    BY OtherSide DEF HsInv, HsTypeOK, ListenerWire, Control, Encoders, ListenerReads
  <1>2. PICK w \in BOOLEAN : wire["listener"] = <<First(w)>>
    BY <1>1 DEF HsInv, ListenerWire
  <1>3. m = First(w) /\ Tail(wire["listener"]) = <<>> /\ First(w) \in Msg
    BY <1>2, Messages, Queues DEF HsInv
  <1>4. /\ v \in Version /\ Agreed \in Version /\ Base(v) = Base(Agreed)
        /\ Agreed <= v
        /\ Agreed = IF v = 10 /\ l.version = 9 THEN 9 ELSE v
        /\ m.hs.version = v
    <2>1. m.hs.version = v
      BY <1>3, PacketFields, GreetingFields DEF First, Hello, HelloHs
    <2> QED
      BY <2>1, Versions DEF HsInv, Base, Version
  <1>5. /\ Detect("listener", m) = IF w /\ Valid(l, m.hs) THEN Agreed ELSE 0
        /\ Learns("listener", m) = [known EXCEPT !["listener"] = Base(Agreed)]
        /\ Valid(l, m.hs) <=>
             /\ v >= l.min
             /\ conf["dialer"].network = l.network
             /\ InRange(conf["dialer"].port)
    BY <1>1, <1>3, <1>4, DetectHello, OtherSide DEF First, HsInv
  <1>6. m.whole = w /\ m.hs.type # "Reject"
    BY <1>3, Messages DEF HsInv
  <1> HIDE DEF m, l
  <1>7. /\ known' = [known EXCEPT !["listener"] = Base(Agreed)]
        /\ refused' = Refuses("listener", m)
        /\ UNCHANGED <<conf, self, full, parcels, garbled>>
    BY <1>5 DEF ListenerReads, m
  <1>8. /\ known' \in [Side -> SUBSET GoStruct]
        /\ known'["dialer"] = known["dialer"] /\ known'["listener"] = Base(Agreed)
    BY <1>7, OtherSide DEF HsInv, HsTypeOK, Base, GoStruct
  <1>9. refused' \subseteq Side /\ NoSpuriousRefusal'
    <2>1. CASE refused' = refused
      BY <1>7, <2>1 DEF HsInv, HsTypeOK, NoSpuriousRefusal
    <2>2. CASE refused' # refused
      <3>1. refused' = refused \cup {"listener"} /\ Detect("listener", m) = 0 /\ m.whole
        BY <1>7, <2>2 DEF Refuses
      <3>2. ~Valid(l, m.hs)
        BY <1>4, <1>5, <1>6, <3>1 DEF Version
      <3>3. l.min \in Int /\ Agreed \in Int /\ v \in Int
        BY <1>4, OtherSide DEF HsInv, HsTypeOK, Config, Version, l
      <3>4. \/ Agreed < l.min
            \/ conf["dialer"].network # l.network
            \/ ~InRange(conf["dialer"].port)
        BY <1>4, <1>5, <3>2, <3>3
      <3> QED
        BY <1>7, <3>1, <3>4, OtherSide DEF HsInv, HsTypeOK, NoSpuriousRefusal, Agreed, l
    <2> QED
      BY <2>1, <2>2
  <1>10. ASSUME Fail("listener"), wire' = [wire EXCEPT !["listener"] = Tail(@)] PROVE HsInv'
    BY <1>1, <1>7, <1>8, <1>9, <1>10, FailInv, OtherSide
  <1>11. CASE Detect("listener", m) = 0
    BY <1>10, <1>11 DEF ListenerReads, m
  <1>12. ASSUME Detect("listener", m) # 0,
                wire' = [wire EXCEPT
                    !["listener"] = Tail(@),
                    !["dialer"] = IF open
                        THEN Append(@, Encode(Agreed, "listener", NewHandshake("listener", Agreed)))
                        ELSE @],
                defined' = Defines(Agreed, "listener", "V9Msg"),
                MakePeer("listener", Agreed, "listener"),
                UNCHANGED open
         PROVE  HsInv'
    <2>1. v >= l.min /\ conf["dialer"].network = l.network
      BY <1>5, <1>12
    <2>2. /\ Encode(Agreed, "listener", NewHandshake("listener", Agreed)) = Answer(Yes)
          /\ defined' = [defined EXCEPT !["listener"] = Base(Agreed)]
      BY <1>1, <1>4, <1>12, EncodeHello, OtherSide DEF Answer, HsInv
    <2>3. Answer(Yes) \in Msg /\ Yes
      BY Messages DEF Yes, HsInv
    <2>4. Append(<<>>, Answer(Yes)) = <<Answer(Yes)>> /\ <<Answer(Yes)>> \in Seq(Msg)
      BY <2>3, Queues
    <2>5. /\ wire'["listener"] = <<>>
          /\ wire'["dialer"] = IF open THEN <<Answer(Yes)>> ELSE <<>>
          /\ wire' \in [Side -> Seq(Msg)]
      <3> DEFINE d == IF open THEN <<Answer(Yes)>> ELSE <<>>
      <3>1. wire' = [wire EXCEPT !["listener"] = <<>>, !["dialer"] = d]
        BY <1>1, <1>3, <1>12, <2>2, <2>4
      <3>2. d \in Seq(Msg) /\ <<>> \in Seq(Msg)
        BY <2>4
      <3> HIDE DEF d
      <3>3. wire' \in [Side -> Seq(Msg)]
        BY <3>1, <3>2 DEF HsInv, HsTypeOK
      <3>4. wire'["listener"] = <<>> /\ wire'["dialer"] = d
        BY <3>1, OtherSide DEF HsInv, HsTypeOK
      <3> QED
        BY <3>3, <3>4 DEF d
    <2>6. /\ pc' = [pc EXCEPT !["listener"] = "peer"]
          /\ prot' = [prot EXCEPT !["listener"] = Agreed]
          /\ using' = [using EXCEPT !["listener"] = "listener"]
      BY <1>12 DEF MakePeer
    <2>7. /\ pc'["listener"] = "peer" /\ pc'["dialer"] = pc["dialer"]
          /\ prot'["listener"] = Agreed /\ prot'["dialer"] = 0
          /\ using'["listener"] = "listener"
          /\ defined'["listener"] = Base(Agreed) /\ defined'["dialer"] = defined["dialer"]
          /\ defined'["redetected"] = defined["redetected"]
      BY <1>1, <2>2, <2>6, OtherSide DEF HsInv, HsTypeOK, Encoder
    <2>8. HsTypeOK'
      <3>1. /\ pc' \in [Side -> {"start", "wait", "peer", "failed", "stopped"}]
            /\ prot' \in [Side -> {0, 9, 10, 11}]
            /\ using' \in [Side -> Encoder]
        BY <1>4, <2>6, OtherSide DEF HsInv, HsTypeOK, Version, Encoder
      <3>2. defined' \in [Encoder -> SUBSET GoStruct]
        BY <2>2 DEF HsInv, HsTypeOK, Base, GoStruct
      <3> QED
        BY <1>7, <1>8, <1>9, <1>12, <2>5, <3>1, <3>2 DEF HsInv, HsTypeOK
    <2>9. Agreed' = Agreed /\ Agreed # 0 /\ \A w_1 : Answer(w_1)' = Answer(w_1)
      BY <1>4, <1>7, Fixed DEF Version
    <2>10. Control'
      BY <1>1, <1>7, <1>12, <2>7, <2>9, OtherSide DEF HsInv, Control
    <2>11. Compatible'
      BY <1>1, <1>7, <2>1, <2>7, <2>9 DEF Compatible, l
    <2>12. Encoders'
      BY <1>1, <1>7, <1>8, <2>5, <2>7, <2>9, OtherSide DEF HsInv, Encoders, Base
    <2>13. ListenerWire'
      BY <1>1, <2>5, <2>7, <2>9 DEF ListenerWire, ParcelWire
    <2>14. DialerWire'
      <3>1. pc["dialer"] \in {"start", "wait"} => pc["dialer"] = "wait"
        BY <1>1
      <3>2. Yes \in BOOLEAN
        BY DEF Yes
      <3> QED
        BY <1>1, <1>7, <1>12, <2>3, <2>5, <2>7, <2>9, <3>1, <3>2 DEF DialerWire
    <2>15. StreamReadable'
      BY <1>7 DEF HsInv, StreamReadable
    <2> QED
      BY <1>9, <2>8, <2>10, <2>11, <2>12, <2>13, <2>14, <2>15 DEF HsInv
  <1>13. CASE Detect("listener", m) # 0
    <2>1. Detect("listener", m) = Agreed
      BY <1>5, <1>13
    <2>2. Reply(Agreed, Agreed)
      <3>1. Agreed = 11 => m.hs.version = Agreed
        BY <1>4, Versions DEF HsInv
      <3> QED
        BY <1>13, <2>1, <3>1 DEF ListenerReads, m
    <2> QED
      BY <1>10, <1>12, <1>13, <2>2 DEF Reply
  <1> QED
    BY <1>11, <1>13

LEMMA DialerReadsInv == ASSUME HsInv, DialerReads PROVE HsInv'
  <1> DEFINE d == conf["dialer"]
             m == Head(wire["dialer"])
  <1>1. /\ pc["dialer"] = "wait" /\ wire["dialer"] # <<>>
        /\ pc["listener"] # "wait"
        /\ prot["dialer"] = 0 /\ parcels["dialer"] = 0
        /\ known["dialer"] = {} /\ defined["dialer"] = Base(d.version)
        /\ defined["redetected"] = {}
    BY OtherSide DEF HsInv, HsTypeOK, ListenerWire, Control, Encoders, DialerReads
  <1>2. /\ wire' = [wire EXCEPT !["dialer"] = Tail(@)]
        /\ known' = Learns("dialer", m)
        /\ refused' = Refuses("dialer", m)
        /\ UNCHANGED <<conf, self, full, parcels, garbled>>
    BY DEF DialerReads
  <1>3. m \in Msg
    BY <1>1, HeadTailProperties, OtherSide DEF HsInv, HsTypeOK
  <1>4. /\ known' \in [Side -> SUBSET GoStruct]
        /\ known'["listener"] = known["listener"]
    BY <1>2, <1>3, OtherSide DEF HsInv, HsTypeOK, Learns, Msg
  <1>5. ASSUME Fail("dialer"), refused' \subseteq Side, NoSpuriousRefusal' PROVE HsInv'
    BY <1>1, <1>2, <1>4, <1>5, FailInv, OtherSide
  <1>6. CASE prot["listener"] = 0
    <2>1. PICK r \in Msg : r.hs.type = "Reject" /\ wire["dialer"] = <<r>>
      BY <1>1, <1>6 DEF HsInv, DialerWire
    <2>2. m.hs.type = "Reject"
      BY <2>1, Queues
    <2>3. refused' = refused
      BY <1>2, <2>2 DEF Refuses
    <2>4. Fail("dialer")
      BY <2>2 DEF DialerReads
    <2> QED
      BY <1>2, <1>5, <2>3, <2>4 DEF HsInv, HsTypeOK, NoSpuriousRefusal
  <1>7. CASE prot["listener"] # 0
    <2>1. PICK w \in BOOLEAN :
            /\ m = Answer(w)
            /\ \/ Tail(wire["dialer"]) = <<>>
               \/ /\ parcels["listener"] = 1
                  /\ \E x \in BOOLEAN : Tail(wire["dialer"]) = <<Parcel("listener", x)>>
      <3>1. CASE \E w \in BOOLEAN : wire["dialer"] = <<Answer(w)>>
        <4>1. PICK w \in BOOLEAN : wire["dialer"] = <<Answer(w)>>
          BY <3>1
        <4>2. Answer(w) \in Msg
          BY Messages DEF HsInv
        <4>3. Head(<<Answer(w)>>) = Answer(w) /\ Tail(<<Answer(w)>>) = <<>>
          BY <4>2, Queues
        <4> QED
          BY <4>1, <4>3
      <3>2. CASE \E w \in BOOLEAN : /\ wire["dialer"] = <<Answer(Yes), Parcel("listener", w)>>
                                    /\ parcels["listener"] = 1
        <4>1. PICK x \in BOOLEAN : /\ wire["dialer"] = <<Answer(Yes), Parcel("listener", x)>>
                                   /\ parcels["listener"] = 1
          BY <3>2
        <4>2. Answer(Yes) \in Msg /\ Parcel("listener", x) \in Msg /\ Yes \in BOOLEAN
          BY Messages, ParcelIsMsg, OtherSide DEF HsInv, Yes
        <4>3. /\ Head(<<Answer(Yes), Parcel("listener", x)>>) = Answer(Yes)
              /\ Tail(<<Answer(Yes), Parcel("listener", x)>>) = <<Parcel("listener", x)>>
          BY <4>2, Queues
        <4> QED
          BY <4>1, <4>2, <4>3
      <3> QED
        BY <1>1, <1>7, <3>1, <3>2 DEF HsInv, DialerWire
    <2>2. /\ Agreed \in Version /\ d.version \in Version
          /\ ~(Agreed = 10 /\ d.version = 9)
          /\ Agreed = 9 => Base(d.version) = {"V9Msg"}
      BY Versions DEF HsInv, Version, Base
    <2>3. /\ Detect("dialer", m) = IF w /\ Valid(d, m.hs) THEN Agreed ELSE 0
          /\ Learns("dialer", m) = [known EXCEPT !["dialer"] = Base(Agreed)]
          /\ Valid(d, m.hs) <=>
               /\ Agreed >= d.min
               /\ conf["listener"].network = d.network
               /\ InRange(conf["listener"].port)
      BY <1>1, <2>1, <2>2, DetectHello, OtherSide DEF Answer, HsInv
    <2>4. /\ m.whole = w /\ m.hs.type # "Reject"
          /\ m.hs.loopback = InstanceID("dialer") <=> self
      BY <2>1, Messages DEF HsInv, InstanceID
    <2> HIDE DEF m, d
    <2>5. refused' \subseteq Side /\ NoSpuriousRefusal'
      <3>1. CASE refused' = refused
        BY <1>2, <3>1 DEF HsInv, HsTypeOK, NoSpuriousRefusal
      <3>2. CASE refused' # refused
        <4>1. refused' = refused \cup {"dialer"} /\ Detect("dialer", m) = 0 /\ m.whole
          BY <1>2, <3>2 DEF Refuses
        <4>2. ~Valid(d, m.hs)
          BY <2>2, <2>3, <2>4, <4>1 DEF Version
        <4>3. d.min \in Int /\ Agreed \in Int
          BY <2>2, OtherSide DEF HsInv, HsTypeOK, Config, Version, d
        <4>4. \/ Agreed < d.min
              \/ conf["listener"].network # d.network
              \/ ~InRange(conf["listener"].port)
          BY <2>3, <4>2, <4>3
        <4> QED
          BY <1>2, <4>1, <4>4, OtherSide DEF HsInv, HsTypeOK, NoSpuriousRefusal, Agreed, d
      <3> QED
        BY <3>1, <3>2
    <2>6. CASE Fail("dialer")
      BY <1>5, <2>5, <2>6
    <2>7. CASE ~Fail("dialer")
      <3> DEFINE e == IF Agreed = 9 THEN "dialer" ELSE "redetected"
      <3>1. /\ Detect("dialer", m) = Agreed /\ Agreed # 0
            /\ ~self
            /\ MakePeer("dialer", Agreed, e)
            /\ UNCHANGED <<open, defined>>
        BY <2>2, <2>3, <2>4, <2>7 DEF DialerReads, m
      <3>2. Agreed >= d.min
        BY <2>3, <3>1
      <3>3. /\ pc' = [pc EXCEPT !["dialer"] = "peer"]
            /\ prot' = [prot EXCEPT !["dialer"] = Agreed]
            /\ using' = [using EXCEPT !["dialer"] = e]
            /\ known' = [known EXCEPT !["dialer"] = Base(Agreed)]
        BY <1>2, <2>3, <3>1 DEF MakePeer
      <3>4. /\ pc'["dialer"] = "peer" /\ pc'["listener"] = pc["listener"]
            /\ prot'["dialer"] = Agreed /\ prot'["listener"] = prot["listener"]
            /\ using'["dialer"] = e /\ using'["listener"] = using["listener"]
            /\ known'["dialer"] = Base(Agreed) /\ known'["listener"] = known["listener"]
            /\ wire'["dialer"] = Tail(wire["dialer"]) /\ wire'["listener"] = wire["listener"]
        BY <1>2, <3>3, OtherSide DEF HsInv, HsTypeOK
      <3>5. HsTypeOK'
        <4>1. /\ pc' \in [Side -> {"start", "wait", "peer", "failed", "stopped"}]
              /\ prot' \in [Side -> {0, 9, 10, 11}]
              /\ using' \in [Side -> Encoder]
          BY <2>2, <3>3, OtherSide DEF HsInv, HsTypeOK, Version, Encoder
        <4>2. Tail(wire["dialer"]) \in Seq(Msg)
          BY <1>1, HeadTailProperties, OtherSide DEF HsInv, HsTypeOK
        <4>3. wire' \in [Side -> Seq(Msg)]
          BY <1>2, <4>2 DEF HsInv, HsTypeOK
        <4> QED
          BY <1>2, <1>4, <2>5, <3>1, <4>1, <4>3 DEF HsInv, HsTypeOK
      <3>6. Agreed' = Agreed /\ \A x : Parcel("listener", x)' = Parcel("listener", x)
        BY <1>2, Fixed
      <3>7. Control'
        BY <1>1, <1>2, <1>7, <3>1, <3>4, <3>6, OtherSide DEF HsInv, Control
      <3>8. Compatible'
        BY <1>2, <1>7, <3>2, <3>4, <3>6 DEF HsInv, Compatible, d
      <3>9. Encoders'
        <4>1. defined[e] = IF Agreed = 9 THEN {"V9Msg"} ELSE {}
          BY <1>1, <2>2
        <4> QED
          BY <1>1, <1>2, <3>1, <3>4, <3>6, <4>1, OtherSide DEF HsInv, Encoders, Base
      <3>10. ListenerWire'
        BY <1>1, <1>2, <3>4, <3>6, Fixed, OtherSide DEF HsInv, ListenerWire, ParcelWire
      <3>11. DialerWire'
        BY <1>2, <2>1, <3>4, <3>6, OtherSide DEF DialerWire, ParcelWire
      <3>12. StreamReadable'
        BY <1>2 DEF HsInv, StreamReadable
      <3> QED
        BY <2>5, <3>5, <3>7, <3>8, <3>9, <3>10, <3>11, <3>12 DEF HsInv
    <2> QED
      BY <2>6, <2>7
  <1> QED
    BY <1>6, <1>7

LEMMA SendParcelInv == ASSUME HsInv, NEW s \in Side, SendParcel(s) PROVE HsInv'
  <1> DEFINE m == Parcel(s, Yes)
             o == Other(s)
  <1>1. /\ pc[s] = "peer" /\ open /\ parcels[s] = 0
        /\ prot[s] = Agreed /\ Agreed # 0 /\ Agreed \in Version
        /\ o \in Side /\ o # s
        /\ prot["listener"] # 0
    BY Versions, OtherSide DEF HsInv, Control, SendParcel, Version
  <1>2. /\ wire' = [wire EXCEPT ![o] = Append(@, m)]
        /\ defined' = Defines(Agreed, using[s], IF Agreed = 9 THEN "V9Msg" ELSE "V10Msg")
        /\ parcels' = [parcels EXCEPT ![s] = 1]
        /\ UNCHANGED <<conf, self, full, pc, prot, using, known, open, garbled, refused>>
    BY <1>1, EncodeParcel DEF SendParcel
  <1>3. m \in Msg /\ Yes \in BOOLEAN /\ Yes
    BY ParcelIsMsg DEF HsInv, Yes
  <1>4. /\ \A w : Answer(w)' = Answer(w)
        /\ \A t, w : Parcel(t, w)' = Parcel(t, w)
        /\ Agreed' = Agreed
    BY <1>2, Fixed
  <1> HIDE DEF m
  <1>5. /\ parcels'[s] = 1 /\ parcels'[o] = parcels[o]
        /\ wire'[s] = wire[s] /\ wire'[o] = Append(wire[o], m)
        /\ Append(wire[o], m) \in Seq(Msg)
    BY <1>1, <1>2, <1>3, AppendProperties DEF HsInv, HsTypeOK
  <1>6. HsTypeOK'
    <2>1. wire' \in [Side -> Seq(Msg)] /\ parcels' \in [Side -> {0, 1}]
      BY <1>2, <1>5 DEF HsInv, HsTypeOK
    <2>2. defined' \in [Encoder -> SUBSET GoStruct]
      BY <1>1, <1>2 DEF HsInv, HsTypeOK, Defines, GoStruct
    <2> QED
      BY <1>2, <2>1, <2>2 DEF HsInv, HsTypeOK
  <1>7. Control' /\ Compatible'
    BY <1>1, <1>2, <1>4, <1>5, OtherSide DEF HsInv, Control, Compatible
  <1>8. \A e \in Encoder : e # using[s] => defined'[e] = defined[e]
    BY <1>2 DEF Defines, HsInv, HsTypeOK
  <1>9. StreamReadable' /\ NoSpuriousRefusal'
    BY <1>2 DEF HsInv, StreamReadable, NoSpuriousRefusal
  <1>10. Append(<<>>, m) = <<m>>
    BY <1>3, Queues
  <1>11. CASE s = "dialer"
    <2>1. using[s] \in {"dialer", "redetected"} /\ o = "listener" /\ prot["dialer"] # 0
      BY <1>1, <1>11, OtherSide DEF HsInv, Encoders
    <2>2. wire[o] = <<>> /\ wire'[o] = <<m>>
      <3>1. wire[o] = <<>>
        BY <1>1, <1>11, <2>1, OtherSide DEF HsInv, ListenerWire, ParcelWire
      <3> QED
        BY <1>5, <1>10, <3>1
    <2>3. pc["dialer"] = "peer" /\ pc["listener"] # "wait"
      BY <1>1, <1>11, OtherSide DEF HsInv, Control
    <2>4. defined'["listener"] = defined["listener"]
      BY <1>8, <2>1 DEF Encoder
    <2>5. Encoders'
      BY <1>1, <1>2, <1>4, <1>5, <1>11, <2>1, <2>3, <2>4, OtherSide DEF HsInv, Encoders, Base
    <2>6. ListenerWire'
      BY <1>1, <1>2, <1>3, <1>4, <1>5, <1>11, <2>1, <2>2, <2>3, OtherSide
         DEF ListenerWire, ParcelWire, m
    <2>7. DialerWire'
      BY <1>1, <1>2, <1>4, <1>5, <1>11, <2>1, <2>3, OtherSide DEF HsInv, DialerWire, ParcelWire
    <2> QED
      BY <1>6, <1>7, <1>9, <2>5, <2>6, <2>7 DEF HsInv
  <1>12. CASE s = "listener"
    <2>1. using[s] = "listener" /\ o = "dialer"
      BY <1>1, <1>12, OtherSide DEF HsInv, Encoders
    <2>2. pc["dialer"] \in {"wait", "peer"} /\ (pc["dialer"] = "peer" <=> prot["dialer"] # 0)
      BY <1>1, <1>12, OtherSide DEF HsInv, HsTypeOK, Control, DialerWire
    <2>3. /\ defined'["dialer"] = defined["dialer"]
          /\ defined'["redetected"] = defined["redetected"]
          /\ using["dialer"] # "listener" \/ parcels["dialer"] # 0 \/ prot["dialer"] = 0
      BY <1>8, <2>1, OtherSide DEF Encoder, HsInv, Encoders
    <2>4. Encoders'
      BY <1>1, <1>2, <1>4, <1>5, <1>12, <2>1, <2>2, <2>3, OtherSide DEF HsInv, Encoders, Base
    <2>5. ListenerWire'
      BY <1>1, <1>2, <1>4, <1>5, <1>12, <2>1, <2>2, OtherSide DEF HsInv, ListenerWire, ParcelWire
    <2>6. DialerWire'
      <3>1. CASE prot["dialer"] # 0
        <4>1. wire[o] = <<>> /\ wire'[o] = <<m>>
          <5>1. wire[o] = <<>>
            BY <1>1, <1>12, <2>1, <3>1, OtherSide DEF HsInv, DialerWire, ParcelWire
          <5> QED
            BY <1>5, <1>10, <5>1
        <4> QED
          BY <1>1, <1>2, <1>3, <1>4, <1>5, <1>12, <2>1, <2>2, <3>1, <4>1, OtherSide
             DEF DialerWire, ParcelWire, m
      <3>2. CASE prot["dialer"] = 0
        <4>1. PICK w \in BOOLEAN : wire["dialer"] = <<Answer(w)>> /\ w
          BY <1>1, <1>12, <2>2, <3>2 DEF HsInv, DialerWire
        <4>2. w = Yes
          BY <4>1 DEF Yes
        <4>3. Answer(Yes) \in Msg
          BY <1>3, Messages DEF HsInv
        <4>4. wire'["dialer"] = <<Answer(Yes), m>>
          <5>1. Append(<<Answer(Yes)>>, m) = <<Answer(Yes), m>>
            BY <1>3, <4>3, Queues
          <5> QED
            BY <1>5, <2>1, <4>1, <4>2, <5>1
        <4> QED
          BY <1>1, <1>2, <1>3, <1>4, <1>5, <1>12, <2>1, <2>2, <3>2, <4>4, OtherSide
             DEF DialerWire, m
      <3> QED
        BY <3>1, <3>2
    <2> QED
      BY <1>6, <1>7, <1>9, <2>4, <2>5, <2>6 DEF HsInv
  <1> QED
    BY <1>11, <1>12, OtherSide

LEMMA ReadParcelInv == ASSUME HsInv, NEW s \in Side, ReadParcel(s) PROVE HsInv'
  <1> DEFINE o == Other(s)
             m == Head(wire[s])
  <1>1. /\ pc[s] = "peer" /\ wire[s] # <<>>
        /\ prot[s] = Agreed /\ Agreed # 0
        /\ o \in Side /\ o # s
    BY OtherSide DEF HsInv, Control, ReadParcel
  <1>2. PICK w \in BOOLEAN : wire[s] = <<Parcel(o, w)>> /\ parcels[o] = 1
    BY <1>1, OtherSide DEF HsInv, ListenerWire, DialerWire, ParcelWire
  <1>3. Parcel(o, w) \in Msg /\ Parcel(o, w).whole = w
    BY <1>1, ParcelIsMsg DEF HsInv
  <1>4. m = Parcel(o, w) /\ Tail(wire[s]) = <<>>
    BY <1>2, <1>3, Queues
  <1>5. known[s] = Base(Agreed)
    BY <1>1 DEF HsInv, Encoders
  <1>6. Readable(s, m) <=> w
    BY <1>1, <1>4, <1>5, ReadableParcel DEF HsInv
  <1> HIDE DEF m
  <1>7. /\ wire' = [wire EXCEPT ![s] = Tail(@)]
        /\ known' = Learns(s, m)
        /\ UNCHANGED <<conf, self, full, prot, using, defined, parcels, refused>>
    BY DEF ReadParcel, m
  <1>8. /\ wire' \in [Side -> Seq(Msg)] /\ wire'[s] = <<>> /\ wire'[o] = wire[o]
    BY <1>1, <1>4, <1>7 DEF HsInv, HsTypeOK
  <1>9. known' \in [Side -> SUBSET GoStruct] /\ known'[o] = known[o]
    BY <1>1, <1>3, <1>4, <1>7 DEF HsInv, HsTypeOK, Learns, Msg
  <1>10. /\ \/ pc'[s] = "peer" /\ UNCHANGED <<pc, open>>
            \/ pc' = [pc EXCEPT ![s] = "stopped"] /\ pc'[s] = "stopped" /\ open' = FALSE
         /\ pc'[o] = pc[o] /\ garbled' = FALSE
    <2>1. CASE Readable(s, m)
      BY <1>1, <2>1 DEF ReadParcel, HsInv, StreamReadable, HsTypeOK, m
    <2>2. CASE ~Readable(s, m)
      <3>1. ~m.whole
        BY <1>3, <1>4, <1>6, <2>2
      <3> QED
        BY <1>1, <2>2, <3>1 DEF ReadParcel, HsInv, StreamReadable, HsTypeOK, m
    <2> QED
      BY <2>1, <2>2
  <1>11. HsTypeOK'
    BY <1>7, <1>8, <1>9, <1>10 DEF HsInv, HsTypeOK
  <1>12. /\ \A x : First(x)' = First(x) /\ Answer(x)' = Answer(x)
         /\ \A t, x : Parcel(t, x)' = Parcel(t, x)
         /\ Agreed' = Agreed
    BY <1>7, Fixed
  <1>13. Control' /\ Compatible'
    BY <1>1, <1>7, <1>10, <1>12, OtherSide DEF HsInv, Control, Compatible
  <1>14. Encoders'
    BY <1>1, <1>2, <1>7, <1>8, <1>9, <1>10, <1>12, OtherSide DEF HsInv, Encoders, Base
  <1>15. ListenerWire'
    BY <1>1, <1>7, <1>8, <1>10, <1>12, OtherSide DEF HsInv, ListenerWire, ParcelWire
  <1>16. DialerWire'
    BY <1>1, <1>7, <1>8, <1>10, <1>12, OtherSide DEF HsInv, DialerWire, ParcelWire
  <1>17. StreamReadable' /\ NoSpuriousRefusal'
    BY <1>7, <1>10 DEF HsInv, StreamReadable, NoSpuriousRefusal
  <1> QED
    BY <1>11, <1>13, <1>14, <1>15, <1>16, <1>17 DEF HsInv

LEMMA RemainsIsSeq == ASSUME NEW w \in Seq(Msg), NEW q \in Remains(w) PROVE q \in Seq(Msg)
  <1>1. \A k \in 0..Len(w) : SubSeq(w, 1, k) \in Seq(Msg)
    <2> TAKE k \in 0..Len(w)
    <2>1. \A i \in 1..k : w[i] \in Msg
      BY ElementOfSeq
    <2> QED
      BY <2>1, SubSeqProperties
  <1>2. ASSUME NEW k \in 1..Len(w)
        PROVE  Append(SubSeq(w, 1, k - 1), [w[k] EXCEPT !.whole = FALSE]) \in Seq(Msg)
    <2>1. k - 1 \in 0..Len(w)
      OBVIOUS
    <2>2. w[k] \in Msg
      BY ElementOfSeq
    <2>3. [w[k] EXCEPT !.whole = FALSE] \in Msg
      BY <2>2 DEF Msg
    <2> QED
      BY <1>1, <2>1, <2>3, AppendProperties
  <1> QED
    BY <1>1, <1>2 DEF Remains

LEMMA ParcelWireRemains ==
    ASSUME HsTypeOK, NEW s \in Side, ParcelWire(s), NEW q \in Remains(wire[s])
    PROVE  \/ q = <<>>
           \/ parcels[Other(s)] = 1 /\ \E w \in BOOLEAN : q = <<Parcel(Other(s), w)>>
  <1>1. CASE wire[s] = <<>>
    BY <1>1, RemainsOfNone
  <1>2. ASSUME NEW w \in BOOLEAN, wire[s] = <<Parcel(Other(s), w)>>
        PROVE  q = <<>> \/ \E x \in BOOLEAN : q = <<Parcel(Other(s), x)>>
    <2>1. /\ Parcel(Other(s), w) \in Msg
          /\ Cut(Parcel(Other(s), w)) = Parcel(Other(s), No)
          /\ No \in BOOLEAN
      BY ParcelIsMsg, OtherSide DEF No
    <2> QED
      BY <1>2, <2>1, RemainsOfOne
  <1> QED
    BY <1>1, <1>2 DEF ParcelWire

LEMMA BreakInv == ASSUME HsInv, Break PROVE HsInv'
  <1>1. PICK d \in Remains(wire["dialer"]), l \in Remains(wire["listener"]) :
            wire' = [s \in Side |-> IF s = "dialer" THEN d ELSE l]
    BY DEF Break
  <1>2. /\ wire'["dialer"] = d /\ wire'["listener"] = l
        /\ open' = FALSE
        /\ UNCHANGED <<conf, self, full, pc, prot, using, defined, known, parcels, garbled,
                       refused>>
    BY <1>1, OtherSide DEF Break
  <1>3. HsTypeOK'
    <2>1. d \in Seq(Msg) /\ l \in Seq(Msg)
      BY RemainsIsSeq, OtherSide DEF HsInv, HsTypeOK
    <2> QED
      BY <1>1, <1>2, <2>1 DEF HsInv, HsTypeOK
  <1>4. /\ \A x : First(x)' = First(x) /\ Answer(x)' = Answer(x)
        /\ \A t, x : Parcel(t, x)' = Parcel(t, x)
        /\ Agreed' = Agreed
    BY <1>2, Fixed
  <1>5. /\ wire["dialer"] = <<>> => d = <<>>
        /\ wire["listener"] = <<>> => l = <<>>
    BY RemainsOfNone
  <1>6. Control' /\ Compatible'
    BY <1>2, <1>4, OtherSide DEF HsInv, Control, Compatible
  <1>7. Encoders'
    BY <1>2, <1>4, <1>5, OtherSide DEF HsInv, Encoders, Base
  <1>8. ListenerWire'
    <2>1. ASSUME NEW w \in BOOLEAN, wire["listener"] = <<First(w)>>
          PROVE  l = <<>> \/ \E x \in BOOLEAN : l = <<First(x)>>
      <3>1. First(w) \in Msg /\ Cut(First(w)) = First(No) /\ No \in BOOLEAN
        BY Messages DEF HsInv, No
      <3> QED
        BY <2>1, <3>1, RemainsOfOne
    <2>2. prot["listener"] # 0 =>
            \/ l = <<>>
            \/ parcels["dialer"] = 1 /\ \E w \in BOOLEAN : l = <<Parcel("dialer", w)>>
      BY ParcelWireRemains, OtherSide DEF HsInv, ListenerWire
    <2> QED
      BY <1>2, <1>4, <1>5, <2>1, <2>2, OtherSide DEF HsInv, ListenerWire, ParcelWire
  <1>9. DialerWire'
    <2>1. ASSUME NEW m \in Msg, m.hs.type = "Reject", wire["dialer"] = <<m>>
          PROVE  d = <<>> \/ \E x \in Msg : x.hs.type = "Reject" /\ d = <<x>>
      <3>1. Cut(m) \in Msg /\ Cut(m).hs.type = "Reject"
        BY <2>1 DEF Msg, Cut
      <3> QED
        BY <2>1, <3>1, RemainsOfOne
    <2>2. ASSUME NEW w \in BOOLEAN, wire["dialer"] = <<Answer(w)>>
          PROVE  d = <<>> \/ \E x \in BOOLEAN : d = <<Answer(x)>>
      <3>1. Answer(w) \in Msg /\ Cut(Answer(w)) = Answer(No) /\ No \in BOOLEAN
        BY Messages DEF HsInv, No
      <3> QED
        BY <2>2, <3>1, RemainsOfOne
    <2>3. ASSUME NEW w \in BOOLEAN, wire["dialer"] = <<Answer(Yes), Parcel("listener", w)>>
          PROVE  \/ d = <<>>
                 \/ \E x \in BOOLEAN : d = <<Answer(x)>>
                 \/ \E x \in BOOLEAN : d = <<Answer(Yes), Parcel("listener", x)>>
      <3>1. /\ Answer(Yes) \in Msg /\ Cut(Answer(Yes)) = Answer(No)
            /\ Yes \in BOOLEAN /\ No \in BOOLEAN
        BY Messages DEF HsInv, Yes, No
      <3>2. /\ Parcel("listener", w) \in Msg
            /\ Cut(Parcel("listener", w)) = Parcel("listener", No)
        BY ParcelIsMsg, OtherSide DEF HsInv
      <3> QED
        BY <2>3, <3>1, <3>2, RemainsOfTwo
    <2>4. prot["dialer"] # 0 =>
            \/ d = <<>>
            \/ parcels["listener"] = 1 /\ \E w \in BOOLEAN : d = <<Parcel("listener", w)>>
      BY ParcelWireRemains, OtherSide DEF HsInv, DialerWire
    <2>5. ParcelWire("dialer")' <=>
            \/ d = <<>>
            \/ parcels["listener"] = 1 /\ \E w \in BOOLEAN : d = <<Parcel("listener", w)>>
      BY <1>2, <1>4, OtherSide DEF ParcelWire
    <2> QED
      BY <1>2, <1>4, <1>5, <2>1, <2>2, <2>3, <2>4, <2>5 DEF HsInv, DialerWire
  <1>10. StreamReadable' /\ NoSpuriousRefusal'
    BY <1>2 DEF HsInv, StreamReadable, NoSpuriousRefusal
  <1> QED
    BY <1>3, <1>6, <1>7, <1>8, <1>9, <1>10 DEF HsInv

-----------------------------------------------------------------------------
LEMMA HsNextInv == HsInv /\ [Next]_vars => HsInv'
  <1> SUFFICES ASSUME HsInv, [Next]_vars PROVE HsInv'
    OBVIOUS
  <1>1. CASE DialerSend
    BY <1>1, DialerSendInv
  <1>2. CASE DialerReads
    BY <1>2, DialerReadsInv
  <1>3. CASE ListenerRejects
    BY <1>3, ListenerRejectsInv
  <1>4. CASE ListenerReads
    BY <1>4, ListenerReadsInv
  <1>5. CASE Break
    BY <1>5, BreakInv
  <1>6. ASSUME NEW s \in Side, TimedOut(s) PROVE HsInv'
    BY <1>6, TimedOutInv
  <1>7. ASSUME NEW s \in Side, SendParcel(s) PROVE HsInv'
    BY <1>7, SendParcelInv
  <1>8. ASSUME NEW s \in Side, SendTooLarge(s) PROVE HsInv'
    BY <1>8, SendTooLargeInv
  <1>9. ASSUME NEW s \in Side, ReadParcel(s) PROVE HsInv'
    BY <1>9, ReadParcelInv
  <1>10. ASSUME NEW s \in Side, ReadFails(s) PROVE HsInv'
    BY <1>10, ReadFailsInv
  <1>11. CASE UNCHANGED vars
    <2>1. /\ HsTypeOK' /\ Compatible' /\ Control' /\ Encoders'
          /\ StreamReadable' /\ NoSpuriousRefusal'
      BY <1>11, Fixed DEF vars, HsInv, HsTypeOK, Compatible, Control, Encoders, Base,
         StreamReadable, NoSpuriousRefusal
    <2>2. ListenerWire' /\ DialerWire'
      BY <1>11, Fixed DEF vars, HsInv, ListenerWire, DialerWire, ParcelWire
    <2> QED
      BY <2>1, <2>2 DEF HsInv
  <1> QED
    BY <1>1, <1>2, <1>3, <1>4, <1>5, <1>6, <1>7, <1>8, <1>9, <1>10, <1>11 DEF Next

LEMMA HsInvAlways == Spec => []HsInv
  BY HsInitInv, HsNextInv, PTL DEF Spec

\* Two nodes that both have a peer speak the same protocol, for any configurations
\* and wherever the connection breaks (controller_connections.go,
\* detectProtocolFromFirstMessage and handshakeIncoming).
THEOREM AlwaysSameProtocol == Spec => []SameProtocol
  <1>1. HsInv => SameProtocol
    BY OtherSide DEF HsInv, Control, SameProtocol
  <1> QED
    BY <1>1, HsInvAlways, PTL

\* No node gets a peer of another network, or of a version below its minimum and
\* not its own, for any set of networks (handshake.go, Valid).
THEOREM AlwaysCompatible == Spec => []PeersCompatible
  <1>1. HsInv => PeersCompatible
    <2> SUFFICES ASSUME HsInv, NEW s \in Side, prot[s] # 0
                 PROVE  /\ prot[s] >= conf[s].min \/ prot[s] = conf[s].version
                        /\ conf[Other(s)].network = conf[s].network
      BY DEF PeersCompatible
    <2>1. prot[s] = Agreed /\ prot["listener"] # 0
      BY OtherSide DEF HsInv, Control
    <2>2. CASE s = "dialer"
      BY <2>1, <2>2, OtherSide DEF HsInv, Compatible
    <2>3. CASE s = "listener"
      <3>1. CASE conf["dialer"].version = 10 /\ conf["listener"].version = 9
        BY <2>1, <2>3, <3>1, Versions, OtherSide DEF HsInv, Compatible
      <3>2. CASE ~(conf["dialer"].version = 10 /\ conf["listener"].version = 9)
        <4>1. Agreed = conf["dialer"].version
          BY <3>2, Versions DEF HsInv
        <4> QED
          BY <2>1, <2>3, <4>1, OtherSide DEF HsInv, Compatible
      <3> QED
        BY <3>1, <3>2
    <2> QED
      BY <2>2, <2>3, OtherSide
  <1> QED
    BY <1>1, HsInvAlways, PTL

\* The first parcels of both peers can be read by the other end: no encoder sends
\* a definition twice or a value before its definition (controller_connections.go,
\* handshakeOutgoing, "would try to register it again").
THEOREM AlwaysReadable == Spec => []StreamReadable
  <1>1. HsInv => StreamReadable
    BY DEF HsInv
  <1> QED
    BY <1>1, HsInvAlways, PTL

\* A handshake that arrives is turned down only between nodes of different networks,
\* by a node with a minimum above their common protocol, or for a listen port that
\* is out of range, for any set of ports (controller_connections.go,
\* detectProtocolFromFirstMessage; handshake.go, Valid).
THEOREM NeverSpuriouslyRefused == Spec => []NoSpuriousRefusal
  <1>1. HsInv => NoSpuriousRefusal
    BY DEF HsInv
  <1> QED
    BY <1>1, HsInvAlways, PTL

\* A node that dials itself never gets an outgoing peer (controller_connections.go,
\* handshakeOutgoing, the loopback test).
THEOREM NeverSelfPeer == Spec => []NoSelfPeer
  <1>1. HsInv => NoSelfPeer
    BY OtherSide DEF HsInv, Control, NoSelfPeer
  <1> QED
    BY <1>1, HsInvAlways, PTL

=============================================================================
