---------------------------- MODULE SwitchProofs ----------------------------
(***************************************************************************)
(* Theorems about the switches: the table of one (Lan) and the tree of     *)
(* several (SpanningTree).                                                 *)
(*                                                                         *)
(* For every set of stations, interfaces, ports and VLANs, every plan and  *)
(* every limit, a switch knows stations only where they are.               *)
(*                                                                         *)
(* The table is learned from frames.  So the invariant also says of every  *)
(* frame under way to the switch that the station on that cable owns its   *)
(* source address and that the cable is live.  The stations answer inside  *)
(* the handlers; each operator that a handler is made of takes a Good      *)
(* network to a Good one.  A change of the cabling or of a port makes      *)
(* nothing untrue that is still in the table (ChangeKeeps).                *)
(*                                                                         *)
(* For every cabling, Root Guard holds in the classic protocol: a guarded  *)
(* port has had its role for no longer than its BPDU has aged (GuardOK).   *)
(***************************************************************************)
EXTENDS Lan, SpanningTree, SequenceTheorems, FiniteSetTheorems, TLAPS

-----------------------------------------------------------------------------
(* Where stations are *)

USE LanAssumption

\* The fields of net.
Parts == {"arp", "mac", "stp", "pending", "sent", "out", "ping", "icmp",
          "echoed", "refused", "report", "arrived"}

\* The cable of station h carries frames.
Live(h) == at[h] # Unplugged /\ up[h]

\* The address m belongs to an interface of station h.
HasMac(h, m) == \E i \in Interface : DeviceOf[i] = h /\ MacOf[i] = m

\* The MAC table says where stations are.
Located(n) ==
    /\ n.mac \in [Vlan -> [Mac -> Port \cup {Unplugged}]]
    /\ \A v \in Vlan, m \in Mac : n.mac[v][m] # Unplugged =>
          Carries(n.mac[v][m], v) /\ \E h \in On(n.mac[v][m]) : HasMac(h, m)

\* What is on the way to the switch comes from the station on that cable.
Signed(n) ==
    /\ \E T : n.sent \in [Station -> Seq(T)]
    /\ \A h \in Station : n.sent[h] # <<>> => Live(h)
    /\ \A h \in Station : \A k \in 1 .. Len(n.sent[h]) : HasMac(h, n.sent[h][k].source)

\* A ping under way has a route.
Routed(g) == g = Idle \/ ("route" \in DOMAIN g /\ g.route.interface \in Interface)

\* The part of the invariant that every handler keeps.
Good(n) ==
    /\ DOMAIN n = Parts /\ Located(n) /\ Signed(n) /\ Routed(n.ping)
    /\ \E T : n.pending \in Seq(T)

\* What the invariant looks at.
LEMMA SameGood ==
    ASSUME NEW n, Good(n), NEW r, DOMAIN r = Parts, r.mac = n.mac, r.sent = n.sent,
           r.pending = n.pending, Routed(r.ping)
    PROVE  Good(r)
BY DEF Good, Located, Signed

\* An element of a concatenation is one of its parts.
LEMMA Joined ==
    ASSUME NEW T, NEW V, NEW u \in Seq(T), NEW v \in Seq(V)
    PROVE  /\ u \o v \in Seq(T \cup V)
           /\ \A k \in 1 .. Len(u \o v) :
                 \/ k \in 1 .. Len(u) /\ (u \o v)[k] = u[k]
                 \/ \E j \in 1 .. Len(v) : (u \o v)[k] = v[j]
<1>1. u \in Seq(T \cup V) /\ v \in Seq(T \cup V)
    BY SeqMonotonic
<1>2. /\ u \o v \in Seq(T \cup V) /\ Len(u \o v) = Len(u) + Len(v)
      /\ Len(u) \in Nat /\ Len(v) \in Nat
    BY <1>1, ConcatProperties, LenProperties
<1>3. ASSUME NEW k \in 1 .. Len(u \o v)
      PROVE  \/ k \in 1 .. Len(u) /\ (u \o v)[k] = u[k]
             \/ \E j \in 1 .. Len(v) : (u \o v)[k] = v[j]
    <2>1. CASE k <= Len(u)
        BY <1>1, <1>2, <2>1, ConcatProperties
    <2>2. CASE k > Len(u)
        <3>1. k - Len(u) \in 1 .. Len(v) /\ (u \o v)[k] = v[k - Len(u)]
            BY <1>1, <1>2, <2>2, ConcatProperties
        <3> QED
            BY <3>1
    <2> QED
        BY <1>2, <2>1, <2>2
<1> QED
    BY <1>2, <1>3

\* A function on 1 .. l is a sequence.
LEMMA Listed ==
    ASSUME NEW l \in Nat, NEW f, f = [k \in 1 .. l |-> f[k]]
    PROVE  f \in Seq({f[k] : k \in 1 .. l}) /\ Len(f) = l
<1> DEFINE V == {f[k] : k \in 1 .. l}
<1>1. \A k \in 1 .. l : f[k] \in V
    OBVIOUS
<1> HIDE DEF V
<1>2. f \in [1 .. l -> V]
    BY <1>1
<1>3. f \in Seq(V) /\ DOMAIN f = 1 .. l
    BY <1>2, SeqDef
<1> QED
    BY <1>3, LenProperties DEF V

LEMMA RefreshedGood ==
    ASSUME NEW n, Good(n)
    PROVE  Good(Refreshed(n))
<1> DEFINE r == Refreshed(n)
           none == [m \in Mac |-> Unplugged]
<1>1. /\ DOMAIN r = Parts /\ r.sent = n.sent /\ r.pending = n.pending /\ r.ping = n.ping
      /\ DOMAIN r.mac = Vlan /\ \A v \in Vlan : r.mac[v] \in {n.mac[v], none}
    BY DEF Refreshed, Good, Parts
<1>2. r.mac = [v \in Vlan |-> r.mac[v]]
    BY DEF Refreshed, Good, Parts
<1> HIDE DEF r
<1>3. none \in [Mac -> Port \cup {Unplugged}] /\ \A m \in Mac : none[m] = Unplugged
    OBVIOUS
<1> HIDE DEF none
<1>4. Located(r)
    <2>1. ASSUME NEW v \in Vlan PROVE r.mac[v] \in [Mac -> Port \cup {Unplugged}]
        <3>1. n.mac[v] \in [Mac -> Port \cup {Unplugged}]
            BY DEF Good, Located
        <3> QED
            BY <1>1, <1>3, <3>1
    <2>2. r.mac \in [Vlan -> [Mac -> Port \cup {Unplugged}]]
        BY <1>2, <2>1
    <2>3. ASSUME NEW v \in Vlan, NEW m \in Mac, r.mac[v][m] # Unplugged
          PROVE  Carries(r.mac[v][m], v) /\ \E h \in On(r.mac[v][m]) : HasMac(h, m)
        <3>1. r.mac[v] = n.mac[v]
            BY <1>1, <1>3, <2>3
        <3> QED
            BY <2>3, <3>1 DEF Good, Located
    <2> QED
        BY <2>2, <2>3 DEF Located
<1>5. Signed(r)
    BY <1>1 DEF Good, Signed
<1> QED
    BY <1>1, <1>4, <1>5 DEF Good, r

LEMMA OutputGood ==
    ASSUME NEW n, Good(n), NEW ports, NEW v, NEW frames
    PROVE  Good(Output(n, ports, v, frames))
<1> DEFINE r == Output(n, ports, v, frames)
<1>1. /\ DOMAIN r = Parts /\ r.mac = n.mac /\ r.sent = n.sent /\ r.pending = n.pending
      /\ r.ping = n.ping
    BY DEF Output, Good, Parts
<1> QED
    BY <1>1, SameGood DEF Good

LEMMA TransmitGood ==
    ASSUME NEW n, Good(n), NEW i \in Interface, NEW m, NEW B, NEW bodies \in Seq(B)
    PROVE  Good(Transmit(n, i, m, bodies))
<1>1. CASE Encap[i] = Virtual \/ ~ProtocolUp(i) \/ bodies = <<>>
    BY <1>1 DEF Transmit
<1>2. CASE ~(Encap[i] = Virtual \/ ~ProtocolUp(i) \/ bodies = <<>>) /\ IsSvi(i)
    BY <1>2, RefreshedGood, OutputGood DEF Transmit
<1>3. CASE ~(Encap[i] = Virtual \/ ~ProtocolUp(i) \/ bodies = <<>>) /\ ~IsSvi(i)
    <2> DEFINE d == DeviceOf[i]
               frames == [k \in DOMAIN bodies |-> Frame(i, m, bodies[k])]
               tag == IF Encap[i] = NativeVlan THEN Untagged ELSE Encap[i]
               more == [k \in DOMAIN frames |-> [frames[k] EXCEPT !.tag = tag]]
               r == Transmit(n, i, m, bodies)
    <2>1. d \in Station /\ Live(d)
        BY <1>3 DEF IsSvi, ProtocolUp, Live, Device
    <2>2. /\ r = [n EXCEPT !.sent[d] = @ \o more]
        BY <1>3 DEF Transmit
    <2>3. DOMAIN bodies = 1 .. Len(bodies) /\ Len(bodies) \in Nat
        BY LenProperties
    <2> DEFINE V == {more[k] : k \in 1 .. Len(bodies)}
               s == n.sent[d] \o more
    <2>4. more \in Seq(V) /\ Len(more) = Len(bodies)
        <3>1. more = [k \in 1 .. Len(bodies) |-> more[k]]
            BY <2>3
        <3> HIDE DEF more
        <3> QED
            BY <2>3, <3>1, Listed
    <2>5. \A k \in 1 .. Len(more) : more[k].source = MacOf[i]
        <3>1. ASSUME NEW k \in 1 .. Len(bodies) PROVE more[k].source = MacOf[i]
            BY <2>3, <3>1 DEF Frame
        <3> QED
            BY <2>4, <3>1
    <2> HIDE DEF more, frames, tag, V
    <2>6. PICK T : n.sent \in [Station -> Seq(T)]
        BY DEF Good, Signed
    <2>7. /\ s \in Seq(T \cup V)
          /\ \A k \in 1 .. Len(s) :
                 \/ k \in 1 .. Len(n.sent[d]) /\ s[k] = n.sent[d][k]
                 \/ \E j \in 1 .. Len(more) : s[k] = more[j]
        <3> DEFINE u == n.sent[d]
        <3>1. u \in Seq(T)
            BY <2>1, <2>6
        <3> HIDE DEF u, d
        <3>2. /\ u \o more \in Seq(T \cup V)
              /\ \A k \in 1 .. Len(u \o more) :
                    \/ k \in 1 .. Len(u) /\ (u \o more)[k] = u[k]
                    \/ \E j \in 1 .. Len(more) : (u \o more)[k] = more[j]
            BY <2>4, <3>1, Joined, SMTT(30)
        <3> QED
            BY <3>2 DEF u
    <2>8. /\ DOMAIN r = Parts /\ r.mac = n.mac /\ r.pending = n.pending /\ r.ping = n.ping
          /\ r.sent = [n.sent EXCEPT ![d] = s]
        BY <2>2 DEF Good, Parts
    <2> HIDE DEF s, r
    <2>9. r.sent \in [Station -> Seq(T \cup V)]
        <3>1. \A h \in Station : n.sent[h] \in Seq(T \cup V)
            BY <2>6, SeqMonotonic
        <3>2. n.sent \in [Station -> Seq(T \cup V)]
            BY <2>6, <3>1
        <3> QED
            BY <2>7, <2>8, <3>2
    <2>10. ASSUME NEW h \in Station
           PROVE  /\ r.sent[h] # <<>> => Live(h)
                  /\ \A k \in 1 .. Len(r.sent[h]) : HasMac(h, r.sent[h][k].source)
        <3>1. CASE h # d
            <4>1. r.sent[h] = n.sent[h]
                BY <2>6, <2>8, <3>1
            <4> QED
                BY <4>1 DEF Good, Signed
        <3>2. CASE h = d
            <4>1. r.sent[h] = s
                BY <2>1, <2>6, <2>8, <3>2
            <4>2. ASSUME NEW k \in 1 .. Len(s) PROVE HasMac(d, s[k].source)
                <5>1. CASE k \in 1 .. Len(n.sent[d]) /\ s[k] = n.sent[d][k]
                    BY <2>1, <5>1 DEF Good, Signed
                <5>2. CASE \E j \in 1 .. Len(more) : s[k] = more[j]
                    BY <2>5, <5>2 DEF HasMac
                <5> QED
                    BY <2>7, <5>1, <5>2
            <4> QED
                BY <2>1, <3>2, <4>1, <4>2
        <3> QED
            BY <3>1, <3>2
    <2>11. Located(r) /\ Signed(r)
        BY <2>8, <2>9, <2>10 DEF Good, Located, Signed
    <2> QED
        BY <2>8, <2>11 DEF Good, r
<1> QED
    BY <1>1, <1>2, <1>3

-----------------------------------------------------------------------------
(* Routes and packets *)

LEMMA RouteIs ==
    ASSUME NEW d, NEW a, Routes(d, a) # {}
    PROVE  Route(d, a).interface \in Interface
<1>1. Route(d, a) \in Routes(d, a)
    BY DEF Route
<1>2. \A b : Connected(d, b) \subseteq Interface
    BY DEF Connected, UpInterfaces
<1>3. \A r \in Routes(d, a) : r.interface \in Interface
    BY <1>2 DEF Routes
<1> QED
    BY <1>1, <1>3

LEMMA RequestArpGood ==
    ASSUME NEW n, Good(n), NEW route, route.interface \in Interface
    PROVE  Good(RequestArp(n, route))
<1> DEFINE body == Arp("request", route.interface, route.next_hop)
<1>1. <<body>> \in Seq({body})
    OBVIOUS
<1> QED
    BY <1>1, TransmitGood DEF RequestArp

LEMMA SendViaGood ==
    ASSUME NEW n, Good(n), NEW route, route.interface \in Interface, NEW pkt
    PROVE  Good(SendVia(n, route, pkt))
<1> DEFINE w == Waits(route, pkt)
           queued == [n EXCEPT !.pending = Append(@, w)]
<1>1. Good(queued)
    <2>1. PICK T : n.pending \in Seq(T)
        BY DEF Good
    <2>2. n.pending \in Seq(T \cup {w})
        BY <2>1, SeqMonotonic
    <2>3. Append(n.pending, w) \in Seq(T \cup {w})
        BY <2>2, AppendProperties
    <2>4. /\ DOMAIN queued = Parts /\ queued.mac = n.mac /\ queued.sent = n.sent
          /\ queued.pending = Append(n.pending, w) /\ queued.ping = n.ping
        BY DEF Good, Parts
    <2> HIDE DEF queued, w
    <2> QED
        BY <2>3, <2>4 DEF Good, Located, Signed
<1>2. <<pkt>> \in Seq({pkt})
    OBVIOUS
<1>3. CASE Resolved(n, route)
    BY <1>2, <1>3, TransmitGood DEF SendVia
<1>4. CASE ~Resolved(n, route) /\ NoRoom(n, route.interface)
    BY <1>4 DEF SendVia
<1>5. CASE ~Resolved(n, route) /\ ~NoRoom(n, route.interface)
    <2>1. SendVia(n, route, pkt) = IF WaitingFor(n, route.interface, route.next_hop) = {}
                                   THEN RequestArp(queued, route) ELSE queued
        BY <1>5 DEF SendVia
    <2> HIDE DEF queued
    <2> QED
        BY <1>1, <2>1, RequestArpGood
<1> QED
    BY <1>3, <1>4, <1>5

LEMMA SendPacketGood ==
    ASSUME NEW n, Good(n), NEW d, NEW pkt
    PROVE  Good(SendPacket(n, d, pkt))
BY RouteIs, SendViaGood DEF SendPacket

LEMMA PickedIs ==
    ASSUME NEW s, NEW K, IsFiniteSet(K)
    PROVE  \E T : Picked(s, K) \in Seq(T)
<1>1. Cardinality(K) \in Nat
    BY FS_CardinalityType
<1>2. Picked(s, K) = [j \in 1 .. Cardinality(K) |-> Picked(s, K)[j]]
    BY DEF Picked
<1> QED
    BY <1>1, <1>2, Listed

LEMMA FlushGood ==
    ASSUME NEW n, Good(n), NEW i \in Interface, NEW hop, NEW m
    PROVE  Good(Flush(n, i, hop, m))
<1> DEFINE ready == WaitingFor(n, i, hop)
           rest == Picked(n.pending, DOMAIN n.pending \ ready)
           kept == [n EXCEPT !.pending = rest]
           gone == Picked(n.pending, ready)
<1>1. IsFiniteSet(DOMAIN n.pending)
    <2>1. PICK T : n.pending \in Seq(T)
        BY DEF Good
    <2>2. DOMAIN n.pending = 1 .. Len(n.pending) /\ Len(n.pending) \in Nat
        BY <2>1, LenProperties
    <2>3. ASSUME NEW l \in Nat PROVE IsFiniteSet(1 .. l)
        <3>1. 1 \in Int /\ l \in Int
            OBVIOUS
        <3> QED
            BY <3>1, FS_Interval, ZenonT(30)
    <2> QED
        BY <2>2, <2>3
<1>2. IsFiniteSet(ready) /\ IsFiniteSet(DOMAIN n.pending \ ready)
    <2>1. ready \subseteq DOMAIN n.pending
        BY DEF WaitingFor
    <2> QED
        BY <1>1, <2>1, FS_Subset
<1>3. \E T : rest \in Seq(T)
    BY <1>2, PickedIs
<1>4. PICK T : gone \in Seq(T)
    BY <1>2, PickedIs
<1>5. Good(kept)
    <2>1. /\ DOMAIN kept = Parts /\ kept.mac = n.mac /\ kept.sent = n.sent
          /\ kept.pending = rest /\ kept.ping = n.ping
        BY DEF Good, Parts
    <2> HIDE DEF kept, rest
    <2> QED
        BY <1>3, <2>1 DEF Good, Located, Signed
<1>6. \E B : Packets(gone) \in Seq(B)
    <2>1. DOMAIN gone = 1 .. Len(gone) /\ Len(gone) \in Nat
        BY <1>4, LenProperties
    <2>2. Packets(gone) = [k \in 1 .. Len(gone) |-> Packets(gone)[k]]
        BY <2>1 DEF Packets
    <2> QED
        BY <2>1, <2>2, Listed
<1>7. Flush(n, i, hop, m) = Transmit(kept, i, m, Packets(gone))
    BY DEF Flush
<1> QED
    BY <1>5, <1>6, <1>7, TransmitGood

LEMMA HandleArpGood ==
    ASSUME NEW n, Good(n), NEW i \in Interface, NEW f
    PROVE  Good(HandleArp(n, i, f))
<1> DEFINE d == DeviceOf[i]
           learned == [n EXCEPT !.arp[d][f.body.sender] = [mac |-> f.source, interface |-> i]]
           body == Arp("reply", i, f.body.sender)
           answered == IF f.body.op = "reply" THEN learned
                       ELSE Transmit(learned, i, f.source, <<body>>)
<1>1. Good(learned)
    <2>1. /\ DOMAIN learned = Parts /\ learned.mac = n.mac /\ learned.sent = n.sent
          /\ learned.pending = n.pending /\ learned.ping = n.ping
        BY DEF Good, Parts
    <2> QED
        BY <2>1, SameGood DEF Good
<1>2. <<body>> \in Seq({body})
    OBVIOUS
<1>3. HandleArp(n, i, f) \in {n, Flush(answered, i, f.body.sender, f.source)}
    BY DEF HandleArp
<1> HIDE DEF learned, body
<1>4. Good(answered)
    BY <1>1, <1>2, TransmitGood
<1> HIDE DEF answered
<1>5. Good(Flush(answered, i, f.body.sender, f.source))
    BY <1>4, FlushGood
<1> QED
    BY <1>3, <1>5

LEMMA SendErrorGood ==
    ASSUME NEW n, Good(n), NEW d, NEW pkt, NEW kind
    PROVE  Good(SendError(n, d, pkt, kind))
<1> DEFINE noted == IF pkt.type # "request" THEN n
                    ELSE [n EXCEPT !.refused = @ \cup {<<pkt.id, pkt.seq, kind>>}]
           route == Route(d, pkt.src)
           error == [type |-> kind, src |-> route.interface, dst |-> pkt.src,
                     ttl |-> DefaultTtl, id |-> pkt.id, seq |-> pkt.seq,
                     about |-> [type |-> pkt.type, src |-> pkt.src, dst |-> pkt.dst]]
<1>1. Good(noted)
    <2>1. /\ DOMAIN noted = Parts /\ noted.mac = n.mac /\ noted.sent = n.sent
          /\ noted.pending = n.pending /\ noted.ping = n.ping
        BY DEF Good, Parts
    <2> QED
        BY <2>1, SameGood DEF Good
<1>2. CASE IsError(pkt) \/ Routes(d, pkt.src) = {}
    BY <1>2 DEF SendError
<1>3. CASE ~(IsError(pkt) \/ Routes(d, pkt.src) = {})
    <2>1. SendError(n, d, pkt, kind) = SendVia(noted, route, error)
        BY <1>3 DEF SendError
    <2>2. route.interface \in Interface
        BY <1>3, RouteIs
    <2> HIDE DEF noted, route, error
    <2> QED
        BY <1>1, <2>1, <2>2, SendViaGood
<1> QED
    BY <1>2, <1>3

LEMMA HandleLocalGood ==
    ASSUME NEW n, Good(n), NEW d, NEW pkt
    PROVE  Good(HandleLocal(n, d, pkt))
<1>1. CASE ~(pkt.type = "reply" \/ IsError(pkt) \/ pkt.type = "request")
    <2> DEFINE r == [n EXCEPT !.arrived = Append(@, pkt.id)]
    <2>1. /\ DOMAIN r = Parts /\ r.mac = n.mac /\ r.sent = n.sent
          /\ r.pending = n.pending /\ r.ping = n.ping
        BY DEF Good, Parts
    <2>2. HandleLocal(n, d, pkt) = r
        BY <1>1 DEF HandleLocal, IsError
    <2> QED
        BY <2>1, <2>2, SameGood DEF Good
<1>2. CASE pkt.type = "reply" \/ IsError(pkt)
    <2> DEFINE r == [n EXCEPT !.icmp = [device |-> d, packet |-> pkt]]
    <2>1. /\ DOMAIN r = Parts /\ r.mac = n.mac /\ r.sent = n.sent
          /\ r.pending = n.pending /\ r.ping = n.ping
        BY DEF Good, Parts
    <2>2. HandleLocal(n, d, pkt) = r
        BY <1>2 DEF HandleLocal, IsError
    <2> QED
        BY <2>1, <2>2, SameGood DEF Good
<1>3. CASE pkt.type = "request"
    <2> DEFINE r == [n EXCEPT !.echoed = @ \cup {<<pkt.id, pkt.seq>>}]
               answer == Echo("reply", pkt.dst, pkt.src, DefaultTtl, pkt.id, pkt.seq)
    <2>1. /\ DOMAIN r = Parts /\ r.mac = n.mac /\ r.sent = n.sent
          /\ r.pending = n.pending /\ r.ping = n.ping
        BY DEF Good, Parts
    <2>2. HandleLocal(n, d, pkt) = SendPacket(r, d, answer)
        BY <1>3 DEF HandleLocal, IsError
    <2>3. Good(r)
        BY <2>1, SameGood DEF Good
    <2> HIDE DEF r, answer
    <2> QED
        BY <2>2, <2>3, SendPacketGood
<1> QED
    BY <1>1, <1>2, <1>3

LEMMA HandleIpv4Good ==
    ASSUME NEW n, Good(n), NEW d, NEW pkt
    PROVE  Good(HandleIpv4(n, d, pkt))
<1>1. Good(ForwardIpv4(n, d, pkt))
    <2>1. ForwardIpv4(n, d, pkt) \in
             {n, SendError(n, d, pkt, "T"), SendError(n, d, pkt, "U"),
              SendPacket(n, d, [pkt EXCEPT !.ttl = @ - 1])}
        BY DEF ForwardIpv4
    <2> QED
        BY <2>1, SendErrorGood, SendPacketGood
<1> QED
    BY <1>1, HandleLocalGood DEF HandleIpv4

LEMMA HandleFrameGood ==
    ASSUME NEW n, Good(n), NEW i \in Interface, NEW f
    PROVE  Good(HandleFrame(n, i, f))
BY HandleArpGood, HandleIpv4Good DEF HandleFrame

LEMMA HandleStationGood ==
    ASSUME NEW n, Good(n), NEW h, NEW f
    PROVE  Good(HandleStation(n, h, f))
<1> DEFINE to == {i \in Ingress(h, f.tag) : f.destination \in {MacOf[i], Broadcast}}
<1>1. to \subseteq Interface
    BY DEF Ingress
<1>2. HandleStation(n, h, f) = IF to = {} THEN n ELSE HandleFrame(n, CHOOSE i \in to : TRUE, f)
    BY DEF HandleStation
<1> HIDE DEF to
<1>3. to # {} => (CHOOSE i \in to : TRUE) \in to
    OBVIOUS
<1> QED
    BY <1>1, <1>2, <1>3, HandleFrameGood

-----------------------------------------------------------------------------
(* The switch learns *)

LEMMA ForwardGood ==
    ASSUME NEW n, Good(n), NEW p \in Port, NEW v \in Vlan, NEW f, NEW h \in On(p),
           Carries(p, v), HasMac(h, f.source)
    PROVE  Good(Forward(n, p, v, f))
<1> DEFINE learned == [n EXCEPT !.mac[v][f.source] = p]
<1>1. f.source \in Mac
    BY DEF HasMac, Mac
<1>2. /\ DOMAIN learned = Parts /\ learned.sent = n.sent /\ learned.pending = n.pending
      /\ learned.ping = n.ping
      /\ learned.mac = [n.mac EXCEPT ![v] = [@ EXCEPT ![f.source] = p]]
    BY DEF Good, Parts
<1>3. n.mac \in [Vlan -> [Mac -> Port \cup {Unplugged}]]
    BY DEF Good, Located
<1>4. /\ learned.mac \in [Vlan -> [Mac -> Port \cup {Unplugged}]]
      /\ learned.mac[v][f.source] = p
      /\ \A w \in Vlan, m \in Mac : ~(w = v /\ m = f.source) =>
            learned.mac[w][m] = n.mac[w][m]
    BY <1>1, <1>2, <1>3
<1>5. Forward(n, p, v, f) =
         Output(learned, Egress(learned, v, f.destination) \ {p}, v, <<f>>)
    BY DEF Forward
<1> HIDE DEF learned
<1>6. Located(learned)
    <2>1. ASSUME NEW w \in Vlan, NEW m \in Mac, learned.mac[w][m] # Unplugged
          PROVE  Carries(learned.mac[w][m], w) /\ \E k \in On(learned.mac[w][m]) : HasMac(k, m)
        <3>1. CASE w = v /\ m = f.source
            BY <1>4, <3>1
        <3>2. CASE ~(w = v /\ m = f.source)
            <4>1. learned.mac[w][m] = n.mac[w][m]
                BY <1>4, <3>2
            <4> QED
                BY <2>1, <4>1 DEF Good, Located
        <3> QED
            BY <3>1, <3>2
    <2> QED
        BY <1>4, <2>1 DEF Located
<1>7. Good(learned)
    BY <1>2, <1>6 DEF Good, Signed
<1> QED
    BY <1>5, <1>7, OutputGood

\* The cabling and the configuration.
Cabled ==
    /\ at \in [Station -> Port \cup {Unplugged}] /\ up \in [Station -> BOOLEAN]
    /\ access_vlan \in [Port -> Vlan] /\ vlans \subseteq Vlan

LEMMA HandleSwitchGood ==
    ASSUME Cabled, NEW n, Good(n), NEW h \in Station, Live(h), NEW f, Accepts(at[h], f),
           HasMac(h, f.source)
    PROVE  Good(HandleSwitch(n, at[h], f))
<1> DEFINE p == at[h]
           v == VlanOf(p, f)
           fresh == Refreshed(n)
           svi == {i \in Svis(v) : f.destination \in {MacOf[i], Broadcast}}
           served == IF svi = {} THEN fresh
                     ELSE HandleFrame(fresh, CHOOSE i \in svi : TRUE, f)
<1>1. p \in Port /\ h \in On(p)
    BY DEF Cabled, Live, On
<1>2. Carries(p, v) /\ v \in Vlan
    BY DEF Accepts, Carries, Cabled
<1>3. svi \subseteq Interface
    BY DEF Svis
<1>4. HandleSwitch(n, p, f) \in {served, Forward(served, p, v, f)}
    BY DEF HandleSwitch
<1>5. Good(served)
    <2>1. Good(fresh)
        BY RefreshedGood
    <2> HIDE DEF svi, fresh
    <2>2. svi # {} => (CHOOSE i \in svi : TRUE) \in svi
        OBVIOUS
    <2> QED
        BY <1>3, <2>1, <2>2, HandleFrameGood
<1> HIDE DEF served, v, p
<1>6. Good(Forward(served, p, v, f))
    BY <1>1, <1>2, <1>5, ForwardGood
<1> QED
    BY <1>4, <1>5, <1>6 DEF p

-----------------------------------------------------------------------------
(* The ping command *)

LEMMA SetPing ==
    ASSUME NEW n, Good(n), NEW g, Routed(g)
    PROVE  Good([n EXCEPT !.ping = g])
<1> DEFINE r == [n EXCEPT !.ping = g]
<1>1. /\ DOMAIN r = Parts /\ r.mac = n.mac /\ r.sent = n.sent /\ r.pending = n.pending
      /\ r.ping = g
    BY DEF Good, Parts
<1> QED
    BY <1>1, SameGood

LEMMA Quiet ==
    ASSUME NEW n, Good(n)
    PROVE  /\ Good([n EXCEPT !.icmp = NoIcmp])
           /\ \A r : Good([n EXCEPT !.report = @ \cup {r}])
           /\ [n EXCEPT !.icmp = NoIcmp].ping = n.ping
<1> DEFINE q == [n EXCEPT !.icmp = NoIcmp]
<1>1. /\ DOMAIN q = Parts /\ q.mac = n.mac /\ q.sent = n.sent /\ q.pending = n.pending
      /\ q.ping = n.ping
    BY DEF Good, Parts
<1>2. ASSUME NEW r PROVE Good([n EXCEPT !.report = @ \cup {r}])
    <2> DEFINE k == [n EXCEPT !.report = @ \cup {r}]
    <2>1. /\ DOMAIN k = Parts /\ k.mac = n.mac /\ k.sent = n.sent /\ k.pending = n.pending
          /\ k.ping = n.ping
        BY DEF Good, Parts
    <2> QED
        BY <2>1, SameGood DEF Good
<1> QED
    BY <1>1, <1>2, SameGood DEF Good

\* A ping that has begun.
Begun(g) == "route" \in DOMAIN g /\ g.route.interface \in Interface

LEMMA BegunPing ==
    ASSUME NEW g, Begun(g)
    PROVE  /\ Routed(g) /\ \A x : Routed([g EXCEPT !.state = x])
           /\ Begun([g EXCEPT !.seq = @ + 1])
BY DEF Begun, Routed

LEMMA SendEchoGood ==
    ASSUME NEW n, Good(n), NEW g, Begun(g)
    PROVE  Good(SendEcho(n, g))
BY SendPacketGood, BegunPing, SetPing DEF SendEcho

LEMMA ProbeGood ==
    ASSUME NEW n, Good(n), NEW g, Begun(g)
    PROVE  Good(Probe(n, g))
<1>1. Good(SendEcho(n, g))
    BY SendEchoGood
<1>2. Good([n EXCEPT !.ping = Idle])
    BY SetPing DEF Routed
<1>3. Good([RequestArp(n, g.route) EXCEPT !.ping = [g EXCEPT !.state = "arp"]])
    <2>1. Good(RequestArp(n, g.route))
        BY RequestArpGood DEF Begun
    <2> QED
        BY <2>1, BegunPing, SetPing
<1>4. Probe(n, g) \in {SendEcho(n, g), [n EXCEPT !.ping = Idle],
                       [RequestArp(n, g.route) EXCEPT !.ping = [g EXCEPT !.state = "arp"]]}
    BY DEF Probe
<1> QED
    BY <1>1, <1>2, <1>3, <1>4

LEMMA MarkedGood ==
    ASSUME NEW n, Good(n), NEW g, Begun(g), NEW mark
    PROVE  Good(Marked(n, g, mark))
<1> DEFINE noted == [n EXCEPT !.report = @ \cup {[id |-> g.id, seq |-> g.seq, mark |-> mark]}]
           next == [g EXCEPT !.seq = @ + 1]
<1>1. Good(noted)
    BY Quiet
<1>2. Begun(next)
    BY BegunPing
<1>3. Marked(n, g, mark) \in {[noted EXCEPT !.ping = Idle], Probe(noted, next)}
    BY DEF Marked
<1> HIDE DEF noted, next
<1>4. Good([noted EXCEPT !.ping = Idle]) /\ Good(Probe(noted, next))
    BY <1>1, <1>2, SetPing, ProbeGood DEF Routed
<1> QED
    BY <1>3, <1>4

LEMMA DrivenGood ==
    ASSUME NEW n, Good(n)
    PROVE  Good(Driven(n))
<1> DEFINE quiet == [n EXCEPT !.icmp = NoIcmp]
           g == n.ping
<1>1. Good(quiet)
    BY Quiet
<1>2. g.state \in {"arp", "echo"} => Begun(g)
    BY DEF Good, Routed, Begun, Idle
<1>3. CASE g.state = "arp" /\ Resolved(n, g.route)
    <2>1. Driven(n) = SendEcho(quiet, g)
        BY <1>3 DEF Driven
    <2> HIDE DEF quiet, g
    <2> QED
        BY <1>1, <1>2, <1>3, <2>1, SendEchoGood
<1>4. CASE g.state = "echo"
    <2> DEFINE mark == IF n.icmp.device = g.device THEN Signal(g, n.icmp.packet) ELSE None
    <2>1. Driven(n) \in {quiet, Marked(quiet, g, mark)}
        BY <1>4 DEF Driven, Heard
    <2> HIDE DEF quiet, g, mark
    <2> QED
        BY <1>1, <1>2, <1>4, <2>1, MarkedGood
<1>5. CASE ~(g.state = "arp" /\ Resolved(n, g.route)) /\ g.state # "echo"
    BY <1>1, <1>5 DEF Driven
<1> QED
    BY <1>3, <1>4, <1>5

-----------------------------------------------------------------------------
(* The events *)

\* The inductive invariant.
LanInv == Cabled /\ Good(net)

\* The cabling and the configuration stay.
LEMMA EventKeeps ==
    ASSUME LanInv, Good(net'), UNCHANGED <<at, up, access_vlan, allowed, vlans>>
    PROVE  LanInv'
BY DEF LanInv, Cabled, Good, Located, Signed, Carries, On, Live

LEMMA TailGood ==
    ASSUME LanInv, NEW h \in Station, net.sent[h] # <<>>
    PROVE  /\ Good([net EXCEPT !.sent[h] = Tail(@)])
           /\ Live(h) /\ HasMac(h, Head(net.sent[h]).source)
<1> DEFINE r == [net EXCEPT !.sent[h] = Tail(@)]
           s == net.sent[h]
<1>1. PICK T : net.sent \in [Station -> Seq(T)]
    BY DEF LanInv, Good, Signed
<1>2. /\ s \in Seq(T) /\ Len(s) \in Nat /\ Len(s) >= 1 /\ Head(s) = s[1]
      /\ Tail(s) \in Seq(T) /\ Len(Tail(s)) = Len(s) - 1
      /\ \A k \in 1 .. Len(Tail(s)) : Tail(s)[k] = s[k + 1]
    <2>1. s \in Seq(T)
        BY <1>1
    <2> HIDE DEF s
    <2>2. s # <<>>
        BY DEF s
    <2> QED
        BY <2>1, <2>2, HeadTailProperties, EmptySeq, LenProperties
<1>3. /\ DOMAIN r = Parts /\ r.mac = net.mac /\ r.pending = net.pending /\ r.ping = net.ping
      /\ r.sent = [net.sent EXCEPT ![h] = Tail(s)]
    BY DEF LanInv, Good, Parts
<1>4. Live(h) /\ \A k \in 1 .. Len(s) : HasMac(h, s[k].source)
    BY DEF LanInv, Good, Signed
<1> HIDE DEF r, s
<1>5. Signed(r)
    <2>1. r.sent \in [Station -> Seq(T)]
        BY <1>1, <1>2, <1>3
    <2>2. ASSUME NEW g \in Station
          PROVE  /\ r.sent[g] # <<>> => Live(g)
                 /\ \A k \in 1 .. Len(r.sent[g]) : HasMac(g, r.sent[g][k].source)
        <3>1. CASE g = h
            <4>1. r.sent[g] = Tail(s)
                BY <1>1, <1>3, <3>1
            <4>2. ASSUME NEW k \in 1 .. Len(Tail(s)) PROVE HasMac(h, Tail(s)[k].source)
                <5>1. k + 1 \in 1 .. Len(s) /\ Tail(s)[k] = s[k + 1]
                    BY <1>2
                <5> QED
                    BY <1>4, <5>1
            <4> QED
                BY <1>4, <3>1, <4>1, <4>2
        <3>2. CASE g # h
            <4>1. r.sent[g] = net.sent[g]
                BY <1>1, <1>3, <3>2
            <4> QED
                BY <4>1 DEF LanInv, Good, Signed
        <3> QED
            BY <3>1, <3>2
    <2> QED
        BY <2>1, <2>2 DEF Signed
<1>6. Good(r)
    BY <1>3, <1>5 DEF LanInv, Good, Located
<1>7. HasMac(h, Head(s).source)
    BY <1>2, <1>4
<1> QED
    BY <1>4, <1>6, <1>7 DEF r, s

LEMMA OutGood ==
    ASSUME LanInv, NEW h
    PROVE  Good([net EXCEPT !.out[h] = Tail(@)])
<1> DEFINE r == [net EXCEPT !.out[h] = Tail(@)]
<1>1. /\ DOMAIN r = Parts /\ r.mac = net.mac /\ r.sent = net.sent
      /\ r.pending = net.pending /\ r.ping = net.ping
    BY DEF LanInv, Good, Parts
<1> QED
    BY <1>1, SameGood DEF LanInv, Good

LEMMA SwitchReceivesKeeps ==
    ASSUME LanInv, NEW h \in Station, SwitchReceives(h)
    PROVE  LanInv'
<1> DEFINE f == Head(net.sent[h])
           n == [net EXCEPT !.sent[h] = Tail(@)]
<1>1. Good(n) /\ Live(h) /\ HasMac(h, f.source)
    BY TailGood DEF SwitchReceives
<1>2. /\ net' = Driven(IF Accepts(at[h], f) THEN HandleSwitch(n, at[h], f) ELSE n)
      /\ UNCHANGED <<at, up, access_vlan, allowed, vlans>>
    BY DEF SwitchReceives
<1> HIDE DEF f, n
<1>3. Accepts(at[h], f) => Good(HandleSwitch(n, at[h], f))
    BY <1>1, HandleSwitchGood DEF LanInv
<1>4. Good(net')
    BY <1>1, <1>2, <1>3, DrivenGood
<1> QED
    BY <1>2, <1>4, EventKeeps

LEMMA StationReceivesKeeps ==
    ASSUME LanInv, NEW h \in Station, StationReceives(h)
    PROVE  LanInv'
<1> DEFINE n == [net EXCEPT !.out[h] = Tail(@)]
<1>1. Good(n)
    BY OutGood
<1>2. /\ net' = Driven(HandleStation(n, h, Head(net.out[h])))
      /\ UNCHANGED <<at, up, access_vlan, allowed, vlans>>
    BY DEF StationReceives
<1> HIDE DEF n
<1>3. Good(net')
    BY <1>1, <1>2, HandleStationGood, DrivenGood
<1> QED
    BY <1>2, <1>3, EventKeeps

LEMMA PingKeeps ==
    ASSUME LanInv, NEW t, Ping(t)
    PROVE  LanInv'
<1> DEFINE r == Route(t.device, t.dst)
           g == [state |-> "arp", device |-> t.device, route |-> r, dst |-> t.dst,
                 ttl |-> t.ttl, id |-> used.pings, seq |-> 0]
<1>1. net' = Probe(net, g) /\ UNCHANGED <<at, up, access_vlan, allowed, vlans>>
    BY DEF Ping
<1>2. r.interface \in Interface
    BY RouteIs DEF Ping
<1>3. Begun(g)
    BY <1>2 DEF Begun
<1> HIDE DEF g, r
<1>4. Good(net')
    BY <1>1, <1>3, ProbeGood DEF LanInv
<1> QED
    BY <1>1, <1>4, EventKeeps

LEMMA TimeoutKeeps ==
    ASSUME LanInv, Timeout
    PROVE  LanInv'
<1>1. Begun(net.ping)
    BY DEF Timeout, LanInv, Good, Routed, Begun
<1>2. Good(net')
    BY <1>1, MarkedGood DEF Timeout, LanInv
<1> QED
    BY <1>2, EventKeeps DEF Timeout

\* The events that send a packet, let one expire or refresh the trees.
LEMMA TimerKeeps ==
    ASSUME LanInv, SendData \/ Expire \/ StpHello
    PROVE  LanInv'
<1>1. CASE SendData
    <2>1. Good(net')
        BY <1>1, SendPacketGood DEF SendData, LanInv
    <2> QED
        BY <1>1, <2>1, EventKeeps DEF SendData
<1>2. CASE Expire
    <2> DEFINE r == [net EXCEPT !.pending = Tail(@)]
    <2>1. PICK T : net.pending \in Seq(T)
        BY DEF LanInv, Good
    <2>2. Tail(net.pending) \in Seq(T)
        BY <1>2, <2>1, HeadTailProperties DEF Expire
    <2>3. /\ DOMAIN r = Parts /\ r.mac = net.mac /\ r.sent = net.sent
          /\ r.pending = Tail(net.pending) /\ r.ping = net.ping
        BY DEF LanInv, Good, Parts
    <2> HIDE DEF r
    <2>4. Good(r)
        BY <2>2, <2>3 DEF LanInv, Good, Located, Signed
    <2> QED
        BY <1>2, <2>4, EventKeeps DEF Expire, r
<1>3. CASE StpHello
    <2>1. Good(net')
        BY <1>3, RefreshedGood DEF StpHello, LanInv
    <2> QED
        BY <1>3, <2>1, EventKeeps DEF StpHello
<1> QED
    BY <1>1, <1>2, <1>3

LEMMA LoseKeeps ==
    ASSUME LanInv, NEW h \in Station, Lose(h)
    PROVE  LanInv'
<1>1. Good(net')
    <2>1. \/ net.sent[h] # <<>> /\ net' = [net EXCEPT !.sent[h] = Tail(@)]
          \/ net' = [net EXCEPT !.out[h] = Tail(@)]
        BY DEF Lose
    <2>2. net.sent[h] # <<>> => Good([net EXCEPT !.sent[h] = Tail(@)])
        BY TailGood
    <2>3. Good([net EXCEPT !.out[h] = Tail(@)])
        BY OutGood
    <2> QED
        BY <2>1, <2>2, <2>3
<1> QED
    BY <1>1, EventKeeps DEF Lose

LEMMA AgeArpKeeps ==
    ASSUME LanInv, NEW d, NEW a, AgeArp(d, a)
    PROVE  LanInv'
<1> DEFINE r == [net EXCEPT !.arp[d][a] = NoEntry]
<1>1. /\ DOMAIN r = Parts /\ r.mac = net.mac /\ r.sent = net.sent
      /\ r.pending = net.pending /\ r.ping = net.ping
    BY DEF LanInv, Good, Parts
<1>2. Good(r)
    BY <1>1, SameGood DEF LanInv, Good
<1> QED
    BY <1>2, EventKeeps DEF AgeArp

\* An entry is forgotten, or entries are.
Forgets(r) ==
    /\ DOMAIN r = Parts /\ r.pending = net.pending /\ r.ping = net.ping
    /\ r.mac \in [Vlan -> [Mac -> Port \cup {Unplugged}]]
    /\ \A v \in Vlan, m \in Mac : r.mac[v][m] \in {net.mac[v][m], Unplugged}

LEMMA AgeMacKeeps ==
    ASSUME LanInv, NEW v \in Vlan, NEW m \in Mac, AgeMac(v, m)
    PROVE  LanInv'
<1> DEFINE r == [net EXCEPT !.mac[v][m] = Unplugged]
<1>1. /\ DOMAIN r = Parts /\ r.sent = net.sent /\ r.pending = net.pending
      /\ r.ping = net.ping
      /\ r.mac = [net.mac EXCEPT ![v] = [@ EXCEPT ![m] = Unplugged]]
    BY DEF LanInv, Good, Parts
<1>2. net.mac \in [Vlan -> [Mac -> Port \cup {Unplugged}]]
    BY DEF LanInv, Good, Located
<1>3. Forgets(r)
    BY <1>1, <1>2 DEF Forgets
<1> HIDE DEF r
<1>4. Good(r)
    BY <1>1, <1>3 DEF LanInv, Good, Forgets, Located, Signed
<1> QED
    BY <1>4, EventKeeps DEF AgeMac, r

-----------------------------------------------------------------------------
(* Changes of the cabling and the configuration *)

\* The table says of a station in VLAN v that it is on port p.
Told(p, v) == \E m \in Mac : net.mac[v][m] = p

LEMMA PurgedForgets ==
    ASSUME LanInv, NEW n, DOMAIN n = Parts, n.mac = net.mac, n.pending = net.pending,
           n.ping = net.ping, NEW p
    PROVE  /\ Forgets(Purged(n, p)) /\ Purged(n, p).sent = n.sent
           /\ \A v \in Vlan, m \in Mac :
                 Purged(n, p).mac[v][m] # Unplugged => Purged(n, p).mac[v][m] # p
<1> DEFINE r == Purged(n, p)
           mac == [v \in Vlan |-> [m \in Mac |-> IF net.mac[v][m] = p THEN Unplugged
                                                 ELSE net.mac[v][m]]]
<1>1. /\ DOMAIN r = Parts /\ r.sent = n.sent /\ r.pending = net.pending
      /\ r.ping = net.ping /\ r.mac = mac
    BY DEF Purged, Parts
<1> HIDE DEF r
<1>2. net.mac \in [Vlan -> [Mac -> Port \cup {Unplugged}]]
    BY DEF LanInv, Good, Located
<1>3. mac \in [Vlan -> [Mac -> Port \cup {Unplugged}]]
    BY <1>2
<1>4. \A v \in Vlan, m \in Mac :
         mac[v][m] \in {net.mac[v][m], Unplugged} /\ (mac[v][m] # Unplugged => mac[v][m] # p)
    OBVIOUS
<1> HIDE DEF mac
<1> QED
    BY <1>1, <1>3, <1>4 DEF Forgets, r

\* The new cabling carries what the table still says, and what is still under
\* way.
LEMMA ChangeKeeps ==
    ASSUME LanInv, Cabled', Forgets(net'),
           net'.sent \in {net.sent} \cup {[net.sent EXCEPT ![h] = <<>>] : h \in Station},
           \A h \in Station : net'.sent[h] # <<>> /\ Live(h) => Live(h)',
           \A v \in Vlan, p \in Port : \A h \in On(p) :
              Told(p, v)' /\ Carries(p, v) => Carries(p, v)' /\ h \in On(p)'
    PROVE  LanInv'
<1>1. Located(net)'
    <2>1. ASSUME NEW v \in Vlan, NEW m \in Mac, NEW p \in Port, net'.mac[v][m] = p
          PROVE  Carries(p, v)' /\ \E h \in On(p)' : HasMac(h, m)
        <3>1. p # Unplugged
            BY DEF Unplugged
        <3>2. net.mac[v][m] = p
            BY <2>1, <3>1 DEF Forgets
        <3>3. PICK h \in On(p) : Carries(p, v) /\ HasMac(h, m)
            BY <3>1, <3>2 DEF LanInv, Good, Located
        <3>4. Told(p, v)'
            BY <2>1 DEF Told
        <3>5. Carries(p, v)' /\ h \in On(p)'
            BY <3>3, <3>4
        <3> QED
            BY <3>3, <3>5
    <2>2. net'.mac \in [Vlan -> [Mac -> Port \cup {Unplugged}]]
        BY DEF Forgets
    <2>3. ASSUME NEW v \in Vlan, NEW m \in Mac, net'.mac[v][m] # Unplugged
          PROVE  (Carries(net.mac[v][m], v) /\ \E h \in On(net.mac[v][m]) : HasMac(h, m))'
        <3>1. net'.mac[v][m] \in Port \cup {Unplugged}
            BY <2>2
        <3>2. PICK p \in Port : net'.mac[v][m] = p
            BY <2>3, <3>1
        <3>3. Carries(p, v)' /\ \E h \in On(p)' : HasMac(h, m)
            BY <2>1, <3>2
        <3> QED
            BY <3>2, <3>3 DEF Carries, On, HasMac
    <2> QED
        BY <2>3, <2>2 DEF Located
<1>2. Signed(net)'
    <2>1. PICK T : net.sent \in [Station -> Seq(T)]
        BY DEF LanInv, Good, Signed
    <2>2. net'.sent \in [Station -> Seq(T)]
        <3>1. <<>> \in Seq(T)
            OBVIOUS
        <3>2. CASE net'.sent = net.sent
            BY <2>1, <3>2
        <3>3. ASSUME NEW h \in Station, net'.sent = [net.sent EXCEPT ![h] = <<>>]
              PROVE  net'.sent \in [Station -> Seq(T)]
            BY <2>1, <3>1, <3>3
        <3> QED
            BY <3>2, <3>3
    <2>3. ASSUME NEW h \in Station
          PROVE  net'.sent[h] = net.sent[h] \/ net'.sent[h] = <<>>
        BY <2>1
    <2>4. ASSUME NEW h \in Station
          PROVE  /\ net'.sent[h] # <<>> => Live(h)'
                 /\ \A k \in 1 .. Len(net'.sent[h]) : HasMac(h, net'.sent[h][k].source)
        <3>1. CASE net'.sent[h] = <<>>
            <4>1. Len(net'.sent[h]) = 0
                BY <3>1
            <4> QED
                BY <3>1, <4>1
        <3>2. CASE net'.sent[h] # <<>>
            <4>1. net'.sent[h] = net.sent[h]
                BY <2>3, <3>2
            <4>2. Live(h) /\ \A k \in 1 .. Len(net.sent[h]) : HasMac(h, net.sent[h][k].source)
                BY <3>2, <4>1 DEF LanInv, Good, Signed
            <4> QED
                BY <3>2, <4>1, <4>2
        <3> QED
            BY <3>1, <3>2
    <2> QED
        BY <2>2, <2>4 DEF Signed, HasMac
<1>3. Good(net)'
    BY <1>1, <1>2 DEF LanInv, Good, Forgets, Routed
<1> QED
    BY <1>3 DEF LanInv

LEMMA StaysForgets ==
    ASSUME LanInv
    PROVE  Forgets(net)
BY DEF LanInv, Good, Located, Forgets

LEMMA CarrierLostForgets ==
    ASSUME LanInv, NEW h \in Station
    PROVE  /\ Forgets(CarrierLost(h)) /\ CarrierLost(h).sent = [net.sent EXCEPT ![h] = <<>>]
           /\ CarrierLost(h).sent[h] = <<>>
           /\ \A v \in Vlan, m \in Mac :
                 CarrierLost(h).mac[v][m] # Unplugged => CarrierLost(h).mac[v][m] # at[h]
<1> DEFINE n == [net EXCEPT !.sent[h] = <<>>, !.out[h] = <<>>]
<1>1. /\ DOMAIN n = Parts /\ n.mac = net.mac /\ n.pending = net.pending /\ n.ping = net.ping
      /\ n.sent = [net.sent EXCEPT ![h] = <<>>]
    BY DEF LanInv, Good, Parts
<1>2. CarrierLost(h) = Purged(n, at[h])
    BY DEF CarrierLost
<1>3. [net.sent EXCEPT ![h] = <<>>][h] = <<>>
    BY DEF LanInv, Good, Signed
<1> HIDE DEF n
<1>4. /\ Forgets(Purged(n, at[h])) /\ Purged(n, at[h]).sent = n.sent
      /\ \A v \in Vlan, m \in Mac :
            Purged(n, at[h]).mac[v][m] # Unplugged => Purged(n, at[h]).mac[v][m] # at[h]
    BY <1>1, PurgedForgets
<1> QED
    BY <1>1, <1>2, <1>3, <1>4

LEMMA LinkKeeps ==
    ASSUME LanInv, NEW h \in Station, ChangeLink(h) \/ Unplug(h)
    PROVE  LanInv'
<1>1. CASE net' = CarrierLost(h)
    <2>1. Cabled' /\ UNCHANGED <<access_vlan, allowed, vlans>>
        BY DEF ChangeLink, Unplug, LanInv, Cabled
    <2>2. \A k \in Station : k # h => at'[k] = at[k] /\ up'[k] = up[k]
        BY DEF ChangeLink, Unplug, LanInv, Cabled
    <2>3. /\ Forgets(net') /\ net'.sent = [net.sent EXCEPT ![h] = <<>>] /\ net'.sent[h] = <<>>
          /\ \A v \in Vlan, m \in Mac : net'.mac[v][m] # Unplugged => net'.mac[v][m] # at[h]
        <3>1. /\ Forgets(CarrierLost(h)) /\ CarrierLost(h).sent = [net.sent EXCEPT ![h] = <<>>]
              /\ CarrierLost(h).sent[h] = <<>>
              /\ \A v \in Vlan, m \in Mac :
                    CarrierLost(h).mac[v][m] # Unplugged => CarrierLost(h).mac[v][m] # at[h]
            BY CarrierLostForgets
        <3> QED
            BY <1>1, <3>1
    <2>4. net'.sent \in {[net.sent EXCEPT ![k] = <<>>] : k \in Station}
        BY <2>3
    <2>5. ASSUME NEW k \in Station, net'.sent[k] # <<>>, Live(k) PROVE Live(k)'
        BY <2>2, <2>3, <2>5 DEF Live
    <2>6. ASSUME NEW v \in Vlan, NEW q \in Port, NEW k \in On(q), Told(q, v)', Carries(q, v)
          PROVE  Carries(q, v)' /\ k \in On(q)'
        <3>1. q # at[h]
            BY <2>3, <2>6 DEF Told, Unplugged
        <3> QED
            BY <2>1, <2>2, <2>6, <3>1 DEF On, Carries
    <2> QED
        BY <2>1, <2>3, <2>4, <2>5, <2>6, ChangeKeeps
<1>2. CASE ChangeLink(h) /\ ~up[h]
    <2>1. Cabled' /\ UNCHANGED <<at, access_vlan, allowed, vlans>> /\ net' = net
        BY <1>2 DEF ChangeLink, LanInv, Cabled
    <2>2. \A k \in Station : up[k] => up'[k]
        BY <1>2 DEF ChangeLink, LanInv, Cabled
    <2>3. Forgets(net')
        BY <2>1, StaysForgets
    <2>4. ASSUME NEW k \in Station, Live(k) PROVE Live(k)'
        BY <2>1, <2>2, <2>4 DEF Live
    <2>5. ASSUME NEW v \in Vlan, NEW q \in Port, NEW k \in On(q), Told(q, v)', Carries(q, v)
          PROVE  Carries(q, v)' /\ k \in On(q)'
        BY <2>1, <2>2, <2>5 DEF On, Carries
    <2> QED
        BY <2>1, <2>3, <2>4, <2>5, ChangeKeeps
<1> QED
    BY <1>1, <1>2 DEF ChangeLink, Unplug

LEMMA PlugKeeps ==
    ASSUME LanInv, NEW h \in Station, NEW p \in Port, Plug(h, p)
    PROVE  LanInv'
<1>1. Cabled' /\ UNCHANGED <<up, access_vlan, allowed, vlans>> /\ net' = net
    BY DEF Plug, LanInv, Cabled
<1>2. \A k \in Station : at[k] # Unplugged => at'[k] = at[k]
    BY DEF Plug, LanInv, Cabled
<1>3. Forgets(net')
    BY <1>1, StaysForgets
<1>4. ASSUME NEW k \in Station, Live(k) PROVE Live(k)'
    BY <1>1, <1>2, <1>4 DEF Live
<1>5. ASSUME NEW v \in Vlan, NEW q \in Port, NEW k \in On(q), Told(q, v)', Carries(q, v)
      PROVE  Carries(q, v)' /\ k \in On(q)'
    BY <1>1, <1>2, <1>5 DEF On, Carries, Unplugged
<1> QED
    BY <1>1, <1>3, <1>4, <1>5, ChangeKeeps

LEMMA SetAccessVlanKeeps ==
    ASSUME LanInv, NEW p \in Port, NEW w \in Vlan, SetAccessVlan(p, w)
    PROVE  LanInv'
<1>1. Cabled' /\ UNCHANGED <<at, up, allowed, vlans>> /\ net' = Purged(net, p)
    BY DEF SetAccessVlan, LanInv, Cabled
<1>2. \A q \in Port : q # p => access_vlan'[q] = access_vlan[q]
    BY DEF SetAccessVlan, LanInv, Cabled
<1>3. /\ Forgets(net') /\ net'.sent = net.sent
      /\ \A v \in Vlan, m \in Mac : net'.mac[v][m] # Unplugged => net'.mac[v][m] # p
    BY <1>1, PurgedForgets DEF LanInv, Good
<1>4. ASSUME NEW k \in Station, Live(k) PROVE Live(k)'
    BY <1>1, <1>4 DEF Live
<1>5. ASSUME NEW v \in Vlan, NEW q \in Port, NEW k \in On(q), Told(q, v)', Carries(q, v)
      PROVE  Carries(q, v)' /\ k \in On(q)'
    <2>1. q # p
        BY <1>3, <1>5 DEF Told, Unplugged
    <2> QED
        BY <1>1, <1>2, <1>5, <2>1 DEF On, Carries
<1> QED
    BY <1>1, <1>3, <1>4, <1>5, ChangeKeeps

LEMMA SetAllowedKeeps ==
    ASSUME LanInv, NEW V, SetAllowed(V)
    PROVE  LanInv'
<1> DEFINE mac == [v \in Vlan |-> [m \in Mac |-> IF net.mac[v][m] \in Trunk THEN Unplugged
                                                 ELSE net.mac[v][m]]]
<1>1. Cabled' /\ UNCHANGED <<at, up, access_vlan, vlans>>
    BY DEF SetAllowed, LanInv, Cabled
<1>2. /\ DOMAIN net' = Parts /\ net'.sent = net.sent /\ net'.pending = net.pending
      /\ net'.ping = net.ping /\ net'.mac = mac
    BY DEF SetAllowed, LanInv, Good, Parts
<1>3. net.mac \in [Vlan -> [Mac -> Port \cup {Unplugged}]]
    BY DEF LanInv, Good, Located
<1>4. mac \in [Vlan -> [Mac -> Port \cup {Unplugged}]]
    BY <1>3
<1>5. \A v \in Vlan, m \in Mac :
         /\ mac[v][m] \in {net.mac[v][m], Unplugged}
         /\ mac[v][m] # Unplugged => mac[v][m] \notin Trunk
    OBVIOUS
<1> HIDE DEF mac
<1>6. Forgets(net')
    BY <1>2, <1>4, <1>5 DEF Forgets
<1>7. ASSUME NEW k \in Station, Live(k) PROVE Live(k)'
    BY <1>1, <1>7 DEF Live
<1>8. ASSUME NEW v \in Vlan, NEW q \in Port, NEW k \in On(q), Told(q, v)', Carries(q, v)
      PROVE  Carries(q, v)' /\ k \in On(q)'
    <2>1. q \notin Trunk
        BY <1>2, <1>5, <1>8 DEF Told, Unplugged
    <2> QED
        BY <1>1, <1>8, <2>1 DEF On, Carries
<1> QED
    BY <1>1, <1>2, <1>6, <1>7, <1>8, ChangeKeeps

LEMMA RemoveVlanKeeps ==
    ASSUME LanInv, NEW w \in Vlan, RemoveVlan(w)
    PROVE  LanInv'
<1> DEFINE none == [m \in Mac |-> Unplugged]
<1>1. Cabled' /\ UNCHANGED <<at, up, access_vlan, allowed>> /\ vlans' = vlans \ {w}
    BY DEF RemoveVlan, LanInv, Cabled
<1>2. /\ DOMAIN net' = Parts /\ net'.sent = net.sent /\ net'.pending = net.pending
      /\ net'.ping = net.ping /\ net'.mac = [net.mac EXCEPT ![w] = none]
    BY DEF RemoveVlan, LanInv, Good, Parts
<1>3. net.mac \in [Vlan -> [Mac -> Port \cup {Unplugged}]]
    BY DEF LanInv, Good, Located
<1>4. none \in [Mac -> Port \cup {Unplugged}] /\ \A m \in Mac : none[m] = Unplugged
    OBVIOUS
<1> HIDE DEF none
<1>5. net'.mac[w] = none /\ \A v \in Vlan : v # w => net'.mac[v] = net.mac[v]
    BY <1>2, <1>3
<1>6. Forgets(net')
    <2>1. net'.mac \in [Vlan -> [Mac -> Port \cup {Unplugged}]]
        BY <1>2, <1>3, <1>4
    <2>2. \A v \in Vlan, m \in Mac : net'.mac[v][m] \in {net.mac[v][m], Unplugged}
        BY <1>4, <1>5
    <2> QED
        BY <1>2, <2>1, <2>2 DEF Forgets
<1>7. ASSUME NEW k \in Station, Live(k) PROVE Live(k)'
    BY <1>1, <1>7 DEF Live
<1>8. ASSUME NEW v \in Vlan, NEW q \in Port, NEW k \in On(q), Told(q, v)', Carries(q, v)
      PROVE  Carries(q, v)' /\ k \in On(q)'
    <2>1. v # w
        BY <1>4, <1>5, <1>8 DEF Told, Unplugged
    <2> QED
        BY <1>1, <1>8, <2>1 DEF On, Carries
<1> QED
    BY <1>1, <1>2, <1>6, <1>7, <1>8, ChangeKeeps

LEMMA CreateVlanKeeps ==
    ASSUME LanInv, NEW w \in Vlan, CreateVlan(w)
    PROVE  LanInv'
<1>1. /\ Cabled' /\ UNCHANGED <<at, up, access_vlan, allowed>> /\ net' = net
      /\ vlans \subseteq vlans'
    BY DEF CreateVlan, LanInv, Cabled
<1>2. Forgets(net')
    BY <1>1, StaysForgets
<1>3. ASSUME NEW k \in Station, Live(k) PROVE Live(k)'
    BY <1>1, <1>3 DEF Live
<1>4. ASSUME NEW v \in Vlan, NEW q \in Port, NEW k \in On(q), Told(q, v)', Carries(q, v)
      PROVE  Carries(q, v)' /\ k \in On(q)'
    BY <1>1, <1>4 DEF On, Carries
<1> QED
    BY <1>1, <1>2, <1>3, <1>4, ChangeKeeps

LEMMA InitLan == Init => LanInv
<1> SUFFICES ASSUME Init PROVE LanInv
    OBVIOUS
<1>1. Cabled
    BY DEF Init, Cabled, Unplugged
<1>2. /\ DOMAIN net = Parts /\ net.mac = [v \in Vlan |-> [m \in Mac |-> Unplugged]]
      /\ net.pending = <<>> /\ net.sent = [h \in Station |-> <<>>] /\ net.ping = Idle
    BY DEF Init, Parts
<1>3. Located(net)
    BY <1>2 DEF Located
<1>4. <<>> \in Seq({})
    OBVIOUS
<1>5. Signed(net)
    <2>1. net.sent \in [Station -> Seq({})]
        BY <1>2, <1>4
    <2>2. \A h \in Station : net.sent[h] = <<>> /\ Len(net.sent[h]) = 0
        BY <1>2
    <2> QED
        BY <2>1, <2>2 DEF Signed
<1> QED
    BY <1>1, <1>2, <1>3, <1>4, <1>5 DEF LanInv, Good, Routed

\* The switch and the stations keep the invariant, whatever the events, the
\* faults and the commands.
THEOREM LanInvariant == Spec => []LanInv
<1>1. LanInv /\ [Next]_vars => LanInv'
    <2> SUFFICES ASSUME LanInv, [Next]_vars
                 PROVE  LanInv'
        OBVIOUS
    <2>1. CASE UNCHANGED vars
        <3>1. net' = net /\ UNCHANGED <<at, up, access_vlan, allowed, vlans>>
            BY <2>1 DEF vars
        <3>2. Good(net')
            BY <3>1 DEF LanInv
        <3> QED
            BY <3>1, <3>2, EventKeeps
    <2>2. ASSUME NEW t \in plan.tasks, Ping(t) PROVE LanInv'
        BY <2>2, PingKeeps
    <2>3. CASE Timeout
        BY <2>3, TimeoutKeeps
    <2>4. ASSUME NEW h \in Station, SwitchReceives(h) \/ StationReceives(h) PROVE LanInv'
        BY <2>4, SwitchReceivesKeeps, StationReceivesKeeps
    <2>5. CASE SendData \/ Expire \/ StpHello
        BY <2>5, TimerKeeps
    <2>6. ASSUME NEW h \in Station, Lose(h) \/ ChangeLink(h) \/ Unplug(h) PROVE LanInv'
        BY <2>6, LoseKeeps, LinkKeeps
    <2>7. ASSUME NEW h \in Station, NEW p \in Port \ Trunk, Plug(h, p) PROVE LanInv'
        BY <2>7, PlugKeeps
    <2>8. ASSUME NEW d \in Device, NEW a \in Address, AgeArp(d, a) PROVE LanInv'
        BY <2>8, AgeArpKeeps
    <2>9. ASSUME NEW v \in Vlan, NEW m \in Mac, AgeMac(v, m) PROVE LanInv'
        BY <2>9, AgeMacKeeps
    <2>10. ASSUME NEW p \in Port \ Trunk, NEW v \in Vlan, SetAccessVlan(p, v) PROVE LanInv'
        BY <2>10, SetAccessVlanKeeps
    <2>11. ASSUME NEW V \in SUBSET Vlan, SetAllowed(V) PROVE LanInv'
        BY <2>11, SetAllowedKeeps
    <2>12. ASSUME NEW v \in Vlan, RemoveVlan(v) \/ CreateVlan(v) PROVE LanInv'
        BY <2>12, RemoveVlanKeeps, CreateVlanKeeps
    <2> QED
        BY <2>1, <2>2, <2>3, <2>4, <2>5, <2>6, <2>7, <2>8, <2>9, <2>10, <2>11, <2>12 DEF Next
<1> QED
    BY <1>1, InitLan, PTL DEF Spec

\* The switch knows stations only where they are: forward_switch_frame learns
\* from frames that came over a live cable, and every change of a cable, a port
\* or a VLAN forgets what it makes untrue (set_link_state, set_access_vlan,
\* set_trunk_allowed_vlans, remove_vlan).
THEOREM LanMacTruth == Spec => []MacTruth
<1>1. LanInv => MacTruth
    <2> SUFFICES ASSUME LanInv, NEW v \in Vlan, NEW m \in Mac, net.mac[v][m] # Unplugged
                 PROVE  /\ Carries(net.mac[v][m], v)
                        /\ \E i \in Interface : MacOf[i] = m /\ DeviceOf[i] \in On(net.mac[v][m])
        BY DEF MacTruth
    <2>1. PICK h \in On(net.mac[v][m]) : Carries(net.mac[v][m], v) /\ HasMac(h, m)
        BY DEF LanInv, Good, Located
    <2> QED
        BY <2>1 DEF HasMac
<1> QED
    BY <1>1, LanInvariant, PTL

-----------------------------------------------------------------------------
(* The spanning tree. *)

HIDE LanAssumption

USE SpanningTreeAssumption

\* The fields of an instance.
Fields == {"received", "agreed", "elapsed", "root_id", "root_cost", "root_port", "ports"}

\* A BPDU under way, and what a port has received.
BpduOK(r) == r.root_cost \in Nat /\ r.age \in Nat

HeardOK(r) ==
    r = NoBpdu \/ (BpduOK(r) /\ "left" \in DOMAIN r /\ r.left \in Int /\ r.left <= MaxAge)

InstanceOK(b, i) ==
    /\ DOMAIN i = Fields
    /\ DOMAIN i.received = PortsOf(b)
    /\ \A l \in PortsOf(b) : HeardOK(i.received[l])
    /\ i.elapsed \in [PortsOf(b) -> Int]
    /\ i.root_cost \in Nat

\* The BPDU that port l has received leads i to the root.
Leads(i, l) == /\ i.received[l] # NoBpdu
               /\ i.received[l].left > 0 /\ ~i.received[l].guarded

\* A guarded port of a classic bridge has been on its way to forward for no
\* longer than its BPDU has aged.
GuardOK(b, i) ==
    \A l \in PortsOf(b) :
        b \notin Rapid /\ <<b, l>> \in RootGuard /\ i.root_port = l /\ Leads(i, l) =>
            i.elapsed[l] + i.received[l].left <= MaxAge

\* The root port, if there is one.
RootOK(b, i) ==
    i.root_port # NoPort =>
        /\ i.root_port \in PortsOf(b) /\ Leads(i, i.root_port)
        /\ i.root_id = i.received[i.root_port].root_id
        /\ i.root_cost = i.received[i.root_port].root_cost + Cost[i.root_port]

\* The root is the same.
Keeps(i, j) == i.root_id = j.root_id /\ i.root_cost = j.root_cost /\ i.root_port = j.root_port

\* What refresh_spanning_tree makes of i.
RefreshOK(b, i, j) ==
    /\ InstanceOK(b, j) /\ RootOK(b, j)
    /\ \A l \in PortsOf(b) : Leads(j, l) => j.received[l] = i.received[l]
    /\ \A l \in PortsOf(b) : j.root_port = l =>
          /\ j.elapsed[l] = 0 \/ (Keeps(i, j) /\ j.elapsed[l] = i.elapsed[l])
          /\ b \notin Rapid /\ j.ports[l].state = "forwarding" =>
                j.elapsed[l] >= 2 * ForwardDelay

\* Built only tells TLC when to evaluate.
LEMMA BuiltIs == ASSUME NEW f PROVE Built(f) = f
BY DEF Built

LEMMA PortsAre ==
    ASSUME NEW b
    PROVE  PortsOf(b) \subseteq Link
BY DEF PortsOf

LEMMA CostIs ==
    ASSUME lab \in Labs, NEW l \in Link
    PROVE  Cost[l] \in Nat /\ Cost[l] > 0 /\ l # NoPort
<1>1. Link \subseteq Nat \ {0} /\ lab.cost \in [Link -> Nat \ {0}]
    BY DEF Settings
<1> QED
    BY <1>1 DEF Cost, NoPort

\* The root port has a BPDU that Root Guard has let pass.
LEMMA RootPortIs ==
    ASSUME NEW b, NEW received, RootPort(b, received) # NoPort
    PROVE  LET l == RootPort(b, received) IN
           l \in DOMAIN received /\ received[l] # NoBpdu /\ ~received[l].guarded
<1> DEFINE known == {l \in DOMAIN received : received[l] # NoBpdu /\ ~received[l].guarded}
           better == {l \in known : Less(Through(received[l], l), <<b, 0, b, 0, 0>>)}
           best == {l \in better : \A k \in better \ {l} :
                       Less(Through(received[l], l), Through(received[k], k))}
<1>1. RootPort(b, received) = IF best = {} THEN NoPort ELSE CHOOSE l \in best : TRUE
    BY DEF RootPort
<1>2. best \subseteq known
    OBVIOUS
<1> HIDE DEF best
<1>3. RootPort(b, received) \in best
    BY <1>1
<1> QED
    BY <1>2, <1>3

\* The chain of recompute_stp_instance, step by step.
LEMMA RefreshedIs ==
    ASSUME lab \in Labs, NEW b, NEW i, InstanceOK(b, i), NEW M
    PROVE  RefreshOK(b, i, RecomputedOver(M, b, i))
<1> DEFINE P == PortsOf(b)
           j == RecomputedOver(M, b, i)
           received == Fresh(i, M)
           port == RootPort(b, received)
           root == Root(b, received, port)
           role == [l \in M |-> Role(b, l, received, root.id, root.cost, root.port)]
           anew == {l \in M : \/ i.ports[l].role # role[l]
                              \/ ~KeepsAgreements(i, root.id, root.cost, root.port)}
           agreed == (i.agreed \cap M) \ anew
           elapsed == Elapsed(b, M, i, anew)
<1>1. j = WithStates(b, M, received, root, role, agreed, elapsed)
    <2>1. j = WithReceived(b, M, i, received)
        BY BuiltIs DEF RecomputedOver
    <2> HIDE DEF received
    <2>2. j = WithRoot(b, M, i, received, root)
        BY <2>1 DEF WithReceived
    <2> HIDE DEF port, root
    <2>3. j = WithRoles(b, M, i, received, root, role)
        BY <2>2, BuiltIs DEF WithRoot
    <2> HIDE DEF role
    <2>4. j = WithTimers(b, M, i, received, root, role, anew)
        BY <2>3 DEF WithRoles
    <2> QED
        BY <2>4 DEF WithTimers
<1>2. /\ DOMAIN received = P
      /\ \A l \in P : received[l] # NoBpdu =>
            l \in M /\ received[l] = i.received[l] /\ received[l].left > 0
    BY DEF Fresh, InstanceOK
<1>3. \A l \in P : HeardOK(received[l])
    BY <1>2 DEF InstanceOK, HeardOK
<1>4. elapsed = [l \in P |-> IF l \notin M THEN Never
                             ELSE IF l \in anew \/ i.elapsed[l] = Never THEN 0
                             ELSE i.elapsed[l]]
    BY BuiltIs DEF Elapsed
<1>5. port # NoPort => port \in P /\ received[port] # NoBpdu /\ ~received[port].guarded
    BY <1>2, RootPortIs
<1>6. anew \subseteq M
    OBVIOUS
<1>7. \A l \in M \ anew : KeepsAgreements(i, root.id, root.cost, root.port)
    OBVIOUS
<1>8. /\ port = NoPort => root.cost = 0 /\ root.port = NoPort
      /\ port # NoPort => /\ root.port = port /\ root.id = received[port].root_id
                               /\ root.cost = received[port].root_cost + Cost[port]
    BY DEF Root
<1> HIDE DEF received, agreed, role, elapsed, j, port, root, anew
<1>9. /\ j.received = received /\ j.elapsed = elapsed /\ DOMAIN j = Fields
      /\ j.root_id = root.id /\ j.root_cost = root.cost /\ j.root_port = root.port
    BY <1>1 DEF WithStates, Fields
<1>10. elapsed \in [P -> Int]
    BY <1>4 DEF InstanceOK, Never
<1>11. ASSUME NEW l \in P, l \in M, l = port, b \notin Rapid,
             j.ports[l].state = "forwarding", l # NoPort
      PROVE  elapsed[l] >= 2 * ForwardDelay
    <2>1. j.ports[l].state = State(b, l, received, agreed, role[l], elapsed[l])
        BY <1>1, <1>11, BuiltIs DEF WithStates
    <2>2. received[l] # NoBpdu
        BY <1>5, <1>11
    <2>3. IsEdge(b, l, received) = FALSE
        BY <2>2 DEF IsEdge
    <2>4. elapsed[l] \in Int
        BY <1>10
    <2>5. ~(elapsed[l] < 2 * ForwardDelay)
        BY <1>11, <2>1, <2>3 DEF State, Settings
    <2> QED
        BY <2>4, <2>5 DEF Settings
<1>12. ASSUME NEW l \in P, l = port, l # NoPort
      PROVE  /\ l \in M
             /\ elapsed[l] = 0 \/ (Keeps(i, j) /\ elapsed[l] = i.elapsed[l])
    <2>1. l \in M
        BY <1>2, <1>5, <1>12
    <2>2. CASE l \in anew \/ i.elapsed[l] = Never
        BY <1>4, <2>1, <2>2
    <2>3. CASE ~(l \in anew \/ i.elapsed[l] = Never)
        <3>1. elapsed[l] = i.elapsed[l]
            BY <1>4, <2>1, <2>3
        <3>2. KeepsAgreements(i, root.id, root.cost, root.port)
            BY <1>7, <2>1, <2>3
        <3> QED
            BY <1>9, <2>1, <3>1, <3>2 DEF KeepsAgreements, Keeps
    <2> QED
        BY <2>1, <2>2, <2>3
<1>13. root.cost \in Nat
    <2>1. CASE port = NoPort
        BY <1>8, <2>1
    <2>2. CASE port # NoPort
        <3>1. port \in Link /\ received[port].root_cost \in Nat
            BY <1>3, <1>5, <2>2, PortsAre DEF HeardOK, BpduOK
        <3> QED
            BY <1>8, <2>2, <3>1, CostIs
    <2> QED
        BY <2>1, <2>2
<1>14. InstanceOK(b, j)
    BY <1>2, <1>3, <1>9, <1>10, <1>13 DEF InstanceOK
<1>15. RootOK(b, j)
    <2> SUFFICES ASSUME port # NoPort
                 PROVE  /\ port \in P /\ Leads(j, port)
                        /\ root.id = received[port].root_id
                        /\ root.cost = received[port].root_cost + Cost[port]
        BY <1>9, <1>8 DEF RootOK
    <2> QED
        BY <1>2, <1>5, <1>9, <1>8 DEF Leads
<1>16. \A l \in P : Leads(j, l) => j.received[l] = i.received[l]
    BY <1>2, <1>9 DEF Leads
<1>17. ASSUME NEW l \in P, j.root_port = l
       PROVE  /\ j.elapsed[l] = 0 \/ (Keeps(i, j) /\ j.elapsed[l] = i.elapsed[l])
              /\ b \notin Rapid /\ j.ports[l].state = "forwarding" =>
                    j.elapsed[l] >= 2 * ForwardDelay
    <2>1. l # NoPort
        BY PortsAre, CostIs
    <2>2. l = port
        BY <1>9, <1>8, <1>17, <2>1
    <2> QED
        BY <1>9, <1>11, <1>12, <2>1, <2>2
<1> QED
    BY <1>14, <1>15, <1>16, <1>17 DEF RefreshOK, j

\* What holds of an instance between two events.
Fine(b, i) == InstanceOK(b, i) /\ GuardOK(b, i)

\* A port that becomes the way to the root begins to wait then.
LEMMA RefreshGuards ==
    ASSUME NEW b, NEW i, NEW j, RefreshOK(b, i, j), Fine(b, i)
    PROVE  Fine(b, j) /\ RootOK(b, j)
<1>1. ASSUME NEW l \in PortsOf(b), b \notin Rapid, <<b, l>> \in RootGuard,
             j.root_port = l, Leads(j, l)
      PROVE  j.elapsed[l] + j.received[l].left <= MaxAge
    <2>1. j.received[l].left \in Int /\ j.received[l].left <= MaxAge /\ j.elapsed[l] \in Int
        BY <1>1 DEF RefreshOK, InstanceOK, HeardOK, Leads
    <2>2. CASE j.elapsed[l] = 0
        BY <2>1, <2>2
    <2>3. CASE Keeps(i, j) /\ j.elapsed[l] = i.elapsed[l]
        <3>1. j.received[l] = i.received[l] /\ i.root_port = l
            BY <1>1, <2>3 DEF RefreshOK, Keeps
        <3>2. Leads(i, l)
            BY <1>1, <3>1 DEF Leads
        <3> QED
            BY <1>1, <2>3, <3>1, <3>2 DEF Fine, GuardOK
    <2> QED
        BY <1>1, <2>2, <2>3 DEF RefreshOK
<1> QED
    BY <1>1 DEF Fine, GuardOK, RefreshOK

\* refresh_spanning_tree keeps what is known of an instance.
LEMMA RecomputedFine ==
    ASSUME lab \in Labs, NEW b, NEW i, Fine(b, i), NEW M
    PROVE  Fine(b, RecomputedOver(M, b, i)) /\ RootOK(b, RecomputedOver(M, b, i))
BY RefreshedIs, RefreshGuards DEF Fine

LEMMA LifetimeIs ==
    ASSUME NEW bpdu, BpduOK(bpdu)
    PROVE  Lifetime(bpdu) \in Int /\ Lifetime(bpdu) <= MaxAge
<1>1. MaxAge \in Nat /\ bpdu.age \in Nat
    BY DEF Settings, BpduOK
<1>2. MaxAge - bpdu.age \in Int /\ MaxAge - bpdu.age <= MaxAge
    BY <1>1
<1>3. ASSUME NEW x \in Int, x <= MaxAge
      PROVE  Min({x, 3}) \in Int /\ Min({x, 3}) <= x
    <2>1. \E y \in {x, 3} : \A z \in {x, 3} : y <= z
        BY <1>3
    <2>2. Min({x, 3}) \in {x, 3} /\ \A z \in {x, 3} : Min({x, 3}) <= z
        BY <2>1 DEF Min
    <2> QED
        BY <2>2
<1>4. Min({MaxAge - bpdu.age, 3}) \in Int /\ Min({MaxAge - bpdu.age, 3}) <= MaxAge
    BY <1>1, <1>2, <1>3
<1> QED
    BY <1>2, <1>4 DEF Lifetime

\* A BPDU that does not change the root, on the port that leads to it, is better than
\* what the bridge itself would send, and hence guarded against.
LEMMA StoredFine ==
    ASSUME lab \in Labs, NEW b, NEW l \in PortsOf(b), NEW i, Fine(b, i),
           NEW bpdu, BpduOK(bpdu), NEW M
    PROVE  LET j == RecomputedOver(M, b, Stored(b, l, i, bpdu)) IN
           Fine(b, j) /\ RootOK(b, j)
<1> DEFINE s == Stored(b, l, i, bpdu)
           j == RecomputedOver(M, b, s)
           new == [root_id |-> bpdu.root_id, root_cost |-> bpdu.root_cost,
                   bridge_id |-> bpdu.bridge_id, port_id |-> bpdu.port_id,
                   rapid |-> bpdu.rapid, age |-> bpdu.age,
                   guarded |-> Guarded(b, l, i, bpdu), left |-> Lifetime(bpdu)]
<1>1. /\ DOMAIN s = Fields /\ s.root_id = i.root_id /\ s.root_cost = i.root_cost
      /\ s.root_port = i.root_port /\ s.received = [i.received EXCEPT ![l] = new]
      /\ s.elapsed = [i.elapsed EXCEPT ![l] = IF i.received[l] = NoBpdu THEN 0 ELSE @]
    BY DEF Stored, Fine, InstanceOK, Fields
<1>2. /\ new.root_id = bpdu.root_id /\ new.root_cost = bpdu.root_cost /\ new.age = bpdu.age
      /\ new.guarded = Guarded(b, l, i, bpdu) /\ new.left = Lifetime(bpdu)
    OBVIOUS
<1>3. "left" \in DOMAIN new
    OBVIOUS
<1> HIDE DEF s, new
<1>4. HeardOK(new)
    BY <1>2, <1>3, LifetimeIs DEF HeardOK, BpduOK
<1>5. /\ DOMAIN i.received = PortsOf(b) /\ i.elapsed \in [PortsOf(b) -> Int]
      /\ \A k \in PortsOf(b) : HeardOK(i.received[k])
      /\ i.root_cost \in Nat
    BY DEF Fine, InstanceOK
<1>6. /\ s.received[l] = new
      /\ \A k \in PortsOf(b) : k # l => /\ s.received[k] = i.received[k]
                                             /\ s.elapsed[k] = i.elapsed[k]
    BY <1>1, <1>5
<1>7. InstanceOK(b, s)
    <2>1. s.elapsed \in [PortsOf(b) -> Int]
        BY <1>1, <1>5
    <2>2. DOMAIN s.received = PortsOf(b)
        BY <1>1, <1>5
    <2>3. \A k \in PortsOf(b) : HeardOK(s.received[k])
        BY <1>4, <1>5, <1>6
    <2> QED
        BY <1>1, <1>5, <2>1, <2>2, <2>3 DEF InstanceOK
<1>8. RefreshOK(b, s, j)
    BY <1>7, RefreshedIs
<1> HIDE DEF j
<1>9. ASSUME NEW k \in PortsOf(b), b \notin Rapid, <<b, k>> \in RootGuard,
             j.root_port = k, Leads(j, k)
      PROVE  j.elapsed[k] + j.received[k].left <= MaxAge
    <2>1. /\ j.received[k].left \in Int /\ j.received[k].left <= MaxAge /\ j.elapsed[k] \in Int
          /\ j.received[k] = s.received[k]
        BY <1>8, <1>9 DEF RefreshOK, InstanceOK, HeardOK, Leads
    <2>2. CASE j.elapsed[k] = 0
        BY <2>1, <2>2
    <2>3. CASE Keeps(s, j) /\ j.elapsed[k] = s.elapsed[k] /\ k # l
        <3>1. i.root_port = k /\ j.received[k] = i.received[k] /\ j.elapsed[k] = i.elapsed[k]
            BY <1>1, <1>6, <1>9, <2>1, <2>3 DEF Keeps
        <3>2. Leads(i, k)
            BY <1>9, <3>1 DEF Leads
        <3> QED
            BY <1>9, <3>1, <3>2 DEF Fine, GuardOK
    <2>4. CASE Keeps(s, j) /\ k = l
        <3>1. k \in Link /\ Cost[k] \in Nat /\ Cost[k] > 0 /\ k # NoPort
            BY PortsAre, CostIs
        <3>2. /\ i.root_id = bpdu.root_id
              /\ i.root_cost = bpdu.root_cost + Cost[k]
            BY <1>1, <1>2, <1>6, <1>8, <1>9, <2>1, <2>4, <3>1 DEF Keeps, RefreshOK, RootOK
        <3>3. bpdu.root_cost < i.root_cost
            BY <3>1, <3>2 DEF BpduOK
        <3>4. Guarded(b, l, i, bpdu)
            <4> DEFINE u == <<bpdu.root_id, bpdu.root_cost, bpdu.bridge_id>>
                       v == <<i.root_id, i.root_cost, b>>
            <4>1. 2 \in DOMAIN u /\ u[2] < v[2] /\ u[1] = v[1]
                BY <3>2, <3>3
            <4>2. \A n \in 1 .. 2 - 1 : n = 1
                OBVIOUS
            <4> HIDE DEF u, v
            <4>3. Less(u, v)
                BY <4>1, <4>2 DEF Less
            <4> QED
                BY <1>9, <2>4, <4>3 DEF Guarded, u, v
        <3> QED
            BY <1>2, <1>6, <1>9, <2>1, <2>4, <3>4 DEF Leads
    <2> QED
        BY <1>8, <1>9, <2>2, <2>3, <2>4 DEF RefreshOK
<1>10. Fine(b, j) /\ RootOK(b, j)
    BY <1>8, <1>9 DEF Fine, GuardOK, RefreshOK
<1> QED
    BY <1>10 DEF j, s

\* receive_stp_packet
LEMMA AbsorbedFine ==
    ASSUME lab \in Labs, NEW b, NEW l \in PortsOf(b), NEW i, Fine(b, i),
           NEW bpdu, BpduOK(bpdu)
    PROVE  Fine(b, Absorbed(b, l, i, bpdu)) /\ RootOK(b, Absorbed(b, l, i, bpdu))
<1> DEFINE j == Recomputed(b, Stored(b, l, i, bpdu))
           n == Negotiated(b, l, j, bpdu)
<1>1. Fine(b, j) /\ RootOK(b, j)
    BY StoredFine DEF Recomputed
<1>2. \/ Absorbed(b, l, i, bpdu) = j
      \/ b \in Rapid /\ Absorbed(b, l, i, bpdu) = Recomputed(b, n)
    <2>1. Absorbed(b, l, i, bpdu) = NegotiatedIfRapid(b, l, j, bpdu)
        BY DEF Absorbed
    <2> HIDE DEF j, n
    <2>2. \/ NegotiatedIfRapid(b, l, j, bpdu) = j
          \/ /\ b \in Rapid
             /\ NegotiatedIfRapid(b, l, j, bpdu) = Recomputed(b, n)
        BY DEF NegotiatedIfRapid, n
    <2> QED
        BY <2>1, <2>2
<1> HIDE DEF j
<1>3. InstanceOK(b, n)
    <2>1. n \in {j, [j EXCEPT !.agreed = @ \cup {l}], Synchronized(b, l, j)}
        BY DEF Negotiated
    <2>2. ASSUME NEW x PROVE InstanceOK(b, [j EXCEPT !.agreed = x])
        BY <1>1 DEF Fine, InstanceOK, Fields
    <2>3. InstanceOK(b, Synchronized(b, l, j))
        <3> DEFINE others == {k \in PortsOf(b) \ {l} : /\ j.ports[k].role = "designated"
                                                       /\ ~IsEdge(b, k, j.received)}
                   y == Synchronized(b, l, j)
        <3>1. /\ DOMAIN y = Fields /\ y.received = j.received /\ y.root_cost = j.root_cost
              /\ y.elapsed = [k \in PortsOf(b) |-> IF k \in others THEN 0 ELSE j.elapsed[k]]
            BY <1>1, BuiltIs DEF Synchronized, Fine, InstanceOK, Fields
        <3> HIDE DEF y, others
        <3>2. y.elapsed \in [PortsOf(b) -> Int]
            BY <1>1, <3>1 DEF Fine, InstanceOK
        <3> QED
            BY <1>1, <3>1, <3>2 DEF Fine, InstanceOK, y
    <2> QED
        BY <1>1, <2>1, <2>2, <2>3 DEF Fine
<1>4. ASSUME b \in Rapid PROVE Fine(b, n)
    BY <1>3, <1>4 DEF Fine, GuardOK
<1> HIDE DEF n
<1> QED
    BY <1>1, <1>2, <1>4, RecomputedFine DEF Recomputed

-----------------------------------------------------------------------------
(* BPDUs under way *)

\* BPDUs one after the other.
Queue(s) == (\E T : s \in Seq(T)) /\ \A k \in 1 .. Len(s) : BpduOK(s[k])

Queues(ch) == ch = [p \in BridgePort |-> ch[p]] /\ \A p \in BridgePort : Queue(ch[p])

LEMMA QueueAppend ==
    ASSUME NEW s, Queue(s), NEW e, BpduOK(e)
    PROVE  Queue(Append(s, e))
<1>1. PICK T : s \in Seq(T)
    BY DEF Queue
<1>2. s \in Seq(T \cup {e}) /\ Len(s) \in Nat
    BY <1>1, SeqMonotonic, LenProperties
<1>3. /\ Append(s, e) \in Seq(T \cup {e}) /\ Len(Append(s, e)) = Len(s) + 1
      /\ \A k \in 1 .. Len(s) : Append(s, e)[k] = s[k]
      /\ Append(s, e)[Len(s) + 1] = e
    BY <1>2, AppendProperties
<1>4. ASSUME NEW k \in 1 .. Len(s) + 1 PROVE BpduOK(Append(s, e)[k])
    <2>1. k \in 1 .. Len(s) \/ k = Len(s) + 1
        BY <1>2
    <2> QED
        BY <1>3, <2>1 DEF Queue
<1> QED
    BY <1>3, <1>4 DEF Queue

LEMMA QueueTail ==
    ASSUME NEW s, Queue(s), s # <<>>
    PROVE  Queue(Tail(s)) /\ BpduOK(Head(s))
<1>1. PICK T : s \in Seq(T)
    BY DEF Queue
<1>2. /\ Len(s) \in Nat /\ Len(s) >= 1 /\ Head(s) = s[1]
      /\ Tail(s) \in Seq(T) /\ Len(Tail(s)) = Len(s) - 1
      /\ \A k \in 1 .. Len(Tail(s)) : Tail(s)[k] = s[k + 1]
    BY <1>1, HeadTailProperties, EmptySeq, LenProperties
<1>3. ASSUME NEW k \in 1 .. Len(Tail(s)) PROVE BpduOK(Tail(s)[k])
    <2>1. k + 1 \in 1 .. Len(s) /\ Tail(s)[k] = s[k + 1]
        BY <1>2
    <2> QED
        BY <2>1 DEF Queue
<1>4. BpduOK(s[1])
    BY <1>2 DEF Queue
<1> QED
    BY <1>2, <1>3, <1>4 DEF Queue

LEMMA QueueEmpty == Queue(<<>>)
<1>1. <<>> \in Seq({}) /\ Len(<<>>) = 0
    OBVIOUS
<1> QED
    BY <1>1 DEF Queue

\* emit_stp_bpdus
LEMMA EmittedQueues ==
    ASSUME NEW b, NEW i, Fine(b, i), RootOK(b, i), NEW sent, Queues(sent)
    PROVE  Queues(Emitted(b, i, sent))
<1>1. ASSUME NEW l PROVE BpduOK(Bpdu(b, i, l))
    <2>1. Age(i) \in Nat
        <3>1. CASE i.root_port = NoPort
            BY <3>1 DEF Age
        <3>2. CASE i.root_port # NoPort
            <4>1. i.received[i.root_port].age \in Nat
                BY <3>2 DEF RootOK, Fine, InstanceOK, HeardOK, Leads, BpduOK
            <4> QED
                BY <3>2, <4>1 DEF Age
        <3> QED
            BY <3>1, <3>2
    <2> QED
        BY <2>1 DEF Bpdu, BpduOK, Fine, InstanceOK
<1> DEFINE e == Emitted(b, i, sent)
<1>2. e = [p \in BridgePort |-> e[p]]
    BY DEF Emitted
<1>3. ASSUME NEW p \in BridgePort PROVE Queue(e[p])
    <2>1. e[p] \in {sent[p], Append(sent[p], Bpdu(b, i, p[2]))}
        BY DEF Emitted
    <2>2. Queue(sent[p])
        BY DEF Queues
    <2> HIDE DEF e
    <2> QED
        BY <1>1, <2>1, <2>2, QueueAppend
<1> HIDE DEF e
<1>4. Queues(e)
    BY <1>2, <1>3 DEF Queues
<1> QED
    BY <1>4 DEF e

LEMMA TakenQueues ==
    ASSUME NEW ch, Queues(ch), NEW p \in BridgePort, ch[p] # <<>>
    PROVE  Queues([ch EXCEPT ![p] = Tail(@)]) /\ BpduOK(Head(ch[p]))
<1> DEFINE e == [ch EXCEPT ![p] = Tail(@)]
<1>1. Queue(Tail(ch[p])) /\ BpduOK(Head(ch[p]))
    BY QueueTail DEF Queues
<1>2. /\ e = [c \in BridgePort |-> e[c]]
      /\ e[p] = Tail(ch[p]) /\ \A c \in BridgePort : c # p => e[c] = ch[c]
    BY DEF Queues
<1> HIDE DEF e
<1>3. \A c \in BridgePort : Queue(e[c])
    BY <1>1, <1>2 DEF Queues
<1>4. Queues(e)
    BY <1>2, <1>3 DEF Queues
<1> QED
    BY <1>1, <1>4 DEF e

-----------------------------------------------------------------------------
(* The events of the tree *)

\* The inductive invariant.
TreeInv ==
    /\ lab \in Labs
    /\ instance = [b \in Bridge |-> instance[b]]
    /\ \A b \in Bridge : Fine(b, instance[b])
    /\ Queues(channel)

LEMMA TreeKeeps ==
    ASSUME TreeInv, lab' = lab, instance' = [b \in Bridge |-> instance'[b]],
           \A b \in Bridge : Fine(b, instance'[b]), Queues(channel')
    PROVE  TreeInv'
<1>1. Queues(channel)'
    BY DEF Queues, Queue, BpduOK, BridgePort, End
<1>2. \A b \in Bridge : Fine(b, instance[b])'
    BY DEF Fine, InstanceOK, GuardOK, Leads, HeardOK, BpduOK, PortsOf, End,
           Rapid, RootGuard, NoBpdu
<1> QED
    BY <1>1, <1>2 DEF TreeInv

\* One bridge has become i.
LEMMA BridgeKeeps ==
    ASSUME TreeInv, lab' = lab, NEW b \in Bridge, NEW i, Fine(b, i),
           instance' = [instance EXCEPT ![b] = i], Queues(channel')
    PROVE  TreeInv'
<1>1. /\ instance' = [c \in Bridge |-> instance'[c]]
      /\ instance'[b] = i /\ \A c \in Bridge : c # b => instance'[c] = instance[c]
    BY DEF TreeInv
<1>2. \A c \in Bridge : Fine(c, instance'[c])
    BY <1>1 DEF TreeInv
<1> QED
    BY <1>1, <1>2, TreeKeeps

LEMMA HelloKeeps ==
    ASSUME TreeInv, NEW b \in Bridge, Hello(b)
    PROVE  TreeInv'
<1> DEFINE i == Recomputed(b, instance[b])
<1>1. Fine(b, i) /\ RootOK(b, i)
    BY RecomputedFine DEF TreeInv, Recomputed
<1>2. /\ lab' = lab /\ instance' = [instance EXCEPT ![b] = i]
      /\ channel' = Emitted(b, i, channel)
    BY DEF Hello
<1> HIDE DEF i
<1> QED
    BY <1>1, <1>2, EmittedQueues, BridgeKeeps DEF TreeInv

LEMMA ReceiveKeeps ==
    ASSUME TreeInv, NEW p \in BridgePort, NEW b \in Bridge,
           Receive(p, <<b, p[2]>>)
    PROVE  TreeInv'
<1> DEFINE l == p[2]
           before == Recomputed(b, instance[b])
           bpdu == Head(channel[p])
           after == Absorbed(b, l, before, bpdu)
           rest == [channel EXCEPT ![p] = Tail(@)]
<1>1. /\ channel[p] # <<>> /\ l \in PortsOf(b) /\ lab' = lab
      /\ instance' = [instance EXCEPT ![b] = after]
      /\ channel' \in {rest, Emitted(b, after, rest)}
    BY DEF Receive, StpMembers, StpPorts, Take, Became, Answered
<1>2. Queues(rest) /\ BpduOK(bpdu)
    BY <1>1, TakenQueues DEF TreeInv
<1>3. Fine(b, before)
    BY RecomputedFine DEF TreeInv, Recomputed
<1> HIDE DEF l, before, bpdu, rest
<1>4. Fine(b, after) /\ RootOK(b, after)
    BY <1>1, <1>2, <1>3, AbsorbedFine DEF TreeInv
<1> HIDE DEF after
<1>5. Queues(channel')
    BY <1>1, <1>2, <1>4, EmittedQueues
<1> QED
    BY <1>1, <1>4, <1>5, BridgeKeeps

\* A port without a BPDU is no way to the root.
LEMMA ForgottenFine ==
    ASSUME NEW b, NEW i, Fine(b, i), NEW j, NEW l,
           DOMAIN j = Fields, j.root_port = i.root_port, j.root_cost = i.root_cost,
           j.received = [i.received EXCEPT ![l] = NoBpdu],
           j.elapsed \in [PortsOf(b) -> Int],
           \A k \in PortsOf(b) : k # l => j.elapsed[k] = i.elapsed[k]
    PROVE  Fine(b, j)
<1>1. /\ DOMAIN j.received = PortsOf(b)
      /\ \A k \in PortsOf(b) : k # l => j.received[k] = i.received[k]
      /\ \A k \in PortsOf(b) : k = l => j.received[k] = NoBpdu
    BY DEF Fine, InstanceOK
<1>2. InstanceOK(b, j)
    BY <1>1 DEF Fine, InstanceOK, HeardOK
<1>3. ASSUME NEW k \in PortsOf(b), b \notin Rapid, <<b, k>> \in RootGuard,
             j.root_port = k, Leads(j, k)
      PROVE  j.elapsed[k] + j.received[k].left <= MaxAge
    <2>1. k # l
        BY <1>1, <1>3 DEF Leads
    <2>2. j.received[k] = i.received[k] /\ j.elapsed[k] = i.elapsed[k] /\ i.root_port = k
        BY <1>1, <1>3, <2>1
    <2>3. Leads(i, k)
        BY <1>3, <2>2 DEF Leads
    <2> QED
        BY <1>3, <2>2, <2>3 DEF Fine, GuardOK
<1> QED
    BY <1>2, <1>3 DEF Fine, GuardOK

LEMMA ReceiveGuardedKeeps ==
    ASSUME TreeInv, NEW p \in BridgePort, NEW b \in Bridge,
           ReceiveGuarded(p, <<b, p[2]>>)
    PROVE  TreeInv'
<1> DEFINE l == p[2]
           q == <<b, l>>
           i == [instance[b] EXCEPT !.received[l] = NoBpdu, !.ports[l] = NoRole,
                                    !.agreed = @ \ {l}]
           after == RecomputedOver(StpPorts(b, errdisabled \cup {q}), b, i)
           rest == [channel EXCEPT ![p] = Tail(@)]
<1>1. /\ channel[p] # <<>> /\ lab' = lab
      /\ instance' = [instance EXCEPT ![b] = after]
      /\ channel' = Emitted(b, after, rest)
    BY DEF ReceiveGuarded
<1>2. Queues(rest)
    BY <1>1, TakenQueues DEF TreeInv
<1>3. Fine(b, i)
    <2>1. Fine(b, instance[b])
        BY DEF TreeInv
    <2>2. /\ DOMAIN i = Fields /\ i.root_port = instance[b].root_port
          /\ i.root_cost = instance[b].root_cost /\ i.elapsed = instance[b].elapsed
          /\ i.received = [instance[b].received EXCEPT ![l] = NoBpdu]
        BY <2>1 DEF Fine, InstanceOK, Fields
    <2> HIDE DEF i
    <2>3. i.elapsed \in [PortsOf(b) -> Int]
        BY <2>1, <2>2 DEF Fine, InstanceOK
    <2> QED
        BY <2>1, <2>2, <2>3, ForgottenFine
<1> HIDE DEF i, rest
<1>4. Fine(b, after) /\ RootOK(b, after)
    BY <1>3, RecomputedFine DEF TreeInv
<1> HIDE DEF after
<1>5. Queues(channel')
    BY <1>1, <1>2, <1>4, EmittedQueues
<1> QED
    BY <1>1, <1>4, <1>5, BridgeKeeps

LEMMA DiscardKeeps ==
    ASSUME TreeInv, NEW p \in BridgePort, Discard(p)
    PROVE  TreeInv'
<1>1. Queues(channel')
    BY TakenQueues DEF Discard, TreeInv
<1> QED
    BY <1>1, TreeKeeps DEF Discard, TreeInv

\* A cable goes down, in instances that are fine.
LEMMA CarrierLostKeeps ==
    ASSUME TreeInv, lab' = lab, NEW before, \A b \in Bridge : Fine(b, before[b]), NEW l,
           CableLost(l, before)
    PROVE  TreeInv'
<1>1. Queues(channel')
    <2>1. /\ channel' = [p \in BridgePort |-> channel'[p]]
          /\ \A p \in BridgePort : channel'[p] \in {<<>>, channel[p]}
        BY DEF CableLost
    <2> QED
        BY <2>1, QueueEmpty DEF TreeInv, Queues
<1>2. ASSUME NEW b \in Bridge PROVE Fine(b, Forgotten(before[b], l))
    <2> DEFINE i == before[b]
               j == Forgotten(i, l)
    <2>1. Fine(b, i)
        OBVIOUS
    <2>2. /\ DOMAIN j = Fields /\ j.root_port = i.root_port /\ j.root_cost = i.root_cost
          /\ j.received = [i.received EXCEPT ![l] = NoBpdu]
          /\ j.elapsed = [i.elapsed EXCEPT ![l] = Never]
        BY <2>1 DEF Forgotten, Fine, InstanceOK, Fields
    <2>3. i.elapsed \in [PortsOf(b) -> Int]
        BY <2>1 DEF Fine, InstanceOK
    <2> HIDE DEF i, j
    <2>4. /\ j.elapsed \in [PortsOf(b) -> Int]
          /\ \A k \in PortsOf(b) : k # l => j.elapsed[k] = i.elapsed[k]
        <3>1. Never \in Int
            BY DEF Never
        <3> QED
            BY <2>2, <2>3, <3>1
    <2>5. Fine(b, j)
        BY <2>1, <2>2, <2>4, ForgottenFine, SMTT(30)
    <2> QED
        BY <2>5 DEF j, i
<1>3. /\ instance' = [b \in Bridge |-> instance'[b]]
      /\ \A b \in Bridge : instance'[b] \in {before[b], Forgotten(before[b], l)}
    BY DEF CableLost
<1>4. \A b \in Bridge : Fine(b, instance'[b])
    BY <1>2, <1>3
<1> QED
    BY <1>1, <1>3, <1>4, TreeKeeps

\* The changes of the environment.
LEMMA EnvironmentKeeps ==
    ASSUME TreeInv, \/ \E l \in CanCut : ChangeCable(l)
                    \/ \E p \in CanShut : Shutdown(p) \/ NoShutdown(p)
    PROVE  TreeInv'
<1>1. ASSUME lab' = lab, instance' = instance, channel' = channel PROVE TreeInv'
    <2>1. Queues(channel')
        BY <1>1 DEF TreeInv
    <2> QED
        BY <1>1, <2>1, TreeKeeps DEF TreeInv
<1>2. ASSUME NEW l, ChangeCable(l) PROVE TreeInv'
    <2>1. CASE carrier[l]
        <3>1. lab' = lab /\ CableLost(l, instance)
            BY <1>2, <2>1 DEF ChangeCable
        <3> QED
            BY <3>1, CarrierLostKeeps DEF TreeInv
    <2>2. CASE ~carrier[l]
        BY <1>1, <1>2, <2>2 DEF ChangeCable
    <2> QED
        BY <2>1, <2>2
<1>3. ASSUME NEW p, NoShutdown(p) PROVE TreeInv'
    BY <1>1, <1>3 DEF NoShutdown
<1>4. ASSUME NEW p, Shutdown(p) PROVE TreeInv'
    <2> DEFINE b == p[1]
               l == p[2]
               before == [instance EXCEPT ![b].received[l] = NoBpdu,
                                          ![b].ports[l] = NoRole]
    <2>1. lab' = lab /\ CableLost(l, before)
        BY <1>4 DEF Shutdown
    <2>2. ASSUME NEW c \in Bridge PROVE Fine(c, before[c])
        <3>1. Fine(c, instance[c])
            BY DEF TreeInv
        <3>2. CASE c # b
            <4>1. before[c] = instance[c]
                BY <3>2 DEF TreeInv
            <4> QED
                BY <3>1, <4>1
        <3>3. CASE c = b
            <4> DEFINE i == instance[c]
                       j == [i EXCEPT !.received[l] = NoBpdu, !.ports[l] = NoRole]
            <4>1. before[c] = j
                BY <3>3 DEF TreeInv
            <4>2. /\ DOMAIN j = Fields /\ j.root_port = i.root_port /\ j.root_cost = i.root_cost
                  /\ j.received = [i.received EXCEPT ![l] = NoBpdu]
                  /\ j.elapsed = i.elapsed
                BY <3>1 DEF Fine, InstanceOK, Fields
            <4>3. i.elapsed \in [PortsOf(c) -> Int]
                BY <3>1 DEF Fine, InstanceOK
            <4> HIDE DEF j
            <4>4. Fine(c, j)
                BY <3>1, <4>2, <4>3, ForgottenFine
            <4> QED
                BY <4>1, <4>4
        <3> QED
            BY <3>2, <3>3
    <2> HIDE DEF before
    <2> QED
        BY <2>1, <2>2, CarrierLostKeeps
<1> QED
    BY <1>2, <1>3, <1>4

\* A unit of time passes: the port has waited longer, the BPDU is older.
LEMMA OlderFine ==
    ASSUME NEW b, NEW i, Fine(b, i)
    PROVE  Fine(b, Older(i))
<1> DEFINE P == PortsOf(b)
           j == Older(i)
<1>1. ASSUME NEW x \in Int
      PROVE  /\ Max({x - 1, 0}) \in Int
             /\ x > 0 => Max({x - 1, 0}) = x - 1
             /\ x <= 0 => Max({x - 1, 0}) = 0
    <2>1. \E y \in {x - 1, 0} : \A z \in {x - 1, 0} : y >= z
        OBVIOUS
    <2>2. /\ Max({x - 1, 0}) \in {x - 1, 0}
          /\ \A z \in {x - 1, 0} : Max({x - 1, 0}) >= z
        BY <2>1 DEF Max
    <2> QED
        BY <2>2
<1>2. ASSUME NEW x \in Int
      PROVE  /\ Min({x + 1, 2 * ForwardDelay}) \in Int
             /\ Min({x + 1, 2 * ForwardDelay}) <= x + 1
    <2>1. 2 * ForwardDelay \in Int
        BY DEF Settings
    <2> DEFINE y == 2 * ForwardDelay
    <2> HIDE DEF y
    <2>2. \E u \in {x + 1, y} : \A z \in {x + 1, y} : u <= z
        BY <2>1 DEF y
    <2>3. /\ Min({x + 1, y}) \in {x + 1, y}
          /\ \A z \in {x + 1, y} : Min({x + 1, y}) <= z
        BY <2>2 DEF Min
    <2> QED
        BY <2>1, <2>3 DEF y
<1> DEFINE received == [l \in P |-> Aged(i.received[l])]
           elapsed == [l \in P |-> IF i.elapsed[l] = Never THEN Never
                                   ELSE Min({i.elapsed[l] + 1, 2 * ForwardDelay})]
<1>3. /\ DOMAIN j = Fields /\ j.root_cost = i.root_cost /\ j.root_port = i.root_port
      /\ j.received = received /\ j.elapsed = elapsed
    BY DEF Older, Fine, InstanceOK, Fields
<1>4. \A l \in P : i.elapsed[l] \in Int /\ HeardOK(i.received[l])
    BY DEF Fine, InstanceOK
<1> HIDE DEF j
<1>5. ASSUME NEW l \in P
      PROVE  elapsed[l] \in Int /\ elapsed[l] <= i.elapsed[l] + 1
    BY <1>2, <1>4 DEF Never
<1>6. ASSUME NEW l \in P, i.received[l] # NoBpdu
      PROVE  LET r == i.received[l] IN
             /\ received[l].left \in Int /\ received[l].left <= MaxAge
             /\ received[l].left > 0 => r.left > 0 /\ received[l].left = r.left - 1
             /\ received[l].guarded = r.guarded /\ "left" \in DOMAIN received[l]
             /\ received[l].root_cost = r.root_cost /\ received[l].age = r.age
             /\ r.left \in Int /\ BpduOK(r)
    <2> DEFINE r == i.received[l]
               x == r.left
               y == Max({x - 1, 0})
    <2>1. "left" \in DOMAIN r /\ x \in Int /\ x <= MaxAge /\ BpduOK(r)
        BY <1>4, <1>6 DEF HeardOK
    <2>2. received[l] = [r EXCEPT !.left = y]
        BY <1>6 DEF Aged
    <2>3. y \in Int /\ (x > 0 => y = x - 1) /\ (x <= 0 => y = 0)
        BY <1>1, <2>1
    <2>4. MaxAge \in Nat
        BY DEF Settings
    <2> HIDE DEF received, y
    <2>5. /\ received[l].left = y
          /\ received[l].guarded = r.guarded /\ "left" \in DOMAIN received[l]
          /\ received[l].root_cost = r.root_cost /\ received[l].age = r.age
        BY <2>1, <2>2
    <2> HIDE DEF x
    <2>6. y <= MaxAge /\ (y > 0 => x > 0 /\ y = x - 1)
        BY <2>1, <2>3, <2>4
    <2> QED
        BY <2>1, <2>3, <2>5, <2>6 DEF x
<1>7. \A l \in P : i.received[l] = NoBpdu => received[l] = NoBpdu
    BY DEF Aged
<1>8. DOMAIN received = P /\ elapsed = [l \in P |-> elapsed[l]]
    OBVIOUS
<1> HIDE DEF received, elapsed
<1>9. \A l \in P : HeardOK(received[l])
    <2> SUFFICES ASSUME NEW l \in P, i.received[l] # NoBpdu PROVE HeardOK(received[l])
        BY <1>7 DEF HeardOK
    <2> QED
        BY <1>6 DEF HeardOK, BpduOK
<1>10. elapsed \in [P -> Int]
    BY <1>5, <1>8
<1>11. InstanceOK(b, j)
    BY <1>3, <1>8, <1>9, <1>10 DEF InstanceOK, Fine
<1>12. ASSUME NEW l \in P, b \notin Rapid, <<b, l>> \in RootGuard,
              j.root_port = l, Leads(j, l)
       PROVE  j.elapsed[l] + j.received[l].left <= MaxAge
    <2>1. i.received[l] # NoBpdu
        BY <1>3, <1>7, <1>12 DEF Leads
    <2>2. /\ i.received[l].left > 0 /\ received[l].left = i.received[l].left - 1
          /\ i.received[l].left \in Int
        BY <1>3, <1>6, <1>12, <2>1 DEF Leads
    <2>3. Leads(i, l) /\ i.root_port = l
        BY <1>3, <1>6, <1>12, <2>1, <2>2 DEF Leads
    <2>4. i.elapsed[l] + i.received[l].left <= MaxAge
        BY <1>12, <2>3 DEF Fine, GuardOK
    <2>5. i.elapsed[l] \in Int /\ elapsed[l] \in Int /\ elapsed[l] <= i.elapsed[l] + 1
        BY <1>4, <1>5
    <2>6. MaxAge \in Nat
        BY DEF Settings
    <2> QED
        BY <1>3, <2>2, <2>4, <2>5, <2>6
<1> QED
    BY <1>11, <1>12 DEF Fine, GuardOK, j

LEMMA TickKeeps ==
    ASSUME TreeInv, Tick
    PROVE  TreeInv'
<1>1. /\ lab' = lab /\ channel' = channel
      /\ instance' = [b \in Bridge |-> Older(instance[b])]
    BY DEF Tick
<1>2. /\ instance' = [b \in Bridge |-> instance'[b]]
      /\ \A b \in Bridge : instance'[b] = Older(instance[b])
    BY <1>1
<1>3. \A b \in Bridge : Fine(b, instance'[b])
    BY <1>2, OlderFine DEF TreeInv
<1>4. Queues(channel')
    BY <1>1 DEF TreeInv
<1> QED
    BY <1>1, <1>2, <1>3, <1>4, TreeKeeps

LEMMA InitTree == TreeInit => TreeInv
<1> SUFFICES ASSUME TreeInit PROVE TreeInv
    OBVIOUS
<1>1. ASSUME NEW b PROVE Fine(b, NewInstance(b))
    <2> DEFINE i == NewInstance(b)
    <2>1. /\ DOMAIN i = Fields /\ i.root_cost = 0 /\ i.root_port = NoPort
          /\ i.received = [l \in PortsOf(b) |-> NoBpdu]
          /\ i.elapsed = [l \in PortsOf(b) |-> Never]
        BY DEF NewInstance, Fields
    <2> HIDE DEF i
    <2>2. /\ DOMAIN i.received = PortsOf(b)
          /\ \A l \in PortsOf(b) : i.received[l] = NoBpdu
          /\ i.elapsed \in [PortsOf(b) -> Int]
        BY <2>1 DEF Never
    <2> QED
        BY <2>1, <2>2 DEF Fine, InstanceOK, GuardOK, Leads, HeardOK, i
<1>2. /\ lab \in Labs /\ instance = [b \in Bridge |-> NewInstance(b)]
      /\ channel = [p \in BridgePort |-> <<>>]
    BY DEF TreeInit
<1>3. Queues(channel)
    BY <1>2, QueueEmpty DEF Queues
<1>4. \A b \in Bridge : Fine(b, instance[b])
    BY <1>1, <1>2
<1> QED
    BY <1>2, <1>3, <1>4 DEF TreeInv

\* The bridges keep the invariant, whatever BPDUs, cuts, restorations and
\* commands happen to them in which order.
THEOREM TreeInvariant == TreeSpec => []TreeInv
<1>1. TreeInv /\ [TreeNext]_treeVars => TreeInv'
    <2> SUFFICES ASSUME TreeInv, [TreeNext]_treeVars
                 PROVE  TreeInv'
        OBVIOUS
    <2>1. CASE UNCHANGED treeVars
        <3>1. lab' = lab /\ instance' = instance /\ channel' = channel
            BY <2>1 DEF treeVars
        <3>2. Queues(channel')
            BY <3>1 DEF TreeInv
        <3> QED
            BY <3>1, <3>2, TreeKeeps DEF TreeInv
    <2>2. ASSUME NEW b \in Bridge, Hello(b) PROVE TreeInv'
        BY <2>2, HelloKeeps
    <2>3. ASSUME NEW p \in BridgePort, NEW b \in End[p[2]],
                 Receive(p, <<b, p[2]>>) \/ ReceiveGuarded(p, <<b, p[2]>>)
          PROVE  TreeInv'
        <3>1. b \in Bridge
            BY DEF TreeInv, Settings, BridgePort, End
        <3> QED
            BY <2>3, <3>1, ReceiveKeeps, ReceiveGuardedKeeps
    <2>4. ASSUME NEW p \in BridgePort, Discard(p) PROVE TreeInv'
        BY <2>4, DiscardKeeps
    <2>5. CASE Tick
        BY <2>5, TickKeeps
    <2>6. CASE \/ \E l \in CanCut : ChangeCable(l)
               \/ \E p \in CanShut : Shutdown(p) \/ NoShutdown(p)
        BY <2>6, EnvironmentKeeps
    <2> QED
        BY <2>1, <2>2, <2>3, <2>4, <2>5, <2>6 DEF TreeNext, Run
<1>2. TreeSpec => TreeInit /\ [][TreeNext]_treeVars
    BY DEF TreeSpec
<1> QED
    BY <1>1, <1>2, InitTree, PTL

\* Root Guard holds in the classic protocol (receive_stp_packet, port_state): a
\* guarded port never forwards as the way to the root, for every cabling, every
\* mixture of classic and rapid bridges and all costs.
THEOREM TreeClassicGuardHolds == TreeSpec => []ClassicGuardHolds
<1>1. TreeInv => ClassicGuardHolds
    <2> SUFFICES ASSUME TreeInv, NEW p \in RootGuard, p[1] \notin Rapid
                 PROVE  ~Breached(p)
        BY DEF ClassicGuardHolds
    <2> DEFINE b == p[1]
               l == p[2]
               j == Recomputed(b, instance[b])
    <2>1. b \in Bridge /\ l \in Link /\ p = <<b, l>>
        BY DEF TreeInv, Settings, RootGuard
    <2>2. RefreshOK(b, instance[b], j) /\ Fine(b, j) /\ RootOK(b, j)
        BY <2>1, RefreshedIs, RefreshGuards DEF TreeInv, Fine, Recomputed
    <2>3. SUFFICES ASSUME j.root_port = l, j.ports[l].state = "forwarding"
                   PROVE  FALSE
        BY DEF Breached
    <2> HIDE DEF b, l, j
    <2>4. l # NoPort
        BY <2>1, CostIs DEF TreeInv
    <2>5. l \in PortsOf(b) /\ Leads(j, l)
        BY <2>2, <2>3, <2>4 DEF RootOK
    <2>6. j.elapsed[l] + j.received[l].left <= MaxAge
        BY <2>1, <2>2, <2>3, <2>5 DEF Fine, GuardOK, b
    <2>7. j.elapsed[l] >= 2 * ForwardDelay
        BY <2>2, <2>3, <2>5 DEF RefreshOK, b
    <2>8. j.elapsed[l] \in Int /\ j.received[l].left \in Int /\ j.received[l].left > 0
        BY <2>2, <2>5 DEF Fine, InstanceOK, HeardOK, Leads
    <2> QED
        BY <2>6, <2>7, <2>8 DEF Settings
<1> QED
    BY <1>1, TreeInvariant, PTL

=============================================================================
