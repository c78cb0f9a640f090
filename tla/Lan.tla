-------------------------------- MODULE Lan --------------------------------
(***************************************************************************)
(* IPv4 over a switched LAN: learning and VLANs on one switch with an SVI  *)
(* (crates/rios-topology/src/delivery.rs,                                  *)
(* crates/rios-device/src/{lib,ethernet,subinterface,stp}.rs), neighbor    *)
(* resolution and the packets that wait for it, routing, ICMP, and the     *)
(* ping command, which drives the lab's events itself                      *)
(* (crates/rios-topology/src/network/{arp,forwarding,ingress,icmp,ping}.rs,*)
(* crates/rios-device/src/network.rs).                                     *)
(*                                                                         *)
(* The clock is left out: entries age, packets that wait expire and pings  *)
(* give up at any moment.  Cables keep the order of their frames (Cable).  *)
(* An address is named by the interface that has it.  The ports of the     *)
(* switch are PortFast and meet no BPDU, no NAT, access list or QoS policy *)
(* is configured: SpanningTree, Nat and QosPort are about those.           *)
(***************************************************************************)
EXTENDS Naturals, SequencesExt, FiniteSetsExt

CONSTANTS
    Station,      \* devices with a cable to the switch
    Switch,       \* the switch, a device too
    Router,       \* devices with ipv4_forwarding_enabled
    Interface,    \* interfaces with an address: the address itself
    Nobody,       \* addresses that no interface has
    DeviceOf,     \* the device of an interface
    MacOf,        \* its MAC address; subinterfaces have their parent's
    Subnet,       \* the addresses of its subnet
    Encap,        \* its VLAN (an SVI, a subinterface), Untagged or Virtual
    Gateway,      \* [device -> next hop of its default route, or None]
    Port,         \* ports of the switch, numbers
    Trunk,        \* the ports in trunk mode, with NativeVlan
    Vlan, NativeVlan,
    Plans,        \* what happens in a behaviour, see Init
    PingCount,    \* PING_COUNT
    DefaultTtl,   \* 64
    InterfaceLimit, QueueLimit   \* packets that wait: 256 and 4096

Untagged == 0

\* A loopback interface.
Virtual == 9999

None == "none"

Broadcast == "broadcast"

Address == Interface \cup Nobody

Device == Station \cup {Switch}

Mac == {MacOf[i] : i \in Interface}

ASSUME LanAssumption ==
    /\ Interface \cap Nobody = {} /\ None \notin Address /\ Broadcast \notin Mac
    /\ DeviceOf \in [Interface -> Device] /\ Switch \notin Station
    /\ Subnet \in [Interface -> SUBSET Address]
    /\ Gateway \in [Device -> Address \cup {None}]
    /\ Port \subseteq Nat \ {0} /\ Trunk \subseteq Port
    /\ NativeVlan \in Vlan /\ Vlan \subseteq Nat \ {Untagged, Virtual}
    /\ \A p \in Plans : p.at \in [Station -> Port \cup {0}] /\ p.access_vlan \in [Port -> Vlan]
    /\ {PingCount, DefaultTtl, InterfaceLimit, QueueLimit} \subseteq Nat

VARIABLES
    plan,         \* the member of Plans that this behaviour follows
    at,           \* the port of the switch that each station is plugged into, or 0
    up,           \* whether the cable of each station carries frames
    access_vlan,  \* of the access ports
    allowed,      \* trunk_allowed_vlans
    vlans,        \* the VLAN database of the switch
    net,          \* what the events change, see Init
    used          \* auxiliary: pings, packets and faults so far

vars == <<plan, at, up, access_vlan, allowed, vlans, net, used>>

Unplugged == 0

\* VlanId::DEFAULT
DefaultVlan == 1

Idle == [state |-> "idle"]

NoEntry == [mac |-> None, interface |-> None]

NoIcmp == [device |-> None]

NoQuote == [type |-> None]

Init ==
    /\ plan \in Plans   \* tasks: the pings; flow, packets: other traffic;
                        \* faults: the kinds of faults and edits; budget: how many
    /\ at = plan.at
    /\ up = [h \in Station |-> TRUE]
    /\ access_vlan = plan.access_vlan
    /\ allowed = Vlan
    /\ vlans = Vlan
    /\ net = [arp |-> [d \in Device |-> [a \in Address |-> NoEntry]],
              mac |-> [v \in Vlan |-> [m \in Mac |-> Unplugged]],
              stp |-> [v \in Vlan |-> {}],   \* ports of each instance at the last refresh
              pending |-> <<>>,
              sent |-> [h \in Station |-> <<>>],   \* on the cable to the switch
              out |-> [h \in Station |-> <<>>],    \* on the cable from the switch
              ping |-> Idle,
              icmp |-> NoIcmp,               \* last_local_icmp
              \* auxiliary: probes that were answered and refused, what the
              \* pings have printed, and the packets that have arrived
              echoed |-> {}, refused |-> {}, report |-> {}, arrived |-> <<>>]
    /\ used = [pings |-> 0, packets |-> 0, faults |-> 0]

-----------------------------------------------------------------------------
(* The switch *)

\* The stations with a live cable on port p: at most one.
On(p) == {h \in Station : at[h] = p /\ up[h]}

Carries(p, v) == v \in vlans /\ IF p \in Trunk THEN v \in allowed ELSE access_vlan[p] = v

\* stp_ports: every one of them forwards.
Members(v) == {p \in Port : On(p) # {} /\ Carries(p, v)}

\* Device::refresh_spanning_tree: a VLAN that has lost a port of its tree, or
\* whose tree is new, forgets its stations.
Refreshed(n) ==
    [n EXCEPT
       !.stp = [v \in Vlan |-> Members(v)],
       !.mac = [v \in Vlan |->
                  IF Members(v) # {} /\ (n.stp[v] = {} \/ ~(n.stp[v] \subseteq Members(v)))
                  THEN [m \in Mac |-> Unplugged] ELSE @[v]]]

\* classify_switch_ingress: the VLAN of a frame that comes in at port p.
VlanOf(p, f) == IF p \notin Trunk THEN access_vlan[p]
                ELSE IF f.tag = Untagged THEN NativeVlan ELSE f.tag

Accepts(p, f) == (p \notin Trunk => f.tag = Untagged) /\ Carries(p, VlanOf(p, f))

\* prepare_switch_egress
Tagged(p, v, f) ==
    [f EXCEPT !.tag = IF p \in Trunk /\ v # NativeVlan THEN v ELSE Untagged]

\* The ports of VLAN v that a frame to MAC address m leaves by.
Egress(n, v, m) ==
    IF m = Broadcast \/ n.mac[v][m] = Unplugged THEN Members(v)
    ELSE Members(v) \cap {n.mac[v][m]}

Output(n, ports, v, frames) ==
    [n EXCEPT !.out = [h \in Station |->
        IF up[h] /\ at[h] \in ports
        THEN @[h] \o [k \in DOMAIN frames |-> Tagged(at[h], v, frames[k])] ELSE @[h]]]

\* forward_switch_frame
Forward(n, p, v, f) ==
    LET learned == [n EXCEPT !.mac[v][f.source] = p]
    IN Output(learned, Egress(learned, v, f.destination) \ {p}, v, <<f>>)

-----------------------------------------------------------------------------
(* Interfaces, routes and neighbors *)

IsSvi(i) == DeviceOf[i] = Switch

\* refresh_svi_states, which follows every change of a port, a cable or the
\* VLANs: an SVI is up while some live port carries its VLAN.
SviUp(i) == Members(Encap[i]) # {}

\* Device::protocol_up
ProtocolUp(i) ==
    \/ Encap[i] = Virtual
    \/ IF IsSvi(i) THEN SviUp(i)
       ELSE at[DeviceOf[i]] # Unplugged /\ up[DeviceOf[i]]

UpInterfaces(d) == {i \in Interface : DeviceOf[i] = d /\ ProtocolUp(i)}

Owns(d, a) == a \in UpInterfaces(d)

\* Connected routes: the longest prefix is the smallest subnet.
Connected(d, a) ==
    LET fit == {i \in UpInterfaces(d) : a \in Subnet[i]}
    IN {i \in fit : \A j \in fit : Cardinality(Subnet[i]) <= Cardinality(Subnet[j])}

\* Device::resolve_route: a connected route, or the default route when its
\* next hop is connected.
Routes(d, a) ==
    IF Connected(d, a) # {} THEN {[interface |-> i, next_hop |-> a] : i \in Connected(d, a)}
    ELSE IF Gateway[d] = None THEN {}
    ELSE {[interface |-> i, next_hop |-> Gateway[d]] : i \in Connected(d, Gateway[d])}

Route(d, a) == CHOOSE r \in Routes(d, a) : TRUE

\* Device::arp_lookup, for this interface.
Resolved(n, route) ==
    LET entry == n.arp[DeviceOf[route.interface]][route.next_hop]
    IN entry.interface = route.interface

NeighborMac(n, route) == n.arp[DeviceOf[route.interface]][route.next_hop].mac

Frame(i, m, body) ==
    [source |-> MacOf[i], destination |-> m, tag |-> Untagged, body |-> body]

Arp(op, sender, target) == [op |-> op, sender |-> sender, target |-> target]

\* transmit_network_frame, for each of the bodies in turn: all go to m.  An SVI
\* that is down is an error to the caller, see Probe; no other caller sends on
\* one.
Transmit(n, i, m, bodies) ==
    LET frames == [k \in DOMAIN bodies |-> Frame(i, m, bodies[k])] IN
    IF Encap[i] = Virtual \/ ~ProtocolUp(i) \/ bodies = <<>> THEN n
    ELSE IF IsSvi(i)
    THEN LET r == Refreshed(n) IN Output(r, Egress(r, Encap[i], m), Encap[i], frames)
    ELSE [n EXCEPT !.sent[DeviceOf[i]] =
            @ \o [k \in DOMAIN frames |->
                    [frames[k] EXCEPT !.tag = IF Encap[i] = NativeVlan THEN Untagged
                                              ELSE Encap[i]]]]

\* send_arp_request
RequestArp(n, route) ==
    Transmit(n, route.interface, Broadcast,
             <<Arp("request", route.interface, route.next_hop)>>)

Waits(route, pkt) == [source |-> route.interface, next_hop |-> route.next_hop, packet |-> pkt]

\* Packets that wait for this neighbor already.
WaitingFor(n, i, hop) ==
    {k \in DOMAIN n.pending : n.pending[k].source = i /\ n.pending[k].next_hop = hop}

NoRoom(n, i) ==
    \/ Len(n.pending) >= QueueLimit
    \/ Cardinality({k \in DOMAIN n.pending : n.pending[k].source = i}) >= InterfaceLimit

\* send_ipv4_via
SendVia(n, route, pkt) ==
    LET queued == [n EXCEPT !.pending = Append(@, Waits(route, pkt))] IN
    CASE Resolved(n, route) ->
           Transmit(n, route.interface, NeighborMac(n, route), <<pkt>>)
      [] ~Resolved(n, route) /\ NoRoom(n, route.interface) -> n
      [] ~Resolved(n, route) /\ ~NoRoom(n, route.interface) ->
           IF WaitingFor(n, route.interface, route.next_hop) = {}
           THEN RequestArp(queued, route) ELSE queued

\* send_ipv4_packet
SendPacket(n, d, pkt) ==
    IF Routes(d, pkt.dst) = {} THEN n ELSE SendVia(n, Route(d, pkt.dst), pkt)

\* The elements of s at the positions K, in their order.
Picked(s, K) ==
    [j \in 1 .. Cardinality(K) |->
        s[CHOOSE k \in K : Cardinality({l \in K : l < k}) = j - 1]]

Packets(waits) == [k \in DOMAIN waits |-> waits[k].packet]

\* Mutant of Flush: the last packet first.
FlushReversed(n, i, hop, m) ==
    LET ready == WaitingFor(n, i, hop)
        kept == [n EXCEPT !.pending = Picked(@, DOMAIN @ \ ready)]
    IN Transmit(kept, i, m, Reverse(Packets(Picked(n.pending, ready))))

\* flush_pending
Flush(n, i, hop, m) ==
    LET ready == WaitingFor(n, i, hop)
        kept == [n EXCEPT !.pending = Picked(@, DOMAIN @ \ ready)]
    IN Transmit(kept, i, m, Packets(Picked(n.pending, ready)))

\* handle_arp
HandleArp(n, i, f) ==
    LET d == DeviceOf[i]
        learned == [n EXCEPT !.arp[d][f.body.sender] = [mac |-> f.source, interface |-> i]]
        answered == IF f.body.op = "reply" THEN learned
                    ELSE Transmit(learned, i, f.source, <<Arp("reply", i, f.body.sender)>>)
    IN IF f.body.target = i /\ ProtocolUp(i)
       THEN Flush(answered, i, f.body.sender, f.source) ELSE n

-----------------------------------------------------------------------------
(* Packets: an echo (type, id, seq), an error about one, or other data *)

Echo(type, src, dst, ttl, id, seq) ==
    [type |-> type, src |-> src, dst |-> dst, ttl |-> ttl, id |-> id, seq |-> seq,
     about |-> NoQuote]

IsError(pkt) == pkt.type \in {"T", "U"}

\* send_icmp_error: the error quotes the packet.
SendError(n, d, pkt, kind) ==
    IF IsError(pkt) \/ Routes(d, pkt.src) = {} THEN n
    ELSE LET noted == IF pkt.type # "request" THEN n
                      ELSE [n EXCEPT !.refused = @ \cup {<<pkt.id, pkt.seq, kind>>}]
             route == Route(d, pkt.src)
         IN SendVia(noted, route,
                    [type |-> kind, src |-> route.interface, dst |-> pkt.src,
                     ttl |-> DefaultTtl, id |-> pkt.id, seq |-> pkt.seq,
                     about |-> [type |-> pkt.type, src |-> pkt.src, dst |-> pkt.dst]])

\* handle_local_ipv4
HandleLocal(n, d, pkt) ==
    CASE pkt.type = "reply" \/ IsError(pkt) -> [n EXCEPT !.icmp = [device |-> d, packet |-> pkt]]
      [] pkt.type = "request" ->
           SendPacket([n EXCEPT !.echoed = @ \cup {<<pkt.id, pkt.seq>>}], d,
                      Echo("reply", pkt.dst, pkt.src, DefaultTtl, pkt.id, pkt.seq))
      [] OTHER -> [n EXCEPT !.arrived = Append(@, pkt.id)]

\* forward_ipv4
ForwardIpv4(n, d, pkt) ==
    CASE d \notin Router -> n
      [] d \in Router /\ pkt.ttl <= 1 -> SendError(n, d, pkt, "T")
      [] OTHER ->
           IF Routes(d, pkt.dst) = {} THEN SendError(n, d, pkt, "U")
           ELSE SendPacket(n, d, [pkt EXCEPT !.ttl = @ - 1])

\* handle_ipv4
HandleIpv4(n, d, pkt) ==
    IF Owns(d, pkt.dst) THEN HandleLocal(n, d, pkt) ELSE ForwardIpv4(n, d, pkt)

IsArp(f) == "op" \in DOMAIN f.body

\* handle_protocol_frame
HandleFrame(n, i, f) ==
    IF IsArp(f) THEN HandleArp(n, i, f) ELSE HandleIpv4(n, DeviceOf[i], f.body)

Svis(v) == {i \in Interface : IsSvi(i) /\ Encap[i] = v}

\* handle_switch_frame: the SVI is served first and teaches the switch
\* nothing; a frame to its own address goes no further.
HandleSwitch(n, p, f) ==
    LET v == VlanOf(p, f)
        fresh == Refreshed(n)
        svi == {i \in Svis(v) : f.destination \in {MacOf[i], Broadcast}}
        served == IF svi = {} THEN fresh
                  ELSE HandleFrame(fresh, CHOOSE i \in svi : TRUE, f)
    IN IF \E i \in svi : f.destination = MacOf[i] THEN served
       ELSE Forward(served, p, v, f)

\* routed_ingress: the interface of station h that takes frames so tagged.  The
\* native subinterface takes its frames with a tag and without.
Ingress(h, tag) ==
    {i \in Interface : /\ DeviceOf[i] = h /\ Encap[i] # Virtual
                       /\ \/ tag = Encap[i]
                          \/ tag = Untagged /\ Encap[i] = NativeVlan}

\* check_frame and routed_ingress at station h
HandleStation(n, h, f) ==
    LET to == {i \in Ingress(h, f.tag) : f.destination \in {MacOf[i], Broadcast}}
    IN IF to = {} THEN n ELSE HandleFrame(n, CHOOSE i \in to : TRUE, f)

-----------------------------------------------------------------------------
(* ping *)

\* Mutant of Signal: an answer to any probe of this ping will do.
SignalOfPing(g, pkt) ==
    CASE pkt.dst # g.route.interface -> None
      [] pkt.type = "reply" /\ pkt.src = g.dst /\ pkt.id = g.id -> "!"
      [] IsError(pkt) /\ pkt.about = [type |-> "request", src |-> g.route.interface, dst |-> g.dst]
           /\ pkt.id = g.id -> pkt.type
      [] OTHER -> None

\* decode_ping_signal: what a packet tells the ping g about its probe.
Signal(g, pkt) ==
    CASE pkt.dst # g.route.interface -> None
      [] pkt.type = "reply" /\ pkt.src = g.dst /\ pkt.id = g.id /\ pkt.seq = g.seq -> "!"
      [] IsError(pkt) /\ pkt.about = [type |-> "request", src |-> g.route.interface, dst |-> g.dst]
           /\ pkt.id = g.id /\ pkt.seq = g.seq -> pkt.type
      [] OTHER -> None

\* The echo leaves by the route of this moment, which need not be the one
\* that the ping resolved when it began.
SendEcho(n, g) ==
    [SendPacket(n, g.device, Echo("request", g.route.interface, g.dst, g.ttl, g.id, g.seq))
     EXCEPT !.ping = [g EXCEPT !.state = "echo"]]

\* ensure_neighbor, and the echo if the neighbor is known.  A request on an
\* SVI that is down is an error that ends the command.
Probe(n, g) ==
    CASE Resolved(n, g.route) -> SendEcho(n, g)
      [] ~Resolved(n, g.route) /\ IsSvi(g.route.interface) /\ ~ProtocolUp(g.route.interface) ->
           [n EXCEPT !.ping = Idle]
      [] OTHER -> [RequestArp(n, g.route) EXCEPT !.ping = [g EXCEPT !.state = "arp"]]

\* The probe has come to its end; the next one begins at once.
Marked(n, g, mark) ==
    LET noted == [n EXCEPT !.report = @ \cup {[id |-> g.id, seq |-> g.seq, mark |-> mark]}]
    IN IF g.seq + 1 = PingCount THEN [noted EXCEPT !.ping = Idle]
       ELSE Probe(noted, [g EXCEPT !.seq = @ + 1])

\* What the ping does with the packet that this event has brought, if any.
Heard(n, g) ==
    LET mark == IF n.icmp.device = g.device THEN Signal(g, n.icmp.packet) ELSE None
        quiet == [n EXCEPT !.icmp = NoIcmp]
    IN IF mark = None THEN quiet ELSE Marked(quiet, g, mark)

\* drive_until, after an event.
Driven(n) ==
    CASE n.ping.state = "arp" /\ Resolved(n, n.ping.route) ->
           SendEcho([n EXCEPT !.icmp = NoIcmp], n.ping)
      [] n.ping.state = "echo" -> Heard(n, n.ping)
      [] OTHER -> [n EXCEPT !.icmp = NoIcmp]

\* ping_with_ttl; the address of the source itself is answered at once.
Ping(t) ==
    LET d == t.device
        r == Route(d, t.dst)
        g == [state |-> "arp", device |-> d, route |-> r, dst |-> t.dst, ttl |-> t.ttl,
              id |-> used.pings, seq |-> 0]
    IN
    /\ net.ping = Idle
    /\ used.pings < plan.pings
    /\ Routes(d, t.dst) # {} /\ r.interface # t.dst
    /\ net' = Probe(net, g)
    /\ used' = [used EXCEPT !.pings = @ + 1]
    /\ UNCHANGED <<plan, at, up, access_vlan, allowed, vlans>>

\* The probe's second is over.
Timeout ==
    /\ net.ping # Idle
    /\ net' = Marked(net, net.ping, ".")
    /\ UNCHANGED <<plan, at, up, access_vlan, allowed, vlans, used>>

-----------------------------------------------------------------------------
(* Events *)

\* A frame arrives at the switch, from station h.
SwitchReceives(h) ==
    LET f == Head(net.sent[h])
        n == [net EXCEPT !.sent[h] = Tail(@)]
    IN
    /\ net.sent[h] # <<>>
    /\ net' = Driven(IF Accepts(at[h], f) THEN HandleSwitch(n, at[h], f) ELSE n)
    /\ UNCHANGED <<plan, at, up, access_vlan, allowed, vlans, used>>

\* A frame arrives at station h.
StationReceives(h) ==
    /\ net.out[h] # <<>>
    /\ net' = Driven(HandleStation([net EXCEPT !.out[h] = Tail(@)], h, Head(net.out[h])))
    /\ UNCHANGED <<plan, at, up, access_vlan, allowed, vlans, used>>

\* A timer of another protocol sends a packet.
SendData ==
    /\ used.packets < plan.packets
    /\ used' = [used EXCEPT !.packets = @ + 1]
    /\ Routes(plan.flow.device, plan.flow.dst) # {}
    /\ net' = SendPacket(net, plan.flow.device,
                 Echo("data", Route(plan.flow.device, plan.flow.dst).interface,
                      plan.flow.dst, DefaultTtl, used'.packets, 0))
    /\ UNCHANGED <<plan, at, up, access_vlan, allowed, vlans>>

\* purge_pending: the packets have the same time to live, the first goes first.
Expire ==
    /\ net.pending # <<>>
    /\ net' = [net EXCEPT !.pending = Tail(@)]
    /\ UNCHANGED <<plan, at, up, access_vlan, allowed, vlans, used>>

\* StpHello of the switch.
StpHello ==
    /\ net' = Refreshed(net)
    /\ UNCHANGED <<plan, at, up, access_vlan, allowed, vlans, used>>

-----------------------------------------------------------------------------
(* Faults, ageing, and changes of the cabling and the configuration *)

Fault(kind) ==
    /\ kind \in plan.faults
    /\ used.faults < plan.budget
    /\ used' = [used EXCEPT !.faults = @ + 1]
    /\ UNCHANGED plan

\* The frame was marked as lost when it was sent.
Lose(h) ==
    /\ Fault("lose")
    /\ \/ net.sent[h] # <<>> /\ net' = [net EXCEPT !.sent[h] = Tail(@)]
       \/ net.out[h] # <<>> /\ net' = [net EXCEPT !.out[h] = Tail(@)]
    /\ UNCHANGED <<at, up, access_vlan, allowed, vlans>>

\* Device::arp_lookup and Device::mac_lookup drop what has come of age.
AgeArp(d, a) ==
    /\ Fault("age")
    /\ net.arp[d][a] # NoEntry
    /\ net' = [net EXCEPT !.arp[d][a] = NoEntry]
    /\ UNCHANGED <<at, up, access_vlan, allowed, vlans>>

AgeMac(v, m) ==
    /\ Fault("age")
    /\ net.mac[v][m] # Unplugged
    /\ net' = [net EXCEPT !.mac[v][m] = Unplugged]
    /\ UNCHANGED <<at, up, access_vlan, allowed, vlans>>

Purged(n, p) ==
    [n EXCEPT !.mac = [v \in Vlan |-> [m \in Mac |-> IF @[v][m] = p THEN Unplugged ELSE @[v][m]]]]

\* Mutant of CarrierLost: the table keeps the stations of the port.
CarrierLostKept(h) ==
    [net EXCEPT !.sent[h] = <<>>, !.out[h] = <<>>]

\* refresh_carriers when the cable of h goes down: what is on it will be
\* discarded, and set_link_state forgets the stations of the port.
CarrierLost(h) ==
    Purged([net EXCEPT !.sent[h] = <<>>, !.out[h] = <<>>], at[h])

\* LinkStateChanged, which may fire during a ping.
ChangeLink(h) ==
    /\ Fault("link")
    /\ at[h] # Unplugged
    /\ up' = [up EXCEPT ![h] = ~@]
    /\ net' = IF up[h] THEN CarrierLost(h) ELSE net
    /\ UNCHANGED <<at, access_vlan, allowed, vlans>>

\* A command: no other one is under way.
Command(kind) == Fault(kind) /\ net.ping = Idle

Unplug(h) ==
    /\ Command("plug")
    /\ at[h] # Unplugged
    /\ at' = [at EXCEPT ![h] = Unplugged]
    /\ net' = CarrierLost(h)
    /\ UNCHANGED <<up, access_vlan, allowed, vlans>>

Plug(h, p) ==
    /\ Command("plug")
    /\ at[h] = Unplugged /\ p \notin Range(at)
    /\ at' = [at EXCEPT ![h] = p]
    /\ UNCHANGED <<up, access_vlan, allowed, vlans, net>>

\* Device::set_access_vlan
SetAccessVlan(p, v) ==
    /\ Command("access")
    /\ access_vlan[p] # v
    /\ access_vlan' = [access_vlan EXCEPT ![p] = v]
    /\ net' = Purged(net, p)
    /\ UNCHANGED <<at, up, allowed, vlans>>

\* Device::set_trunk_allowed_vlans
SetAllowed(V) ==
    /\ Command("trunk")
    /\ allowed # V
    /\ allowed' = V
    /\ net' = [net EXCEPT !.mac = [v \in Vlan |-> [m \in Mac |->
                    IF @[v][m] \in Trunk THEN Unplugged ELSE @[v][m]]]]
    /\ UNCHANGED <<at, up, access_vlan, vlans>>

\* Device::remove_vlan
RemoveVlan(v) ==
    /\ Command("vlan")
    /\ v \in vlans /\ v # DefaultVlan
    /\ vlans' = vlans \ {v}
    /\ net' = [net EXCEPT !.mac[v] = [m \in Mac |-> Unplugged], !.stp[v] = {}]
    /\ UNCHANGED <<at, up, access_vlan, allowed>>

CreateVlan(v) ==
    /\ Command("vlan")
    /\ v \notin vlans
    /\ vlans' = vlans \cup {v}
    /\ UNCHANGED <<at, up, access_vlan, allowed, net>>

Next ==
    \/ \E t \in plan.tasks : Ping(t)
    \/ Timeout
    \/ \E h \in Station : SwitchReceives(h) \/ StationReceives(h)
    \/ SendData
    \/ Expire
    \/ StpHello
    \/ \E h \in Station : Lose(h) \/ ChangeLink(h) \/ Unplug(h)
    \/ \E h \in Station, p \in Port \ Trunk : Plug(h, p)
    \/ \E d \in Device, a \in Address : AgeArp(d, a)
    \/ \E v \in Vlan, m \in Mac : AgeMac(v, m)
    \/ \E p \in Port \ Trunk, v \in Vlan : SetAccessVlan(p, v)
    \/ \E V \in SUBSET Vlan : SetAllowed(V)
    \/ \E v \in Vlan : RemoveVlan(v) \/ CreateVlan(v)

Spec == Init /\ [][Next]_vars

-----------------------------------------------------------------------------
(* Properties *)

\* What a ping prints is what happened to that very probe: a "!" stands for
\* one that its destination has answered, a "T" or a "U" for one that a
\* router has refused for that reason and that was not answered.
PingTruthful ==
    \A r \in net.report :
        /\ r.mark = "!" => <<r.id, r.seq>> \in net.echoed
        /\ r.mark \in {"T", "U"} => /\ <<r.id, r.seq, r.mark>> \in net.refused
                                    /\ <<r.id, r.seq>> \notin net.echoed

\* The packets of a flow arrive in the order in which they were sent and once
\* at most, whatever neighbors they wait for at the hosts and the routers.
InOrder ==
    \A j, k \in DOMAIN net.arrived : j < k => net.arrived[j] < net.arrived[k]

\* The switch knows stations only where they are: an entry names the port of
\* a live cable to the device with that address, in a VLAN of that port.
MacTruth ==
    \A v \in Vlan, m \in Mac :
        LET p == net.mac[v][m] IN
        p # Unplugged =>
            /\ Carries(p, v)
            /\ \E i \in Interface : MacOf[i] = m /\ DeviceOf[i] \in On(p)

=============================================================================
