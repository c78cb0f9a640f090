# A TLA+ model of RIOS

RIOS is a deterministic simulator of a network lab: routers, switches and hosts
with an IOS-like command line, joined by virtual cables, on one virtual clock.
Everything that happens in a lab is an event of one queue
(`src/crates/rios-simulator/src/queue.rs`); the devices
(`src/crates/rios-device`) keep protocol state, the lab
(`src/crates/rios-topology`) moves frames and fires timers, and the routing
crate (`src/crates/rios-routing`) holds the OSPF, OSPFv3 and BGP machines.

One thread runs a lab, so there are no data races. What is hard is the order of
*events*: a frame that is under way while its cable is cut and restored, a timer
that fires for a lease that has been renewed, a segment of a connection that no
longer exists, a BPDU that arrives after the port has changed its role. Tests
drive one such order each. This project explores all of them on small labs, and
proves the safety of the queue, the cables, TCP, output queueing, NAT, DHCP, BGP
and the saving of configurations for labs, policies and bounds of any size.
Around the lab, several sessions type commands at one device, and the
configuration they make is saved, survives a crash and is replayed: there the
hard part is the number of ways in which settings meet.

`PROJECT.json` maps every definition to the lines it models, lists the hazards
in the code with the properties that would catch them, and gives for each
property a mutation of the model that breaks it.

## 1. The system and its parts

| part | state it keeps | operations | interacts with |
| --- | --- | --- | --- |
| event queue (`simulator/queue.rs`) | clock, next sequence, heap of pending events | schedule_at, schedule_after, step, advance_to | everything |
| links (`simulator/link.rs`, `topology/lab.rs`, `delivery.rs`) | links, port map, reservations per direction, generation, carrier of each interface | connect, disconnect, set_link_state, shutdown, transmit, delivery of a frame | queue, every protocol (frames, carrier changes) |
| TCP (`device/tcp.rs`) | connections by socket pair, listeners | listen, connect, send, read, close, abort, segment arrival, tick | IP forwarding; BGP, HTTP, Telnet |
| output QoS (`simulator/qos`, `topology/qos.rs`) | class queues, token buckets, finish tags, wake-ups in the event queue | enqueue, service, wake-up, change of carrier or policy | links, queue |
| DHCP (`device/dhcp.rs`, `topology/network/dhcp*`) | offers, bindings, conflicts; client lease, transaction, probe | discover, offer, request, ack, nak, decline, probe, renew, expire | queue (timers), ARP |
| spanning tree (`device/stp.rs`) | one instance per VLAN: received BPDUs, roles, states, agreements | hello, BPDU arrival, carrier change, guards | links, switching |
| NAT (`device/nat.rs`) | translations, next port, static rules | outbound, inbound, rule edits, expiry | forwarding, access lists |
| OSPFv2 (`routing/ospf_exchange.rs`, `device/ospf*`) | neighbors, exchange, database, request and retransmission lists | hello, database exchange, flooding, origination, dead timer | forwarding, routing table |
| BGP (`device/bgp*`, `routing/bgp*`) | streams of a peer, session state machine, RIBs | open, collision, update, hold timer, selection | TCP, routing table |
| OSPFv3, IPv6 ND, SLAAC | as their IPv4 counterparts | as their IPv4 counterparts | forwarding |
| LACP and channels, switching | actor and partner of each member, MAC table | LACPDU, timeout, learning, ageing, forwarding | links, spanning tree |
| ARP, forwarding, ICMP | ARP cache, pending packets | resolve, reply, timeout | links, routing table |
| access lists, route policy, classification | rules | first match | forwarding, BGP, QoS |
| configuration and CLI modes (`rios-cli`, `rios-config`, `rios-device`) | running and startup configuration, mode | commands, replay | every protocol |
| storage, remote access (`src/src/storage.rs`, `ssh.rs`, `telnet.rs`, `shell.rs`) | files, sessions | save, load, connect | configuration |

The properties that make each part correct:

* **queue**: events fire in one order of time and insertion; none is skipped.
* **links**: both directions of the books agree; carrier is what cable and
  configuration say; no frame crosses an outage; frames of a direction keep
  their order under jitter; the transmit queue keeps its bound and no frame
  vanishes without being counted.
* **TCP**: each direction is a byte stream whatever the network does to the
  segments; incarnations of one socket pair do not mix.
* **QoS**: waiting frames always have a wake-up to come; weighted classes share
  fairly; shapers conform.
* **DHCP**: no address for two clients; a client never falls silent.
* **spanning tree**: no loop at any moment; in the end all is connected.
* **NAT**: an answer has one owner and gets to it.
* **OSPF**: neighbors become Full, and then their databases are equal.
* **BGP**: one session survives a collision; routes only from a live
  session; both ends agree in the end.
* **switching, ARP, ping**: the MAC table names only places where a station
  is; packets that wait for a neighbor keep their order; what a ping prints is
  what happened to that probe.
* **configuration**: what is shown can be replayed to the same device; an
  acknowledged save survives a crash; a session goes on editing the object it
  has entered.
* **command line**: following help leads to a line that is accepted, and help
  leads to every line that is accepted.

## 2. Modules

| module | models | composed of |
| --- | --- | --- |
| `SimQueue` | the value of an `EventQueue` and its operations as functions | |
| `EventQueue` | abstract: the queue alone with an arbitrary caller | `SimQueue` |
| `Cable` | cables, ports, carriers, frames as events of the queue | `SimQueue` |
| `CableDispatch` | `Cable` with the history of what has fired, implements `EventQueue` | `Cable`, `EventQueue` by INSTANCE |
| `CableProofs` | theorems on `EventQueue` and on `Cable`, and that `CableDispatch` implements `EventQueue` | |
| `Lan` | a switch with VLANs, hosts and a router: learning, ARP, forwarding, ICMP, ping | |
| `SwitchProofs` | theorems on `Lan` and on `SpanningTree` | |
| `ByteStream` | abstract: what one direction of a connection promises | |
| `Tcp` | the TCP of two devices, implements `ByteStream` | `ByteStream` by INSTANCE |
| `TcpProofs` | theorems on it, the refinement included | |
| `QosScheduler` | token buckets and the class scheduler as functions | |
| `QosPort` | a port with a policy on top of a cable's transmitter | `QosScheduler` |
| `QosProofs` | theorems on it | |
| `Dhcp` | clients and servers of a segment | |
| `DhcpProofs` | theorems on it | |
| `SpanningTree` | the instances of one VLAN over a cabling | |
| `Nat` | the translations of one router | |
| `NatProofs` | theorems on it | |
| `OspfAdjacency` | two routers on a point-to-point link | |
| `Bgp` | two BGP speakers, their sessions and routes | |
| `BgpProofs` | theorems on it | |
| `DeviceConfig` | the configuration of a device and the edits that keep it consistent | |
| `Commands` | what each command does in each mode | `DeviceConfig` |
| `ConfigReplay` | `show running-config` and its replay on bare hardware | `Commands` |
| `Management` | the sessions of a device, its startup configuration and state file | `ConfigReplay` |
| `ManagementProofs` | theorems on the storage of the state file | |
| `Words` | words, numbers, addresses, abbreviations | |
| `Grammar` | the option grammars that the parser and help share | `Words` |
| `Arguments` | the commands with a parser of their own, and the hints of help for them | `Grammar` |
| `CommandLine` | a line being typed, with what Enter and `?` make of it | `Arguments` |
| `MC...` | the labs, policies, flows and bounds that TLC explores | the module after MC |
| `MCTerminal` | sessions on a device beside a line that is typed | `MCManagement`, `MCCommandLine` |

An action is a whole handler of the code: what a handler calls in the same event
(refreshing carriers, recomputing roles, scheduling the next wake-up) happens
in the same step. The actions have the names of the functions they translate
where TLA+ allows it. Calls that fail without an effect are stuttering steps.

Modules with several scenarios have a variable `lab` (`bound` in `Tcp` and `Bgp`) which
takes in Init any member of the constant `Labs` (`Bounds`) and never changes:
one run then covers all the scenarios, and the operators on `lab` (`Client`,
`MaxTime`, ...) read as constants of a behaviour.

### EventQueue

`queue` is the value `[now, next_sequence, pending]`; the heap is a set whose
order of popping is `Before`, the `Ord` of `ScheduledEvent`. `ScheduleAt`,
`ScheduleAfter`, `Step`, `AdvanceTo` are the four public operations, with the
errors `Past`, `Overflow` and `PendingEvent` as guards. The end of the `u64`
ranges is `MaxTime`, `MaxSequence`, so the overflow checks are exercised.
`fired` is auxiliary: the key of the event popped last. Nothing is run on
`EventQueue` alone: `CableDispatch` adds `fired` to `Cable` and shows that the
queue of a lab is an `EventQueue`.

### Cable

`live`, `link`, `runtime` are `Lab::links`; `ports` the index by port;
`admin` and `carrier` the two states of an interface. `Connect`, `Disconnect`,
`SetLinkState`, `EditAdmin` are the operations of `lab.rs`, each with the whole
`refresh_carriers` behind it (new generation, reservations cleared, carrier of
both ends). `Transmit` reserves a place, computes the finish and the arrival
and schedules `FrameReceived`; `StepFrame` is `deliver_frame` with its three
outcomes (the cable has changed, the frame is lost, the frame is delivered).
`StepLinkState` is a scheduled cut, `StepTimer` any other event. `crossed` and
`lastRx` are auxiliary.

### ByteStream and Tcp

`ByteStream` says of one direction: bytes are written at one end, accepted at
the other in the same order without gap or repetition, and the end of the
stream is seen after the last byte. `Tcp` is the socket pair of two devices with
successive incarnations (a connection may be aborted or given up and opened
again while its segments are under way) over a network that loses, duplicates
and reorders. Stop-and-wait transmission, receive limit, retransmission,
half-close, TIME-WAIT, resets and the listener are as in `tcp.rs`. `Implements`
is `ByteStream` for every incarnation and direction.

### QosScheduler and QosPort

The scheduler (priority class with its bucket, finish tags of the weighted
classes, policers, shapers) is a set of functions; `QosPort` is `topology/qos.rs`
around it: admission against the shared bound, `schedule_qos`, `service_qos`,
the wake-ups with their epochs, and what happens when carrier or policy changes
while wake-ups are pending. Every class counts the bytes it has transmitted, as in
the code; `log` is auxiliary and keeps for each departure of the present
runtime its time, its class, its length and that counter, so that what a class
has sent between two of its departures is a difference.

### Dhcp

Servers have offers, bindings and conflicts per client; clients a lease, a
transaction, a probe, a pause and a link state. Timers carry the key
(transaction, deadline or generation) by which the code recognises stale ones;
`Ignore` is the arrival of a stale timer. Messages take any time up to `MaxDelay`
and may be lost.

### SpanningTree

An instance has received BPDUs with the time they are still good for, the root,
roles, elapsed times and agreements. `Hello` is the periodic event, `Receive` a
BPDU's arrival with recomputation, proposal and agreement and the BPDUs it
triggers, `ReceiveGuarded` the arrival at a port that BPDU Guard stops,
`ChangeCable`, `Shutdown`, `NoShutdown` the environment. Clocks are relative, so
that the state space is finite without a bound on time, and convergence can be
checked.

### Nat

`OutStatic`, `OutExisting`, `OutNew`, `OutDrop` are the outcomes of the outbound
translation, `Inbound` of the inbound one; `SetMode`, `AddStatic`, `Clear` are
the commands that clear or keep translations; every packet that leaves is
answered, and `answers` holds the answers under way.

### OspfAdjacency

`nbr[r]` is the neighbor with its exchange: state, sequence, snapshot of
headers still to describe, last packet, request and retransmission lists.
`Deliver` handles one packet (`ospf_exchange.rs`) with the installation,
flooding and origination behind it (`device/ospf*`), `Tick` the timers that are
due, `Dead` the dead interval at one end, `Restart` a new process, `Change` a
new instance of an advertisement.

### Bgp

Two speakers that are neighbors. `peer[s]` is the `Peer` of one with its
streams, the selected one, the received routes and whether `retry_at` is to
come, and the state of its TCP connections; a connection is named by who opens
it and a number. TCP is reduced to what BGP sees of it: a handshake, messages in
order and one at a time (stop and wait, as `Tcp` shows), FIN, RST, and an end
that gives up. Every event (`Deliver`, `Pump`, `Retry`, `CloseDue`, `Timeout`,
`Retransmit`, `Break`, `Reset`) ends with the whole of `bgp_tick`, written as a
pipeline in the order of the code: sweep, accept, connect, serve the streams,
resolve the collision, select, learn, advertise, flush. `network` stands for
what `bgp_advertise` wants to send, whatever configuration, selection and
policy make of it.

### Lan

`net` is the lab: ports and VLANs of the switch, its MAC table, the ARP cache
and the waiting packets of every device, the frames under way on each cable, and
what the running ping has seen. It is one record because a handler is a function
from labs to labs: `SwitchReceives` and `StationReceives` are `deliver_frame`
with all that follows from it in the same event (`HandleSwitch`, `HandleArp` with
`Flush`, `HandleIpv4` with `Signal`). `Ping` starts the command, which drives the event loop itself; each
further event ends with `Driven`, the test of `drive_until`: answered, given up,
next probe, or finished. `ChangeLink`, `Unplug`, `SetAccessVlan`, `SetAllowed` and
`RemoveVlan` are the changes that forget MAC addresses. The clock is
left out: entries age, waiting packets expire and pings give up at any
moment that the bounds allow. `echoed`, `refused`, `report` and `arrived` are
auxiliary: what really happened to a probe, what was printed for it, and
the order in which a flow arrived.

### DeviceConfig, Commands, ConfigReplay, Management

A configuration is a record: interfaces with layer, address, channel,
encapsulation and protocol bindings; VLANs; access lists; NAT; pools; routing
processes; route-maps, classes and policies by identifier. The operators of
`DeviceConfig` are the setters of `rios-device` and `rios-config` with their
conditions, such as what joining a channel does to the member and to the
bundle. `Commands` is the executor: the modes in which a command is understood,
its effect, its error, and the mode after it. Settings that nothing else depends
on (a hostname, a cost) are one kind of command, `SetPlain` or `SetPortPlain`.
`ConfigReplay` renders the configuration as the list of commands that
`show running-config` prints, in its order, and replays such a list with all its
errors. `Management` has the sessions, which interleave between commands, and
the steps of `storage.save` (write, sync, rename, sync of the directory) with a
crash between any two; a command cannot come between them as the lock is held.
`entered`, `orphaned` and `acked` are auxiliary.

### Words, Grammar, Arguments, CommandLine

A line is a sequence of words out of a small set; what a word can stand for
(keyword, abbreviation, number in a range, address, name) is all that matters of
it. `Grammar` has the option tables the parser and help share, `Arguments` the
commands with a parser and hints written apart, which is where the two can
disagree. `TypeWord` appends a word, and `enter` and `help` are recomputed.
`stray` counts the words that help had not offered.

## 3. Runs

| run | cfg | shows |
| --- | --- | --- |
| `cable` | `Cable.cfg` | `TypeOK`, `PortsAgree`, `CarrierCoherent`, `NoCrossOutage`, `Accounting`, `FifoDelivery`; `LabDispatchOrder` and `ImplementsEventQueue` (refinement) |
| `tcp` | `Tcp.cfg` | `Implements` (refinement of byte streams), `AckedIsAccepted`, `Paired` (no incarnation takes the segments of another) |
| `qos` | `Qos.cfg` | `WakeInTime`, `NotOvertaken`, `ShapeConforms` |
| `dhcp` | `Dhcp.cfg` | `NoDoubleReservation`, `NoDuplicateAddress`, `RetryArmed`, `ExpiryArmed`, `NoEarlyExpiry` |
| `spanning_tree` | `SpanningTree.cfg` | `NoLoop`, `ClassicGuardHolds`, `Converges` |
| `nat` | `Nat.cfg` | `NoAmbiguity`, `OneAddress`, `Returns` |
| `ospf` | `Ospf.cfg` | `Synchronized`, `BecomesFull`, `Drains` |
| `bgp` | `Bgp.cfg` | `OneSession`, `NoStaleRoutes`, `RoutesFollow`, `Agrees` |
| `lan` | `Lan.cfg` | `PingTruthful`, `InOrder`, `MacTruth` |
| `terminal` | `Terminal.cfg` | `ReloadExact`, `AcknowledgedSurvives`, `KeepsObject`; `HelpIsSound`, `HelpIsComplete` |
| `ospf_stuck` | `OspfStuck.cfg` | a violation of `Recovers`, section 5 |
| `reload_refused` | `Reload.cfg` | a violation of `RenderedReplays`, section 5 |

The runs say `CHECK_DEADLOCK FALSE`: a lab may really be at rest (no event
pending, no command typed), and the bounds on clocks, changes and retries stop
the model where the program would go on.

### Bounds, and why they are enough

* `cable`: two devices with a port each; two cables one after the other (so that
  a frame meets another cable than the one it was sent on), three generations
  (up, down, up again with a frame in between), one place in the transmit queue,
  two serialization times, one tick of delay and one of jitter: a frame may be
  overtaken if the code lets it. All are proved for all values, any number of
  ports, devices and cables included.
* `tcp`: sequence numbers modulo 12 with a step of 5 between incarnations, so
  that they wrap; either one incarnation with two bytes, one retransmission and
  a listener that goes and comes, or two incarnations at both ends with a byte
  each. Two segments in flight suffice for loss, duplication and overtaking of
  a stop-and-wait protocol; only the client's application writes (the code is
  symmetric after the handshake).
* `qos`: three frames of capacity, four frames, two lengths: a class can be
  blocked by its shaper while another is ready, and the wake-up of an old
  runtime meets a new one.
* `dhcp`: the intervals keep the order of those in the code (a message shorter
  than a probe, a probe shorter than offer and retry, a lease longer than all);
  twelve ticks are two leases. Two clients with one address contend; one client
  with two servers gets answers of both and has its link or configuration changed.
* `spanning_tree`: the smallest cabling with a cycle between different bridges
  (a triangle) and the smallest with parallel cables; one to three changes. The
  labs are rapid, mixed with a legacy bridge, with Root Guard on the better
  way, and with PortFast and BPDU Guard on a cable that joins two switches.
* `nat`: two hosts with the same port to the same service and a third with two
  protocols; two ports and two pool addresses, so that both are exhausted and
  reused; two translations at most; two edits.
* `ospf`: one header per Database Description, so that three advertisements take
  several rounds; two losses; a change of an advertisement behind one of the
  routers; two faults (a neighbor that dies at one end, a restart).
* `bgp`: both speakers open a connection at once; two ports each, so that a new
  connection meets the remains of the old; two prefixes and a queue that takes
  one update, so that advertising is interrupted. Either one change of a
  network, or one fault: an end that gives up with or without its last segment
  delivered, a neighbor that is configured anew, whatever the state of
  its connections, or a retry or closing timer that outruns packets under way.
* `lan`: router on a stick, two hosts in two VLANs, a switch with an SVI and a
  free port. Six plans: a ping with a lost frame, ageing or a cut cable in its
  midst (towards a host, a loopback of the router and an address to which there
  is no route, and with a hop limit that ends at the router); one ping after another, whose
  answers come late; more packets than there is room for while two neighbors
  are unknown; a ping amid such packets; a host that moves and VLANs that are
  edited; the last live port of the SVI's VLAN failing. Two probes for five:
  the second tells a late answer to the first from its own. Two packets may
  wait per interface and three in all, so that both limits are met.
* `terminal`: either sessions on a device or a line being typed; they share no
  state, so that both at once would only multiply the states.
  There are seven devices, each with the commands of one family and five to
  eight of them in a behaviour: bundles and layers of ports, VLANs and trunks,
  lists, NAT and subinterfaces, routing processes and pools, route-maps and their
  clauses, classes and policies (two sessions), and EXEC with saves and crashes. A setting
  that conflicts with another takes at most two commands to enter its mode
  and one to make, twice over.
  There are 17 families of commands, each with the words that are keywords,
  abbreviations, numbers inside and outside of the ranges, and names for it; up
  to seven words, of which two (three for the lines that need them) may be
  against the advice of help.

### Fairness

* `SpanningTree`: steps that are no change of the environment (a hello, a BPDU's
  arrival, the clock) happen again and again. The simulator is one loop over
  its queue, and a lab that runs always has the next `StpHello` pending; a
  command cannot keep the loop from going on. Changes of the environment have
  no fairness and are bounded.
* `OspfAdjacency`: weak fairness of `Deliver` (an event in the queue is
  popped) and strong fairness of `Tick` with all timers due: the tick is
  periodic, but the model lets it happen only while few packets are under way
  (delays are microseconds, the interval is seconds), which it may be enabled
  for only now and then. Losses, faults and changes have no fairness and are
  bounded: after the last, the protocol has to finish by itself.
* `Bgp`: packets are delivered, and ticks and timers happen. Stated as
  conditions that do not last (a packet under way, a tick with something to do,
  a pause before a retry, a stream that is closing, an end whose peer has gone):
  the step that each enables ends it, so this is weak fairness of the step, and
  it is cheap to check. Faults and changes are bounded.

## 4. Theorems

Checked by TLAPS for every value of the constants that satisfies the assumptions
named in the modules; TLC evaluates these assumptions for the constants of the
runs. Most only say that times, sizes and bounds are natural numbers. The ones
that say more:

| assumption | says | because |
| --- | --- | --- |
| `CableAssumption` | a transmit queue has a place | `LinkConfig` rejects 0 (`link.rs:75`) |
| `TcpAssumption` | a stream with its SYN and FIN is shorter than the step between two initial sequences, and the steps of all incarnations together fit into the sequence space (single numbers still wrap) | what the code relies on: initial sequences grow by 64000 and nothing else tells incarnations apart |
| `QosAssumption` | rates, bursts and weights are positive, frames are not empty | `RateLimit::valid` and `QosScheduler::new` reject others |
| `DhcpAssumption` | a lease lasts three ticks at least, so that renewal, rebinding and expiry differ; retries take time | `DHCP_RETRY_MS` and the ranges of `lease` |
| `DhcpTiming` | a message takes less time than a probe and than the pause after a conflict, an offer, a probe and a request with their answers less than a lease, and servers of one segment have disjoint pools | 200 ms, 10 s and at least a minute in the code, against the delay of the cables of a segment; overlapping pools are a mistake of configuration. Only `DhcpNoDuplicateAddress` uses it. Without it the property fails: TLC finds two users of an address when the probe takes no longer than a message, or a lease no longer than the exchange |
| `LanAssumption` | interfaces, addresses and ports of different kinds are different; every plan starts with stations on ports of the switch, or unplugged | type |
| `SpanningTreeAssumption` | `max_age` is at most twice the forward delay, which is positive; costs are positive | 20 and 15 seconds (`rstp.rs:31`, `stp.rs:153`). Used by `TreeClassicGuardHolds` |
| `FinitePrefix` | the prefixes are finite in number | a speaker's networks are a map in memory; the updates of one `bgp_advertise` are put in order one after the other |
| `NatAssumption` | timeouts are positive; no static rule takes the whole address of the outside interface | see section 5 |
| `ProfilesAssumption` | a state file has a parent directory or has none | type |

* `CableProofs`: `CableTypeOK`, `CablePortsAgree`, `CableCarrierCoherent`,
  `CableNoCrossOutage`, `CableFifoDelivery`, all from `CableInvariant`. The
  inductive invariant `CableInv` has two parts. `Plugging`: the books of cables
  and ports agree, numbers of cables are below `next_link_id`, and carriers
  match. `Frames`: the sequences that name frames are fresh; a frame under way
  has the number of a cable that has existed and a generation no larger than
  that of the cable; a frame that would still be accepted has seen no outage,
  goes from one end of its cable to the other and is due no later than
  `last_arrival`; and the acceptable frames of a direction are due in the order
  in which they were sent. The generation forbids crossing an outage (a cut and
  a restoration both raise it, so equality means that neither has happened);
  `last_arrival` together with the
  insertion order of the queue is what keeps the order under jitter.

  `CableAccounting` counts, with an invariant of its own (`Books`): what a
  direction owes (sent, and not yet counted as received, lost, cut off or
  refused) is the number of its frames in flight. That needs that a cable which
  is still to be plugged owes nothing, and that every frame in flight of a
  plugged cable, a stale one too, was sent by one of its ends, or `StepFrame`
  would count it in the wrong direction.

  `CableImplementsEventQueue` is the refinement: the specification of the lab
  (`CableDispatch`) implies that of the queue. `CableDispatchOrder` follows from it
  and the theorem on `EventQueue`. Every step of a lab is one call on its queue
  (`Transmit` and a planned cut schedule, an event's step pops, `AdvanceTo` moves
  the clock) or leaves the queue alone; `fired` is determined by what left the
  set of pending events. The type invariant of `Cable` gives that the scheduled
  events are of the queue's type and times in range.

  The queue alone, with an arbitrary caller: `EventQueueTypeOK`,
  `EventQueueNothingSkipped`, `EventQueueDispatchOrder`. `DispatchOrder` is about two
  successive pops; what makes it inductive is `AfterFired`: the next sequence is
  above all that were used, and all that is pending comes after what has fired.
  An event scheduled at the present time gets a larger sequence, hence comes
  after it too. `EventQueueInvariant` proves the conjunction. The theorems are
  stated of the instance of `EventQueue` in `CableDispatch`; the proofs
  never look at what an event is.
* `SwitchProofs`: `LanMacTruth`, from `LanInvariant`. What the switch learns, it
  learns from the source address of a frame, so the invariant `LanInv` is about
  frames too: one on its way to the switch carries an address of the station at
  the other end of that cable, and the cable is live (`Signed`). A
  station sends in the midst of handling what it receives (an ARP answer and with it
  the packets that have waited, an echo reply, an ICMP error, the next probe of a
  ping), so every operator that a handler is made of has a lemma that it keeps
  `Good`. Changes are the other half: a cable that fails or is pulled, an access port
  that changes its VLAN, a trunk that allows other VLANs and a VLAN that is
  removed each forget the entries that they make untrue (`Forgets`, `ChangeKeeps`), and drop
  what was under way on the cable.

  `TreeClassicGuardHolds` is about `SpanningTree`, from `TreeInvariant`. The verdict of Root
  Guard is stored with a BPDU and may be wrong when the root is lost later, so
  the invariant is about time (`GuardOK`): a guarded port of a classic bridge that
  is the root port has had that role for no longer than its BPDU has
  aged. It would break if a BPDU could be renewed on such a port; but one
  that leaves root and cost as they are is better than what the bridge sends
  itself, by the cost of the port, and is guarded against (`StoredFine`), and any other change
  of the root starts the wait anew (`RefreshedIs`). The BPDU has then expired before
  the two forward delays are over. Rapid bridges take part: only the form of
  what they send is needed.
* `TcpProofs`: `TcpAckedIsAccepted`, `TcpPaired`, and `TcpImplements`, that both
  directions of all incarnations implement `ByteStream`. `TcpInvariant`
  rests on something that no variable holds: a function `p` from each
  incarnation to the incarnation of the other device that it has met, or to
  none. `TcpInv` says that there is such a function to which everything fits:
  each segment in flight and each segment to be retransmitted was sent by an
  incarnation, lies in what that incarnation has sent, and acknowledges no more
  of its partner's stream than has been accepted; `send_next` and `receive_next`
  of a connection are where the streams are; and two ends that are synchronized
  are each other's partner. `p` only grows (`Grows`): a step of the handshake
  gives a partner to an incarnation that had none, and all that fitted fits
  still. Arithmetic modulo enters through lemmas that say when two numbered
  positions are equal, which is where the assumption on the step is used.
  `TcpTypeOK` has the bounds on retries and buffers.
* `QosProofs`: `QosWakeInTime`, `QosNotOvertaken`, `QosShapeConforms`, from
  `QosInvariant`. The first part is about the scheduler as a value, and what each
  of its operations keeps: the finish tags of a class grow; the virtual time
  has passed no frame of a class that neither priority nor a shaper sets apart
  (the class with the least tag is served, and an arriving frame gets a tag
  beyond the virtual time); and for every departure of a shaped class, what it
  has sent since and the credit that it has left are covered by the burst and
  by what the rate has brought (`Covered`). The last is stronger than
  `ShapeConforms`: the credit has to be part of it, and the bound of the refill by
  the burst can only lower it. The second part is about the port: the
  wake-ups of the runtime are events that are pending, and each operation that
  leaves frames waiting ends in `schedule_qos`, which needs that the time at
  which a class is ready does not move forward while nothing is sent.
* `NatProofs`: `NatNoAmbiguity`, `NatOneAddress`, `NatReturns`, `NatTypeOK`, from
  `NatInvariant`. `Table` is what tells entries apart: one entry per flow; with
  overload one per port, and none on the port of a static rule; with a pool one
  address per host, and without overload one host per address. `Answered` is
  what `Returns` needs over time: an answer is younger than the timeout, and
  unless the configuration was edited since, the rule or the entry it was
  sent with is there and lives as long as the answer can take: an entry is
  prolonged by each packet, so expiry and reuse of its port come only after
  the last answer.
* `DhcpProofs`: `DhcpNoDoubleReservation`, `DhcpRetryArmed`, `DhcpExpiryArmed`, and
  the action property `DhcpNoEarlyExpiry`, from `DhcpInvariant`. Entries that have
  expired and not yet been removed have to keep clients apart too
  (`ServersApart`), as the removal happens only in the handlers that look at
  them; an expiry event carries the deadline at which it fires
  (`ExpiryTimers`), which is why a stale one finds a later deadline in a renewed
  lease.

  `DhcpNoDuplicateAddress` has an invariant of its own, `UseInv`, about time. A
  server forgets a binding before the client does, which counts its lease from
  the arrival of the acknowledgment, but no earlier than one delay
  (`LeaseBound`). So when an address in use is offered to another client, its
  lease ends within a delay, which is before the probe does; or else
  the server has the first client in its table until after the request that the
  probe leads to has arrived, and refuses it. `Excludes` says this for each
  stage of the exchange, from the offer to the acknowledgment. It needs that an exchange
  with a server is in one message at a time while it asks (`OneAtATime`), that an
  acknowledgment says what the server has noted (`AckBound`), that a probe has one
  event (`OneProbe`), and, so that a late DHCPDECLINE never frees an address
  that its sender uses, that a client with one under way pauses (`DeclineOK`) and
  that a server offers a client what it is bound to and sets no reserved address
  aside (`TableOK`).
* `BgpProofs`: `BgpOneSession`, `BgpNoStaleRoutes`, from `BgpSafe`. The inductive
  invariant `BgpInv` is what holds of a peer between two events (`PeerOK`): at most
  one stream is established, it is the selected one and runs on an established
  connection, and only then are there routes. A single stage of `bgp_tick` does not
  keep it: the proof follows a tick through its stages with what each
  adds. What an event may have done to the connections (`Entered`); streams of lost
  connections are gone and their routes with them (`Clean`); messages are
  processed, which may establish several (`Running`, `Carried`); collisions leave one
  (`Single`); and selection and advertising restore `PeerOK`. `Lasts` says which streams
  that are closing survive a stage.

  `BgpRoutesFollow` is about both speakers at once, and has an invariant of its
  own, `RouteInv`. It looks at one connection: its two ends, each a TCP
  state, a stream and the routes heard on it (`End`), and the packets under way to
  each (`Link`). What an end has heard, followed by what is under way to it and
  what waits in the peer's stream, gives what the peer has noted as advertised
  (`Agreed`); that has to hold from the first packet, long before both are
  established, so the invariant also says how far the handshake can be at one end
  when it is where it is at the other (`Handshake`): no update can overtake the SYN, the answer
  to it, or the ACK. The first half shows what each stage of a tick can do to one
  connection (`Ticked`), through `Grows`: a stream that lives on has the output
  that it had, and then more, which accounts for what it notes. That the updates of
  `bgp_advertise`, in the order in which the code takes the prefixes, amount to the
  change in what is noted, also when the queue takes only some of them, is `FollowsAdvertising`: the
  order is a linear one, so each prefix has a place of its own (`Rank`) and is told
  once. The second half shows that every event and its tick either leave an end
  alone, make it vanish, or are a step of the handshake or of the session (`Outcome`), and
  that each of these keeps `Link`, whichever end opened the connection
  (`OpenerMoves`, `AcceptorMoves`).
* `ManagementProofs`: `StorageAcknowledgedSurvives` from `StorageInvariant`: the
  temporary file is synced when it is renamed, the path holds the last file
  written when the directory is synced, and every survivor of a crash is a
  complete file no older than the last one acknowledged. Commands and sessions
  do not touch the disk, so nothing about them is needed.

Model-checked only:

* Liveness under fairness (`Converges`, `BecomesFull`, `Drains`, `Agrees`) is out
  of the prover's reach.
* `ReloadExact`, `KeepsObject`, `HelpIsSound`, `HelpIsComplete` are about what folds
  over commands, interfaces and words compute; that takes induction over data,
  which the prover does not have.
* `NoLoop` needs the global order of spanning trees, a graph argument by
  induction over paths.
* `Synchronized` of OSPF is no theorem: it fails when an advertisement changes in
  ExStart (section 5), which the labs of the run leave out.
* `PingTruthful` and `InOrder` of the LAN. The first needs that a flooded probe is
  answered from one of its copies only, and hence what every station does with
  all of them; the second holds only while no cable is replugged, since packets
  that wait are then sent another way than those before them.

## 5. Where the code departs from what it says

`ospf_stuck`, `Recovers`. The master of an OSPF exchange returns on a Database
Description with its sequence less one, initial packets included. A slave whose
neighbor died begins anew with a number of its own; when that happens to be the
master's less one, its initial packets are taken for duplicates for ever.

Two more coincidences of the exchange are left out of the instance of the run
`ospf`, which shows that it is right otherwise (`BecomesFull` as long as no fault
has happened):

* The snapshot of headers is taken in ExStart and flooding begins in Exchange
  (`ospf_exchange.rs:86`): an instance installed in between is neither described
  nor flooded, and the neighbors become Full with different databases until it
  is refreshed.
* A neighbor with a newer instance answers an update with it and does not
  acknowledge (`ospf_exchange.rs:297`); installing it leaves the older one on
  the sender's retransmission list, which never drains.

`ClassicGuardHolds` is about the classic protocol, as the rapid one departs from it
(TLC finds that in a rapid triangle of `SpanningTree` that loses its root).
`docs/architecture.md:390` says that "Root Guard holds a superior downstream port
root-inconsistent". The code compares a BPDU with the root known when it arrives
(`stp.rs:302`) and stores the verdict with it. When that root is lost, a stored BPDU that was not superior makes the guarded port the
root port; a proposal that names a worse root than the lost one is agreed to, and
the guarded port forwards at once, until the next BPDU there. With classic
timers the port is not forwarding by then (`ClassicGuardHolds`).

`reload_refused`, `RenderedReplays`. `render` promises a text "suitable for
configuration-engine replay" (`rios-config/src/lib.rs:308`, and
`docs/architecture.md:318`). A port that joins a channel may then be told
`ip address dhcp` (`dhcp.rs:140`); the text has the address before the
`channel-group`, which a port with a DHCP client is refused (`channel.rs:48`).
Loading is all or nothing, so a program whose saved state holds this text does not
start. `ReloadExact` shows that there is no more to it than the states that
`PortReplays` excludes, all reached by accepted commands: such a member; a port with
spanning tree settings or an OSPFv3 binding whose layer was changed through its
Port-channel; a subinterface whose parent has become a switchport; and members
edited one by one to differ from their Port-channel, which load but are changed.
Every other configuration comes back exactly.

`HelpIsSound` and `HelpIsComplete` hold but for the lines of `KnownDeadEnd`,
`KnownOffered`, `KnownWithheld` and `KnownUnoffered`, which name where help and
parser disagree; no document claims that they agree.

* Help leads to a dead end at a value that it describes by a range and the
  parser constrains further, at `network` whose hint is one combined phrase, at
  a class named like the start of a keyword, and at an abbreviation that an
  option already given makes ambiguous.
* Help offers `<cr>` and Enter refuses: a command that `do` does not run; a rule
  of an access list numbered 0, or any other command behind a number (the
  numbers are stripped one after the other, `parser.rs:136` and `:1000`, and
  only Enter looks at the value and at what follows); and surplus words behind
  `domain-name`, `hardware-address`, `host` and `ip helper-address`, which only
  `parse_input` counts (`parser.rs:262`, `parser/dhcp.rs:79`).
* Help does not offer `<cr>` and Enter accepts: an abbreviated `any` in a
  standard list numbered from 1300.
* Accepted and never offered are lists numbered above 99, the sequence of a rule,
  the address of `ping`, interface names in two words, and the number of
  `no neighbor ... remote-as`.

Other things met while modelling, which no run shows:

* TCP has no probe for a zero window; a client that opens again towards a server
  whose connection is still Established gets an acknowledgment that SynSent
  ignores, and has to give up first. Incarnations are told apart by an
  initial sequence that grows by 64000: `TcpAssumption` says that no stream is
  that long.
* A QoS runtime is built anew, with a full burst, on every change of carrier or
  policy.
* A DHCP client counts its lease from the arrival of the acknowledgment, the
  server from its commitment; that no address is used twice relies on a probe
  that takes longer than a message (`DhcpTiming`). A cable may be given a longer delay
  than the 200 ms of the probe.
* A static NAT rule for the whole address of the outside interface takes every
  answer; `NatAssumption` excludes it.
* BGP resolves a collision in favour of an established session, and else by
  identifier. When one speaker sees its own connection established and the
  other still sees both open, each may close the one that the other keeps; both
  begin again after 30 seconds, together. `Agrees` excepts speakers that do so
  for ever.
* BGP takes the idle timeout from its connections; one that waits in FinWait for
  a peer that has gone is never removed.
* Edge ports may form a loop until the first BPDU arrives: `NoLoop` is about
  labs without PortFast.
* A class map has a "stable" identity (`rios-config/src/qos.rs:6`), which is what a
  session keeps in its mode, but a new map takes the number above the largest
  in use (`qos/config.rs:32`), and so do route-maps and policies: a session that
  was in a removed one edits its successor. `KeepsObject` is about sessions
  whose object is still there.
* `ip nat inside source list ... interface LoN` creates the loopback also when
  it is rejected.
* A state file given by a relative name without a directory is renamed and its
  directory not synced: `AcknowledgedSurvives` asks for a durable rename only
  where there is a parent to sync. Saving does not test the size that loading
  does (`storage.rs:51`).
* A ping from an SVI that goes down ends with an error, from a routed port with
  dots.
* One request is sent for a neighbor that packets wait for, and no more while
  any waits (`forwarding.rs:98`): with steady traffic a lost request is never
  repeated, as each packet expires only after the next has come to wait.
* A MAC table is flushed by the switch whose port changes only; a host that
  moves between switches is out of reach until its entry ages. `MacTruth` is
  about one switch.
* Every command, `show` included, refreshes carriers and protocol instances of
  its device behind `with_device_mut` (`lab.rs:313`, `device_session.rs:33`).

## 6. What is not modelled

* Wire formats, rendering of tables, topology files: data without control; the
  tests of the repository compare their output.
* `Cable`: channel members, capture, impairment profiles beyond loss and
  jitter, and a frame that is sent when no sequence number is left for its event:
  `admit` has reserved the transmitter by then (`link.rs:154`) and `schedule_at`
  fails (`delivery.rs:83`), after 2^64 events; `Dhcp`: relay, reservations, exclusions, the table limit;
  `SpanningTree`: topology change, priorities other than the bridge's (VLANs
  are independent instances of the same code); `Nat`: statistics, proxy ARP,
  failures of rewriting; `OspfAdjacency`: broadcast links and the election, ages
  and MaxAge flushing, areas, SPF; `Bgp`: attributes and their checks,
  selection, policy, reflection, several peers, limits of the tables, hold times
  that end while the peer is alive.
* `Lan`: several switches (spanning tree is `SpanningTree`'s), routes other
  than connected and default ones, translation, lists and policies on the way,
  identifiers of pings that wrap after 65536, gratuitous ARP.
* `Management`: the values of plain settings, of which nothing depends; the
  transports of remote access (ssh, telnet): a session is what they hand to
  the executor. `CommandLine`: the fixed keywords on the way to a command, which
  one generic walk down the tree handles, and completion with TAB.
* LACP's timers, IPv6 neighbor discovery with DAD and SLAAC, OSPFv3, the election
  and shortest paths, host applications, capture and grading, and what a list, a
  route-map or a class matches. `PROJECT.json` gives the reason for each.

## 7. Plan

Done: all modules of section 2 model-checked; the safety of the queue, the cables
and their refinement, TCP with its refinement, output queueing, NAT, DHCP, the
storage, BGP, the MAC table and Root Guard proved. To come:

1. `PingTruthful` of `Lan`.
2. LACP with its timers; duplicate address detection; the OSPF election on a
   broadcast link and OSPFv3 where it differs; pure algorithms (access lists,
   longest prefix match, best path, shortest paths) against reference
   definitions.
