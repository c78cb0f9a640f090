------------------------------- MODULE Cable --------------------------------
(***************************************************************************)
(* The virtual cables of a lab (crates/rios-topology/src/lab.rs and        *)
(* delivery.rs, over crates/rios-simulator/src/{queue,link}.rs): plugging, *)
(* unplugging and cutting cables, shutting interfaces, and frames crossing *)
(* the cables as events of the deterministic queue.                        *)
(*                                                                         *)
(* The BTreeMap "links" is the set "live" of its keys and the functions    *)
(* "link" and "runtime" (the fields a_to_b and b_to_a, by the side that    *)
(* sends); "ports" maps a port without a cable to NoCable.  A frame is     *)
(* named by the sequence of its FrameReceived event.  The devices run no   *)
(* protocol and have no service policy: a "timer" event stands for every   *)
(* event that no cable is concerned by, and what a delivered frame         *)
(* triggers in the receiving device is the matter of other modules.        *)
(***************************************************************************)
EXTENDS SimQueue, Sequences, FiniteSets

CONSTANTS
    Port,           \* InterfaceRef values of the physical Ethernet interfaces
    Device,
    Owner,          \* the device of each port
    MaxLinks,       \* cables ever plugged (next_link_id is a u64)
    MaxGeneration,  \* bound of Link::generation (a u64)
    QueuePackets,   \* LinkConfig::queue_packets
    Serialization,  \* serialization times of frames at the link rate
    Delay,          \* LinkConfig::delay_us
    Jitter          \* LinkConfig::jitter_us

ASSUME CableAssumption ==
    /\ Port # {} /\ Owner \in [Port -> Device]
    /\ MaxLinks \in Nat
    /\ MaxGeneration \in Nat
    /\ QueuePackets \in Nat \ {0}
    /\ Serialization \subseteq Nat
    /\ Delay \in Nat
    /\ Jitter \in Nat

VARIABLES
    queue,         \* Lab::events
    live,          \* keys of Lab::links
    link,          \* values of Lab::links, but for
    runtime,       \* their a_to_b and b_to_a
    ports,         \* Lab::ports
    next_link_id,  \* Lab::next_link_id
    admin,         \* admin_state is Up in the running configuration
    carrier,       \* Interface::link_state is Up
    crossed,       \* auxiliary: frames that saw their cable down or gone
    lastRx         \* auxiliary: the last frame each port accepted

cables == <<live, link, runtime, ports, next_link_id>>

vars == <<queue, cables, admin, carrier, crossed, lastRx>>

NoCable == 0

LinkId == 1 .. MaxLinks

Side == {"a", "b"}

Peer(side) == IF side = "a" THEN "b" ELSE "a"

Reservations == Seq(SimTime)

Runtime ==
    [finishes : Reservations, last_arrival : SimTime, tx_packets : Nat,
     rx_packets : Nat, loss_drops : Nat, changed_drops : Nat,
     refused : Nat]  \* auxiliary: arrived, and refused by the interface

Link ==
    [endpoint : [Side -> Port], up : BOOLEAN, active : BOOLEAN,
     generation : 0 .. MaxGeneration]

IdleRuntime ==
    [finishes |-> <<>>, last_arrival |-> 0, tx_packets |-> 0,
     rx_packets |-> 0, loss_drops |-> 0, changed_drops |-> 0, refused |-> 0]

\* The Link that connect_configured inserts.
NewLink(a, b) ==
    [endpoint |-> [s \in Side |-> IF s = "a" THEN a ELSE b],
     up |-> TRUE, active |-> FALSE, generation |-> 0]

\* What "link" holds for an identifier that is not live.
Absent == LET p == CHOOSE p \in Port : TRUE IN NewLink(p, p)

Init ==
    /\ queue = EmptyQueue
    /\ live = {}
    /\ link = [id \in LinkId |-> Absent]
    /\ runtime = [id \in LinkId |-> [s \in Side |-> IdleRuntime]]
    /\ ports = [p \in Port |-> NoCable]
    /\ next_link_id = 0
    /\ admin \in [Port -> BOOLEAN]
    /\ carrier = [p \in Port |-> FALSE]
    /\ crossed = {}
    /\ lastRx = [p \in Port |-> -1]

-----------------------------------------------------------------------------
(* refresh_carriers *)

\* Mutant of Reset: the outage forgets the counters too.
ResetAll(rt) == IdleRuntime

\* DirectionalLinkRuntime::reset; counters survive.
Reset(rt) == [rt EXCEPT !.finishes = <<>>, !.last_arrival = 0]

Enabled(l, adm) == l.up /\ adm[l.endpoint["a"]] /\ adm[l.endpoint["b"]]

Flips(l, adm) == Enabled(l, adm) # l.active

Refreshed(l, adm) ==
    [endpoint |-> l.endpoint, up |-> l.up, active |-> Enabled(l, adm),
     generation |-> IF Flips(l, adm) THEN l.generation + 1 ELSE l.generation]

IsEndpoint(l, p) == \E s \in Side : l.endpoint[s] = p

\* refresh_carriers, from the values that the caller has given to the links in
\* "keys", their runtimes, administrative states and interface carriers: a
\* cable whose "active" flips starts a generation with idle transmitters.
RefreshCarriers(keys, links, runtimes, adm, car) ==
    /\ \A id \in keys : Refreshed(links[id], adm).generation <= MaxGeneration
    /\ link' = [id \in LinkId |-> IF id \in keys THEN Refreshed(links[id], adm)
                                                 ELSE links[id]]
    /\ runtime' = [id \in LinkId |-> [s \in Side |->
          IF id \in keys /\ Flips(links[id], adm) THEN Reset(runtimes[id][s])
                                                  ELSE runtimes[id][s]]]
    /\ carrier' = [p \in Port |->
          IF \E id \in keys : IsEndpoint(links[id], p)
          THEN \E id \in keys : IsEndpoint(links[id], p) /\ Enabled(links[id], adm)
          ELSE car[p]]

InFlight(q) == {x \in q.pending : x.event.kind = "frame"}

\* Auxiliary: the frames in flight whose cable is now gone or inactive.
CutOff(q, keys, links) ==
    {x.sequence : x \in {y \in InFlight(q) :
                           \/ y.event.link \notin keys
                           \/ ~links[y.event.link].active}}

NoteCrossing == crossed' = crossed \cup CutOff(queue', live', link')

-----------------------------------------------------------------------------
(* Commands to the lab *)

NewId == next_link_id + 1

\* connect_configured: both ports exist, differ and have no cable.
Connect(a, b) ==
    /\ a # b
    /\ ports[a] = NoCable /\ ports[b] = NoCable
    /\ NewId \in LinkId
    /\ next_link_id' = NewId
    /\ live' = live \cup {NewId}
    /\ ports' = [ports EXCEPT ![a] = NewId, ![b] = NewId]
    /\ RefreshCarriers(live', [link EXCEPT ![NewId] = NewLink(a, b)],
                       runtime, admin, carrier)
    /\ queue' = queue
    /\ NoteCrossing
    /\ UNCHANGED << admin, lastRx>>

\* Mutant of Unplugged: the endpoints keep their carrier.
UnpluggedLive(id) == carrier

\* disconnect's set_link_state(Down) on both endpoints.
Unplugged(id) ==
    [p \in Port |-> carrier[p] /\ ~IsEndpoint(link[id], p)]

\* Mutant of Released: only one of the two ports is released.
ReleasedOne(id) == [ports EXCEPT ![link[id].endpoint["a"]] = NoCable]

Released(id) ==
    [ports EXCEPT ![link[id].endpoint["a"]] = NoCable,
                  ![link[id].endpoint["b"]] = NoCable]

Disconnect(id) ==
    /\ id \in live
    /\ live' = live \ {id}
    /\ ports' = Released(id)
    /\ RefreshCarriers(live', [link EXCEPT ![id] = Absent],
                       [runtime EXCEPT ![id] = [s \in Side |-> IdleRuntime]],
                       admin, Unplugged(id))
    /\ queue' = queue
    /\ NoteCrossing
    /\ UNCHANGED << next_link_id, admin, lastRx>>

SetLinkState(id, up) ==
    /\ id \in live
    /\ RefreshCarriers(live, [link EXCEPT ![id].up = up], runtime, admin, carrier)
    /\ live' = live
    /\ queue' = queue
    /\ NoteCrossing
    /\ UNCHANGED <<ports, next_link_id, admin, lastRx>>

ScheduleLinkState(id, up, time) ==
    /\ id \in live
    /\ Schedulable(queue, time)
    /\ queue' = Scheduled(queue, time, [kind |-> "state", link |-> id, up |-> up])
    /\ UNCHANGED <<cables, admin, carrier, crossed, lastRx>>

\* schedule_timer, and any event of a protocol.
ScheduleTimer(time) ==
    /\ Schedulable(queue, time)
    /\ queue' = Scheduled(queue, time, [kind |-> "timer"])
    /\ UNCHANGED <<cables, admin, carrier, crossed, lastRx>>

\* with_device_mut with an edit that sets the administrative state of p; ports
\* of the device without a cable are forced down before the refresh.
EditAdmin(p, up) ==
    /\ admin' = [admin EXCEPT ![p] = up]
    /\ RefreshCarriers(live, link, runtime, admin',
          [q \in Port |-> carrier[q] /\ (Owner[q] = Owner[p] => ports[q] # NoCable)])
    /\ live' = live
    /\ queue' = queue
    /\ NoteCrossing
    /\ UNCHANGED <<ports, next_link_id, lastRx>>

-----------------------------------------------------------------------------
(* transmit_on_link and DirectionalLinkRuntime::admit *)

SideOf(l, p) == IF p = l.endpoint["a"] THEN "a" ELSE "b"

ProtocolUp(p) == admin[p] /\ carrier[p]

LastFinish(finishes, now) ==
    IF finishes = <<>> \/ finishes[Len(finishes)] < now
    THEN now ELSE finishes[Len(finishes)]

\* The first n reservations are the ones admit pops: finished by now.
Finished(finishes, n, now) ==
    /\ \A i \in 1 .. n : finishes[i] <= now
    /\ n < Len(finishes) => finishes[n + 1] > now

Propagation(sample) ==
    IF Delay + sample > Jitter THEN Delay + sample - Jitter ELSE 0

\* Mutant of Arrival: jitter may reorder frames.
ArrivalUnordered(finish, sample, last_arrival) == finish + Propagation(sample)

Arrival(finish, sample, last_arrival) ==
    IF finish + Propagation(sample) < last_arrival
    THEN last_arrival ELSE finish + Propagation(sample)

HasRoom(waiting) == Len(waiting) < QueuePackets

\* A frame that passes the checks and finds room.  A frame that does not (no
\* cable, cable down, interface down, queue full) leaves only a drop count.
\* Schedulable is schedule_at's check, which fails when 2^64 sequence numbers are
\* used up: the reservation admit has made by then is not modelled.
Transmit(p, serialization, sample, lost) ==
    LET id == ports[p]
        l == link[id]
        side == SideOf(l, p)
        rt == runtime[id][side]
    IN
    /\ id # NoCable
    /\ l.up
    /\ ProtocolUp(p)
    /\ \E n \in 0 .. Len(rt.finishes) :
          LET waiting == SubSeq(rt.finishes, n + 1, Len(rt.finishes))
              finish == LastFinish(waiting, queue.now) + serialization
              arrival == Arrival(finish, sample, rt.last_arrival)
          IN
          /\ Finished(rt.finishes, n, queue.now)
          /\ HasRoom(waiting)
          /\ Schedulable(queue, arrival)
          /\ queue' = Scheduled(queue, arrival,
                [kind |-> "frame", link |-> id, generation |-> l.generation,
                 interface |-> l.endpoint[Peer(side)], source |-> p, lost |-> lost])
          /\ runtime' = [runtime EXCEPT ![id][side] =
                [rt EXCEPT !.finishes = Append(waiting, finish),
                           !.last_arrival = arrival,
                           !.tx_packets = @ + 1]]
    /\ UNCHANGED <<live, link, ports, next_link_id, admin, carrier, crossed, lastRx>>

-----------------------------------------------------------------------------
(* step_event *)

\* Mutant of Current: the generation of the frame is not compared.
CurrentCable(frame) == frame.link \in live /\ link[frame.link].active

\* The test at the head of the FrameReceived arm.
Current(frame) ==
    /\ frame.link \in live
    /\ link[frame.link].active
    /\ link[frame.link].generation = frame.generation

\* What happens to the frame: its drop reason, or "rx".  The interface may
\* refuse it for its size, type or address.
Outcome(frame) ==
    IF ~Current(frame) THEN {"changed"}
    ELSE IF frame.lost THEN {"loss"}
    ELSE IF ProtocolUp(frame.interface) THEN {"rx", "refused"}
    ELSE {"refused"}

CountOn(l, source) == SideOf(l, source)

\* One frame more with that outcome; an interface's refusal has no counter.
Counted(rt, outcome) ==
    [rt EXCEPT !.rx_packets = IF outcome = "rx" THEN @ + 1 ELSE @,
               !.loss_drops = IF outcome = "loss" THEN @ + 1 ELSE @,
               !.changed_drops = IF outcome = "changed" THEN @ + 1 ELSE @,
               !.refused = IF outcome = "refused" THEN @ + 1 ELSE @]

\* The counters follow the cable, if it is still there; then the interface
\* accepts the frame or counts a drop.
StepFrame ==
    \E x \in queue.pending :
        /\ IsNext(queue, x)
        /\ x.event.kind = "frame"
        /\ queue' = Popped(queue, x)
        /\ \E outcome \in Outcome(x.event) :
              /\ runtime' = IF x.event.link \notin live THEN runtime
                    ELSE [runtime EXCEPT
                            ![x.event.link][CountOn(link[x.event.link], x.event.source)]
                               = Counted(@, outcome)]
              /\ lastRx' = IF outcome = "rx"
                           THEN [lastRx EXCEPT ![x.event.interface] = x.sequence]
                           ELSE lastRx
        /\ UNCHANGED <<live, link, ports, next_link_id, admin, carrier, crossed>>

\* LinkStateChanged: set_link_state, whose UnknownLink error consumes the event.
StepLinkState ==
    \E x \in queue.pending :
        /\ IsNext(queue, x)
        /\ x.event.kind = "state"
        /\ queue' = Popped(queue, x)
        /\ IF x.event.link \in live
           THEN RefreshCarriers(live, [link EXCEPT ![x.event.link].up = x.event.up],
                                runtime, admin, carrier)
           ELSE UNCHANGED <<link, runtime, carrier>>
        /\ live' = live
        /\ NoteCrossing
        /\ UNCHANGED <<ports, next_link_id, admin, lastRx>>

StepTimer ==
    \E x \in queue.pending :
        /\ IsNext(queue, x)
        /\ x.event.kind = "timer"
        /\ queue' = Popped(queue, x)
        /\ UNCHANGED <<cables, admin, carrier, crossed, lastRx>>

\* Mutant of AdvanceTo: the clock moves before the events that are due have run.
AdvanceToEarly(time) ==
    /\ time >= queue.now
    /\ queue' = Advanced(queue, time)
    /\ UNCHANGED <<cables, admin, carrier, crossed, lastRx>>

\* The idle end of run_until and advance_until, whose loop is the Step actions.
AdvanceTo(time) ==
    /\ Idle(queue, time)
    /\ queue' = Advanced(queue, time)
    /\ UNCHANGED <<cables, admin, carrier, crossed, lastRx>>

Next ==
    \/ \E a, b \in Port : Connect(a, b)
    \/ \E id \in LinkId : Disconnect(id)
    \/ \E id \in LinkId, up \in BOOLEAN : SetLinkState(id, up)
    \/ \E id \in LinkId, up \in BOOLEAN, time \in SimTime :
          ScheduleLinkState(id, up, time)
    \/ \E time \in SimTime : ScheduleTimer(time)
    \/ \E p \in Port, up \in BOOLEAN : EditAdmin(p, up)
    \/ \E p \in Port, serialization \in Serialization,
          sample \in 0 .. 2 * Jitter, lost \in BOOLEAN :
          Transmit(p, serialization, sample, lost)
    \/ StepFrame
    \/ StepLinkState
    \/ StepTimer
    \/ \E time \in SimTime : AdvanceTo(time)

Spec == Init /\ [][Next]_vars

-----------------------------------------------------------------------------
(* Properties *)

FrameEvent ==
    [kind : {"frame"}, link : LinkId, generation : 0 .. MaxGeneration,
     interface : Port, source : Port, lost : BOOLEAN]

StateEvent == [kind : {"state"}, link : LinkId, up : BOOLEAN]

TimerEvent == [kind : {"timer"}]

\* The lab's cable state has its types.
TypeOK ==
    /\ queue \in [now : SimTime, next_sequence : Sequence,
                  pending : SUBSET [time : SimTime, sequence : Sequence,
                                    event : FrameEvent \cup StateEvent \cup TimerEvent]]
    /\ live \in SUBSET LinkId
    /\ link \in [LinkId -> Link]
    /\ runtime \in [LinkId -> [Side -> Runtime]]
    /\ ports \in [Port -> LinkId \cup {NoCable}]
    /\ next_link_id \in 0 .. MaxLinks
    /\ admin \in [Port -> BOOLEAN]
    /\ carrier \in [Port -> BOOLEAN]
    /\ crossed \in SUBSET Sequence
    /\ lastRx \in [Port -> Sequence \cup {-1}]

\* The two maps agree: a port names a live cable exactly when it is one of the
\* two different endpoints of that cable (Lab::links and Lab::ports are updated
\* by hand in connect_configured and disconnect).
PortsAgree ==
    /\ \A p \in Port : ports[p] # NoCable =>
          ports[p] \in live /\ IsEndpoint(link[ports[p]], p)
    /\ \A id \in live :
          /\ link[id].endpoint["a"] # link[id].endpoint["b"]
          /\ \A s \in Side : ports[link[id].endpoint[s]] = id

\* After every command and event an interface has carrier exactly when it is
\* cabled, its cable is up and both ends are administratively up, although
\* carrier is recomputed only for the endpoints of live cables.
CarrierCoherent ==
    \A p \in Port :
        carrier[p] <=> /\ ports[p] # NoCable
                       /\ link[ports[p]].active
                       /\ Enabled(link[ports[p]], admin)

\* No frame survives an outage: a frame whose cable was cut, unplugged or shut
\* at either end at any moment of its flight is never accepted, even if the
\* cable is back, or another cable joins the same ports, when it would arrive
\* (set_link_state: "invalidates traffic crossing an outage").
NoCrossOutage == \A p \in Port : lastRx[p] \notin crossed

\* Frames reach a port in the order in which they were sent to it, whatever
\* the jitter, the outages and the recabling in between.
FifoDelivery ==
    [][\A p \in Port : lastRx'[p] # lastRx[p] => lastRx'[p] > lastRx[p]]_vars

\* Nothing is lost from the books: every frame sent in a direction of a cable
\* that is still plugged is in flight, delivered, lost, cut off or refused.
Accounting ==
    \A id \in live, s \in Side :
        LET rt == runtime[id][s] IN
        rt.tx_packets =
            rt.rx_packets + rt.loss_drops + rt.changed_drops + rt.refused
            + Cardinality({x \in InFlight(queue) :
                             /\ x.event.link = id
                             /\ x.event.source = link[id].endpoint[s]})

=============================================================================
