----------------------------- MODULE CableProofs -----------------------------
(***************************************************************************)
(* Proofs about Cable, for every set of ports and devices, every number of *)
(* cables and every link policy, and that the lab with its cables          *)
(* implements the event queue (CableDispatch).                             *)
(*                                                                         *)
(* The inductive invariant has two halves.  Plugging relates the maps of   *)
(* the lab, the links and the carriers; Frames relates what is in flight   *)
(* to the links, to the frames cut off and to the frames delivered.  A     *)
(* step that changes links touches Frames only through Current: lemma      *)
(* CutKeepsFrames says what such a step owes to the frames in flight.      *)
(*                                                                         *)
(* The queue alone comes at the end: the order in which it dispatches, and *)
(* with the refinement the order in which the events of a lab fire.        *)
(***************************************************************************)
EXTENDS CableDispatch, SequenceTheorems, FiniteSetTheorems, TLAPS

USE MaxTimeAssumption, MaxSequenceAssumption, CableAssumption

-----------------------------------------------------------------------------
(* The inductive invariant *)

Event == FrameEvent \cup StateEvent \cup TimerEvent

ScheduledEvent == [time : SimTime, sequence : Sequence, event : Event]

\* TypeOK, with the events named.
Types ==
    /\ queue \in [now : SimTime, next_sequence : Sequence,
                  pending : SUBSET ScheduledEvent]
    /\ live \in SUBSET LinkId
    /\ link \in [LinkId -> Link]
    /\ runtime \in [LinkId -> [Side -> Runtime]]
    /\ ports \in [Port -> LinkId \cup {NoCable}]
    /\ next_link_id \in 0 .. MaxLinks
    /\ admin \in [Port -> BOOLEAN]
    /\ carrier \in [Port -> BOOLEAN]
    /\ crossed \in SUBSET Sequence
    /\ lastRx \in [Port -> Sequence \cup {-1}]

LiveUsed == \A id \in live : id <= next_link_id

ActiveEnabled == \A id \in live : link[id].active = Enabled(link[id], admin)

CarrierActive ==
    \A p \in Port : carrier[p] <=> ports[p] # NoCable /\ link[ports[p]].active

Plugging == Types /\ PortsAgree /\ LiveUsed /\ ActiveEnabled /\ CarrierActive

\* Sequences name events: they are used once, in order.
SequencesFresh ==
    /\ \A x \in queue.pending : x.sequence < queue.next_sequence
    /\ \A x, y \in queue.pending : x.sequence = y.sequence => x = y
    /\ \A n \in crossed : n < queue.next_sequence
    /\ \A p \in Port : lastRx[p] < queue.next_sequence
    /\ \A p \in Port, x \in queue.pending : x.sequence # lastRx[p]

\* A frame in flight is of a cable that has existed, and not of its future.
FromThePast ==
    \A x \in InFlight(queue) :
        /\ x.event.link <= next_link_id
        /\ x.event.link \in live =>
              x.event.generation <= link[x.event.link].generation

\* x goes from one end of its cable to the other, no later than last_arrival.
OnItsWay(x) ==
    \E s \in Side :
        /\ x.event.source = link[x.event.link].endpoint[s]
        /\ x.event.interface = link[x.event.link].endpoint[Peer(s)]
        /\ x.time <= runtime[x.event.link][s].last_arrival

\* A frame that would be accepted has seen no outage and is not overdue.
CurrentSound ==
    \A x \in InFlight(queue) : Current(x.event) =>
        /\ x.sequence \notin crossed
        /\ OnItsWay(x)
        /\ lastRx[x.event.interface] < x.sequence

\* The frames of one direction that would be accepted are in order.
CurrentOrdered ==
    \A x, y \in InFlight(queue) :
        /\ Current(x.event) /\ Current(y.event)
        /\ x.event.link = y.event.link /\ x.event.source = y.event.source
        /\ x.sequence < y.sequence
        => x.time <= y.time

Frames ==
    /\ SequencesFresh /\ FromThePast
    /\ CurrentSound /\ CurrentOrdered /\ NoCrossOutage

CableInv == Plugging /\ Frames

-----------------------------------------------------------------------------
(* Plugging is inductive *)

\* An updated link is a link.
LEMMA RefreshedType ==
    ASSUME NEW l \in Link, NEW adm \in [Port -> BOOLEAN],
           Refreshed(l, adm).generation <= MaxGeneration
    PROVE  /\ Refreshed(l, adm) \in Link
           /\ Refreshed(l, adm).endpoint = l.endpoint
           /\ Refreshed(l, adm).up = l.up
           /\ Refreshed(l, adm).active = Enabled(l, adm)
           /\ Refreshed(l, adm).generation =
                IF Flips(l, adm) THEN l.generation + 1 ELSE l.generation
<1>1. Enabled(l, adm) \in BOOLEAN
  BY DEF Enabled, Link
<1>2. Refreshed(l, adm).generation \in 0 .. MaxGeneration
  BY DEF Link, Refreshed
<1> QED
  BY <1>1, <1>2 DEF Link, Refreshed

\* An idle transmitter, one that has been reset and one that has counted the
\* outcome of a frame are transmitters.
LEMMA IdleRuntimeType == IdleRuntime \in Runtime
BY DEF IdleRuntime, Runtime, SimTime, Reservations

LEMMA ResetType ==
    ASSUME NEW rt \in Runtime
    PROVE  Reset(rt) \in Runtime
<1> DEFINE cleared == [rt EXCEPT !.finishes = <<>>]
<1>1. cleared \in Runtime
  <2>1. <<>> \in Reservations
    BY DEF Reservations
  <2> QED BY <2>1 DEF Runtime
<1>2. [cleared EXCEPT !.last_arrival = 0] \in Runtime
  <2> HIDE DEF cleared
  <2> QED BY <1>1 DEF Runtime, SimTime
<1> QED
  BY <1>2 DEF Reset

LEMMA CountedType ==
    ASSUME NEW rt \in Runtime, NEW outcome
    PROVE  /\ Counted(rt, outcome) \in Runtime
           /\ Counted(rt, outcome).last_arrival = rt.last_arrival
<1> DEFINE r1 == [rt EXCEPT !.rx_packets = IF outcome = "rx" THEN @ + 1 ELSE @]
           r2 == [r1 EXCEPT !.loss_drops = IF outcome = "loss" THEN @ + 1 ELSE @]
           r3 == [r2 EXCEPT !.changed_drops = IF outcome = "changed" THEN @ + 1 ELSE @]
           r4 == [r3 EXCEPT !.refused = IF outcome = "refused" THEN @ + 1 ELSE @]
<1>1. r1 \in Runtime /\ r1.last_arrival = rt.last_arrival
  BY DEF Runtime
<1>2. r2 \in Runtime /\ r2.last_arrival = r1.last_arrival
  <2> HIDE DEF r1
  <2> QED BY <1>1 DEF Runtime
<1>3. r3 \in Runtime /\ r3.last_arrival = r2.last_arrival
  <2> HIDE DEF r2
  <2> QED BY <1>2 DEF Runtime
<1>4. r4 \in Runtime /\ r4.last_arrival = r3.last_arrival
  <2> HIDE DEF r3
  <2> QED BY <1>3 DEF Runtime
<1>5. Counted(rt, outcome) = r4
  BY DEF Counted
<1> HIDE DEF r1, r2, r3, r4
<1> QED
  BY <1>1, <1>2, <1>3, <1>4, <1>5

\* refresh_carriers establishes what relates links, ports and carriers, from
\* maps that agree and carriers that are down where there is no cable.
LEMMA RefreshEstablishes ==
    ASSUME Types, live' \in SUBSET LinkId,
           ports' \in [Port -> LinkId \cup {NoCable}],
           admin' \in [Port -> BOOLEAN],
           NEW links \in [LinkId -> Link],
           NEW runtimes \in [LinkId -> [Side -> Runtime]],
           NEW car \in [Port -> BOOLEAN],
           RefreshCarriers(live', links, runtimes, admin', car),
           \A p \in Port : ports'[p] # NoCable =>
              ports'[p] \in live' /\ IsEndpoint(links[ports'[p]], p),
           \A id \in live' :
              /\ links[id].endpoint["a"] # links[id].endpoint["b"]
              /\ \A s \in Side : ports'[links[id].endpoint[s]] = id,
           \A p \in Port : ports'[p] = NoCable => ~car[p]
    PROVE  /\ link' \in [LinkId -> Link]
           /\ runtime' \in [LinkId -> [Side -> Runtime]]
           /\ carrier' \in [Port -> BOOLEAN]
           /\ PortsAgree'
           /\ ActiveEnabled'
           /\ CarrierActive'
<1>1. \A id \in live' :
         /\ link'[id] \in Link
         /\ link'[id].endpoint = links[id].endpoint
         /\ link'[id].up = links[id].up
         /\ link'[id].active = Enabled(links[id], admin')
  BY RefreshedType DEF RefreshCarriers
<1>2. link' \in [LinkId -> Link]
  BY <1>1 DEF RefreshCarriers
<1>3. carrier' \in [Port -> BOOLEAN]
  <2>1. \A id \in live' : Enabled(links[id], admin') \in BOOLEAN
    BY DEF Enabled, Link, Side
  <2> QED
    BY <2>1 DEF RefreshCarriers
<1>4. \A id \in live', p \in Port : IsEndpoint(links[id], p) <=> IsEndpoint(link'[id], p)
  BY <1>1 DEF IsEndpoint
<1>5. PortsAgree'
  BY <1>1, <1>4 DEF PortsAgree
<1>6. ActiveEnabled'
  BY <1>1 DEF ActiveEnabled, Enabled
<1>7. ASSUME NEW p \in Port
      PROVE  carrier'[p] <=> ports'[p] # NoCable /\ link'[ports'[p]].active
  <2>1. \A id \in live' : IsEndpoint(links[id], p) => ports'[p] = id
    BY DEF IsEndpoint
  <2>2. CASE ports'[p] = NoCable
    <3>1. ~ \E id \in live' : IsEndpoint(links[id], p)
      BY <2>1, <2>2 DEF NoCable, LinkId
    <3> QED
      BY <2>2, <3>1 DEF RefreshCarriers
  <2>3. CASE ports'[p] # NoCable
    <3>1. ports'[p] \in live' /\ IsEndpoint(links[ports'[p]], p)
      BY <2>3
    <3>2. carrier'[p] <=> \E id \in live' : /\ IsEndpoint(links[id], p)
                                            /\ Enabled(links[id], admin')
      BY <3>1 DEF RefreshCarriers
    <3>3. carrier'[p] <=> Enabled(links[ports'[p]], admin')
      BY <2>1, <3>1, <3>2
    <3> QED
      BY <1>1, <2>3, <3>1, <3>3
  <2> QED
    BY <2>2, <2>3
<1>8. CarrierActive'
  BY <1>7 DEF CarrierActive
<1>9. runtime' \in [LinkId -> [Side -> Runtime]]
  BY ResetType DEF RefreshCarriers
<1> QED
  BY <1>2, <1>3, <1>5, <1>6, <1>8, <1>9

-----------------------------------------------------------------------------
(* Frames is inductive *)

\* A step that may cut cables but sends and delivers nothing: a cable that is
\* still there is either as it was or in a later generation.
LEMMA CutKeepsFrames ==
    ASSUME Types, Frames, Types',
           queue'.pending \subseteq queue.pending,
           queue'.next_sequence = queue.next_sequence,
           next_link_id' >= next_link_id,
           lastRx' = lastRx,
           crossed' = crossed \cup CutOff(queue', live', link'),
           \A id \in live' : id <= next_link_id =>
              /\ id \in live
              /\ link'[id].endpoint = link[id].endpoint
              /\ \/ link'[id].generation > link[id].generation
                 \/ /\ link'[id].generation = link[id].generation
                    /\ link'[id].active = link[id].active
                    /\ \A s \in Side : runtime'[id][s] = runtime[id][s]
    PROVE  Frames'
<1> USE DEF Frames
<1>1. \A x \in InFlight(queue') :
         /\ x \in InFlight(queue) /\ x \in queue.pending /\ x \in queue'.pending
         /\ x.event \in FrameEvent /\ x.sequence \in Sequence /\ x.time \in SimTime
  BY DEF InFlight, Types, ScheduledEvent, Event, StateEvent, TimerEvent, FrameEvent
<1>2. \A n \in CutOff(queue', live', link') :
         \E y \in InFlight(queue') :
            /\ n = y.sequence
            /\ y.event.link \notin live' \/ ~link'[y.event.link].active
  BY DEF CutOff
<1>3. SequencesFresh'
  BY <1>1, <1>2 DEF SequencesFresh
<1>4. FromThePast'
  <2> SUFFICES ASSUME NEW x \in InFlight(queue')
               PROVE  /\ x.event.link <= next_link_id'
                      /\ x.event.link \in live' =>
                            x.event.generation <= link'[x.event.link].generation
    BY DEF FromThePast
  <2>1. x.event.link <= next_link_id /\ x.event.link \in LinkId
    BY <1>1 DEF FromThePast, FrameEvent
  <2>2. x.event.link <= next_link_id'
    BY <2>1 DEF Types, LinkId
  <2>3. ASSUME x.event.link \in live'
        PROVE  x.event.generation <= link'[x.event.link].generation
    <3>1. x.event.generation <= link[x.event.link].generation
      BY <1>1, <2>1, <2>3 DEF FromThePast
    <3>2. /\ link[x.event.link].generation \in Nat
          /\ link'[x.event.link].generation \in Nat
          /\ x.event.generation \in Nat
      BY <1>1, <2>1 DEF Types, Link, FrameEvent
    <3> QED
      BY <2>1, <2>3, <3>1, <3>2
  <2> QED
    BY <2>2, <2>3
<1>5. ASSUME NEW x \in InFlight(queue'), Current(x.event)'
      PROVE  /\ Current(x.event)
             /\ link'[x.event.link].endpoint = link[x.event.link].endpoint
             /\ \A s \in Side : runtime'[x.event.link][s] = runtime[x.event.link][s]
             /\ x.event.link \in live' /\ link'[x.event.link].active
  <2>1. /\ x.event.link \in live' /\ link'[x.event.link].active
        /\ link'[x.event.link].generation = x.event.generation
    BY <1>5 DEF Current
  <2>2. /\ x.event.link <= next_link_id
        /\ x.event.link \in live =>
              x.event.generation <= link[x.event.link].generation
        /\ x.event.link \in LinkId
        /\ x.event.generation \in Nat
    BY <1>1 DEF FromThePast, FrameEvent
  <2>3. link[x.event.link].generation \in Nat
    BY <2>2 DEF Types, Link
  <2> QED
    BY <2>1, <2>2, <2>3 DEF Current
<1>6. CurrentSound'
  <2> SUFFICES ASSUME NEW x \in InFlight(queue'), Current(x.event)'
               PROVE  /\ x.sequence \notin crossed'
                      /\ OnItsWay(x)'
                      /\ lastRx'[x.event.interface] < x.sequence
    BY DEF CurrentSound
  <2>1. /\ x.sequence \notin crossed
        /\ OnItsWay(x)
        /\ lastRx[x.event.interface] < x.sequence
    BY <1>1, <1>5 DEF CurrentSound
  <2>2. x.sequence \notin CutOff(queue', live', link')
    BY <1>1, <1>2, <1>5 DEF SequencesFresh
  <2>3. OnItsWay(x)'
    BY <1>5, <2>1 DEF OnItsWay
  <2> QED
    BY <2>1, <2>2, <2>3
<1>7. CurrentOrdered'
  BY <1>1, <1>5 DEF CurrentOrdered
<1>8. NoCrossOutage'
  BY <1>1, <1>2 DEF NoCrossOutage, SequencesFresh
<1> QED
  BY <1>3, <1>4, <1>6, <1>7, <1>8

\* What a command or event owes to refresh_carriers, which it calls last with
\* these links, runtimes and carriers: maps that agree, carriers down where
\* there is no cable, and old links that may differ from before in "up" only.
RefreshCall(links, runtimes, car) ==
    /\ queue' \in [now : SimTime, next_sequence : Sequence,
                   pending : SUBSET ScheduledEvent]
    /\ queue'.pending \subseteq queue.pending
    /\ queue'.next_sequence = queue.next_sequence
    /\ live' \in SUBSET LinkId
    /\ ports' \in [Port -> LinkId \cup {NoCable}]
    /\ next_link_id' \in 0 .. MaxLinks
    /\ next_link_id' >= next_link_id
    /\ \A id \in live' : id <= next_link_id'
    /\ admin' \in [Port -> BOOLEAN]
    /\ links \in [LinkId -> Link]
    /\ runtimes \in [LinkId -> [Side -> Runtime]]
    /\ car \in [Port -> BOOLEAN]
    /\ RefreshCarriers(live', links, runtimes, admin', car)
    /\ \A p \in Port : ports'[p] # NoCable =>
          ports'[p] \in live' /\ IsEndpoint(links[ports'[p]], p)
    /\ \A id \in live' :
          /\ links[id].endpoint["a"] # links[id].endpoint["b"]
          /\ \A s \in Side : ports'[links[id].endpoint[s]] = id
    /\ \A p \in Port : ports'[p] = NoCable => ~car[p]
    /\ \A id \in live' : id <= next_link_id =>
          /\ id \in live
          /\ links[id].endpoint = link[id].endpoint
          /\ links[id].active = link[id].active
          /\ links[id].generation = link[id].generation
          /\ runtimes[id] = runtime[id]
    /\ NoteCrossing
    /\ lastRx' = lastRx

\* Every such command or event keeps the invariant.
LEMMA RefreshStep ==
    ASSUME CableInv, NEW links, NEW runtimes, NEW car,
           RefreshCall(links, runtimes, car)
    PROVE  CableInv'
<1> USE DEF RefreshCall
<1>0. Types /\ Frames
  BY DEF CableInv, Plugging
<1>1. /\ link' \in [LinkId -> Link]
      /\ runtime' \in [LinkId -> [Side -> Runtime]]
      /\ carrier' \in [Port -> BOOLEAN]
      /\ PortsAgree' /\ ActiveEnabled' /\ CarrierActive'
  BY <1>0, RefreshEstablishes, ZenonT(40)
<1>2. crossed' \in SUBSET Sequence
  BY <1>0 DEF NoteCrossing, CutOff, InFlight, ScheduledEvent, Types
<1>3. Types'
  BY <1>0, <1>1, <1>2 DEF Types
<1>4. LiveUsed'
  BY DEF LiveUsed
<1>5. ASSUME NEW id \in live', id <= next_link_id
      PROVE  /\ id \in live
             /\ link'[id].endpoint = link[id].endpoint
             /\ \/ link'[id].generation > link[id].generation
                \/ /\ link'[id].generation = link[id].generation
                   /\ link'[id].active = link[id].active
                   /\ \A s \in Side : runtime'[id][s] = runtime[id][s]
  <2>1. /\ link'[id].endpoint = links[id].endpoint
        /\ link'[id].active = Enabled(links[id], admin')
        /\ link'[id].generation = IF Flips(links[id], admin')
              THEN links[id].generation + 1 ELSE links[id].generation
    BY RefreshedType DEF RefreshCarriers
  <2>2. link[id].generation \in Nat
    BY <1>0, <1>5 DEF Types, Link
  <2>3. CASE Flips(links[id], admin')
    BY <1>5, <2>1, <2>2, <2>3
  <2>4. CASE ~Flips(links[id], admin')
    <3>1. \A s \in Side : runtime'[id][s] = runtimes[id][s]
      BY <2>4 DEF RefreshCarriers
    <3>2. link'[id].active = link[id].active
      BY <1>5, <2>1, <2>4 DEF Flips
    <3> QED
      BY <1>5, <2>1, <2>4, <3>1, <3>2
  <2> QED
    BY <2>3, <2>4
<1>6. Frames'
  BY <1>0, <1>3, <1>5, CutKeepsFrames DEF NoteCrossing
<1> QED
  BY <1>1, <1>3, <1>4, <1>6 DEF CableInv, Plugging

-----------------------------------------------------------------------------
(* One lemma per action *)

\* A new link, and the value that stands for no link, are links.
LEMMA NewLinkType ==
    ASSUME NEW a \in Port, NEW b \in Port
    PROVE  /\ NewLink(a, b) \in Link
           /\ NewLink(a, b).endpoint["a"] = a
           /\ NewLink(a, b).endpoint["b"] = b
BY DEF NewLink, Link, Side

LEMMA AbsentType == Absent \in Link
<1>1. (CHOOSE p \in Port : TRUE) \in Port
  OBVIOUS
<1> QED
  BY <1>1, NewLinkType DEF Absent

LEMMA ConnectInv ==
    ASSUME CableInv, NEW a \in Port, NEW b \in Port, Connect(a, b)
    PROVE  CableInv'
<1> USE DEF CableInv, Plugging
<1> DEFINE links == [link EXCEPT ![NewId] = NewLink(a, b)]
<1>1. /\ NewId \in LinkId /\ NewId \notin live /\ NewId > next_link_id
      /\ next_link_id' = NewId /\ live' = live \cup {NewId}
      /\ NewId # NoCable
  BY DEF Connect, NewId, LiveUsed, Types, LinkId, NoCable
<1>2. links \in [LinkId -> Link]
  BY NewLinkType DEF Types
<1>3. /\ ports' \in [Port -> LinkId \cup {NoCable}]
      /\ ports'[a] = NewId /\ ports'[b] = NewId
      /\ \A p \in Port \ {a, b} : ports'[p] = ports[p]
  BY <1>1 DEF Connect, Types
<1>4. /\ links[NewId] = NewLink(a, b)
      /\ \A id \in live : links[id] = link[id]
  BY <1>1 DEF Types
<1>5. \A p \in Port : ports'[p] # NoCable =>
         ports'[p] \in live' /\ IsEndpoint(links[ports'[p]], p)
  <2> HIDE DEF links
  <2> QED
    BY <1>1, <1>3, <1>4, NewLinkType DEF PortsAgree, IsEndpoint, Side
<1>6. ASSUME NEW id \in live'
      PROVE  /\ links[id].endpoint["a"] # links[id].endpoint["b"]
             /\ \A s \in Side : ports'[links[id].endpoint[s]] = id
  <2> HIDE DEF links
  <2>1. CASE id = NewId
    BY <1>3, <1>4, <2>1, NewLinkType DEF Connect, Side
  <2>2. CASE id \in live
    <3>1. \A s \in Side : ports[link[id].endpoint[s]] = id /\ link[id].endpoint[s] \in Port
      BY <2>2 DEF PortsAgree, Types, Link
    <3>2. ports[a] = NoCable /\ ports[b] = NoCable /\ id # NoCable
      BY <2>2 DEF Connect, NoCable, LinkId, Types
    <3>3. \A s \in Side : ports'[link[id].endpoint[s]] = id
      BY <1>3, <3>1, <3>2
    <3> QED
      BY <1>4, <2>2, <3>3 DEF PortsAgree
  <2> QED
    BY <1>1, <2>1, <2>2
<1>7. \A p \in Port : ports'[p] = NoCable => ~carrier[p]
  BY <1>1, <1>3 DEF CarrierActive
<1>8. RefreshCarriers(live', links, runtime, admin', carrier)
  BY DEF Connect
<1>9. \A id \in live' : id <= next_link_id =>
         /\ id \in live /\ links[id].endpoint = link[id].endpoint
         /\ links[id].active = link[id].active
         /\ links[id].generation = link[id].generation
         /\ runtime[id] = runtime[id]
  <2> HIDE DEF links
  <2>1. next_link_id \in Int /\ NewId \in Int
    BY DEF Types, NewId
  <2> QED
    BY <1>1, <1>4, <2>1
<1>10. /\ next_link_id' \in 0 .. MaxLinks /\ next_link_id' >= next_link_id
       /\ \A id \in live' : id <= next_link_id'
       /\ live' \in SUBSET LinkId
  BY <1>1 DEF Types, LinkId, LiveUsed
<1>11. queue' = queue /\ admin' = admin /\ lastRx' = lastRx /\ NoteCrossing
  BY DEF Connect
<1>12. /\ carrier \in [Port -> BOOLEAN]
       /\ runtime \in [LinkId -> [Side -> Runtime]]
       /\ queue \in [now : SimTime, next_sequence : Sequence,
                     pending : SUBSET ScheduledEvent]
       /\ admin \in [Port -> BOOLEAN]
  BY DEF Types
<1> HIDE DEF links, CableInv, Plugging
<1>13. RefreshCall(links, runtime, carrier)
  BY <1>2, <1>3, <1>5, <1>6, <1>7, <1>8, <1>9, <1>10, <1>11, <1>12 DEF RefreshCall
<1> QED
  BY <1>13, RefreshStep

LEMMA DisconnectInv ==
    ASSUME CableInv, NEW id \in LinkId, Disconnect(id)
    PROVE  CableInv'
<1> USE DEF CableInv, Plugging
<1> DEFINE links == [link EXCEPT ![id] = Absent]
           runtimes == [runtime EXCEPT ![id] = [s \in Side |-> IdleRuntime]]
<1>1. /\ id \in live /\ live' = live \ {id}
      /\ next_link_id' = next_link_id
      /\ queue' = queue /\ admin' = admin /\ lastRx' = lastRx /\ NoteCrossing
  BY DEF Disconnect
<1>2. links \in [LinkId -> Link]
  BY AbsentType DEF Types
<1>3. runtimes \in [LinkId -> [Side -> Runtime]]
  BY IdleRuntimeType DEF Types
<1>4. \A k \in live' : links[k] = link[k] /\ runtimes[k] = runtime[k] /\ k \in LinkId
  BY <1>1 DEF Types
<1>5. /\ link[id].endpoint["a"] \in Port /\ link[id].endpoint["b"] \in Port
      /\ ports[link[id].endpoint["a"]] = id /\ ports[link[id].endpoint["b"]] = id
  BY <1>1 DEF Types, Link, PortsAgree, Side
<1>6. /\ ports' \in [Port -> LinkId \cup {NoCable}]
      /\ \A p \in Port : ports'[p] = IF IsEndpoint(link[id], p) THEN NoCable ELSE ports[p]
  BY <1>5 DEF Disconnect, Released, IsEndpoint, Types, Side
<1>7. \A p \in Port : IsEndpoint(link[id], p) <=> ports[p] = id
  BY <1>1, <1>5 DEF IsEndpoint, PortsAgree, Side, NoCable, LinkId
<1>8. Unplugged(id) \in [Port -> BOOLEAN]
      /\ \A p \in Port : ports'[p] = NoCable => ~Unplugged(id)[p]
  BY <1>6 DEF Unplugged, CarrierActive, Types
<1>9. \A p \in Port : ports'[p] # NoCable =>
         ports'[p] \in live' /\ IsEndpoint(links[ports'[p]], p)
  <2> HIDE DEF links
  <2> QED
    BY <1>1, <1>4, <1>6, <1>7 DEF PortsAgree
<1>10. ASSUME NEW k \in live'
       PROVE  /\ links[k].endpoint["a"] # links[k].endpoint["b"]
              /\ \A s \in Side : ports'[links[k].endpoint[s]] = k
  <2> HIDE DEF links
  <2>1. \A s \in Side : ports[link[k].endpoint[s]] = k /\ link[k].endpoint[s] \in Port
    BY <1>1 DEF PortsAgree, Types, Link
  <2>2. \A s \in Side : ports'[link[k].endpoint[s]] = k
    BY <1>1, <1>6, <1>7, <2>1
  <2> QED
    BY <1>1, <1>4, <2>2 DEF PortsAgree
<1>11. RefreshCarriers(live', links, runtimes, admin', Unplugged(id))
  BY DEF Disconnect
<1>12. /\ next_link_id' \in 0 .. MaxLinks /\ next_link_id' >= next_link_id
       /\ \A k \in live' : k <= next_link_id'
       /\ live' \in SUBSET LinkId
  BY <1>1 DEF Types, LiveUsed
<1>13. /\ queue \in [now : SimTime, next_sequence : Sequence,
                     pending : SUBSET ScheduledEvent]
       /\ admin \in [Port -> BOOLEAN]
  BY DEF Types
<1> HIDE DEF links, runtimes, CableInv, Plugging
<1>14. RefreshCall(links, runtimes, Unplugged(id))
  BY <1>1, <1>2, <1>3, <1>4, <1>6, <1>8, <1>9, <1>10, <1>11, <1>12, <1>13
  DEF RefreshCall
<1> QED
  BY <1>14, RefreshStep

\* Changing "up" of one cable and refreshing, as set_link_state does, from
\* whatever part of the queue the step leaves.
LEMMA SetUpInv ==
    ASSUME CableInv, NEW id \in live, NEW up \in BOOLEAN,
           RefreshCarriers(live, [link EXCEPT ![id].up = up], runtime, admin, carrier),
           queue' \in [now : SimTime, next_sequence : Sequence,
                       pending : SUBSET ScheduledEvent],
           queue'.pending \subseteq queue.pending,
           queue'.next_sequence = queue.next_sequence,
           live' = live, ports' = ports, next_link_id' = next_link_id,
           admin' = admin, lastRx' = lastRx, NoteCrossing
    PROVE  CableInv'
<1> USE DEF CableInv, Plugging
<1> DEFINE links == [link EXCEPT ![id].up = up]
<1>1. id \in LinkId
  BY DEF Types
<1>2. link[id] \in Link /\ [link[id] EXCEPT !.up = up] \in Link
  <2>1. link[id] \in Link
    BY <1>1 DEF Types
  <2>2. \A l \in Link : [l EXCEPT !.up = up] \in Link
    BY DEF Link
  <2> QED
    BY <2>1, <2>2
<1>3. links = [link EXCEPT ![id] = [link[id] EXCEPT !.up = up]]
  OBVIOUS
<1>4. links \in [LinkId -> Link]
  BY <1>2, <1>3 DEF Types
<1>5. \A k \in LinkId : /\ links[k].endpoint = link[k].endpoint
                        /\ links[k].active = link[k].active
                        /\ links[k].generation = link[k].generation
  BY <1>2, <1>3 DEF Types, Link
<1>6. RefreshCarriers(live', links, runtime, admin', carrier)
  OBVIOUS
<1> HIDE DEF links
<1>7. \A p \in Port : ports'[p] # NoCable =>
         ports'[p] \in live' /\ IsEndpoint(links[ports'[p]], p)
  BY <1>5 DEF PortsAgree, IsEndpoint, Types
<1>8. \A k \in live' :
         /\ links[k].endpoint["a"] # links[k].endpoint["b"]
         /\ \A s \in Side : ports'[links[k].endpoint[s]] = k
  BY <1>5 DEF PortsAgree, Types
<1>9. \A p \in Port : ports'[p] = NoCable => ~carrier[p]
  BY DEF CarrierActive
<1>10. /\ next_link_id' \in 0 .. MaxLinks /\ next_link_id' >= next_link_id
       /\ \A k \in live' : k <= next_link_id'
       /\ live' \in SUBSET LinkId
       /\ ports' \in [Port -> LinkId \cup {NoCable}]
       /\ admin' \in [Port -> BOOLEAN]
       /\ carrier \in [Port -> BOOLEAN]
       /\ runtime \in [LinkId -> [Side -> Runtime]]
  BY DEF Types, LiveUsed
<1>11. \A k \in live' : k \in live /\ k \in LinkId
  BY <1>10
<1> HIDE DEF CableInv, Plugging
<1>12. RefreshCall(links, runtime, carrier)
  BY <1>4, <1>5, <1>6, <1>7, <1>8, <1>9, <1>10, <1>11 DEF RefreshCall
<1> QED
  BY <1>12, RefreshStep

LEMMA EditAdminInv ==
    ASSUME CableInv, NEW p \in Port, NEW up \in BOOLEAN, EditAdmin(p, up)
    PROVE  CableInv'
<1> USE DEF CableInv, Plugging
<1> DEFINE car == [q \in Port |-> carrier[q] /\ (Owner[q] = Owner[p] => ports[q] # NoCable)]
<1>1. /\ live' = live /\ ports' = ports /\ next_link_id' = next_link_id
      /\ queue' = queue /\ lastRx' = lastRx /\ NoteCrossing
      /\ RefreshCarriers(live', link, runtime, admin', car)
  BY DEF EditAdmin
<1>2. admin' \in [Port -> BOOLEAN]
  BY DEF EditAdmin, Types
<1>3. /\ car \in [Port -> BOOLEAN]
      /\ \A q \in Port : ports'[q] = NoCable => ~car[q]
  BY <1>1 DEF CarrierActive, Types
<1> HIDE DEF car
<1>4. /\ \A q \in Port : ports'[q] # NoCable =>
            ports'[q] \in live' /\ IsEndpoint(link[ports'[q]], q)
      /\ \A k \in live' :
            /\ link[k].endpoint["a"] # link[k].endpoint["b"]
            /\ \A s \in Side : ports'[link[k].endpoint[s]] = k
  BY <1>1 DEF PortsAgree
<1>5. /\ next_link_id' \in 0 .. MaxLinks /\ next_link_id' >= next_link_id
      /\ \A k \in live' : k <= next_link_id'
      /\ live' \in SUBSET LinkId
      /\ ports' \in [Port -> LinkId \cup {NoCable}]
      /\ link \in [LinkId -> Link]
      /\ runtime \in [LinkId -> [Side -> Runtime]]
      /\ queue \in [now : SimTime, next_sequence : Sequence,
                    pending : SUBSET ScheduledEvent]
  BY <1>1 DEF Types, LiveUsed
<1> HIDE DEF CableInv, Plugging
<1>6. RefreshCall(link, runtime, car)
  BY <1>1, <1>2, <1>3, <1>4, <1>5 DEF RefreshCall
<1> QED
  BY <1>6, RefreshStep

\* Scheduling an event that is not a frame.
LEMMA ScheduleOtherInv ==
    ASSUME CableInv, NEW time, NEW event \in StateEvent \cup TimerEvent,
           Schedulable(queue, time), queue' = Scheduled(queue, time, event),
           UNCHANGED <<cables, admin, carrier, crossed, lastRx>>
    PROVE  CableInv'
<1> USE DEF CableInv, Plugging, cables
<1> DEFINE x == [time |-> time, sequence |-> queue.next_sequence, event |-> event]
<1>1. /\ queue'.pending = queue.pending \cup {x}
      /\ queue'.next_sequence = queue.next_sequence + 1
      /\ queue'.now = queue.now
      /\ queue' = [now |-> queue'.now, next_sequence |-> queue'.next_sequence,
                   pending |-> queue'.pending]
  BY DEF Scheduled, Types
<1>2. /\ time \in SimTime /\ queue.next_sequence \in Sequence
      /\ queue.next_sequence + 1 \in Sequence
  BY DEF Schedulable, Types, Sequence
<1>3. x \in ScheduledEvent /\ x.event.kind # "frame" /\ x.sequence = queue.next_sequence
  BY <1>2 DEF ScheduledEvent, Event, StateEvent, TimerEvent
<1> HIDE DEF x
<1>4. queue' \in [now : SimTime, next_sequence : Sequence,
                  pending : SUBSET ScheduledEvent]
  BY <1>1, <1>2, <1>3 DEF Types
<1>5. Types'
  BY <1>4 DEF Types
<1>6. InFlight(queue') = InFlight(queue)
  BY <1>1, <1>3 DEF InFlight
<1>7. SequencesFresh'
  BY <1>1, <1>2, <1>3 DEF Frames, SequencesFresh, Types, ScheduledEvent, Sequence
<1>8. FromThePast' /\ CurrentSound' /\ CurrentOrdered' /\ NoCrossOutage'
  BY <1>6 DEF Frames, FromThePast, CurrentSound, CurrentOrdered, NoCrossOutage,
     Current, OnItsWay
<1>9. PortsAgree' /\ LiveUsed' /\ ActiveEnabled' /\ CarrierActive'
  BY DEF PortsAgree, LiveUsed, ActiveEnabled, CarrierActive
<1> QED
  BY <1>5, <1>7, <1>8, <1>9 DEF Frames

\* Dropping events or advancing the clock, with nothing else changed.
LEMMA FewerEventsInv ==
    ASSUME CableInv,
           queue' \in [now : SimTime, next_sequence : Sequence,
                       pending : SUBSET ScheduledEvent],
           queue'.pending \subseteq queue.pending,
           queue'.next_sequence = queue.next_sequence,
           UNCHANGED <<cables, admin, carrier, crossed, lastRx>>
    PROVE  CableInv'
<1> USE DEF CableInv, Plugging, cables
<1>1. Types'
  BY DEF Types
<1>2. InFlight(queue') \subseteq InFlight(queue)
  BY DEF InFlight
<1>3. SequencesFresh'
  BY DEF Frames, SequencesFresh
<1>4. FromThePast' /\ CurrentSound' /\ CurrentOrdered' /\ NoCrossOutage'
  BY <1>2 DEF Frames, FromThePast, CurrentSound, CurrentOrdered, NoCrossOutage,
     Current, OnItsWay
<1>5. PortsAgree' /\ LiveUsed' /\ ActiveEnabled' /\ CarrierActive'
  BY DEF PortsAgree, LiveUsed, ActiveEnabled, CarrierActive
<1> QED
  BY <1>1, <1>3, <1>4, <1>5 DEF Frames

\* What popping the next event does to the queue.
LEMMA PoppedQueue ==
    ASSUME Types, NEW x \in queue.pending, queue' = Popped(queue, x)
    PROVE  /\ queue' \in [now : SimTime, next_sequence : Sequence,
                          pending : SUBSET ScheduledEvent]
           /\ queue'.pending = queue.pending \ {x}
           /\ queue'.next_sequence = queue.next_sequence
<1>1. /\ queue'.pending = queue.pending \ {x}
      /\ queue'.next_sequence = queue.next_sequence
      /\ queue'.now = x.time
      /\ queue' = [now |-> queue'.now, next_sequence |-> queue'.next_sequence,
                   pending |-> queue'.pending]
  BY DEF Popped, Types
<1>2. x.time \in SimTime
  BY DEF Types, ScheduledEvent
<1> QED
  BY <1>1, <1>2 DEF Types

\* What DirectionalLinkRuntime::admit reserves: a time not before the last
\* reservation of the direction and not before the last arrival.
LEMMA AdmitTimes ==
    ASSUME NEW rt \in Runtime, NEW n \in 0 .. Len(rt.finishes),
           NEW now \in SimTime, NEW serialization \in Serialization,
           NEW sample \in Nat,
           NEW waiting, waiting = SubSeq(rt.finishes, n + 1, Len(rt.finishes)),
           NEW finish, finish = LastFinish(waiting, now) + serialization,
           NEW arrival, arrival = Arrival(finish, sample, rt.last_arrival),
           arrival <= MaxTime
    PROVE  /\ waiting \in Reservations
           /\ finish \in SimTime
           /\ arrival \in SimTime
           /\ arrival >= rt.last_arrival
<1>1. rt.finishes \in Seq(SimTime) /\ rt.last_arrival \in SimTime
  BY DEF Runtime, Reservations
<1>2. waiting \in Seq(SimTime)
  <2>1. Len(rt.finishes) \in Nat /\ n \in Nat
    BY <1>1
  <2>2. \A i \in n + 1 .. Len(rt.finishes) : rt.finishes[i] \in SimTime
    BY <1>1, <2>1
  <2> QED
    BY <1>1, <2>1, <2>2, SubSeqProperties
<1>3. LastFinish(waiting, now) \in SimTime
  <2>1. CASE waiting = <<>>
    BY <2>1 DEF LastFinish
  <2>2. CASE waiting # <<>>
    <3>1. Len(waiting) \in 1 .. Len(waiting)
      <4>1. Len(waiting) \in Nat
        BY <1>2
      <4>2. Len(waiting) # 0
        BY <1>2, <2>2, EmptySeq
      <4> QED
        BY <4>1, <4>2
    <3>2. waiting[Len(waiting)] \in SimTime
      BY <1>2, <3>1, ElementOfSeq
    <3> QED
      BY <2>2, <3>2 DEF LastFinish
  <2> QED
    BY <2>1, <2>2
<1>4. finish \in Nat /\ Propagation(sample) \in Nat
  BY <1>3 DEF SimTime, Propagation
<1>5. arrival >= finish /\ arrival >= rt.last_arrival /\ arrival \in Nat
  BY <1>1, <1>4 DEF Arrival, SimTime
<1> QED
  BY <1>1, <1>2, <1>4, <1>5, SMTT(20) DEF SimTime, Reservations

LEMMA TransmitInv ==
    ASSUME CableInv, NEW p \in Port, NEW serialization \in Serialization,
           NEW sample \in 0 .. 2 * Jitter, NEW lost \in BOOLEAN,
           Transmit(p, serialization, sample, lost)
    PROVE  CableInv'
<1> USE DEF CableInv, Plugging
<1> DEFINE id == ports[p]
           side == SideOf(link[id], p)
           rt == runtime[id][side]
<1>1. /\ id \in live /\ id \in LinkId /\ link[id] \in Link
      /\ link[id].active /\ carrier[p]
      /\ side \in Side /\ link[id].endpoint[side] = p
      /\ link[id].endpoint[Peer(side)] \in Port
      /\ rt \in Runtime
  <2>1. id # NoCable /\ carrier[p]
    BY DEF Transmit, ProtocolUp
  <2>2. /\ id \in live /\ IsEndpoint(link[id], p) /\ link[id].active
        /\ id \in LinkId /\ link[id] \in Link
    BY <2>1 DEF PortsAgree, CarrierActive, Types
  <2>3. side \in Side /\ link[id].endpoint[side] = p /\ Peer(side) \in Side
    BY <2>2 DEF SideOf, IsEndpoint, Side, Peer
  <2> QED
    BY <2>1, <2>2, <2>3 DEF Types, Link
<1>2. PICK n \in 0 .. Len(rt.finishes) :
        LET waiting == SubSeq(rt.finishes, n + 1, Len(rt.finishes))
            finish == LastFinish(waiting, queue.now) + serialization
            arrival == Arrival(finish, sample, rt.last_arrival)
        IN
        /\ Schedulable(queue, arrival)
        /\ queue' = Scheduled(queue, arrival,
              [kind |-> "frame", link |-> id, generation |-> link[id].generation,
               interface |-> link[id].endpoint[Peer(side)], source |-> p,
               lost |-> lost])
        /\ runtime' = [runtime EXCEPT ![id][side] =
              [rt EXCEPT !.finishes = Append(waiting, finish),
                         !.last_arrival = arrival,
                         !.tx_packets = @ + 1]]
  BY DEF Transmit
<1>3. /\ live' = live /\ link' = link /\ ports' = ports
      /\ next_link_id' = next_link_id /\ admin' = admin /\ carrier' = carrier
      /\ crossed' = crossed /\ lastRx' = lastRx
  BY DEF Transmit
<1> DEFINE waiting == SubSeq(rt.finishes, n + 1, Len(rt.finishes))
           finish == LastFinish(waiting, queue.now) + serialization
           arrival == Arrival(finish, sample, rt.last_arrival)
           sent == [rt EXCEPT !.finishes = Append(waiting, finish),
                              !.last_arrival = arrival,
                              !.tx_packets = @ + 1]
           event == [kind |-> "frame", link |-> id, generation |-> link[id].generation,
                     interface |-> link[id].endpoint[Peer(side)], source |-> p,
                     lost |-> lost]
           frame == [time |-> arrival, sequence |-> queue.next_sequence, event |-> event]
<1>4. /\ Schedulable(queue, arrival)
      /\ queue' = Scheduled(queue, arrival, event)
      /\ runtime' = [runtime EXCEPT ![id][side] = sent]
  BY <1>2
<1> HIDE DEF id, side, rt
<1>5. /\ waiting \in Reservations /\ finish \in SimTime /\ arrival \in SimTime
      /\ arrival >= rt.last_arrival
  <2>1. queue.now \in SimTime /\ sample \in Nat /\ arrival <= MaxTime
    <3>1. arrival \in SimTime
      BY <1>4 DEF Schedulable
    <3> QED
      BY <3>1 DEF Types, SimTime
  <2> HIDE DEF waiting, finish, arrival
  <2>2. /\ waiting = SubSeq(rt.finishes, n + 1, Len(rt.finishes))
        /\ finish = LastFinish(waiting, queue.now) + serialization
        /\ arrival = Arrival(finish, sample, rt.last_arrival)
    BY DEF waiting, finish, arrival
  <2> QED
    BY <1>1, <2>1, <2>2, AdmitTimes
<1> HIDE DEF waiting, finish, arrival
<1>6. sent \in Runtime /\ sent.last_arrival = arrival
  <2>1. Append(waiting, finish) \in Reservations
    BY <1>5, AppendProperties DEF Reservations
  <2> DEFINE r1 == [rt EXCEPT !.finishes = Append(waiting, finish)]
             r2 == [r1 EXCEPT !.last_arrival = arrival]
             r3 == [r2 EXCEPT !.tx_packets = @ + 1]
  <2>2. r1 \in Runtime
    BY <1>1, <2>1 DEF Runtime
  <2>3. r2 \in Runtime /\ r2.last_arrival = arrival
    <3> HIDE DEF r1
    <3> QED BY <1>5, <2>2 DEF Runtime
  <2>4. r3 \in Runtime /\ r3.last_arrival = arrival
    <3> HIDE DEF r2
    <3>1. r2.tx_packets + 1 \in Nat
      BY <2>3 DEF Runtime
    <3> QED BY <2>3, <3>1 DEF Runtime
  <2>5. sent = r3
    OBVIOUS
  <2> HIDE DEF r1, r2, r3, sent
  <2> QED
    BY <2>4, <2>5
<1> HIDE DEF sent
<1>7. /\ runtime' \in [LinkId -> [Side -> Runtime]]
      /\ runtime'[id][side] = sent
      /\ \A k \in LinkId, s \in Side :
            k # id \/ s # side => runtime'[k][s] = runtime[k][s]
  BY <1>1, <1>4, <1>6 DEF Types
<1>8. event \in FrameEvent
  BY <1>1 DEF FrameEvent, Link
<1> PICK z : z = frame
  OBVIOUS
<1>9. /\ z \in ScheduledEvent /\ z.time = arrival
      /\ z.sequence = queue.next_sequence
      /\ z.event.kind = "frame" /\ z.event.link = id /\ z.event.source = p
      /\ z.event.generation = link[id].generation
      /\ z.event.interface = link[id].endpoint[Peer(side)]
  BY <1>5, <1>8 DEF ScheduledEvent, Event, Types
<1>10. /\ queue'.pending = queue.pending \cup {z}
       /\ queue'.next_sequence = queue.next_sequence + 1
       /\ queue'.now = queue.now
       /\ queue' = [now |-> queue'.now, next_sequence |-> queue'.next_sequence,
                    pending |-> queue'.pending]
  BY <1>4 DEF Scheduled, Types
<1>11. /\ queue.next_sequence \in Sequence /\ queue.next_sequence + 1 \in Sequence
  BY <1>4 DEF Schedulable, Types, Sequence
<1> HIDE DEF event, frame
<1>12. Types'
  <2>1. queue' \in [now : SimTime, next_sequence : Sequence,
                    pending : SUBSET ScheduledEvent]
    BY <1>9, <1>10, <1>11 DEF Types
  <2> QED
    BY <1>3, <1>7, <2>1 DEF Types
<1>13. InFlight(queue') = InFlight(queue) \cup {z}
  BY <1>9, <1>10 DEF InFlight
<1>14. \A x \in InFlight(queue) :
          x \in queue.pending /\ x.event \in FrameEvent /\ x.time \in SimTime
          /\ x.sequence \in Sequence /\ x.sequence < queue.next_sequence
  BY DEF InFlight, Types, ScheduledEvent, Event, StateEvent, TimerEvent,
     FrameEvent, Frames, SequencesFresh
<1>15. SequencesFresh'
  <2>1. /\ \A x \in queue.pending : x.sequence < queue.next_sequence
        /\ \A x \in queue.pending : x.sequence \in Int
        /\ queue.next_sequence \in Int
    BY <1>11 DEF Frames, SequencesFresh, Types, ScheduledEvent, Sequence
  <2>2. /\ \A n1 \in crossed : n1 < queue.next_sequence /\ n1 \in Int
        /\ \A q \in Port : lastRx[q] < queue.next_sequence /\ lastRx[q] \in Int
    BY DEF Frames, SequencesFresh, Types, Sequence
  <2>3. /\ \A x \in queue'.pending : x.sequence < queue'.next_sequence
        /\ \A x, y \in queue'.pending : x.sequence = y.sequence => x = y
    BY <1>9, <1>10, <2>1, SMTT(20) DEF Frames, SequencesFresh
  <2>4. /\ \A n1 \in crossed' : n1 < queue'.next_sequence
        /\ \A q \in Port : lastRx'[q] < queue'.next_sequence
    <3>1. crossed' = crossed /\ lastRx' = lastRx
      BY <1>3
    <3>2. queue'.next_sequence = queue.next_sequence + 1
      BY <1>10
    <3>3. ASSUME NEW m \in Int, m < queue.next_sequence PROVE m < queue.next_sequence + 1
      BY <2>1, <3>3
    <3> QED
      BY <2>2, <3>1, <3>2, <3>3
  <2>5. \A q \in Port, x \in queue'.pending : x.sequence # lastRx'[q]
    BY <1>3, <1>9, <1>10, <2>1, <2>2 DEF Frames, SequencesFresh
  <2> QED
    BY <2>3, <2>4, <2>5 DEF SequencesFresh
<1>16. FromThePast'
  BY <1>1, <1>3, <1>9, <1>13 DEF Frames, FromThePast, LiveUsed, Types, Link
<1>17. \A e \in FrameEvent : Current(e)' = Current(e)
  BY <1>3 DEF Current
<1>18. \A x \in InFlight(queue) : OnItsWay(x) => OnItsWay(x)'
  <2> SUFFICES ASSUME NEW x \in InFlight(queue), OnItsWay(x) PROVE OnItsWay(x)'
    OBVIOUS
  <2>1. x.event.link \in LinkId /\ x.time \in SimTime
    BY <1>14 DEF FrameEvent
  <2>2. PICK s \in Side :
           /\ x.event.source = link[x.event.link].endpoint[s]
           /\ x.event.interface = link[x.event.link].endpoint[Peer(s)]
           /\ x.time <= runtime[x.event.link][s].last_arrival
    BY DEF OnItsWay
  <2>3. /\ runtime[x.event.link][s] \in Runtime
        /\ runtime'[x.event.link][s] \in Runtime
    BY <1>7, <2>1 DEF Types
  <2>4. /\ runtime[x.event.link][s].last_arrival \in SimTime
        /\ runtime'[x.event.link][s].last_arrival \in SimTime
    BY <2>3 DEF Runtime
  <2>5. CASE x.event.link = id /\ s = side
    <3>1. rt.last_arrival = runtime[x.event.link][s].last_arrival
      BY <2>5 DEF rt
    <3>2. x.time <= runtime'[x.event.link][s].last_arrival
      BY <1>5, <1>6, <1>7, <2>1, <2>2, <2>4, <2>5, <3>1 DEF SimTime
    <3> QED
      BY <1>3, <2>2, <3>2 DEF OnItsWay
  <2>6. CASE ~(x.event.link = id /\ s = side)
    BY <1>3, <1>7, <2>1, <2>2, <2>6 DEF OnItsWay
  <2> QED
    BY <2>5, <2>6
<1>19. OnItsWay(z)'
  <2>1. z.time <= runtime'[z.event.link][side].last_arrival
    BY <1>5, <1>6, <1>7, <1>9 DEF SimTime
  <2> QED
    BY <1>1, <1>3, <1>9, <2>1 DEF OnItsWay
<1>20. CurrentSound'
  <2>1. ASSUME NEW x \in InFlight(queue), Current(x.event)'
        PROVE  /\ x.sequence \notin crossed'
               /\ OnItsWay(x)'
               /\ lastRx'[x.event.interface] < x.sequence
    BY <1>3, <1>14, <1>17, <1>18, <2>1 DEF Frames, CurrentSound
  <2>2. z.sequence \notin crossed' /\ lastRx'[z.event.interface] < z.sequence
    <3>1. z.event.interface \in Port
      BY <1>1, <1>9
    <3>2. /\ \A n1 \in crossed : n1 < queue.next_sequence
          /\ lastRx[z.event.interface] < queue.next_sequence
      BY <3>1 DEF Frames, SequencesFresh
    <3>3. ~(queue.next_sequence < queue.next_sequence)
      BY <1>11 DEF Sequence
    <3> QED
      BY <1>3, <1>9, <3>2, <3>3
  <2> QED
    BY <1>13, <1>19, <2>1, <2>2 DEF CurrentSound
<1>21. CurrentOrdered'
  <2> SUFFICES ASSUME NEW x \in InFlight(queue'), NEW y \in InFlight(queue'),
                      Current(x.event)', Current(y.event)',
                      x.event.link = y.event.link, x.event.source = y.event.source,
                      x.sequence < y.sequence
               PROVE  x.time <= y.time
    BY DEF CurrentOrdered
  <2>1. CASE x \in InFlight(queue) /\ y \in InFlight(queue)
    BY <1>14, <1>17, <2>1 DEF Frames, CurrentOrdered
  <2>2. CASE x \in InFlight(queue) /\ y = z
    <3>1. OnItsWay(x)
      BY <1>14, <1>17, <2>2 DEF Frames, CurrentSound
    <3>2. x.event.link = id /\ x.event.source = p
      BY <1>9, <2>2
    <3>3. \A s \in Side : link[id].endpoint[s] = p => s = side
      BY <1>1 DEF PortsAgree, Side
    <3>4. x.time <= rt.last_arrival
      BY <3>1, <3>2, <3>3 DEF OnItsWay, rt
    <3>5. x.time \in SimTime /\ rt.last_arrival \in SimTime
      BY <1>1, <1>14, <2>2 DEF Runtime
    <3> QED
      BY <1>5, <1>9, <2>2, <3>4, <3>5 DEF SimTime
  <2>3. CASE x = z
    <3>1. y.sequence <= queue.next_sequence /\ y.sequence \in Int
      BY <1>9, <1>11, <1>13, <1>14 DEF Sequence
    <3> QED
      BY <1>9, <1>11, <2>3, <3>1 DEF Sequence
  <2> QED
    BY <1>13, <2>1, <2>2, <2>3
<1>22. NoCrossOutage'
  BY <1>3 DEF Frames, NoCrossOutage
<1>23. PortsAgree' /\ LiveUsed' /\ ActiveEnabled' /\ CarrierActive'
  BY <1>3 DEF PortsAgree, LiveUsed, ActiveEnabled, CarrierActive
<1> QED
  BY <1>12, <1>15, <1>16, <1>20, <1>21, <1>22, <1>23 DEF Frames

\* A frame event leaves every transmitter's last_arrival alone.
LEMMA CountedRuntime ==
    ASSUME Types, NEW id \in LinkId, NEW side \in Side, NEW outcome,
           runtime' = [runtime EXCEPT ![id][side] = Counted(@, outcome)]
    PROVE  /\ runtime' \in [LinkId -> [Side -> Runtime]]
           /\ \A k \in LinkId, s \in Side :
                 runtime'[k][s].last_arrival = runtime[k][s].last_arrival
<1>1. runtime[id][side] \in Runtime
  BY DEF Types
<1>2. PICK rt : rt = Counted(runtime[id][side], outcome)
  OBVIOUS
<1>3. rt \in Runtime /\ rt.last_arrival = runtime[id][side].last_arrival
  BY <1>1, <1>2, CountedType
<1>4. runtime' = [runtime EXCEPT ![id][side] = rt]
  BY <1>2
<1> QED
  BY <1>3, <1>4 DEF Types

\* Two frames on their way to one port on current cables are of one direction.
LEMMA SameDirection ==
    ASSUME Types, PortsAgree,
           NEW x \in InFlight(queue), NEW y \in InFlight(queue),
           Current(x.event), Current(y.event), OnItsWay(x), OnItsWay(y),
           x.event.interface = y.event.interface
    PROVE  x.event.link = y.event.link /\ x.event.source = y.event.source
<1>1. PICK s \in Side :
         /\ x.event.source = link[x.event.link].endpoint[s]
         /\ x.event.interface = link[x.event.link].endpoint[Peer(s)]
  BY DEF OnItsWay
<1>2. PICK t \in Side :
         /\ y.event.source = link[y.event.link].endpoint[t]
         /\ y.event.interface = link[y.event.link].endpoint[Peer(t)]
  BY DEF OnItsWay
<1>3. x.event.link \in live /\ y.event.link \in live
  BY DEF Current
<1>4. Peer(s) \in Side /\ Peer(t) \in Side
  BY DEF Peer, Side
<1>5. /\ ports[x.event.interface] = x.event.link
      /\ ports[y.event.interface] = y.event.link
      /\ link[x.event.link].endpoint["a"] # link[x.event.link].endpoint["b"]
  <2>1. \A id \in live : /\ link[id].endpoint["a"] # link[id].endpoint["b"]
                         /\ \A u \in Side : ports[link[id].endpoint[u]] = id
    BY DEF PortsAgree
  <2>2. ports[link[x.event.link].endpoint[Peer(s)]] = x.event.link
    BY <1>3, <1>4, <2>1
  <2>3. ports[link[y.event.link].endpoint[Peer(t)]] = y.event.link
    BY <1>3, <1>4, <2>1
  <2> QED
    BY <1>1, <1>2, <1>3, <2>1, <2>2, <2>3
<1>6. s = t
  <2>1. link[x.event.link].endpoint[Peer(s)] = link[x.event.link].endpoint[Peer(t)]
    BY <1>1, <1>2, <1>5
  <2>2. Peer(s) = Peer(t)
    BY <1>4, <1>5, <2>1 DEF Side
  <2> QED
    BY <2>2 DEF Peer, Side
<1> QED
  BY <1>1, <1>2, <1>5, <1>6

LEMMA StepFrameInv ==
    ASSUME CableInv, StepFrame
    PROVE  /\ CableInv'
           /\ \A p \in Port : lastRx'[p] # lastRx[p] => lastRx'[p] > lastRx[p]
<1> USE DEF CableInv, Plugging
<1>1. PICK x \in queue.pending :
        /\ IsNext(queue, x) /\ x.event.kind = "frame"
        /\ queue' = Popped(queue, x)
        /\ \E outcome \in Outcome(x.event) :
              /\ runtime' = IF x.event.link \notin live THEN runtime
                    ELSE [runtime EXCEPT
                            ![x.event.link][CountOn(link[x.event.link], x.event.source)]
                               = Counted(@, outcome)]
              /\ lastRx' = IF outcome = "rx"
                           THEN [lastRx EXCEPT ![x.event.interface] = x.sequence]
                           ELSE lastRx
  BY DEF StepFrame
<1>2. PICK outcome \in Outcome(x.event) :
              /\ runtime' = IF x.event.link \notin live THEN runtime
                    ELSE [runtime EXCEPT
                            ![x.event.link][CountOn(link[x.event.link], x.event.source)]
                               = Counted(@, outcome)]
              /\ lastRx' = IF outcome = "rx"
                           THEN [lastRx EXCEPT ![x.event.interface] = x.sequence]
                           ELSE lastRx
  BY <1>1
<1>3. /\ live' = live /\ link' = link /\ ports' = ports
      /\ next_link_id' = next_link_id /\ admin' = admin /\ carrier' = carrier
      /\ crossed' = crossed
  BY DEF StepFrame
<1>4. /\ queue' \in [now : SimTime, next_sequence : Sequence,
                     pending : SUBSET ScheduledEvent]
      /\ queue'.pending = queue.pending \ {x}
      /\ queue'.next_sequence = queue.next_sequence
  BY <1>1, PoppedQueue
<1>5. /\ InFlight(queue') = InFlight(queue) \ {x}
      /\ x \in InFlight(queue)
      /\ \A y \in InFlight(queue) :
            /\ y \in queue.pending /\ y.event \in FrameEvent
            /\ y.time \in SimTime /\ y.sequence \in Sequence
  BY <1>1, <1>4 DEF InFlight, Types, ScheduledEvent, Event, StateEvent, TimerEvent,
     FrameEvent
<1>6. /\ x.event.interface \in Port /\ x.event.link \in LinkId
      /\ x.sequence \in Sequence
  BY <1>5 DEF FrameEvent
<1>7. /\ runtime' \in [LinkId -> [Side -> Runtime]]
      /\ \A k \in LinkId, s \in Side :
            runtime'[k][s].last_arrival = runtime[k][s].last_arrival
  <2>1. CASE x.event.link \notin live
    BY <1>2, <2>1 DEF Types
  <2>2. CASE x.event.link \in live
    <3>1. CountOn(link[x.event.link], x.event.source) \in Side
      BY DEF CountOn, SideOf, Side
    <3> QED
      BY <1>2, <1>6, <2>2, <3>1, CountedRuntime
  <2> QED
    BY <2>1, <2>2
<1>8. \A e \in FrameEvent : Current(e)' = Current(e)
  BY <1>3 DEF Current
<1>9. ASSUME NEW y \in InFlight(queue), OnItsWay(y)
      PROVE  OnItsWay(y)'
  <2>1. y.event.link \in LinkId
    BY <1>5 DEF FrameEvent
  <2> QED
    BY <1>3, <1>7, <1>9, <2>1 DEF OnItsWay
<1>10. PortsAgree' /\ LiveUsed' /\ ActiveEnabled' /\ CarrierActive'
  BY <1>3 DEF PortsAgree, LiveUsed, ActiveEnabled, CarrierActive
<1>11. FromThePast'
  BY <1>3, <1>5 DEF Frames, FromThePast
<1>12. CurrentOrdered'
  BY <1>5, <1>8 DEF Frames, CurrentOrdered
<1>13. CASE outcome # "rx"
  <2>1. lastRx' = lastRx
    BY <1>2, <1>13
  <2>2. Types'
    BY <1>3, <1>4, <1>7, <2>1 DEF Types
  <2>3. SequencesFresh'
    BY <1>3, <1>4, <2>1 DEF Frames, SequencesFresh
  <2>4. CurrentSound'
    BY <1>3, <1>5, <1>8, <1>9, <2>1 DEF Frames, CurrentSound
  <2>5. NoCrossOutage'
    BY <1>3, <2>1 DEF Frames, NoCrossOutage
  <2> QED
    BY <1>10, <1>11, <1>12, <2>1, <2>2, <2>3, <2>4, <2>5 DEF Frames
<1>14. CASE outcome = "rx"
  <2>1. /\ lastRx' = [lastRx EXCEPT ![x.event.interface] = x.sequence]
        /\ Current(x.event)
    BY <1>2, <1>14 DEF Outcome
  <2>2. /\ x.sequence \notin crossed /\ OnItsWay(x)
        /\ lastRx[x.event.interface] < x.sequence
    BY <1>5, <2>1 DEF Frames, CurrentSound
  <2>3. /\ lastRx' \in [Port -> Sequence \cup {-1}]
        /\ lastRx'[x.event.interface] = x.sequence
        /\ \A p \in Port \ {x.event.interface} : lastRx'[p] = lastRx[p]
    BY <1>6, <2>1 DEF Types
  <2>4. Types'
    BY <1>3, <1>4, <1>7, <2>3 DEF Types
  <2>5. SequencesFresh'
    BY <1>1, <1>3, <1>4, <2>3 DEF Frames, SequencesFresh
  <2>6. NoCrossOutage'
    BY <1>3, <2>2, <2>3 DEF Frames, NoCrossOutage
  <2>7. CurrentSound'
    <3> SUFFICES ASSUME NEW y \in InFlight(queue'), Current(y.event)'
                 PROVE  /\ y.sequence \notin crossed'
                        /\ OnItsWay(y)'
                        /\ lastRx'[y.event.interface] < y.sequence
      BY DEF CurrentSound
    <3>1. /\ y \in InFlight(queue) /\ y # x /\ Current(y.event)
          /\ y.event.interface \in Port
      BY <1>5, <1>8 DEF FrameEvent
    <3>2. /\ y.sequence \notin crossed /\ OnItsWay(y)
          /\ lastRx[y.event.interface] < y.sequence
      BY <3>1 DEF Frames, CurrentSound
    <3>3. CASE y.event.interface = x.event.interface
      <4>1. x.event.link = y.event.link /\ x.event.source = y.event.source
        BY <1>5, <2>1, <2>2, <3>1, <3>2, <3>3, SameDirection
      <4>2. y.sequence < x.sequence => y.time <= x.time
        BY <1>5, <2>1, <3>1, <4>1 DEF Frames, CurrentOrdered
      <4>3. Before(x, y)
        BY <1>1, <1>5, <3>1 DEF IsNext
      <4>4. x.sequence # y.sequence
        BY <1>1, <1>5, <3>1 DEF Frames, SequencesFresh
      <4>5. /\ x.time \in Int /\ y.time \in Int
            /\ x.sequence \in Int /\ y.sequence \in Int
        BY <1>5, <3>1 DEF SimTime, Sequence
      <4>6. x.sequence < y.sequence
        BY <4>2, <4>3, <4>4, <4>5 DEF Before
      <4> QED
        BY <1>3, <1>9, <2>3, <3>1, <3>2, <3>3, <4>6
    <3>4. CASE y.event.interface # x.event.interface
      BY <1>3, <1>9, <2>3, <3>1, <3>2, <3>4
    <3> QED
      BY <3>3, <3>4
  <2>8. \A p \in Port : lastRx'[p] # lastRx[p] => lastRx'[p] > lastRx[p]
    <3>1. lastRx[x.event.interface] \in Int /\ x.sequence \in Int
      BY <1>6 DEF Types, Sequence
    <3> QED
      BY <2>2, <2>3, <3>1
  <2> QED
    BY <1>10, <1>11, <1>12, <2>4, <2>5, <2>6, <2>7, <2>8 DEF Frames
<1> QED
  BY <1>13, <1>14

-----------------------------------------------------------------------------
(* The theorems *)

\* A lab with no cable satisfies the invariant.
LEMMA InitInv == Init => CableInv
<1> SUFFICES ASSUME Init PROVE CableInv
  OBVIOUS
<1>1. queue.pending = {} /\ InFlight(queue) = {}
  BY DEF Init, EmptyQueue, InFlight
<1>2. Types
  <2>1. /\ link \in [LinkId -> Link]
        /\ runtime \in [LinkId -> [Side -> Runtime]]
    BY AbsentType, IdleRuntimeType DEF Init
  <2> QED
    BY <2>1 DEF Init, Types, EmptyQueue, SimTime, Sequence
<1>3. PortsAgree /\ LiveUsed /\ ActiveEnabled /\ CarrierActive
  BY DEF Init, PortsAgree, LiveUsed, ActiveEnabled, CarrierActive
<1>4. SequencesFresh /\ NoCrossOutage
  BY <1>1 DEF Init, EmptyQueue, SequencesFresh, NoCrossOutage
<1>5. FromThePast /\ CurrentSound /\ CurrentOrdered
  BY <1>1 DEF FromThePast, CurrentSound, CurrentOrdered
<1> QED
  BY <1>2, <1>3, <1>4, <1>5 DEF CableInv, Plugging, Frames

\* Every step keeps the invariant, and delivers in order.
LEMMA NextInv ==
    ASSUME CableInv, [Next]_vars
    PROVE  /\ CableInv'
           /\ \A p \in Port : lastRx'[p] # lastRx[p] => lastRx'[p] > lastRx[p]
<1>0. Types
  BY DEF CableInv, Plugging
<1>1. ASSUME NEW a \in Port, NEW b \in Port, Connect(a, b)
      PROVE  CableInv' /\ lastRx' = lastRx
  BY <1>1, ConnectInv DEF Connect
<1>2. ASSUME NEW id \in LinkId, Disconnect(id)
      PROVE  CableInv' /\ lastRx' = lastRx
  BY <1>2, DisconnectInv DEF Disconnect
<1>3. ASSUME NEW id \in LinkId, NEW up \in BOOLEAN, SetLinkState(id, up)
      PROVE  CableInv' /\ lastRx' = lastRx
  <2>1. queue' = queue /\ queue \in [now : SimTime, next_sequence : Sequence,
                                     pending : SUBSET ScheduledEvent]
    BY <1>0, <1>3 DEF SetLinkState, Types
  <2> QED
    BY <1>3, <2>1, SetUpInv DEF SetLinkState
<1>4. ASSUME NEW id \in LinkId, NEW up \in BOOLEAN, NEW time \in SimTime,
             ScheduleLinkState(id, up, time)
      PROVE  CableInv' /\ lastRx' = lastRx
  <2>1. [kind |-> "state", link |-> id, up |-> up] \in StateEvent \cup TimerEvent
    BY DEF StateEvent
  <2> QED
    BY <1>4, <2>1, ScheduleOtherInv DEF ScheduleLinkState
<1>5. ASSUME NEW time \in SimTime, ScheduleTimer(time)
      PROVE  CableInv' /\ lastRx' = lastRx
  <2>1. [kind |-> "timer"] \in StateEvent \cup TimerEvent
    BY DEF TimerEvent
  <2> QED
    BY <1>5, <2>1, ScheduleOtherInv DEF ScheduleTimer
<1>6. ASSUME NEW p \in Port, NEW up \in BOOLEAN, EditAdmin(p, up)
      PROVE  CableInv' /\ lastRx' = lastRx
  BY <1>6, EditAdminInv DEF EditAdmin
<1>7. ASSUME NEW p \in Port, NEW serialization \in Serialization,
             NEW sample \in 0 .. 2 * Jitter, NEW lost \in BOOLEAN,
             Transmit(p, serialization, sample, lost)
      PROVE  CableInv' /\ lastRx' = lastRx
  BY <1>7, TransmitInv, ZenonT(40) DEF Transmit
<1>8. CASE StepFrame
  BY <1>8, StepFrameInv
<1>9. CASE StepLinkState
  <2>1. PICK x \in queue.pending :
          /\ queue' = Popped(queue, x)
          /\ x.event.kind = "state"
          /\ IF x.event.link \in live
             THEN RefreshCarriers(live, [link EXCEPT ![x.event.link].up = x.event.up],
                                  runtime, admin, carrier)
             ELSE UNCHANGED <<link, runtime, carrier>>
          /\ live' = live /\ NoteCrossing
          /\ ports' = ports /\ next_link_id' = next_link_id
          /\ admin' = admin /\ lastRx' = lastRx
    BY <1>9 DEF StepLinkState
  <2>2. /\ queue' \in [now : SimTime, next_sequence : Sequence,
                       pending : SUBSET ScheduledEvent]
        /\ queue'.pending \subseteq queue.pending
        /\ queue'.next_sequence = queue.next_sequence
    BY <1>0, <2>1, PoppedQueue
  <2>3. x.event.up \in BOOLEAN
    BY <1>0, <2>1 DEF Types, ScheduledEvent, Event, FrameEvent, StateEvent, TimerEvent
  <2>4. CASE x.event.link \in live
    BY <2>1, <2>2, <2>3, <2>4, SetUpInv
  <2>5. CASE x.event.link \notin live
    <3>1. /\ link' = link /\ runtime' = runtime /\ carrier' = carrier
          /\ crossed' = crossed \cup CutOff(queue', live', link')
      BY <2>1, <2>5 DEF NoteCrossing
    <3>2. crossed' \in SUBSET Sequence
      BY <1>0, <2>2, <3>1 DEF CutOff, InFlight, ScheduledEvent, Types
    <3>3. Types'
      BY <1>0, <2>1, <2>2, <3>1, <3>2 DEF Types
    <3>4. Frames'
      <4>1. Frames /\ next_link_id' >= next_link_id
        BY <1>0, <2>1 DEF CableInv, Types
      <4> QED
        BY <1>0, <2>1, <2>2, <3>1, <3>3, <4>1, CutKeepsFrames
    <3>5. PortsAgree' /\ LiveUsed' /\ ActiveEnabled' /\ CarrierActive'
      BY <2>1, <3>1 DEF CableInv, Plugging, PortsAgree, LiveUsed, ActiveEnabled,
         CarrierActive
    <3> QED
      BY <2>1, <3>3, <3>4, <3>5 DEF CableInv, Plugging
  <2> QED
    BY <2>1, <2>4, <2>5
<1>10. CASE StepTimer
  <2>1. PICK x \in queue.pending :
          /\ queue' = Popped(queue, x)
          /\ UNCHANGED <<cables, admin, carrier, crossed, lastRx>>
    BY <1>10 DEF StepTimer
  <2> QED
    BY <1>0, <2>1, PoppedQueue, FewerEventsInv
<1>11. ASSUME NEW time \in SimTime, AdvanceTo(time)
       PROVE  CableInv' /\ lastRx' = lastRx
  <2>1. /\ queue' \in [now : SimTime, next_sequence : Sequence,
                       pending : SUBSET ScheduledEvent]
        /\ queue'.pending = queue.pending
        /\ queue'.next_sequence = queue.next_sequence
    BY <1>0, <1>11 DEF AdvanceTo, Advanced, Types
  <2> QED
    BY <1>11, <2>1, FewerEventsInv DEF AdvanceTo
<1>12. CASE UNCHANGED vars
  <2>1. /\ queue' = queue /\ queue \in [now : SimTime, next_sequence : Sequence,
                                        pending : SUBSET ScheduledEvent]
    BY <1>0, <1>12 DEF vars, Types
  <2> QED
    BY <1>12, <2>1, FewerEventsInv DEF vars
<1> QED
  BY <1>1, <1>2, <1>3, <1>4, <1>5, <1>6, <1>7, <1>8, <1>9, <1>10, <1>11, <1>12 DEF Next

\* The invariant holds of every lab that can be reached.
THEOREM CableInvariant == Spec => []CableInv
<1> QED BY InitInv, NextInv, PTL DEF Spec

\* The state of the cables, transmitters and queue keeps its types, the
\* reservations of admit included.
THEOREM CableTypeOK == Spec => []TypeOK
<1>1. CableInv => TypeOK
  BY DEF CableInv, Plugging, Types, TypeOK, ScheduledEvent, Event
<1> QED BY <1>1, CableInvariant, PTL

\* The hand-maintained maps links and ports never disagree.
THEOREM CablePortsAgree == Spec => []PortsAgree
<1>1. CableInv => PortsAgree
  BY DEF CableInv, Plugging
<1> QED BY <1>1, CableInvariant, PTL

\* Carrier is always what the cable and both administrative states say.
THEOREM CableCarrierCoherent == Spec => []CarrierCoherent
<1>1. CableInv => CarrierCoherent
  BY DEF CableInv, Plugging, CarrierActive, ActiveEnabled, PortsAgree, CarrierCoherent
<1> QED BY <1>1, CableInvariant, PTL

\* No frame that saw its cable down or gone is ever accepted.
THEOREM CableNoCrossOutage == Spec => []NoCrossOutage
<1>1. CableInv => NoCrossOutage
  BY DEF CableInv, Frames
<1> QED BY <1>1, CableInvariant, PTL

\* Every port accepts frames in the order in which they were sent to it.
THEOREM CableFifoDelivery == Spec => FifoDelivery
<1>1. CableInv /\ [Next]_vars =>
        [\A p \in Port : lastRx'[p] # lastRx[p] => lastRx'[p] > lastRx[p]]_vars
  BY NextInv
<1> QED BY <1>1, CableInvariant, PTL DEF Spec, FifoDelivery

-----------------------------------------------------------------------------
(* The books of the transmitters *)

\* The frames that a direction has sent and whose end it has not yet counted.
Owed(rt) ==
    rt.tx_packets - (rt.rx_packets + rt.loss_drops + rt.changed_drops + rt.refused)

\* The frames in flight that p sent over cable id.
InDirection(q, id, p) ==
    {x \in InFlight(q) : x.event.link = id /\ x.event.source = p}

\* A cable that is still to be plugged owes nothing.
UnusedEven ==
    \A id \in LinkId, s \in Side : id > next_link_id => Owed(runtime[id][s]) = 0

\* A frame of a cable that is plugged, current or not, was sent by one end of it.
FromAnEnd ==
    \A x \in InFlight(queue) :
        x.event.link \in live => IsEndpoint(link[x.event.link], x.event.source)

Balanced ==
    \A id \in live, s \in Side :
        Owed(runtime[id][s]) =
            Cardinality(InDirection(queue, id, link[id].endpoint[s]))

Books == IsFiniteSet(queue.pending) /\ UnusedEven /\ FromAnEnd /\ Balanced

\* What a reset keeps and what the outcome of a frame adds.
LEMMA OwedReset ==
    ASSUME NEW rt \in Runtime
    PROVE  Owed(Reset(rt)) = Owed(rt)
BY DEF Owed, Reset, Runtime

LEMMA OwedCounted ==
    ASSUME NEW rt \in Runtime, NEW outcome \in {"rx", "loss", "changed", "refused"}
    PROVE  Owed(Counted(rt, outcome)) = Owed(rt) - 1
<1>1. Counted(rt, outcome) =
        [rt EXCEPT !.rx_packets = IF outcome = "rx" THEN rt.rx_packets + 1 ELSE rt.rx_packets,
                   !.loss_drops = IF outcome = "loss" THEN rt.loss_drops + 1 ELSE rt.loss_drops,
                   !.changed_drops = IF outcome = "changed" THEN rt.changed_drops + 1 ELSE rt.changed_drops,
                   !.refused = IF outcome = "refused" THEN rt.refused + 1 ELSE rt.refused]
  BY DEF Counted, Runtime
<1> DEFINE c == Counted(rt, outcome)
<1>2. /\ c.tx_packets = rt.tx_packets
      /\ c.rx_packets = IF outcome = "rx" THEN rt.rx_packets + 1 ELSE rt.rx_packets
      /\ c.loss_drops = IF outcome = "loss" THEN rt.loss_drops + 1 ELSE rt.loss_drops
      /\ c.changed_drops = IF outcome = "changed" THEN rt.changed_drops + 1 ELSE rt.changed_drops
      /\ c.refused = IF outcome = "refused" THEN rt.refused + 1 ELSE rt.refused
  BY <1>1 DEF Runtime
<1>3. /\ rt.tx_packets \in Nat /\ rt.rx_packets \in Nat /\ rt.loss_drops \in Nat
      /\ rt.changed_drops \in Nat /\ rt.refused \in Nat
  BY DEF Runtime
<1> HIDE DEF c
<1>4. Owed(c) = Owed(rt) - 1
  BY <1>2, <1>3 DEF Owed
<1> QED
  BY <1>4 DEF c

\* A step that sends and delivers no frame keeps the books, if it keeps the
\* counters of the cables that stay and plugs a cable of which nothing is in
\* flight.
LEMMA BooksKept ==
    ASSUME Books, live' \subseteq LinkId,
           IsFiniteSet(queue'.pending), InFlight(queue') = InFlight(queue),
           next_link_id \in Int, next_link_id' \in Int, next_link_id' >= next_link_id,
           \A id \in LinkId, s \in Side :
              (id \in live /\ id \in live') \/ id > next_link_id =>
                 Owed(runtime'[id][s]) = Owed(runtime[id][s]),
           \A id \in live' : id \in live => link'[id].endpoint = link[id].endpoint,
           \A id \in live' : id \notin live => id > next_link_id,
           \A x \in InFlight(queue) : x.event.link \in Int /\ x.event.link <= next_link_id
    PROVE  Books'
<1>1. UnusedEven'
  <2> SUFFICES ASSUME NEW id \in LinkId, NEW s \in Side, id > next_link_id'
               PROVE  Owed(runtime'[id][s]) = 0
    BY DEF UnusedEven, Owed
  <2>1. id > next_link_id
    BY DEF LinkId
  <2> QED
    BY <2>1 DEF Books, UnusedEven
<1>2. FromAnEnd'
  <2> SUFFICES ASSUME NEW x \in InFlight(queue'), x.event.link \in live'
               PROVE  IsEndpoint(link'[x.event.link], x.event.source)
    BY DEF FromAnEnd
  <2>1. x \in InFlight(queue) /\ x.event.link \in Int /\ x.event.link <= next_link_id
    OBVIOUS
  <2>2. x.event.link \in live
    BY <2>1
  <2> QED
    BY <2>1, <2>2 DEF Books, FromAnEnd, IsEndpoint
<1>3. Balanced'
  <2> SUFFICES ASSUME NEW id \in live', NEW s \in Side
               PROVE  Owed(runtime'[id][s]) =
                         Cardinality(InDirection(queue', id, link'[id].endpoint[s]))
    BY DEF Balanced, Owed
  <2>1. CASE id \in live
    <3>1. InDirection(queue', id, link'[id].endpoint[s])
            = InDirection(queue, id, link[id].endpoint[s])
      BY <2>1 DEF InDirection
    <3> QED
      BY <2>1, <3>1 DEF Books, Balanced
  <2>2. CASE id \notin live
    <3>1. id \in LinkId /\ id > next_link_id /\ id \in Int
      BY <2>2 DEF LinkId
    <3>2. InDirection(queue', id, link'[id].endpoint[s]) = {}
      BY <3>1 DEF InDirection
    <3>3. Owed(runtime'[id][s]) = 0
      BY <3>1 DEF Books, UnusedEven
    <3> QED
      BY <3>2, <3>3, FS_EmptySet
  <2> QED
    BY <2>1, <2>2
<1> QED
  BY <1>1, <1>2, <1>3 DEF Books

\* refresh_carriers keeps the counters of the runtimes it is given.
LEMMA RefreshOwes ==
    ASSUME NEW keys, NEW links, NEW runtimes \in [LinkId -> [Side -> Runtime]],
           NEW adm, NEW car, RefreshCarriers(keys, links, runtimes, adm, car)
    PROVE  /\ \A id \in LinkId, s \in Side :
                 Owed(runtime'[id][s]) = Owed(runtimes[id][s])
           /\ \A id \in LinkId : link'[id].endpoint = links[id].endpoint
<1>1. ASSUME NEW id \in LinkId, NEW s \in Side
      PROVE  Owed(runtime'[id][s]) = Owed(runtimes[id][s])
  <2>1. runtime'[id][s] = Reset(runtimes[id][s]) \/ runtime'[id][s] = runtimes[id][s]
    BY DEF RefreshCarriers
  <2> QED
    BY <2>1, OwedReset
<1>2. \A id \in LinkId : link'[id].endpoint = links[id].endpoint
  BY DEF RefreshCarriers, Refreshed
<1> QED
  BY <1>1, <1>2

\* Popping an event takes it away from the frames in flight.
LEMMA PoppedFlight ==
    ASSUME Types, Books, NEW x \in queue.pending, queue' = Popped(queue, x)
    PROVE  /\ IsFiniteSet(queue'.pending)
           /\ InFlight(queue') = InFlight(queue) \ {x}
<1>1. queue'.pending = queue.pending \ {x}
  BY DEF Types, Popped
<1> QED
  BY <1>1, FS_RemoveElement DEF Books, InFlight

\* Inserting an event that is no frame leaves the frames in flight.
LEMMA ScheduledFlight ==
    ASSUME Types, Books, NEW time, NEW e, queue' = Scheduled(queue, time, e)
    PROVE  /\ IsFiniteSet(queue'.pending)
           /\ InFlight(queue') =
                 IF e.kind = "frame"
                 THEN InFlight(queue) \cup
                        {[time |-> time, sequence |-> queue.next_sequence, event |-> e]}
                 ELSE InFlight(queue)
<1> DEFINE x == [time |-> time, sequence |-> queue.next_sequence, event |-> e]
<1>1. queue'.pending = queue.pending \cup {x} /\ x.event = e
  BY DEF Types, Scheduled
<1> HIDE DEF x
<1>2. IsFiniteSet(queue'.pending)
  BY <1>1, FS_AddElement DEF Books
<1>3. InFlight(queue') = IF e.kind = "frame" THEN InFlight(queue) \cup {x}
                                            ELSE InFlight(queue)
  BY <1>1 DEF InFlight
<1> QED
  BY <1>2, <1>3 DEF x

\* A frame that is admitted is one more sent and one more in flight.
LEMMA TransmitBooks ==
    ASSUME CableInv, Books, NEW p \in Port, NEW serialization \in Serialization,
           NEW sample \in 0 .. 2 * Jitter, NEW lost \in BOOLEAN,
           Transmit(p, serialization, sample, lost), Types'
    PROVE  Books'
<1> DEFINE id == ports[p]
           side == SideOf(link[id], p)
           rt == runtime[id][side]
<1>0. Types /\ PortsAgree /\ SequencesFresh
  BY DEF CableInv, Plugging, Frames
<1>1. PICK time, e, waiting, finish :
        /\ queue' = Scheduled(queue, time, e)
        /\ e = [kind |-> "frame", link |-> id, generation |-> link[id].generation,
                interface |-> link[id].endpoint[Peer(side)], source |-> p, lost |-> lost]
        /\ runtime' = [runtime EXCEPT ![id][side] =
                [rt EXCEPT !.finishes = Append(waiting, finish),
                           !.last_arrival = time,
                           !.tx_packets = @ + 1]]
  BY DEF Transmit
<1>2. id # NoCable /\ UNCHANGED <<live, link, ports, next_link_id>>
  BY DEF Transmit
<1>3. /\ id \in live /\ id \in LinkId /\ IsEndpoint(link[id], p)
      /\ link[id].endpoint["a"] # link[id].endpoint["b"]
  BY <1>0, <1>2 DEF PortsAgree, Types
<1>4. side \in Side /\ link[id].endpoint[side] = p
  BY <1>3 DEF SideOf, IsEndpoint, Side
<1>5. rt \in Runtime
  BY <1>0, <1>3, <1>4 DEF Types
<1> DEFINE x == [time |-> time, sequence |-> queue.next_sequence, event |-> e]
<1>6. /\ x.event.kind = "frame" /\ x.event.link = id /\ x.event.source = p
      /\ x.sequence = queue.next_sequence
  BY <1>1
<1>7. x \notin InFlight(queue)
  BY <1>0, <1>6 DEF SequencesFresh, InFlight, Types, Sequence
<1>8. IsFiniteSet(queue'.pending) /\ InFlight(queue') = InFlight(queue) \cup {x}
  <2>1. e.kind = "frame"
    BY <1>1
  <2> QED
    BY <1>0, <1>1, <2>1, ScheduledFlight
<1>9. \A i \in LinkId, s \in Side :
         Owed(runtime'[i][s]) = IF i = id /\ s = side THEN Owed(runtime[i][s]) + 1
                                                      ELSE Owed(runtime[i][s])
  <2>1. runtime'[id][side] =
          [rt EXCEPT !.finishes = Append(waiting, finish), !.last_arrival = time,
                     !.tx_packets = rt.tx_packets + 1]
    BY <1>0, <1>1, <1>3, <1>4, <1>5 DEF Types, Runtime
  <2> DEFINE new == runtime'[id][side]
  <2>2. /\ new.tx_packets = rt.tx_packets + 1
        /\ new.rx_packets = rt.rx_packets /\ new.loss_drops = rt.loss_drops
        /\ new.changed_drops = rt.changed_drops /\ new.refused = rt.refused
    BY <1>5, <2>1 DEF Runtime
  <2>3. Owed(new) = Owed(rt) + 1
    <3> HIDE DEF new, rt
    <3> QED
      BY <1>5, <2>2 DEF Owed, Runtime
  <2>4. ASSUME NEW i \in LinkId, NEW s \in Side, ~(i = id /\ s = side)
        PROVE  runtime'[i][s] = runtime[i][s]
    BY <1>0, <1>1, <1>3, <1>4, <2>4 DEF Types
  <2> QED
    BY <2>3, <2>4
<1> HIDE DEF x, side, rt, id
<1>10. UnusedEven'
  <2>1. id <= next_link_id /\ id \in Int /\ next_link_id \in Int
    BY <1>0, <1>3 DEF CableInv, Plugging, LiveUsed, LinkId, Types
  <2>2. \A i \in LinkId : i > next_link_id => i # id
    BY <2>1 DEF LinkId
  <2>3. \A i \in LinkId, s \in Side : i > next_link_id => Owed(runtime'[i][s]) = 0
    BY <1>9, <2>2 DEF Books, UnusedEven
  <2> QED
    BY <1>2, <2>3 DEF UnusedEven, Owed
<1>11. FromAnEnd'
  <2> SUFFICES ASSUME NEW y \in InFlight(queue'), y.event.link \in live
               PROVE  IsEndpoint(link[y.event.link], y.event.source)
    BY <1>2 DEF FromAnEnd
  <2> QED
    BY <1>3, <1>6, <1>8 DEF Books, FromAnEnd
<1>12. Balanced'
  <2> SUFFICES ASSUME NEW i \in live, NEW s \in Side
               PROVE  Owed(runtime'[i][s]) =
                         Cardinality(InDirection(queue', i, link[i].endpoint[s]))
    BY <1>2 DEF Balanced, Owed
  <2> DEFINE S == InDirection(queue, i, link[i].endpoint[s])
  <2>1. i \in LinkId /\ Owed(runtime[i][s]) = Cardinality(S)
    BY <1>0 DEF Books, Balanced, Types
  <2>2. IsFiniteSet(S)
    <3>1. S \in SUBSET queue.pending
      BY DEF InDirection, InFlight
    <3> QED
      BY <3>1, FS_Subset DEF Books
  <2>3. CASE i = id /\ s = side
    <3>1. InDirection(queue', i, link[i].endpoint[s]) = S \cup {x} /\ x \notin S
      BY <1>4, <1>6, <1>7, <1>8, <2>3 DEF InDirection
    <3> HIDE DEF S
    <3>2. Cardinality(S \cup {x}) = Cardinality(S) + 1
      BY <2>2, <3>1, FS_AddElement
    <3> QED
      BY <1>9, <2>1, <2>3, <3>1, <3>2
  <2>4. CASE ~(i = id /\ s = side)
    <3>1. i = id => link[i].endpoint[s] # p
      BY <1>3, <1>4, <2>4 DEF Side
    <3>2. InDirection(queue', i, link[i].endpoint[s]) = S
      BY <1>6, <1>8, <3>1 DEF InDirection
    <3> QED
      BY <1>9, <2>1, <2>4, <3>2
  <2> QED
    BY <2>3, <2>4
<1> QED
  BY <1>8, <1>10, <1>11, <1>12 DEF Books

\* A frame that arrives is counted once, in its direction, whatever its end.
LEMMA StepFrameBooks ==
    ASSUME CableInv, Books, StepFrame, Types'
    PROVE  Books'
<1>0. Types /\ PortsAgree
  BY DEF CableInv, Plugging
<1>1. PICK x \in queue.pending, outcome \in {"rx", "loss", "changed", "refused"} :
        /\ x.event.kind = "frame"
        /\ queue' = Popped(queue, x)
        /\ runtime' = IF x.event.link \notin live THEN runtime
              ELSE [runtime EXCEPT
                      ![x.event.link][CountOn(link[x.event.link], x.event.source)]
                         = Counted(@, outcome)]
        /\ UNCHANGED <<live, link, next_link_id>>
  BY DEF StepFrame, Outcome
<1>2. IsFiniteSet(queue'.pending) /\ InFlight(queue') = InFlight(queue) \ {x}
  BY <1>0, <1>1, PoppedFlight
<1>3. x \in InFlight(queue)
  BY <1>1 DEF InFlight
<1> DEFINE id == x.event.link
           side == CountOn(link[id], x.event.source)
<1>4. ASSUME id \in live
      PROVE  /\ id \in LinkId /\ side \in Side /\ id <= next_link_id
             /\ link[id].endpoint[side] = x.event.source
             /\ \A s \in Side : s # side => link[id].endpoint[s] # x.event.source
  <2>1. IsEndpoint(link[id], x.event.source)
    BY <1>3, <1>4 DEF Books, FromAnEnd
  <2>2. link[id].endpoint["a"] # link[id].endpoint["b"]
    BY <1>0, <1>4 DEF PortsAgree
  <2>3. id \in LinkId /\ id <= next_link_id
    BY <1>0, <1>4 DEF Types, CableInv, Plugging, LiveUsed
  <2> QED
    BY <2>1, <2>2, <2>3 DEF CountOn, SideOf, IsEndpoint, Side
<1>5. \A i \in LinkId, s \in Side :
         Owed(runtime'[i][s]) =
            IF id \in live /\ i = id /\ s = side THEN Owed(runtime[i][s]) - 1
                                                 ELSE Owed(runtime[i][s])
  <2>1. CASE id \notin live
    BY <1>1, <2>1
  <2>2. CASE id \in live
    <3>1. runtime'[id][side] = Counted(runtime[id][side], outcome)
      BY <1>0, <1>1, <1>4, <2>2 DEF Types
    <3>2. runtime[id][side] \in Runtime
      BY <1>0, <1>4, <2>2 DEF Types
    <3>3. Owed(runtime'[id][side]) = Owed(runtime[id][side]) - 1
      BY <3>1, <3>2, OwedCounted
    <3>4. ASSUME NEW i \in LinkId, NEW s \in Side, ~(i = id /\ s = side)
          PROVE  runtime'[i][s] = runtime[i][s]
      BY <1>0, <1>1, <1>4, <2>2, <3>4 DEF Types
    <3> QED
      BY <2>2, <3>3, <3>4
  <2> QED
    BY <2>1, <2>2
<1> HIDE DEF side
<1>6. UnusedEven'
  <2>1. next_link_id \in Int /\ \A i \in LinkId : i \in Int
    BY <1>0 DEF Types, LinkId
  <2>2. \A i \in LinkId : id \in live /\ i > next_link_id => i # id
    BY <1>4, <2>1
  <2>3. \A i \in LinkId, s \in Side : i > next_link_id => Owed(runtime'[i][s]) = 0
    BY <1>5, <2>2 DEF Books, UnusedEven
  <2> QED
    BY <1>1, <2>3 DEF UnusedEven, Owed
<1>7. FromAnEnd'
  BY <1>1, <1>2 DEF Books, FromAnEnd
<1>8. Balanced'
  <2> SUFFICES ASSUME NEW i \in live, NEW s \in Side
               PROVE  Owed(runtime'[i][s]) =
                         Cardinality(InDirection(queue', i, link[i].endpoint[s]))
    BY <1>1 DEF Balanced, Owed
  <2> DEFINE S == InDirection(queue, i, link[i].endpoint[s])
  <2>1. i \in LinkId /\ Owed(runtime[i][s]) = Cardinality(S)
    BY <1>0 DEF Books, Balanced, Types
  <2>2. IsFiniteSet(S)
    <3>1. S \in SUBSET queue.pending
      BY DEF InDirection, InFlight
    <3> QED
      BY <3>1, FS_Subset DEF Books
  <2>3. CASE i = id /\ s = side
    <3>1. InDirection(queue', i, link[i].endpoint[s]) = S \ {x} /\ x \in S
      BY <1>2, <1>3, <1>4, <2>3 DEF InDirection
    <3> HIDE DEF S
    <3>2. Cardinality(S \ {x}) = Cardinality(S) - 1
      BY <2>2, <3>1, FS_RemoveElement
    <3> QED
      BY <1>5, <2>1, <2>3, <3>1, <3>2
  <2>4. CASE ~(i = id /\ s = side)
    <3>1. x \notin S
      BY <1>4, <2>4 DEF InDirection
    <3>2. InDirection(queue', i, link[i].endpoint[s]) = S
      BY <1>2, <3>1 DEF InDirection
    <3> QED
      BY <1>5, <2>1, <2>4, <3>2
  <2> QED
    BY <2>3, <2>4
<1> QED
  BY <1>2, <1>6, <1>7, <1>8 DEF Books

\* Every step of the lab keeps the books.
LEMMA NextBooks ==
    ASSUME CableInv, CableInv', Books, [Next]_vars
    PROVE  Books'
<1>0. /\ Types /\ Types'
      /\ next_link_id \in Int /\ next_link_id' \in Int
      /\ live' \subseteq LinkId /\ live \subseteq LinkId
      /\ IsFiniteSet(queue.pending)
  BY DEF CableInv, Plugging, Types, Books
<1>1. \A x \in InFlight(queue) : x.event.link \in Int /\ x.event.link <= next_link_id
  BY <1>0 DEF CableInv, Frames, FromThePast, InFlight, Types, ScheduledEvent, Event,
     FrameEvent, StateEvent, TimerEvent, LinkId
<1>2. ASSUME NEW a \in Port, NEW b \in Port, Connect(a, b) PROVE Books'
  <2>1. /\ next_link_id' = next_link_id + 1 /\ live' = live \cup {next_link_id + 1}
        /\ queue' = queue
    BY <1>2 DEF Connect, NewId
  <2>2. /\ \A id \in LinkId, s \in Side : Owed(runtime'[id][s]) = Owed(runtime[id][s])
        /\ \A id \in LinkId : link'[id].endpoint
                                = [link EXCEPT ![NewId] = NewLink(a, b)][id].endpoint
    <3>1. runtime \in [LinkId -> [Side -> Runtime]]
      BY <1>0 DEF Types
    <3> QED
      BY <1>2, <3>1, RefreshOwes DEF Connect
  <2>3. \A id \in live : id # NewId /\ link'[id].endpoint = link[id].endpoint
    <3>1. \A id \in live : id <= next_link_id /\ id \in Int
      BY <1>0 DEF CableInv, Plugging, LiveUsed, LinkId
    <3> QED
      BY <1>0, <2>2, <3>1 DEF NewId, Types
  <2> QED
    BY <1>0, <1>1, <2>1, <2>2, <2>3, BooksKept
<1>3. ASSUME NEW id \in LinkId, Disconnect(id) PROVE Books'
  <2>1. live' = live \ {id} /\ queue' = queue /\ next_link_id' = next_link_id /\ id \in live
    BY <1>3 DEF Disconnect
  <2> DEFINE R == [runtime EXCEPT ![id] = [s \in Side |-> IdleRuntime]]
  <2>2. R \in [LinkId -> [Side -> Runtime]]
    BY <1>0, IdleRuntimeType DEF Types
  <2>3. /\ \A i \in LinkId, s \in Side : Owed(runtime'[i][s]) = Owed(R[i][s])
        /\ \A i \in LinkId : link'[i].endpoint = [link EXCEPT ![id] = Absent][i].endpoint
    <3>1. RefreshCarriers(live', [link EXCEPT ![id] = Absent], R, admin, Unplugged(id))
      BY <1>3 DEF Disconnect
    <3> HIDE DEF R
    <3> QED
      BY <2>2, <3>1, RefreshOwes
  <2>4. id <= next_link_id /\ \A i \in LinkId : i > next_link_id => i # id
    BY <1>0, <2>1 DEF CableInv, Plugging, LiveUsed, LinkId
  <2>5. \A i \in LinkId, s \in Side :
           i # id => /\ Owed(runtime'[i][s]) = Owed(runtime[i][s])
                     /\ link'[i].endpoint = link[i].endpoint
    BY <1>0, <2>3 DEF Types
  <2> QED
    BY <1>0, <1>1, <2>1, <2>4, <2>5, BooksKept DEF Side
<1>4. ASSUME NEW id \in live, NEW up \in BOOLEAN, live' = live, next_link_id' = next_link_id,
             IsFiniteSet(queue'.pending), InFlight(queue') = InFlight(queue),
             RefreshCarriers(live, [link EXCEPT ![id].up = up], runtime, admin, carrier)
      PROVE  Books'
  <2> DEFINE L == [link EXCEPT ![id].up = up]
  <2>1. \A i \in LinkId : L[i].endpoint = link[i].endpoint
    BY <1>0 DEF Types, Link
  <2>2. runtime \in [LinkId -> [Side -> Runtime]]
    BY <1>0 DEF Types
  <2>3. RefreshCarriers(live, L, runtime, admin, carrier)
    BY <1>4
  <2> HIDE DEF L
  <2>4. /\ \A i \in LinkId, s \in Side : Owed(runtime'[i][s]) = Owed(runtime[i][s])
        /\ \A i \in LinkId : link'[i].endpoint = link[i].endpoint
    BY <2>1, <2>2, <2>3, RefreshOwes
  <2> QED
    BY <1>0, <1>1, <1>4, <2>4, BooksKept
<1>5. ASSUME NEW id \in LinkId, NEW up \in BOOLEAN, SetLinkState(id, up) PROVE Books'
  BY <1>0, <1>4, <1>5 DEF SetLinkState
<1>6. ASSUME NEW p \in Port, NEW up \in BOOLEAN, EditAdmin(p, up) PROVE Books'
  <2>1. runtime \in [LinkId -> [Side -> Runtime]]
    BY <1>0 DEF Types
  <2>2. /\ \A i \in LinkId, s \in Side : Owed(runtime'[i][s]) = Owed(runtime[i][s])
        /\ \A i \in LinkId : link'[i].endpoint = link[i].endpoint
    BY <1>6, <2>1, RefreshOwes DEF EditAdmin
  <2>3. live' = live /\ queue' = queue /\ next_link_id' = next_link_id
    BY <1>6 DEF EditAdmin
  <2> QED
    BY <1>0, <1>1, <2>2, <2>3, BooksKept
<1>7. ASSUME UNCHANGED <<live, link, runtime, next_link_id>>,
             IsFiniteSet(queue'.pending), InFlight(queue') = InFlight(queue)
      PROVE  Books'
  BY <1>0, <1>1, <1>7, BooksKept
<1>8. ASSUME NEW id \in LinkId, NEW up \in BOOLEAN, NEW time \in SimTime,
             ScheduleLinkState(id, up, time)
      PROVE  Books'
  <2>1. PICK e : e.kind = "state" /\ queue' = Scheduled(queue, time, e)
    BY <1>8 DEF ScheduleLinkState
  <2>2. IsFiniteSet(queue'.pending) /\ InFlight(queue') = InFlight(queue)
    BY <1>0, <2>1, ScheduledFlight
  <2> QED
    BY <1>7, <1>8, <2>2 DEF ScheduleLinkState, cables
<1>9. ASSUME NEW time \in SimTime, ScheduleTimer(time) PROVE Books'
  <2>1. PICK e : e.kind = "timer" /\ queue' = Scheduled(queue, time, e)
    BY <1>9 DEF ScheduleTimer
  <2>2. IsFiniteSet(queue'.pending) /\ InFlight(queue') = InFlight(queue)
    BY <1>0, <2>1, ScheduledFlight
  <2> QED
    BY <1>7, <1>9, <2>2 DEF ScheduleTimer, cables
<1>10. ASSUME NEW p \in Port, NEW serialization \in Serialization,
              NEW sample \in 0 .. 2 * Jitter, NEW lost \in BOOLEAN,
              Transmit(p, serialization, sample, lost)
       PROVE  Books'
  BY <1>0, <1>10, TransmitBooks
<1>11. CASE StepFrame
  BY <1>0, <1>11, StepFrameBooks
<1>12. CASE StepLinkState
  <2>1. PICK x \in queue.pending :
          /\ x.event.kind = "state" /\ queue' = Popped(queue, x)
          /\ IF x.event.link \in live
             THEN RefreshCarriers(live, [link EXCEPT ![x.event.link].up = x.event.up],
                                  runtime, admin, carrier)
             ELSE UNCHANGED <<link, runtime, carrier>>
          /\ live' = live /\ next_link_id' = next_link_id
    BY <1>12 DEF StepLinkState
  <2>2. IsFiniteSet(queue'.pending) /\ InFlight(queue') = InFlight(queue)
    <3>1. x \notin InFlight(queue)
      BY <2>1 DEF InFlight
    <3> QED
      BY <1>0, <2>1, <3>1, PoppedFlight
  <2>3. x.event.up \in BOOLEAN
    BY <1>0, <2>1 DEF Types, ScheduledEvent, Event, FrameEvent, StateEvent, TimerEvent
  <2> QED
    BY <1>4, <1>7, <2>1, <2>2, <2>3
<1>13. CASE StepTimer
  <2>1. PICK x \in queue.pending :
          /\ x.event.kind = "timer" /\ queue' = Popped(queue, x)
          /\ UNCHANGED cables
    BY <1>13 DEF StepTimer
  <2>2. x \notin InFlight(queue)
    BY <2>1 DEF InFlight
  <2> QED
    BY <1>0, <1>7, <2>1, <2>2, PoppedFlight DEF cables
<1>14. ASSUME NEW time \in SimTime, AdvanceTo(time) PROVE Books'
  <2>1. queue'.pending = queue.pending
    BY <1>0, <1>14 DEF AdvanceTo, Advanced, Types
  <2> QED
    BY <1>0, <1>7, <1>14, <2>1 DEF AdvanceTo, cables, InFlight
<1>15. CASE UNCHANGED vars
  BY <1>0, <1>7, <1>15 DEF vars, cables
<1> QED
  BY <1>2, <1>3, <1>5, <1>6, <1>8, <1>9, <1>10, <1>11, <1>12, <1>13, <1>14, <1>15 DEF Next

\* The lab starts without cables and without events.
LEMMA InitBooks == Init => Books
<1> SUFFICES ASSUME Init PROVE Books
  OBVIOUS
<1>1. queue.pending = {} /\ InFlight(queue) = {} /\ live = {}
  BY DEF Init, EmptyQueue, InFlight
<1>2. UnusedEven
  BY DEF Init, UnusedEven, IdleRuntime, Owed
<1> QED
  BY <1>1, <1>2, FS_EmptySet DEF Books, FromAnEnd, Balanced

\* The counters of every plugged cable account for every frame sent over it: it
\* is in flight or counted once, through cuts, restorations and replugging.
THEOREM CableAccounting == Spec => []Accounting
<1>1. CableInv /\ Books => Accounting
  <2> SUFFICES ASSUME CableInv, Books, NEW id \in live, NEW s \in Side
               PROVE  runtime[id][s].tx_packets =
                        runtime[id][s].rx_packets + runtime[id][s].loss_drops
                        + runtime[id][s].changed_drops + runtime[id][s].refused
                        + Cardinality(InDirection(queue, id, link[id].endpoint[s]))
    BY DEF Accounting, InDirection
  <2>1. runtime[id][s] \in Runtime
    BY DEF CableInv, Plugging, Types
  <2>2. Owed(runtime[id][s]) = Cardinality(InDirection(queue, id, link[id].endpoint[s]))
    BY DEF Books, Balanced
  <2> HIDE DEF Side
  <2> QED
    BY <2>1, <2>2 DEF Owed, Runtime
<1>2. CableInv /\ CableInv' /\ Books /\ [Next]_vars => Books'
  BY NextBooks
<1> QED
  BY <1>1, <1>2, InitBooks, CableInvariant, PTL DEF Spec

-----------------------------------------------------------------------------
(***************************************************************************)
(* The event queue by itself (EventQueue): any queue and any order of      *)
(* calls, whoever makes them.  The payloads are those of a lab; nothing    *)
(* in the queue looks at them.                                             *)
(***************************************************************************)

\* The inductive invariant: no property of the queue is inductive alone, because a
\* pop is ordered only if what is pending was ordered when it was inserted.
EventsInv == Events!TypeOK /\ Events!NothingSkipped /\ Events!AfterFired

\* Inserting one event at a time that schedule_at accepts keeps the invariant.
LEMMA ScheduledKeepsEvents ==
    ASSUME EventsInv, NEW time, NEW event \in LabEvent,
           Events!Schedulable(queue, time),
           queue' = Events!Scheduled(queue, time, event), fired' = fired
    PROVE  EventsInv'
<1>1. queue'.now = queue.now
  BY DEF EventsInv, Events!TypeOK, Events!Scheduled
<1>2. queue'.next_sequence = queue.next_sequence + 1
  BY DEF EventsInv, Events!TypeOK, Events!Scheduled
<1>3. queue'.pending = queue.pending \cup
        {[time |-> time, sequence |-> queue.next_sequence, event |-> event]}
  BY DEF EventsInv, Events!TypeOK, Events!Scheduled
<1>4. Events!TypeOK'
  <2>1. queue.next_sequence \in Events!Sequence /\ queue.next_sequence + 1 \in Events!Sequence
    BY DEF EventsInv, Events!TypeOK, Events!Schedulable, Events!Sequence
  <2>2. [time |-> time, sequence |-> queue.next_sequence, event |-> event]
          \in Events!ScheduledEvent
    BY <2>1 DEF Events!Schedulable, Events!ScheduledEvent
  <2>3. queue'.pending \in SUBSET Events!ScheduledEvent
    BY <1>3, <2>2 DEF EventsInv, Events!TypeOK
  <2>4. queue' = [now |-> queue'.now, next_sequence |-> queue'.next_sequence,
                  pending |-> queue'.pending]
    BY DEF EventsInv, Events!TypeOK, Events!Scheduled
  <2> QED
    BY <1>1, <1>2, <2>1, <2>3, <2>4 DEF EventsInv, Events!TypeOK
<1>5. Events!NothingSkipped'
  BY <1>1, <1>3 DEF EventsInv, Events!NothingSkipped, Events!Schedulable
<1>6. Events!AfterFired'
  BY <1>1, <1>2, <1>3 DEF EventsInv, Events!TypeOK, Events!AfterFired,
     Events!Before, Events!Schedulable, Events!ScheduledEvent, Events!Sequence,
     Events!SimTime
<1> QED
  BY <1>4, <1>5, <1>6 DEF EventsInv

\* The initial queue satisfies the invariant.
LEMMA InitEvents == Events!Init => EventsInv
BY DEF Events!Init, Events!EmptyQueue, Events!NeverFired, EventsInv, Events!TypeOK,
   Events!NothingSkipped, Events!AfterFired, Events!SimTime, Events!Sequence,
   Events!ScheduledEvent

\* Every operation of the queue preserves the invariant.
LEMMA NextEvents == EventsInv /\ [Events!Next]_(Events!vars) => EventsInv'
<1> SUFFICES ASSUME EventsInv, [Events!Next]_(Events!vars) PROVE EventsInv'
  OBVIOUS
<1>1. ASSUME NEW x \in Events!ScheduledEvent, Events!ScheduleAt(x.time, x.event)
      PROVE  EventsInv'
  <2>1. x.event \in LabEvent
    BY DEF Events!ScheduledEvent
  <2> QED
    BY <1>1, <2>1, ScheduledKeepsEvents DEF Events!ScheduleAt
<1>2. ASSUME NEW x \in Events!ScheduledEvent,
             NEW delay_ms \in 0 .. (MaxTime \div Events!Microseconds),
             Events!ScheduleAfter(delay_ms, x.event)
      PROVE  EventsInv'
  <2>1. x.event \in LabEvent
    BY DEF Events!ScheduledEvent
  <2> QED
    BY <1>2, <2>1, ScheduledKeepsEvents DEF Events!ScheduleAfter
<1>3. CASE Events!Step
  <2> PICK x \in queue.pending :
        /\ Events!IsNext(queue, x)
        /\ queue' = Events!Popped(queue, x)
        /\ fired' = [time |-> x.time, sequence |-> x.sequence]
    BY <1>3 DEF Events!Step
  <2>1. queue'.now = x.time /\ queue'.next_sequence = queue.next_sequence
    BY DEF EventsInv, Events!TypeOK, Events!Popped
  <2>2. queue'.pending = queue.pending \ {x}
    BY DEF EventsInv, Events!TypeOK, Events!Popped
  <2>3. Events!TypeOK'
    BY DEF EventsInv, Events!TypeOK, Events!Popped, Events!ScheduledEvent
  <2>4. Events!NothingSkipped'
    BY <2>1, <2>2 DEF EventsInv, Events!TypeOK, Events!NothingSkipped,
       Events!IsNext, Events!Before, Events!ScheduledEvent, Events!SimTime
  <2>5. Events!AfterFired'
    BY <2>1, <2>2 DEF EventsInv, Events!TypeOK, Events!AfterFired, Events!IsNext,
       Events!Before, Events!ScheduledEvent, Events!SimTime
  <2> QED
    BY <2>3, <2>4, <2>5 DEF EventsInv
<1>4. ASSUME NEW time \in Events!SimTime, Events!AdvanceTo(time)
      PROVE  EventsInv'
  <2>1. /\ queue'.now = time
        /\ queue'.next_sequence = queue.next_sequence
        /\ queue'.pending = queue.pending
    BY <1>4 DEF EventsInv, Events!TypeOK, Events!AdvanceTo, Events!Advanced
  <2>2. Events!TypeOK'
    BY <1>4 DEF EventsInv, Events!TypeOK, Events!AdvanceTo, Events!Advanced
  <2>3. Events!NothingSkipped'
    BY <1>4, <2>1 DEF EventsInv, Events!TypeOK, Events!NothingSkipped,
       Events!AdvanceTo, Events!Idle, Events!ScheduledEvent, Events!SimTime
  <2>4. Events!AfterFired'
    BY <1>4, <2>1 DEF EventsInv, Events!TypeOK, Events!AfterFired, Events!AdvanceTo,
       Events!Idle, Events!Before, Events!ScheduledEvent, Events!SimTime
  <2> QED
    BY <2>2, <2>3, <2>4 DEF EventsInv
<1>5. CASE UNCHANGED Events!vars
  BY <1>5 DEF Events!vars, EventsInv, Events!TypeOK, Events!NothingSkipped,
     Events!AfterFired, Events!Before
<1> QED
  BY <1>1, <1>2, <1>3, <1>4, <1>5 DEF Events!Next

\* The strengthened invariant holds of every state the queue can reach.
THEOREM EventQueueInvariant == Events!Spec => []EventsInv
<1> QED BY InitEvents, NextEvents, PTL DEF Events!Spec

\* Type correctness of the clock, the counter and the pending events.
THEOREM EventQueueTypeOK == Events!Spec => []Events!TypeOK
<1>1. EventsInv => Events!TypeOK
  BY DEF EventsInv
<1> QED BY <1>1, EventQueueInvariant, PTL

\* Whatever the caller does, step and advance_to never leave a due event
\* behind the clock.
THEOREM EventQueueNothingSkipped == Events!Spec => []Events!NothingSkipped
<1>1. EventsInv => Events!NothingSkipped
  BY DEF EventsInv
<1> QED BY <1>1, EventQueueInvariant, PTL

\* Events are dispatched in strictly increasing (time, insertion sequence)
\* order over the whole life of the queue.
THEOREM EventQueueDispatchOrder == Events!Spec => Events!DispatchOrder
<1>1. EventsInv /\ [Events!Next]_(Events!vars)
        => [fired' # fired => Events!Before(fired, fired')]_(Events!vars)
  <2> SUFFICES ASSUME EventsInv, Events!Next
               PROVE  fired' # fired => Events!Before(fired, fired')
    BY DEF Events!vars
  <2>1. CASE Events!Step
    BY <2>1 DEF Events!Step, EventsInv, Events!AfterFired, Events!Before
  <2>2. CASE fired' = fired
    BY <2>2
  <2> QED
    BY <2>1, <2>2 DEF Events!Next, Events!ScheduleAt, Events!ScheduleAfter, Events!AdvanceTo
<1> QED BY <1>1, EventQueueInvariant, PTL DEF Events!Spec, Events!DispatchOrder

-----------------------------------------------------------------------------
(***************************************************************************)
(* The lab's cables implement the event queue: every step of the lab is,   *)
(* through Lab::events, a call of the queue or no call at all.  What is    *)
(* proved of the queue then holds of the lab.                              *)
(***************************************************************************)

\* A step that inserts an event of the lab is a schedule_at.
LEMMA ScheduleIsCall ==
    ASSUME Types, NEW time, NEW e \in LabEvent, Schedulable(queue, time),
           queue' = Scheduled(queue, time, e), Fires
    PROVE  Events!Next
<1> DEFINE x == [time |-> time, sequence |-> queue.next_sequence, event |-> e]
<1>1. queue'.pending = queue.pending \cup {x}
  BY DEF Types, Scheduled
<1>2. fired' = fired
  BY <1>1 DEF Fires
<1>3. x \in Events!ScheduledEvent
  BY DEF Types, Schedulable, Events!ScheduledEvent, Events!SimTime, Events!Sequence,
     SimTime, Sequence
<1>4. x.time = time /\ x.event = e
  OBVIOUS
<1>5. Events!ScheduleAt(x.time, x.event)
  BY <1>2, <1>4 DEF Events!ScheduleAt, Events!Schedulable, Schedulable, Events!Scheduled,
     Scheduled, Events!SimTime, SimTime
<1> QED
  BY <1>1, <1>3, <1>5 DEF Events!Next

\* A step that pops the next event is a step of the queue.
LEMMA PopIsCall ==
    ASSUME Types, NEW x \in queue.pending, IsNext(queue, x),
           queue' = Popped(queue, x), Fires
    PROVE  Events!Next
<1>1. queue'.pending = queue.pending \ {x}
  BY DEF Types, Popped
<1>2. fired' = [time |-> x.time, sequence |-> x.sequence]
  BY <1>1 DEF Fires
<1>3. Events!Step
  BY <1>2 DEF Events!Step, Events!IsNext, IsNext, Events!Before, Before, Events!Popped, Popped
<1> QED
  BY <1>3 DEF Events!Next

\* Every step of the lab maps to a step of the queue or to a stutter.
LEMMA StepIsCall ==
    ASSUME CableInv, [DispatchNext]_dispatchVars
    PROVE  [Events!Next]_(Events!vars)
<1> Types
  BY DEF CableInv, Plugging
<1>1. CASE UNCHANGED dispatchVars
  BY <1>1 DEF dispatchVars, vars, Events!vars
<1> SUFFICES ASSUME Next, Fires PROVE [Events!Next]_(Events!vars)
  BY <1>1 DEF DispatchNext
<1>2. ASSUME queue' = queue PROVE UNCHANGED Events!vars
  BY <1>2 DEF Fires, Events!vars
<1>3. ASSUME NEW a \in Port, NEW b \in Port, Connect(a, b)
      PROVE  queue' = queue
  BY <1>3 DEF Connect
<1>4. ASSUME NEW id \in LinkId, Disconnect(id) PROVE queue' = queue
  BY <1>4 DEF Disconnect
<1>5. ASSUME NEW id \in LinkId, NEW up \in BOOLEAN, SetLinkState(id, up)
      PROVE  queue' = queue
  BY <1>5 DEF SetLinkState
<1>6. ASSUME NEW id \in LinkId, NEW up \in BOOLEAN, NEW time \in SimTime,
             ScheduleLinkState(id, up, time)
      PROVE  Events!Next
  <2>1. [kind |-> "state", link |-> id, up |-> up] \in LabEvent
    BY DEF LabEvent, StateEvent
  <2> QED
    BY <1>6, <2>1, ScheduleIsCall DEF ScheduleLinkState
<1>7. ASSUME NEW time \in SimTime, ScheduleTimer(time) PROVE Events!Next
  <2>1. [kind |-> "timer"] \in LabEvent
    BY DEF LabEvent, TimerEvent
  <2> QED
    BY <1>7, <2>1, ScheduleIsCall DEF ScheduleTimer
<1>8. ASSUME NEW p \in Port, NEW up \in BOOLEAN, EditAdmin(p, up)
      PROVE  queue' = queue
  BY <1>8 DEF EditAdmin
<1>9. ASSUME NEW p \in Port, NEW serialization \in Serialization,
             NEW sample \in 0 .. 2 * Jitter, NEW lost \in BOOLEAN,
             Transmit(p, serialization, sample, lost)
      PROVE  Events!Next
  <2> DEFINE l == link[ports[p]]
             e == [kind |-> "frame", link |-> ports[p], generation |-> l.generation,
                   interface |-> l.endpoint[Peer(SideOf(l, p))], source |-> p,
                   lost |-> lost]
  <2>1. ports[p] \in LinkId
    BY <1>9 DEF Transmit, Types, NoCable
  <2>2. l \in Link
    BY <2>1 DEF Types
  <2>3. l.generation \in 0 .. MaxGeneration /\ l.endpoint[Peer(SideOf(l, p))] \in Port
    BY <2>2 DEF Link, Side, Peer, SideOf
  <2>4. e \in LabEvent
    BY <2>1, <2>3 DEF LabEvent, FrameEvent
  <2>5. \E arrival : Schedulable(queue, arrival) /\ queue' = Scheduled(queue, arrival, e)
    BY <1>9 DEF Transmit
  <2> QED
    BY <2>4, <2>5, ScheduleIsCall
<1>10. CASE StepFrame
  BY <1>10, PopIsCall DEF StepFrame
<1>11. CASE StepLinkState
  BY <1>11, PopIsCall DEF StepLinkState
<1>12. CASE StepTimer
  BY <1>12, PopIsCall DEF StepTimer
<1>13. ASSUME NEW time \in SimTime, AdvanceTo(time)
       PROVE  [Events!Next]_(Events!vars)
  <2>1. queue'.pending = queue.pending
    BY <1>13 DEF AdvanceTo, Advanced, Types
  <2>2. fired' = fired
    BY <2>1 DEF Fires
  <2>3. Events!AdvanceTo(time)
    BY <1>13, <2>2 DEF AdvanceTo, Events!AdvanceTo, Events!Idle, Idle, Events!Advanced, Advanced
  <2> QED
    BY <2>3 DEF Events!Next, Events!SimTime, SimTime
<1> QED
  BY <1>2, <1>3, <1>4, <1>5, <1>6, <1>7, <1>8, <1>9, <1>10, <1>11, <1>12, <1>13 DEF Next

\* The history variable does not constrain the lab: what is proved of Spec
\* holds of DispatchSpec.
LEMMA DispatchIsSpec == DispatchSpec => Spec
<1>1. DispatchInit => Init
  BY DEF DispatchInit
<1>2. [DispatchNext]_dispatchVars => [Next]_vars
  BY DEF DispatchNext, dispatchVars
<1> QED BY <1>1, <1>2, PTL DEF DispatchSpec, Spec

\* The lab with its cables implements the event queue: connecting,
\* disconnecting, cutting, transmitting and dispatching use Lab::events only
\* through schedule_at, step and advance_to.
THEOREM CableImplementsEventQueue == DispatchSpec => ImplementsEventQueue
<1>1. DispatchInit => Events!Init
  BY DEF DispatchInit, Init, Events!Init, EmptyQueue, Events!EmptyQueue
<1>2. CableInv /\ [DispatchNext]_dispatchVars => [Events!Next]_(Events!vars)
  BY StepIsCall
<1> QED
  BY <1>1, <1>2, DispatchIsSpec, CableInvariant, PTL
     DEF DispatchSpec, ImplementsEventQueue, Events!Spec

\* The order of dispatch, proved of every queue, holds of the lab.
THEOREM CableDispatchOrder == DispatchSpec => LabDispatchOrder
<1> QED
  BY CableImplementsEventQueue, EventQueueDispatchOrder, PTL
     DEF ImplementsEventQueue, LabDispatchOrder

=============================================================================
