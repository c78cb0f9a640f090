-------------------------------- MODULE Bgp ---------------------------------
(***************************************************************************)
(* Two BGP speakers that are each other's neighbor: the sessions of        *)
(* crates/rios-routing/src/bgp/session.rs on TCP connections that either   *)
(* speaker may open (crates/rios-device/src/bgp.rs and bgp/), with the     *)
(* collision of connections and the routes that a session carries.         *)
(*                                                                         *)
(* A connection is named by the speaker that opens it and a number, its    *)
(* port; a name is used again when nothing is left of the connection.  TCP *)
(* is reliable and carries a message at a time in each direction (Tcp); an *)
(* end gives up when what it sends is lost.  Every event at a speaker ends *)
(* with the whole bgp_tick.  A keepalive that a live peer receives changes *)
(* nothing, so only those to a dead peer are sent here, and a hold time    *)
(* ends only when the peer is dead.                                        *)
(***************************************************************************)
EXTENDS Integers, Sequences, FiniteSetsExt

CONSTANTS
    Number,     \* ports of the connections that a speaker opens, numbers
    Prefix,     \* networks, numbers in the order of the maps
    TxLimit,    \* TX_LIMIT
    Bounds      \* the bounds explored, see Bound

Speaker == {1, 2}  \* router identifiers

\* The speakers that open a connection at once, the prefixes that each speaker
\* originates at first, faults, and changes of what the speakers originate.
Bound == [first : SUBSET Speaker, networks : [Speaker -> SUBSET Prefix], faults : Nat, edits : Nat]

ASSUME BgpAssumption ==
    /\ Number \subseteq Nat \ {0} /\ Prefix \subseteq Nat
    /\ TxLimit \in Nat /\ TxLimit >= 2
    /\ Bounds \subseteq Bound

\* The networks of a speaker are a map.
ASSUME FinitePrefix == IsFiniteSet(Prefix)

VARIABLES
    bound,    \* the member of Bounds that this behaviour keeps to
    peer,     \* peer[s]: the Peer of s, and the TCP connections to it
    wire,     \* wire[s][c]: packets under way to s on c
    network,  \* network[s][p]: the attributes with which s originates p, or 0
    faults, edits  \* auxiliary: the bounds

vars == <<bound, peer, wire, network, faults, edits>>

Other(s) == 3 - s

Conn == {<<s, n>> : s \in Speaker, n \in Number}

NoConn == <<0, 0>>

NoStream == [state |-> "none"]

NoRoutes == [p \in Prefix |-> 0]

NewStream ==
    [state |-> "Connect", started |-> FALSE, closing |-> "no", known |-> FALSE,
     output |-> <<>>, advertised |-> NoRoutes]

\* Peer::new; "waiting" says that retry_at is yet to come.
NewPeer(tcp) ==
    [tcp |-> tcp, stream |-> [c \in Conn |-> NoStream], selected |-> NoConn,
     received |-> NoRoutes, waiting |-> FALSE]

Packet(kind) == [kind |-> kind]

Update(p, value) == [kind |-> "update", prefix |-> p, value |-> value]

Nothing == Packet("nothing")

Init ==
    /\ bound \in Bounds
    /\ peer = [s \in Speaker |->
                [NewPeer([c \in Conn |-> "none"]) EXCEPT !.waiting = s \notin bound.first]]
    /\ wire = [s \in Speaker |-> [c \in Conn |-> <<>>]]
    /\ network = [s \in Speaker |-> [p \in Prefix |-> IF p \in bound.networks[s] THEN 1 ELSE 0]]
    /\ faults = 0
    /\ edits = 0

Silent == [c \in Conn |-> <<>>]

-----------------------------------------------------------------------------
(* TCP.  A result is the Peer x and the packets out that are sent for it. *)

Result(x, out) == [x |-> x, out |-> out]

Post(r, c, packet) == [r EXCEPT !.out[c] = Append(@, packet)]

SetTcp(r, c, state) == [r EXCEPT !.x.tcp[c] = state]

\* receive_tcp: the state of the end, and the answer.
Segment(r, c, packet) ==
    LET state == r.x.tcp[c]
        kind == packet.kind
    IN
    CASE kind = "RST" -> SetTcp(r, c, "none")
      [] state = "none" /\ kind = "SYN" -> Post(SetTcp(r, c, "SynReceived"), c, Packet("SYNACK"))
      [] state = "none" /\ kind \notin {"SYN", "RST"} -> Post(r, c, Packet("RST"))
      [] state = "SynSent" /\ kind = "SYNACK" -> Post(SetTcp(r, c, "Established"), c, Packet("ACK"))
      [] state = "SynReceived" /\ kind = "ACK" -> SetTcp(r, c, "Established")
      [] state = "Established" /\ kind = "FIN" -> SetTcp(r, c, "CloseWait")
      [] state = "FinWait" /\ kind = "FIN" -> SetTcp(r, c, "none")
      [] OTHER -> r

\* tcp_abort
Aborted(r, c) == Post(SetTcp(r, c, "none"), c, Packet("RST"))

\* tcp_close; the end that closes last has nothing left to wait for.
Closed(r, c) == SetTcp(r, c, IF r.x.tcp[c] = "CloseWait" THEN "none" ELSE "FinWait")

\* send_capacity is not zero: what s sent before has arrived.
Writable(s, x, c) ==
    /\ x.tcp[c] \in {"Established", "CloseWait"}
    /\ \A i \in DOMAIN wire[Other(s)][c] : wire[Other(s)][c][i].kind = "ACK"

-----------------------------------------------------------------------------
(* The streams of a peer *)

Streams(x) == {c \in Conn : x.stream[c] # NoStream}

Without(r, c) == [r EXCEPT !.x.stream[c] = NoStream]

\* Streams whose connection has gone.
Stale(x) == {c \in Streams(x) : x.tcp[c] \in {"none", "FinWait"}}

Swept(r) ==
    LET stale == Stale(r.x)
        lost == r.x.selected \in stale
    IN IF stale = {} THEN r
       ELSE [r EXCEPT !.x.stream = [c \in Conn |-> IF c \in stale THEN NoStream ELSE @[c]],
                      !.x.received = IF lost THEN NoRoutes ELSE @,
                      !.x.selected = IF lost THEN NoConn ELSE @,
                      !.x.waiting = TRUE]

\* Connections that the other speaker has opened and that have no stream yet.
Incoming(s, x) ==
    {c \in {Other(s)} \X Number :
        x.tcp[c] \in {"SynReceived", "Established", "CloseWait"} /\ x.stream[c] = NoStream}

Crowded(x) == Cardinality(Streams(x)) >= 2

\* There is at most one: every event ends with a tick.
Accepted(s, r) ==
    IF Incoming(s, r.x) = {} THEN r
    ELSE LET c == CHOOSE c \in Incoming(s, r.x) : TRUE IN
         IF Crowded(r.x) THEN Aborted(r, c)
         ELSE [r EXCEPT !.x.stream[c] = NewStream]

\* Ports of s that nothing is left of.
Free(s, r) ==
    {c \in {s} \X Number :
        /\ r.x.tcp[c] = "none" /\ peer[Other(s)].tcp[c] = "none"
        /\ wire[1][c] = <<>> /\ wire[2][c] = <<>> /\ r.out[c] = <<>>}

Opens(s, r) == Streams(r.x) = {} /\ ~r.x.waiting /\ Free(s, r) # {}

Connected(s, r) ==
    IF ~Opens(s, r) THEN r
    ELSE LET c == CHOOSE c \in Free(s, r) : \A k \in Free(s, r) : c[2] <= k[2] IN
         Post([SetTcp(r, c, "SynSent") EXCEPT !.x.stream[c] = NewStream, !.x.waiting = TRUE],
              c, Packet("SYN"))

-----------------------------------------------------------------------------
(* BgpSession *)

\* reset, and what is left to do before the connection is closed.
Closing(st) == [st EXCEPT !.state = "Idle", !.closing = "soon"]

\* Stream::fail: what has not been sent is dropped.
Failed(st) == [Closing(st) EXCEPT !.output = <<Packet("notification")>>]

\* Stream::queue, and its error.
Queued(st, kind) ==
    IF Len(st.output) >= TxLimit THEN Failed(st)
    ELSE [st EXCEPT !.output = Append(@, Packet(kind))]

\* protocol_error
Refused(st) == Queued(Closing(st), "notification")

\* transport_connected
Started(st) ==
    IF st.started THEN st
    ELSE Queued([st EXCEPT !.started = TRUE, !.state = "OpenSent"], "open")

\* receive and tick, where "expired" is the end of the hold time and "idle"
\* that of the keepalive time.
Handled(st, message) ==
    CASE message.kind = "nothing" -> st
      [] message.kind = "idle" -> Queued(st, "keepalive")
      [] message.kind = "notification" -> Closing(st)
      [] message.kind = "open" /\ st.state = "OpenSent" ->
           Queued([st EXCEPT !.state = "OpenConfirm", !.known = TRUE], "keepalive")
      [] message.kind = "keepalive" /\ st.state \in {"OpenConfirm", "Established"} ->
           [st EXCEPT !.state = "Established"]
      [] message.kind = "update" /\ st.state = "Established" -> st
      [] OTHER -> Refused(st)

Ended(state, st) == state = "CloseWait" /\ st.closing = "no"

\* A stream whose TCP connection is in the state given, with a message.
Served(state, st, message) ==
    IF Ended(state, st) THEN [st EXCEPT !.closing = "now", !.state = "Active"]
    ELSE IF state # "Established" \/ st.closing # "no" THEN st
    ELSE Handled(Started(st), message)

AllServed(r, c, message) ==
    LET served == [k \in Conn |->
            IF r.x.stream[k] = NoStream THEN NoStream
            ELSE Served(r.x.tcp[k], r.x.stream[k], IF k = c THEN message ELSE Nothing)]
    IN IF served = r.x.stream THEN r ELSE [r EXCEPT !.x.stream = served]

-----------------------------------------------------------------------------
(* Collision, selection and routes *)

Usable(st) == st # NoStream /\ st.started /\ st.closing = "no"

Up(st) == st # NoStream /\ st.closing = "no" /\ st.state = "Established"

Candidates(x) == {c \in Conn : Usable(x.stream[c])}

\* The streams that may win: one that is established, or else those opened by
\* the speaker with the greater identifier.
Winners(x) ==
    LET candidates == Candidates(x)
        established == {c \in candidates : Up(x.stream[c])}
    IN IF established # {} THEN established ELSE {c \in candidates : c[1] = 2}

\* Mutant of Losers: an established session is no reason to refuse another.
LosersUnopened(x) ==
    IF \E c \in Candidates(x) : Up(x.stream[c]) THEN {}
    ELSE {c \in Candidates(x) : c[1] = 1 /\ Cardinality(Candidates(x)) > 1}

\* Once the identifier of the peer is known, all candidates but one.
Losers(x) ==
    LET candidates == Candidates(x)
        winners == Winners(x)
    IN IF (\A c \in candidates : ~x.stream[c].known) \/ winners = {} THEN {}
       ELSE candidates \ {CHOOSE c \in winners : \A k \in winners : c[2] <= k[2]}

Resolved(r) ==
    LET losers == Losers(r.x) IN
    [r EXCEPT !.x.stream = [c \in Conn |-> IF c \in losers THEN Failed(@[c]) ELSE @[c]]]

Selection(x) ==
    LET up == {c \in Conn : Up(x.stream[c])} IN
    IF x.selected \in up THEN x.selected
    ELSE IF up = {} THEN NoConn
    ELSE CHOOSE c \in up : TRUE

\* Mutant of Kept: the routes of a session survive it.
KeptAlways(x, selection) == x.received

\* What remains of the received routes under the selection.
Kept(x, selection) == IF selection = x.selected THEN x.received ELSE NoRoutes

Selected(r) ==
    [r EXCEPT !.x.received = Kept(r.x, Selection(r.x)), !.x.selected = Selection(r.x)]

\* An update counts only on the selected session.
Learned(r, c, message) ==
    IF message.kind = "update" /\ r.x.selected = c
    THEN [r EXCEPT !.x.received[message.prefix] = message.value]
    ELSE r

\* Mutant of Due: attributes that change are not sent again.
DueUnknown(st, nets) == {p \in Prefix : (st.advertised[p] = 0) # (nets[p] = 0)}

\* bgp_advertise: the prefixes on which the peer and the networks differ, of
\* which as many are sent as the queue takes.
Due(st, nets) == {p \in Prefix : st.advertised[p] # nets[p]}

\* Withdrawals come first, and each kind in the order of the prefixes.
Ahead(nets, p, q) ==
    \/ nets[p] = 0 /\ nets[q] # 0
    \/ (nets[p] = 0) = (nets[q] = 0) /\ p < q

\* The number of updates that there is room for.
Room(st) == Max({TxLimit \div 2 - Len(st.output), 0})

Batch(st, nets) ==
    {p \in Due(st, nets) :
        Cardinality({q \in Due(st, nets) : Ahead(nets, q, p)}) < Room(st)}

Ordered(S, nets) ==
    [n \in 1 .. Cardinality(S) |->
        CHOOSE p \in S : Cardinality({q \in S : Ahead(nets, q, p)}) = n - 1]

\* Mutant of Noted: what did not fit is taken for sent.
NotedAll(st, nets) == nets

Noted(st, nets) ==
    [p \in Prefix |-> IF p \in Batch(st, nets) THEN nets[p] ELSE st.advertised[p]]

Advertising(st, nets) ==
    [st EXCEPT !.advertised = Noted(st, nets),
               !.output = @ \o [n \in 1 .. Cardinality(Batch(st, nets)) |->
                    LET p == Ordered(Batch(st, nets), nets)[n] IN Update(p, nets[p])]]

Advertised(s, r) ==
    IF r.x.selected = NoConn THEN r
    ELSE [r EXCEPT !.x.stream[r.x.selected] = Advertising(@, network[s])]

-----------------------------------------------------------------------------
(* bgp_flush, and the whole of bgp_tick *)

\* due: the streams whose deadline for closing has passed.
FlushedOne(s, r, c, due) ==
    LET st == r.x.stream[c] IN
    CASE st = NoStream -> r
      [] st # NoStream /\ (st.closing = "now" \/ c \in due) -> Without(Aborted(r, c), c)
      [] st # NoStream /\ st.closing # "now" /\ c \notin due /\ ~Writable(s, r.x, c) -> r
      [] st # NoStream /\ st.closing # "now" /\ c \notin due /\ Writable(s, r.x, c) ->
           IF st.output # <<>>
           THEN Post([r EXCEPT !.x.stream[c].output = Tail(@)], c, Head(st.output))
           ELSE IF st.closing = "soon"
           THEN Without(Post(Closed(r, c), c, Packet("FIN")), c)
           ELSE r

Flushed(s, r, due) ==
    LET after(c) == FlushedOne(s, r, c, due) IN
    [x |-> [r.x EXCEPT !.tcp = [c \in Conn |-> after(c).x.tcp[c]],
                       !.stream = [c \in Conn |-> after(c).x.stream[c]]],
     out |-> [c \in Conn |-> after(c).out[c]]]

\* The tick after an event at s that made r of its peer, with a message on c.
Tick(s, r, c, message, due) ==
    Flushed(s, Advertised(s, Learned(Selected(Resolved(AllServed(
        Connected(s, Accepted(s, Swept(r))), c, message))), c, message)), due)

\* The state of s after that; rest is what is left on the wires to it.
Become(s, result, rest, lost) ==
    \E r \in {result} :
        /\ peer' = [peer EXCEPT ![s] = r.x]
        /\ wire' = [wire EXCEPT ![s] = rest,
                                ![Other(s)] = [c \in Conn |->
                                    IF c \in lost THEN r.out[c] ELSE @[c] \o r.out[c]]]

-----------------------------------------------------------------------------
(* Events *)

Control == {"SYN", "SYNACK", "ACK", "FIN", "RST"}

Now(s) == Result(peer[s], Silent)

\* A packet arrives (handle_tcp, pump_bgp).
Deliver(s, c) ==
    /\ wire[s][c] # <<>>
    /\ LET packet == Head(wire[s][c])
           message == IF packet.kind \in Control \/ peer[s].tcp[c] # "Established"
                      THEN Nothing ELSE packet
       IN Become(s, Tick(s, Segment(Now(s), c, packet), c, message, {}),
                 [wire[s] EXCEPT ![c] = Tail(@)], {})
    /\ UNCHANGED <<bound, network, faults, edits>>

\* A tick without an event (an acknowledgment, tick_bgp, tcp_timer) does something.
Pumped(s) == Tick(s, Now(s), NoConn, Nothing, {})

Pump(s) ==
    /\ \E r \in {Pumped(s)} : r # Now(s) /\ Become(s, r, wire[s], {})
    /\ UNCHANGED <<bound, network, faults, edits>>

\* A timer of seconds runs out.  One that outruns the packets under way, which
\* take less unless they are lost and sent again, is counted among the faults;
\* both speakers may retry at the same time.
Quiet ==
    \A s \in Speaker :
        /\ \A c \in Conn : wire[s][c] \in {<<>>, <<Packet("SYN")>>}
        /\ Pumped(s) = Now(s)

Timer ==
    IF Quiet THEN UNCHANGED faults
    ELSE faults < bound.faults /\ faults' = faults + 1

\* retry_at comes, with no stream.
Pausing(s) == Streams(peer[s]) = {} /\ peer[s].waiting

Retry(s) ==
    /\ Pausing(s)
    /\ Timer
    /\ Become(s, Tick(s, [Now(s) EXCEPT !.x.waiting = FALSE], NoConn, Nothing, {}), wire[s], {})
    /\ UNCHANGED <<bound, network, edits>>

\* The five seconds of a stream that closes are over.
Lingering(s, c) == peer[s].stream[c] # NoStream /\ peer[s].stream[c].closing = "soon"

CloseDue(s, c) ==
    /\ Lingering(s, c)
    /\ Timer
    /\ Become(s, Tick(s, Now(s), NoConn, Nothing, {c}), wire[s], {})
    /\ UNCHANGED <<bound, network, edits>>

\* The other end of c has gone and the stream of s has not noticed.
HalfOpen(s, c) ==
    /\ peer[s].stream[c] # NoStream /\ peer[s].stream[c].closing = "no"
    /\ peer[Other(s)].tcp[c] = "none"
    /\ wire[1][c] = <<>> /\ wire[2][c] = <<>>

\* The hold time ends, or a keepalive is due.
Timeout(s, c, kind) ==
    /\ HalfOpen(s, c) /\ peer[s].tcp[c] = "Established"
    /\ kind = "idle" => peer[s].stream[c].state \in {"OpenConfirm", "Established"}
    /\ Become(s, Tick(s, Now(s), c, Packet(kind), {}), wire[s], {})
    /\ UNCHANGED <<bound, network, faults, edits>>

\* tcp_tick sends the handshake's segment again.
Retransmit(s, c) ==
    /\ HalfOpen(s, c) /\ peer[s].tcp[c] \in {"SynSent", "SynReceived"}
    /\ LET again == Packet(IF peer[s].tcp[c] = "SynSent" THEN "SYN" ELSE "SYNACK") IN
       Become(s, Tick(s, Post(Now(s), c, again), NoConn, Nothing, {}), wire[s], {})
    /\ UNCHANGED <<bound, network, faults, edits>>

\* tcp_tick gives up: the last segment, or its acknowledgment, was lost each time.
Break(s, c) ==
    /\ faults < bound.faults
    /\ peer[s].tcp[c] # "none"
    /\ \E i \in DOMAIN wire[Other(s)][c] : wire[Other(s)][c][i].kind # "ACK"
    /\ \E lost \in SUBSET {c} :
          Become(s, Tick(s, SetTcp(Now(s), c, "none"), NoConn, Nothing, {}), wire[s], lost)
    /\ faults' = faults + 1
    /\ UNCHANGED <<bound, network, edits>>

\* The neighbor is configured anew, whatever the state of its connections.
Dropped(s) ==
    LET streams == Streams(peer[s]) IN
    [Now(s) EXCEPT !.x.tcp = [c \in Conn |-> IF c \in streams THEN "none" ELSE @[c]],
                   !.out = [c \in Conn |-> IF c \in streams THEN <<Packet("RST")>> ELSE <<>>]]

Reset(s) ==
    /\ faults < bound.faults
    /\ Become(s, Tick(s, [Dropped(s) EXCEPT !.x = NewPeer(@.tcp)], NoConn, Nothing, {}),
              wire[s], {})
    /\ faults' = faults + 1
    /\ UNCHANGED <<bound, network, edits>>

\* The networks of s change; the next tick sees it.
SetNetwork(s, p, value) ==
    /\ edits < bound.edits
    /\ network[s][p] # value
    /\ network' = [network EXCEPT ![s][p] = value]
    /\ edits' = edits + 1
    /\ UNCHANGED <<bound, peer, wire, faults>>

Next ==
    \E s \in Speaker :
        \/ Pump(s)
        \/ Retry(s)
        \/ Reset(s)
        \/ \E c \in Conn :
              \/ Deliver(s, c)
              \/ CloseDue(s, c)
              \/ \E kind \in {"expired", "idle"} : Timeout(s, c, kind)
              \/ Retransmit(s, c)
              \/ Break(s, c)
        \/ \E p \in Prefix, value \in 0 .. 2 : SetNetwork(s, p, value)

\* Every timer runs and every packet is delivered.  Each of the actions named
\* ends the condition that enables it, so that weak fairness of it says that
\* the condition does not last.
Fairness ==
    \A s \in Speaker :
        /\ []<>(Pumped(s) = Now(s))
        /\ []<>~Pausing(s)
        /\ \A c \in Conn :
              []<>(wire[s][c] = <<>>) /\ []<>~Lingering(s, c) /\ []<>~HalfOpen(s, c)

Spec == Init /\ [][Next]_vars /\ Fairness

-----------------------------------------------------------------------------
(* Properties *)

Message == {"open", "keepalive", "update", "notification"}

StreamOK(st) ==
    /\ st.state \in {"Idle", "Active", "Connect", "OpenSent", "OpenConfirm", "Established"}
    /\ st.closing \in {"no", "soon", "now"}
    /\ Len(st.output) <= TxLimit
    /\ \A i \in DOMAIN st.output : st.output[i].kind \in Message
    /\ st.advertised \in [Prefix -> 0 .. 2]

\* Values are of their types; a peer never has more than the two streams of a
\* collision (bgp_transport_peer refuses a third), and the queue of a stream
\* never exceeds TX_LIMIT (Stream::queue).
TypeOK ==
    /\ \A s \in Speaker :
          /\ Cardinality(Streams(peer[s])) <= 2
          /\ \A c \in Streams(peer[s]) : StreamOK(peer[s].stream[c])
          /\ peer[s].received \in [Prefix -> 0 .. 2]
          /\ peer[s].selected \in Conn \cup {NoConn}
    /\ faults <= bound.faults /\ edits <= bound.edits

\* After every bgp_tick at most one stream of a peer is established, whatever
\* connections were opened at the same time, and it is the one selected.
OneSession ==
    \A s \in Speaker, c \in Conn :
        Up(peer[s].stream[c]) => peer[s].selected = c

\* A speaker holds routes of its peer only while the session that brought them
\* is established on a connection that TCP has not seen closed.
NoStaleRoutes ==
    \A s \in Speaker :
        peer[s].received # NoRoutes =>
            /\ peer[s].selected # NoConn
            /\ Up(peer[s].stream[peer[s].selected])
            /\ peer[s].tcp[peer[s].selected] = "Established"

Applied(routes, messages) ==
    [p \in Prefix |->
        LET about == {i \in DOMAIN messages :
                        messages[i].kind = "update" /\ messages[i].prefix = p}
        IN IF about = {} THEN routes[p] ELSE messages[Max(about)].value]

\* While both ends of a session are established, the routes received with the
\* updates still under way are those that the peer has noted as advertised:
\* none is lost between two sessions, and none is left over from another.
RoutesFollow ==
    \A s \in Speaker, c \in Conn :
        peer[s].selected = c /\ Up(peer[Other(s)].stream[c]) =>
            Applied(peer[s].received, wire[s][c] \o peer[Other(s)].stream[c].output)
                = peer[Other(s)].stream[c].advertised

InSync ==
    \E c \in Conn : \A s \in Speaker :
        /\ peer[s].selected = c
        /\ peer[s].received = network[Other(s)]

\* Both speakers open a connection at the same time.
Crossing ==
    \A s \in Speaker : \E c \in {s} \X Number : peer[s].tcp[c] = "SynSent"

\* Once faults and changes end, the two speakers come to a session over which
\* each learns all the networks of the other (bgp_tick retries, bgp_advertise
\* sends what is left), unless they open connections at the same time again and
\* again: where one sees its connection established before the other does, each
\* may refuse the connection that the other keeps (bgp_transport_peer).
Agrees == <>[]InSync \/ []<>Crossing

=============================================================================
