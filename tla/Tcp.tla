-------------------------------- MODULE Tcp ---------------------------------
(***************************************************************************)
(* The simulated TCP of crates/rios-device/src/tcp.rs: one pair of sockets *)
(* of a client and a server device, its successive incarnations, and a     *)
(* network that loses, reorders and duplicates segments.                   *)
(*                                                                         *)
(* A segment carries at most one byte of payload, named by its position in *)
(* the stream.  Deadlines are abstracted: a tick may find the idle, the    *)
(* TIME-WAIT and the retransmission deadline passed or not.                *)
(***************************************************************************)
EXTENDS Integers, Sequences, FiniteSetsExt

CONSTANTS
    Modulus,       \* sequence numbers are modulo 2^32
    IsnStep,       \* tcp_initial_sequence adds 64000
    ReceiveLimit,  \* RECEIVE_LIMIT, in segments
    Bounds,        \* the bounds explored, see Bound
    Writers,       \* the devices whose application sends data
    MaxInFlight    \* bound: segments in flight

Device == {"client", "server"}

\* Connections opened by the client and accepted by the server, bytes written
\* per incarnation and direction, retransmissions before giving up (5 in the
\* code), and whether the listener is removed and opened again.
Bound == [opens : Nat, accepts : Nat, bytes : Nat, retries : Nat, relisten : BOOLEAN]

ASSUME TcpAssumption ==
    /\ Writers \subseteq Device
    /\ {Modulus, IsnStep, ReceiveLimit, MaxInFlight} \subseteq Nat
    /\ Bounds \subseteq Bound
    /\ ReceiveLimit > 0 /\ Modulus > 0
    \* The incarnations of a device use disjoint sequence numbers: no stream
    \* of the lab is as long as the step between two initial sequences.
    /\ \A b \in Bounds :
         /\ b.bytes + 2 < IsnStep
         /\ b.opens * IsnStep <= Modulus /\ b.accepts * IsnStep <= Modulus

VARIABLES
    bound,      \* the member of Bounds that this behaviour keeps to
    conn,       \* the entry of TcpRuntime::connections, or NoConn
    listening,  \* the server's port is in TcpRuntime::listeners
    opens,      \* connections opened: next_sequence is opens * IsnStep
    network,    \* segments in flight
    written, shut, accepted, eof  \* auxiliary: the streams of ByteStream

streams == <<written, shut, accepted, eof>>

vars == <<bound, conn, listening, opens, network, streams>>

Other(d) == IF d = "client" THEN "server" ELSE "client"

\* The stream that d's incarnation number n sends.
Stream ==
    UNION {({"client"} \X (1 .. b.opens)) \cup ({"server"} \X (1 .. b.accepts)) : b \in Bounds}

None == [none |-> TRUE]

NoConn == [state |-> "none"]

Plus(a, n) == (a + n) % Modulus

InitialSequence(n) == (n * IsnStep) % Modulus

\* TcpSegment::sequence_len: SYN and FIN count as one.
DataLen(seg) == IF seg.byte = 0 THEN 0 ELSE 1

SequenceLen(seg) == Cardinality(seg.flags \cap {"SYN", "FIN"}) + DataLen(seg)

\* TcpConnection::new; "own" and "peer" are auxiliary: the number of this
\* incarnation and of the one whose SYN it has accepted.
NewConnection(n) ==
    [state |-> "Closed", send_next |-> InitialSequence(n), receive_next |-> 0,
     peer_window |-> ReceiveLimit, received |-> 0, outstanding |-> None,
     peer_closed |-> FALSE, own |-> n, peer |-> 0]

\* TcpConnection::segment; "stream" is auxiliary.
Segment(d, c, flags, byte) ==
    [to |-> Other(d), sequence |-> c.send_next, acknowledgment |-> c.receive_next,
     flags |-> flags, window |-> ReceiveLimit - c.received, byte |-> byte,
     stream |-> c.own]

\* TcpConnection::send: what takes sequence space is outstanding.
Sending(d, c, flags, byte) ==
    LET seg == Segment(d, c, flags, byte) IN
    [c EXCEPT !.send_next = Plus(@, SequenceLen(seg)),
              !.outstanding = IF SequenceLen(seg) = 0 THEN @
                              ELSE [segment |-> seg, retries |-> 0]]

\* A segment stays in the network once delivered, so that it may arrive again,
\* late and out of order; a segment that never arrives is lost.  Over its
\* capacity the network forgets any of the segments.
Post(segs) ==
    LET all == network \cup segs IN
    IF Cardinality(all) <= MaxInFlight THEN network' = all
    ELSE network' \in kSubset(MaxInFlight, all)

Init ==
    /\ bound \in Bounds
    /\ conn = [d \in Device |-> NoConn]
    /\ listening = TRUE
    /\ opens = [d \in Device |-> 0]
    /\ network = {}
    /\ written = [i \in Stream |-> 0]
    /\ shut = [i \in Stream |-> FALSE]
    /\ accepted = [i \in Stream |-> <<>>]
    /\ eof = [i \in Stream |-> FALSE]

-----------------------------------------------------------------------------
(* Application calls *)

Listen ==
    /\ bound.relisten
    /\ listening' = ~listening
    /\ UNCHANGED <<bound, conn, opens, network, streams>>

Connect ==
    /\ conn["client"] = NoConn
    /\ opens["client"] < bound.opens
    /\ opens' = [opens EXCEPT !["client"] = @ + 1]
    /\ LET new == [NewConnection(opens'["client"]) EXCEPT !.state = "SynSent"] IN
       /\ conn' = [conn EXCEPT !["client"] = Sending("client", new, {"SYN"}, 0)]
       /\ Post({Segment("client", new, {"SYN"}, 0)})
    /\ UNCHANGED <<bound, listening, streams>>

Send(d) ==
    LET c == conn[d]
        i == <<d, c.own>>
    IN
    /\ c.state \in {"Established", "CloseWait"}
    /\ c.outstanding = None
    /\ c.peer_window > 0
    /\ d \in Writers /\ written[i] < bound.bytes
    /\ written' = [written EXCEPT ![i] = @ + 1]
    /\ conn' = [conn EXCEPT ![d] = Sending(d, c, {"ACK"}, written'[i])]
    /\ Post({Segment(d, c, {"ACK"}, written'[i])})
    /\ UNCHANGED <<bound, listening, opens, shut, accepted, eof>>

MayClose(c) == c.state \in {"Established", "CloseWait"} /\ c.outstanding = None

Close(d) ==
    LET c == conn[d]
        closing == [c EXCEPT !.state =
                      IF @ = "Established" THEN "FinWait" ELSE "LastAck"]
    IN
    /\ MayClose(c)
    /\ conn' = [conn EXCEPT ![d] = Sending(d, closing, {"ACK", "FIN"}, 0)]
    /\ Post({Segment(d, closing, {"ACK", "FIN"}, 0)})
    /\ shut' = [shut EXCEPT ![<<d, c.own>>] = TRUE]
    /\ UNCHANGED <<bound, listening, opens, written, accepted, eof>>

\* tcp_read drains the buffer and announces the window; the services, BGP and
\* the probe of the lab call it when received_len is not zero.
Read(d) ==
    LET c == [conn[d] EXCEPT !.received = 0] IN
    /\ conn[d] # NoConn
    /\ conn[d].received > 0
    /\ conn' = [conn EXCEPT ![d] = c]
    /\ Post({Segment(d, c, {"ACK"}, 0)})
    /\ UNCHANGED <<bound, listening, opens, streams>>

Abort(d) ==
    /\ conn[d] # NoConn
    /\ conn' = [conn EXCEPT ![d] = NoConn]
    /\ Post({Segment(d, conn[d], {"RST", "ACK"}, 0)})
    /\ UNCHANGED <<bound, listening, opens, streams>>

-----------------------------------------------------------------------------
(* TcpConnection::receive.  An outcome is the connection after the segment,
   the replies (at most one) and whether a byte or the end of the peer's
   stream has been accepted. *)

Outcome(c, replies) == [conn |-> c, replies |-> replies, byte |-> 0, fin |-> FALSE]

Has(seg, flags) == flags \subseteq seg.flags

Ack(d, c) == {Segment(d, c, {"ACK"}, 0)}

ResetValid(c, seg) ==
    IF c.state = "SynSent"
    THEN Has(seg, {"ACK"}) /\ seg.acknowledgment = c.send_next
    ELSE seg.sequence = c.receive_next

OnReset(c, seg) ==
    Outcome(IF ResetValid(c, seg)
            THEN [c EXCEPT !.state = "Closed", !.outstanding = None] ELSE c, {})

\* What takes sequence space is acknowledged again, a pure ACK never.
OnTimeWait(d, c, seg) == Outcome(c, IF SequenceLen(seg) # 0 THEN Ack(d, c) ELSE {})

OnSynSent(d, c, seg) ==
    LET open == [c EXCEPT !.receive_next = Plus(seg.sequence, 1),
                          !.peer_window = seg.window, !.outstanding = None,
                          !.state = "Established", !.peer = seg.stream]
    IN IF Has(seg, {"SYN", "ACK"}) /\ seg.acknowledgment = c.send_next
       THEN Outcome(open, Ack(d, open))
       ELSE Outcome(c, {})

\* Mutant of Acknowledges: an acknowledgment of an earlier segment counts.
AcknowledgesAny(c, seg) == TRUE

\* Mutant of Acknowledges: off by the length of the outstanding segment.
AcknowledgesPrevious(c, seg) ==
    \/ seg.acknowledgment = c.send_next
    \/ c.outstanding # None /\ seg.acknowledgment = c.outstanding.segment.sequence

Acknowledges(c, seg) == seg.acknowledgment = c.send_next

\* The connection once the acknowledgment of an in-order segment is taken.
Acknowledged(c, seg) ==
    IF ~Acknowledges(c, seg) THEN c
    ELSE [c EXCEPT !.outstanding = None,
                   !.state = CASE @ = "SynReceived" -> "Established"
                               [] @ = "LastAck" -> "Closed"
                               [] @ = "FinWait" /\ c.peer_closed -> "TimeWait"
                               [] OTHER -> @]

\* Payload and FIN of an in-order segment.
Absorbed(d, c, seg) ==
    LET fin == Has(seg, {"FIN"})
        c1 == [c EXCEPT !.receive_next = Plus(@, DataLen(seg) + (IF fin THEN 1 ELSE 0)),
                        !.received = @ + DataLen(seg),
                        !.peer_closed = fin,
                        !.state = IF ~fin THEN @
                                  ELSE IF @ # "FinWait" THEN "CloseWait"
                                  ELSE IF c.outstanding = None THEN "TimeWait"
                                  ELSE @]
    IN [conn |-> c1, replies |-> IF DataLen(seg) = 1 \/ fin THEN Ack(d, c1) ELSE {},
        byte |-> seg.byte, fin |-> fin]

HasRoom(c, seg) == c.received + DataLen(seg) <= ReceiveLimit

OnInOrder(d, c, seg) ==
    LET c1 == Acknowledged(c, seg)
        c2 == [c1 EXCEPT !.peer_window = seg.window]
    IN IF c1.state \in {"SynReceived", "Closed"} THEN Outcome(c1, {})
       ELSE IF c.peer_closed THEN Outcome(c2, {})
       ELSE IF ~HasRoom(c, seg) THEN Outcome(c2, Ack(d, c2))
       ELSE Absorbed(d, c2, seg)

\* Mutant of InOrder: a segment is taken whatever its sequence number.
InOrderUnchecked(c, seg) == TRUE

InOrder(c, seg) == seg.sequence = c.receive_next

ReceiveOn(d, c, seg) ==
    IF c.state = "Closed" THEN Outcome(c, {})
    ELSE IF Has(seg, {"RST"}) THEN OnReset(c, seg)
    ELSE IF c.state = "TimeWait" THEN OnTimeWait(d, c, seg)
    ELSE IF c.state = "SynSent" THEN OnSynSent(d, c, seg)
    ELSE IF /\ c.state = "SynReceived" /\ Has(seg, {"SYN"})
            /\ Plus(seg.sequence, 1) = c.receive_next
         THEN Outcome(c, {p.segment : p \in {c.outstanding} \ {None}})
    ELSE IF ~InOrder(c, seg) THEN Outcome(c, Ack(d, c))
    ELSE IF ~Has(seg, {"ACK"}) THEN Outcome(c, {})
    ELSE OnInOrder(d, c, seg)

-----------------------------------------------------------------------------
(* Device::receive_tcp *)

Deliver(d, seg) == seg \in network /\ seg.to = d

ReceiveConnection(d, seg) ==
    LET out == ReceiveOn(d, conn[d], seg)
        i == <<Other(d), conn[d].peer>>
    IN
    /\ Deliver(d, seg)
    /\ conn[d] # NoConn
    /\ conn' = [conn EXCEPT ![d] = out.conn]
    /\ Post(out.replies)
    /\ accepted' = IF out.byte = 0 THEN accepted
                   ELSE [accepted EXCEPT ![i] = Append(@, out.byte)]
    /\ eof' = IF out.fin THEN [eof EXCEPT ![i] = TRUE] ELSE eof
    /\ UNCHANGED <<bound, listening, opens, written, shut>>

Listens(d, seg) == seg.flags = {"SYN"} /\ d = "server" /\ listening

ReceiveListener(d, seg) ==
    /\ Deliver(d, seg)
    /\ conn[d] = NoConn
    /\ Listens(d, seg)
    /\ opens[d] < bound.accepts
    /\ opens' = [opens EXCEPT ![d] = @ + 1]
    /\ LET new == [NewConnection(opens'[d]) EXCEPT
                      !.state = "SynReceived",
                      !.receive_next = Plus(seg.sequence, 1),
                      !.peer_window = seg.window, !.peer = seg.stream] IN
       /\ conn' = [conn EXCEPT ![d] = Sending(d, new, {"SYN", "ACK"}, 0)]
       /\ Post({Segment(d, new, {"SYN", "ACK"}, 0)})
    /\ UNCHANGED <<bound, listening, streams>>

\* Nothing takes the segment: it is answered with a reset, unless it is one.
ReceiveUnknown(d, seg) ==
    LET blank == Segment(d, [NewConnection(0) EXCEPT !.send_next = 0], {"RST"}, 0)
        reset == IF Has(seg, {"ACK"})
                 THEN [blank EXCEPT !.sequence = seg.acknowledgment]
                 ELSE [blank EXCEPT !.flags = {"RST", "ACK"},
                         !.acknowledgment = Plus(seg.sequence, SequenceLen(seg))]
    IN
    /\ Deliver(d, seg)
    /\ conn[d] = NoConn
    /\ ~Listens(d, seg)
    /\ ~Has(seg, {"RST"})
    /\ Post({reset})
    /\ UNCHANGED <<bound, conn, listening, opens, streams>>

-----------------------------------------------------------------------------
(* Device::tcp_tick, on one connection *)

\* A closed connection goes at once, another one when it has been idle for
\* its timeout or in TIME-WAIT long enough.
Expire(d) ==
    /\ conn[d] # NoConn
    /\ conn' = [conn EXCEPT ![d] = NoConn]
    /\ UNCHANGED <<bound, listening, opens, network, streams>>

Pending(d) == conn[d].state \notin {"none", "Closed"} /\ conn[d].outstanding # None

Retransmit(d) ==
    /\ Pending(d)
    /\ conn[d].outstanding.retries < bound.retries
    /\ conn' = [conn EXCEPT ![d].outstanding.retries = @ + 1]
    /\ Post({conn[d].outstanding.segment})
    /\ UNCHANGED <<bound, listening, opens, streams>>

GiveUp(d) ==
    /\ Pending(d)
    /\ conn[d].outstanding.retries >= bound.retries
    /\ conn' = [conn EXCEPT ![d].state = "Closed"]
    /\ UNCHANGED <<bound, listening, opens, network, streams>>

Next ==
    \/ Listen
    \/ Connect
    \/ \E d \in Device :
         \/ Send(d) \/ Close(d) \/ Read(d) \/ Abort(d)
         \/ Expire(d) \/ Retransmit(d) \/ GiveUp(d)
         \/ \E seg \in network :
              ReceiveConnection(d, seg) \/ ReceiveListener(d, seg) \/ ReceiveUnknown(d, seg)

Spec == Init /\ [][Next]_vars


-----------------------------------------------------------------------------
(* Properties *)

States == {"Closed", "SynSent", "SynReceived", "Established", "FinWait",
           "CloseWait", "LastAck", "TimeWait"}

\* Every connection is a TcpConnection and buffers at most RECEIVE_LIMIT: the
\* subtraction in TcpConnection::segment cannot underflow.
TypeOK ==
    /\ listening \in BOOLEAN
    /\ opens["client"] \in 0 .. bound.opens /\ opens["server"] \in 0 .. bound.accepts
    /\ \A d \in Device : conn[d] # NoConn =>
         /\ conn[d].state \in States
         /\ {conn[d].send_next, conn[d].receive_next} \subseteq 0 .. Modulus - 1
         /\ {conn[d].received, conn[d].peer_window} \subseteq 0 .. ReceiveLimit
         /\ Pending(d) => conn[d].outstanding.retries \in 0 .. bound.retries

\* A sender with nothing outstanding has delivered everything: the other end
\* has accepted every byte given to tcp_send and, after tcp_close, the FIN.
\* It is what lets tcp_send overwrite the outstanding segment and tcp_close
\* follow the data.
AckedIsAccepted ==
    \A d \in Device :
        LET i == <<d, conn[d].own>> IN
        conn[d].state \in States \ {"Closed", "SynSent", "SynReceived"}
            /\ conn[d].outstanding = None
        => Len(accepted[i]) = written[i] /\ eof[i] = shut[i]

\* The two ends never disagree about the incarnation they talk to: a client
\* that has established a connection shares it with the server entry that
\* took its SYN, as long as that entry exists.
Paired ==
    LET c == conn["client"] s == conn["server"] IN
    /\ c.state \in States \ {"Closed", "SynSent"}
    /\ s.state \in States \ {"Closed", "SynReceived"}
    /\ s.peer = c.own
    => c.peer = s.own

Streams == INSTANCE ByteStream WITH written <- written, shut <- shut,
    accepted <- accepted, eof <- eof

\* Each direction of each incarnation is a byte stream, whatever the network
\* loses, duplicates, delays or keeps from an earlier incarnation.
Implements == Streams!Spec

=============================================================================
