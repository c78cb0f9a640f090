------------------------------ MODULE BgpProofs ------------------------------
(***************************************************************************)
(* Proofs about Bgp, for every number of connections and prefixes, every   *)
(* queue limit and every bound on faults and edits.                        *)
(*                                                                         *)
(* Every event of a speaker ends with the whole bgp_tick, so the proof     *)
(* follows the stages of the tick: an event leaves the peer Entered, and   *)
(* each stage adds to what is known of it, up to PeerOK.                   *)
(*                                                                         *)
(* That the routes follow the networks is a property of both ends of a     *)
(* connection and of the wires between them.  The second part says of      *)
(* every event and its tick what it did to one connection (Outcome),       *)
(* and RouteInv, what holds of the two ends of every connection, follows   *)
(* from that alone.                                                        *)
(***************************************************************************)
EXTENDS Bgp, SequenceTheorems, FiniteSetTheorems, WellFoundedInduction, TLAPS

USE BgpAssumption

-----------------------------------------------------------------------------
(* The inductive invariant *)

TcpState == {"none", "SynSent", "SynReceived", "Established", "CloseWait", "FinWait"}

\* A stream, in which a session that has seen the OPEN of the peer was
\* started and knows the identifier of the peer.
IsStream(st) ==
    /\ st = [state |-> st.state, started |-> st.started, closing |-> st.closing,
             known |-> st.known, output |-> st.output, advertised |-> st.advertised]
    /\ st.state \in {"Idle", "Active", "Connect", "OpenSent", "OpenConfirm", "Established"}
    /\ st.started \in BOOLEAN /\ st.known \in BOOLEAN
    /\ st.closing \in {"no", "soon", "now"}
    /\ st.state \in {"OpenConfirm", "Established"} => st.started /\ st.known

IsPeer(x) ==
    /\ x = [tcp |-> x.tcp, stream |-> x.stream, selected |-> x.selected,
            received |-> x.received, waiting |-> x.waiting]
    /\ x.tcp \in [Conn -> TcpState]
    /\ x.stream = [c \in Conn |-> x.stream[c]]
    /\ \A c \in Conn : x.stream[c] = NoStream \/ IsStream(x.stream[c])

\* The state in which an event hands the peer to the tick.  What the event did
\* to the connections is not yet seen by the streams.
Entered(x) ==
    /\ IsPeer(x)
    /\ \A c \in Conn : x.stream[c] # NoStream /\ x.stream[c].started =>
                          x.tcp[c] \notin {"SynSent", "SynReceived"}
    /\ x.selected # NoConn => x.selected \in Conn /\ Up(x.stream[x.selected])
    /\ x.received # NoRoutes => x.selected # NoConn

\* No stream is left on a connection that has gone.
Clean(x) == \A c \in Conn : x.stream[c] # NoStream => x.tcp[c] \notin {"none", "FinWait"}

\* An established session has an established connection.
Carried(x) == \A c \in Conn : Up(x.stream[c]) => x.tcp[c] = "Established"

\* Streams whose deadline for closing has passed are closing.
Lasts(x, due) ==
    \A c \in due : /\ c \in Conn /\ x.stream[c] # NoStream /\ x.stream[c].closing # "no"
                   /\ x.tcp[c] \notin {"none", "FinWait"}

\* One session at most is established.
Single(x) == \A c, d \in Conn : Up(x.stream[c]) /\ Up(x.stream[d]) => c = d

\* The peer after a tick.
PeerOK(x) ==
    /\ Entered(x) /\ Clean(x) /\ Carried(x)
    /\ \A c \in Conn : Up(x.stream[c]) => x.selected = c

BgpInv ==
    /\ peer = [s \in Speaker |-> peer[s]]
    /\ \A s \in Speaker : PeerOK(peer[s])

-----------------------------------------------------------------------------
(* Results *)

IsResult(r) == r = [x |-> r.x, out |-> r.out] /\ IsPeer(r.x)

\* A result from its parts.
Parts(tcp, stream, selected, received, waiting, out) ==
    [x |-> [tcp |-> tcp, stream |-> stream, selected |-> selected,
            received |-> received, waiting |-> waiting], out |-> out]

\* A result is made of its parts.
LEMMA PartsOf ==
    ASSUME NEW r, IsResult(r)
    PROVE  r = Parts(r.x.tcp, r.x.stream, r.x.selected, r.x.received, r.x.waiting, r.out)
BY DEF IsResult, IsPeer, Parts

LEMMA ConnIs == Conn = Speaker \X Number
<1>1. ASSUME NEW c \in Conn PROVE c \in Speaker \X Number
    <2>1. PICK s \in Speaker, n \in Number : c = <<s, n>>
        BY DEF Conn
    <2> QED
        BY <2>1
<1>2. ASSUME NEW c \in Speaker \X Number PROVE c \in Conn
    <2>1. c = <<c[1], c[2]>> /\ c[1] \in Speaker /\ c[2] \in Number
        OBVIOUS
    <2>2. \E s \in Speaker, n \in Number : c = <<s, n>>
        BY <2>1, Zenon
    <2> QED
        BY <2>2 DEF Conn
<1> QED
    BY <1>1, <1>2

LEMMA PostIs ==
    ASSUME NEW r, r = [x |-> r.x, out |-> r.out], NEW c, NEW packet
    PROVE  Post(r, c, packet) = [x |-> r.x, out |-> Post(r, c, packet).out]
BY DEF Post

LEMMA SetTcpIs ==
    ASSUME NEW r, IsResult(r), NEW c \in Conn, NEW state
    PROVE  SetTcp(r, c, state) =
             Parts([r.x.tcp EXCEPT ![c] = state], r.x.stream, r.x.selected,
                   r.x.received, r.x.waiting, r.out)
<1>1. PICK tcp, stream, selected, received, waiting, out :
         r = Parts(tcp, stream, selected, received, waiting, out)
    BY PartsOf
<1> QED
    BY <1>1 DEF SetTcp, Parts

LEMMA AbortedIs ==
    ASSUME NEW r, IsResult(r), NEW c \in Conn
    PROVE  Aborted(r, c) = [x |-> SetTcp(r, c, "none").x, out |-> Aborted(r, c).out]
<1>1. SetTcp(r, c, "none") = [x |-> SetTcp(r, c, "none").x, out |-> SetTcp(r, c, "none").out]
    BY SetTcpIs DEF Parts
<1> QED
    BY <1>1, PostIs DEF Aborted

SetStream(r, c, st) == [r EXCEPT !.x.stream[c] = st]

LEMMA SetStreamIs ==
    ASSUME NEW r, IsResult(r), NEW c \in Conn, NEW st
    PROVE  SetStream(r, c, st) =
             Parts(r.x.tcp, [r.x.stream EXCEPT ![c] = st], r.x.selected,
                   r.x.received, r.x.waiting, r.out)
<1>1. PICK tcp, stream, selected, received, waiting, out :
         r = Parts(tcp, stream, selected, received, waiting, out)
    BY PartsOf
<1> QED
    BY <1>1 DEF SetStream, Parts

-----------------------------------------------------------------------------
(* The stages of a tick: connections *)

\* What is left when the streams of connections that have gone are dropped.
LEMMA SweptIs ==
    ASSUME NEW r, IsResult(r)
    PROVE  LET stale == Stale(r.x)
               lost == r.x.selected \in stale
           IN Swept(r) = Parts(r.x.tcp,
                   [c \in Conn |-> IF c \in stale THEN NoStream ELSE r.x.stream[c]],
                   IF lost THEN NoConn ELSE r.x.selected,
                   IF lost THEN NoRoutes ELSE r.x.received,
                   Swept(r).x.waiting, r.out)
<1> DEFINE stale == Stale(r.x)
           lost == r.x.selected \in stale
           S == [c \in Conn |-> IF c \in stale THEN NoStream ELSE r.x.stream[c]]
           routes == IF lost THEN NoRoutes ELSE r.x.received
           chosen == IF lost THEN NoConn ELSE r.x.selected
<1>1. PICK tcp, stream, selected, received, waiting, out :
         r = Parts(tcp, stream, selected, received, waiting, out)
    BY PartsOf
<1>2. /\ r.x.tcp = tcp /\ r.x.stream = stream /\ r.x.selected = selected
      /\ r.x.received = received /\ r.x.waiting = waiting /\ r.out = out
    BY <1>1 DEF Parts
<1>3. CASE stale = {}
    <2>1. Swept(r) = r
        BY <1>3 DEF Swept
    <2>2. S = r.x.stream
        BY <1>3 DEF IsResult, IsPeer
    <2> QED
        BY <1>3, <2>1, <2>2, PartsOf
<1>4. CASE stale # {}
    <2> DEFINE r1 == [r EXCEPT !.x.stream = S]
               r2 == [r1 EXCEPT !.x.received = routes]
               r3 == [r2 EXCEPT !.x.selected = chosen]
    <2>1. Swept(r) = [r EXCEPT !.x.stream = S, !.x.received = routes,
                               !.x.selected = chosen, !.x.waiting = TRUE]
        BY <1>1, <1>2, <1>4 DEF Swept, Parts
    <2> HIDE DEF S, routes, chosen
    <2>2. Swept(r) = [r3 EXCEPT !.x.waiting = TRUE]
        BY <2>1
    <2>3. r1 = Parts(tcp, S, selected, received, waiting, out)
        BY <1>1 DEF Parts
    <2> HIDE DEF r1
    <2>4. r2 = Parts(tcp, S, selected, routes, waiting, out)
        BY <2>3 DEF Parts
    <2> HIDE DEF r2
    <2>5. r3 = Parts(tcp, S, chosen, routes, waiting, out)
        BY <2>4 DEF Parts
    <2> HIDE DEF r3
    <2>6. Swept(r) = Parts(tcp, S, chosen, routes, TRUE, out)
        BY <2>2, <2>5 DEF Parts
    <2> DEFINE yes == TRUE
    <2> HIDE DEF yes
    <2>7. Swept(r) = Parts(tcp, S, chosen, routes, yes, out)
        BY <2>6 DEF yes
    <2>8. Swept(r).x.waiting = yes
        BY <2>7 DEF Parts
    <2> QED
        BY <1>2, <2>7, <2>8 DEF S, routes, chosen
<1> QED
    BY <1>3, <1>4

\* Streams of connections that have gone are dropped, and with the selected
\* one its routes.
LEMMA SweptStep ==
    ASSUME NEW r, IsResult(r), Entered(r.x), NEW due, Lasts(r.x, due)
    PROVE  /\ IsResult(Swept(r)) /\ Entered(Swept(r).x) /\ Clean(Swept(r).x)
           /\ Lasts(Swept(r).x, due)
<1> DEFINE stale == Stale(r.x)
           lost == r.x.selected \in stale
           y == Swept(r).x
<1>1. PICK tcp, stream, selected, received, waiting, out :
         r = Parts(tcp, stream, selected, received, waiting, out)
    BY PartsOf
<1>2. /\ r.x.tcp = tcp /\ r.x.stream = stream /\ r.x.selected = selected
      /\ r.x.received = received
      /\ Swept(r) = Parts(tcp, [c \in Conn |-> IF c \in stale THEN NoStream ELSE stream[c]],
                          IF lost THEN NoConn ELSE selected,
                          IF lost THEN NoRoutes ELSE received,
                          y.waiting, out)
    <2>1. /\ r.x.tcp = tcp /\ r.x.stream = stream /\ r.x.selected = selected
          /\ r.x.received = received /\ r.x.waiting = waiting /\ r.out = out
        BY <1>1 DEF Parts
    <2> QED
        BY <2>1, SweptIs
<1>3. stale = {c \in Conn : r.x.stream[c] # NoStream /\ r.x.tcp[c] \in {"none", "FinWait"}}
    BY DEF Stale, Streams
<1> HIDE DEF stale
<1>4. /\ y.tcp = r.x.tcp
      /\ y.stream = [c \in Conn |-> IF c \in stale THEN NoStream ELSE r.x.stream[c]]
      /\ y.selected = IF lost THEN NoConn ELSE r.x.selected
      /\ y.received = IF lost THEN NoRoutes ELSE r.x.received
      /\ y = [tcp |-> y.tcp, stream |-> y.stream, selected |-> y.selected,
              received |-> y.received, waiting |-> y.waiting]
      /\ Swept(r) = [x |-> y, out |-> Swept(r).out]
    BY <1>2 DEF Parts
<1> HIDE DEF y
<1>5. IsPeer(y)
    BY <1>4 DEF Entered, IsPeer
<1>6. Entered(y)
    BY <1>3, <1>4, <1>5, ZenonT(40) DEF Entered, Up
<1>7. Clean(y) /\ Lasts(y, due)
    BY <1>3, <1>4 DEF Clean, Lasts
<1> QED
    BY <1>4, <1>5, <1>6, <1>7 DEF IsResult, y

\* A new stream has no session yet.
LEMMA NewStreamOK ==
    /\ IsStream(NewStream) /\ NewStream # NoStream
    /\ ~Up(NewStream) /\ ~NewStream.started
BY DEF NewStream, IsStream, NoStream, Up

LEMMA StreamIsSome ==
    ASSUME NEW st, IsStream(st)
    PROVE  st # NoStream
BY DEF IsStream, NoStream

\* A connection that the peer has opened gets a stream, or is aborted.
LEMMA AcceptedStep ==
    ASSUME NEW s \in Speaker, NEW r, IsResult(r), Entered(r.x), Clean(r.x),
           NEW due, Lasts(r.x, due)
    PROVE  /\ IsResult(Accepted(s, r)) /\ Entered(Accepted(s, r).x)
           /\ Clean(Accepted(s, r).x) /\ Lasts(Accepted(s, r).x, due)
<1>1. CASE Incoming(s, r.x) = {}
    BY <1>1 DEF Accepted
<1>2. CASE Incoming(s, r.x) # {}
    <2> DEFINE c == CHOOSE c \in Incoming(s, r.x) : TRUE
    <2>1. c \in Incoming(s, r.x)
        BY <1>2
    <2>2. /\ c \in Conn /\ r.x.stream[c] = NoStream
          /\ r.x.tcp[c] \in {"SynReceived", "Established", "CloseWait"}
        BY <2>1, ConnIs DEF Incoming, Speaker, Other
    <2>3. Accepted(s, r) = IF Crowded(r.x) THEN Aborted(r, c)
                           ELSE [r EXCEPT !.x.stream[c] = NewStream]
        BY <1>2 DEF Accepted
    <2> HIDE DEF c
    <2>4. CASE Crowded(r.x)
        <3> DEFINE y == SetTcp(r, c, "none").x
        <3>1. /\ Accepted(s, r).x = y
              /\ Accepted(s, r) = [x |-> y, out |-> Accepted(s, r).out]
            BY <2>2, <2>3, <2>4, AbortedIs
        <3>3. y = [tcp |-> [r.x.tcp EXCEPT ![c] = "none"], stream |-> r.x.stream,
                   selected |-> r.x.selected, received |-> r.x.received, waiting |-> r.x.waiting]
            BY <2>2, SetTcpIs DEF Parts
        <3> HIDE DEF y
        <3>4. IsPeer(y)
            BY <2>2, <3>3 DEF Entered, IsPeer, TcpState
        <3>5. Entered(y) /\ Clean(y) /\ Lasts(y, due)
            BY <2>2, <3>3, <3>4 DEF Entered, Clean, IsPeer, Lasts
        <3> QED
            BY <3>1, <3>4, <3>5 DEF IsResult
    <2>5. CASE ~Crowded(r.x)
        <3> DEFINE y == Accepted(s, r).x
        <3>1. Accepted(s, r) = SetStream(r, c, NewStream)
            BY <2>3, <2>5 DEF SetStream
        <3>2. /\ Accepted(s, r) = [x |-> y, out |-> Accepted(s, r).out]
              /\ y = [tcp |-> r.x.tcp, stream |-> [r.x.stream EXCEPT ![c] = NewStream],
                      selected |-> r.x.selected, received |-> r.x.received,
                      waiting |-> r.x.waiting]
            BY <2>2, <3>1, SetStreamIs DEF Parts
        <3> HIDE DEF y
        <3>3. /\ y.stream[c] = NewStream
              /\ \A k \in Conn \ {c} : y.stream[k] = r.x.stream[k]
            BY <2>2, <3>2 DEF Entered, IsPeer
        <3>4. IsPeer(y)
            BY <2>2, <3>2, <3>3, NewStreamOK DEF Entered, IsPeer
        <3>5. r.x.selected # c
            BY <2>2, NewStreamOK DEF Entered, Up, NoConn, Conn
        <3>6. Entered(y) /\ Clean(y) /\ Lasts(y, due)
            BY <2>2, <3>2, <3>3, <3>4, <3>5, NewStreamOK DEF Entered, Clean, Lasts
        <3> QED
            BY <3>2, <3>4, <3>6 DEF IsResult, y
    <2> QED
        BY <2>4, <2>5
<1> QED
    BY <1>1, <1>2

\* A speaker without a stream opens a connection.
LEMMA ConnectedStep ==
    ASSUME NEW s \in Speaker, NEW r, IsResult(r), Entered(r.x), Clean(r.x),
           NEW due, Lasts(r.x, due)
    PROVE  /\ IsResult(Connected(s, r)) /\ Entered(Connected(s, r).x)
           /\ Clean(Connected(s, r).x) /\ Lasts(Connected(s, r).x, due)
<1>1. CASE ~Opens(s, r)
    BY <1>1 DEF Connected
<1>2. CASE Opens(s, r)
    <2> DEFINE c == CHOOSE c \in Free(s, r) : \A k \in Free(s, r) : c[2] <= k[2]
    <2>1. \A k \in Conn : r.x.stream[k] = NoStream
        BY <1>2 DEF Opens, Streams
    <2>2. r.x.selected = NoConn
        BY <2>1 DEF Entered, Up
    <2>3. Connected(s, r) =
            Post([SetTcp(r, c, "SynSent") EXCEPT !.x.stream[c] = NewStream, !.x.waiting = TRUE],
                 c, Packet("SYN"))
        BY <1>2 DEF Connected
    <2> HIDE DEF c
    <2> DEFINE y == Connected(s, r).x
    <2>4. /\ Connected(s, r) = [x |-> y, out |-> Connected(s, r).out]
          /\ y = [tcp |-> [r.x.tcp EXCEPT ![c] = "SynSent"],
                  stream |-> [r.x.stream EXCEPT ![c] = NewStream],
                  selected |-> r.x.selected, received |-> r.x.received, waiting |-> TRUE]
        <3>1. PICK tcp, stream, selected, received, waiting, out :
                 r = Parts(tcp, stream, selected, received, waiting, out)
            BY PartsOf
        <3> DEFINE r1 == SetTcp(r, c, "SynSent")
                   r2 == [r1 EXCEPT !.x.stream[c] = NewStream, !.x.waiting = TRUE]
                   r3 == [r1 EXCEPT !.x.stream[c] = NewStream]
        <3>2. r1 = Parts([tcp EXCEPT ![c] = "SynSent"], stream, selected, received, waiting, out)
            BY <3>1 DEF SetTcp, Parts
        <3> HIDE DEF r1
        <3>3. r2 = Parts([tcp EXCEPT ![c] = "SynSent"], [stream EXCEPT ![c] = NewStream],
                         selected, received, TRUE, out)
            <4>1. r3 = Parts([tcp EXCEPT ![c] = "SynSent"], [stream EXCEPT ![c] = NewStream],
                             selected, received, waiting, out)
                BY <3>2 DEF Parts
            <4>2. r2 = [r3 EXCEPT !.x.waiting = TRUE]
                OBVIOUS
            <4> HIDE DEF r2, r3
            <4> QED
                BY <4>1, <4>2 DEF Parts
        <3>4. Connected(s, r) = Post(r2, c, Packet("SYN"))
            BY <2>3 DEF r1
        <3> HIDE DEF r2
        <3>5. Connected(s, r) = [x |-> r2.x, out |-> Connected(s, r).out]
            BY <3>3, <3>4, PostIs DEF Parts
        <3>6. /\ r.x.tcp = tcp /\ r.x.stream = stream /\ r.x.selected = selected
              /\ r.x.received = received
            BY <3>1 DEF Parts
        <3>7. y = r2.x
            BY <3>5
        <3> HIDE DEF y
        <3> QED
            BY <3>3, <3>5, <3>6, <3>7 DEF Parts
    <2> HIDE DEF y
    <2>5. \A k \in Conn : /\ y.stream[k] = IF k = c THEN NewStream ELSE NoStream
                          /\ y.tcp[k] = IF k = c THEN "SynSent" ELSE r.x.tcp[k]
        BY <2>1, <2>4 DEF Entered, IsPeer
    <2>6. IsPeer(y)
        BY <2>4, <2>5, NewStreamOK DEF Entered, IsPeer, TcpState
    <2>7. Entered(y) /\ Clean(y) /\ Lasts(y, due)
        BY <2>1, <2>2, <2>4, <2>5, <2>6, NewStreamOK DEF Entered, Clean, Lasts
    <2> QED
        BY <2>4, <2>6, <2>7 DEF IsResult, y
<1> QED
    BY <1>1, <1>2

-----------------------------------------------------------------------------
(* The stages of a tick: sessions *)

Stream(state, started, closing, known, output, advertised) ==
    [state |-> state, started |-> started, closing |-> closing, known |-> known,
     output |-> output, advertised |-> advertised]

\* One or two fields of a stream are replaced.
LEMMA StreamPut ==
    ASSUME NEW st, IsStream(st), NEW v, NEW w
    PROVE  /\ [st EXCEPT !.state = v, !.closing = w] =
                Stream(v, st.started, w, st.known, st.output, st.advertised)
           /\ [st EXCEPT !.closing = w, !.state = v] =
                Stream(v, st.started, w, st.known, st.output, st.advertised)
           /\ [st EXCEPT !.started = w, !.state = v] =
                Stream(v, w, st.closing, st.known, st.output, st.advertised)
           /\ [st EXCEPT !.state = v, !.known = w] =
                Stream(v, st.started, st.closing, w, st.output, st.advertised)
           /\ [st EXCEPT !.state = v] =
                Stream(v, st.started, st.closing, st.known, st.output, st.advertised)
<1>1. PICK state, started, closing, known, output, advertised :
         st = Stream(state, started, closing, known, output, advertised)
    BY DEF IsStream, Stream
<1>2. /\ st.state = state /\ st.started = started /\ st.closing = closing
      /\ st.known = known /\ st.output = output /\ st.advertised = advertised
    BY <1>1 DEF Stream
<1> DEFINE st1 == [st EXCEPT !.state = v]
           st2 == [st EXCEPT !.closing = w]
           st3 == [st EXCEPT !.started = w]
<1>3. /\ [st EXCEPT !.state = v, !.closing = w] = [st1 EXCEPT !.closing = w]
      /\ [st EXCEPT !.closing = w, !.state = v] = [st2 EXCEPT !.state = v]
      /\ [st EXCEPT !.started = w, !.state = v] = [st3 EXCEPT !.state = v]
      /\ [st EXCEPT !.state = v, !.known = w] = [st1 EXCEPT !.known = w]
    OBVIOUS
<1>4. /\ st1 = Stream(v, started, closing, known, output, advertised)
      /\ st2 = Stream(state, started, w, known, output, advertised)
      /\ st3 = Stream(state, w, closing, known, output, advertised)
    BY <1>1 DEF Stream
<1>5. [st EXCEPT !.state = v] = st1
    OBVIOUS
<1> HIDE DEF st1, st2, st3
<1>6. [st1 EXCEPT !.closing = w] = Stream(v, started, w, known, output, advertised)
    BY <1>4 DEF Stream
<1>7. [st2 EXCEPT !.state = v] = Stream(v, started, w, known, output, advertised)
    BY <1>4 DEF Stream
<1>8. [st3 EXCEPT !.state = v] = Stream(v, w, closing, known, output, advertised)
    BY <1>4 DEF Stream
<1>9. [st1 EXCEPT !.known = w] = Stream(v, started, closing, w, output, advertised)
    BY <1>4 DEF Stream
<1> QED
    BY <1>2, <1>3, <1>4, <1>5, <1>6, <1>7, <1>8, <1>9

LEMMA OutputPut ==
    ASSUME NEW st, IsStream(st), NEW v
    PROVE  [st EXCEPT !.output = v] =
             Stream(st.state, st.started, st.closing, st.known, v, st.advertised)
<1>1. PICK state, started, closing, known, output, advertised :
         st = Stream(state, started, closing, known, output, advertised)
    BY DEF IsStream, Stream
<1> QED
    BY <1>1 DEF Stream

LEMMA ClosingOK ==
    ASSUME NEW st, IsStream(st)
    PROVE  /\ IsStream(Closing(st)) /\ Closing(st).closing = "soon"
           /\ Closing(st).started = st.started
           /\ IsStream(Failed(st)) /\ Failed(st).closing = "soon"
           /\ Failed(st).started = st.started
<1>1. /\ IsStream(Closing(st)) /\ Closing(st).closing = "soon" /\ Closing(st).state = "Idle"
      /\ Closing(st).started = st.started
    <2>1. Closing(st) =
            Stream("Idle", st.started, "soon", st.known, st.output, st.advertised)
        BY StreamPut DEF Closing
    <2> QED
        BY <2>1 DEF IsStream, Stream
<1> QED
    BY <1>1 DEF IsStream, Failed

LEMMA QueuedOK ==
    ASSUME NEW st, IsStream(st), NEW kind
    PROVE  /\ IsStream(Queued(st, kind)) /\ Queued(st, kind).started = st.started
<1>1. CASE Len(st.output) >= TxLimit
    BY <1>1, ClosingOK DEF Queued
<1>2. CASE ~(Len(st.output) >= TxLimit)
    <2>1. Queued(st, kind) = [st EXCEPT !.output = Append(st.output, Packet(kind))]
        BY <1>2 DEF Queued
    <2> QED
        BY <2>1 DEF IsStream, Stream
<1> QED
    BY <1>1, <1>2

LEMMA StartedOK ==
    ASSUME NEW st, IsStream(st)
    PROVE  IsStream(Started(st)) /\ Started(st).started
<1>1. CASE st.started
    BY <1>1 DEF Started
<1>2. CASE ~st.started
    <2> DEFINE new == [st EXCEPT !.started = TRUE, !.state = "OpenSent"]
    <2>3. new =
            Stream("OpenSent", TRUE, st.closing, st.known, st.output, st.advertised)
        BY StreamPut
    <2>1. IsStream(new) /\ new.started
        BY <2>3 DEF IsStream, Stream
    <2>2. Started(st) = Queued(new, "open")
        BY <1>2 DEF Started
    <2> HIDE DEF new
    <2> QED
        BY <2>1, <2>2, QueuedOK
<1> QED
    BY <1>1, <1>2

LEMMA HandledOK ==
    ASSUME NEW st, IsStream(st), st.started, NEW message
    PROVE  IsStream(Handled(st, message))
<1>1. IsStream(Refused(st))
    BY ClosingOK, QueuedOK DEF Refused
<1>2. IsStream(Queued(st, "keepalive")) /\ IsStream(Closing(st))
    BY ClosingOK, QueuedOK
<1>3. IsStream(Queued([st EXCEPT !.state = "OpenConfirm", !.known = TRUE], "keepalive"))
    <2> DEFINE new == [st EXCEPT !.state = "OpenConfirm", !.known = TRUE]
    <2>3. new =
            Stream("OpenConfirm", st.started, st.closing, TRUE, st.output, st.advertised)
        BY StreamPut
    <2>1. IsStream(new)
        BY <2>3 DEF IsStream, Stream
    <2> HIDE DEF new
    <2>2. IsStream(Queued(new, "keepalive"))
        BY <2>1, QueuedOK
    <2> QED
        BY <2>2 DEF new
<1>4. ASSUME st.state \in {"OpenConfirm", "Established"}
      PROVE  IsStream([st EXCEPT !.state = "Established"])
    <2>1. [st EXCEPT !.state = "Established"] =
            Stream("Established", st.started, st.closing, st.known, st.output, st.advertised)
        BY StreamPut
    <2> QED
        BY <1>4, <2>1 DEF IsStream, Stream
<1> HIDE DEF Refused
<1> QED
    BY <1>1, <1>2, <1>3, <1>4 DEF Handled

\* What a stream makes of the state of its connection and of a message.
LEMMA ServedOK ==
    ASSUME NEW state \in TcpState, state \notin {"none", "FinWait"}, NEW st, IsStream(st),
           st.started => state \notin {"SynSent", "SynReceived"}, NEW message
    PROVE  LET new == Served(state, st, message) IN
           /\ IsStream(new)
           /\ new.started => state \notin {"SynSent", "SynReceived"}
           /\ Up(new) => state = "Established"
           /\ st.closing # "no" => new.closing # "no"
<1> DEFINE new == Served(state, st, message)
<1>1. CASE Ended(state, st)
    <2>1. new = [st EXCEPT !.closing = "now", !.state = "Active"]
        BY <1>1 DEF Served
    <2>2. IsStream(new) /\ new.closing = "now"
        BY <2>1 DEF IsStream, Stream
    <2> QED
        BY <1>1, <2>2 DEF Up, Ended
<1>2. CASE ~Ended(state, st) /\ (state # "Established" \/ st.closing # "no")
    <2>1. new = st
        BY <1>2 DEF Served
    <2> QED
        BY <1>2, <2>1 DEF Up, Ended, TcpState, IsStream
<1>3. CASE state = "Established" /\ st.closing = "no"
    <2>1. new = Handled(Started(st), message)
        BY <1>3 DEF Served, Ended
    <2> QED
        BY <1>3, <2>1, StartedOK, HandledOK
<1> QED
    BY <1>1, <1>2, <1>3 DEF Ended

\* The peer after its streams were served: the selection is not yet renewed.
Running(x) ==
    /\ IsPeer(x) /\ Clean(x) /\ Carried(x)
    /\ \A c \in Conn : x.stream[c] # NoStream /\ x.stream[c].started =>
                          x.tcp[c] \notin {"SynSent", "SynReceived"}
    /\ x.received # NoRoutes => x.selected # NoConn

\* The parts of a result in which only the streams are replaced.
LEMMA StreamsPut ==
    ASSUME NEW r, IsResult(r), NEW streams
    PROVE  LET q == [r EXCEPT !.x.stream = streams] IN
           /\ q = [x |-> q.x, out |-> q.out]
           /\ q.x = [tcp |-> r.x.tcp, stream |-> streams, selected |-> r.x.selected,
                     received |-> r.x.received, waiting |-> r.x.waiting]
<1>1. PICK tcp, stream, selected, received, waiting, out :
         r = Parts(tcp, stream, selected, received, waiting, out)
    BY PartsOf
<1> QED
    BY <1>1 DEF Parts

LEMMA AllServedStep ==
    ASSUME NEW r, IsResult(r), Entered(r.x), Clean(r.x), NEW c, NEW message,
           NEW due, Lasts(r.x, due)
    PROVE  LET q == AllServed(r, c, message) IN
           IsResult(q) /\ Running(q.x) /\ Lasts(q.x, due)
<1> DEFINE q == AllServed(r, c, message)
           told(k) == IF k = c THEN message ELSE Nothing
           new(k) == Served(r.x.tcp[k], r.x.stream[k], told(k))
           streams == [k \in Conn |-> IF r.x.stream[k] = NoStream THEN NoStream ELSE new(k)]
<1>1. q = [r EXCEPT !.x.stream = streams]
    <2>1. PICK tcp, stream, selected, received, waiting, out :
             r = Parts(tcp, stream, selected, received, waiting, out)
        BY PartsOf
    <2>2. r.x.tcp = tcp /\ r.x.stream = stream
        BY <2>1 DEF Parts
    <2> QED
        BY <2>1, <2>2 DEF AllServed, Parts
<1>2. ASSUME NEW k \in Conn, r.x.stream[k] # NoStream
      PROVE  /\ IsStream(new(k))
             /\ new(k).started => r.x.tcp[k] \notin {"SynSent", "SynReceived"}
             /\ Up(new(k)) => r.x.tcp[k] = "Established"
             /\ r.x.stream[k].closing # "no" => new(k).closing # "no"
    <2> DEFINE state == r.x.tcp[k]
               st == r.x.stream[k]
    <2>1. /\ state \in TcpState /\ state \notin {"none", "FinWait"} /\ IsStream(st)
          /\ st.started => state \notin {"SynSent", "SynReceived"}
        BY <1>2 DEF Entered, IsPeer, Clean
    <2> HIDE DEF state, st, told
    <2>2. LET m == Served(state, st, told(k)) IN
           /\ IsStream(m)
           /\ m.started => state \notin {"SynSent", "SynReceived"}
           /\ Up(m) => state = "Established"
           /\ st.closing # "no" => m.closing # "no"
        BY <2>1, ServedOK
    <2> QED
        BY <2>2 DEF state, st
<1> HIDE DEF new
<1>3. \A k \in Conn : streams[k] = IF r.x.stream[k] = NoStream THEN NoStream ELSE new(k)
    OBVIOUS
<1>4. streams = [k \in Conn |-> streams[k]]
    OBVIOUS
<1> HIDE DEF streams
<1>5. /\ q = [x |-> q.x, out |-> q.out]
      /\ q.x = [tcp |-> r.x.tcp, stream |-> streams, selected |-> r.x.selected,
                received |-> r.x.received, waiting |-> r.x.waiting]
    BY <1>1, StreamsPut
<1> HIDE DEF q
<1>6. IsPeer(q.x)
    BY <1>2, <1>3, <1>4, <1>5 DEF IsPeer, Entered
<1>7. Running(q.x)
    <2>1. Clean(q.x)
        BY <1>3, <1>5 DEF Clean
    <2>2. Carried(q.x)
        BY <1>2, <1>3, <1>5 DEF Carried, Up
    <2> QED
        BY <1>2, <1>3, <1>5, <1>6, <2>1, <2>2 DEF Running, Entered
<1>8. Lasts(q.x, due)
    BY <1>2, <1>3, <1>5, StreamIsSome DEF Lasts
<1> QED
    BY <1>5, <1>6, <1>7, <1>8 DEF IsResult, q

LEMMA LosersAre ==
    ASSUME NEW x, IsPeer(x)
    PROVE  /\ \A c \in Losers(x) :
                 c \in Conn /\ x.stream[c] # NoStream /\ x.stream[c].closing = "no"
           /\ \A c, d \in Conn : Up(x.stream[c]) /\ Up(x.stream[d]) /\ c # d =>
                                    c \in Losers(x) \/ d \in Losers(x)
<1>1. \A c \in Losers(x) : c \in Conn /\ x.stream[c] # NoStream /\ x.stream[c].closing = "no"
    BY DEF Losers, Candidates, Usable
<1>2. ASSUME NEW c \in Conn, NEW d \in Conn, Up(x.stream[c]), Up(x.stream[d]), c # d
      PROVE  c \in Losers(x) \/ d \in Losers(x)
    <2> DEFINE winner == CHOOSE a \in Winners(x) : \A k \in Winners(x) : a[2] <= k[2]
    <2>1. /\ c \in Candidates(x) /\ d \in Candidates(x) /\ x.stream[c].known
        BY <1>2 DEF IsPeer, IsStream, Candidates, Usable, Up
    <2>2. Winners(x) # {}
        BY <1>2, <2>1 DEF Winners
    <2>3. Losers(x) = Candidates(x) \ {winner}
        BY <2>1, <2>2 DEF Losers
    <2> HIDE DEF winner
    <2> QED
        BY <1>2, <2>1, <2>3
<1> QED
    BY <1>1, <1>2

\* Of connections that collide, all but one fail.
LEMMA ResolvedStep ==
    ASSUME NEW r, IsResult(r), Running(r.x), NEW due, Lasts(r.x, due)
    PROVE  LET q == Resolved(r) IN
           IsResult(q) /\ Running(q.x) /\ Single(q.x) /\ Lasts(q.x, due)
<1> DEFINE q == Resolved(r)
           losers == Losers(r.x)
           streams == [c \in Conn |-> IF c \in losers THEN Failed(r.x.stream[c])
                                      ELSE r.x.stream[c]]
<1>1. q = [r EXCEPT !.x.stream = streams]
    <2>1. PICK tcp, stream, selected, received, waiting, out :
             r = Parts(tcp, stream, selected, received, waiting, out)
        BY PartsOf
    <2>2. r.x.stream = stream
        BY <2>1 DEF Parts
    <2> HIDE DEF losers
    <2> QED
        BY <2>1, <2>2 DEF Resolved, Parts, losers
<1>2. /\ \A c \in losers : c \in Conn /\ r.x.stream[c] # NoStream /\ r.x.stream[c].closing = "no"
      /\ \A c, d \in Conn : Up(r.x.stream[c]) /\ Up(r.x.stream[d]) /\ c # d =>
                               c \in losers \/ d \in losers
    BY LosersAre DEF Running
<1> HIDE DEF losers
<1>3. \A c \in losers : /\ IsStream(r.x.stream[c]) /\ IsStream(Failed(r.x.stream[c]))
                        /\ Failed(r.x.stream[c]).closing = "soon"
                        /\ Failed(r.x.stream[c]).started = r.x.stream[c].started
    BY <1>2, ClosingOK DEF Running, IsPeer
<1>4. /\ \A c \in Conn : streams[c] = IF c \in losers THEN Failed(r.x.stream[c])
                                      ELSE r.x.stream[c]
      /\ streams = [c \in Conn |-> streams[c]]
    OBVIOUS
<1> HIDE DEF streams
<1>5. /\ q = [x |-> q.x, out |-> q.out]
      /\ q.x = [tcp |-> r.x.tcp, stream |-> streams, selected |-> r.x.selected,
                received |-> r.x.received, waiting |-> r.x.waiting]
    BY <1>1, StreamsPut
<1> HIDE DEF q
<1>6. IsPeer(q.x)
    <2>1. \A c \in Conn : streams[c] = NoStream \/ IsStream(streams[c])
        BY <1>3, <1>4 DEF IsPeer, Running
    <2>2. /\ q.x.tcp = r.x.tcp /\ q.x.stream = streams
          /\ q.x = [tcp |-> q.x.tcp, stream |-> q.x.stream, selected |-> q.x.selected,
                    received |-> q.x.received, waiting |-> q.x.waiting]
        BY <1>5
    <2> QED
        BY <1>4, <2>1, <2>2 DEF IsPeer, Running
<1>7. \A c \in Conn : Up(q.x.stream[c]) => c \notin losers /\ Up(r.x.stream[c])
    BY <1>3, <1>4, <1>5 DEF Up
<1>8. Clean(q.x) /\ Carried(q.x)
    BY <1>2, <1>4, <1>5, <1>7 DEF Clean, Carried, Running
<1>9. Running(q.x)
    BY <1>2, <1>3, <1>4, <1>5, <1>6, <1>8 DEF Running
<1>10. Single(q.x)
    BY <1>2, <1>7 DEF Single
<1>11. Lasts(q.x, due)
    BY <1>2, <1>4, <1>5 DEF Lasts
<1> QED
    BY <1>5, <1>6, <1>9, <1>10, <1>11 DEF IsResult, q

\* The session that is established is selected, and the routes of another go.
LEMMA SelectedStep ==
    ASSUME NEW r, IsResult(r), Running(r.x), Single(r.x), NEW due, Lasts(r.x, due)
    PROVE  LET q == Selected(r) IN
           IsResult(q) /\ PeerOK(q.x) /\ Lasts(q.x, due)
<1> DEFINE q == Selected(r)
           up == {c \in Conn : Up(r.x.stream[c])}
           chosen == Selection(r.x)
           kept == IF chosen = r.x.selected THEN r.x.received ELSE NoRoutes
<1>1. /\ q = [x |-> q.x, out |-> q.out]
      /\ q.x = [tcp |-> r.x.tcp, stream |-> r.x.stream, selected |-> chosen,
                received |-> kept, waiting |-> r.x.waiting]
    <2>1. PICK tcp, stream, selected, received, waiting, out :
             r = Parts(tcp, stream, selected, received, waiting, out)
        BY PartsOf
    <2> DEFINE r1 == [r EXCEPT !.x.received = kept]
    <2>2. q = [r EXCEPT !.x.received = kept, !.x.selected = chosen]
        BY DEF Selected, Kept
    <2> HIDE DEF q, chosen, kept
    <2>3. q = [r1 EXCEPT !.x.selected = chosen]
        BY <2>2
    <2>4. r1 = Parts(tcp, stream, selected, kept, waiting, out)
        BY <2>1 DEF Parts
    <2> HIDE DEF r1
    <2>5. q = Parts(tcp, stream, chosen, kept, waiting, out)
        BY <2>3, <2>4 DEF Parts
    <2> QED
        BY <2>1, <2>5 DEF Parts
<1>2. /\ chosen # NoConn => chosen \in up
      /\ up # {} => chosen \in up
    <2>1. chosen = IF r.x.selected \in up THEN r.x.selected
                   ELSE IF up = {} THEN NoConn ELSE CHOOSE c \in up : TRUE
        BY DEF Selection
    <2> HIDE DEF up, chosen
    <2> QED
        BY <2>1
<1> HIDE DEF q, chosen
<1>3. IsPeer(q.x)
    BY <1>1 DEF IsPeer, Running
<1>4. Entered(q.x)
    BY <1>1, <1>2, <1>3 DEF Running, Entered
<1>5. Clean(q.x) /\ Carried(q.x) /\ Lasts(q.x, due)
    BY <1>1 DEF Running, Clean, Carried, Lasts
<1>6. \A c \in Conn : Up(q.x.stream[c]) => q.x.selected = c
    BY <1>1, <1>2 DEF Single
<1> QED
    BY <1>1, <1>3, <1>4, <1>5, <1>6 DEF IsResult, PeerOK, q

\* An update of the selected session is learned.
LEMMA LearnedStep ==
    ASSUME NEW r, IsResult(r), PeerOK(r.x), NEW c, NEW message,
           message.kind = "update" => c \in Conn, NEW due, Lasts(r.x, due)
    PROVE  LET q == Learned(r, c, message) IN
           IsResult(q) /\ PeerOK(q.x) /\ Lasts(q.x, due)
<1> DEFINE q == Learned(r, c, message)
<1>1. CASE ~(message.kind = "update" /\ r.x.selected = c)
    BY <1>1 DEF Learned
<1>2. CASE message.kind = "update" /\ r.x.selected = c
    <2>1. PICK routes : /\ q = [x |-> q.x, out |-> q.out]
                        /\ q.x = [tcp |-> r.x.tcp, stream |-> r.x.stream, selected |-> c,
                                  received |-> routes, waiting |-> r.x.waiting]
        <3>1. PICK tcp, stream, selected, received, waiting, out :
                 r = Parts(tcp, stream, selected, received, waiting, out)
            BY PartsOf
        <3> DEFINE routes == [received EXCEPT ![message.prefix] = message.value]
        <3>2. q = Parts(tcp, stream, selected, routes, waiting, out)
            BY <1>2, <3>1 DEF Learned, Parts
        <3> HIDE DEF routes
        <3> QED
            BY <1>2, <3>1, <3>2, SMTT(30) DEF Parts
    <2>2. c # NoConn
        BY <1>2 DEF NoConn, Conn, Speaker
    <2> HIDE DEF q
    <2>3. IsPeer(q.x)
        BY <2>1 DEF IsPeer, PeerOK, Entered
    <2>4. PeerOK(q.x) /\ Lasts(q.x, due)
        BY <1>2, <2>1, <2>2, <2>3 DEF PeerOK, Entered, Clean, Carried, Lasts
    <2> QED
        BY <2>1, <2>3, <2>4 DEF IsResult, q
<1> QED
    BY <1>1, <1>2

LEMMA AdvertisingOK ==
    ASSUME NEW st, IsStream(st), NEW nets
    PROVE  LET new == Advertising(st, nets) IN
           /\ IsStream(new) /\ new.started = st.started
           /\ new.state = st.state /\ new.closing = st.closing
<1> DEFINE new == Advertising(st, nets)
<1>1. PICK notes, queue : new = [st EXCEPT !.advertised = notes, !.output = queue]
    BY DEF Advertising
<1>2. new = [[st EXCEPT !.advertised = notes] EXCEPT !.output = queue]
    BY <1>1
<1> DEFINE st1 == [st EXCEPT !.advertised = notes]
<1>3. st1 = Stream(st.state, st.started, st.closing, st.known, st.output, notes)
    <2>1. PICK state, started, closing, known, output, advertised :
             st = Stream(state, started, closing, known, output, advertised)
        BY DEF IsStream, Stream
    <2> QED
        BY <2>1 DEF Stream
<1> HIDE DEF new, st1
<1>4. new = Stream(st.state, st.started, st.closing, st.known, queue, notes)
    BY <1>2, <1>3 DEF Stream, st1
<1> QED
    BY <1>4 DEF IsStream, Stream, new

\* The selected session advertises what its peer does not know.
LEMMA AdvertisedStep ==
    ASSUME NEW s \in Speaker, NEW r, IsResult(r), PeerOK(r.x), NEW due, Lasts(r.x, due)
    PROVE  LET q == Advertised(s, r) IN
           IsResult(q) /\ PeerOK(q.x) /\ Lasts(q.x, due)
<1> DEFINE q == Advertised(s, r)
           c == r.x.selected
           new == Advertising(r.x.stream[c], network[s])
<1>1. CASE c = NoConn
    BY <1>1 DEF Advertised
<1>2. CASE c # NoConn
    <2>1. c \in Conn /\ Up(r.x.stream[c]) /\ IsStream(r.x.stream[c])
        BY <1>2 DEF PeerOK, Entered, IsPeer, Up
    <2>2. /\ IsStream(new) /\ new.started = r.x.stream[c].started
          /\ new.state = r.x.stream[c].state /\ new.closing = r.x.stream[c].closing
        BY <2>1, AdvertisingOK
    <2>3. q = SetStream(r, c, new)
        <3>1. PICK tcp, stream, selected, received, waiting, out :
                 r = Parts(tcp, stream, selected, received, waiting, out)
            BY PartsOf
        <3>2. c = selected /\ r.x.stream = stream
            BY <3>1 DEF Parts
        <3> QED
            BY <1>2, <3>1, <3>2 DEF Advertised, SetStream, Parts
    <2> HIDE DEF q, new
    <2>4. /\ q = [x |-> q.x, out |-> q.out]
          /\ q.x = [tcp |-> r.x.tcp, stream |-> [r.x.stream EXCEPT ![c] = new],
                    selected |-> c, received |-> r.x.received, waiting |-> r.x.waiting]
        BY <2>1, <2>3, SetStreamIs DEF Parts
    <2>5. /\ q.x.stream[c] = new
          /\ \A k \in Conn \ {c} : q.x.stream[k] = r.x.stream[k]
        BY <2>1, <2>4 DEF PeerOK, Entered, IsPeer
    <2>6. IsPeer(q.x)
        BY <2>1, <2>2, <2>4, <2>5, SMTT(30) DEF PeerOK, Entered, IsPeer
    <2>7. new # NoStream /\ r.x.stream[c] # NoStream /\ Up(new)
        BY <2>1, <2>2, StreamIsSome DEF Up
    <2>8. Entered(q.x)
        BY <2>1, <2>2, <2>4, <2>5, <2>6, <2>7, SMTT(30) DEF PeerOK, Entered
    <2>9. Clean(q.x) /\ Carried(q.x) /\ Lasts(q.x, due)
        BY <2>1, <2>2, <2>4, <2>5, <2>7, SMTT(30) DEF PeerOK, Clean, Carried, Lasts
    <2>10. \A k \in Conn : Up(q.x.stream[k]) => q.x.selected = k
        BY <2>4, <2>5 DEF PeerOK
    <2> QED
        BY <2>4, <2>6, <2>8, <2>9, <2>10 DEF IsResult, PeerOK, q
<1> QED
    BY <1>1, <1>2

-----------------------------------------------------------------------------
(* The last stage, and the whole tick *)

\* What bgp_flush does to one stream.
LEMMA FlushedOneOK ==
    ASSUME NEW s \in Speaker, NEW r, IsResult(r), PeerOK(r.x),
           NEW due, Lasts(r.x, due), NEW c \in Conn
    PROVE  LET st == r.x.stream[c]
               a == FlushedOne(s, r, c, due)
           IN /\ a.x.tcp[c] \in TcpState
              /\ \/ a.x.stream[c] = NoStream /\ ~Up(st)
                 \/ /\ IsStream(a.x.stream[c]) /\ st # NoStream
                    /\ a.x.tcp[c] = r.x.tcp[c]
                    /\ a.x.stream[c].state = st.state
                    /\ a.x.stream[c].started = st.started
                    /\ a.x.stream[c].closing = st.closing
<1> DEFINE st == r.x.stream[c]
           a == FlushedOne(s, r, c, due)
<1>1. /\ r.x.tcp[c] \in TcpState /\ (st = NoStream \/ IsStream(st))
      /\ r.x.tcp = [k \in Conn |-> r.x.tcp[k]] /\ r.x.stream = [k \in Conn |-> r.x.stream[k]]
    BY DEF PeerOK, Entered, IsPeer
<1>2. ASSUME NEW q, IsResult(q), q.x.stream = r.x.stream
      PROVE  Without(q, c).x.stream[c] = NoStream /\ Without(q, c).x.tcp = q.x.tcp
    <2>1. Without(q, c) = SetStream(q, c, NoStream)
        BY DEF Without, SetStream
    <2> QED
        BY <1>1, <1>2, <2>1, SetStreamIs DEF Parts
<1>3. ASSUME NEW state \in TcpState, NEW packet
      PROVE  LET q == Post(SetTcp(r, c, state), c, packet) IN
             IsResult(q) /\ q.x.stream = r.x.stream /\ q.x.tcp[c] = state
    <2> DEFINE p == SetTcp(r, c, state)
               q == Post(p, c, packet)
    <2>1. p = Parts([r.x.tcp EXCEPT ![c] = state], r.x.stream, r.x.selected,
                    r.x.received, r.x.waiting, r.out)
        BY SetTcpIs
    <2> HIDE DEF p
    <2>2. q = [x |-> p.x, out |-> q.out]
        BY <2>1, PostIs DEF Parts
    <2> HIDE DEF q
    <2>3. /\ q.x.stream = r.x.stream /\ q.x.tcp = [r.x.tcp EXCEPT ![c] = state]
          /\ q.x = [tcp |-> q.x.tcp, stream |-> q.x.stream, selected |-> q.x.selected,
                    received |-> q.x.received, waiting |-> q.x.waiting]
        BY <2>1, <2>2 DEF Parts
    <2>4. q.x.tcp[c] = state /\ q.x.tcp \in [Conn -> TcpState]
        BY <2>3 DEF PeerOK, Entered, IsPeer
    <2>5. IsPeer(q.x)
        BY <2>3, <2>4 DEF PeerOK, Entered, IsPeer
    <2> QED
        BY <2>2, <2>3, <2>4, <2>5 DEF IsResult, p, q
<1>4. CASE st = NoStream
    <2>1. a = r
        BY <1>4 DEF FlushedOne
    <2> QED
        BY <1>1, <1>4, <2>1 DEF Up
<1>5. CASE st # NoStream /\ (st.closing = "now" \/ c \in due)
    <2> DEFINE q == Aborted(r, c)
    <2>1. a = Without(q, c)
        BY <1>5 DEF FlushedOne
    <2>2. IsResult(q) /\ q.x.stream = r.x.stream /\ q.x.tcp[c] = "none"
        BY <1>3 DEF Aborted, TcpState
    <2>3. ~Up(st)
        BY <1>5 DEF Lasts, Up
    <2> HIDE DEF q
    <2>4. a.x.stream[c] = NoStream /\ a.x.tcp[c] = "none"
        BY <1>2, <2>1, <2>2
    <2> QED
        BY <2>3, <2>4 DEF TcpState
<1>6. CASE st # NoStream /\ st.closing # "now" /\ c \notin due /\ ~Writable(s, r.x, c)
    <2>1. a = r
        BY <1>6 DEF FlushedOne
    <2> QED
        BY <1>1, <1>6, <2>1
<1>7. CASE /\ st # NoStream /\ st.closing # "now" /\ c \notin due /\ Writable(s, r.x, c)
           /\ st.output # <<>>
    <2> DEFINE new == [st EXCEPT !.output = Tail(st.output)]
               q == [r EXCEPT !.x.stream[c].output = Tail(@)]
    <2>1. a = Post(q, c, Head(st.output))
        BY <1>7 DEF FlushedOne
    <2>2. q = SetStream(r, c, new)
        <3>1. PICK tcp, stream, selected, received, waiting, out :
                 r = Parts(tcp, stream, selected, received, waiting, out)
            BY PartsOf
        <3>2. r.x.stream = stream
            BY <3>1 DEF Parts
        <3> QED
            BY <3>1, <3>2 DEF SetStream, Parts
    <2>3. /\ IsStream(new) /\ new.state = st.state /\ new.started = st.started
          /\ new.closing = st.closing
        <3>1. new = Stream(st.state, st.started, st.closing, st.known, Tail(st.output),
                           st.advertised)
            BY <1>1, <1>7, OutputPut
        <3> QED
            BY <1>1, <1>7, <3>1 DEF IsStream, Stream
    <2> HIDE DEF new, q
    <2>4. q = Parts(r.x.tcp, [r.x.stream EXCEPT ![c] = new], r.x.selected, r.x.received,
                    r.x.waiting, r.out)
        BY <2>2, SetStreamIs
    <2>5. a.x = q.x
        BY <2>1, <2>4, PostIs DEF Parts
    <2>6. a.x.tcp = r.x.tcp /\ a.x.stream = [r.x.stream EXCEPT ![c] = new]
        BY <2>4, <2>5 DEF Parts
    <2>7. a.x.stream[c] = new
        BY <1>1, <2>6
    <2> QED
        BY <1>1, <1>7, <2>3, <2>6, <2>7
<1>8. CASE /\ st # NoStream /\ st.closing # "now" /\ c \notin due /\ Writable(s, r.x, c)
           /\ st.output = <<>> /\ st.closing = "soon"
    <2> DEFINE state == IF r.x.tcp[c] = "CloseWait" THEN "none" ELSE "FinWait"
               q == Post(SetTcp(r, c, state), c, Packet("FIN"))
    <2>1. a = Without(q, c)
        BY <1>8 DEF FlushedOne, Closed
    <2>2. state \in TcpState
        BY DEF TcpState
    <2> HIDE DEF state
    <2>3. IsResult(q) /\ q.x.stream = r.x.stream /\ q.x.tcp[c] = state
        BY <1>3, <2>2
    <2> HIDE DEF q
    <2>4. a.x.stream[c] = NoStream /\ a.x.tcp[c] = state
        BY <1>2, <2>1, <2>3
    <2> QED
        BY <1>8, <2>2, <2>4 DEF Up
<1>9. CASE /\ st # NoStream /\ st.closing # "now" /\ c \notin due /\ Writable(s, r.x, c)
           /\ st.output = <<>> /\ st.closing # "soon"
    <2>1. a = r
        BY <1>9 DEF FlushedOne
    <2> QED
        BY <1>1, <1>9, <2>1
<1> QED
    BY <1>4, <1>5, <1>6, <1>7, <1>8, <1>9

LEMMA FlushedStep ==
    ASSUME NEW s \in Speaker, NEW r, IsResult(r), PeerOK(r.x), NEW due, Lasts(r.x, due)
    PROVE  PeerOK(Flushed(s, r, due).x)
<1> DEFINE y == Flushed(s, r, due).x
           tcp == [c \in Conn |-> FlushedOne(s, r, c, due).x.tcp[c]]
           stream == [c \in Conn |-> FlushedOne(s, r, c, due).x.stream[c]]
<1>1. y = [tcp |-> tcp, stream |-> stream, selected |-> r.x.selected,
           received |-> r.x.received, waiting |-> r.x.waiting]
    <2>1. y = [r.x EXCEPT !.tcp = tcp, !.stream = stream]
        BY DEF Flushed
    <2>2. PICK tcp0, stream0, selected, received, waiting :
             r.x = [tcp |-> tcp0, stream |-> stream0, selected |-> selected,
                    received |-> received, waiting |-> waiting]
        BY DEF IsResult, IsPeer
    <2> HIDE DEF y, tcp, stream
    <2> DEFINE x1 == [r.x EXCEPT !.tcp = tcp]
    <2>3. y = [x1 EXCEPT !.stream = stream]
        BY <2>1
    <2>4. x1 = [tcp |-> tcp, stream |-> stream0, selected |-> selected,
                received |-> received, waiting |-> waiting]
        BY <2>2
    <2> HIDE DEF x1
    <2>5. y = [tcp |-> tcp, stream |-> stream, selected |-> selected,
               received |-> received, waiting |-> waiting]
        BY <2>3, <2>4
    <2> QED
        BY <2>2, <2>5
<1>2. \A c \in Conn :
          LET st == r.x.stream[c] IN
          /\ tcp[c] \in TcpState
          /\ \/ stream[c] = NoStream /\ ~Up(st)
             \/ /\ IsStream(stream[c]) /\ st # NoStream
                /\ tcp[c] = r.x.tcp[c]
                /\ stream[c].state = st.state
                /\ stream[c].started = st.started
                /\ stream[c].closing = st.closing
    <2>1. SUFFICES ASSUME NEW c \in Conn
          PROVE LET st == r.x.stream[c] IN
                /\ tcp[c] \in TcpState
                /\ \/ stream[c] = NoStream /\ ~Up(st)
                   \/ /\ IsStream(stream[c]) /\ st # NoStream
                      /\ tcp[c] = r.x.tcp[c]
                      /\ stream[c].state = st.state
                      /\ stream[c].started = st.started
                      /\ stream[c].closing = st.closing
        OBVIOUS
    <2> DEFINE a == FlushedOne(s, r, c, due)
    <2>2. tcp[c] = a.x.tcp[c] /\ stream[c] = a.x.stream[c]
        OBVIOUS
    <2> HIDE DEF tcp, stream
    <2>3. LET st == r.x.stream[c] IN
              /\ a.x.tcp[c] \in TcpState
              /\ \/ a.x.stream[c] = NoStream /\ ~Up(st)
                 \/ /\ IsStream(a.x.stream[c]) /\ st # NoStream
                    /\ a.x.tcp[c] = r.x.tcp[c]
                    /\ a.x.stream[c].state = st.state
                    /\ a.x.stream[c].started = st.started
                    /\ a.x.stream[c].closing = st.closing
        BY FlushedOneOK
    <2> HIDE DEF a
    <2> QED
        BY <2>2, <2>3
<1>3. tcp = [c \in Conn |-> tcp[c]] /\ stream = [c \in Conn |-> stream[c]]
    OBVIOUS
<1> HIDE DEF y, tcp, stream
<1>4. IsPeer(y)
    BY <1>1, <1>2, <1>3 DEF IsPeer
<1>5. \A c \in Conn : /\ Up(stream[c]) <=> Up(r.x.stream[c])
                      /\ Up(stream[c]) => tcp[c] = r.x.tcp[c]
    BY <1>2, StreamIsSome DEF Up
<1>6. \A c \in Conn : stream[c] # NoStream =>
        /\ r.x.stream[c] # NoStream /\ tcp[c] = r.x.tcp[c]
        /\ stream[c].started = r.x.stream[c].started
    BY <1>2
<1>7. Entered(y)
    BY <1>1, <1>4, <1>5, <1>6 DEF PeerOK, Entered
<1>8. Clean(y) /\ Carried(y)
    BY <1>1, <1>5, <1>6 DEF PeerOK, Clean, Carried
<1>9. \A c \in Conn : Up(y.stream[c]) => y.selected = c
    BY <1>1, <1>5 DEF PeerOK
<1> QED
    BY <1>7, <1>8, <1>9 DEF PeerOK, y

\* A tick leaves the peer in order, whatever the event before it did.
LEMMA TickOK ==
    ASSUME NEW s \in Speaker, NEW r, IsResult(r), Entered(r.x), NEW c, NEW message,
           message.kind = "update" => c \in Conn, NEW due, Lasts(r.x, due)
    PROVE  PeerOK(Tick(s, r, c, message, due).x)
<1> DEFINE r1 == Swept(r)
           r2 == Accepted(s, r1)
           r3 == Connected(s, r2)
           r4 == AllServed(r3, c, message)
           r5 == Resolved(r4)
           r6 == Selected(r5)
           r7 == Learned(r6, c, message)
           r8 == Advertised(s, r7)
<1>1. Tick(s, r, c, message, due) = Flushed(s, r8, due)
    BY DEF Tick
<1>2. IsResult(r1) /\ Entered(r1.x) /\ Clean(r1.x) /\ Lasts(r1.x, due)
    BY SweptStep
<1> HIDE DEF r1
<1>3. IsResult(r2) /\ Entered(r2.x) /\ Clean(r2.x) /\ Lasts(r2.x, due)
    BY <1>2, AcceptedStep
<1> HIDE DEF r2
<1>4. IsResult(r3) /\ Entered(r3.x) /\ Clean(r3.x) /\ Lasts(r3.x, due)
    BY <1>3, ConnectedStep
<1> HIDE DEF r3
<1>5. IsResult(r4) /\ Running(r4.x) /\ Lasts(r4.x, due)
    BY <1>4, AllServedStep
<1> HIDE DEF r4
<1>6. IsResult(r5) /\ Running(r5.x) /\ Single(r5.x) /\ Lasts(r5.x, due)
    BY <1>5, ResolvedStep
<1> HIDE DEF r5
<1>7. IsResult(r6) /\ PeerOK(r6.x) /\ Lasts(r6.x, due)
    BY <1>6, SelectedStep
<1> HIDE DEF r6
<1>8. IsResult(r7) /\ PeerOK(r7.x) /\ Lasts(r7.x, due)
    BY <1>7, LearnedStep
<1> HIDE DEF r7
<1>9. IsResult(r8) /\ PeerOK(r8.x) /\ Lasts(r8.x, due)
    BY <1>8, AdvertisedStep
<1> HIDE DEF r8
<1> QED
    BY <1>1, <1>9, FlushedStep

-----------------------------------------------------------------------------
(* The events *)

LEMMA NowOK ==
    ASSUME BgpInv, NEW s \in Speaker
    PROVE  /\ IsResult(Now(s)) /\ PeerOK(Now(s).x) /\ Now(s).x = peer[s]
<1>1. Now(s) = [x |-> peer[s], out |-> Silent]
    BY DEF Now, Result
<1> QED
    BY <1>1 DEF BgpInv, PeerOK, Entered, IsResult

LEMMA PostOK ==
    ASSUME NEW r, IsResult(r), NEW c, NEW packet
    PROVE  IsResult(Post(r, c, packet)) /\ Post(r, c, packet).x = r.x
BY PostIs DEF IsResult

\* A connection changes its state; what is opened has no stream yet.
LEMMA SetTcpOK ==
    ASSUME NEW r, IsResult(r), PeerOK(r.x), NEW c \in Conn, NEW state \in TcpState,
           state \in {"SynSent", "SynReceived"} => r.x.stream[c] = NoStream
    PROVE  LET q == SetTcp(r, c, state) IN IsResult(q) /\ Entered(q.x)
<1> DEFINE q == SetTcp(r, c, state)
<1>1. q = Parts([r.x.tcp EXCEPT ![c] = state], r.x.stream, r.x.selected,
                r.x.received, r.x.waiting, r.out)
    BY SetTcpIs
<1> HIDE DEF q
<1>2. /\ q.x.stream = r.x.stream /\ q.x.tcp = [r.x.tcp EXCEPT ![c] = state]
      /\ q.x.selected = r.x.selected /\ q.x.received = r.x.received
      /\ q.x = [tcp |-> q.x.tcp, stream |-> q.x.stream, selected |-> q.x.selected,
                received |-> q.x.received, waiting |-> q.x.waiting]
      /\ q = [x |-> q.x, out |-> q.out]
    BY <1>1 DEF Parts
<1>3. IsPeer(q.x)
    BY <1>2 DEF PeerOK, Entered, IsPeer
<1>4. Entered(q.x)
    BY <1>2, <1>3 DEF PeerOK, Entered, IsPeer
<1> QED
    BY <1>2, <1>3, <1>4 DEF IsResult, q

\* A segment arrives.
LEMMA SegmentOK ==
    ASSUME NEW r, IsResult(r), PeerOK(r.x), NEW c \in Conn, NEW packet
    PROVE  LET q == Segment(r, c, packet) IN IsResult(q) /\ Entered(q.x)
<1> DEFINE q == Segment(r, c, packet)
           state == r.x.tcp[c]
           kind == packet.kind
<1>1. IsResult(r) /\ Entered(r.x)
    BY DEF PeerOK
<1>2. ASSUME NEW new \in {"none", "Established", "CloseWait"}
      PROVE  IsResult(SetTcp(r, c, new)) /\ Entered(SetTcp(r, c, new).x)
    BY SetTcpOK DEF TcpState
<1>3. ASSUME state = "none"
      PROVE  IsResult(SetTcp(r, c, "SynReceived")) /\ Entered(SetTcp(r, c, "SynReceived").x)
    <2>1. r.x.stream[c] = NoStream
        BY <1>3 DEF PeerOK, Clean
    <2> QED
        BY <2>1, SetTcpOK DEF TcpState
<1>4. ASSUME NEW p, IsResult(p), Entered(p.x), NEW m
      PROVE  IsResult(Post(p, c, m)) /\ Entered(Post(p, c, m).x)
    BY <1>4, PostOK
<1>5. CASE kind = "RST"
    BY <1>2, <1>5 DEF Segment
<1>6. CASE kind # "RST" /\ state = "none" /\ kind = "SYN"
    <2>1. q = Post(SetTcp(r, c, "SynReceived"), c, Packet("SYNACK"))
        BY <1>6 DEF Segment
    <2> QED
        BY <1>3, <1>4, <1>6, <2>1
<1>7. CASE kind # "RST" /\ state = "none" /\ kind # "SYN"
    <2>1. q = Post(r, c, Packet("RST"))
        BY <1>7 DEF Segment
    <2> QED
        BY <1>1, <1>4, <2>1
<1>8. CASE kind # "RST" /\ state = "SynSent" /\ kind = "SYNACK"
    <2>1. q = Post(SetTcp(r, c, "Established"), c, Packet("ACK"))
        BY <1>8 DEF Segment
    <2> QED
        BY <1>2, <1>4, <2>1
<1>9. CASE \/ kind # "RST" /\ state = "SynReceived" /\ kind = "ACK"
           \/ kind # "RST" /\ state = "Established" /\ kind = "FIN"
           \/ kind # "RST" /\ state = "FinWait" /\ kind = "FIN"
    <2>1. \/ q = SetTcp(r, c, "Established")
          \/ q = SetTcp(r, c, "CloseWait")
          \/ q = SetTcp(r, c, "none")
        BY <1>9 DEF Segment
    <2> HIDE DEF q
    <2>2. IsResult(q) /\ Entered(q.x)
        BY <1>2, <2>1
    <2> QED
        BY <2>2 DEF q
<1>10. CASE /\ kind # "RST" /\ state # "none"
            /\ ~(state = "SynSent" /\ kind = "SYNACK")
            /\ ~(state = "SynReceived" /\ kind = "ACK")
            /\ ~(state = "Established" /\ kind = "FIN")
            /\ ~(state = "FinWait" /\ kind = "FIN")
    <2>1. q = r
        BY <1>10 DEF Segment
    <2> QED
        BY <1>1, <2>1
<1> QED
    BY <1>5, <1>6, <1>7, <1>8, <1>9, <1>10

\* A speaker that ends its tick in order keeps the invariant.
LEMMA BecomeOK ==
    ASSUME BgpInv, NEW s \in Speaker, NEW result, PeerOK(result.x), NEW rest, NEW lost,
           Become(s, result, rest, lost)
    PROVE  BgpInv'
<1>1. peer' = [peer EXCEPT ![s] = result.x]
    BY DEF Become
<1> QED
    BY <1>1 DEF BgpInv

\* Ticks in which no deadline for closing passes.
LEMMA PlainTick ==
    ASSUME NEW s \in Speaker, NEW r, IsResult(r), Entered(r.x), NEW c, NEW message,
           message.kind = "update" => c \in Conn
    PROVE  PeerOK(Tick(s, r, c, message, {}).x)
<1>1. Lasts(r.x, {})
    BY DEF Lasts
<1> QED
    BY <1>1, TickOK

LEMMA NotUpdate ==
    /\ Nothing.kind # "update"
    /\ \A kind : Packet(kind).kind = kind
BY DEF Nothing, Packet

LEMMA DeliverKeeps ==
    ASSUME BgpInv, NEW s \in Speaker, NEW c \in Conn, Deliver(s, c)
    PROVE  BgpInv'
<1> DEFINE packet == Head(wire[s][c])
           message == IF packet.kind \in Control \/ peer[s].tcp[c] # "Established"
                      THEN Nothing ELSE packet
           r == Segment(Now(s), c, packet)
<1>1. Become(s, Tick(s, r, c, message, {}), [wire[s] EXCEPT ![c] = Tail(@)], {})
    BY DEF Deliver
<1>2. IsResult(r) /\ Entered(r.x)
    BY NowOK, SegmentOK
<1> HIDE DEF r, message
<1>3. PeerOK(Tick(s, r, c, message, {}).x)
    BY <1>2, PlainTick
<1> QED
    BY <1>1, <1>3, BecomeOK

LEMMA PumpKeeps ==
    ASSUME BgpInv, NEW s \in Speaker, Pump(s)
    PROVE  BgpInv'
<1>1. Become(s, Pumped(s), wire[s], {})
    BY DEF Pump
<1>2. PeerOK(Pumped(s).x)
    BY NowOK, PlainTick, NotUpdate DEF Pumped, PeerOK
<1> QED
    BY <1>1, <1>2, BecomeOK

LEMMA RetryKeeps ==
    ASSUME BgpInv, NEW s \in Speaker, Retry(s)
    PROVE  BgpInv'
<1> DEFINE r == [Now(s) EXCEPT !.x.waiting = FALSE]
<1>1. Become(s, Tick(s, r, NoConn, Nothing, {}), wire[s], {})
    BY DEF Retry
<1>2. PICK w : r = [Now(s) EXCEPT !.x.waiting = w]
    OBVIOUS
<1> HIDE DEF r
<1>6. /\ r = [x |-> r.x, out |-> r.out]
      /\ r.x = [tcp |-> peer[s].tcp, stream |-> peer[s].stream, selected |-> peer[s].selected,
                received |-> peer[s].received, waiting |-> w]
    <2>1. PICK tcp, stream, selected, received, waiting, out :
             Now(s) = Parts(tcp, stream, selected, received, waiting, out)
        BY NowOK, PartsOf
    <2>2. Now(s).x = peer[s]
        BY NowOK
    <2>3. r = Parts(tcp, stream, selected, received, w, out)
        BY <1>2, <2>1 DEF Parts
    <2> QED
        BY <2>1, <2>2, <2>3 DEF Parts
<1>3. IsPeer(r.x) /\ Entered(r.x)
    BY <1>6 DEF BgpInv, PeerOK, Entered, IsPeer
<1>4. IsResult(r)
    BY <1>3, <1>6 DEF IsResult
<1>5. PeerOK(Tick(s, r, NoConn, Nothing, {}).x)
    BY <1>3, <1>4, PlainTick, NotUpdate
<1> QED
    BY <1>1, <1>5, BecomeOK

LEMMA CloseDueKeeps ==
    ASSUME BgpInv, NEW s \in Speaker, NEW c \in Conn, CloseDue(s, c)
    PROVE  BgpInv'
<1>1. Become(s, Tick(s, Now(s), NoConn, Nothing, {c}), wire[s], {})
    BY DEF CloseDue
<1>2. Lasts(Now(s).x, {c})
    BY NowOK DEF CloseDue, Lingering, Lasts, PeerOK, Clean
<1>3. IsResult(Now(s)) /\ Entered(Now(s).x)
    BY NowOK DEF PeerOK
<1>4. PeerOK(Tick(s, Now(s), NoConn, Nothing, {c}).x)
    BY <1>2, <1>3, TickOK, NotUpdate
<1> QED
    BY <1>1, <1>4, BecomeOK

LEMMA TimeoutKeeps ==
    ASSUME BgpInv, NEW s \in Speaker, NEW c \in Conn, NEW kind \in {"expired", "idle"},
           Timeout(s, c, kind)
    PROVE  BgpInv'
<1>1. Become(s, Tick(s, Now(s), c, Packet(kind), {}), wire[s], {})
    BY DEF Timeout
<1>2. PeerOK(Tick(s, Now(s), c, Packet(kind), {}).x)
    BY NowOK, PlainTick DEF PeerOK
<1> QED
    BY <1>1, <1>2, BecomeOK

LEMMA RetransmitKeeps ==
    ASSUME BgpInv, NEW s \in Speaker, NEW c \in Conn, Retransmit(s, c)
    PROVE  BgpInv'
<1> DEFINE again == Packet(IF peer[s].tcp[c] = "SynSent" THEN "SYN" ELSE "SYNACK")
           r == Post(Now(s), c, again)
<1>1. Become(s, Tick(s, r, NoConn, Nothing, {}), wire[s], {})
    BY DEF Retransmit
<1>2. IsResult(r) /\ Entered(r.x)
    BY NowOK, PostOK DEF PeerOK
<1> HIDE DEF r
<1>3. PeerOK(Tick(s, r, NoConn, Nothing, {}).x)
    BY <1>2, PlainTick, NotUpdate
<1> QED
    BY <1>1, <1>3, BecomeOK

LEMMA BreakKeeps ==
    ASSUME BgpInv, NEW s \in Speaker, NEW c \in Conn, Break(s, c)
    PROVE  BgpInv'
<1> DEFINE r == SetTcp(Now(s), c, "none")
<1>1. PICK lost \in SUBSET {c} : Become(s, Tick(s, r, NoConn, Nothing, {}), wire[s], lost)
    BY DEF Break
<1>2. IsResult(r) /\ Entered(r.x)
    BY NowOK, SetTcpOK DEF TcpState
<1> HIDE DEF r
<1>3. PeerOK(Tick(s, r, NoConn, Nothing, {}).x)
    BY <1>2, PlainTick, NotUpdate
<1> QED
    BY <1>1, <1>3, BecomeOK

\* A peer without streams is in order whatever its connections are.
LEMMA NewPeerOK ==
    ASSUME NEW tcp \in [Conn -> TcpState], NEW wait
    PROVE  /\ Entered(NewPeer(tcp))
           /\ NewPeer(tcp) = [tcp |-> tcp, stream |-> [c \in Conn |-> NoStream],
                              selected |-> NoConn, received |-> NoRoutes, waiting |-> FALSE]
<1>1. NewPeer(tcp) = [tcp |-> tcp, stream |-> [c \in Conn |-> NoStream],
                      selected |-> NoConn, received |-> NoRoutes, waiting |-> FALSE]
    BY DEF NewPeer
<1>2. IsPeer(NewPeer(tcp))
    BY <1>1 DEF IsPeer
<1> QED
    BY <1>1, <1>2 DEF Entered

LEMMA ResetKeeps ==
    ASSUME BgpInv, NEW s \in Speaker, Reset(s)
    PROVE  BgpInv'
<1> DEFINE streams == Streams(peer[s])
           tcp == [c \in Conn |-> IF c \in streams THEN "none" ELSE peer[s].tcp[c]]
           r == [Dropped(s) EXCEPT !.x = NewPeer(@.tcp)]
<1>1. Become(s, Tick(s, r, NoConn, Nothing, {}), wire[s], {})
    BY DEF Reset
<1>2. r = [x |-> NewPeer(tcp), out |-> r.out]
    <2> DEFINE silent == [c \in Conn |-> IF c \in streams THEN <<Packet("RST")>> ELSE <<>>]
               d == Dropped(s)
    <2>1. PICK tcp0, stream, selected, received, waiting, out :
             Now(s) = Parts(tcp0, stream, selected, received, waiting, out)
        BY NowOK, PartsOf
    <2>2. peer[s].tcp = tcp0
        BY <2>1, NowOK DEF Parts
    <2> DEFINE n1 == [Now(s) EXCEPT !.x.tcp = tcp]
    <2>8. Now(s).x = peer[s]
        BY NowOK
    <2>3. d = [Now(s) EXCEPT !.x.tcp = tcp, !.out = silent]
        BY <2>8 DEF Dropped
    <2> HIDE DEF tcp, silent, d
    <2>4. d = [n1 EXCEPT !.out = silent]
        BY <2>3
    <2>5. n1 = Parts(tcp, stream, selected, received, waiting, out)
        BY <2>1 DEF Parts
    <2> HIDE DEF n1
    <2>6. d = Parts(tcp, stream, selected, received, waiting, silent)
        BY <2>4, <2>5 DEF Parts
    <2>7. r = [d EXCEPT !.x = NewPeer(d.x.tcp)]
        BY DEF d
    <2> HIDE DEF r
    <2> QED
        BY <2>6, <2>7 DEF Parts
<1>3. tcp \in [Conn -> TcpState]
    <2>1. peer[s].tcp \in [Conn -> TcpState]
        BY DEF BgpInv, PeerOK, Entered, IsPeer
    <2> HIDE DEF streams
    <2> QED
        BY <2>1 DEF TcpState
<1> HIDE DEF r, tcp
<1>4. IsResult(r) /\ Entered(r.x)
    BY <1>2, <1>3, NewPeerOK DEF IsResult, Entered
<1>5. PeerOK(Tick(s, r, NoConn, Nothing, {}).x)
    BY <1>4, PlainTick, NotUpdate
<1> QED
    BY <1>1, <1>5, BecomeOK

-----------------------------------------------------------------------------
(* Theorems *)

\* At first there are no connections and no routes.
LEMMA BgpInit == Init => BgpInv
<1> SUFFICES ASSUME Init, NEW s \in Speaker
             PROVE  PeerOK(peer[s])
    <2>1. Init => peer = [s \in Speaker |-> peer[s]]
        BY DEF Init
    <2> QED
        BY <2>1 DEF BgpInv
<1> DEFINE none == [c \in Conn |-> "none"]
           new == NewPeer(none)
<1>1. peer[s] = [new EXCEPT !.waiting = s \notin bound.first]
    BY DEF Init
<1>2. none \in [Conn -> TcpState]
    BY DEF TcpState
<1> HIDE DEF none
<1>3. /\ Entered(new)
      /\ new = [tcp |-> none, stream |-> [c \in Conn |-> NoStream],
                selected |-> NoConn, received |-> NoRoutes, waiting |-> FALSE]
    BY <1>2, NewPeerOK
<1> HIDE DEF new
<1>4. PICK w : peer[s] = [new EXCEPT !.waiting = w]
    BY <1>1
<1>5. peer[s] = [tcp |-> none, stream |-> [c \in Conn |-> NoStream],
                 selected |-> NoConn, received |-> NoRoutes, waiting |-> w]
    BY <1>3, <1>4
<1>6. IsPeer(peer[s])
    BY <1>2, <1>5 DEF IsPeer
<1>7. PeerOK(peer[s])
    BY <1>5, <1>6 DEF PeerOK, Entered, Clean, Carried, Up
<1> QED
    BY <1>7

\* Every event of a speaker, followed by its tick, leaves each peer with at
\* most one established session, which is selected and has an established
\* connection, and with routes only of that session.
THEOREM BgpSafe == Spec => []BgpInv
<1>1. BgpInv /\ [Next]_vars => BgpInv'
    <2> SUFFICES ASSUME BgpInv, [Next]_vars
                 PROVE  BgpInv'
        OBVIOUS
    <2>1. CASE UNCHANGED vars
        BY <2>1 DEF vars, BgpInv
    <2>2. ASSUME NEW s \in Speaker, NEW c \in Conn,
                 \/ Deliver(s, c) \/ CloseDue(s, c) \/ Retransmit(s, c) \/ Break(s, c)
                 \/ \E kind \in {"expired", "idle"} : Timeout(s, c, kind)
          PROVE  BgpInv'
        BY <2>2, DeliverKeeps, CloseDueKeeps, RetransmitKeeps, BreakKeeps, TimeoutKeeps
    <2>3. ASSUME NEW s \in Speaker, Pump(s) \/ Retry(s) \/ Reset(s)
          PROVE  BgpInv'
        BY <2>3, PumpKeeps, RetryKeeps, ResetKeeps
    <2>4. ASSUME NEW s \in Speaker, NEW p \in Prefix, NEW value \in 0 .. 2,
                 SetNetwork(s, p, value)
          PROVE  BgpInv'
        BY <2>4 DEF SetNetwork, BgpInv
    <2> QED
        BY <2>1, <2>2, <2>3, <2>4 DEF Next
<1> QED
    BY <1>1, BgpInit, PTL DEF Spec

\* At most one session of a peer is established, the one selected, whatever
\* connections both speakers open at the same time (bgp_transport_peer, the
\* collision in bgp_tick).
THEOREM BgpOneSession == Spec => []OneSession
<1>1. BgpInv => OneSession
    BY DEF BgpInv, PeerOK, OneSession
<1> QED
    BY <1>1, BgpSafe, PTL

\* No route outlives the session that brought it (bgp_tick's sweep, the
\* selection, and the reset of a neighbor).
THEOREM BgpNoStaleRoutes == Spec => []NoStaleRoutes
<1>1. BgpInv => NoStaleRoutes
    BY DEF BgpInv, PeerOK, Entered, Carried, NoStaleRoutes
<1> QED
    BY <1>1, BgpSafe, PTL

-----------------------------------------------------------------------------
(* The routes under way *)

\* What a session sends, and what else goes over the wires.
Mail == [kind : {"open", "keepalive", "notification"}]
            \cup [kind : {"update"}, prefix : Prefix, value : 0 .. 2]

Pkt == Mail \cup [kind : Control]

About(m, p) == m.kind = "update" /\ m.prefix = p

Plain(seq) == \A i \in DOMAIN seq : seq[i].kind # "update"

\* The messages of seq, applied to the routes old, give the routes new.
Follows(old, seq, new) ==
    \A p \in Prefix :
        \/ new[p] = old[p] /\ \A i \in 1 .. Len(seq) : ~About(seq[i], p)
        \/ \E i \in 1 .. Len(seq) :
              /\ About(seq[i], p) /\ seq[i].value = new[p]
              /\ \A j \in 1 .. Len(seq) : j > i => ~About(seq[j], p)

Routes == [Prefix -> 0 .. 2]

LEMMA FollowsApplied ==
    ASSUME NEW old, NEW seq \in Seq(Pkt), NEW new \in Routes, Follows(old, seq, new)
    PROVE  Applied(old, seq) = new
<1> DEFINE about(p) == {i \in DOMAIN seq : seq[i].kind = "update" /\ seq[i].prefix = p}
<1>1. ASSUME NEW p \in Prefix
      PROVE  (IF about(p) = {} THEN old[p] ELSE seq[Max(about(p))].value) = new[p]
    <2>1. CASE new[p] = old[p] /\ \A i \in 1 .. Len(seq) : ~About(seq[i], p)
        BY <2>1 DEF About
    <2>2. CASE \E i \in 1 .. Len(seq) :
                  /\ About(seq[i], p) /\ seq[i].value = new[p]
                  /\ \A j \in 1 .. Len(seq) : j > i => ~About(seq[j], p)
        <3>1. PICK i \in 1 .. Len(seq) :
                  /\ About(seq[i], p) /\ seq[i].value = new[p]
                  /\ \A j \in 1 .. Len(seq) : j > i => ~About(seq[j], p)
            BY <2>2
        <3>2. i \in about(p) /\ \A j \in about(p) : i >= j
            BY <3>1 DEF About
        <3>4. about(p) \subseteq Int
            OBVIOUS
        <3> HIDE DEF about
        <3>3. Max(about(p)) = i
            BY <3>2, <3>4 DEF Max
        <3> QED
            BY <3>1, <3>2, <3>3
    <2> QED
        BY <1>1, <2>1, <2>2 DEF Follows
<1>2. Applied(old, seq) = [p \in Prefix |-> IF about(p) = {} THEN old[p]
                                            ELSE seq[Max(about(p))].value]
    BY DEF Applied
<1> HIDE DEF about
<1> QED
    BY <1>1, <1>2 DEF Routes

LEMMA FollowsPlain ==
    ASSUME NEW old, NEW seq \in Seq(Pkt), Plain(seq)
    PROVE  Follows(old, seq, old)
BY DEF Follows, Plain, About

LEMMA FollowsConcat ==
    ASSUME NEW old, NEW mid, NEW new, NEW u \in Seq(Pkt), NEW v \in Seq(Pkt),
           Follows(old, u, mid), Follows(mid, v, new)
    PROVE  Follows(old, u \o v, new)
<1> DEFINE w == u \o v
<1>1. /\ Len(u) \in Nat /\ Len(v) \in Nat /\ Len(w) = Len(u) + Len(v)
      /\ \A i \in 1 .. Len(u) : w[i] = u[i]
      /\ \A i \in 1 .. Len(v) : w[Len(u) + i] = v[i]
      /\ \A i \in 1 .. Len(w) : i > Len(u) => i - Len(u) \in 1 .. Len(v) /\ w[i] = v[i - Len(u)]
    BY ConcatProperties, LenProperties
<1> HIDE DEF w
<1>2. ASSUME NEW p \in Prefix
      PROVE  \/ new[p] = old[p] /\ \A i \in 1 .. Len(w) : ~About(w[i], p)
             \/ \E i \in 1 .. Len(w) :
                  /\ About(w[i], p) /\ w[i].value = new[p]
                  /\ \A j \in 1 .. Len(w) : j > i => ~About(w[j], p)
    <2>1. CASE new[p] = mid[p] /\ \A i \in 1 .. Len(v) : ~About(v[i], p)
        <3>1. CASE mid[p] = old[p] /\ \A i \in 1 .. Len(u) : ~About(u[i], p)
            <4>1. ASSUME NEW i \in 1 .. Len(w) PROVE ~About(w[i], p)
                <5>1. CASE i <= Len(u)
                    BY <1>1, <3>1, <5>1
                <5>2. CASE i > Len(u)
                    BY <1>1, <2>1, <5>2
                <5> QED
                    BY <1>1, <5>1, <5>2
            <4> QED
                BY <2>1, <3>1, <4>1
        <3>2. CASE \E i \in 1 .. Len(u) :
                      /\ About(u[i], p) /\ u[i].value = mid[p]
                      /\ \A j \in 1 .. Len(u) : j > i => ~About(u[j], p)
            <4>1. PICK i \in 1 .. Len(u) :
                      /\ About(u[i], p) /\ u[i].value = mid[p]
                      /\ \A j \in 1 .. Len(u) : j > i => ~About(u[j], p)
                BY <3>2
            <4>2. i \in 1 .. Len(w) /\ w[i] = u[i]
                BY <1>1
            <4>3. ASSUME NEW j \in 1 .. Len(w), j > i PROVE ~About(w[j], p)
                <5>1. CASE j <= Len(u)
                    BY <1>1, <4>1, <4>3, <5>1
                <5>2. CASE j > Len(u)
                    BY <1>1, <2>1, <5>2
                <5> QED
                    BY <1>1, <5>1, <5>2
            <4> QED
                BY <2>1, <4>1, <4>2, <4>3
        <3> QED
            BY <3>1, <3>2 DEF Follows
    <2>2. CASE \E i \in 1 .. Len(v) :
                  /\ About(v[i], p) /\ v[i].value = new[p]
                  /\ \A j \in 1 .. Len(v) : j > i => ~About(v[j], p)
        <3>1. PICK i \in 1 .. Len(v) :
                  /\ About(v[i], p) /\ v[i].value = new[p]
                  /\ \A j \in 1 .. Len(v) : j > i => ~About(v[j], p)
            BY <2>2
        <3>2. Len(u) + i \in 1 .. Len(w) /\ w[Len(u) + i] = v[i]
            BY <1>1
        <3>3. ASSUME NEW j \in 1 .. Len(w), j > Len(u) + i PROVE ~About(w[j], p)
            <4>1. j - Len(u) \in 1 .. Len(v) /\ w[j] = v[j - Len(u)] /\ j - Len(u) > i
                BY <1>1, <3>3
            <4> QED
                BY <3>1, <4>1
        <3> QED
            BY <3>1, <3>2, <3>3
    <2> QED
        BY <2>1, <2>2 DEF Follows
<1> QED
    BY <1>2 DEF Follows, w

\* The routes after a message.
Heard(routes, m) ==
    IF m.kind = "update" THEN [routes EXCEPT ![m.prefix] = m.value] ELSE routes

LEMMA FollowsTail ==
    ASSUME NEW old \in Routes, NEW seq \in Seq(Pkt), seq # <<>>, NEW new, Follows(old, seq, new)
    PROVE  Follows(Heard(old, Head(seq)), Tail(seq), new)
<1> DEFINE t == Tail(seq)
           now == Heard(old, Head(seq))
<1>1. /\ Len(seq) \in Nat \ {0} /\ Head(seq) = seq[1] /\ Len(t) = Len(seq) - 1
      /\ Len(t) \in Nat
      /\ \A i \in 1 .. Len(t) : i + 1 \in 1 .. Len(seq) /\ t[i] = seq[i + 1]
      /\ \A i \in 1 .. Len(seq) : i > 1 => i - 1 \in 1 .. Len(t) /\ t[i - 1] = seq[i]
    BY HeadTailProperties, EmptySeq, LenProperties
<1> HIDE DEF t
<1>2. \A p \in Prefix : now[p] = IF About(seq[1], p) THEN seq[1].value ELSE old[p]
    BY <1>1 DEF Heard, About, Routes
<1> HIDE DEF now
<1>3. ASSUME NEW p \in Prefix
      PROVE  \/ new[p] = now[p] /\ \A i \in 1 .. Len(t) : ~About(t[i], p)
             \/ \E i \in 1 .. Len(t) :
                  /\ About(t[i], p) /\ t[i].value = new[p]
                  /\ \A j \in 1 .. Len(t) : j > i => ~About(t[j], p)
    <2>1. CASE new[p] = old[p] /\ \A i \in 1 .. Len(seq) : ~About(seq[i], p)
        BY <1>1, <1>2, <2>1
    <2>2. CASE \E i \in 1 .. Len(seq) :
                  /\ About(seq[i], p) /\ seq[i].value = new[p]
                  /\ \A j \in 1 .. Len(seq) : j > i => ~About(seq[j], p)
        <3>1. PICK i \in 1 .. Len(seq) :
                  /\ About(seq[i], p) /\ seq[i].value = new[p]
                  /\ \A j \in 1 .. Len(seq) : j > i => ~About(seq[j], p)
            BY <2>2
        <3>2. CASE i = 1
            <4>1. new[p] = now[p]
                BY <1>2, <3>1, <3>2
            <4>2. \A j \in 1 .. Len(t) : ~About(t[j], p)
                BY <1>1, <3>1, <3>2
            <4> QED
                BY <4>1, <4>2
        <3>3. CASE i > 1
            <4>1. i - 1 \in 1 .. Len(t) /\ t[i - 1] = seq[i]
                BY <1>1, <3>3
            <4>2. \A j \in 1 .. Len(t) : j > i - 1 => ~About(t[j], p)
                BY <1>1, <3>1, <3>3
            <4> QED
                BY <3>1, <4>1, <4>2
        <3> QED
            BY <3>2, <3>3
    <2> QED
        BY <2>1, <2>2 DEF Follows
<1> QED
    BY <1>3 DEF Follows, t, now

LEMMA AheadOrder ==
    ASSUME NEW nets, NEW p \in Nat, NEW q \in Nat, NEW x \in Nat
    PROVE  /\ ~Ahead(nets, p, p)
           /\ Ahead(nets, x, p) /\ Ahead(nets, p, q) => Ahead(nets, x, q)
           /\ p # q => Ahead(nets, p, q) \/ Ahead(nets, q, p)
<1>1. \A u, v \in Nat : Ahead(nets, u, v) <=>
        \/ nets[u] = 0 /\ nets[v] # 0
        \/ (nets[u] = 0 <=> nets[v] = 0) /\ u < v
    BY DEF Ahead
<1> QED
    BY <1>1

\* The places of the prefixes of S in the order in which they are sent.
Rank(S, nets) == [p \in S |-> Cardinality({q \in S : Ahead(nets, q, p)})]

\* Each prefix has a place, and no two the same.
LEMMA RanksOnto ==
    ASSUME NEW S \in SUBSET Prefix, NEW nets
    PROVE  /\ Cardinality(S) \in Nat
           /\ Rank(S, nets) \in [S -> 0 .. Cardinality(S) - 1]
           /\ \A p, q \in S : Rank(S, nets)[p] = Rank(S, nets)[q] => p = q
           /\ \A n \in 0 .. Cardinality(S) - 1 : \E p \in S : Rank(S, nets)[p] = n
<1> DEFINE before(p) == {q \in S : Ahead(nets, q, p)}
           rank == Rank(S, nets)
           N == Cardinality(S)
           T == 0 .. N - 1
<1>1. IsFiniteSet(S) /\ N \in Nat /\ S \subseteq Nat
    BY FinitePrefix, FS_Subset, FS_CardinalityType
<1>2. \A p \in S : IsFiniteSet(before(p)) /\ Cardinality(before(p)) \in Nat
    BY <1>1, FS_Subset, FS_CardinalityType
<1>3. rank = [p \in S |-> Cardinality(before(p))]
    BY DEF Rank
<1> HIDE DEF rank
<1>4. ASSUME NEW p \in S PROVE rank[p] \in T
    <2>1. p \notin before(p) /\ before(p) \in SUBSET S
        BY <1>1, AheadOrder
    <2> DEFINE B == before(p)
    <2>2. p \notin B /\ B \in SUBSET S /\ rank[p] = Cardinality(B) /\ Cardinality(B) \in Nat
        BY <1>2, <1>3, <2>1
    <2> HIDE DEF B
    <2>3. Cardinality(B) <= N /\ Cardinality(B) # N
        BY <1>1, <2>2, FS_Subset
    <2> HIDE DEF N
    <2> QED
        BY <1>1, <2>2, <2>3
<1>5. ASSUME NEW p \in S, NEW q \in S, Ahead(nets, p, q) PROVE rank[p] < rank[q]
    <2> DEFINE B == before(p)
               C == before(q)
    <2>1. B \in SUBSET C /\ p \in C /\ p \notin B
        BY <1>1, <1>5, AheadOrder
    <2>2. /\ rank[p] = Cardinality(B) /\ rank[q] = Cardinality(C) /\ IsFiniteSet(C)
          /\ Cardinality(B) \in Nat /\ Cardinality(C) \in Nat
        BY <1>2, <1>3
    <2> HIDE DEF B, C
    <2>3. Cardinality(B) <= Cardinality(C) /\ Cardinality(B) # Cardinality(C)
        BY <2>1, <2>2, FS_Subset
    <2> QED
        BY <2>2, <2>3
<1>6. ASSUME NEW p \in S, NEW q \in S, rank[p] = rank[q] PROVE p = q
    <2>1. p # q => Ahead(nets, p, q) \/ Ahead(nets, q, p)
        BY <1>1, AheadOrder
    <2>2. rank[p] \in Int /\ rank[q] \in Int
        BY <1>4
    <2> QED
        BY <1>5, <1>6, <2>1, <2>2
<1>7. rank \in [S -> T]
    BY <1>3, <1>4
<1>8. IsFiniteSet(T) /\ Cardinality(T) = N
    BY <1>1, FS_Interval, SMTT(30)
<1> HIDE DEF T
<1>9. rank \in Injection(S, T)
    BY <1>6, <1>7 DEF Injection, IsInjective
<1>10. rank \in Surjection(S, T)
    BY <1>8, <1>9, FS_Injection
<1> QED
    BY <1>1, <1>6, <1>7, <1>10 DEF Surjection, T, rank

LEMMA FollowsAdvertising ==
    ASSUME NEW st, st.advertised \in Routes, NEW nets \in Routes
    PROVE  LET Y == [n \in 1 .. Cardinality(Batch(st, nets)) |->
                        LET p == Ordered(Batch(st, nets), nets)[n] IN Update(p, nets[p])]
           IN /\ Y \in Seq(Mail) /\ Noted(st, nets) \in Routes
              /\ Follows(st.advertised, Y, Noted(st, nets))
<1> DEFINE S == Batch(st, nets)
           N == Cardinality(S)
           rank == Rank(S, nets)
           at == Ordered(S, nets)
           Y == [n \in 1 .. N |-> LET p == at[n] IN Update(p, nets[p])]
<1>1. S \in SUBSET Prefix
    BY DEF Batch, Due
<1>6. \A n \in 1 .. N : at[n] = CHOOSE p \in S : rank[p] = n - 1
    BY DEF Ordered, Rank
<1>7. Noted(st, nets) = [p \in Prefix |-> IF p \in S THEN nets[p] ELSE st.advertised[p]]
    BY DEF Noted
<1> HIDE DEF S
<1>2. /\ N \in Nat
      /\ rank \in [S -> 0 .. N - 1]
      /\ \A p, q \in S : rank[p] = rank[q] => p = q
      /\ \A n \in 0 .. N - 1 : \E p \in S : rank[p] = n
    BY <1>1, RanksOnto
<1> HIDE DEF rank, at, N
<1>3. \A n \in 1 .. N : at[n] \in S /\ rank[at[n]] = n - 1
    <2>1. ASSUME NEW n \in 1 .. N PROVE at[n] \in S /\ rank[at[n]] = n - 1
        <3>1. \E p \in S : rank[p] = n - 1
            BY <1>2
        <3> QED
            BY <1>6, <3>1
    <2> QED
        BY <2>1
<1>4. \A n \in 1 .. N : /\ Y[n] \in Mail /\ Y[n].kind = "update" /\ Y[n].prefix = at[n]
                        /\ Y[n].value = nets[at[n]]
    BY <1>1, <1>3 DEF Mail, Update, Routes
<1>5. Y \in Seq(Mail) /\ Len(Y) = N
    <2>1. Y \in [1 .. N -> Mail]
        BY <1>4
    <2> HIDE DEF Y
    <2> QED
        BY <1>2, <2>1
<1> HIDE DEF Y
<1>8. Noted(st, nets) \in Routes
    BY <1>7 DEF Routes
<1>9. ASSUME NEW p \in Prefix
      PROVE  \/ /\ Noted(st, nets)[p] = st.advertised[p]
                /\ \A i \in 1 .. Len(Y) : ~About(Y[i], p)
             \/ \E i \in 1 .. Len(Y) :
                  /\ About(Y[i], p) /\ Y[i].value = Noted(st, nets)[p]
                  /\ \A j \in 1 .. Len(Y) : j > i => ~About(Y[j], p)
    <2>1. CASE p \notin S
        BY <1>3, <1>4, <1>5, <1>7, <2>1 DEF About
    <2>2. CASE p \in S
        <3> DEFINE i == rank[p] + 1
        <3>1. i \in 1 .. N /\ i - 1 = rank[p]
            BY <1>2, <2>2
        <3> HIDE DEF i
        <3>5. at[i] \in S /\ rank[at[i]] = rank[p]
            BY <1>3, <3>1
        <3>2. at[i] = p
            BY <1>2, <2>2, <3>5
        <3>3. About(Y[i], p) /\ Y[i].value = Noted(st, nets)[p]
            BY <1>4, <1>7, <2>2, <3>1, <3>2 DEF About
        <3>4. ASSUME NEW j \in 1 .. N, j > i PROVE ~About(Y[j], p)
            <4>1. at[j] # p
                BY <1>3, <3>1, <3>4
            <4> QED
                BY <1>4, <4>1 DEF About
        <3> QED
            BY <1>5, <3>1, <3>3, <3>4
    <2> QED
        BY <2>1, <2>2
<1>10. Follows(st.advertised, Y, Noted(st, nets))
    BY <1>9 DEF Follows
<1> QED
    BY <1>5, <1>8, <1>10 DEF Y, S, N, at

-----------------------------------------------------------------------------
(* What a tick does to a stream *)

\* A stream that has not started has sent nothing.
Fine(st) ==
    /\ IsStream(st) /\ st.output \in Seq(Mail) /\ st.advertised \in Routes
    /\ ~st.started => st.output = <<>> /\ st.advertised = NoRoutes

Alive(st) == st # NoStream /\ st.closing = "no"

\* A stream that is still alive has queued more, and notes as advertised what
\* that adds.
Grows(st, new) ==
    /\ Fine(new)
    /\ Alive(new) =>
          /\ Alive(st) /\ (Up(st) => Up(new))
          /\ \E more \in Seq(Mail) :
                /\ new.output = st.output \o more
                /\ Follows(st.advertised, more, new.advertised)

LEMMA MailIsPkt ==
    /\ \A seq \in Seq(Mail) : seq \in Seq(Pkt)
    /\ Mail \subseteq Pkt
    /\ \A m \in Mail : m.kind \notin Control
    /\ \A kind \in Control : Packet(kind) \in Pkt /\ Packet(kind).kind = kind
    /\ \A kind \in {"open", "keepalive", "notification"} :
          Packet(kind) \in Mail /\ Packet(kind).kind = kind
<1>1. Mail \subseteq Pkt
    BY DEF Pkt
<1>2. \A seq \in Seq(Mail) : seq \in Seq(Pkt)
    BY <1>1, SeqMonotonic
<1>3. \A m \in Mail : m.kind \notin Control
    BY DEF Mail, Control
<1> QED
    BY <1>1, <1>2, <1>3 DEF Pkt, Mail, Packet

LEMMA MailAssociative ==
    ASSUME NEW u \in Seq(Mail), NEW v \in Seq(Mail), NEW w \in Seq(Mail)
    PROVE  (u \o v) \o w = u \o (v \o w)
BY ConcatAssociative

LEMMA PktAssociative ==
    ASSUME NEW u \in Seq(Pkt), NEW v \in Seq(Pkt), NEW w \in Seq(Pkt)
    PROVE  (u \o v) \o w = u \o (v \o w)
BY ConcatAssociative

LEMMA GrowsSame ==
    ASSUME NEW st, Fine(st), NEW new, Fine(new), new.output = st.output,
           new.advertised = st.advertised, Alive(new) => Alive(st) /\ (Up(st) => Up(new))
    PROVE  Grows(st, new)
<1>1. <<>> \in Seq(Mail) /\ <<>> \in Seq(Pkt) /\ st.output \o <<>> = st.output
    BY ConcatEmptySeq, EmptySeq DEF Fine
<1>3. Plain(<<>>)
    BY DEF Plain
<1>2. Follows(st.advertised, <<>>, new.advertised)
    BY <1>1, <1>3, FollowsPlain
<1> QED
    BY <1>1, <1>2 DEF Grows

LEMMA GrowsTrans ==
    ASSUME NEW st, Fine(st), NEW mid, NEW new, Grows(st, mid), Grows(mid, new)
    PROVE  Grows(st, new)
<1> SUFFICES ASSUME Alive(new)
             PROVE  \E more \in Seq(Mail) :
                        /\ new.output = st.output \o more
                        /\ Follows(st.advertised, more, new.advertised)
    BY DEF Grows
<1>1. PICK u \in Seq(Mail) : /\ mid.output = st.output \o u
                             /\ Follows(st.advertised, u, mid.advertised)
    BY DEF Grows
<1>2. PICK v \in Seq(Mail) : /\ new.output = mid.output \o v
                             /\ Follows(mid.advertised, v, new.advertised)
    BY DEF Grows
<1>3. u \o v \in Seq(Mail) /\ new.output = st.output \o (u \o v)
    <2>1. st.output \in Seq(Mail)
        BY DEF Fine
    <2>2. (st.output \o u) \o v = st.output \o (u \o v)
        BY <2>1, MailAssociative
    <2>3. u \o v \in Seq(Mail)
        BY ConcatProperties
    <2> QED
        BY <1>1, <1>2, <2>2, <2>3
<1>4. Follows(st.advertised, u \o v, new.advertised)
    BY <1>1, <1>2, FollowsConcat, MailIsPkt
<1> QED
    BY <1>3, <1>4

LEMMA ClosingGrows ==
    ASSUME NEW st, Fine(st)
    PROVE  /\ Grows(st, Closing(st)) /\ ~Alive(Closing(st))
           /\ Fine(Closing(st)) /\ Closing(st).started = st.started
           /\ st.started => Grows(st, Failed(st)) /\ ~Alive(Failed(st))
<1>1. Closing(st) = Stream("Idle", st.started, "soon", st.known, st.output, st.advertised)
    BY StreamPut DEF Closing, Fine
<1>2. /\ Fine(Closing(st)) /\ ~Alive(Closing(st)) /\ Closing(st).started = st.started
      /\ Closing(st).output = st.output /\ Closing(st).advertised = st.advertised
    BY <1>1, ClosingOK DEF Fine, Stream, Alive
<1>3. Failed(st) = Stream("Idle", st.started, "soon", st.known, <<Packet("notification")>>,
                          st.advertised)
    <2>1. Failed(st) = [Closing(st) EXCEPT !.output = <<Packet("notification")>>]
        BY DEF Failed
    <2> QED
        BY <1>1, <2>1 DEF Stream
<1>4. <<Packet("notification")>> \in Seq(Mail)
    BY MailIsPkt
<1>5. st.started => Fine(Failed(st)) /\ ~Alive(Failed(st))
    <2> DEFINE n == <<Packet("notification")>>
               failed == Failed(st)
    <2>1. /\ failed = Stream("Idle", st.started, "soon", st.known, n, st.advertised)
          /\ n \in Seq(Mail) /\ IsStream(failed) /\ failed.closing = "soon"
        BY <1>3, <1>4, ClosingOK DEF Fine
    <2> HIDE DEF n, failed
    <2>2. failed.output = n /\ failed.advertised = st.advertised /\ failed.started = st.started
        BY <2>1 DEF Stream
    <2>3. st.started => Fine(failed) /\ ~Alive(failed)
        BY <2>1, <2>2 DEF Fine, Alive
    <2> QED
        BY <2>3 DEF failed
<1> QED
    BY <1>2, <1>5, GrowsSame DEF Grows

LEMMA QueuedGrows ==
    ASSUME NEW st, Fine(st), st.started, NEW kind \in {"open", "keepalive", "notification"}
    PROVE  Grows(st, Queued(st, kind)) /\ Queued(st, kind).started
<1>1. CASE Len(st.output) >= TxLimit
    BY <1>1, ClosingGrows, ClosingOK DEF Queued, Fine
<1>2. CASE ~(Len(st.output) >= TxLimit)
    <2> DEFINE m == Packet(kind)
               new == Queued(st, kind)
    <2>1. new = [st EXCEPT !.output = Append(st.output, m)]
        BY <1>2 DEF Queued
    <2>2. m \in Mail /\ m.kind = kind
        BY MailIsPkt
    <2> HIDE DEF m, new
    <2>3. new = Stream(st.state, st.started, st.closing, st.known, Append(st.output, m),
                       st.advertised)
        BY <2>1, OutputPut DEF Fine
    <2>4. Append(st.output, m) = st.output \o <<m>> /\ <<m>> \in Seq(Mail)
        BY <2>2, AppendIsConcat DEF Fine
    <2>5. st.output \o <<m>> \in Seq(Mail)
        BY <2>4, ConcatProperties DEF Fine
    <2>6. Fine(new) /\ new.started
        BY <2>3, <2>4, <2>5 DEF Fine, IsStream, Stream
    <2>7. Follows(st.advertised, <<m>>, new.advertised)
        <3>1. Plain(<<m>>)
            BY <2>2 DEF Plain
        <3> QED
            BY <2>3, <2>4, <3>1, FollowsPlain, MailIsPkt DEF Stream
    <2>8. Alive(new) => Alive(st) /\ (Up(st) => Up(new))
        BY <2>3, <2>6, StreamIsSome DEF Fine, Stream, Alive, Up
    <2>9. new.output = st.output \o <<m>>
        BY <2>3, <2>4 DEF Stream
    <2> QED
        BY <2>4, <2>6, <2>7, <2>8, <2>9 DEF Grows, new
<1> QED
    BY <1>1, <1>2

LEMMA StartedGrows ==
    ASSUME NEW st, Fine(st)
    PROVE  /\ Grows(st, Started(st)) /\ Fine(Started(st)) /\ Started(st).started
           /\ Up(Started(st)) => Up(st)
<1>1. CASE st.started
    BY <1>1, GrowsSame DEF Started
<1>2. CASE ~st.started
    <2> DEFINE new == [st EXCEPT !.started = TRUE, !.state = "OpenSent"]
    <2>1. new = Stream("OpenSent", TRUE, st.closing, st.known, st.output, st.advertised)
        BY StreamPut DEF Fine
    <2>2. Started(st) = Queued(new, "open")
        BY <1>2 DEF Started
    <2> HIDE DEF new
    <2>3. Fine(new) /\ new.started /\ new.state = "OpenSent"
        BY <2>1 DEF Fine, IsStream, Stream
    <2>4. ~Up(st)
        BY <1>2 DEF Up, Fine, IsStream
    <2>5. Grows(st, new)
        <3>1. Alive(new) => Alive(st)
            BY <2>1, StreamIsSome DEF Fine, Alive, Stream
        <3> QED
            BY <2>1, <2>3, <2>4, <3>1, GrowsSame DEF Stream
    <2>6. Grows(new, Queued(new, "open")) /\ Queued(new, "open").started
        BY <2>3, QueuedGrows
    <2>7. ~Up(Queued(new, "open"))
        <3>1. CASE Len(new.output) >= TxLimit
            BY <2>3, <3>1, ClosingOK DEF Queued, Up, Fine
        <3>2. CASE ~(Len(new.output) >= TxLimit)
            <4>1. Queued(new, "open") = [new EXCEPT !.output = Append(new.output, Packet("open"))]
                BY <3>2 DEF Queued
            <4>2. Queued(new, "open").state = "OpenSent"
                BY <2>3, <4>1, OutputPut DEF Stream, Fine
            <4> QED
                BY <4>2 DEF Up
        <3> QED
            BY <3>1, <3>2
    <2> QED
        BY <2>2, <2>5, <2>6, <2>7, GrowsTrans DEF Grows
<1> QED
    BY <1>1, <1>2

LEMMA HandledGrows ==
    ASSUME NEW st, Fine(st), st.started, NEW message
    PROVE  /\ Grows(st, Handled(st, message))
           /\ message.kind = "update" /\ Alive(Handled(st, message)) => Up(st)
<1>1. Grows(st, Refused(st)) /\ ~Alive(Refused(st))
    <2> DEFINE c == Closing(st)
    <2>1. Grows(st, c) /\ Fine(c) /\ c.started /\ ~Alive(c)
        BY ClosingGrows
    <2>2. Refused(st) = Queued(c, "notification")
        BY DEF Refused
    <2> HIDE DEF c
    <2>3. Grows(c, Queued(c, "notification"))
        BY <2>1, QueuedGrows
    <2> QED
        BY <2>1, <2>2, <2>3, GrowsTrans DEF Grows
<1>2. Grows(st, Queued(st, "keepalive")) /\ Grows(st, Closing(st)) /\ Grows(st, st)
    BY ClosingGrows, QueuedGrows, GrowsSame
<1>3. ASSUME st.state = "OpenSent"
      PROVE  Grows(st, Queued([st EXCEPT !.state = "OpenConfirm", !.known = TRUE], "keepalive"))
    <2> DEFINE new == [st EXCEPT !.state = "OpenConfirm", !.known = TRUE]
    <2>1. new = Stream("OpenConfirm", st.started, st.closing, TRUE, st.output, st.advertised)
        BY StreamPut, ZenonT(40) DEF Fine
    <2> HIDE DEF new
    <2>2. Fine(new) /\ new.started
        BY <2>1 DEF Fine, IsStream, Stream
    <2>3. Alive(new) => Alive(st) /\ (Up(st) => Up(new))
        BY <1>3, <2>1, StreamIsSome DEF Fine, Alive, Up, Stream
    <2>4. Grows(st, new)
        BY <2>1, <2>2, <2>3, GrowsSame DEF Stream
    <2>5. Grows(new, Queued(new, "keepalive"))
        BY <2>2, QueuedGrows
    <2>6. Grows(st, Queued(new, "keepalive"))
        BY <2>4, <2>5, GrowsTrans
    <2> QED
        BY <2>6 DEF new
<1>4. ASSUME st.state \in {"OpenConfirm", "Established"}
      PROVE  Grows(st, [st EXCEPT !.state = "Established"])
    <2> DEFINE new == [st EXCEPT !.state = "Established"]
    <2>1. new = Stream("Established", st.started, st.closing, st.known, st.output, st.advertised)
        BY StreamPut DEF Fine
    <2> HIDE DEF new
    <2>2. Fine(new)
        BY <1>4, <2>1 DEF Fine, IsStream, Stream
    <2>3. Alive(new) => Alive(st) /\ (Up(st) => Up(new))
        BY <2>1, <2>2, StreamIsSome DEF Fine, Alive, Up, Stream
    <2>4. Grows(st, new)
        BY <2>1, <2>2, <2>3, GrowsSame DEF Stream
    <2> QED
        BY <2>4 DEF new
<1> HIDE DEF Refused
<1>5. \/ Handled(st, message) = Refused(st)
      \/ Handled(st, message) = Queued(st, "keepalive") /\ message.kind = "idle"
      \/ Handled(st, message) = Closing(st) /\ message.kind = "notification"
      \/ Handled(st, message) = st /\ message.kind = "nothing"
      \/ Handled(st, message) = st /\ message.kind = "update" /\ st.state = "Established"
      \/ /\ Handled(st, message) =
              Queued([st EXCEPT !.state = "OpenConfirm", !.known = TRUE], "keepalive")
         /\ message.kind = "open" /\ st.state = "OpenSent"
      \/ /\ Handled(st, message) = [st EXCEPT !.state = "Established"]
         /\ message.kind = "keepalive" /\ st.state \in {"OpenConfirm", "Established"}
    BY DEF Handled
<1>6. Alive(st) /\ st.state = "Established" => Up(st)
    BY DEF Alive, Up
<1> QED
    BY <1>1, <1>2, <1>3, <1>4, <1>5, <1>6

LEMMA ServedGrows ==
    ASSUME NEW state, NEW st, Fine(st), NEW message
    PROVE  LET new == Served(state, st, message) IN
           /\ Grows(st, new)
           /\ Alive(new) => state # "CloseWait"
           /\ message.kind = "update" /\ state = "Established" /\ Alive(new) => Up(st)
<1> DEFINE new == Served(state, st, message)
<1>1. CASE Ended(state, st)
    <2>1. new = [st EXCEPT !.closing = "now", !.state = "Active"]
        BY <1>1 DEF Served
    <2>2. new = Stream("Active", st.started, "now", st.known, st.output, st.advertised)
        BY <2>1, StreamPut DEF Fine
    <2> HIDE DEF new
    <2>3. Fine(new) /\ ~Alive(new)
        BY <2>2 DEF Fine, IsStream, Stream, Alive
    <2> QED
        BY <2>3 DEF Grows, new
<1>2. CASE ~Ended(state, st) /\ (state # "Established" \/ st.closing # "no")
    <2>1. new = st
        BY <1>2 DEF Served
    <2> QED
        BY <1>2, <2>1, GrowsSame DEF Ended, Alive
<1>3. CASE state = "Established" /\ st.closing = "no"
    <2>1. new = Handled(Started(st), message)
        BY <1>3 DEF Served, Ended
    <2>2. /\ Grows(st, Started(st)) /\ Fine(Started(st)) /\ Started(st).started
          /\ Up(Started(st)) => Up(st)
        BY StartedGrows
    <2>3. /\ Grows(Started(st), new)
          /\ message.kind = "update" /\ Alive(new) => Up(Started(st))
        BY <2>1, <2>2, HandledGrows
    <2> QED
        BY <1>3, <2>2, <2>3, GrowsTrans
<1> QED
    BY <1>1, <1>2, <1>3 DEF Ended

LEMMA AdvertisedPut ==
    ASSUME NEW st, IsStream(st), NEW v
    PROVE  [st EXCEPT !.advertised = v] =
             Stream(st.state, st.started, st.closing, st.known, st.output, v)
<1>1. PICK state, started, closing, known, output, advertised :
         st = Stream(state, started, closing, known, output, advertised)
    BY DEF IsStream, Stream
<1> QED
    BY <1>1 DEF Stream

LEMMA AdvertisingGrows ==
    ASSUME NEW st, Fine(st), st.started, NEW nets \in Routes
    PROVE  Grows(st, Advertising(st, nets))
<1> DEFINE new == Advertising(st, nets)
           notes == Noted(st, nets)
           more == [n \in 1 .. Cardinality(Batch(st, nets)) |->
                        LET p == Ordered(Batch(st, nets), nets)[n] IN Update(p, nets[p])]
           queue == st.output \o more
           st1 == [st EXCEPT !.advertised = notes]
<1>1. more \in Seq(Mail) /\ notes \in Routes /\ Follows(st.advertised, more, notes)
    BY FollowsAdvertising DEF Fine
<1>2. new = [st1 EXCEPT !.output = queue]
    BY DEF Advertising
<1>3. ASSUME NEW k
      PROVE  [st EXCEPT !.advertised = k] =
                Stream(st.state, st.started, st.closing, st.known, st.output, k)
    BY AdvertisedPut DEF Fine
<1>4. st1 = Stream(st.state, st.started, st.closing, st.known, st.output, notes)
    BY <1>3
<1>5. queue \in Seq(Mail)
    BY <1>1, ConcatProperties DEF Fine
<1>6. queue = st.output \o more
    OBVIOUS
<1> HIDE DEF new, notes, more, st1, queue
<1>7. new = Stream(st.state, st.started, st.closing, st.known, queue, notes)
    BY <1>2, <1>4 DEF Stream
<1>8. /\ new.state = st.state /\ new.started = st.started /\ new.closing = st.closing
      /\ new.known = st.known /\ new.output = queue /\ new.advertised = notes
    BY <1>7 DEF Stream
<1>9. Fine(new) /\ (Alive(new) => Alive(st) /\ (Up(st) => Up(new)))
    <2>1. IsStream(new)
        BY <1>7, <1>8 DEF Fine, IsStream, Stream
    <2> QED
        BY <1>1, <1>5, <1>8, <2>1, StreamIsSome DEF Fine, Alive, Up
<1>10. \E m \in Seq(Mail) :
          new.output = st.output \o m /\ Follows(st.advertised, m, new.advertised)
    BY <1>1, <1>6, <1>8
<1>11. Grows(st, new)
    BY <1>9, <1>10 DEF Grows
<1> QED
    BY <1>11 DEF new

-----------------------------------------------------------------------------
(* What the stages of a tick do, connection by connection *)

\* What a speaker has of a connection: the routes received on it.
Got(x, c) == IF x.selected = c THEN x.received ELSE NoRoutes

Gone == {"none", "FinWait"}

\* What a tick starts from.  A connection without a stream is new.
Ready(s, r) ==
    /\ IsResult(r) /\ Entered(r.x)
    /\ r.x.received \in Routes /\ r.out \in [Conn -> Seq(Pkt)]
    /\ \A c \in Conn : /\ r.x.stream[c] = NoStream \/ Fine(r.x.stream[c])
                       /\ Up(r.x.stream[c]) => r.x.selected = c
                       /\ r.x.stream[c] = NoStream /\ r.x.tcp[c] \notin Gone =>
                             /\ c \in {Other(s)} \X Number /\ r.x.tcp[c] = "SynReceived"
                             /\ \A d \in Conn : d # c => r.x.stream[d] # NoStream
                                                            \/ r.x.tcp[d] \in Gone

LEMMA PostParts ==
    ASSUME NEW r, IsResult(r), NEW c, NEW packet
    PROVE  Post(r, c, packet) = Parts(r.x.tcp, r.x.stream, r.x.selected, r.x.received,
                                      r.x.waiting, [r.out EXCEPT ![c] = Append(@, packet)])
<1>1. PICK tcp, stream, selected, received, waiting, out :
         r = Parts(tcp, stream, selected, received, waiting, out)
    BY PartsOf
<1>2. r.out = out
    BY <1>1 DEF Parts
<1> DEFINE more == [out EXCEPT ![c] = Append(@, packet)]
<1>3. Post(r, c, packet) = [r EXCEPT !.out = more]
    BY <1>2 DEF Post
<1> HIDE DEF more
<1>4. Post(r, c, packet) = Parts(tcp, stream, selected, received, waiting, more)
    BY <1>1, <1>3 DEF Parts
<1>5. /\ r.x.tcp = tcp /\ r.x.stream = stream /\ r.x.selected = selected
      /\ r.x.received = received /\ r.x.waiting = waiting
    BY <1>1 DEF Parts
<1> QED
    BY <1>2, <1>4, <1>5 DEF more

LEMMA PartsFields ==
    ASSUME NEW r, NEW tcp, NEW stream, NEW selected, NEW received, NEW waiting, NEW out,
           r = Parts(tcp, stream, selected, received, waiting, out)
    PROVE  /\ r.x.tcp = tcp /\ r.x.stream = stream /\ r.x.selected = selected
           /\ r.x.received = received /\ r.x.waiting = waiting /\ r.out = out
BY DEF Parts

LEMMA NoRoutesType == NoRoutes \in Routes
BY DEF NoRoutes, Routes

\* Streams whose connection has gone are dropped; nothing else is new.
LEMMA SweptAt ==
    ASSUME NEW s \in Speaker, NEW r, Ready(s, r)
    PROVE  LET q == Swept(r) IN
           /\ Ready(s, q) /\ q.out = r.out /\ q.x.tcp = r.x.tcp
           /\ \A c \in Conn :
                /\ q.x.stream[c] = IF r.x.tcp[c] \in Gone THEN NoStream ELSE r.x.stream[c]
                /\ q.x.stream[c] # NoStream => Got(q.x, c) = Got(r.x, c)
<1> DEFINE q == Swept(r)
           stale == Stale(r.x)
           lost == r.x.selected \in stale
<1>1. stale = {c \in Conn : r.x.stream[c] # NoStream /\ r.x.tcp[c] \in Gone}
    BY DEF Stale, Streams, Gone
<1>2. IsResult(q) /\ Entered(q.x)
    <2>1. Lasts(r.x, {})
        BY DEF Lasts
    <2> QED
        BY <2>1, SweptStep DEF Ready
<1>3. /\ q.x.tcp = r.x.tcp /\ q.out = r.out
      /\ q.x.stream = [c \in Conn |-> IF c \in stale THEN NoStream ELSE r.x.stream[c]]
      /\ q.x.selected = IF lost THEN NoConn ELSE r.x.selected
      /\ q.x.received = IF lost THEN NoRoutes ELSE r.x.received
    <2>1. IsResult(r)
        BY DEF Ready
    <2> QED
        BY <2>1, SweptIs, PartsFields
<1> HIDE DEF q, stale
<1>4. \A c \in Conn :
        q.x.stream[c] = IF r.x.tcp[c] \in Gone THEN NoStream ELSE r.x.stream[c]
    BY <1>1, <1>3
<1>5. \A c \in Conn : q.x.stream[c] # NoStream => Got(q.x, c) = Got(r.x, c)
    <2>1. \A c \in Conn : c # NoConn
        BY DEF NoConn, Conn, Speaker
    <2> QED
        BY <1>1, <1>3, <2>1 DEF Got
<1>6. ASSUME NEW c \in Conn, Up(q.x.stream[c]) PROVE q.x.selected = c
    <2>1. q.x.stream[c] = r.x.stream[c] /\ c \notin stale
        BY <1>3, <1>6 DEF Up
    <2> QED
        BY <1>3, <1>6, <2>1 DEF Ready
<1>7. Ready(s, q)
    BY <1>2, <1>3, <1>4, <1>6, NoRoutesType DEF Ready
<1> QED
    BY <1>3, <1>4, <1>5, <1>7 DEF q

\* A stream, where a new one is made for a connection without one.
Begun(st) == IF st = NoStream THEN NewStream ELSE st

LEMMA NewStreamFine ==
    /\ Fine(NewStream) /\ Alive(NewStream) /\ ~NewStream.started
    /\ NewStream.output = <<>> /\ NewStream.advertised = NoRoutes
<1>1. /\ NewStream.output = <<>> /\ NewStream.advertised = NoRoutes /\ NewStream.closing = "no"
      /\ ~NewStream.started
    BY DEF NewStream
<1>2. <<>> \in Seq(Mail)
    OBVIOUS
<1> QED
    BY <1>1, <1>2, NewStreamOK, NoRoutesType DEF Fine, Alive

LEMMA AbortedParts ==
    ASSUME NEW r, IsResult(r), NEW c \in Conn
    PROVE  Aborted(r, c) =
             Parts([r.x.tcp EXCEPT ![c] = "none"], r.x.stream, r.x.selected, r.x.received,
                   r.x.waiting, [r.out EXCEPT ![c] = Append(@, Packet("RST"))])
<1> DEFINE p == SetTcp(r, c, "none")
<1>1. p = Parts([r.x.tcp EXCEPT ![c] = "none"], r.x.stream, r.x.selected, r.x.received,
                r.x.waiting, r.out)
    BY SetTcpIs
<1>2. Aborted(r, c) = Post(p, c, Packet("RST"))
    BY DEF Aborted
<1> HIDE DEF p
<1>3. IsResult(p)
    <2>1. [r.x.tcp EXCEPT ![c] = "none"] \in [Conn -> TcpState]
        BY DEF IsResult, IsPeer, TcpState
    <2> DEFINE tcp == [r.x.tcp EXCEPT ![c] = "none"]
    <2> HIDE DEF tcp
    <2>2. /\ p = [x |-> p.x, out |-> p.out]
          /\ p.x = [tcp |-> p.x.tcp, stream |-> p.x.stream, selected |-> p.x.selected,
                    received |-> p.x.received, waiting |-> p.x.waiting]
          /\ p.x.tcp = tcp /\ p.x.stream = r.x.stream
        BY <1>1 DEF Parts, tcp
    <2> QED
        BY <2>1, <2>2 DEF IsResult, IsPeer, tcp
<1>4. /\ p.x.tcp = [r.x.tcp EXCEPT ![c] = "none"] /\ p.x.stream = r.x.stream
      /\ p.x.selected = r.x.selected /\ p.x.received = r.x.received
      /\ p.x.waiting = r.x.waiting /\ p.out = r.out
    BY <1>1, PartsFields
<1>5. Post(p, c, Packet("RST")) =
        Parts(p.x.tcp, p.x.stream, p.x.selected, p.x.received, p.x.waiting,
              [p.out EXCEPT ![c] = Append(@, Packet("RST"))])
    BY <1>3, PostParts
<1> QED
    BY <1>2, <1>4, <1>5

\* A packet is added to what is sent.
LEMMA PostedOut ==
    ASSUME NEW out \in [Conn -> Seq(Pkt)], NEW c \in Conn, NEW packet \in Pkt
    PROVE  LET new == [out EXCEPT ![c] = Append(@, packet)] IN
           /\ new \in [Conn -> Seq(Pkt)] /\ new[c] = Append(out[c], packet)
           /\ \A k \in Conn : k # c => new[k] = out[k]
<1>1. Append(out[c], packet) \in Seq(Pkt)
    BY AppendProperties
<1> QED
    BY <1>1

\* A connection that the other speaker has opened is refused or gets a stream.
LEMMA AcceptedAt ==
    ASSUME NEW s \in Speaker, NEW r, Ready(s, r), Clean(r.x)
    PROVE  LET q == Accepted(s, r) IN
           /\ Ready(s, q) /\ Clean(q.x)
           /\ q.x.selected = r.x.selected /\ q.x.received = r.x.received
           /\ \A c \in Conn :
                \/ /\ r.x.tcp[c] \notin Gone /\ r.x.stream[c] = NoStream
                   /\ q.x.tcp[c] = "none" /\ q.x.stream[c] = NoStream
                   /\ q.out[c] = Append(r.out[c], Packet("RST"))
                \/ /\ q.x.tcp[c] = r.x.tcp[c] /\ q.out[c] = r.out[c]
                   /\ q.x.stream[c] = IF r.x.tcp[c] \in Gone THEN NoStream
                                      ELSE Begun(r.x.stream[c])
<1> DEFINE q == Accepted(s, r)
<1>0. /\ r.x.tcp \in [Conn -> TcpState] /\ r.out \in [Conn -> Seq(Pkt)]
      /\ r.x.stream = [c \in Conn |-> r.x.stream[c]] /\ IsResult(r)
      /\ \A c \in Conn : r.x.tcp[c] \in Gone => r.x.stream[c] = NoStream
    BY DEF Ready, Entered, IsPeer, Clean, Gone
<1>1. IsResult(q) /\ Entered(q.x) /\ Clean(q.x)
    <2>1. Lasts(r.x, {})
        BY DEF Lasts
    <2> QED
        BY <2>1, AcceptedStep DEF Ready
<1>2. Packet("RST") \in Pkt
    BY MailIsPkt DEF Control
<1>3. ASSUME /\ q.x.selected = r.x.selected /\ q.x.received = r.x.received
             /\ q.out \in [Conn -> Seq(Pkt)]
             /\ \A c \in Conn :
                  \/ /\ r.x.tcp[c] \notin Gone /\ r.x.stream[c] = NoStream
                     /\ q.x.tcp[c] = "none" /\ q.x.stream[c] = NoStream
                     /\ q.out[c] = Append(r.out[c], Packet("RST"))
                  \/ /\ q.x.tcp[c] = r.x.tcp[c] /\ q.out[c] = r.out[c]
                     /\ q.x.stream[c] = IF r.x.tcp[c] \in Gone THEN NoStream
                                        ELSE Begun(r.x.stream[c])
      PROVE  Ready(s, q)
    <2> HIDE DEF q
    <2>1. ASSUME NEW c \in Conn
          PROVE  /\ q.x.stream[c] = NoStream \/ Fine(q.x.stream[c])
                 /\ Up(q.x.stream[c]) => q.x.selected = c
                 /\ q.x.stream[c] = NoStream => q.x.tcp[c] \in Gone
        <3>1. CASE q.x.tcp[c] = "none" /\ q.x.stream[c] = NoStream
            BY <3>1 DEF Gone, Up
        <3>2. CASE /\ q.x.tcp[c] = r.x.tcp[c]
                   /\ q.x.stream[c] = IF r.x.tcp[c] \in Gone THEN NoStream
                                      ELSE Begun(r.x.stream[c])
            <4>1. CASE r.x.tcp[c] \in Gone
                BY <3>2, <4>1 DEF Up
            <4>2. CASE r.x.tcp[c] \notin Gone /\ r.x.stream[c] = NoStream
                BY <3>2, <4>2, NewStreamFine, NewStreamOK DEF Begun
            <4>3. CASE r.x.tcp[c] \notin Gone /\ r.x.stream[c] # NoStream
                BY <1>3, <3>2, <4>3 DEF Begun, Ready
            <4> QED
                BY <4>1, <4>2, <4>3
        <3> QED
            BY <1>3, <3>1, <3>2
    <2>2. q.x.received \in Routes
        BY <1>3 DEF Ready
    <2> QED
        BY <1>1, <1>3, <2>1, <2>2 DEF Ready
<1>4. CASE Incoming(s, r.x) = {}
    <2>1. q = r
        BY <1>4 DEF Accepted
    <2>2. ASSUME NEW c \in Conn, r.x.tcp[c] \notin Gone PROVE r.x.stream[c] # NoStream
        BY <1>4, <2>2 DEF Ready, Incoming
    <2>3. \A c \in Conn : r.x.stream[c] = IF r.x.tcp[c] \in Gone THEN NoStream
                                          ELSE Begun(r.x.stream[c])
        BY <1>0, <2>2 DEF Begun
    <2> QED
        BY <2>1, <2>3, <1>0, <1>1, <1>3
<1>5. CASE Incoming(s, r.x) # {}
    <2> DEFINE c == CHOOSE c \in Incoming(s, r.x) : TRUE
    <2>1. c \in Incoming(s, r.x)
        BY <1>5
    <2>2. /\ c \in Conn /\ r.x.stream[c] = NoStream /\ r.x.tcp[c] \notin Gone
        BY <2>1, ConnIs DEF Incoming, Speaker, Other, Gone
    <2>3. q = IF Crowded(r.x) THEN Aborted(r, c) ELSE [r EXCEPT !.x.stream[c] = NewStream]
        BY <1>5 DEF Accepted
    <2> HIDE DEF c, q
    <2>4. \A k \in Conn : k # c => r.x.stream[k] # NoStream \/ r.x.tcp[k] \in Gone
        BY <2>2 DEF Ready
    <2>5. \A k \in Conn : k # c => r.x.stream[k] = IF r.x.tcp[k] \in Gone THEN NoStream
                                                   ELSE Begun(r.x.stream[k])
        BY <1>0, <2>4 DEF Begun
    <2>6. CASE Crowded(r.x)
        <3> DEFINE out == [r.out EXCEPT ![c] = Append(@, Packet("RST"))]
        <3>1. /\ q.x.tcp = [r.x.tcp EXCEPT ![c] = "none"] /\ q.x.stream = r.x.stream
              /\ q.x.selected = r.x.selected /\ q.x.received = r.x.received /\ q.out = out
            <4>1. q = Aborted(r, c)
                BY <2>3, <2>6
            <4>2. q = Parts([r.x.tcp EXCEPT ![c] = "none"], r.x.stream, r.x.selected,
                            r.x.received, r.x.waiting, out)
                BY <1>0, <2>2, <4>1, AbortedParts
            <4> HIDE DEF out
            <4> QED
                BY <4>2, PartsFields
        <3>2. /\ out \in [Conn -> Seq(Pkt)] /\ out[c] = Append(r.out[c], Packet("RST"))
              /\ \A k \in Conn : k # c => out[k] = r.out[k]
            BY <1>0, <1>2, <2>2, PostedOut
        <3> HIDE DEF out
        <3>3. q.x.tcp[c] = "none" /\ \A k \in Conn : k # c => q.x.tcp[k] = r.x.tcp[k]
            BY <1>0, <2>2, <3>1
        <3>5. \A k \in Conn : k # c =>
                 /\ q.x.tcp[k] = r.x.tcp[k] /\ q.out[k] = r.out[k]
                 /\ q.x.stream[k] = IF r.x.tcp[k] \in Gone THEN NoStream
                                    ELSE Begun(r.x.stream[k])
            BY <2>5, <3>1, <3>2, <3>3
        <3>6. /\ q.x.tcp[c] = "none" /\ q.x.stream[c] = NoStream
              /\ q.out[c] = Append(r.out[c], Packet("RST"))
            BY <2>2, <3>1, <3>2, <3>3
        <3>4. /\ q.x.selected = r.x.selected /\ q.x.received = r.x.received
              /\ q.out \in [Conn -> Seq(Pkt)]
              /\ \A k \in Conn :
                   \/ /\ r.x.tcp[k] \notin Gone /\ r.x.stream[k] = NoStream
                      /\ q.x.tcp[k] = "none" /\ q.x.stream[k] = NoStream
                      /\ q.out[k] = Append(r.out[k], Packet("RST"))
                   \/ /\ q.x.tcp[k] = r.x.tcp[k] /\ q.out[k] = r.out[k]
                      /\ q.x.stream[k] = IF r.x.tcp[k] \in Gone THEN NoStream
                                         ELSE Begun(r.x.stream[k])
            <4> HIDE DEF Begun
            <4> QED
                BY <2>2, <3>1, <3>2, <3>5, <3>6
        <3> QED
            BY <1>1, <1>3, <3>4 DEF q
    <2>7. CASE ~Crowded(r.x)
        <3>1. /\ q.x.tcp = r.x.tcp /\ q.x.stream = [r.x.stream EXCEPT ![c] = NewStream]
              /\ q.x.selected = r.x.selected /\ q.x.received = r.x.received /\ q.out = r.out
            <4>1. q = SetStream(r, c, NewStream)
                BY <2>3, <2>7 DEF SetStream
            <4> QED
                BY <1>0, <2>2, <4>1, SetStreamIs, PartsFields
        <3>2. /\ q.x.stream[c] = NewStream
              /\ \A k \in Conn : k # c => q.x.stream[k] = r.x.stream[k]
            BY <1>0, <2>2, <3>1
        <3>3. \A k \in Conn : q.x.stream[k] = IF r.x.tcp[k] \in Gone THEN NoStream
                                              ELSE Begun(r.x.stream[k])
            BY <2>2, <2>5, <3>2 DEF Begun
        <3> QED
            BY <1>0, <1>1, <1>3, <3>1, <3>3 DEF q
    <2> QED
        BY <2>6, <2>7
<1> QED
    BY <1>4, <1>5

Less == {ss \in Nat \X Nat : ss[1] < ss[2]}

\* A set of natural numbers has a least member.
LEMMA LeastNat ==
    ASSUME NEW S \in SUBSET Nat, S # {}
    PROVE  \E m \in S : \A n \in S : m <= n
<1>1. IsWellFoundedOn(Less, Nat)
    BY NatLessThanWellFounded DEF OpToRel, Less
<1>2. PICK m \in S : \A n \in S : ~(<<n, m>> \in Less)
    BY <1>1, WFMin
<1>3. ASSUME NEW n \in S PROVE m <= n
    <2>1. m \in Nat /\ n \in Nat /\ <<n, m>> \in Nat \X Nat
        OBVIOUS
    <2>2. n < m => <<n, m>> \in Less
        BY <2>1 DEF Less
    <2> QED
        BY <1>2, <2>1, <2>2
<1> QED
    BY <1>3

\* The port that is taken is free.
LEMMA LeastFree ==
    ASSUME NEW s \in Speaker, NEW r, Free(s, r) # {}
    PROVE  (CHOOSE c \in Free(s, r) : \A k \in Free(s, r) : c[2] <= k[2]) \in Free(s, r)
<1> DEFINE free == Free(s, r)
           ports == {c[2] : c \in free}
<1>1. \A c \in free : c \in {s} \X Number /\ c[2] \in Number
    BY DEF Free
<1> HIDE DEF free
<1>2. ports \in SUBSET Nat /\ ports # {}
    BY <1>1 DEF free
<1>3. PICK m \in ports : \A n \in ports : m <= n
    BY <1>2, LeastNat
<1>4. PICK c \in free : c[2] = m
    OBVIOUS
<1>5. \A k \in free : c[2] <= k[2]
    BY <1>3, <1>4
<1>6. \E d \in free : \A k \in free : d[2] <= k[2]
    BY <1>5
<1>7. (CHOOSE d \in free : \A k \in free : d[2] <= k[2]) \in free
    BY <1>6
<1> QED
    BY <1>7 DEF free

\* The connection c of s is opened on a port that nothing is left of.
Fresh(s, r, c) ==
    /\ c \in {s} \X Number /\ r.x.tcp[c] = "none" /\ r.out[c] = <<>>
    /\ peer[Other(s)].tcp[c] = "none" /\ wire[1][c] = <<>> /\ wire[2][c] = <<>>

LEMMA ConnectedIs ==
    ASSUME NEW s \in Speaker, NEW r, IsResult(r), Opens(s, r)
    PROVE  \E c \in Free(s, r) : \E wait :
             Connected(s, r) =
                Parts([r.x.tcp EXCEPT ![c] = "SynSent"], [r.x.stream EXCEPT ![c] = NewStream],
                      r.x.selected, r.x.received, wait,
                      [r.out EXCEPT ![c] = Append(@, Packet("SYN"))])
<1> DEFINE c == CHOOSE c \in Free(s, r) : \A k \in Free(s, r) : c[2] <= k[2]
<1>1. c \in Free(s, r)
    BY LeastFree DEF Opens
<1>2. PICK wait :
        Connected(s, r) =
            Post([SetTcp(r, c, "SynSent") EXCEPT !.x.stream[c] = NewStream, !.x.waiting = wait],
                 c, Packet("SYN"))
    BY DEF Connected
<1> HIDE DEF c
<1>3. PICK tcp, stream, selected, received, waiting, out :
         r = Parts(tcp, stream, selected, received, waiting, out)
    BY PartsOf
<1>4. /\ r.x.tcp = tcp /\ r.x.stream = stream /\ r.x.selected = selected
      /\ r.x.received = received /\ r.out = out
    BY <1>3, PartsFields
<1> DEFINE tcp1 == [tcp EXCEPT ![c] = "SynSent"]
           stream1 == [stream EXCEPT ![c] = NewStream]
           out1 == [out EXCEPT ![c] = Append(@, Packet("SYN"))]
           r1 == SetTcp(r, c, "SynSent")
           r2 == [r1 EXCEPT !.x.stream[c] = NewStream, !.x.waiting = wait]
           r3 == [r1 EXCEPT !.x.stream[c] = NewStream]
<1>5. r1 = Parts(tcp1, stream, selected, received, waiting, out)
    BY <1>3 DEF SetTcp, Parts
<1>6. r2 = [r3 EXCEPT !.x.waiting = wait]
    OBVIOUS
<1>7. Connected(s, r) = Post(r2, c, Packet("SYN"))
    BY <1>2
<1> HIDE DEF r1, r2, tcp1
<1>8. r3 = Parts(tcp1, stream1, selected, received, waiting, out)
    BY <1>5 DEF Parts
<1> HIDE DEF r3, stream1
<1>9. r2 = Parts(tcp1, stream1, selected, received, wait, out)
    BY <1>6, <1>8 DEF Parts
<1>10. Post(r2, c, Packet("SYN")) = Parts(tcp1, stream1, selected, received, wait, out1)
    <2>1. r2.out = out
        BY <1>9, PartsFields
    <2>2. Post(r2, c, Packet("SYN")) = [r2 EXCEPT !.out = out1]
        BY <2>1 DEF Post
    <2> HIDE DEF out1
    <2> QED
        BY <1>9, <2>2 DEF Parts
<1>11. Connected(s, r) = Parts(tcp1, stream1, selected, received, wait, out1)
    BY <1>7, <1>10
<1> QED
    BY <1>1, <1>4, <1>11 DEF tcp1, stream1

\* A speaker without a stream may open a connection.
LEMMA ConnectedAt ==
    ASSUME NEW s \in Speaker, NEW r, Ready(s, r), Clean(r.x),
           \A c \in Conn : r.x.stream[c] = NoStream => r.x.tcp[c] \in Gone
    PROVE  LET q == Connected(s, r) IN
           /\ Ready(s, q) /\ Clean(q.x)
           /\ q.x.selected = r.x.selected /\ q.x.received = r.x.received
           /\ \A c \in Conn :
                \/ /\ Fresh(s, r, c) /\ q.x.tcp[c] = "SynSent" /\ q.x.stream[c] = NewStream
                   /\ q.out[c] = <<Packet("SYN")>>
                \/ /\ q.x.tcp[c] = r.x.tcp[c] /\ q.x.stream[c] = r.x.stream[c]
                   /\ q.out[c] = r.out[c]
           /\ \A c \in Conn : q.x.stream[c] = NoStream => q.x.tcp[c] \in Gone
<1> DEFINE q == Connected(s, r)
<1>0. /\ r.x.tcp \in [Conn -> TcpState] /\ r.out \in [Conn -> Seq(Pkt)]
      /\ r.x.stream = [c \in Conn |-> r.x.stream[c]] /\ IsResult(r)
    BY DEF Ready, Entered, IsPeer
<1>1. IsResult(q) /\ Entered(q.x) /\ Clean(q.x)
    <2>1. Lasts(r.x, {})
        BY DEF Lasts
    <2> QED
        BY <2>1, ConnectedStep DEF Ready
<1>2. CASE ~Opens(s, r)
    <2>1. q = r
        BY <1>2 DEF Connected
    <2> QED
        BY <2>1
<1>3. CASE Opens(s, r)
    <2>1. PICK c \in Free(s, r) : \E wait :
             q = Parts([r.x.tcp EXCEPT ![c] = "SynSent"], [r.x.stream EXCEPT ![c] = NewStream],
                       r.x.selected, r.x.received, wait,
                       [r.out EXCEPT ![c] = Append(@, Packet("SYN"))])
        BY <1>0, <1>3, ConnectedIs
    <2> HIDE DEF q
    <2> DEFINE out == [r.out EXCEPT ![c] = Append(@, Packet("SYN"))]
    <2>2. c \in Conn /\ Fresh(s, r, c)
        BY ConnIs DEF Free, Fresh
    <2>3. /\ q.x.tcp = [r.x.tcp EXCEPT ![c] = "SynSent"]
          /\ q.x.stream = [r.x.stream EXCEPT ![c] = NewStream]
          /\ q.x.selected = r.x.selected /\ q.x.received = r.x.received /\ q.out = out
        <3>1. PICK wait :
                q = Parts([r.x.tcp EXCEPT ![c] = "SynSent"], [r.x.stream EXCEPT ![c] = NewStream],
                          r.x.selected, r.x.received, wait, out)
            BY <2>1
        <3> HIDE DEF out
        <3> QED
            BY <3>1, PartsFields
    <2>4. /\ out \in [Conn -> Seq(Pkt)] /\ out[c] = Append(r.out[c], Packet("SYN"))
          /\ \A k \in Conn : k # c => out[k] = r.out[k]
        <3>1. Packet("SYN") \in Pkt
            BY MailIsPkt DEF Control
        <3> QED
            BY <1>0, <2>2, <3>1, PostedOut
    <2> HIDE DEF out
    <2>5. out[c] = <<Packet("SYN")>>
        BY <2>2, <2>4 DEF Fresh
    <2>6. /\ q.x.tcp[c] = "SynSent" /\ q.x.stream[c] = NewStream
          /\ \A k \in Conn : k # c => q.x.tcp[k] = r.x.tcp[k] /\ q.x.stream[k] = r.x.stream[k]
        BY <1>0, <2>2, <2>3
    <2>7. \A k \in Conn : r.x.stream[k] = NoStream
        BY <1>3 DEF Opens, Streams
    <2>8. \A k \in Conn :
              \/ /\ Fresh(s, r, k) /\ q.x.tcp[k] = "SynSent" /\ q.x.stream[k] = NewStream
                 /\ q.out[k] = <<Packet("SYN")>>
              \/ /\ q.x.tcp[k] = r.x.tcp[k] /\ q.x.stream[k] = r.x.stream[k]
                 /\ q.out[k] = r.out[k]
        BY <2>2, <2>3, <2>4, <2>5, <2>6
    <2>9. \A k \in Conn : q.x.stream[k] = NoStream => q.x.tcp[k] \in Gone
        BY <2>6, NewStreamOK
    <2>10. \A k \in Conn : /\ q.x.stream[k] = NoStream \/ Fine(q.x.stream[k])
                           /\ ~Up(q.x.stream[k])
        BY <2>6, <2>7, NewStreamFine, NewStreamOK DEF Up
    <2>11. q.x.received \in Routes /\ q.out \in [Conn -> Seq(Pkt)]
        BY <2>3, <2>4 DEF Ready
    <2>12. Ready(s, q)
        BY <1>1, <2>9, <2>10, <2>11 DEF Ready, q
    <2> QED
        BY <1>1, <2>3, <2>8, <2>9, <2>12 DEF q
<1> QED
    BY <1>2, <1>3

LEMMA StreamsParts ==
    ASSUME NEW r, IsResult(r), NEW streams
    PROVE  [r EXCEPT !.x.stream = streams] =
             Parts(r.x.tcp, streams, r.x.selected, r.x.received, r.x.waiting, r.out)
<1>1. PICK tcp, stream, selected, received, waiting, out :
         r = Parts(tcp, stream, selected, received, waiting, out)
    BY PartsOf
<1>2. [r EXCEPT !.x.stream = streams] = Parts(tcp, streams, selected, received, waiting, out)
    BY <1>1 DEF Parts
<1> QED
    BY <1>1, <1>2, PartsFields

\* Only the streams differ, and only as sessions that go on.
Advances(r, q) ==
    /\ q.x.tcp = r.x.tcp /\ q.out = r.out
    /\ \A k \in Conn :
         /\ r.x.stream[k] = NoStream => q.x.stream[k] = NoStream
         /\ r.x.stream[k] # NoStream => Grows(r.x.stream[k], q.x.stream[k])

Streaming(r) == \A k \in Conn : r.x.stream[k] = NoStream \/ Fine(r.x.stream[k])

LEMMA AllServedAt ==
    ASSUME NEW r, IsResult(r), Streaming(r), NEW c, NEW message
    PROVE  LET q == AllServed(r, c, message) IN
           /\ Advances(r, q)
           /\ q.x.selected = r.x.selected /\ q.x.received = r.x.received
           /\ \A k \in Conn :
                /\ Alive(q.x.stream[k]) => r.x.tcp[k] # "CloseWait"
                /\ k = c /\ message.kind = "update" /\ r.x.tcp[k] = "Established"
                     /\ Alive(q.x.stream[k]) => Up(r.x.stream[k])
                /\ r.x.tcp[k] \in {"SynSent", "SynReceived"} => q.x.stream[k] = r.x.stream[k]
<1> DEFINE q == AllServed(r, c, message)
           told == [k \in Conn |-> IF k = c THEN message ELSE Nothing]
           new == [k \in Conn |-> Served(r.x.tcp[k], r.x.stream[k], told[k])]
           streams == [k \in Conn |-> IF r.x.stream[k] = NoStream THEN NoStream ELSE new[k]]
<1>1. q = [r EXCEPT !.x.stream = streams]
    <2>1. PICK tcp, stream, selected, received, waiting, out :
             r = Parts(tcp, stream, selected, received, waiting, out)
        BY PartsOf
    <2>2. r.x.tcp = tcp /\ r.x.stream = stream
        BY <2>1, PartsFields
    <2>3. streams = [k \in Conn |->
            IF stream[k] = NoStream THEN NoStream
            ELSE Served(tcp[k], stream[k], IF k = c THEN message ELSE Nothing)]
        BY <2>2
    <2> HIDE DEF streams
    <2> QED
        BY <2>1, <2>2, <2>3 DEF AllServed, Parts
<1>2. ASSUME NEW k \in Conn, r.x.stream[k] # NoStream
      PROVE  /\ Grows(r.x.stream[k], new[k])
             /\ Alive(new[k]) => r.x.tcp[k] # "CloseWait"
             /\ k = c /\ message.kind = "update" /\ r.x.tcp[k] = "Established"
                  /\ Alive(new[k]) => Up(r.x.stream[k])
             /\ r.x.tcp[k] \in {"SynSent", "SynReceived"} => new[k] = r.x.stream[k]
    <2> DEFINE state == r.x.tcp[k]
               st == r.x.stream[k]
               m == told[k]
    <2>1. Fine(st)
        BY <1>2 DEF Streaming
    <2>2. new[k] = Served(state, st, m) /\ (k = c => m = message)
        OBVIOUS
    <2> HIDE DEF state, st, m, new
    <2>3. LET n == Served(state, st, m) IN
           /\ Grows(st, n)
           /\ Alive(n) => state # "CloseWait"
           /\ m.kind = "update" /\ state = "Established" /\ Alive(n) => Up(st)
        BY <2>1, ServedGrows
    <2>4. state \in {"SynSent", "SynReceived"} => Served(state, st, m) = st
        BY DEF Served, Ended
    <2> QED
        BY <2>2, <2>3, <2>4 DEF state, st
<1>3. \A k \in Conn : streams[k] = IF r.x.stream[k] = NoStream THEN NoStream ELSE new[k]
    OBVIOUS
<1> HIDE DEF new, streams
<1>4. /\ q.x.tcp = r.x.tcp /\ q.x.stream = streams /\ q.x.selected = r.x.selected
      /\ q.x.received = r.x.received /\ q.out = r.out
    <2>1. q = Parts(r.x.tcp, streams, r.x.selected, r.x.received, r.x.waiting, r.out)
        BY <1>1, StreamsParts
    <2> HIDE DEF q
    <2> QED
        BY <2>1, PartsFields
<1> HIDE DEF q
<1>5. Advances(r, q)
    BY <1>2, <1>3, <1>4 DEF Advances
<1>6. ASSUME NEW k \in Conn
      PROVE  /\ Alive(q.x.stream[k]) => r.x.tcp[k] # "CloseWait"
             /\ k = c /\ message.kind = "update" /\ r.x.tcp[k] = "Established"
                  /\ Alive(q.x.stream[k]) => Up(r.x.stream[k])
             /\ r.x.tcp[k] \in {"SynSent", "SynReceived"} => q.x.stream[k] = r.x.stream[k]
    <2>1. CASE r.x.stream[k] = NoStream
        BY <1>3, <1>4, <2>1 DEF Alive
    <2>2. CASE r.x.stream[k] # NoStream
        BY <1>2, <1>3, <1>4, <2>2
    <2> QED
        BY <2>1, <2>2
<1> QED
    BY <1>4, <1>5, <1>6 DEF q

LEMMA ResolvedAt ==
    ASSUME NEW r, IsResult(r), Streaming(r)
    PROVE  LET q == Resolved(r) IN
           /\ Advances(r, q)
           /\ q.x.selected = r.x.selected /\ q.x.received = r.x.received
           /\ \A k \in Conn : r.x.stream[k] # NoStream /\ ~r.x.stream[k].started =>
                                 q.x.stream[k] = r.x.stream[k]
<1> DEFINE q == Resolved(r)
           losers == Losers(r.x)
           streams == [k \in Conn |-> IF k \in losers THEN Failed(r.x.stream[k])
                                      ELSE r.x.stream[k]]
<1>1. q = [r EXCEPT !.x.stream = streams]
    <2>1. PICK tcp, stream, selected, received, waiting, out :
             r = Parts(tcp, stream, selected, received, waiting, out)
        BY PartsOf
    <2>2. r.x.stream = stream
        BY <2>1, PartsFields
    <2> HIDE DEF losers
    <2> QED
        BY <2>1, <2>2 DEF Resolved, Parts, losers
<1>2. \A k \in losers : k \in Conn /\ r.x.stream[k] # NoStream /\ r.x.stream[k].started
    BY DEF Losers, Candidates, Usable
<1> HIDE DEF losers
<1>3. \A k \in losers : Grows(r.x.stream[k], Failed(r.x.stream[k]))
    BY <1>2, ClosingGrows DEF Streaming
<1>4. \A k \in Conn : r.x.stream[k] # NoStream => Grows(r.x.stream[k], r.x.stream[k])
    BY GrowsSame DEF Streaming
<1>5. \A k \in Conn : streams[k] = IF k \in losers THEN Failed(r.x.stream[k])
                                   ELSE r.x.stream[k]
    OBVIOUS
<1> HIDE DEF streams
<1>6. /\ q.x.tcp = r.x.tcp /\ q.x.stream = streams /\ q.x.selected = r.x.selected
      /\ q.x.received = r.x.received /\ q.out = r.out
    <2>1. q = Parts(r.x.tcp, streams, r.x.selected, r.x.received, r.x.waiting, r.out)
        BY <1>1, StreamsParts
    <2> HIDE DEF q
    <2> QED
        BY <2>1, PartsFields
<1> HIDE DEF q
<1>7. ASSUME NEW k \in Conn
      PROVE  /\ r.x.stream[k] = NoStream => streams[k] = NoStream
             /\ r.x.stream[k] # NoStream => Grows(r.x.stream[k], streams[k])
             /\ r.x.stream[k] # NoStream /\ ~r.x.stream[k].started =>
                   streams[k] = r.x.stream[k]
    <2>1. CASE k \in losers
        BY <1>2, <1>3, <1>5, <2>1
    <2>2. CASE k \notin losers
        BY <1>4, <1>5, <2>2
    <2> QED
        BY <2>1, <2>2
<1>8. Advances(r, q)
    BY <1>6, <1>7 DEF Advances
<1> QED
    BY <1>6, <1>7, <1>8 DEF q

LEMMA SelectedAt ==
    ASSUME NEW r, IsResult(r), r.x.received \in Routes
    PROVE  LET q == Selected(r) IN
           /\ q.x.tcp = r.x.tcp /\ q.out = r.out /\ q.x.stream = r.x.stream
           /\ q.x.received \in Routes
           /\ \A k \in Conn : (r.x.selected = k => Up(r.x.stream[k])) =>
                                 Got(q.x, k) = Got(r.x, k)
<1> DEFINE q == Selected(r)
           up == {c \in Conn : Up(r.x.stream[c])}
           chosen == Selection(r.x)
           kept == IF chosen = r.x.selected THEN r.x.received ELSE NoRoutes
<1>1. q = Parts(r.x.tcp, r.x.stream, chosen, kept, r.x.waiting, r.out)
    <2>1. PICK tcp, stream, selected, received, waiting, out :
             r = Parts(tcp, stream, selected, received, waiting, out)
        BY PartsOf
    <2> DEFINE r1 == [r EXCEPT !.x.received = kept]
    <2>2. q = [r EXCEPT !.x.received = kept, !.x.selected = chosen]
        BY DEF Selected, Kept
    <2> HIDE DEF q, chosen, kept
    <2>3. q = [r1 EXCEPT !.x.selected = chosen]
        BY <2>2
    <2>4. r1 = Parts(tcp, stream, selected, kept, waiting, out)
        BY <2>1 DEF Parts
    <2> HIDE DEF r1
    <2>5. q = Parts(tcp, stream, chosen, kept, waiting, out)
        BY <2>3, <2>4 DEF Parts
    <2> QED
        BY <2>1, <2>5, PartsFields
<1>2. \A k \in Conn : r.x.selected = k /\ Up(r.x.stream[k]) => chosen = k
    BY DEF Selection
<1> HIDE DEF chosen, q
<1>3. /\ q.x.tcp = r.x.tcp /\ q.x.stream = r.x.stream /\ q.x.selected = chosen
      /\ q.x.received = kept /\ q.out = r.out
    <2> HIDE DEF kept
    <2> QED
        BY <1>1, PartsFields
<1>4. \A k \in Conn : (r.x.selected = k => Up(r.x.stream[k])) => Got(q.x, k) = Got(r.x, k)
    BY <1>2, <1>3 DEF Got
<1>5. q.x.received \in Routes
    BY <1>3, NoRoutesType
<1> QED
    BY <1>3, <1>4, <1>5 DEF q

LEMMA LearnedAt ==
    ASSUME NEW r, IsResult(r), r.x.received \in Routes, NEW c, NEW message,
           message.kind = "update" => message \in Mail
    PROVE  LET q == Learned(r, c, message) IN
           /\ q.x.tcp = r.x.tcp /\ q.out = r.out /\ q.x.stream = r.x.stream
           /\ q.x.received \in Routes
           /\ \A k \in Conn :
                Got(q.x, k) = IF k = c /\ r.x.selected = c THEN Heard(Got(r.x, k), message)
                              ELSE Got(r.x, k)
<1> DEFINE q == Learned(r, c, message)
<1>1. CASE ~(message.kind = "update" /\ r.x.selected = c)
    <2>1. q = r
        BY <1>1 DEF Learned
    <2> QED
        BY <1>1, <2>1 DEF Heard
<1>2. CASE message.kind = "update" /\ r.x.selected = c
    <2> DEFINE routes == [r.x.received EXCEPT ![message.prefix] = message.value]
    <2>1. q = Parts(r.x.tcp, r.x.stream, r.x.selected, routes, r.x.waiting, r.out)
        <3>1. PICK tcp, stream, selected, received, waiting, out :
                 r = Parts(tcp, stream, selected, received, waiting, out)
            BY PartsOf
        <3> DEFINE new == [received EXCEPT ![message.prefix] = message.value]
        <3>2. q = Parts(tcp, stream, selected, new, waiting, out)
            BY <1>2, <3>1 DEF Learned, Parts
        <3>3. /\ r.x.tcp = tcp /\ r.x.stream = stream /\ r.x.selected = selected
              /\ r.x.received = received /\ r.x.waiting = waiting /\ r.out = out
            BY <3>1, PartsFields
        <3> QED
            BY <3>2, <3>3
    <2>2. message.prefix \in Prefix /\ message.value \in 0 .. 2
        BY <1>2 DEF Mail
    <2>3. routes \in Routes
        BY <2>2 DEF Routes
    <2>4. routes = Heard(r.x.received, message)
        BY <1>2 DEF Heard
    <2> HIDE DEF routes, q
    <2>5. /\ q.x.tcp = r.x.tcp /\ q.x.stream = r.x.stream /\ q.x.selected = r.x.selected
          /\ q.x.received = routes /\ q.out = r.out
        BY <2>1, PartsFields
    <2>6. \A k \in Conn :
            Got(q.x, k) = IF k = c /\ r.x.selected = c THEN Heard(Got(r.x, k), message)
                          ELSE Got(r.x, k)
        BY <1>2, <2>4, <2>5 DEF Got
    <2> QED
        BY <2>3, <2>5, <2>6 DEF q
<1> QED
    BY <1>1, <1>2

LEMMA AdvertisedAt ==
    ASSUME NEW s \in Speaker, NEW r, IsResult(r), PeerOK(r.x), Streaming(r),
           network[s] \in Routes
    PROVE  LET q == Advertised(s, r) IN
           /\ Advances(r, q)
           /\ q.x.selected = r.x.selected /\ q.x.received = r.x.received
           /\ \A k \in Conn : r.x.stream[k] # NoStream /\ ~r.x.stream[k].started =>
                                 q.x.stream[k] = r.x.stream[k]
<1> DEFINE q == Advertised(s, r)
           c == r.x.selected
           new == Advertising(r.x.stream[c], network[s])
<1>1. \A k \in Conn : r.x.stream[k] # NoStream => Grows(r.x.stream[k], r.x.stream[k])
    BY GrowsSame DEF Streaming
<1>2. CASE c = NoConn
    <2>1. q = r
        BY <1>2 DEF Advertised
    <2> QED
        BY <1>1, <2>1 DEF Advances
<1>3. CASE c # NoConn
    <2>1. /\ c \in Conn /\ Fine(r.x.stream[c]) /\ r.x.stream[c].started
          /\ r.x.stream[c] # NoStream
        BY <1>3 DEF PeerOK, Entered, Up, Streaming, Fine, IsStream
    <2>2. Grows(r.x.stream[c], new)
        BY <2>1, AdvertisingGrows
    <2>3. q = SetStream(r, c, new)
        <3>1. PICK tcp, stream, selected, received, waiting, out :
                 r = Parts(tcp, stream, selected, received, waiting, out)
            BY PartsOf
        <3>2. c = selected /\ r.x.stream = stream
            BY <3>1, PartsFields
        <3> QED
            BY <1>3, <3>1, <3>2 DEF Advertised, SetStream, Parts
    <2> HIDE DEF q, new, c
    <2>4. /\ q.x.tcp = r.x.tcp /\ q.x.stream = [r.x.stream EXCEPT ![c] = new]
          /\ q.x.selected = r.x.selected /\ q.x.received = r.x.received /\ q.out = r.out
        BY <2>1, <2>3, SetStreamIs, PartsFields
    <2>5. /\ q.x.stream[c] = new
          /\ \A k \in Conn : k # c => q.x.stream[k] = r.x.stream[k]
        BY <2>1, <2>4 DEF PeerOK, Entered, IsPeer
    <2>6. Advances(r, q)
        BY <1>1, <2>1, <2>2, <2>4, <2>5 DEF Advances
    <2>7. \A k \in Conn : r.x.stream[k] # NoStream /\ ~r.x.stream[k].started =>
                             q.x.stream[k] = r.x.stream[k]
        BY <2>1, <2>5
    <2> QED
        BY <2>4, <2>6, <2>7 DEF q
<1> QED
    BY <1>2, <1>3

LEMMA AdvancesTrans ==
    ASSUME NEW r, Streaming(r), NEW p, Advances(r, p), NEW q, Advances(p, q)
    PROVE  Advances(r, q) /\ Streaming(p) /\ Streaming(q)
<1>1. ASSUME NEW k \in Conn
      PROVE  /\ r.x.stream[k] = NoStream => p.x.stream[k] = NoStream /\ q.x.stream[k] = NoStream
             /\ r.x.stream[k] # NoStream =>
                   /\ Grows(r.x.stream[k], q.x.stream[k])
                   /\ Fine(p.x.stream[k]) /\ Fine(q.x.stream[k])
    <2>1. CASE r.x.stream[k] = NoStream
        BY <2>1 DEF Advances
    <2>2. CASE r.x.stream[k] # NoStream
        <3>1. Fine(r.x.stream[k]) /\ Grows(r.x.stream[k], p.x.stream[k])
            BY <2>2 DEF Streaming, Advances
        <3>2. Fine(p.x.stream[k]) /\ p.x.stream[k] # NoStream
            BY <3>1, StreamIsSome DEF Grows, Fine
        <3>3. Grows(p.x.stream[k], q.x.stream[k])
            BY <3>2 DEF Advances
        <3>4. Grows(r.x.stream[k], q.x.stream[k])
            BY <3>1, <3>3, GrowsTrans
        <3>5. Fine(q.x.stream[k])
            BY <3>3 DEF Grows
        <3> QED
            BY <2>2, <3>2, <3>4, <3>5
    <2> QED
        BY <2>1, <2>2
<1>2. q.x.tcp = r.x.tcp /\ q.out = r.out
    BY DEF Advances
<1> QED
    BY <1>1, <1>2 DEF Advances, Streaming

LEMMA AdvancesSame ==
    ASSUME NEW r, Streaming(r), NEW q, q.x.tcp = r.x.tcp, q.out = r.out,
           q.x.stream = r.x.stream
    PROVE  Advances(r, q) /\ Streaming(q)
BY GrowsSame DEF Advances, Streaming

LEMMA AdvancesAlive ==
    ASSUME NEW r, NEW q, Advances(r, q), NEW k \in Conn, Alive(q.x.stream[k])
    PROVE  Alive(r.x.stream[k]) /\ (Up(r.x.stream[k]) => Up(q.x.stream[k]))
<1>1. r.x.stream[k] # NoStream
    BY DEF Advances, Alive
<1> QED
    BY <1>1 DEF Advances, Grows

\* What the sessions of a peer make of a message.
Sessions(s, r, c, message) ==
    Advertised(s, Learned(Selected(Resolved(AllServed(r, c, message))), c, message))

LEMMA SessionsAt ==
    ASSUME NEW s \in Speaker, NEW r, Ready(s, r), Clean(r.x), network[s] \in Routes,
           NEW c, NEW message,
           message.kind = "update" => /\ c \in Conn /\ message \in Mail
                                      /\ r.x.tcp[c] = "Established",
           NEW due, Lasts(r.x, due)
    PROVE  LET q == Sessions(s, r, c, message) IN
           /\ IsResult(q) /\ PeerOK(q.x) /\ Lasts(q.x, due)
           /\ Advances(r, q) /\ Streaming(q) /\ q.x.received \in Routes
           /\ \A k \in Conn :
                /\ Alive(q.x.stream[k]) =>
                      /\ r.x.tcp[k] # "CloseWait"
                      /\ Got(q.x, k) = Heard(Got(r.x, k), IF k = c THEN message ELSE Nothing)
                /\ r.x.tcp[k] \in {"SynSent", "SynReceived"} => q.x.stream[k] = r.x.stream[k]
<1> DEFINE r4 == AllServed(r, c, message)
           r5 == Resolved(r4)
           r6 == Selected(r5)
           r7 == Learned(r6, c, message)
           q == Advertised(s, r7)
<1>1. /\ IsResult(r) /\ Entered(r.x) /\ Streaming(r) /\ r.x.received \in Routes
      /\ \A k \in Conn : Up(r.x.stream[k]) => r.x.selected = k
    BY DEF Ready, Streaming
<1>2. IsResult(r4) /\ Running(r4.x) /\ Lasts(r4.x, due)
    BY <1>1, AllServedStep
<1>3. /\ Advances(r, r4)
      /\ r4.x.selected = r.x.selected /\ r4.x.received = r.x.received
      /\ \A k \in Conn :
           /\ Alive(r4.x.stream[k]) => r.x.tcp[k] # "CloseWait"
           /\ k = c /\ message.kind = "update" /\ r.x.tcp[k] = "Established"
                /\ Alive(r4.x.stream[k]) => Up(r.x.stream[k])
           /\ r.x.tcp[k] \in {"SynSent", "SynReceived"} => r4.x.stream[k] = r.x.stream[k]
    BY <1>1, AllServedAt
<1> HIDE DEF r4
<1>4. Advances(r4, r4) /\ Streaming(r4)
    <2>1. ASSUME NEW k \in Conn
          PROVE  r4.x.stream[k] = NoStream \/ Fine(r4.x.stream[k])
        BY <1>3 DEF Advances, Grows
    <2>2. Streaming(r4)
        BY <2>1 DEF Streaming
    <2> QED
        BY <2>2, AdvancesSame
<1>5. IsResult(r5) /\ Running(r5.x) /\ Single(r5.x) /\ Lasts(r5.x, due)
    BY <1>2, ResolvedStep
<1>6. /\ Advances(r4, r5)
      /\ r5.x.selected = r4.x.selected /\ r5.x.received = r4.x.received
      /\ \A k \in Conn : r4.x.stream[k] # NoStream /\ ~r4.x.stream[k].started =>
                            r5.x.stream[k] = r4.x.stream[k]
    BY <1>2, <1>4, ResolvedAt
<1> HIDE DEF r5
<1>7. Advances(r, r5) /\ Streaming(r5)
    BY <1>1, <1>3, <1>6, AdvancesTrans
<1>8. IsResult(r6) /\ PeerOK(r6.x) /\ Lasts(r6.x, due)
    BY <1>5, SelectedStep
<1>9. /\ r6.x.tcp = r5.x.tcp /\ r6.out = r5.out /\ r6.x.stream = r5.x.stream
      /\ r6.x.received \in Routes
      /\ \A k \in Conn : (r5.x.selected = k => Up(r5.x.stream[k])) =>
                            Got(r6.x, k) = Got(r5.x, k)
    BY <1>1, <1>3, <1>5, <1>6, SelectedAt
<1> HIDE DEF r6
<1>10. IsResult(r7) /\ PeerOK(r7.x) /\ Lasts(r7.x, due)
    BY <1>8, LearnedStep
<1>11. /\ r7.x.tcp = r6.x.tcp /\ r7.out = r6.out /\ r7.x.stream = r6.x.stream
       /\ r7.x.received \in Routes
       /\ \A k \in Conn :
            Got(r7.x, k) = IF k = c /\ r6.x.selected = c THEN Heard(Got(r6.x, k), message)
                           ELSE Got(r6.x, k)
    BY <1>8, <1>9, LearnedAt
<1> HIDE DEF r7
<1>12. Advances(r5, r7) /\ Streaming(r7)
    <2>1. r7.x.tcp = r5.x.tcp /\ r7.out = r5.out /\ r7.x.stream = r5.x.stream
        BY <1>9, <1>11
    <2> QED
        BY <1>7, <2>1, AdvancesSame
<1>13. IsResult(q) /\ PeerOK(q.x) /\ Lasts(q.x, due)
    BY <1>10, AdvertisedStep
<1>14. /\ Advances(r7, q)
       /\ q.x.selected = r7.x.selected /\ q.x.received = r7.x.received
       /\ \A k \in Conn : r7.x.stream[k] # NoStream /\ ~r7.x.stream[k].started =>
                             q.x.stream[k] = r7.x.stream[k]
    BY <1>10, <1>12, AdvertisedAt
<1> HIDE DEF q
<1>15. Advances(r, r7) /\ Advances(r5, q)
    BY <1>1, <1>7, <1>12, <1>14, AdvancesTrans
<1>16. Advances(r, q) /\ Streaming(q)
    BY <1>1, <1>14, <1>15, AdvancesTrans
<1>17. ASSUME NEW k \in Conn, Alive(q.x.stream[k])
       PROVE  /\ r.x.tcp[k] # "CloseWait"
              /\ Got(q.x, k) = Heard(Got(r.x, k), IF k = c THEN message ELSE Nothing)
    <2>1. Alive(r5.x.stream[k])
        BY <1>15, <1>17, AdvancesAlive
    <2>2. Alive(r4.x.stream[k])
        BY <1>6, <2>1, AdvancesAlive
    <2>3. r.x.selected = k => Up(r5.x.stream[k])
        <3>1. ASSUME r.x.selected = k PROVE Up(r.x.stream[k])
            BY <1>1, <3>1 DEF Entered, NoConn, Conn, Speaker
        <3> QED
            BY <1>7, <2>1, <3>1, AdvancesAlive
    <2>4. Got(r6.x, k) = Got(r.x, k)
        <3>1. Got(r5.x, k) = Got(r.x, k) /\ r5.x.selected = r.x.selected
            BY <1>3, <1>6 DEF Got
        <3> QED
            BY <1>9, <2>3, <3>1
    <2>5. Got(q.x, k) = Got(r7.x, k)
        BY <1>14 DEF Got
    <2>6. CASE k # c \/ message.kind # "update"
        <3>1. Got(r7.x, k) = Got(r6.x, k)
            BY <1>11, <2>6 DEF Heard
        <3>2. Heard(Got(r.x, k), IF k = c THEN message ELSE Nothing) = Got(r.x, k)
            BY <2>6, NotUpdate DEF Heard
        <3> QED
            BY <1>3, <2>2, <2>4, <2>5, <3>1, <3>2
    <2>7. CASE k = c /\ message.kind = "update"
        <3>1. Up(r.x.stream[k])
            BY <1>3, <2>2, <2>7
        <3>2. Up(r5.x.stream[k])
            BY <1>7, <2>1, <3>1, AdvancesAlive
        <3>3. r6.x.selected = k
            BY <1>8, <1>9, <3>2 DEF PeerOK
        <3>4. Got(r7.x, k) = Heard(Got(r6.x, k), message)
            BY <1>11, <2>7, <3>3
        <3> QED
            BY <1>3, <2>2, <2>4, <2>5, <2>7, <3>4
    <2> QED
        BY <2>6, <2>7
<1>18. ASSUME NEW k \in Conn, r.x.tcp[k] \in {"SynSent", "SynReceived"}
       PROVE  q.x.stream[k] = r.x.stream[k]
    <2>1. CASE r.x.stream[k] = NoStream
        BY <1>16, <2>1 DEF Advances
    <2>2. CASE r.x.stream[k] # NoStream
        <3>1. ~r.x.stream[k].started
            BY <1>1, <1>18, <2>2 DEF Entered
        <3>2. r4.x.stream[k] = r.x.stream[k]
            BY <1>3, <1>18
        <3>3. r5.x.stream[k] = r.x.stream[k]
            BY <1>6, <2>2, <3>1, <3>2
        <3>4. r7.x.stream[k] = r.x.stream[k]
            BY <1>9, <1>11, <3>3
        <3> QED
            BY <1>14, <2>2, <3>1, <3>4
    <2> QED
        BY <2>1, <2>2
<1>19. q.x.received \in Routes
    BY <1>11, <1>14
<1>20. q = Sessions(s, r, c, message)
    BY DEF q, r7, r6, r5, r4, Sessions
<1> QED
    BY <1>13, <1>16, <1>17, <1>18, <1>19, <1>20

\* What bgp_flush does to a connection: nothing, it leaves it with a last
\* packet, or it sends a message of the stream.
Flushing(r, a, c) ==
    LET st == r.x.stream[c] IN
    \/ a.x.tcp[c] = r.x.tcp[c] /\ a.x.stream[c] = st /\ a.out[c] = r.out[c]
    \/ /\ st # NoStream /\ st.closing # "no" /\ a.x.stream[c] = NoStream
       /\ a.x.tcp[c] = "none" \/ (a.x.tcp[c] = "FinWait" /\ r.x.tcp[c] = "Established")
       /\ \E kind \in {"RST", "FIN"} : a.out[c] = Append(r.out[c], Packet(kind))
    \/ /\ st # NoStream /\ st.output # <<>>
       /\ r.x.tcp[c] \in {"Established", "CloseWait"} /\ a.x.tcp[c] = r.x.tcp[c]
       /\ a.x.stream[c] = [st EXCEPT !.output = Tail(st.output)]
       /\ a.out[c] = Append(r.out[c], Head(st.output))

LEMMA FlushedOneAt ==
    ASSUME NEW s \in Speaker, NEW r, IsResult(r), PeerOK(r.x), Streaming(r),
           r.out \in [Conn -> Seq(Pkt)], NEW due, Lasts(r.x, due), NEW c \in Conn
    PROVE  Flushing(r, FlushedOne(s, r, c, due), c)
<1> DEFINE st == r.x.stream[c]
           a == FlushedOne(s, r, c, due)
<1>1. /\ r.x.tcp \in [Conn -> TcpState] /\ r.x.stream = [k \in Conn |-> r.x.stream[k]]
    BY DEF PeerOK, Entered, IsPeer
<1>2. ASSUME NEW state \in TcpState, NEW packet
      PROVE  LET q == Without(Post(SetTcp(r, c, state), c, packet), c) IN
             /\ q.x.stream[c] = NoStream /\ q.x.tcp[c] = state
             /\ q.out[c] = Append(r.out[c], packet)
    <2> DEFINE tcp == [r.x.tcp EXCEPT ![c] = state]
               out == [r.out EXCEPT ![c] = Append(@, packet)]
               p == SetTcp(r, c, state)
               p1 == Post(p, c, packet)
               q == Without(p1, c)
    <2>1. p = Parts(tcp, r.x.stream, r.x.selected, r.x.received, r.x.waiting, r.out)
        BY SetTcpIs
    <2>2. tcp[c] = state /\ out[c] = Append(r.out[c], packet) /\ tcp \in [Conn -> TcpState]
        BY <1>1
    <2>3. p1 = Parts(tcp, r.x.stream, r.x.selected, r.x.received, r.x.waiting, out)
        <3> HIDE DEF p, tcp
        <3>1. p.out = r.out
            BY <2>1, PartsFields
        <3>2. p1 = [p EXCEPT !.out = out]
            BY <3>1 DEF Post
        <3> HIDE DEF p1, out
        <3> QED
            BY <2>1, <3>2 DEF Parts
    <2> HIDE DEF p1, tcp, out
    <2>4. q = [p1 EXCEPT !.x.stream[c] = NoStream]
        BY DEF Without
    <2>5. q = Parts(tcp, [r.x.stream EXCEPT ![c] = NoStream], r.x.selected, r.x.received,
                    r.x.waiting, out)
        BY <2>3, <2>4 DEF Parts
    <2>6. q.x.tcp = tcp /\ q.x.stream = [r.x.stream EXCEPT ![c] = NoStream] /\ q.out = out
        <3> HIDE DEF q
        <3> QED
            BY <2>5, PartsFields
    <2>7. [r.x.stream EXCEPT ![c] = NoStream][c] = NoStream
        BY <1>1
    <2> HIDE DEF q
    <2>8. q.x.stream[c] = NoStream /\ q.x.tcp[c] = state /\ q.out[c] = Append(r.out[c], packet)
        BY <2>2, <2>6, <2>7
    <2> QED
        BY <2>8 DEF q, p1
<1>3. CASE st = NoStream
    BY <1>3 DEF FlushedOne, Flushing
<1>4. CASE st # NoStream /\ (st.closing = "now" \/ c \in due)
    <2>1. a = Without(Post(SetTcp(r, c, "none"), c, Packet("RST")), c)
        BY <1>4 DEF FlushedOne, Aborted
    <2>2. st.closing # "no"
        BY <1>4 DEF Lasts
    <2>3. /\ a.x.stream[c] = NoStream /\ a.x.tcp[c] = "none"
          /\ a.out[c] = Append(r.out[c], Packet("RST"))
        BY <1>2, <2>1 DEF TcpState
    <2> HIDE DEF a
    <2>4. /\ st # NoStream /\ st.closing # "no" /\ a.x.stream[c] = NoStream
          /\ a.x.tcp[c] = "none"
          /\ \E kind \in {"RST", "FIN"} : a.out[c] = Append(r.out[c], Packet(kind))
        BY <1>4, <2>2, <2>3
    <2> QED
        BY <2>4 DEF a, Flushing
<1>5. CASE st # NoStream /\ st.closing # "now" /\ c \notin due /\ ~Writable(s, r.x, c)
    BY <1>5 DEF FlushedOne, Flushing
<1>6. CASE /\ st # NoStream /\ st.closing # "now" /\ c \notin due /\ Writable(s, r.x, c)
           /\ st.output # <<>>
    <2> DEFINE new == [st EXCEPT !.output = Tail(st.output)]
               q == [r EXCEPT !.x.stream[c].output = Tail(@)]
               out == [r.out EXCEPT ![c] = Append(@, Head(st.output))]
               streams == [r.x.stream EXCEPT ![c] = new]
    <2>1. a = Post(q, c, Head(st.output))
        BY <1>6 DEF FlushedOne
    <2>2. q = SetStream(r, c, new)
        <3>1. PICK tcp, stream, selected, received, waiting, o :
                 r = Parts(tcp, stream, selected, received, waiting, o)
            BY PartsOf
        <3>2. r.x.stream = stream
            BY <3>1 DEF Parts
        <3> QED
            BY <3>1, <3>2 DEF SetStream, Parts
    <2>3. streams[c] = new /\ out[c] = Append(r.out[c], Head(st.output))
        BY <1>1
    <2> HIDE DEF new, q
    <2>4. q = Parts(r.x.tcp, streams, r.x.selected, r.x.received, r.x.waiting, r.out)
        BY <2>2, SetStreamIs
    <2> HIDE DEF streams
    <2>5. q.out = r.out
        BY <2>4, PartsFields
    <2>6. a = [q EXCEPT !.out = out]
        BY <2>1, <2>5 DEF Post
    <2> HIDE DEF a, out
    <2>7. a = Parts(r.x.tcp, streams, r.x.selected, r.x.received, r.x.waiting, out)
        BY <2>4, <2>6 DEF Parts
    <2>8. a.x.tcp = r.x.tcp /\ a.x.stream = streams /\ a.out = out
        BY <2>7, PartsFields
    <2>9. r.x.tcp[c] \in {"Established", "CloseWait"}
        BY <1>6 DEF Writable
    <2> QED
        BY <1>6, <2>3, <2>8, <2>9 DEF a, new, Flushing
<1>7. CASE /\ st # NoStream /\ st.closing # "now" /\ c \notin due /\ Writable(s, r.x, c)
           /\ st.output = <<>> /\ st.closing = "soon"
    <2> DEFINE state == IF r.x.tcp[c] = "CloseWait" THEN "none" ELSE "FinWait"
    <2>1. a = Without(Post(SetTcp(r, c, state), c, Packet("FIN")), c)
        BY <1>7 DEF FlushedOne, Closed
    <2>2. /\ state \in TcpState
          /\ state = "none" \/ (state = "FinWait" /\ r.x.tcp[c] = "Established")
        BY <1>7 DEF TcpState, Writable
    <2> HIDE DEF state
    <2>3. /\ a.x.stream[c] = NoStream /\ a.x.tcp[c] = state
          /\ a.out[c] = Append(r.out[c], Packet("FIN"))
        BY <1>2, <2>1, <2>2
    <2> HIDE DEF a
    <2>4. /\ st # NoStream /\ st.closing # "no" /\ a.x.stream[c] = NoStream
          /\ a.x.tcp[c] = "none" \/ (a.x.tcp[c] = "FinWait" /\ r.x.tcp[c] = "Established")
          /\ \E kind \in {"RST", "FIN"} : a.out[c] = Append(r.out[c], Packet(kind))
        BY <1>7, <2>2, <2>3
    <2> QED
        BY <2>4 DEF a, Flushing
<1>8. CASE /\ st # NoStream /\ st.closing # "now" /\ c \notin due /\ Writable(s, r.x, c)
           /\ st.output = <<>> /\ st.closing # "soon"
    BY <1>8 DEF FlushedOne, Flushing
<1> QED
    BY <1>3, <1>4, <1>5, <1>6, <1>7, <1>8

LEMMA FlushedParts ==
    ASSUME NEW s, NEW r, IsResult(r), NEW due
    PROVE  LET q == Flushed(s, r, due) IN
           /\ q.x.selected = r.x.selected /\ q.x.received = r.x.received
           /\ q.out = [c \in Conn |-> FlushedOne(s, r, c, due).out[c]]
           /\ \A c \in Conn : /\ q.x.tcp[c] = FlushedOne(s, r, c, due).x.tcp[c]
                              /\ q.x.stream[c] = FlushedOne(s, r, c, due).x.stream[c]
                              /\ q.out[c] = FlushedOne(s, r, c, due).out[c]
<1> DEFINE q == Flushed(s, r, due)
           tcp == [c \in Conn |-> FlushedOne(s, r, c, due).x.tcp[c]]
           stream == [c \in Conn |-> FlushedOne(s, r, c, due).x.stream[c]]
           out == [c \in Conn |-> FlushedOne(s, r, c, due).out[c]]
<1>1. q = [x |-> [r.x EXCEPT !.tcp = tcp, !.stream = stream], out |-> out]
    BY DEF Flushed
<1>2. /\ \A c \in Conn : /\ tcp[c] = FlushedOne(s, r, c, due).x.tcp[c]
                         /\ stream[c] = FlushedOne(s, r, c, due).x.stream[c]
                         /\ out[c] = FlushedOne(s, r, c, due).out[c]
    OBVIOUS
<1> HIDE DEF q, tcp, stream
<1>3. /\ q.x = [r.x EXCEPT !.tcp = tcp, !.stream = stream] /\ q.out = out
    <2> HIDE DEF out
    <2> QED
        BY <1>1
<1>4. PICK tcp0, stream0, selected, received, waiting :
         r.x = [tcp |-> tcp0, stream |-> stream0, selected |-> selected,
                received |-> received, waiting |-> waiting]
    BY DEF IsResult, IsPeer
<1> DEFINE x1 == [r.x EXCEPT !.tcp = tcp]
<1>5. q.x = [x1 EXCEPT !.stream = stream]
    BY <1>3
<1>6. x1 = [tcp |-> tcp, stream |-> stream0, selected |-> selected,
            received |-> received, waiting |-> waiting]
    BY <1>4
<1> HIDE DEF x1
<1>7. /\ q.x.tcp = tcp /\ q.x.stream = stream /\ q.x.selected = r.x.selected
      /\ q.x.received = r.x.received
    BY <1>4, <1>5, <1>6
<1> QED
    BY <1>2, <1>3, <1>7 DEF q, out

\* A tick and one connection: nothing is left of it, it is opened, the speaker
\* leaves it with a last packet, or it stays, and its session goes on.
Idle(r, q, c) ==
    /\ r.x.tcp[c] \in Gone /\ q.x.tcp[c] = r.x.tcp[c] /\ q.x.stream[c] = NoStream
    /\ q.out[c] = r.out[c]

Opened(s, r, q, c) ==
    /\ Fresh(s, r, c) /\ q.x.tcp[c] = "SynSent" /\ q.x.stream[c] = NewStream
    /\ q.out[c] = <<Packet("SYN")>>

Left(r, q, c) ==
    /\ r.x.tcp[c] \notin Gone /\ q.x.stream[c] = NoStream
    /\ q.x.tcp[c] = "none" \/ (q.x.tcp[c] = "FinWait" /\ r.x.tcp[c] = "Established")
    /\ \E kind \in {"RST", "FIN"} : q.out[c] = Append(r.out[c], Packet(kind))

Stays(r, q, c, told) ==
    LET st == Begun(r.x.stream[c])
        new == q.x.stream[c]
    IN /\ r.x.tcp[c] \notin Gone /\ q.x.tcp[c] = r.x.tcp[c] /\ Fine(new)
       /\ \/ q.out[c] = r.out[c]
          \/ /\ r.x.tcp[c] \in {"Established", "CloseWait"}
             /\ \E m \in Mail : q.out[c] = Append(r.out[c], m)
       /\ Alive(new) =>
             /\ r.x.tcp[c] # "CloseWait" /\ Alive(st)
             /\ Got(q.x, c) = Heard(Got(r.x, c), told)
             /\ \E more \in Seq(Mail) :
                   /\ q.out[c] \o new.output = (r.out[c] \o st.output) \o more
                   /\ Follows(st.advertised, more, new.advertised)

Ticked(s, r, q, c, told) ==
    Idle(r, q, c) \/ Opened(s, r, q, c) \/ Left(r, q, c) \/ Stays(r, q, c, told)

\* A message moves from the queue to the wire.
LEMMA SentMail ==
    ASSUME NEW out \in Seq(Pkt), NEW queue \in Seq(Mail), queue # <<>>
    PROVE  /\ Append(out, Head(queue)) \o Tail(queue) = out \o queue
           /\ Head(queue) \in Mail /\ Tail(queue) \in Seq(Mail)
           /\ Append(out, Head(queue)) \in Seq(Pkt)
<1>1. /\ Head(queue) \in Mail /\ Tail(queue) \in Seq(Mail)
      /\ queue = <<Head(queue)>> \o Tail(queue)
    BY HeadTailProperties
<1>2. /\ <<Head(queue)>> \in Seq(Pkt) /\ Tail(queue) \in Seq(Pkt)
      /\ Append(out, Head(queue)) = out \o <<Head(queue)>>
    BY <1>1, MailIsPkt, AppendIsConcat
<1>3. (out \o <<Head(queue)>>) \o Tail(queue) = out \o (<<Head(queue)>> \o Tail(queue))
    BY <1>2, PktAssociative
<1>4. Append(out, Head(queue)) \in Seq(Pkt)
    BY <1>2, ConcatProperties
<1> QED
    BY <1>1, <1>2, <1>3, <1>4

\* What bgp_flush leaves of a stream that has grown from st.
LEMMA StaysAt ==
    ASSUME NEW r, NEW p, NEW q, NEW c \in Conn, NEW told,
           r.x.tcp[c] \notin Gone, p.x.tcp[c] = r.x.tcp[c], p.out[c] = r.out[c],
           r.out[c] \in Seq(Pkt), Fine(Begun(r.x.stream[c])),
           Grows(Begun(r.x.stream[c]), p.x.stream[c]),
           Alive(p.x.stream[c]) => /\ r.x.tcp[c] # "CloseWait"
                                   /\ Got(p.x, c) = Heard(Got(r.x, c), told),
           Got(q.x, c) = Got(p.x, c), q.x.tcp[c] = p.x.tcp[c],
           \/ q.x.stream[c] = p.x.stream[c] /\ q.out[c] = p.out[c]
           \/ /\ p.x.stream[c].output # <<>>
              /\ p.x.tcp[c] \in {"Established", "CloseWait"}
              /\ q.x.stream[c] = [p.x.stream[c] EXCEPT !.output = Tail(p.x.stream[c].output)]
              /\ q.out[c] = Append(p.out[c], Head(p.x.stream[c].output))
    PROVE  Stays(r, q, c, told)
<1> DEFINE st == Begun(r.x.stream[c])
           mid == p.x.stream[c]
           new == q.x.stream[c]
           out == r.out[c]
           queue == mid.output
<1>1. Fine(st) /\ Fine(mid) /\ Grows(st, mid) /\ queue \in Seq(Mail) /\ st.output \in Seq(Mail)
    BY DEF Grows, Fine
<1>2. /\ Fine(new) /\ (Alive(new) => Alive(mid)) /\ new.advertised = mid.advertised
      /\ q.out[c] \o new.output = out \o queue
      /\ \/ q.out[c] = out
         \/ /\ r.x.tcp[c] \in {"Established", "CloseWait"}
            /\ \E m \in Mail : q.out[c] = Append(out, m)
    <2>1. CASE new = mid /\ q.out[c] = p.out[c]
        BY <1>1, <2>1
    <2>2. CASE /\ queue # <<>> /\ p.x.tcp[c] \in {"Established", "CloseWait"}
               /\ new = [mid EXCEPT !.output = Tail(queue)]
               /\ q.out[c] = Append(p.out[c], Head(queue))
        <3> HIDE DEF mid, new, out
        <3>1. /\ Append(out, Head(queue)) \o Tail(queue) = out \o queue
              /\ Head(queue) \in Mail /\ Tail(queue) \in Seq(Mail)
            BY <1>1, <2>2, SentMail DEF out
        <3> DEFINE rest == Tail(queue)
        <3> HIDE DEF rest
        <3>2. new = Stream(mid.state, mid.started, mid.closing, mid.known, rest, mid.advertised)
            BY <1>1, <2>2, OutputPut DEF rest, Fine
        <3>3. mid.started
            BY <1>1, <2>2 DEF Fine
        <3>4. /\ new.output = rest /\ new.advertised = mid.advertised /\ new.started
              /\ new.closing = mid.closing /\ new.state = mid.state /\ new.known = mid.known
            BY <3>2, <3>3 DEF Stream
        <3>5. IsStream(new)
            BY <1>1, <3>2, <3>4 DEF Fine, IsStream, Stream
        <3>6. Fine(new)
            BY <1>1, <3>1, <3>4, <3>5 DEF Fine, rest
        <3>7. Alive(new) => Alive(mid)
            BY <1>1, <3>4, StreamIsSome DEF Alive, Fine
        <3>8. q.out[c] = Append(out, Head(queue))
            BY <2>2 DEF out
        <3>9. r.x.tcp[c] \in {"Established", "CloseWait"}
            BY <2>2
        <3>10. q.out[c] \o new.output = out \o queue
            BY <3>1, <3>4, <3>8 DEF rest
        <3> QED
            BY <3>1, <3>4, <3>6, <3>7, <3>8, <3>9, <3>10
    <2> QED
        BY <2>1, <2>2
<1> HIDE DEF mid, new, out, st
<1>3. ASSUME Alive(new)
      PROVE  \E more \in Seq(Mail) :
                /\ q.out[c] \o new.output = (out \o st.output) \o more
                /\ Follows(st.advertised, more, new.advertised)
    <2>1. PICK more \in Seq(Mail) : /\ mid.output = st.output \o more
                                    /\ Follows(st.advertised, more, mid.advertised)
        BY <1>1, <1>2, <1>3 DEF Grows
    <2>2. (out \o st.output) \o more = out \o (st.output \o more)
        BY <1>1, MailIsPkt, PktAssociative DEF out
    <2> QED
        BY <1>2, <2>1, <2>2
<1>4. ASSUME Alive(new)
      PROVE  /\ r.x.tcp[c] # "CloseWait" /\ Alive(st)
             /\ Got(q.x, c) = Heard(Got(r.x, c), told)
    BY <1>1, <1>2, <1>4 DEF Grows, mid
<1> QED
    BY <1>2, <1>3, <1>4 DEF Stays, mid, new, out, st

\* What the first stages of a tick, which look at the connections, do to one.
Settled(s, r, q, c) ==
    \/ Idle(r, q, c)
    \/ Opened(s, r, q, c) /\ Got(q.x, c) = NoRoutes
    \/ Left(r, q, c)
    \/ /\ r.x.tcp[c] \notin Gone /\ q.x.tcp[c] = r.x.tcp[c] /\ q.out[c] = r.out[c]
       /\ q.x.stream[c] = Begun(r.x.stream[c]) /\ Got(q.x, c) = Got(r.x, c)

LEMMA UnselectedGot ==
    ASSUME NEW x, Entered(x), NEW c \in Conn, ~Up(x.stream[c])
    PROVE  Got(x, c) = NoRoutes
<1>1. c # NoConn
    BY DEF NoConn, Conn, Speaker
<1> QED
    BY <1>1 DEF Got, Entered

LEMMA SettledAt ==
    ASSUME NEW s \in Speaker, NEW r, Ready(s, r), NEW due, Lasts(r.x, due)
    PROVE  LET q == Connected(s, Accepted(s, Swept(r))) IN
           /\ Ready(s, q) /\ Clean(q.x) /\ Lasts(q.x, due)
           /\ \A c \in Conn : Settled(s, r, q, c)
           /\ \A c \in Conn : r.x.tcp[c] = "Established" => q.x.tcp[c] = "Established"
           /\ \A c \in Conn : q.x.stream[c] = NoStream => q.x.tcp[c] \in Gone
<1> DEFINE r1 == Swept(r)
           r2 == Accepted(s, r1)
           q == Connected(s, r2)
<1>1. /\ Ready(s, r1) /\ r1.out = r.out /\ r1.x.tcp = r.x.tcp
      /\ \A c \in Conn :
           /\ r1.x.stream[c] = IF r.x.tcp[c] \in Gone THEN NoStream ELSE r.x.stream[c]
           /\ r1.x.stream[c] # NoStream => Got(r1.x, c) = Got(r.x, c)
    BY SweptAt
<1>2. IsResult(r1) /\ Entered(r1.x) /\ Clean(r1.x) /\ Lasts(r1.x, due)
    BY SweptStep DEF Ready
<1> HIDE DEF r1
<1>3. IsResult(r2) /\ Entered(r2.x) /\ Clean(r2.x) /\ Lasts(r2.x, due)
    BY <1>2, AcceptedStep
<1>4. /\ Ready(s, r2)
      /\ r2.x.selected = r1.x.selected /\ r2.x.received = r1.x.received
      /\ \A c \in Conn :
           \/ /\ r1.x.tcp[c] \notin Gone /\ r1.x.stream[c] = NoStream
              /\ r2.x.tcp[c] = "none" /\ r2.x.stream[c] = NoStream
              /\ r2.out[c] = Append(r1.out[c], Packet("RST"))
           \/ /\ r2.x.tcp[c] = r1.x.tcp[c] /\ r2.out[c] = r1.out[c]
              /\ r2.x.stream[c] = IF r1.x.tcp[c] \in Gone THEN NoStream
                                  ELSE Begun(r1.x.stream[c])
    BY <1>1, <1>2, AcceptedAt
<1> HIDE DEF r2
<1>5. \A c \in Conn : r2.x.stream[c] = NoStream => r2.x.tcp[c] \in Gone
    BY <1>4, NewStreamOK DEF Begun, Gone
<1>6. Lasts(q.x, due)
    BY <1>3, ConnectedStep
<1>7. /\ Ready(s, q) /\ Clean(q.x)
      /\ q.x.selected = r2.x.selected /\ q.x.received = r2.x.received
      /\ \A c \in Conn :
           \/ /\ Fresh(s, r2, c) /\ q.x.tcp[c] = "SynSent" /\ q.x.stream[c] = NewStream
              /\ q.out[c] = <<Packet("SYN")>>
           \/ /\ q.x.tcp[c] = r2.x.tcp[c] /\ q.x.stream[c] = r2.x.stream[c]
              /\ q.out[c] = r2.out[c]
      /\ \A c \in Conn : q.x.stream[c] = NoStream => q.x.tcp[c] \in Gone
    BY <1>3, <1>4, <1>5, ConnectedAt
<1> HIDE DEF q
<1>8. \A c \in Conn : Got(q.x, c) = Got(r1.x, c)
    BY <1>4, <1>7 DEF Got
<1>9. ASSUME NEW c \in Conn
      PROVE  /\ Settled(s, r, q, c)
             /\ r.x.tcp[c] = "Established" => q.x.tcp[c] = "Established"
    <2>1. CASE /\ r1.x.tcp[c] \notin Gone /\ r1.x.stream[c] = NoStream
               /\ r2.x.tcp[c] = "none" /\ r2.x.stream[c] = NoStream
               /\ r2.out[c] = Append(r1.out[c], Packet("RST"))
        <3>1. r1.out[c] \in Seq(Pkt) /\ r2.out[c] # <<>>
            <4>1. r1.out[c] \in Seq(Pkt)
                BY <1>1 DEF Ready
            <4> QED
                BY <2>1, <4>1, AppendProperties
        <3>2. q.x.tcp[c] = "none" /\ q.x.stream[c] = NoStream /\ q.out[c] = r2.out[c]
            BY <1>7, <2>1, <3>1 DEF Fresh
        <3>3. r.x.tcp[c] # "Established"
            BY <1>1, <2>1 DEF Ready
        <3> QED
            BY <1>1, <2>1, <3>2, <3>3 DEF Settled, Left
    <2>2. CASE /\ r2.x.tcp[c] = r1.x.tcp[c] /\ r2.out[c] = r1.out[c]
               /\ r2.x.stream[c] = IF r1.x.tcp[c] \in Gone THEN NoStream
                                   ELSE Begun(r1.x.stream[c])
        <3>1. CASE /\ Fresh(s, r2, c) /\ q.x.tcp[c] = "SynSent" /\ q.x.stream[c] = NewStream
                   /\ q.out[c] = <<Packet("SYN")>>
            <4>1. Fresh(s, r, c) /\ r.x.tcp[c] # "Established"
                BY <1>1, <2>2, <3>1 DEF Fresh
            <4>2. Got(q.x, c) = NoRoutes
                BY <1>7, <3>1, UnselectedGot, NewStreamOK DEF Ready
            <4> QED
                BY <3>1, <4>1, <4>2 DEF Settled, Opened
        <3>2. CASE /\ q.x.tcp[c] = r2.x.tcp[c] /\ q.x.stream[c] = r2.x.stream[c]
                   /\ q.out[c] = r2.out[c]
            <4>1. CASE r.x.tcp[c] \in Gone
                BY <1>1, <2>2, <3>2, <4>1 DEF Settled, Idle, Gone
            <4>2. CASE r.x.tcp[c] \notin Gone
                <5>1. r1.x.stream[c] = r.x.stream[c] /\ q.x.stream[c] = Begun(r.x.stream[c])
                    BY <1>1, <2>2, <3>2, <4>2
                <5>2. Got(q.x, c) = Got(r.x, c)
                    <6>1. CASE r.x.stream[c] = NoStream
                        <7>1. Got(r1.x, c) = NoRoutes /\ Got(r.x, c) = NoRoutes
                            BY <1>2, <5>1, <6>1, UnselectedGot DEF Up, Ready
                        <7> QED
                            BY <1>8, <7>1
                    <6>2. CASE r.x.stream[c] # NoStream
                        BY <1>1, <1>8, <5>1, <6>2
                    <6> QED
                        BY <6>1, <6>2
                <5> QED
                    BY <1>1, <2>2, <3>2, <4>2, <5>1, <5>2 DEF Settled
            <4> QED
                BY <4>1, <4>2
        <3> QED
            BY <1>7, <3>1, <3>2
    <2> QED
        BY <1>4, <2>1, <2>2
<1> QED
    BY <1>6, <1>7, <1>9 DEF q, r2, r1

\* What a whole tick does to every connection.
LEMMA TickAt ==
    ASSUME NEW s \in Speaker, NEW r, Ready(s, r), network[s] \in Routes,
           NEW c, NEW message,
           message.kind = "update" => /\ c \in Conn /\ message \in Mail
                                      /\ r.x.tcp[c] = "Established",
           NEW due, Lasts(r.x, due)
    PROVE  LET q == Tick(s, r, c, message, due) IN
           /\ PeerOK(q.x) /\ q.x.received \in Routes
           /\ q.out = [k \in Conn |-> q.out[k]]
           /\ \A k \in Conn : Ticked(s, r, q, k, IF k = c THEN message ELSE Nothing)
<1> DEFINE r3 == Connected(s, Accepted(s, Swept(r)))
           r8 == Sessions(s, r3, c, message)
           q == Flushed(s, r8, due)
<1>1. q = Tick(s, r, c, message, due)
    BY DEF Tick, Sessions
<1>2. /\ Ready(s, r3) /\ Clean(r3.x) /\ Lasts(r3.x, due)
      /\ \A k \in Conn : Settled(s, r, r3, k)
      /\ \A k \in Conn : r.x.tcp[k] = "Established" => r3.x.tcp[k] = "Established"
      /\ \A k \in Conn : r3.x.stream[k] = NoStream => r3.x.tcp[k] \in Gone
    BY SettledAt
<1> HIDE DEF r3
<1>3. /\ IsResult(r8) /\ PeerOK(r8.x) /\ Lasts(r8.x, due)
      /\ Advances(r3, r8) /\ Streaming(r8) /\ r8.x.received \in Routes
      /\ \A k \in Conn :
           /\ Alive(r8.x.stream[k]) =>
                 /\ r3.x.tcp[k] # "CloseWait"
                 /\ Got(r8.x, k) = Heard(Got(r3.x, k), IF k = c THEN message ELSE Nothing)
           /\ r3.x.tcp[k] \in {"SynSent", "SynReceived"} => r8.x.stream[k] = r3.x.stream[k]
    <2>1. message.kind = "update" => /\ c \in Conn /\ message \in Mail
                                     /\ r3.x.tcp[c] = "Established"
        BY <1>2
    <2>2. Ready(s, r3) /\ Clean(r3.x) /\ Lasts(r3.x, due) /\ network[s] \in Routes
        BY <1>2
    <2> QED
        BY <2>1, <2>2, SessionsAt, SMTT(30)
<1> HIDE DEF r8
<1>4. r8.out = r3.out /\ r8.out \in [Conn -> Seq(Pkt)] /\ r8.x.tcp = r3.x.tcp
    BY <1>2, <1>3 DEF Advances, Ready
<1>5. PeerOK(q.x)
    BY <1>3, FlushedStep
<1>6. /\ q.x.selected = r8.x.selected /\ q.x.received = r8.x.received
      /\ q.out = [k \in Conn |-> FlushedOne(s, r8, k, due).out[k]]
      /\ \A k \in Conn : /\ q.x.tcp[k] = FlushedOne(s, r8, k, due).x.tcp[k]
                         /\ q.x.stream[k] = FlushedOne(s, r8, k, due).x.stream[k]
                         /\ q.out[k] = FlushedOne(s, r8, k, due).out[k]
    BY <1>3, FlushedParts
<1>7. q.out = [k \in Conn |-> q.out[k]]
    BY <1>6
<1> HIDE DEF q
<1>8. ASSUME NEW k \in Conn PROVE Flushing(r8, q, k)
    <2> DEFINE a == FlushedOne(s, r8, k, due)
    <2>1. Flushing(r8, a, k)
        BY <1>3, <1>4, FlushedOneAt
    <2>2. q.x.tcp[k] = a.x.tcp[k] /\ q.x.stream[k] = a.x.stream[k] /\ q.out[k] = a.out[k]
        BY <1>6
    <2> HIDE DEF a
    <2> QED
        BY <2>1, <2>2 DEF Flushing
<1>9. ASSUME NEW k \in Conn
      PROVE  Ticked(s, r, q, k, IF k = c THEN message ELSE Nothing)
    <2> DEFINE told == IF k = c THEN message ELSE Nothing
    <2>1. CASE r3.x.stream[k] = NoStream
        <3>1. r8.x.stream[k] = NoStream
            BY <1>3, <2>1 DEF Advances
        <3>2. q.x.tcp[k] = r3.x.tcp[k] /\ q.x.stream[k] = NoStream /\ q.out[k] = r3.out[k]
            BY <1>4, <1>8, <3>1 DEF Flushing
        <3>3. Idle(r, r3, k) \/ Left(r, r3, k)
            BY <1>2, <2>1, NewStreamOK DEF Settled, Opened, Begun
        <3>4. Idle(r, q, k) \/ Left(r, q, k)
            BY <3>2, <3>3 DEF Idle, Left
        <3> QED
            BY <3>4 DEF Ticked
    <2>2. CASE r3.x.stream[k] # NoStream /\ Opened(s, r, r3, k)
        <3>1. r8.x.stream[k] = NewStream /\ r8.x.tcp[k] = "SynSent"
            BY <1>3, <1>4, <2>2 DEF Opened
        <3>2. q.x.tcp[k] = r3.x.tcp[k] /\ q.x.stream[k] = NewStream /\ q.out[k] = r3.out[k]
            BY <1>4, <1>8, <3>1, NewStreamFine DEF Alive, Flushing
        <3>3. Opened(s, r, q, k)
            BY <2>2, <3>2 DEF Opened
        <3> QED
            BY <3>3 DEF Ticked
    <2>3. CASE r3.x.stream[k] # NoStream /\ ~Opened(s, r, r3, k)
        <3>1. /\ r.x.tcp[k] \notin Gone /\ r3.x.tcp[k] = r.x.tcp[k] /\ r3.out[k] = r.out[k]
              /\ r3.x.stream[k] = Begun(r.x.stream[k]) /\ Got(r3.x, k) = Got(r.x, k)
            BY <1>2, <2>3 DEF Settled, Idle, Left
        <3>2. /\ Fine(Begun(r.x.stream[k])) /\ r.out[k] \in Seq(Pkt)
              /\ Grows(Begun(r.x.stream[k]), r8.x.stream[k])
            BY <1>2, <1>3, <2>3, <3>1 DEF Ready, Advances
        <3>3. r8.x.tcp[k] = r.x.tcp[k] /\ r8.out[k] = r.out[k]
            BY <1>4, <3>1
        <3>4. Alive(r8.x.stream[k]) => /\ r.x.tcp[k] # "CloseWait"
                                       /\ Got(r8.x, k) = Heard(Got(r.x, k), told)
            BY <1>3, <3>1
        <3>5. Got(q.x, k) = Got(r8.x, k)
            BY <1>6 DEF Got
        <3> HIDE DEF told
        <3>6. CASE q.x.tcp[k] = r8.x.tcp[k] /\ q.x.stream[k] = r8.x.stream[k]
                     /\ q.out[k] = r8.out[k]
            <4>1. Stays(r, q, k, told)
                BY <3>1, <3>2, <3>3, <3>4, <3>5, <3>6, StaysAt
            <4> QED
                BY <4>1 DEF Ticked, told
        <3>7. CASE LET st == r8.x.stream[k] IN
                   /\ st # NoStream /\ st.output # <<>>
                   /\ r8.x.tcp[k] \in {"Established", "CloseWait"} /\ q.x.tcp[k] = r8.x.tcp[k]
                   /\ q.x.stream[k] = [st EXCEPT !.output = Tail(st.output)]
                   /\ q.out[k] = Append(r8.out[k], Head(st.output))
            <4>1. Stays(r, q, k, told)
                BY <3>1, <3>2, <3>3, <3>4, <3>5, <3>7, StaysAt
            <4> QED
                BY <4>1 DEF Ticked, told
        <3>8. CASE LET st == r8.x.stream[k] IN
                   /\ st # NoStream /\ st.closing # "no" /\ q.x.stream[k] = NoStream
                   /\ q.x.tcp[k] = "none" \/ (q.x.tcp[k] = "FinWait" /\ r8.x.tcp[k] = "Established")
                   /\ \E kind \in {"RST", "FIN"} : q.out[k] = Append(r8.out[k], Packet(kind))
            <4>1. Left(r, q, k)
                BY <3>1, <3>3, <3>8 DEF Left
            <4> QED
                BY <4>1 DEF Ticked
        <3> QED
            BY <1>8, <3>6, <3>7, <3>8 DEF Flushing
    <2> QED
        BY <2>1, <2>2, <2>3
<1>10. q.x.received \in Routes
    BY <1>3, <1>6
<1> QED
    BY <1>1, <1>5, <1>7, <1>9, <1>10

-----------------------------------------------------------------------------
(* The two ends of a connection *)

\* One end.  A session that has not started has brought no routes.
End(e) ==
    /\ e.tcp \in TcpState /\ e.got \in Routes /\ (e.stream = NoStream \/ Fine(e.stream))
    /\ e.tcp \in Gone <=> e.stream = NoStream
    /\ e.stream # NoStream /\ e.tcp \in {"SynSent", "SynReceived"} => ~e.stream.started
    /\ e.stream = NoStream => e.got = NoRoutes
    /\ e.stream # NoStream /\ ~e.stream.started => e.got = NoRoutes

\* The end a that opened a connection, the end b that accepts it, and what is
\* under way to each.  A SYN comes before everything else, an end that waits
\* for the answer to it has heard no update, and the first that an end hears
\* once it has answered is the ACK.
Handshake(a, wa, b, wb) ==
    /\ a.tcp # "SynReceived" /\ b.tcp # "SynSent"
    /\ \A i \in 1 .. Len(wa) : wa[i].kind # "SYN"
    /\ \A i \in 1 .. Len(wb) : wb[i].kind = "SYN" =>
          /\ i = 1 /\ a.tcp \in {"none", "SynSent"} /\ b.tcp = "none" /\ wa = <<>> /\ Plain(wb)
    /\ a.tcp = "SynSent" =>
          /\ wb \in {<<>>, <<Packet("SYN")>>} /\ b.tcp \in {"none", "SynReceived"} /\ Plain(wa)
    /\ b.tcp = "SynReceived" /\ Alive(a.stream) /\ a.tcp # "SynSent" =>
          wb # <<>> /\ Head(wb).kind = "ACK"

\* What e has heard, with what is under way to it and what waits to be sent,
\* is what o has noted as advertised.
Agreed(e, w, o) ==
    Alive(e.stream) /\ Alive(o.stream) =>
        Follows(e.got, w \o o.stream.output, o.stream.advertised)

\* A connection of which both ends agree, and what is under way on it.
Link(a, wa, b, wb) ==
    /\ End(a) /\ End(b) /\ wa \in Seq(Pkt) /\ wb \in Seq(Pkt)
    /\ Handshake(a, wa, b, wb) /\ Agreed(a, wa, b) /\ Agreed(b, wb, a)

LEMMA ConcatAt ==
    ASSUME NEW u \in Seq(Pkt), NEW v \in Seq(Pkt)
    PROVE  /\ u \o v \in Seq(Pkt) /\ (u = <<>> => u \o v = v)
           /\ u # <<>> => u \o v # <<>> /\ Head(u \o v) = Head(u) /\ Tail(u \o v) = Tail(u) \o v
           /\ \A i \in 1 .. Len(u \o v) :
                 \/ i \in 1 .. Len(u) /\ (u \o v)[i] = u[i]
                 \/ \E j \in 1 .. Len(v) : i = Len(u) + j /\ (u \o v)[i] = v[j]
<1> DEFINE w == u \o v
<1>1. /\ Len(u) \in Nat /\ Len(v) \in Nat /\ Len(w) = Len(u) + Len(v) /\ w \in Seq(Pkt)
      /\ \A i \in 1 .. Len(u) : w[i] = u[i]
      /\ \A i \in 1 .. Len(w) : i > Len(u) => i - Len(u) \in 1 .. Len(v) /\ w[i] = v[i - Len(u)]
    BY ConcatProperties, LenProperties
<1>2. u = <<>> => w = v
    BY ConcatEmptySeq
<1>3. ASSUME u # <<>> PROVE w # <<>> /\ Head(w) = Head(u) /\ Tail(w) = Tail(u) \o v
    <2>1. /\ Len(u) > 0 /\ Head(u) \in Pkt /\ Tail(u) \in Seq(Pkt)
          /\ u = <<Head(u)>> \o Tail(u)
        BY <1>3, HeadTailProperties, EmptySeq
    <2>2. <<Head(u)>> \in Seq(Pkt)
        BY <2>1
    <2>3. w = <<Head(u)>> \o (Tail(u) \o v)
        BY <2>1, <2>2, PktAssociative
    <2>4. Tail(u) \o v \in Seq(Pkt)
        BY <2>1, ConcatProperties
    <2> DEFINE t == Tail(u) \o v
               h == Head(u)
    <2> HIDE DEF t, h, w
    <2>5. Len(w) > 0 /\ w # <<>>
        BY <1>1, <2>1, EmptySeq
    <2>6. Head(w) = h /\ Tail(w) = t
        BY <2>1, <2>2, <2>3, <2>4 DEF h, t
    <2> QED
        BY <2>5, <2>6 DEF h, t
<1> HIDE DEF w
<1>4. ASSUME NEW i \in 1 .. Len(w)
      PROVE  \/ i \in 1 .. Len(u) /\ w[i] = u[i]
             \/ \E j \in 1 .. Len(v) : i = Len(u) + j /\ w[i] = v[j]
    <2>1. CASE i <= Len(u)
        BY <1>1, <2>1
    <2>2. CASE i > Len(u)
        <3>1. i - Len(u) \in 1 .. Len(v) /\ w[i] = v[i - Len(u)] /\ i = Len(u) + (i - Len(u))
            BY <1>1, <2>2
        <3> QED
            BY <3>1
    <2> QED
        BY <1>1, <2>1, <2>2
<1> QED
    BY <1>1, <1>2, <1>3, <1>4 DEF w

LEMMA TailAt ==
    ASSUME NEW w \in Seq(Pkt), w # <<>>
    PROVE  /\ Tail(w) \in Seq(Pkt) /\ Head(w) \in Pkt /\ Head(w) = w[1] /\ 1 \in 1 .. Len(w)
           /\ \A i \in 1 .. Len(Tail(w)) : /\ i + 1 \in 1 .. Len(w) /\ i + 1 # 1
                                           /\ Tail(w)[i] = w[i + 1]
<1>1. /\ Tail(w) \in Seq(Pkt) /\ Head(w) \in Pkt /\ Head(w) = w[1] /\ Len(w) \in Nat \ {0}
      /\ Len(Tail(w)) = Len(w) - 1 /\ \A i \in 1 .. Len(Tail(w)) : Tail(w)[i] = w[i + 1]
    BY HeadTailProperties, EmptySeq, LenProperties
<1> QED
    BY <1>1

LEMMA PlainIs ==
    ASSUME NEW w \in Seq(Pkt)
    PROVE  Plain(w) <=> \A i \in 1 .. Len(w) : w[i].kind # "update"
BY LenProperties DEF Plain

LEMMA PlainParts ==
    /\ \A u, v \in Seq(Pkt) : Plain(u) /\ Plain(v) => Plain(u \o v)
    /\ \A w \in Seq(Pkt) : w # <<>> /\ Plain(w) => Plain(Tail(w)) /\ Head(w).kind # "update"
    /\ Plain(<<>>)
    /\ \A kind \in Control : Packet(kind).kind # "update" /\ Plain(<<Packet(kind)>>)
    /\ \A i, j \in Control : Plain(<<Packet(i), Packet(j)>>)
<1>1. ASSUME NEW u \in Seq(Pkt), NEW v \in Seq(Pkt), Plain(u), Plain(v) PROVE Plain(u \o v)
    <2> DEFINE w == u \o v
    <2>1. /\ w \in Seq(Pkt)
          /\ \A i \in 1 .. Len(w) :
                 \/ i \in 1 .. Len(u) /\ w[i] = u[i]
                 \/ \E j \in 1 .. Len(v) : i = Len(u) + j /\ w[i] = v[j]
        BY ConcatAt
    <2> HIDE DEF w
    <2>2. \A i \in 1 .. Len(w) : w[i].kind # "update"
        BY <1>1, <2>1, PlainIs
    <2> QED
        BY <2>1, <2>2, PlainIs DEF w
<1>2. ASSUME NEW w \in Seq(Pkt), w # <<>>, Plain(w)
      PROVE  Plain(Tail(w)) /\ Head(w).kind # "update"
    <2>1. \A i \in 1 .. Len(Tail(w)) : Tail(w)[i].kind # "update"
        BY <1>2, PlainIs, TailAt
    <2> QED
        BY <1>2, <2>1, PlainIs, TailAt
<1>3. Plain(<<>>)
    BY DEF Plain
<1>4. \A kind \in Control : Packet(kind).kind # "update"
    BY DEF Packet, Control
<1>5. \A kind \in Control : Plain(<<Packet(kind)>>)
    BY <1>4 DEF Plain
<1>6. \A i, j \in Control : Plain(<<Packet(i), Packet(j)>>)
    BY <1>4 DEF Plain
<1> QED
    BY <1>1, <1>2, <1>3, <1>4, <1>5, <1>6

\* A packet that arrives is taken into account.
LEMMA HearsAgreed ==
    ASSUME NEW got \in Routes, NEW w \in Seq(Pkt), w # <<>>, NEW queue \in Seq(Mail), NEW notes,
           Follows(got, w \o queue, notes)
    PROVE  Follows(Heard(got, Head(w)), Tail(w) \o queue, notes)
<1> DEFINE u == w \o queue
<1>1. /\ u \in Seq(Pkt) /\ u # <<>> /\ Head(u) = Head(w) /\ Tail(u) = Tail(w) \o queue
    BY ConcatAt, MailIsPkt
<1> HIDE DEF u
<1>2. Follows(Heard(got, Head(u)), Tail(u), notes)
    BY <1>1, FollowsTail DEF u
<1> QED
    BY <1>1, <1>2

\* What an end adds, to the wire or to its queue, is what it notes.
LEMMA SendsAgreed ==
    ASSUME NEW got, NEW w \in Seq(Pkt), NEW first \in Seq(Pkt), Plain(first),
           NEW queue \in Seq(Mail), first = <<>> \/ queue = <<>>, NEW notes,
           Follows(got, w \o queue, notes),
           NEW more \in Seq(Mail), NEW new, Follows(notes, more, new),
           NEW out \in Seq(Pkt), NEW rest \in Seq(Mail), out \o rest = (first \o queue) \o more
    PROVE  Follows(got, (w \o out) \o rest, new)
<1>1. /\ queue \in Seq(Pkt) /\ more \in Seq(Pkt) /\ rest \in Seq(Pkt)
    BY MailIsPkt
<1> DEFINE fq == first \o queue
<1>2. fq \in Seq(Pkt) /\ w \o fq \in Seq(Pkt)
    BY <1>1, ConcatProperties
<1>3. Follows(got, w \o fq, notes)
    <2>1. CASE first = <<>>
        <3>1. fq = queue
            BY <1>1, <2>1, ConcatAt
        <3> QED
            BY <3>1
    <2>2. CASE queue = <<>>
        <3>1. fq = first /\ w \o queue = w
            BY <1>1, <2>2, ConcatEmptySeq
        <3>2. Follows(notes, first, notes)
            BY FollowsPlain
        <3>3. Follows(got, w, notes)
            BY <3>1
        <3> QED
            BY <3>1, <3>2, <3>3, FollowsConcat
    <2> QED
        BY <2>1, <2>2
<1>4. (w \o out) \o rest = w \o (out \o rest)
    BY <1>1, PktAssociative, ZenonT(40)
<1> HIDE DEF fq
<1>5. (w \o fq) \o more = w \o (fq \o more)
    <2>1. fq \in Seq(Pkt) /\ more \in Seq(Pkt)
        BY <1>1, <1>2
    <2> QED
        BY <2>1, PktAssociative
<1>6. Follows(got, (w \o fq) \o more, new)
    BY <1>1, <1>2, <1>3, FollowsConcat
<1> QED
    BY <1>4, <1>5, <1>6 DEF fq

\* An end goes, or what arrives finds it gone.
Vanishes(e, w, o, wo, e1, w1, out) ==
    /\ e1.stream = NoStream
    /\ \/ e1.tcp = "none"
       \/ e1.tcp = "FinWait" /\ (e.tcp \in {"Established", "FinWait"}
                                   \/ (w # <<>> /\ Head(w).kind # "SYN"))
    /\ Plain(out)
    /\ (w1 = w /\ e.tcp # "none") \/ (w # <<>> /\ w1 = Tail(w))
    /\ \A i \in 1 .. Len(out) : out[i].kind = "SYN" =>
          /\ i = 1 /\ e.tcp = "SynSent" /\ e1.tcp = "none"
          /\ o.tcp = "none" /\ w = <<>> /\ wo = <<>> /\ w1 = w

LEMMA OpenerVanishes ==
    ASSUME NEW a, NEW wa, NEW b, NEW wb, Link(a, wa, b, wb), NEW a1, End(a1), NEW wa1,
           NEW out \in Seq(Pkt), Vanishes(a, wa, b, wb, a1, wa1, out),
           NEW wb1 \in {wb \o out, out}
    PROVE  Link(a1, wa1, b, wb1)
<1>1. wa \in Seq(Pkt) /\ wb \in Seq(Pkt) /\ End(b)
    BY DEF Link
<1>2. wb1 \in Seq(Pkt)
    BY <1>1, ConcatAt, ZenonT(40)
<1>3. /\ wa1 \in Seq(Pkt) /\ (wa1 = wa \/ wa # <<>>)
      /\ \A i \in 1 .. Len(wa1) : wa1[i].kind # "SYN"
    <2>1. CASE wa1 = wa
        BY <1>1, <2>1 DEF Link, Handshake
    <2>2. CASE wa # <<>> /\ wa1 = Tail(wa)
        BY <1>1, <2>2, TailAt DEF Link, Handshake
    <2> QED
        BY <2>1, <2>2 DEF Vanishes
<1>4. ASSUME NEW i \in 1 .. Len(wb1), wb1[i].kind = "SYN"
      PROVE  i = 1 /\ a1.tcp \in {"none", "SynSent"} /\ b.tcp = "none" /\ wa1 = <<>> /\ Plain(wb1)
    <2>1. ASSUME NEW j \in 1 .. Len(out), out[j].kind = "SYN"
          PROVE  /\ j = 1 /\ a1.tcp = "none" /\ b.tcp = "none" /\ wa1 = <<>>
                 /\ wb = <<>> /\ Plain(out)
        BY <2>1 DEF Vanishes
    <2>2. wb = <<>> => wb \o out = out
        BY <1>1, ConcatAt
    <2>3. CASE wb1 = out
        BY <1>4, <2>1, <2>3
    <2>4. CASE wb1 = wb \o out
        <3>1. CASE i \in 1 .. Len(wb) /\ wb1[i] = wb[i]
            <4>1. /\ i = 1 /\ a.tcp \in {"none", "SynSent"} /\ b.tcp = "none" /\ wa = <<>>
                  /\ Plain(wb)
                BY <1>4, <3>1 DEF Link, Handshake
            <4>2. Plain(wb1)
                BY <1>1, <2>4, <4>1, PlainParts DEF Vanishes
            <4>3. wa1 = <<>> /\ a1.tcp = "none"
                BY <1>3, <4>1 DEF Vanishes
            <4> QED
                BY <4>1, <4>2, <4>3
        <3>2. CASE \E j \in 1 .. Len(out) : i = Len(wb) + j /\ wb1[i] = out[j]
            <4>1. PICK j \in 1 .. Len(out) : i = Len(wb) + j /\ wb1[i] = out[j]
                BY <3>2
            <4>2. /\ j = 1 /\ a1.tcp = "none" /\ b.tcp = "none" /\ wa1 = <<>>
                  /\ wb = <<>> /\ Plain(out)
                BY <1>4, <2>1, <4>1
            <4>3. wb1 = out
                BY <2>2, <2>4, <4>2
            <4>4. i = 1
                BY <1>4, <2>1, <4>3
            <4> QED
                BY <4>2, <4>3, <4>4
        <3> QED
            BY <1>1, <2>4, <3>1, <3>2, ConcatAt
    <2> QED
        BY <2>3, <2>4
<1>5. Handshake(a1, wa1, b, wb1)
    <2>1. a1.tcp \notin {"SynSent", "SynReceived"} /\ ~Alive(a1.stream) /\ b.tcp # "SynSent"
        BY DEF Vanishes, Alive, Link, Handshake
    <2> QED
        BY <1>3, <1>4, <2>1 DEF Handshake
<1>6. Agreed(a1, wa1, b) /\ Agreed(b, wb1, a1)
    BY DEF Vanishes, Agreed, Alive
<1> QED
    BY <1>1, <1>2, <1>3, <1>5, <1>6 DEF Link

LEMMA AcceptorVanishes ==
    ASSUME NEW a, NEW wa, NEW b, NEW wb, Link(a, wa, b, wb), NEW b1, End(b1), NEW wb1,
           NEW out \in Seq(Pkt), Vanishes(b, wb, a, wa, b1, wb1, out),
           NEW wa1 \in {wa \o out, out}
    PROVE  Link(a, wa1, b1, wb1)
<1>1. wa \in Seq(Pkt) /\ wb \in Seq(Pkt) /\ End(a)
    BY DEF Link
<1>2. wa1 \in Seq(Pkt) /\ b.tcp # "SynSent"
    <2>1. wa1 \in Seq(Pkt)
        <3>1. wa \o out \in Seq(Pkt)
            BY <1>1, ConcatAt
        <3> QED
            BY <3>1
    <2>2. b.tcp # "SynSent"
        BY DEF Link, Handshake
    <2> QED
        BY <2>1, <2>2
<1>3. ASSUME NEW i \in 1 .. Len(wa1) PROVE wa1[i].kind # "SYN"
    <2>1. \A j \in 1 .. Len(out) : out[j].kind # "SYN"
        BY <1>2 DEF Vanishes
    <2>2. \A j \in 1 .. Len(wa) : wa[j].kind # "SYN"
        BY DEF Link, Handshake
    <2>3. CASE wa1 = out
        BY <2>1, <2>3
    <2>4. CASE wa1 = wa \o out
        BY <1>1, <2>1, <2>2, <2>4, ConcatAt
    <2> QED
        BY <2>3, <2>4
<1>4. /\ wb1 \in Seq(Pkt)
      /\ \A i \in 1 .. Len(wb1) : wb1[i].kind # "SYN"
    <2>1. CASE wb1 = wb /\ b.tcp # "none"
        BY <1>1, <2>1 DEF Link, Handshake
    <2>2. CASE wb # <<>> /\ wb1 = Tail(wb)
        <3>1. /\ wb1 \in Seq(Pkt)
              /\ \A i \in 1 .. Len(wb1) : /\ i + 1 \in 1 .. Len(wb) /\ i + 1 # 1
                                          /\ wb1[i] = wb[i + 1]
            BY <1>1, <2>2, TailAt
        <3> QED
            BY <3>1 DEF Link, Handshake
    <2> QED
        BY <2>1, <2>2 DEF Vanishes
<1>5. ASSUME a.tcp = "SynSent"
      PROVE  wb1 \in {<<>>, <<Packet("SYN")>>} /\ b1.tcp = "none" /\ Plain(wa1)
    <2>1. /\ wb \in {<<>>, <<Packet("SYN")>>} /\ b.tcp \in {"none", "SynReceived"} /\ Plain(wa)
        BY <1>5 DEF Link, Handshake
    <2>5. wb # <<>> => Head(wb).kind = "SYN"
        <3>1. Head(<<Packet("SYN")>>) = Packet("SYN") /\ Packet("SYN").kind = "SYN"
            BY NotUpdate
        <3> QED
            BY <2>1, <3>1
    <2>2. b1.tcp = "none" /\ Plain(out) /\ (wb1 = wb \/ (wb # <<>> /\ wb1 = Tail(wb)))
        BY <2>1, <2>5 DEF Vanishes
    <2>3. Plain(wa1)
        BY <1>1, <2>1, <2>2, PlainParts
    <2>4. Tail(<<Packet("SYN")>>) = <<>>
        OBVIOUS
    <2> QED
        BY <2>1, <2>2, <2>3, <2>4
<1>6. Handshake(a, wa1, b1, wb1)
    <2>1. b1.tcp \notin {"SynSent", "SynReceived"} /\ a.tcp # "SynReceived"
        BY DEF Vanishes, Link, Handshake
    <2> QED
        BY <1>3, <1>4, <1>5, <2>1 DEF Handshake
<1>7. Agreed(a, wa1, b1) /\ Agreed(b1, wb1, a)
    BY DEF Vanishes, Agreed, Alive
<1> QED
    BY <1>1, <1>2, <1>4, <1>6, <1>7 DEF Link

\* An end opens a connection that nothing is left of.
LEMMA OpenerOpens ==
    ASSUME NEW a, NEW wa, NEW b, NEW wb, Link(a, wa, b, wb), NEW a1, End(a1),
           a.tcp = "none", b.tcp = "none", wa = <<>>, wb = <<>>,
           a1.tcp = "SynSent", a1.stream = NewStream
    PROVE  Link(a1, wa, b, wb \o <<Packet("SYN")>>)
<1> DEFINE wb1 == <<Packet("SYN")>>
<1>1. wb \o <<Packet("SYN")>> = wb1 /\ wb1 \in Seq(Pkt) /\ Plain(wb1) /\ Len(wb1) = 1
    <2>1. "SYN" \in Control
        BY DEF Control
    <2> QED
        BY <2>1, MailIsPkt, PlainParts, ConcatEmptySeq
<1>2. b.stream = NoStream /\ End(b)
    BY DEF Link, End, Gone
<1>3. Handshake(a1, wa, b, wb1)
    <2>1. Plain(wa)
        BY PlainParts
    <2>2. \A i \in 1 .. Len(wb1) : i = 1
        BY <1>1
    <2>3. \A i \in 1 .. Len(wa) : wa[i].kind # "SYN"
        BY DEF Link, Handshake
    <2> QED
        BY <1>1, <2>1, <2>2, <2>3 DEF Handshake
<1>4. Agreed(a1, wa, b) /\ Agreed(b, wb1, a1)
    BY <1>2 DEF Agreed, Alive
<1> QED
    BY <1>1, <1>2, <1>3, <1>4 DEF Link

\* An end accepts a connection: the other has opened it and heard nothing yet.
LEMMA AcceptorAccepts ==
    ASSUME NEW a, NEW wa, NEW b, NEW wb, Link(a, wa, b, wb), NEW b1, End(b1),
           wb # <<>>, Head(wb).kind = "SYN", b1.tcp = "SynReceived"
    PROVE  Link(a, wa \o <<Packet("SYNACK")>>, b1, Tail(wb))
<1> DEFINE wa1 == <<Packet("SYNACK")>>
           wb1 == Tail(wb)
<1>1. wa \in Seq(Pkt) /\ wb \in Seq(Pkt) /\ End(a)
    BY DEF Link
<1>2. /\ a.tcp \in {"none", "SynSent"} /\ b.tcp = "none" /\ wa = <<>> /\ Plain(wb)
    <2>1. 1 \in 1 .. Len(wb) /\ wb[1].kind = "SYN"
        BY <1>1, TailAt
    <2> QED
        BY <2>1 DEF Link, Handshake
<1>3. /\ wa \o <<Packet("SYNACK")>> = wa1 /\ wa1 \in Seq(Pkt) /\ Plain(wa1)
      /\ \A i \in 1 .. Len(wa1) : wa1[i].kind # "SYN"
    <2>1. "SYNACK" \in Control /\ Packet("SYNACK").kind # "SYN"
        BY DEF Control, Packet
    <2>2. \A i \in 1 .. Len(wa1) : wa1[i] = Packet("SYNACK")
        OBVIOUS
    <2> QED
        BY <1>2, <2>1, <2>2, MailIsPkt, PlainParts, ConcatEmptySeq
<1>4. /\ wb1 \in Seq(Pkt) /\ Plain(wb1)
      /\ \A i \in 1 .. Len(wb1) : wb1[i].kind # "SYN"
    <2>1. /\ wb1 \in Seq(Pkt)
          /\ \A i \in 1 .. Len(wb1) : /\ i + 1 \in 1 .. Len(wb) /\ i + 1 # 1
                                      /\ wb1[i] = wb[i + 1]
        BY <1>1, TailAt
    <2>2. \A i \in 1 .. Len(wb1) : wb1[i].kind # "SYN"
        BY <2>1 DEF Link, Handshake
    <2>3. Plain(wb1)
        BY <1>1, <1>2, PlainParts
    <2> QED
        BY <2>1, <2>2, <2>3
<1>5. a.tcp = "SynSent" => wb1 = <<>>
    <2>1. a.tcp = "SynSent" => wb = <<Packet("SYN")>>
        BY DEF Link, Handshake
    <2>2. Tail(<<Packet("SYN")>>) = <<>>
        OBVIOUS
    <2> QED
        BY <2>1, <2>2
<1> HIDE DEF wa1, wb1
<1>6. Alive(a.stream) => a.tcp = "SynSent"
    BY <1>1, <1>2 DEF End, Gone, Alive
<1>7. Handshake(a, wa1, b1, wb1)
    BY <1>2, <1>3, <1>4, <1>5, <1>6 DEF Handshake
<1>8. ASSUME Alive(a.stream), Alive(b1.stream)
      PROVE  /\ Follows(a.got, wa1 \o b1.stream.output, b1.stream.advertised)
             /\ Follows(b1.got, wb1 \o a.stream.output, a.stream.advertised)
    <2>1. /\ a.got = NoRoutes /\ a.stream.output = <<>> /\ a.stream.advertised = NoRoutes
        BY <1>1, <1>6, <1>8 DEF End, Alive, Fine
    <2>2. /\ b1.got = NoRoutes /\ b1.stream.output = <<>> /\ b1.stream.advertised = NoRoutes
        BY <1>8 DEF End, Alive, Fine
    <2>3. wa1 \o <<>> = wa1 /\ wb1 \o <<>> = wb1
        BY <1>3, <1>4, ConcatEmptySeq
    <2>4. Follows(NoRoutes, wa1, NoRoutes) /\ Follows(NoRoutes, wb1, NoRoutes)
        BY <1>3, <1>4, FollowsPlain
    <2> QED
        BY <2>1, <2>2, <2>3, <2>4
<1>9. Link(a, wa1, b1, wb1)
    BY <1>1, <1>3, <1>4, <1>7, <1>8 DEF Link, Agreed
<1> QED
    BY <1>3, <1>9 DEF wb1

\* An end stays.  It sends first what its connection answers, then perhaps a
\* message of its session.
Goes(e, e1, first, out) ==
    /\ e.tcp \notin Gone /\ e1.tcp \notin Gone
    /\ \/ out = first
       \/ /\ e1.tcp \in {"Established", "CloseWait"}
          /\ \E m \in Mail : out = Append(first, m)
    /\ Alive(e1.stream) =>
          /\ e1.tcp # "CloseWait" /\ Alive(e.stream)
          /\ \E more \in Seq(Mail) :
                /\ out \o e1.stream.output = (first \o e.stream.output) \o more
                /\ Follows(e.stream.advertised, more, e1.stream.advertised)

\* Nothing happens to its connection.
Runs(e, w, e1, w1, first) ==
    /\ w1 = w /\ e1.tcp = e.tcp /\ first = <<>>
    /\ Alive(e1.stream) => e1.got = e.got

\* Its part of the handshake is repeated to an end that is not there.
Repeats(e, w, o, wo, e1, w1, first) ==
    /\ w1 = w /\ w = <<>> /\ wo = <<>> /\ o.tcp = "none" /\ e1.tcp = e.tcp
    /\ \/ e.tcp = "SynSent" /\ first = <<Packet("SYN")>>
       \/ e.tcp = "SynReceived" /\ first = <<Packet("SYNACK")>>

\* A packet arrives.
Hears(e, w, e1, w1, first) ==
    /\ w # <<>> /\ w1 = Tail(w)
    /\ Alive(e1.stream) =>
          e1.got = Heard(e.got, IF e.tcp = "Established" THEN Head(w) ELSE Nothing)
    /\ \/ e.tcp = "SynSent" /\ e1.tcp = "Established" /\ first = <<Packet("ACK")>>
       \/ /\ e.tcp = "SynReceived" /\ Head(w).kind = "ACK" /\ e1.tcp = "Established"
          /\ first = <<>>
       \/ /\ e1.tcp = e.tcp /\ ~(e.tcp = "SynReceived" /\ Head(w).kind = "ACK")
          /\ first = <<>>
       \/ e.tcp = "Established" /\ e1.tcp = "CloseWait" /\ first = <<>>

\* What is sent, however it is split.
LEMMA GoesOut ==
    ASSUME NEW e, NEW e1, NEW first \in Seq(Pkt), NEW out \in Seq(Pkt), Goes(e, e1, first, out),
           first = <<>> \/ \E kind \in Control : first = <<Packet(kind)>>
    PROVE  /\ \A i \in 1 .. Len(out) : out[i].kind = "SYN" => i = 1 /\ first = <<Packet("SYN")>>
           /\ first = <<>> \/ (out # <<>> /\ Head(out) = first[1])
           /\ Plain(first)
<1>1. ASSUME NEW m \in Mail PROVE m.kind # "SYN"
    BY MailIsPkt DEF Control
<1>2. CASE first = <<>>
    <2>1. out = <<>> \/ \E m \in Mail : out = <<m>>
        BY <1>2 DEF Goes
    <2>2. \A i \in 1 .. Len(out) : out[i].kind # "SYN"
        BY <1>1, <2>1
    <2> QED
        BY <1>2, <2>2, PlainParts
<1>3. CASE \E kind \in Control : first = <<Packet(kind)>>
    <2>1. PICK kind \in Control : first = <<Packet(kind)>>
        BY <1>3
    <2>2. Packet(kind).kind = kind
        BY NotUpdate
    <2>3. out = <<Packet(kind)>> \/ \E m \in Mail : out = <<Packet(kind), m>>
        BY <2>1 DEF Goes
    <2>4. out # <<>> /\ Head(out) = Packet(kind)
        BY <2>3
    <2>5. ASSUME NEW i \in 1 .. Len(out), out[i].kind = "SYN" PROVE i = 1 /\ kind = "SYN"
        <3>1. CASE out = <<Packet(kind)>>
            BY <2>2, <2>5, <3>1
        <3>2. CASE \E m \in Mail : out = <<Packet(kind), m>>
            <4>1. PICK m \in Mail : out = <<Packet(kind), m>>
                BY <3>2
            <4>2. i = 1 \/ i = 2
                BY <4>1
            <4>3. i = 1
                BY <1>1, <2>5, <4>1, <4>2
            <4> QED
                BY <2>2, <2>5, <4>1, <4>3
        <3> QED
            BY <2>3, <3>1, <3>2
    <2> QED
        BY <2>1, <2>4, <2>5, PlainParts
<1> QED
    BY <1>2, <1>3

\* What an end that stays sends keeps the two ends agreed.
LEMMA GoesAgreed ==
    ASSUME NEW e, End(e), NEW o, NEW wo \in Seq(Pkt), Agreed(o, wo, e),
           NEW e1, End(e1), NEW first \in Seq(Pkt), Plain(first), NEW out \in Seq(Pkt),
           Goes(e, e1, first, out),
           Alive(o.stream) /\ Alive(e.stream) => first = <<>> \/ ~e.stream.started
    PROVE  Agreed(o, wo \o out, e1)
<1> SUFFICES ASSUME Alive(o.stream), Alive(e1.stream)
             PROVE  Follows(o.got, (wo \o out) \o e1.stream.output, e1.stream.advertised)
    BY DEF Agreed
<1>1. Alive(e.stream)
    BY DEF Goes
<1>2. PICK more \in Seq(Mail) :
        /\ out \o e1.stream.output = (first \o e.stream.output) \o more
        /\ Follows(e.stream.advertised, more, e1.stream.advertised)
    BY DEF Goes
<1>3. /\ e.stream.output \in Seq(Mail) /\ e1.stream.output \in Seq(Mail)
      /\ first = <<>> \/ e.stream.output = <<>>
    BY <1>1 DEF End, Fine, Alive
<1>4. Follows(o.got, wo \o e.stream.output, e.stream.advertised)
    BY <1>1 DEF Agreed
<1> QED
    BY <1>2, <1>3, <1>4, SendsAgreed

\* The routes that an end knows follow what arrives.
LEMMA HeardAgreed ==
    ASSUME NEW e, End(e), NEW o, End(o), NEW w \in Seq(Pkt), w # <<>>, Agreed(e, w, o),
           NEW e1, Alive(e1.stream) => Alive(e.stream),
           Alive(e1.stream) /\ Alive(o.stream) => e1.got = Heard(e.got, Head(w))
    PROVE  Agreed(e1, Tail(w), o)
<1> SUFFICES ASSUME Alive(e1.stream), Alive(o.stream)
             PROVE  Follows(e1.got, Tail(w) \o o.stream.output, o.stream.advertised)
    BY DEF Agreed
<1>1. Follows(e.got, w \o o.stream.output, o.stream.advertised)
    BY DEF Agreed
<1>2. e.got \in Routes /\ o.stream.output \in Seq(Mail)
    BY DEF End, Alive, Fine
<1> QED
    BY <1>1, <1>2, HearsAgreed

LEMMA HeardNothing ==
    ASSUME NEW got, NEW m, m.kind # "update"
    PROVE  Heard(got, m) = got /\ Heard(got, Nothing) = got
BY NotUpdate DEF Heard

LEMMA OpenerGoes ==
    ASSUME NEW a, NEW wa, NEW b, NEW wb, Link(a, wa, b, wb), NEW a1, End(a1), NEW wa1,
           NEW first \in Seq(Pkt), NEW out \in Seq(Pkt), Goes(a, a1, first, out),
           \/ Runs(a, wa, a1, wa1, first) \/ Repeats(a, wa, b, wb, a1, wa1, first)
           \/ Hears(a, wa, a1, wa1, first)
    PROVE  Link(a1, wa1, b, wb \o out)
<1> DEFINE wb1 == wb \o out
<1>1. /\ wa \in Seq(Pkt) /\ wb \in Seq(Pkt) /\ End(a) /\ End(b) /\ Handshake(a, wa, b, wb)
      /\ Agreed(a, wa, b) /\ Agreed(b, wb, a)
    BY DEF Link
<1>2. /\ a.tcp \in {"SynSent", "Established", "CloseWait"}
      /\ a.tcp = "SynSent" => ~a.stream.started
    BY <1>1 DEF End, TcpState, Gone, Handshake, Goes
<1>3. /\ first = <<>> \/ \E kind \in Control : first = <<Packet(kind)>>
      /\ first = <<Packet("SYN")>> => Repeats(a, wa, b, wb, a1, wa1, first)
    <2>1. {"SYN", "SYNACK", "ACK"} \subseteq Control
        BY DEF Control
    <2>2. Packet("ACK").kind = "ACK" /\ Packet("SYN").kind = "SYN"
        BY NotUpdate
    <2>3. <<Packet("ACK")>> # <<Packet("SYN")>> /\ <<>> # <<Packet("SYN")>>
        BY <2>2
    <2> QED
        BY <2>1, <2>3 DEF Runs, Repeats, Hears
<1>4. /\ \A i \in 1 .. Len(out) : out[i].kind = "SYN" => i = 1 /\ first = <<Packet("SYN")>>
      /\ first = <<>> \/ (out # <<>> /\ Head(out) = first[1])
      /\ Plain(first)
    BY <1>3, GoesOut
<1>5. wb1 \in Seq(Pkt)
    BY <1>1, ConcatAt
<1>6. /\ wa1 \in Seq(Pkt) /\ (wa1 = wa \/ wa # <<>>)
      /\ \A i \in 1 .. Len(wa1) : wa1[i].kind # "SYN"
    <2>1. CASE wa1 = wa
        BY <1>1, <2>1 DEF Handshake
    <2>2. CASE wa # <<>> /\ wa1 = Tail(wa)
        BY <1>1, <2>2, TailAt DEF Handshake
    <2> QED
        BY <2>1, <2>2 DEF Runs, Repeats, Hears
<1>7. ASSUME a1.tcp = "SynSent"
      PROVE  /\ a.tcp = "SynSent" /\ Plain(wa1) /\ b.tcp \in {"none", "SynReceived"}
             /\ \/ wb1 = wb
                \/ wb = <<>> /\ wb1 = <<Packet("SYN")>> /\ b.tcp = "none" /\ wa1 = <<>>
    <2>1. a.tcp = "SynSent" /\ (wa1 = wa \/ (wa # <<>> /\ wa1 = Tail(wa)))
        <3>1. CASE Runs(a, wa, a1, wa1, first)
            <4>1. wa1 = wa /\ a1.tcp = a.tcp
                BY <3>1 DEF Runs
            <4> QED
                BY <1>7, <4>1
        <3>2. CASE Repeats(a, wa, b, wb, a1, wa1, first)
            BY <1>7, <3>2 DEF Repeats
        <3>3. CASE Hears(a, wa, a1, wa1, first)
            BY <1>7, <3>3 DEF Hears
        <3> QED
            BY <3>1, <3>2, <3>3
    <2>2. Plain(wa) /\ b.tcp \in {"none", "SynReceived"}
        BY <1>1, <2>1 DEF Handshake
    <2>3. Plain(wa1)
        BY <1>1, <2>1, <2>2, PlainParts
    <2>4. out = first
        BY <1>7 DEF Goes
    <2>5. CASE first = <<>>
        <3>1. wb1 = wb
            BY <1>1, <2>4, <2>5, ConcatEmptySeq
        <3> QED
            BY <2>1, <2>2, <2>3, <3>1
    <2>6. CASE first # <<>>
        <3>1. Repeats(a, wa, b, wb, a1, wa1, first)
            BY <1>7, <2>6 DEF Runs, Hears
        <3>2. first = <<Packet("SYN")>> /\ wb = <<>> /\ b.tcp = "none" /\ wa1 = <<>>
            BY <2>1, <3>1 DEF Repeats
        <3>3. wb1 = first
            BY <1>1, <2>4, <3>2, ConcatAt
        <3> QED
            BY <2>1, <2>2, <2>3, <3>2, <3>3
    <2> QED
        BY <2>5, <2>6
<1>8. ASSUME NEW i \in 1 .. Len(wb1), wb1[i].kind = "SYN"
      PROVE  i = 1 /\ a1.tcp \in {"none", "SynSent"} /\ b.tcp = "none" /\ wa1 = <<>> /\ Plain(wb1)
    <2>1. CASE i \in 1 .. Len(wb) /\ wb1[i] = wb[i]
        <3>1. /\ i = 1 /\ a.tcp \in {"none", "SynSent"} /\ b.tcp = "none" /\ wa = <<>>
              /\ Plain(wb)
            BY <1>1, <1>8, <2>1 DEF Handshake
        <3>2. wa1 = <<>>
            BY <1>6, <3>1
        <3>3. a1.tcp = "SynSent"
            BY <1>2, <3>1 DEF Runs, Repeats, Hears
        <3>4. wb # <<>>
            BY <2>1
        <3>5. wb1 = wb
            BY <1>7, <3>3, <3>4
        <3> QED
            BY <3>1, <3>2, <3>3, <3>5
    <2>2. CASE \E j \in 1 .. Len(out) : i = Len(wb) + j /\ wb1[i] = out[j]
        <3>1. Repeats(a, wa, b, wb, a1, wa1, first) /\ first = <<Packet("SYN")>>
            BY <1>3, <1>4, <1>8, <2>2
        <3>2. a.tcp = "SynSent"
            <4>1. Packet("SYN").kind = "SYN" /\ Packet("SYNACK").kind = "SYNACK"
                BY NotUpdate
            <4>2. <<Packet("SYN")>> # <<Packet("SYNACK")>>
                BY <4>1
            <4> QED
                BY <3>1, <4>2 DEF Repeats
        <3>3. a1.tcp = "SynSent" /\ wb = <<>> /\ b.tcp = "none" /\ wa1 = <<>>
            BY <3>1, <3>2 DEF Repeats
        <3>4. wb1 = <<Packet("SYN")>>
            <4>1. out = first
                BY <3>3 DEF Goes
            <4> QED
                BY <1>1, <3>1, <3>3, <4>1, ConcatAt
        <3>5. Plain(wb1) /\ i = 1
            <4>1. "SYN" \in Control
                BY DEF Control
            <4> HIDE DEF wb1
            <4>2. i \in 1 .. Len(<<Packet("SYN")>>)
                BY <3>4
            <4> QED
                BY <3>4, <4>1, <4>2, PlainParts
        <3> QED
            BY <3>3, <3>5
    <2> QED
        BY <1>1, <2>1, <2>2, ConcatAt
<1>9. ASSUME b.tcp = "SynReceived", Alive(a1.stream), a1.tcp # "SynSent"
      PROVE  wb1 # <<>> /\ Head(wb1).kind = "ACK"
    <2>1. Alive(a.stream)
        BY <1>9 DEF Goes
    <2>2. CASE a.tcp # "SynSent"
        <3>1. wb # <<>> /\ Head(wb).kind = "ACK"
            BY <1>1, <1>9, <2>1, <2>2 DEF Handshake
        <3> QED
            BY <1>1, <3>1, ConcatAt
    <2>3. CASE a.tcp = "SynSent"
        <3>1. first = <<Packet("ACK")>>
            BY <1>9, <2>3 DEF Runs, Repeats, Hears
        <3>2. wb = <<>>
            <4>1. Packet("SYN").kind = "SYN"
                BY NotUpdate
            <4>2. wb \in {<<>>, <<Packet("SYN")>>}
                BY <1>1, <2>3 DEF Handshake
            <4>3. ASSUME wb = <<Packet("SYN")>> PROVE FALSE
                <5>1. 1 \in 1 .. Len(wb) /\ wb[1].kind = "SYN"
                    BY <4>1, <4>3
                <5> QED
                    BY <1>1, <1>9, <5>1 DEF Handshake
            <4> QED
                BY <4>2, <4>3
        <3>3. wb1 = out
            BY <1>1, <3>2, ConcatAt
        <3>4. <<Packet("ACK")>>[1] = Packet("ACK") /\ Packet("ACK").kind = "ACK"
                /\ <<Packet("ACK")>> # <<>>
            BY NotUpdate
        <3> QED
            BY <1>4, <3>1, <3>3, <3>4
    <2> QED
        BY <2>2, <2>3
<1>10. Agreed(b, wb1, a1)
    <2>1. Alive(b.stream) /\ Alive(a.stream) => first = <<>> \/ ~a.stream.started
        <3>1. Repeats(a, wa, b, wb, a1, wa1, first) => ~Alive(b.stream)
            BY <1>1 DEF Repeats, End, Gone, Alive
        <3> QED
            BY <1>2, <3>1 DEF Runs, Hears
    <2> QED
        BY <1>1, <1>4, <2>1, GoesAgreed
<1>11. Agreed(a1, wa1, b)
    <2>1. Alive(a1.stream) => Alive(a.stream) /\ a1.tcp # "CloseWait"
        BY DEF Goes
    <2>2. CASE Runs(a, wa, a1, wa1, first)
        BY <1>1, <2>1, <2>2 DEF Runs, Agreed
    <2>3. CASE Repeats(a, wa, b, wb, a1, wa1, first)
        BY <1>1, <2>3 DEF Repeats, End, Gone, Alive, Agreed
    <2>4. CASE Hears(a, wa, a1, wa1, first)
        <3>1. wa # <<>> /\ wa1 = Tail(wa)
            BY <2>4 DEF Hears
        <3>2. ASSUME Alive(a1.stream) PROVE a1.got = Heard(a.got, Head(wa))
            <4>1. CASE a.tcp = "Established"
                BY <2>4, <3>2, <4>1 DEF Hears
            <4>2. CASE a.tcp = "SynSent"
                <5>1. Head(wa).kind # "update"
                    BY <1>1, <3>1, <4>2, PlainParts DEF Handshake
                <5> QED
                    BY <2>4, <3>2, <4>2, <5>1, HeardNothing DEF Hears
            <4>3. CASE a.tcp = "CloseWait"
                BY <2>1, <2>4, <3>2, <4>3 DEF Hears
            <4> QED
                BY <1>2, <4>1, <4>2, <4>3
        <3> QED
            BY <1>1, <2>1, <3>1, <3>2, HeardAgreed
    <2> QED
        BY <2>2, <2>3, <2>4
<1> HIDE DEF wb1
<1>12. Handshake(a1, wa1, b, wb1)
    <2>1. a1.tcp # "SynReceived" /\ b.tcp # "SynSent"
        BY <1>1, <1>2 DEF Runs, Repeats, Hears, Handshake
    <2>2. a1.tcp = "SynSent" =>
          wb1 \in {<<>>, <<Packet("SYN")>>} /\ b.tcp \in {"none", "SynReceived"} /\ Plain(wa1)
        BY <1>1, <1>7 DEF Handshake
    <2> QED
        BY <1>6, <1>8, <1>9, <2>1, <2>2 DEF Handshake
<1> QED
    BY <1>1, <1>5, <1>6, <1>10, <1>11, <1>12 DEF Link, wb1

LEMMA AcceptorGoes ==
    ASSUME NEW a, NEW wa, NEW b, NEW wb, Link(a, wa, b, wb), NEW b1, End(b1), NEW wb1,
           NEW first \in Seq(Pkt), NEW out \in Seq(Pkt), Goes(b, b1, first, out),
           \/ Runs(b, wb, b1, wb1, first) \/ Repeats(b, wb, a, wa, b1, wb1, first)
           \/ Hears(b, wb, b1, wb1, first)
    PROVE  Link(a, wa \o out, b1, wb1)
<1> DEFINE wa1 == wa \o out
<1>1. /\ wa \in Seq(Pkt) /\ wb \in Seq(Pkt) /\ End(a) /\ End(b) /\ Handshake(a, wa, b, wb)
      /\ Agreed(a, wa, b) /\ Agreed(b, wb, a)
    BY DEF Link
<1>2. /\ b.tcp \in {"SynReceived", "Established", "CloseWait"}
      /\ b.tcp = "SynReceived" => ~b.stream.started
    BY <1>1 DEF End, TcpState, Gone, Handshake, Goes
<1>3. /\ first = <<>> \/ \E kind \in Control : first = <<Packet(kind)>>
      /\ first # <<>> => Repeats(b, wb, a, wa, b1, wb1, first) /\ first = <<Packet("SYNACK")>>
    <2>1. "SYNACK" \in Control
        BY DEF Control
    <2>2. CASE Runs(b, wb, b1, wb1, first)
        BY <2>2 DEF Runs
    <2>3. CASE Repeats(b, wb, a, wa, b1, wb1, first)
        BY <1>2, <2>1, <2>3 DEF Repeats
    <2>4. CASE Hears(b, wb, b1, wb1, first)
        BY <1>2, <2>4 DEF Hears
    <2> QED
        BY <2>2, <2>3, <2>4
<1>4. /\ \A i \in 1 .. Len(out) : out[i].kind # "SYN"
      /\ Plain(first)
    <2>1. Packet("SYN").kind = "SYN" /\ Packet("SYNACK").kind = "SYNACK"
        BY NotUpdate
    <2>2. first # <<Packet("SYN")>>
        <3>1. <<Packet("SYN")>> # <<Packet("SYNACK")>> /\ <<>> # <<Packet("SYN")>>
            BY <2>1
        <3> QED
            BY <1>3, <3>1
    <2> QED
        BY <1>3, <2>2, GoesOut
<1>5. wa1 \in Seq(Pkt) /\ \A i \in 1 .. Len(wa1) : wa1[i].kind # "SYN"
    <2>1. \A i \in 1 .. Len(wa) : wa[i].kind # "SYN"
        BY <1>1 DEF Handshake
    <2> QED
        BY <1>1, <1>4, <2>1, ConcatAt
<1>6. /\ wb1 = wb \/ (wb # <<>> /\ wb1 = Tail(wb))
      /\ b1.tcp # "SynSent" /\ b1.tcp # "none"
      /\ b1.tcp = "SynReceived" => b.tcp = "SynReceived"
    <2>1. CASE Runs(b, wb, b1, wb1, first)
        <3>1. wb1 = wb /\ b1.tcp = b.tcp
            BY <2>1 DEF Runs
        <3> QED
            BY <1>2, <3>1
    <2>2. CASE Repeats(b, wb, a, wa, b1, wb1, first)
        BY <1>2, <2>2 DEF Repeats
    <2>3. CASE Hears(b, wb, b1, wb1, first)
        BY <1>2, <2>3 DEF Hears
    <2> QED
        BY <2>1, <2>2, <2>3
<1>7. /\ \A i \in 1 .. Len(wb) : wb[i].kind # "SYN"
      /\ wb1 \in Seq(Pkt) /\ \A i \in 1 .. Len(wb1) : wb1[i].kind # "SYN"
    <2>1. \A i \in 1 .. Len(wb) : wb[i].kind # "SYN"
        BY <1>1, <1>2 DEF Handshake
    <2>2. CASE wb1 = wb
        BY <1>1, <2>1, <2>2
    <2>3. CASE wb # <<>> /\ wb1 = Tail(wb)
        BY <1>1, <2>1, <2>3, TailAt
    <2> QED
        BY <1>6, <2>1, <2>2, <2>3
<1>8. ASSUME a.tcp = "SynSent"
      PROVE  /\ Runs(b, wb, b1, wb1, first) /\ b1.tcp = "SynReceived"
             /\ wb1 = <<>> /\ wa1 = wa /\ Plain(wa)
    <2>1. /\ wb \in {<<>>, <<Packet("SYN")>>} /\ b.tcp = "SynReceived" /\ Plain(wa)
        BY <1>1, <1>2, <1>8 DEF Handshake
    <2>2. wb = <<>>
        <3>1. Packet("SYN").kind = "SYN"
            BY NotUpdate
        <3>2. ASSUME wb = <<Packet("SYN")>> PROVE FALSE
            <4>1. 1 \in 1 .. Len(wb) /\ wb[1].kind = "SYN"
                BY <3>1, <3>2
            <4> QED
                BY <1>7, <4>1
        <3> QED
            BY <2>1, <3>2
    <2>3. Runs(b, wb, b1, wb1, first)
        BY <1>8, <2>2 DEF Repeats, Hears
    <2>4. wb1 = <<>> /\ b1.tcp = "SynReceived" /\ first = <<>>
        BY <2>1, <2>2, <2>3 DEF Runs
    <2>5. out = <<>>
        BY <2>4 DEF Goes
    <2>6. wa1 = wa
        BY <1>1, <2>5, ConcatEmptySeq
    <2> QED
        BY <2>1, <2>3, <2>4, <2>6
<1>9. ASSUME b1.tcp = "SynReceived", Alive(a.stream), a.tcp # "SynSent"
      PROVE  /\ Runs(b, wb, b1, wb1, first)
             /\ wb1 # <<>> /\ Head(wb1).kind = "ACK"
    <2>1. b.tcp = "SynReceived" /\ wb # <<>> /\ Head(wb).kind = "ACK"
        BY <1>1, <1>6, <1>9 DEF Handshake
    <2>2. Runs(b, wb, b1, wb1, first)
        BY <1>9, <2>1 DEF Repeats, Hears
    <2> QED
        BY <2>1, <2>2 DEF Runs
<1>10. Agreed(a, wa1, b1)
    <2>1. Alive(a.stream) /\ Alive(b.stream) => first = <<>> \/ ~b.stream.started
        <3>1. Repeats(b, wb, a, wa, b1, wb1, first) => ~Alive(a.stream)
            BY <1>1 DEF Repeats, End, Gone, Alive
        <3> QED
            BY <1>3, <3>1
    <2> QED
        BY <1>1, <1>4, <2>1, GoesAgreed
<1>11. Agreed(b1, wb1, a)
    <2>1. Alive(b1.stream) => Alive(b.stream) /\ b1.tcp # "CloseWait"
        BY DEF Goes
    <2>2. CASE Runs(b, wb, b1, wb1, first)
        BY <1>1, <2>1, <2>2 DEF Runs, Agreed
    <2>3. CASE Repeats(b, wb, a, wa, b1, wb1, first)
        BY <1>1, <2>3 DEF Repeats, End, Gone, Alive, Agreed
    <2>4. CASE Hears(b, wb, b1, wb1, first)
        <3>1. wb # <<>> /\ wb1 = Tail(wb) /\ a.tcp # "SynSent"
            <4>1. a.tcp = "SynSent" => wb = <<>>
                BY <1>8 DEF Runs
            <4> QED
                BY <2>4, <4>1 DEF Hears
        <3>2. ASSUME Alive(b1.stream), Alive(a.stream) PROVE b1.got = Heard(b.got, Head(wb))
            <4>1. CASE b.tcp = "Established"
                BY <2>4, <3>2, <4>1 DEF Hears
            <4>2. CASE b.tcp = "SynReceived"
                <5>1. Head(wb).kind = "ACK"
                    BY <1>1, <3>1, <3>2, <4>2 DEF Handshake
                <5>2. Head(wb).kind # "update"
                    BY <5>1
                <5> QED
                    BY <2>4, <3>2, <4>2, <5>2, HeardNothing DEF Hears
            <4>3. CASE b.tcp = "CloseWait"
                BY <2>1, <2>4, <3>2, <4>3 DEF Hears
            <4> QED
                BY <1>2, <4>1, <4>2, <4>3
        <3> QED
            BY <1>1, <2>1, <3>1, <3>2, HeardAgreed
    <2> QED
        BY <2>2, <2>3, <2>4
<1>12. Handshake(a, wa1, b1, wb1)
    <2>1. a.tcp # "SynReceived"
        BY <1>1 DEF Handshake
    <2> HIDE DEF wa1
    <2> QED
        BY <1>5, <1>6, <1>7, <1>8, <1>9, <2>1 DEF Handshake
<1> HIDE DEF wa1
<1> QED
    BY <1>1, <1>5, <1>7, <1>10, <1>11, <1>12 DEF Link, wa1

-----------------------------------------------------------------------------
(* An event and its tick, on one connection *)

EndOf(x, c) == [tcp |-> x.tcp[c], stream |-> x.stream[c], got |-> Got(x, c)]

LEMMA EndFields ==
    ASSUME NEW x, NEW c
    PROVE  /\ EndOf(x, c).tcp = x.tcp[c] /\ EndOf(x, c).stream = x.stream[c]
           /\ EndOf(x, c).got = Got(x, c)
BY DEF EndOf

LEMMA EndOK ==
    ASSUME NEW x, PeerOK(x), x.received \in Routes, NEW c \in Conn,
           x.stream[c] = NoStream \/ Fine(x.stream[c]),
           x.tcp[c] \in Gone <=> x.stream[c] = NoStream
    PROVE  End(EndOf(x, c))
<1>1. /\ x.tcp[c] \in TcpState /\ Got(x, c) \in Routes
      /\ x.stream[c] # NoStream /\ x.stream[c].started =>
            x.tcp[c] \notin {"SynSent", "SynReceived"}
    BY NoRoutesType DEF PeerOK, Entered, IsPeer, Got
<1>2. c # NoConn
    BY DEF NoConn, Conn, Speaker
<1>3. ASSUME Got(x, c) # NoRoutes PROVE x.stream[c] # NoStream /\ x.stream[c].started
    <2>1. Up(x.stream[c])
        BY <1>2, <1>3 DEF PeerOK, Entered, Got
    <2> QED
        BY <2>1 DEF PeerOK, Entered, IsPeer, IsStream, Up
<1> DEFINE e == EndOf(x, c)
<1>4. e.tcp = x.tcp[c] /\ e.stream = x.stream[c] /\ e.got = Got(x, c)
    BY EndFields
<1> HIDE DEF e
<1>5. e.stream # NoStream /\ e.tcp \in {"SynSent", "SynReceived"} => ~e.stream.started
    BY <1>1, <1>4
<1>6. /\ e.stream = NoStream => e.got = NoRoutes
      /\ e.stream # NoStream /\ ~e.stream.started => e.got = NoRoutes
    BY <1>3, <1>4
<1>7. End(e)
    BY <1>1, <1>4, <1>5, <1>6 DEF End
<1> QED
    BY <1>7 DEF e

\* What an event at s, which makes r of its peer, does to a connection before
\* the tick: nothing, a packet arrives, the connection is lost, or a segment of
\* the handshake is sent again.
Untouched(x, r, c, w, w1, told) ==
    /\ r.x.tcp[c] = x.tcp[c] /\ r.x.stream[c] = x.stream[c] /\ Got(r.x, c) = Got(x, c)
    /\ r.out[c] = <<>> /\ w1 = w /\ told.kind # "update"

Answer(state, kind, new, out) ==
    \/ kind = "RST" /\ new = "none" /\ out = <<>>
    \/ state = "none" /\ kind = "SYN" /\ new = "SynReceived" /\ out = <<Packet("SYNACK")>>
    \/ state = "none" /\ kind # "SYN" /\ new = "none" /\ out = <<Packet("RST")>>
    \/ state = "SynSent" /\ kind = "SYNACK" /\ new = "Established" /\ out = <<Packet("ACK")>>
    \/ state = "SynReceived" /\ kind = "ACK" /\ new = "Established" /\ out = <<>>
    \/ state = "Established" /\ kind = "FIN" /\ new = "CloseWait" /\ out = <<>>
    \/ state = "FinWait" /\ kind = "FIN" /\ new = "none" /\ out = <<>>
    \/ state # "none" /\ new = state /\ ~(state = "SynReceived" /\ kind = "ACK") /\ out = <<>>

Arrives(x, r, c, w, w1, told) ==
    /\ w # <<>> /\ w1 = Tail(w)
    /\ r.x.stream[c] = x.stream[c] /\ Got(r.x, c) = Got(x, c)
    /\ Answer(x.tcp[c], Head(w).kind, r.x.tcp[c], r.out[c])
    /\ told = IF Head(w).kind \in Control \/ x.tcp[c] # "Established" THEN Nothing ELSE Head(w)

Lost(x, r, c, w, wo, w1) ==
    /\ x.tcp[c] # "none" /\ r.x.tcp[c] = "none" /\ w1 = w
    /\ \/ wo # <<>> /\ r.out[c] = <<>>
       \/ r.out[c] = <<Packet("RST")>>

Again(x, r, c, w, o, wo, w1) ==
    /\ r.x.tcp[c] = x.tcp[c] /\ r.x.stream[c] = x.stream[c] /\ Got(r.x, c) = Got(x, c)
    /\ w1 = w /\ w = <<>> /\ wo = <<>> /\ o.tcp = "none"
    /\ \/ x.tcp[c] = "SynSent" /\ r.out[c] = <<Packet("SYN")>>
       \/ x.tcp[c] = "SynReceived" /\ r.out[c] = <<Packet("SYNACK")>>

\* What becomes of one end by an event and its tick.
Outcome(s, c, e, w, o, wo, e1, w1, out) ==
    \/ e1 = e /\ w1 = w /\ out = <<>>
    \/ Vanishes(e, w, o, wo, e1, w1, out)
    \/ /\ c[1] = s /\ e.tcp = "none" /\ o.tcp = "none" /\ w = <<>> /\ wo = <<>> /\ w1 = w
       /\ e1.tcp = "SynSent" /\ e1.stream = NewStream /\ out = <<Packet("SYN")>>
    \/ /\ w # <<>> /\ Head(w).kind = "SYN" /\ w1 = Tail(w)
       /\ e1.tcp = "SynReceived" /\ out = <<Packet("SYNACK")>>
    \/ \E first \in Seq(Pkt) :
          /\ Goes(e, e1, first, out)
          /\ \/ Runs(e, w, e1, w1, first) \/ Repeats(e, w, o, wo, e1, w1, first)
             \/ Hears(e, w, e1, w1, first)

LEMMA OpenerMoves ==
    ASSUME NEW e, NEW w, NEW o, NEW wo, Link(e, w, o, wo), NEW e1, End(e1), NEW w1,
           NEW out \in Seq(Pkt), NEW s, NEW c, Outcome(s, c, e, w, o, wo, e1, w1, out),
           NEW wo1, wo1 = wo \o out \/ (wo1 = out /\ Vanishes(e, w, o, wo, e1, w1, out))
    PROVE  Link(e1, w1, o, wo1)
<1>1. w \in Seq(Pkt) /\ wo \in Seq(Pkt) /\ \A i \in 1 .. Len(w) : w[i].kind # "SYN"
    BY DEF Link, Handshake
<1>2. CASE Vanishes(e, w, o, wo, e1, w1, out)
    BY <1>2, OpenerVanishes
<1>3. CASE ~Vanishes(e, w, o, wo, e1, w1, out) /\ wo1 = wo \o out
    <2>1. CASE e1 = e /\ w1 = w /\ out = <<>>
        <3>1. wo1 = wo
            BY <1>1, <1>3, <2>1, ConcatEmptySeq
        <3> QED
            BY <2>1, <3>1
    <2>2. CASE /\ c[1] = s /\ e.tcp = "none" /\ o.tcp = "none" /\ w = <<>> /\ wo = <<>> /\ w1 = w
               /\ e1.tcp = "SynSent" /\ e1.stream = NewStream /\ out = <<Packet("SYN")>>
        <3>1. Link(e1, w, o, wo \o <<Packet("SYN")>>)
            BY <2>2, OpenerOpens
        <3>2. w1 = w /\ wo1 = wo \o <<Packet("SYN")>>
            BY <1>3, <2>2
        <3> QED
            BY <3>1, <3>2
    <2>3. CASE w # <<>> /\ Head(w).kind = "SYN"
        BY <1>1, <2>3, TailAt
    <2>4. CASE \E first \in Seq(Pkt) :
                  /\ Goes(e, e1, first, out)
                  /\ \/ Runs(e, w, e1, w1, first) \/ Repeats(e, w, o, wo, e1, w1, first)
                     \/ Hears(e, w, e1, w1, first)
        <3>1. Link(e1, w1, o, wo \o out)
            BY <2>4, OpenerGoes
        <3> QED
            BY <1>3, <3>1
    <2> QED
        BY <1>3, <2>1, <2>2, <2>3, <2>4 DEF Outcome
<1> QED
    BY <1>2, <1>3

LEMMA AcceptorMoves ==
    ASSUME NEW e, NEW w, NEW o, NEW wo, Link(o, wo, e, w), NEW e1, End(e1), NEW w1,
           NEW out \in Seq(Pkt), NEW s, NEW c, c[1] # s,
           Outcome(s, c, e, w, o, wo, e1, w1, out),
           NEW wo1, wo1 = wo \o out \/ (wo1 = out /\ Vanishes(e, w, o, wo, e1, w1, out))
    PROVE  Link(o, wo1, e1, w1)
<1>1. w \in Seq(Pkt) /\ wo \in Seq(Pkt)
    BY DEF Link
<1>2. CASE Vanishes(e, w, o, wo, e1, w1, out)
    BY <1>2, AcceptorVanishes
<1>3. CASE ~Vanishes(e, w, o, wo, e1, w1, out) /\ wo1 = wo \o out
    <2>1. CASE e1 = e /\ w1 = w /\ out = <<>>
        <3>1. wo1 = wo
            BY <1>1, <1>3, <2>1, ConcatEmptySeq
        <3> QED
            BY <2>1, <3>1
    <2>3. CASE /\ w # <<>> /\ Head(w).kind = "SYN" /\ w1 = Tail(w)
               /\ e1.tcp = "SynReceived" /\ out = <<Packet("SYNACK")>>
        <3>1. Link(o, wo \o <<Packet("SYNACK")>>, e1, Tail(w))
            BY <2>3, AcceptorAccepts
        <3>2. w1 = Tail(w) /\ wo1 = wo \o <<Packet("SYNACK")>>
            BY <1>3, <2>3
        <3> QED
            BY <3>1, <3>2
    <2>4. CASE \E first \in Seq(Pkt) :
                  /\ Goes(e, e1, first, out)
                  /\ \/ Runs(e, w, e1, w1, first) \/ Repeats(e, w, o, wo, e1, w1, first)
                     \/ Hears(e, w, e1, w1, first)
        <3>1. Link(o, wo \o out, e1, w1)
            BY <2>4, AcceptorGoes
        <3> QED
            BY <1>3, <3>1
    <2> QED
        BY <1>3, <2>1, <2>3, <2>4 DEF Outcome
<1> QED
    BY <1>2, <1>3

Happens(x, r, c, w, o, wo, w1, told) ==
    \/ Untouched(x, r, c, w, w1, told) \/ Arrives(x, r, c, w, w1, told)
    \/ Lost(x, r, c, w, wo, w1) \/ Again(x, r, c, w, o, wo, w1)

\* The packets that a connection answers with.
LEMMA AnswerOut ==
    ASSUME NEW state, NEW kind, NEW new, NEW out, Answer(state, kind, new, out)
    PROVE  /\ out = <<>> \/ \E k \in Control \ {"SYN"} : out = <<Packet(k)>>
           /\ new = "FinWait" => state = "FinWait"
           /\ state \in Gone => new \in Gone \cup {"SynReceived"}
           /\ new = "Established" => state = "Established" \/ kind \in {"SYNACK", "ACK"}
<1>1. {"SYNACK", "ACK", "RST"} \subseteq Control \ {"SYN"}
    BY DEF Control
<1> QED
    BY <1>1 DEF Answer, Gone

\* Short sequences of packets.
LEMMA OneOut ==
    ASSUME NEW out, out = <<>> \/ \E k \in Control \ {"SYN"} : out = <<Packet(k)>>
    PROVE  Plain(out) /\ \A i \in 1 .. Len(out) : out[i].kind # "SYN"
<1>1. CASE out = <<>>
    BY <1>1, PlainParts
<1>2. CASE \E k \in Control \ {"SYN"} : out = <<Packet(k)>>
    <2>1. PICK k \in Control \ {"SYN"} : out = <<Packet(k)>>
        BY <1>2
    <2>2. Packet(k).kind = k /\ Plain(out)
        BY <2>1, MailIsPkt, PlainParts
    <2>3. \A i \in 1 .. Len(out) : out[i] = Packet(k)
        BY <2>1
    <2> QED
        BY <2>2, <2>3
<1> QED
    BY <1>1, <1>2

LEMMA AppendToOne ==
    ASSUME NEW S, NEW m \in S, NEW n \in S
    PROVE  Append(<<m>>, n) = <<m, n>>
<1> DEFINE u == Append(<<m>>, n)
           v == <<m, n>>
<1>1. <<m>> \in Seq(S) /\ Len(<<m>>) = 1 /\ <<m>>[1] = m
    OBVIOUS
<1>2. u \in Seq(S) /\ Len(u) = 2 /\ u[1] = m /\ u[2] = n
    BY <1>1, AppendProperties
<1>3. v \in Seq(S) /\ Len(v) = 2 /\ v[1] = m /\ v[2] = n
    OBVIOUS
<1> HIDE DEF u, v
<1>4. \A i \in 1 .. 2 : u[i] = v[i]
    BY <1>2, <1>3
<1>5. u = v
    BY <1>2, <1>3, <1>4, SeqEqual
<1> QED
    BY <1>5 DEF u, v

LEMMA TwoOut ==
    ASSUME NEW k \in Control, NEW l \in Control, l # "SYN", NEW out,
           out = Append(<<Packet(k)>>, Packet(l))
    PROVE  Plain(out) /\ \A i \in 1 .. Len(out) : out[i].kind = "SYN" => i = 1 /\ k = "SYN"
<1> DEFINE m == Packet(k)
           n == Packet(l)
<1>1. out = Append(<<m>>, n) /\ m.kind = k /\ n.kind = l /\ m \in Pkt /\ n \in Pkt
    BY MailIsPkt
<1> HIDE DEF m, n
<1>4. out = <<m, n>>
    BY <1>1, AppendToOne
<1>2. m.kind = k /\ n.kind = l /\ Plain(out)
    BY <1>1, <1>4, PlainParts DEF m, n
<1>3. \A i \in 1 .. Len(out) : (i = 1 /\ out[i] = m) \/ (i = 2 /\ out[i] = n)
    BY <1>4
<1> QED
    BY <1>2, <1>3

LEMMA LostVanishes ==
    ASSUME NEW x, NEW r, NEW q, NEW c \in Conn, NEW w, NEW o, NEW wo, NEW w1,
           NEW e, e = EndOf(x, c), NEW e1, e1 = EndOf(q.x, c),
           Lost(x, r, c, w, wo, w1), Idle(r, q, c)
    PROVE  Vanishes(e, w, o, wo, e1, w1, q.out[c])
<1>1. "RST" \in Control \ {"SYN"}
    BY DEF Control
<1>2. q.out[c] = <<>> \/ \E k \in Control \ {"SYN"} : q.out[c] = <<Packet(k)>>
    BY <1>1 DEF Idle, Lost
<1>3. Plain(q.out[c]) /\ \A i \in 1 .. Len(q.out[c]) : q.out[c][i].kind # "SYN"
    BY <1>2, OneOut
<1>4. e1.stream = NoStream /\ e1.tcp = "none" /\ w1 = w /\ e.tcp # "none"
    BY EndFields DEF Idle, Lost
<1> QED
    BY <1>3, <1>4 DEF Vanishes

LEMMA IdleMoves ==
    ASSUME NEW x, NEW r, NEW q, NEW c \in Conn, NEW w, NEW o, NEW wo, NEW w1, NEW told,
           NEW e, e = EndOf(x, c), End(e), NEW e1, e1 = EndOf(q.x, c), End(e1),
           Happens(x, r, c, w, o, wo, w1, told), Idle(r, q, c), NEW s
    PROVE  Outcome(s, c, e, w, o, wo, e1, w1, q.out[c])
<1>1. /\ e.tcp = x.tcp[c] /\ e.stream = x.stream[c] /\ e.got = Got(x, c)
      /\ e1.tcp = q.x.tcp[c] /\ e1.stream = q.x.stream[c] /\ e1.got = Got(q.x, c)
    BY EndFields
<1>2. CASE Untouched(x, r, c, w, w1, told)
    <2>1. e1.tcp = e.tcp /\ e.stream = NoStream /\ e1.stream = NoStream
        BY <1>1, <1>2 DEF Untouched, Idle, End
    <2>2. e.got = NoRoutes /\ e1.got = NoRoutes
        BY <2>1 DEF End
    <2>3. e1 = e
        BY <1>1, <2>1, <2>2 DEF EndOf
    <2> QED
        BY <1>2, <2>3 DEF Untouched, Idle, Outcome
<1>3. CASE Arrives(x, r, c, w, w1, told)
    <2>1. Answer(x.tcp[c], Head(w).kind, r.x.tcp[c], r.out[c])
        BY <1>3 DEF Arrives
    <2>2. /\ q.out[c] = <<>> \/ \E k \in Control \ {"SYN"} : q.out[c] = <<Packet(k)>>
          /\ e1.tcp = "FinWait" => e.tcp = "FinWait"
        BY <1>1, <2>1, AnswerOut DEF Idle
    <2>3. Plain(q.out[c]) /\ \A i \in 1 .. Len(q.out[c]) : q.out[c][i].kind # "SYN"
        BY <2>2, OneOut
    <2>4. e1.tcp = "none" \/ e1.tcp = "FinWait"
        BY <1>1 DEF Idle, Gone
    <2>5. e1.stream = NoStream /\ w # <<>> /\ w1 = Tail(w)
        BY <1>1, <1>3 DEF Idle, Arrives
    <2>6. Vanishes(e, w, o, wo, e1, w1, q.out[c])
        BY <2>2, <2>3, <2>4, <2>5 DEF Vanishes
    <2> QED
        BY <2>6 DEF Outcome
<1>4. CASE Lost(x, r, c, w, wo, w1)
    BY <1>4, LostVanishes DEF Outcome
<1>5. CASE Again(x, r, c, w, o, wo, w1)
    BY <1>5 DEF Again, Idle, Gone
<1> QED
    BY <1>2, <1>3, <1>4, <1>5 DEF Happens

LEMMA LeftMoves ==
    ASSUME NEW x, NEW r, NEW q, NEW c \in Conn, NEW w, NEW o, NEW wo, NEW w1, NEW told,
           NEW e, e = EndOf(x, c), End(e), NEW e1, e1 = EndOf(q.x, c), End(e1),
           Happens(x, r, c, w, o, wo, w1, told), Left(r, q, c), NEW s
    PROVE  Outcome(s, c, e, w, o, wo, e1, w1, q.out[c])
<1> DEFINE out == q.out[c]
<1>1. /\ e.tcp = x.tcp[c] /\ e.stream = x.stream[c]
      /\ e1.tcp = q.x.tcp[c] /\ e1.stream = NoStream
      /\ e1.tcp = "none" \/ (e1.tcp = "FinWait" /\ r.x.tcp[c] = "Established")
    BY EndFields DEF Left
<1>2. PICK l \in {"RST", "FIN"} : out = Append(r.out[c], Packet(l))
    BY DEF Left
<1>3. l \in Control /\ l # "SYN"
    BY DEF Control
<1>4. ASSUME NEW k \in Control, r.out[c] = <<Packet(k)>>
      PROVE  Plain(out) /\ \A i \in 1 .. Len(out) : out[i].kind = "SYN" => i = 1 /\ k = "SYN"
    <2>1. out = Append(<<Packet(k)>>, Packet(l))
        BY <1>2, <1>4
    <2> HIDE DEF out
    <2> QED
        BY <1>3, <2>1, TwoOut
<1>5. ASSUME r.out[c] = <<>>
      PROVE  Plain(out) /\ \A i \in 1 .. Len(out) : out[i].kind # "SYN"
    <2>1. out = <<Packet(l)>>
        BY <1>2, <1>5
    <2> HIDE DEF out
    <2> QED
        BY <1>3, <2>1, OneOut
<1> HIDE DEF out
<1>6. Vanishes(e, w, o, wo, e1, w1, out)
    <2>1. CASE Untouched(x, r, c, w, w1, told)
        <3>1. w1 = w /\ e.tcp # "none" /\ r.out[c] = <<>> /\ r.x.tcp[c] = e.tcp
            BY <1>1, <2>1 DEF Untouched, Left, Gone
        <3> QED
            BY <1>1, <1>5, <3>1 DEF Vanishes
    <2>2. CASE Arrives(x, r, c, w, w1, told)
        <3>1. Answer(x.tcp[c], Head(w).kind, r.x.tcp[c], r.out[c]) /\ w # <<>> /\ w1 = Tail(w)
            BY <2>2 DEF Arrives
        <3>2. /\ r.out[c] = <<>> \/ \E k \in Control \ {"SYN"} : r.out[c] = <<Packet(k)>>
              /\ r.x.tcp[c] = "Established" => e.tcp = "Established" \/ Head(w).kind # "SYN"
            BY <1>1, <3>1, AnswerOut
        <3>3. Plain(out) /\ \A i \in 1 .. Len(out) : out[i].kind # "SYN"
            BY <1>4, <1>5, <3>2
        <3> QED
            BY <1>1, <3>1, <3>2, <3>3 DEF Vanishes
    <2>3. CASE Lost(x, r, c, w, wo, w1)
        BY <2>3 DEF Lost, Left, Gone
    <2>4. CASE Again(x, r, c, w, o, wo, w1)
        <3>1. /\ w1 = w /\ w = <<>> /\ wo = <<>> /\ o.tcp = "none" /\ e.tcp # "none"
              /\ e1.tcp = "none"
            BY <1>1, <2>4 DEF Again
        <3>2. CASE e.tcp = "SynSent" /\ r.out[c] = <<Packet("SYN")>>
            <4>1. "SYN" \in Control
                BY DEF Control
            <4>2. Plain(out) /\ \A i \in 1 .. Len(out) : out[i].kind = "SYN" => i = 1
                BY <1>4, <3>2, <4>1
            <4> QED
                BY <1>1, <3>1, <3>2, <4>2 DEF Vanishes
        <3>3. CASE r.out[c] = <<Packet("SYNACK")>>
            <4>1. "SYNACK" \in Control
                BY DEF Control
            <4>2. Plain(out) /\ \A i \in 1 .. Len(out) : out[i].kind # "SYN"
                BY <1>4, <3>3, <4>1
            <4> QED
                BY <1>1, <3>1, <4>2 DEF Vanishes
        <3> QED
            BY <1>1, <2>4, <3>2, <3>3 DEF Again
    <2> QED
        BY <2>1, <2>2, <2>3, <2>4 DEF Happens
<1> QED
    BY <1>6 DEF Outcome, out

LEMMA OpenedMoves ==
    ASSUME NEW s \in Speaker, NEW x, NEW r, NEW q, NEW c \in Conn, NEW w, NEW o, NEW wo,
           NEW w1, NEW told, NEW e, e = EndOf(x, c), NEW e1, e1 = EndOf(q.x, c),
           w = wire[s][c], wo = wire[Other(s)][c], o = EndOf(peer[Other(s)], c),
           Happens(x, r, c, w, o, wo, w1, told), Opened(s, r, q, c)
    PROVE  Outcome(s, c, e, w, o, wo, e1, w1, q.out[c])
<1>1. /\ e.tcp = x.tcp[c] /\ e1.tcp = "SynSent" /\ e1.stream = NewStream
      /\ o.tcp = peer[Other(s)].tcp[c] /\ q.out[c] = <<Packet("SYN")>>
    BY EndFields DEF Opened
<1>2. /\ c[1] = s /\ r.x.tcp[c] = "none" /\ r.out[c] = <<>> /\ o.tcp = "none"
      /\ w = <<>> /\ wo = <<>>
    BY <1>1 DEF Opened, Fresh, Speaker, Other
<1>3. Untouched(x, r, c, w, w1, told)
    <2>1. ~Arrives(x, r, c, w, w1, told)
        BY <1>2 DEF Arrives
    <2>2. ~Lost(x, r, c, w, wo, w1)
        BY <1>2 DEF Lost
    <2>3. ~Again(x, r, c, w, o, wo, w1)
        BY <1>2 DEF Again
    <2> QED
        BY <2>1, <2>2, <2>3 DEF Happens
<1>4. e.tcp = "none" /\ w1 = w
    BY <1>1, <1>2, <1>3 DEF Untouched
<1> QED
    BY <1>1, <1>2, <1>4 DEF Outcome

LEMMA StaysMoves ==
    ASSUME NEW s \in Speaker, NEW x, NEW r, Ready(s, r), NEW q, NEW c \in Conn,
           NEW w, NEW o, NEW wo, NEW w1, NEW told,
           NEW e, e = EndOf(x, c), End(e), NEW e1, e1 = EndOf(q.x, c), End(e1),
           Happens(x, r, c, w, o, wo, w1, told), Stays(r, q, c, told)
    PROVE  Outcome(s, c, e, w, o, wo, e1, w1, q.out[c])
<1> DEFINE out == q.out[c]
           first == r.out[c]
           st == Begun(r.x.stream[c])
<1>1. /\ e.tcp = x.tcp[c] /\ e.stream = x.stream[c] /\ e.got = Got(x, c)
      /\ e1.tcp = q.x.tcp[c] /\ e1.stream = q.x.stream[c] /\ e1.got = Got(q.x, c)
    BY EndFields
<1>2. /\ e1.tcp = r.x.tcp[c] /\ e1.tcp \notin Gone
      /\ \/ out = first
         \/ /\ e1.tcp \in {"Established", "CloseWait"}
            /\ \E m \in Mail : out = Append(first, m)
      /\ Alive(e1.stream) =>
            /\ e1.tcp # "CloseWait" /\ Alive(st)
            /\ e1.got = Heard(Got(r.x, c), told)
            /\ \E more \in Seq(Mail) :
                  /\ out \o e1.stream.output = (first \o st.output) \o more
                  /\ Follows(st.advertised, more, e1.stream.advertised)
    BY <1>1 DEF Stays
<1>3. first \in Seq(Pkt)
    BY DEF Ready
<1> HIDE DEF out, first, st
<1>4. ASSUME e.tcp \notin Gone, r.x.stream[c] = x.stream[c]
      PROVE  Goes(e, e1, first, out)
    <2>1. st = e.stream
        BY <1>1, <1>4 DEF st, Begun, End
    <2> QED
        BY <1>2, <1>4, <2>1 DEF Goes
<1>5. CASE Untouched(x, r, c, w, w1, told)
    <2>1. /\ e1.tcp = e.tcp /\ first = <<>> /\ w1 = w /\ r.x.stream[c] = x.stream[c]
          /\ Got(r.x, c) = e.got /\ told.kind # "update"
        BY <1>1, <1>2, <1>5 DEF Untouched, first
    <2>2. Goes(e, e1, first, out)
        BY <1>2, <1>4, <2>1
    <2>3. Alive(e1.stream) => e1.got = e.got
        BY <1>2, <2>1, HeardNothing
    <2>4. Runs(e, w, e1, w1, first)
        BY <2>1, <2>3 DEF Runs
    <2> QED
        BY <1>3, <2>2, <2>4 DEF Outcome, out
<1>6. CASE Again(x, r, c, w, o, wo, w1)
    <2>1. e1.tcp = e.tcp /\ r.x.stream[c] = x.stream[c]
        BY <1>1, <1>2, <1>6 DEF Again
    <2>2. Goes(e, e1, first, out)
        BY <1>2, <1>4, <2>1
    <2>3. Repeats(e, w, o, wo, e1, w1, first)
        BY <1>1, <1>6, <2>1 DEF Again, Repeats, first
    <2> QED
        BY <1>3, <2>2, <2>3 DEF Outcome, out
<1>7. CASE Lost(x, r, c, w, wo, w1)
    BY <1>2, <1>7 DEF Lost, Gone
<1>8. CASE Arrives(x, r, c, w, w1, told)
    <2> DEFINE kind == Head(w).kind
    <2>1. /\ w # <<>> /\ w1 = Tail(w) /\ r.x.stream[c] = x.stream[c] /\ Got(r.x, c) = e.got
          /\ Answer(e.tcp, kind, e1.tcp, first)
          /\ told = IF kind \in Control \/ e.tcp # "Established" THEN Nothing ELSE Head(w)
        BY <1>1, <1>2, <1>8 DEF Arrives, first
    <2>2. CASE e.tcp \in Gone
        <3>1. kind = "SYN" /\ e1.tcp = "SynReceived" /\ first = <<Packet("SYNACK")>>
            BY <1>2, <2>1, <2>2 DEF Answer, Gone
        <3>2. out = first
            BY <1>2, <3>1
        <3> QED
            BY <2>1, <3>1, <3>2 DEF Outcome, out
    <2>3. CASE e.tcp \notin Gone
        <3>1. Goes(e, e1, first, out)
            BY <1>4, <2>1, <2>3
        <3>2. ASSUME Alive(e1.stream)
              PROVE  e1.got = Heard(e.got, IF e.tcp = "Established" THEN Head(w) ELSE Nothing)
            <4>1. e1.got = Heard(e.got, told)
                BY <1>2, <2>1, <3>2
            <4>2. CASE e.tcp = "Established" /\ kind \in Control
                <5>1. Head(w).kind # "update"
                    BY <4>2 DEF Control
                <5>2. Heard(e.got, Head(w)) = e.got /\ Heard(e.got, Nothing) = e.got
                    BY <5>1, HeardNothing
                <5> QED
                    BY <2>1, <4>1, <4>2, <5>2
            <4>3. CASE ~(e.tcp = "Established" /\ kind \in Control)
                BY <2>1, <4>1, <4>3
            <4> QED
                BY <4>2, <4>3
        <3>3. \/ e.tcp = "SynSent" /\ e1.tcp = "Established" /\ first = <<Packet("ACK")>>
              \/ /\ e.tcp = "SynReceived" /\ kind = "ACK" /\ e1.tcp = "Established"
                 /\ first = <<>>
              \/ /\ e1.tcp = e.tcp /\ ~(e.tcp = "SynReceived" /\ kind = "ACK")
                 /\ first = <<>>
              \/ e.tcp = "Established" /\ e1.tcp = "CloseWait" /\ first = <<>>
            BY <1>2, <2>1, <2>3 DEF Answer, Gone
        <3>4. Hears(e, w, e1, w1, first)
            BY <2>1, <3>2, <3>3 DEF Hears
        <3> QED
            BY <1>3, <3>1, <3>4 DEF Outcome, out
    <2> QED
        BY <2>2, <2>3
<1> QED
    BY <1>5, <1>6, <1>7, <1>8 DEF Happens

\* What a tick leaves of a connection is an end.
LEMMA TickedEnd ==
    ASSUME NEW s \in Speaker, NEW r, Ready(s, r), NEW q, PeerOK(q.x), q.x.received \in Routes,
           NEW c \in Conn, NEW told, Ticked(s, r, q, c, told)
    PROVE  End(EndOf(q.x, c)) /\ q.out[c] \in Seq(Pkt)
<1>1. /\ q.x.stream[c] = NoStream \/ Fine(q.x.stream[c])
      /\ q.x.tcp[c] \in Gone <=> q.x.stream[c] = NoStream
    <2>1. \A st : Fine(st) => st # NoStream
        BY StreamIsSome DEF Fine
    <2>2. CASE Idle(r, q, c)
        BY <2>2 DEF Idle
    <2>3. CASE Opened(s, r, q, c)
        BY <2>3, NewStreamFine, NewStreamOK DEF Opened, Gone
    <2>4. CASE Left(r, q, c)
        BY <2>4 DEF Left, Gone
    <2>5. CASE Stays(r, q, c, told)
        BY <2>1, <2>5 DEF Stays
    <2> QED
        BY <2>2, <2>3, <2>4, <2>5 DEF Ticked
<1>2. q.out[c] \in Seq(Pkt)
    <2>1. r.out[c] \in Seq(Pkt)
        BY DEF Ready
    <2>2. {"SYN", "RST", "FIN"} \subseteq Control
        BY DEF Control
    <2>3. \A kind \in Control : Packet(kind) \in Pkt
        BY MailIsPkt
    <2>4. ASSUME NEW m \in Pkt PROVE Append(r.out[c], m) \in Seq(Pkt) /\ <<m>> \in Seq(Pkt)
        BY <2>1
    <2>5. CASE Idle(r, q, c)
        BY <2>1, <2>5 DEF Idle
    <2>6. CASE Opened(s, r, q, c)
        BY <2>2, <2>3, <2>4, <2>6 DEF Opened
    <2>7. CASE Left(r, q, c)
        BY <2>2, <2>3, <2>4, <2>7 DEF Left
    <2>8. CASE Stays(r, q, c, told)
        BY <2>1, <2>4, <2>8, MailIsPkt DEF Stays
    <2> QED
        BY <2>5, <2>6, <2>7, <2>8 DEF Ticked
<1>3. End(EndOf(q.x, c))
    BY <1>1, EndOK
<1> QED
    BY <1>2, <1>3

LEMMA TickedMoves ==
    ASSUME NEW s \in Speaker, NEW x, NEW r, Ready(s, r), NEW q, NEW c \in Conn,
           NEW w, NEW o, NEW wo, NEW w1, NEW told,
           NEW e, e = EndOf(x, c), End(e), NEW e1, e1 = EndOf(q.x, c), End(e1),
           w = wire[s][c], wo = wire[Other(s)][c], o = EndOf(peer[Other(s)], c),
           Happens(x, r, c, w, o, wo, w1, told), Ticked(s, r, q, c, told)
    PROVE  /\ Outcome(s, c, e, w, o, wo, e1, w1, q.out[c])
           /\ Lost(x, r, c, w, wo, w1) => Vanishes(e, w, o, wo, e1, w1, q.out[c])
<1>1. CASE Idle(r, q, c)
    BY <1>1, IdleMoves, LostVanishes
<1>2. CASE Opened(s, r, q, c)
    <2>1. wo = <<>> /\ r.out[c] = <<>>
        BY <1>2 DEF Opened, Fresh, Speaker, Other
    <2>2. ~Lost(x, r, c, w, wo, w1)
        BY <2>1 DEF Lost
    <2> QED
        BY <1>2, <2>2, OpenedMoves
<1>3. CASE Left(r, q, c)
    <2>1. ~Lost(x, r, c, w, wo, w1)
        BY <1>3 DEF Left, Lost, Gone
    <2> QED
        BY <1>3, <2>1, LeftMoves
<1>4. CASE Stays(r, q, c, told)
    <2>1. ~Lost(x, r, c, w, wo, w1)
        BY <1>4 DEF Stays, Lost, Gone
    <2> QED
        BY <1>4, <2>1, StaysMoves
<1> QED
    BY <1>1, <1>2, <1>3, <1>4 DEF Ticked

-----------------------------------------------------------------------------
(* The invariant of the two speakers together *)

\* The two ends of a connection, the one that opens it first, and what is
\* under way to each of them.
LinkAt(c) ==
    Link(EndOf(peer[c[1]], c), wire[c[1]][c], EndOf(peer[Other(c[1])], c), wire[Other(c[1])][c])

\* The inductive invariant of the routes: every connection, with what is under
\* way on it, is one that its two ends agree about.
RouteInv ==
    /\ BgpInv
    /\ network \in [Speaker -> Routes] /\ wire \in [Speaker -> [Conn -> Seq(Pkt)]]
    /\ \A s \in Speaker : peer[s].received \in Routes
    /\ \A c \in Conn : LinkAt(c)

LEMMA Others ==
    ASSUME NEW s \in Speaker
    PROVE  /\ Other(s) \in Speaker /\ Other(s) # s /\ Other(Other(s)) = s
           /\ \A t \in Speaker : t = s \/ t = Other(s)
           /\ \A c \in Conn : c[1] = s \/ c[1] = Other(s)
BY DEF Speaker, Other, Conn

LEMMA RouteEnd ==
    ASSUME RouteInv, NEW s \in Speaker, NEW c \in Conn
    PROVE  /\ End(EndOf(peer[s], c))
           /\ peer[s].stream[c] = NoStream \/ Fine(peer[s].stream[c])
           /\ peer[s].tcp[c] \in Gone <=> peer[s].stream[c] = NoStream
<1>1. LinkAt(c)
    BY DEF RouteInv
<1>2. CASE c[1] = s
    <2>1. End(EndOf(peer[s], c))
        BY <1>1, <1>2 DEF LinkAt, Link
    <2> QED
        BY <2>1, EndFields DEF End
<1>3. CASE c[1] = Other(s)
    <2>1. End(EndOf(peer[s], c))
        BY <1>1, <1>3, Others DEF LinkAt, Link
    <2> QED
        BY <2>1, EndFields DEF End
<1> QED
    BY <1>2, <1>3, Others

\* What an event does to all connections; the packets under way on those lost
\* are lost too.
Touched(s, r, c, message, rest, lost) ==
    /\ \A k \in Conn :
          Happens(peer[s], r, k, wire[s][k], EndOf(peer[Other(s)], k), wire[Other(s)][k],
                  rest[k], IF k = c THEN message ELSE Nothing)
    /\ \A k \in Conn : k \in lost =>
          Lost(peer[s], r, k, wire[s][k], wire[Other(s)][k], rest[k])

\* An event at a speaker, and its tick, on all connections.
LEMMA EventKeeps ==
    ASSUME RouteInv, NEW s \in Speaker, NEW r, Ready(s, r), NEW c, NEW message,
           message.kind = "update" => /\ c \in Conn /\ message \in Mail
                                      /\ r.x.tcp[c] = "Established",
           NEW due, Lasts(r.x, due), NEW rest \in [Conn -> Seq(Pkt)], NEW lost,
           Touched(s, r, c, message, rest, lost),
           Become(s, Tick(s, r, c, message, due), rest, lost), UNCHANGED network
    PROVE  RouteInv'
<1> DEFINE q == Tick(s, r, c, message, due)
           t == Other(s)
<1>1. /\ PeerOK(q.x) /\ q.x.received \in Routes
      /\ \A k \in Conn : Ticked(s, r, q, k, IF k = c THEN message ELSE Nothing)
    <2>1. network[s] \in Routes
        BY DEF RouteInv
    <2> QED
        BY <2>1, TickAt
<1>2. t \in Speaker /\ t # s /\ Other(t) = s
    BY Others
<1>3. /\ peer' = [peer EXCEPT ![s] = q.x]
      /\ wire' = [wire EXCEPT ![s] = rest,
                              ![t] = [k \in Conn |-> IF k \in lost THEN q.out[k]
                                                     ELSE @[k] \o q.out[k]]]
    BY DEF Become
<1>4. BgpInv'
    BY <1>1, BecomeOK DEF RouteInv
<1> HIDE DEF q, t
<1>5. peer'[s] = q.x /\ peer'[t] = peer[t]
    BY <1>2, <1>3 DEF RouteInv, BgpInv
<1> DEFINE sent == [k \in Conn |-> IF k \in lost THEN q.out[k] ELSE wire[t][k] \o q.out[k]]
<1>6. wire' = [[wire EXCEPT ![s] = rest] EXCEPT ![t] = sent]
    BY <1>2, <1>3 DEF RouteInv
<1>7. \A k \in Conn : End(EndOf(q.x, k)) /\ q.out[k] \in Seq(Pkt)
    BY <1>1, TickedEnd
<1>8. sent \in [Conn -> Seq(Pkt)]
    <2>1. ASSUME NEW k \in Conn PROVE wire[t][k] \o q.out[k] \in Seq(Pkt)
        <3>1. wire[t][k] \in Seq(Pkt)
            BY <1>2 DEF RouteInv
        <3> QED
            BY <1>7, <3>1, ConcatAt
    <2> QED
        BY <1>7, <2>1
<1>9. \A k \in Conn : sent[k] = IF k \in lost THEN q.out[k] ELSE wire[t][k] \o q.out[k]
    OBVIOUS
<1> HIDE DEF sent
<1>10. wire' \in [Speaker -> [Conn -> Seq(Pkt)]] /\ wire'[s] = rest /\ wire'[t] = sent
    BY <1>2, <1>6, <1>8 DEF RouteInv
<1>11. \A i \in Speaker : peer'[i].received \in Routes
    <2>1. \A i \in Speaker : i = s \/ i = t
        BY Others DEF t
    <2> QED
        BY <1>1, <1>2, <1>5, <2>1 DEF RouteInv
<1>12. ASSUME NEW k \in Conn PROVE LinkAt(k)'
    <2> DEFINE told == IF k = c THEN message ELSE Nothing
               e == EndOf(peer[s], k)
               w == wire[s][k]
               o == EndOf(peer[t], k)
               wo == wire[t][k]
               e1 == EndOf(q.x, k)
               w1 == rest[k]
               out == q.out[k]
    <2>1. Happens(peer[s], r, k, w, o, wo, w1, told) /\ Ticked(s, r, q, k, told)
        BY <1>1 DEF t, Touched
    <2>2. End(e) /\ End(e1) /\ out \in Seq(Pkt)
        BY <1>7, RouteEnd
    <2>3. /\ Outcome(s, k, e, w, o, wo, e1, w1, out)
          /\ Lost(peer[s], r, k, w, wo, w1) => Vanishes(e, w, o, wo, e1, w1, out)
        <3> HIDE DEF e, e1, o, w, wo, w1, told
        <3>1. /\ e = EndOf(peer[s], k) /\ e1 = EndOf(q.x, k) /\ o = EndOf(peer[Other(s)], k)
              /\ w = wire[s][k] /\ wo = wire[Other(s)][k]
            BY DEF e, e1, o, w, wo, t
        <3> QED
            BY <2>1, <2>2, <3>1, TickedMoves
    <2>4. sent[k] = wo \o out \/ (sent[k] = out /\ Vanishes(e, w, o, wo, e1, w1, out))
        <3>1. k \in lost => Lost(peer[s], r, k, w, wo, w1)
            BY DEF t, Touched
        <3> QED
            BY <1>9, <2>3, <3>1
    <2>6. LinkAt(k)
        BY DEF RouteInv
    <2>7. CASE k[1] = s
        <3>1. Link(e, w, o, wo)
            BY <2>6, <2>7 DEF LinkAt, t
        <3>2. LinkAt(k)' = Link(EndOf(peer'[s], k), wire'[s][k], EndOf(peer'[t], k), wire'[t][k])
            BY <2>7 DEF LinkAt, t, EndOf, Got
        <3>3. Link(e1, w1, o, sent[k])
            <4> HIDE DEF e, e1, o, w, wo, w1, told, out
            <4> QED
                BY <2>2, <2>3, <2>4, <3>1, OpenerMoves
        <3> QED
            BY <1>5, <1>10, <3>2, <3>3
    <2>8. CASE k[1] = t
        <3>1. Link(o, wo, e, w)
            BY <1>2, <2>6, <2>8 DEF LinkAt
        <3>2. LinkAt(k)' = Link(EndOf(peer'[t], k), wire'[t][k], EndOf(peer'[s], k), wire'[s][k])
            BY <1>2, <2>8 DEF LinkAt, EndOf, Got
        <3>4. k[1] # s
            BY <1>2, <2>8
        <3>3. Link(o, sent[k], e1, w1)
            <4> HIDE DEF e, e1, o, w, wo, w1, told, out
            <4> QED
                BY <2>2, <2>3, <2>4, <3>1, <3>4, AcceptorMoves
        <3> QED
            BY <1>5, <1>10, <3>2, <3>3
    <2> QED
        BY <2>7, <2>8, Others DEF t
<1> QED
    BY <1>4, <1>10, <1>11, <1>12 DEF RouteInv

-----------------------------------------------------------------------------
(* The events, on all connections *)

\* Peers that differ in tcp or waiting only.
Alike(x, y) ==
    x.stream = y.stream /\ x.selected = y.selected /\ x.received = y.received

LEMMA AlikeGot ==
    ASSUME NEW x, NEW y, Alike(x, y)
    PROVE  \A c : x.stream[c] = y.stream[c] /\ Got(x, c) = Got(y, c)
BY DEF Alike, Got

LEMMA SilentAt ==
    /\ Silent \in [Conn -> Seq(Pkt)]
    /\ \A c \in Conn : Silent[c] = <<>>
BY DEF Silent

LEMMA NowAt ==
    ASSUME RouteInv, NEW s \in Speaker
    PROVE  /\ IsResult(Now(s)) /\ PeerOK(Now(s).x) /\ Now(s).x = peer[s] /\ Now(s).out = Silent
           /\ Alike(Now(s).x, peer[s])
<1>1. Now(s).out = Silent
    BY DEF Now, Result
<1> QED
    BY <1>1, NowOK DEF RouteInv, Alike

LEMMA SetTcpAt ==
    ASSUME NEW r, IsResult(r), NEW c \in Conn, NEW state
    PROVE  LET q == SetTcp(r, c, state) IN
           /\ Alike(q.x, r.x) /\ q.out = r.out
           /\ q.x.tcp[c] = state /\ \A k \in Conn : k # c => q.x.tcp[k] = r.x.tcp[k]
<1> DEFINE q == SetTcp(r, c, state)
           tcp == [r.x.tcp EXCEPT ![c] = state]
<1>1. q = Parts(tcp, r.x.stream, r.x.selected, r.x.received, r.x.waiting, r.out)
    BY SetTcpIs
<1>2. tcp[c] = state /\ \A k \in Conn : k # c => tcp[k] = r.x.tcp[k]
    BY DEF IsResult, IsPeer
<1> HIDE DEF q, tcp
<1>3. /\ q.x.tcp = tcp /\ q.x.stream = r.x.stream /\ q.x.selected = r.x.selected
      /\ q.x.received = r.x.received /\ q.out = r.out
    BY <1>1, PartsFields
<1> QED
    BY <1>2, <1>3 DEF q, Alike

LEMMA PostAt ==
    ASSUME NEW r, IsResult(r), r.out \in [Conn -> Seq(Pkt)], NEW c \in Conn,
           NEW kind \in Control, r.out[c] = <<>>
    PROVE  LET q == Post(r, c, Packet(kind)) IN
           /\ q.x = r.x /\ q.out \in [Conn -> Seq(Pkt)] /\ q.out[c] = <<Packet(kind)>>
           /\ \A k \in Conn : k # c => q.out[k] = r.out[k]
<1> DEFINE q == Post(r, c, Packet(kind))
           m == Packet(kind)
           out == [r.out EXCEPT ![c] = Append(@, m)]
<1>1. q = Parts(r.x.tcp, r.x.stream, r.x.selected, r.x.received, r.x.waiting, out)
    BY PostParts
<1>2. q.x = r.x
    BY PostOK
<1>3. m \in Pkt
    BY MailIsPkt
<1> HIDE DEF m
<1>4. /\ out \in [Conn -> Seq(Pkt)] /\ out[c] = <<m>>
      /\ \A k \in Conn : k # c => out[k] = r.out[k]
    BY <1>3
<1> HIDE DEF q, out
<1>5. q.out = out
    BY <1>1, PartsFields
<1> QED
    BY <1>2, <1>4, <1>5 DEF q, m

\* What a tick can start from: a speaker whose connections have changed their
\* state, of which one at most is new.
LEMMA ReadyFrom ==
    ASSUME RouteInv, NEW s \in Speaker, NEW r, IsResult(r), Entered(r.x), Alike(r.x, peer[s]),
           r.out \in [Conn -> Seq(Pkt)], NEW c,
           \A k \in Conn : k # c => r.x.tcp[k] = peer[s].tcp[k] \/ r.x.tcp[k] = "none",
           c \in Conn /\ peer[s].tcp[c] \in Gone /\ r.x.tcp[c] \notin Gone =>
               c \in {Other(s)} \X Number /\ r.x.tcp[c] = "SynReceived"
    PROVE  Ready(s, r)
<1>1. r.x.received \in Routes /\ \A k \in Conn : Up(r.x.stream[k]) => r.x.selected = k
    BY DEF RouteInv, BgpInv, PeerOK, Alike
<1>2. \A k \in Conn : r.x.stream[k] = NoStream \/ Fine(r.x.stream[k])
    BY RouteEnd DEF Alike
<1>3. \A k \in Conn : k # c => r.x.tcp[k] \in Gone \/ r.x.stream[k] # NoStream
    BY RouteEnd DEF Alike, Gone
<1>4. ASSUME NEW k \in Conn, r.x.stream[k] = NoStream, r.x.tcp[k] \notin Gone
      PROVE  /\ k \in {Other(s)} \X Number /\ r.x.tcp[k] = "SynReceived"
             /\ \A d \in Conn : d # k => r.x.stream[d] # NoStream \/ r.x.tcp[d] \in Gone
    <2>1. k = c
        BY <1>3, <1>4
    <2>2. peer[s].tcp[c] \in Gone
        BY <1>4, <2>1, RouteEnd DEF Alike
    <2> QED
        BY <1>3, <1>4, <2>1, <2>2
<1> QED
    BY <1>1, <1>2, <1>4 DEF Ready

LEMMA NowReady ==
    ASSUME RouteInv, NEW s \in Speaker
    PROVE  Ready(s, Now(s))
<1>1. /\ IsResult(Now(s)) /\ Entered(Now(s).x) /\ Now(s).x = peer[s]
      /\ Now(s).out = Silent /\ Alike(Now(s).x, peer[s])
    BY NowAt DEF PeerOK
<1>2. NoConn \notin Conn
    BY DEF NoConn, Conn, Speaker
<1> QED
    BY <1>1, <1>2, SilentAt, ReadyFrom

\* A connection that is left alone.
LEMMA Calm ==
    ASSUME NEW x, NEW r, Alike(r.x, x), NEW c, r.x.tcp[c] = x.tcp[c], r.out[c] = <<>>,
           NEW told, told.kind # "update", NEW w, NEW o, NEW wo
    PROVE  Happens(x, r, c, w, o, wo, w, told)
BY AlikeGot DEF Happens, Untouched

LEMMA WireAt ==
    ASSUME RouteInv, NEW s \in Speaker
    PROVE  wire[s] \in [Conn -> Seq(Pkt)]
BY DEF RouteInv

\* A tick that finds the connections as they were, or with a message on one
\* that is not an update.
LEMMA CalmKeeps ==
    ASSUME RouteInv, NEW s \in Speaker, NEW r, Ready(s, r), Alike(r.x, peer[s]),
           r.x.tcp = peer[s].tcp, r.out = Silent, NEW c, NEW message, message.kind # "update",
           NEW due, Lasts(r.x, due),
           Become(s, Tick(s, r, c, message, due), wire[s], {}), UNCHANGED network
    PROVE  RouteInv'
<1>1. \A k \in Conn : r.out[k] = <<>>
    BY SilentAt
<1>2. ASSUME NEW k \in Conn
      PROVE  Happens(peer[s], r, k, wire[s][k], EndOf(peer[Other(s)], k), wire[Other(s)][k],
                     wire[s][k], IF k = c THEN message ELSE Nothing)
    <2> DEFINE told == IF k = c THEN message ELSE Nothing
    <2>1. told.kind # "update"
        BY NotUpdate
    <2> HIDE DEF told
    <2>2. Happens(peer[s], r, k, wire[s][k], EndOf(peer[Other(s)], k), wire[Other(s)][k],
                  wire[s][k], told)
        BY <1>1, <2>1, Calm
    <2> QED
        BY <2>2 DEF told
<1>3. wire[s] \in [Conn -> Seq(Pkt)]
    BY WireAt
<1> DEFINE rest == wire[s]
           none == {}
<1>4. \A k \in Conn : k \in none =>
         Lost(peer[s], r, k, wire[s][k], wire[Other(s)][k], rest[k])
    OBVIOUS
<1>5. Become(s, Tick(s, r, c, message, due), rest, none) /\ rest \in [Conn -> Seq(Pkt)]
    BY <1>3
<1>6. \A k \in Conn :
         Happens(peer[s], r, k, wire[s][k], EndOf(peer[Other(s)], k), wire[Other(s)][k],
                 rest[k], IF k = c THEN message ELSE Nothing)
    BY <1>2
<1>7. message.kind = "update" => /\ c \in Conn /\ message \in Mail
                                 /\ r.x.tcp[c] = "Established"
    OBVIOUS
<1>8. Touched(s, r, c, message, rest, none)
    BY <1>4, <1>6 DEF Touched
<1> HIDE DEF rest, none
<1> QED
    BY <1>5, <1>7, <1>8, EventKeeps

LEMMA NoDue ==
    ASSUME NEW x
    PROVE  Lasts(x, {})
BY DEF Lasts

LEMMA PumpRoutes ==
    ASSUME RouteInv, NEW s \in Speaker, Pump(s)
    PROVE  RouteInv'
<1>1. Become(s, Tick(s, Now(s), NoConn, Nothing, {}), wire[s], {}) /\ UNCHANGED network
    BY DEF Pump, Pumped
<1>2. Now(s).x.tcp = peer[s].tcp /\ Now(s).out = Silent /\ Alike(Now(s).x, peer[s])
    BY NowAt
<1> QED
    BY <1>1, <1>2, NowReady, NoDue, NotUpdate, CalmKeeps

LEMMA RetryRoutes ==
    ASSUME RouteInv, NEW s \in Speaker, Retry(s)
    PROVE  RouteInv'
<1> DEFINE r == [Now(s) EXCEPT !.x.waiting = FALSE]
<1>1. Become(s, Tick(s, r, NoConn, Nothing, {}), wire[s], {}) /\ UNCHANGED network
    BY DEF Retry
<1>2. PICK wait : r = [Now(s) EXCEPT !.x.waiting = wait]
    OBVIOUS
<1> HIDE DEF r
<1>3. /\ r = [x |-> r.x, out |-> r.out] /\ r.out = Silent
      /\ r.x = [tcp |-> peer[s].tcp, stream |-> peer[s].stream, selected |-> peer[s].selected,
                received |-> peer[s].received, waiting |-> wait]
    <2>1. PICK tcp, stream, selected, received, waiting, out :
             Now(s) = Parts(tcp, stream, selected, received, waiting, out)
        BY NowAt, PartsOf
    <2>2. Now(s).x = peer[s] /\ Now(s).out = Silent
        BY NowAt
    <2>3. r = Parts(tcp, stream, selected, received, wait, out)
        BY <1>2, <2>1 DEF Parts
    <2> QED
        BY <2>1, <2>2, <2>3 DEF Parts
<1>4. r.x.tcp = peer[s].tcp /\ Alike(r.x, peer[s])
    BY <1>3 DEF Alike
<1>5. IsPeer(r.x) /\ Entered(r.x)
    BY <1>3 DEF RouteInv, BgpInv, PeerOK, Entered, IsPeer
<1>6. IsResult(r)
    BY <1>3, <1>5 DEF IsResult
<1>7. Ready(s, r)
    <2>1. NoConn \notin Conn
        BY DEF NoConn, Conn, Speaker
    <2> QED
        BY <1>3, <1>4, <1>5, <1>6, <2>1, SilentAt, ReadyFrom
<1> QED
    BY <1>1, <1>3, <1>4, <1>7, NoDue, NotUpdate, CalmKeeps

LEMMA CloseDueRoutes ==
    ASSUME RouteInv, NEW s \in Speaker, NEW c \in Conn, CloseDue(s, c)
    PROVE  RouteInv'
<1>1. Become(s, Tick(s, Now(s), NoConn, Nothing, {c}), wire[s], {}) /\ UNCHANGED network
    BY DEF CloseDue
<1>2. Now(s).x.tcp = peer[s].tcp /\ Now(s).out = Silent /\ Alike(Now(s).x, peer[s])
    BY NowAt
<1>3. Lasts(Now(s).x, {c})
    BY NowAt DEF CloseDue, Lingering, Lasts, PeerOK, Clean
<1> QED
    BY <1>1, <1>2, <1>3, NowReady, NotUpdate, CalmKeeps

LEMMA TimeoutRoutes ==
    ASSUME RouteInv, NEW s \in Speaker, NEW c \in Conn, NEW kind \in {"expired", "idle"},
           Timeout(s, c, kind)
    PROVE  RouteInv'
<1>1. Become(s, Tick(s, Now(s), c, Packet(kind), {}), wire[s], {}) /\ UNCHANGED network
    BY DEF Timeout
<1>2. Now(s).x.tcp = peer[s].tcp /\ Now(s).out = Silent /\ Alike(Now(s).x, peer[s])
    BY NowAt
<1>3. Packet(kind).kind # "update"
    BY NotUpdate
<1> QED
    BY <1>1, <1>2, <1>3, NowReady, NoDue, CalmKeeps

\* The message of a tick is for the connection c, if there is one.
Meant(c, d, message) == d = c \/ message = Nothing

\* An event that concerns one connection.
LEMMA OneKeeps ==
    ASSUME RouteInv, NEW s \in Speaker, NEW r, Ready(s, r), Alike(r.x, peer[s]), NEW c \in Conn,
           \A k \in Conn : k # c => r.x.tcp[k] = peer[s].tcp[k] /\ r.out[k] = <<>>,
           NEW message, message.kind = "update" => /\ message \in Mail
                                                   /\ r.x.tcp[c] = "Established",
           NEW rest \in [Conn -> Seq(Pkt)], \A k \in Conn : k # c => rest[k] = wire[s][k],
           Happens(peer[s], r, c, wire[s][c], EndOf(peer[Other(s)], c), wire[Other(s)][c],
                   rest[c], message),
           NEW d, Meant(c, d, message), NEW lost \in SUBSET {c},
           c \in lost => Lost(peer[s], r, c, wire[s][c], wire[Other(s)][c], rest[c]),
           Become(s, Tick(s, r, d, message, {}), rest, lost), UNCHANGED network
    PROVE  RouteInv'
<1>1. ASSUME NEW k \in Conn
      PROVE  Happens(peer[s], r, k, wire[s][k], EndOf(peer[Other(s)], k), wire[Other(s)][k],
                     rest[k], IF k = d THEN message ELSE Nothing)
    <2> DEFINE told == IF k = d THEN message ELSE Nothing
    <2>3. told = IF k = c THEN message ELSE Nothing
        BY DEF Meant
    <2> HIDE DEF told
    <2>1. CASE k = c
        BY <2>1, <2>3 DEF told
    <2>2. CASE k # c
        <3>1. Happens(peer[s], r, k, wire[s][k], EndOf(peer[Other(s)], k), wire[Other(s)][k],
                      wire[s][k], Nothing)
            BY <2>2, NotUpdate, Calm
        <3> QED
            BY <2>2, <2>3, <3>1 DEF told
    <2> QED
        BY <2>1, <2>2
<1>2. \A k \in Conn : k \in lost =>
         Lost(peer[s], r, k, wire[s][k], wire[Other(s)][k], rest[k])
    OBVIOUS
<1>3. message.kind = "update" => /\ d \in Conn /\ message \in Mail
                                 /\ r.x.tcp[d] = "Established"
    BY NotUpdate DEF Meant
<1> DEFINE due == {}
<1>4. Lasts(r.x, due) /\ Become(s, Tick(s, r, d, message, due), rest, lost)
    BY NoDue
<1> HIDE DEF due
<1>5. Touched(s, r, d, message, rest, lost)
    BY <1>1, <1>2 DEF Touched
<1> QED
    BY <1>3, <1>4, <1>5, EventKeeps

LEMMA RetransmitRoutes ==
    ASSUME RouteInv, NEW s \in Speaker, NEW c \in Conn, Retransmit(s, c)
    PROVE  RouteInv'
<1> DEFINE kind == IF peer[s].tcp[c] = "SynSent" THEN "SYN" ELSE "SYNACK"
           r == Post(Now(s), c, Packet(kind))
           rest == wire[s]
           none == {}
<1>1. Become(s, Tick(s, r, NoConn, Nothing, {}), rest, none) /\ UNCHANGED network
    BY DEF Retransmit
<1>2. /\ IsResult(Now(s)) /\ Entered(Now(s).x) /\ Now(s).x = peer[s] /\ Now(s).out = Silent
      /\ Alike(Now(s).x, peer[s])
    BY NowAt DEF PeerOK
<1>3. kind \in Control /\ peer[s].tcp[c] \in {"SynSent", "SynReceived"}
    BY DEF Control, Retransmit
<1>4. /\ r.x = peer[s] /\ r.out \in [Conn -> Seq(Pkt)] /\ r.out[c] = <<Packet(kind)>>
      /\ \A k \in Conn : k # c => r.out[k] = <<>>
    <2> HIDE DEF kind
    <2> QED
        BY <1>2, <1>3, SilentAt, PostAt
<1>5. IsResult(r)
    BY <1>2, PostOK
<1> HIDE DEF r
<1>6. Ready(s, r)
    <2>1. NoConn \notin Conn
        BY DEF NoConn, Conn, Speaker
    <2> QED
        BY <1>2, <1>4, <1>5, <2>1, ReadyFrom
<1>7. /\ wire[s][c] = <<>> /\ wire[Other(s)][c] = <<>> /\ peer[Other(s)].tcp[c] = "none"
    BY DEF Retransmit, HalfOpen, Speaker, Other
<1>8. Happens(peer[s], r, c, wire[s][c], EndOf(peer[Other(s)], c), wire[Other(s)][c],
              rest[c], Nothing)
    <2>1. EndOf(peer[Other(s)], c).tcp = "none"
        BY <1>7, EndFields
    <2>2. Again(peer[s], r, c, wire[s][c], EndOf(peer[Other(s)], c), wire[Other(s)][c], rest[c])
        BY <1>3, <1>4, <1>7, <2>1 DEF Again
    <2> QED
        BY <2>2 DEF Happens
<1>9. rest \in [Conn -> Seq(Pkt)] /\ (\A k \in Conn : k # c => rest[k] = wire[s][k])
    BY WireAt
<1>10. none \in SUBSET {c} /\ c \notin none /\ Alike(r.x, peer[s])
    BY <1>4 DEF Alike
<1> HIDE DEF rest, none
<1>11. Nothing.kind # "update" /\ Meant(c, NoConn, Nothing)
    BY NotUpdate DEF Meant
<1> QED
    BY <1>1, <1>4, <1>6, <1>8, <1>9, <1>10, <1>11, OneKeeps

LEMMA BreakRoutes ==
    ASSUME RouteInv, NEW s \in Speaker, NEW c \in Conn, Break(s, c)
    PROVE  RouteInv'
<1> DEFINE r == SetTcp(Now(s), c, "none")
           rest == wire[s]
<1>1. PICK lost \in SUBSET {c} : Become(s, Tick(s, r, NoConn, Nothing, {}), rest, lost)
    BY DEF Break
<1>2. UNCHANGED network /\ peer[s].tcp[c] # "none" /\ wire[Other(s)][c] # <<>>
    <2>1. PICK i \in DOMAIN wire[Other(s)][c] : TRUE
        BY DEF Break
    <2>2. DOMAIN <<>> = {}
        OBVIOUS
    <2> QED
        BY <2>1, <2>2 DEF Break
<1>3. /\ IsResult(Now(s)) /\ PeerOK(Now(s).x) /\ Now(s).x = peer[s] /\ Now(s).out = Silent
    BY NowAt
<1>4. /\ Alike(r.x, peer[s]) /\ r.out = Silent /\ r.x.tcp[c] = "none"
      /\ \A k \in Conn : k # c => r.x.tcp[k] = peer[s].tcp[k]
    <2>1. /\ Alike(r.x, Now(s).x) /\ r.out = Now(s).out /\ r.x.tcp[c] = "none"
          /\ \A k \in Conn : k # c => r.x.tcp[k] = Now(s).x.tcp[k]
        <3>1. IsResult(Now(s))
            BY <1>3
        <3> QED
            BY <3>1, SetTcpAt
    <2> HIDE DEF r
    <2> QED
        BY <1>3, <2>1
<1>5. IsResult(r) /\ Entered(r.x)
    BY <1>3, SetTcpOK DEF TcpState
<1> HIDE DEF r
<1>6. Ready(s, r)
    <2>1. r.x.tcp[c] \in Gone
        BY <1>4 DEF Gone
    <2> QED
        BY <1>4, <1>5, <2>1, SilentAt, ReadyFrom
<1>7. Lost(peer[s], r, c, wire[s][c], wire[Other(s)][c], rest[c])
    BY <1>2, <1>4, SilentAt DEF Lost
<1>8. Happens(peer[s], r, c, wire[s][c], EndOf(peer[Other(s)], c), wire[Other(s)][c],
              rest[c], Nothing)
    BY <1>7 DEF Happens
<1>9. rest \in [Conn -> Seq(Pkt)] /\ (\A k \in Conn : k # c => rest[k] = wire[s][k])
    BY WireAt
<1>10. \A k \in Conn : k # c => r.x.tcp[k] = peer[s].tcp[k] /\ r.out[k] = <<>>
    BY <1>4, SilentAt
<1> HIDE DEF rest
<1>11. Nothing.kind # "update" /\ Meant(c, NoConn, Nothing)
    BY NotUpdate DEF Meant
<1> QED
    BY <1>1, <1>2, <1>4, <1>6, <1>7, <1>8, <1>9, <1>10, <1>11, OneKeeps

\* A segment, and what receive_tcp makes of it.
Answered(x, c, packet, r) ==
    /\ Alike(r.x, x) /\ r.out \in [Conn -> Seq(Pkt)]
    /\ Answer(x.tcp[c], packet.kind, r.x.tcp[c], r.out[c])
    /\ \A k \in Conn : k # c => r.x.tcp[k] = x.tcp[k] /\ r.out[k] = <<>>

LEMMA SegmentAt ==
    ASSUME RouteInv, NEW s \in Speaker, NEW c \in Conn, NEW packet, NEW r,
           r = Segment(Now(s), c, packet)
    PROVE  Answered(peer[s], c, packet, r)
<1> DEFINE n == Now(s)
           state == peer[s].tcp[c]
           kind == packet.kind
<1>1. /\ IsResult(n) /\ PeerOK(n.x) /\ n.x = peer[s] /\ n.out = Silent /\ Alike(n.x, peer[s])
    BY NowAt
<1>14. r = Segment(n, c, packet)
    OBVIOUS
<1> HIDE DEF n
<1>2. ASSUME NEW new \in TcpState
      PROVE  LET p == SetTcp(n, c, new) IN
             /\ Alike(p.x, peer[s]) /\ p.out = Silent /\ p.x.tcp[c] = new
             /\ \A k \in Conn : k # c => p.x.tcp[k] = peer[s].tcp[k]
    <2> DEFINE p == SetTcp(n, c, new)
    <2>1. /\ Alike(p.x, n.x) /\ p.out = n.out /\ p.x.tcp[c] = new
          /\ \A k \in Conn : k # c => p.x.tcp[k] = n.x.tcp[k]
        <3>1. IsResult(n)
            BY <1>1
        <3> QED
            BY <3>1, SetTcpAt
    <2> HIDE DEF p
    <2>2. /\ Alike(p.x, peer[s]) /\ p.out = Silent /\ p.x.tcp[c] = new
          /\ \A k \in Conn : k # c => p.x.tcp[k] = peer[s].tcp[k]
        BY <1>1, <2>1
    <2> QED
        BY <2>2 DEF p
<1>3. ASSUME NEW p, IsResult(p), p.out = Silent, Alike(p.x, peer[s]), NEW m \in Control,
             \A k \in Conn : k # c => p.x.tcp[k] = peer[s].tcp[k]
      PROVE  LET q == Post(p, c, Packet(m)) IN
             /\ Alike(q.x, peer[s]) /\ q.out \in [Conn -> Seq(Pkt)]
             /\ q.x.tcp[c] = p.x.tcp[c] /\ q.out[c] = <<Packet(m)>>
             /\ \A k \in Conn : k # c => q.x.tcp[k] = peer[s].tcp[k] /\ q.out[k] = <<>>
    <2> DEFINE q == Post(p, c, Packet(m))
    <2>1. /\ q.x = p.x /\ q.out \in [Conn -> Seq(Pkt)] /\ q.out[c] = <<Packet(m)>>
          /\ \A k \in Conn : k # c => q.out[k] = p.out[k]
        BY <1>3, SilentAt, PostAt
    <2> HIDE DEF q
    <2>2. /\ Alike(q.x, peer[s]) /\ q.out \in [Conn -> Seq(Pkt)]
          /\ q.x.tcp[c] = p.x.tcp[c] /\ q.out[c] = <<Packet(m)>>
          /\ \A k \in Conn : k # c => q.x.tcp[k] = peer[s].tcp[k] /\ q.out[k] = <<>>
        BY <1>3, <2>1, SilentAt
    <2> QED
        BY <2>2 DEF q
<1>4. {"SYNACK", "ACK", "RST"} \subseteq Control /\ {"none", "SynReceived", "Established",
          "CloseWait"} \subseteq TcpState
    BY DEF Control, TcpState
<1>5. ASSUME NEW new \in {"none", "SynReceived", "Established"},
             new = "SynReceived" => peer[s].stream[c] = NoStream
      PROVE  IsResult(SetTcp(n, c, new))
    BY <1>1, <1>4, <1>5, SetTcpOK
<1>6. ASSUME NEW new \in {"none", "Established", "CloseWait"}, r = SetTcp(n, c, new),
             Answer(state, kind, new, <<>>)
      PROVE  Answered(peer[s], c, packet, r)
    <2>1. /\ Alike(r.x, peer[s]) /\ r.out = Silent /\ r.x.tcp[c] = new
          /\ \A k \in Conn : k # c => r.x.tcp[k] = peer[s].tcp[k]
        BY <1>2, <1>4, <1>6
    <2> QED
        BY <1>6, <2>1, SilentAt DEF Answered
<1>7. ASSUME NEW p, IsResult(p), p.out = Silent, Alike(p.x, peer[s]), NEW m \in Control,
             \A k \in Conn : k # c => p.x.tcp[k] = peer[s].tcp[k],
             r = Post(p, c, Packet(m)), Answer(state, kind, p.x.tcp[c], <<Packet(m)>>)
      PROVE  Answered(peer[s], c, packet, r)
    <2>1. /\ Alike(r.x, peer[s]) /\ r.out \in [Conn -> Seq(Pkt)]
          /\ r.x.tcp[c] = p.x.tcp[c] /\ r.out[c] = <<Packet(m)>>
          /\ \A k \in Conn : k # c => r.x.tcp[k] = peer[s].tcp[k] /\ r.out[k] = <<>>
        BY <1>3, <1>7
    <2> QED
        BY <1>7, <2>1 DEF Answered
<1>8. CASE kind = "RST"
    <2>1. r = SetTcp(n, c, "none") /\ Answer(state, kind, "none", <<>>)
        BY <1>8, <1>14 DEF Segment, Answer
    <2> QED
        BY <1>6, <2>1
<1>9. CASE kind # "RST" /\ state = "none" /\ kind = "SYN"
    <2> DEFINE p == SetTcp(n, c, "SynReceived")
    <2>1. r = Post(p, c, Packet("SYNACK"))
        BY <1>1, <1>9, <1>14 DEF Segment
    <2>2. Answer(state, kind, "SynReceived", <<Packet("SYNACK")>>)
        BY <1>9 DEF Answer
    <2>3. peer[s].stream[c] = NoStream
        BY <1>1, <1>9 DEF PeerOK, Clean
    <2>4. /\ IsResult(p) /\ p.out = Silent /\ Alike(p.x, peer[s]) /\ p.x.tcp[c] = "SynReceived"
          /\ \A k \in Conn : k # c => p.x.tcp[k] = peer[s].tcp[k]
        BY <1>2, <1>4, <1>5, <2>3
    <2>5. "SYNACK" \in Control
        BY <1>4
    <2> HIDE DEF p
    <2>6. Answer(state, kind, p.x.tcp[c], <<Packet("SYNACK")>>)
        BY <2>2, <2>4
    <2> QED
        BY <1>7, <2>1, <2>4, <2>5, <2>6
<1>10. CASE kind # "RST" /\ state = "none" /\ kind # "SYN"
    <2>1. r = Post(n, c, Packet("RST"))
        BY <1>1, <1>10, <1>14 DEF Segment
    <2>2. Answer(state, kind, n.x.tcp[c], <<Packet("RST")>>)
        BY <1>1, <1>10 DEF Answer
    <2>3. "RST" \in Control /\ \A k \in Conn : k # c => n.x.tcp[k] = peer[s].tcp[k]
        BY <1>1, <1>4
    <2> QED
        BY <1>1, <1>7, <2>1, <2>2, <2>3
<1>11. CASE kind # "RST" /\ state = "SynSent" /\ kind = "SYNACK"
    <2> DEFINE p == SetTcp(n, c, "Established")
    <2>1. r = Post(p, c, Packet("ACK"))
        BY <1>1, <1>11, <1>14 DEF Segment
    <2>2. Answer(state, kind, "Established", <<Packet("ACK")>>)
        BY <1>11 DEF Answer
    <2>4. /\ IsResult(p) /\ p.out = Silent /\ Alike(p.x, peer[s]) /\ p.x.tcp[c] = "Established"
          /\ \A k \in Conn : k # c => p.x.tcp[k] = peer[s].tcp[k]
        BY <1>2, <1>4, <1>5
    <2>5. "ACK" \in Control
        BY <1>4
    <2> HIDE DEF p
    <2>6. Answer(state, kind, p.x.tcp[c], <<Packet("ACK")>>)
        BY <2>2, <2>4
    <2> QED
        BY <1>7, <2>1, <2>4, <2>5, <2>6
<1>12. CASE \/ kind # "RST" /\ state = "SynReceived" /\ kind = "ACK"
            \/ kind # "RST" /\ state = "Established" /\ kind = "FIN"
            \/ kind # "RST" /\ state = "FinWait" /\ kind = "FIN"
    <2>1. \/ r = SetTcp(n, c, "Established") /\ Answer(state, kind, "Established", <<>>)
          \/ r = SetTcp(n, c, "CloseWait") /\ Answer(state, kind, "CloseWait", <<>>)
          \/ r = SetTcp(n, c, "none") /\ Answer(state, kind, "none", <<>>)
        BY <1>1, <1>12, <1>14 DEF Segment, Answer
    <2> QED
        BY <1>6, <2>1
<1>13. CASE /\ kind # "RST" /\ state # "none"
            /\ ~(state = "SynSent" /\ kind = "SYNACK")
            /\ ~(state = "SynReceived" /\ kind = "ACK")
            /\ ~(state = "Established" /\ kind = "FIN")
            /\ ~(state = "FinWait" /\ kind = "FIN")
    <2>1. r = n
        BY <1>1, <1>13, <1>14 DEF Segment
    <2>2. Answer(state, kind, state, <<>>)
        BY <1>13 DEF Answer
    <2> QED
        BY <1>1, <2>1, <2>2, SilentAt DEF Answered
<1> QED
    BY <1>8, <1>9, <1>10, <1>11, <1>12, <1>13

LEMMA DeliverRoutes ==
    ASSUME RouteInv, NEW s \in Speaker, NEW c \in Conn, Deliver(s, c)
    PROVE  RouteInv'
<1> DEFINE w == wire[s][c]
           packet == Head(w)
           message == IF packet.kind \in Control \/ peer[s].tcp[c] # "Established"
                      THEN Nothing ELSE packet
           r == Segment(Now(s), c, packet)
           rest == [wire[s] EXCEPT ![c] = Tail(@)]
           none == {}
<1>1. /\ Become(s, Tick(s, r, c, message, {}), rest, none) /\ UNCHANGED network
      /\ w # <<>>
    BY DEF Deliver
<1>2. w \in Seq(Pkt) /\ wire[s] \in [Conn -> Seq(Pkt)]
    BY WireAt
<1>3. packet \in Pkt /\ Tail(w) \in Seq(Pkt)
    BY <1>1, <1>2, TailAt
<1>4. /\ rest \in [Conn -> Seq(Pkt)] /\ rest[c] = Tail(w)
      /\ \A k \in Conn : k # c => rest[k] = wire[s][k]
    BY <1>2, <1>3
<1>5. /\ Alike(r.x, peer[s]) /\ r.out \in [Conn -> Seq(Pkt)]
      /\ Answer(peer[s].tcp[c], packet.kind, r.x.tcp[c], r.out[c])
      /\ \A k \in Conn : k # c => r.x.tcp[k] = peer[s].tcp[k] /\ r.out[k] = <<>>
    <2>1. r = Segment(Now(s), c, packet)
        OBVIOUS
    <2> HIDE DEF packet, r
    <2>2. Answered(peer[s], c, packet, r)
        BY <2>1, SegmentAt
    <2> QED
        BY <2>2 DEF Answered
<1>6. IsResult(r) /\ Entered(r.x)
    BY NowAt, SegmentOK
<1> HIDE DEF r
<1>7. ASSUME peer[s].tcp[c] \in Gone, r.x.tcp[c] \notin Gone
      PROVE  c \in {Other(s)} \X Number /\ r.x.tcp[c] = "SynReceived"
    <2>1. r.x.tcp[c] = "SynReceived" /\ packet.kind = "SYN"
        BY <1>5, <1>7 DEF Answer, Gone
    <2>2. ASSUME c[1] = s PROVE FALSE
        <3>1. \A i \in 1 .. Len(w) : w[i].kind # "SYN"
            BY <2>2 DEF RouteInv, LinkAt, Link, Handshake
        <3> QED
            BY <1>1, <1>2, <2>1, <3>1, TailAt
    <2>3. c[1] = Other(s) /\ c = <<c[1], c[2]>> /\ c[2] \in Number
        BY <2>2, Others DEF Conn
    <2> QED
        BY <2>1, <2>3
<1>8. Ready(s, r)
    BY <1>5, <1>6, <1>7, ReadyFrom
<1>9. message.kind = "update" => message \in Mail /\ r.x.tcp[c] = "Established"
    <2> SUFFICES ASSUME message.kind = "update"
                 PROVE  message \in Mail /\ r.x.tcp[c] = "Established"
        OBVIOUS
    <2>1. message = packet /\ packet.kind \notin Control /\ peer[s].tcp[c] = "Established"
        BY NotUpdate
    <2>2. \A m \in Pkt : m.kind \notin Control => m \in Mail
        BY DEF Pkt
    <2>3. r.x.tcp[c] = "Established"
        BY <1>5, <2>1 DEF Answer, Control
    <2> QED
        BY <1>3, <2>1, <2>2, <2>3
<1>10. Happens(peer[s], r, c, wire[s][c], EndOf(peer[Other(s)], c), wire[Other(s)][c],
               rest[c], message)
    <2>1. r.x.stream[c] = peer[s].stream[c] /\ Got(r.x, c) = Got(peer[s], c)
        BY <1>5, AlikeGot
    <2>2. Arrives(peer[s], r, c, w, rest[c], message)
        BY <1>1, <1>4, <1>5, <2>1 DEF Arrives
    <2> QED
        BY <2>2 DEF Happens
<1>11. none \in SUBSET {c} /\ c \notin none /\ Meant(c, c, message)
    BY DEF Meant
<1> HIDE DEF message, rest, none
<1> QED
    BY <1>1, <1>4, <1>5, <1>8, <1>9, <1>10, <1>11, OneKeeps

LEMMA ResetRoutes ==
    ASSUME RouteInv, NEW s \in Speaker, Reset(s)
    PROVE  RouteInv'
<1> DEFINE streams == Streams(peer[s])
           tcp == [c \in Conn |-> IF c \in streams THEN "none" ELSE peer[s].tcp[c]]
           sent == [c \in Conn |-> IF c \in streams THEN <<Packet("RST")>> ELSE <<>>]
           r == [Dropped(s) EXCEPT !.x = NewPeer(@.tcp)]
           rest == wire[s]
           none == {}
<1>1. Become(s, Tick(s, r, NoConn, Nothing, none), rest, none) /\ UNCHANGED network
    BY DEF Reset
<1>2. r = [x |-> NewPeer(tcp), out |-> sent]
    <2> DEFINE d == Dropped(s)
    <2>1. PICK tcp0, stream, selected, received, waiting, out :
             Now(s) = Parts(tcp0, stream, selected, received, waiting, out)
        BY NowAt, PartsOf
    <2> DEFINE n1 == [Now(s) EXCEPT !.x.tcp = tcp]
    <2>8. Now(s).x = peer[s]
        BY NowAt
    <2>3. d = [Now(s) EXCEPT !.x.tcp = tcp, !.out = sent]
        BY <2>8 DEF Dropped
    <2> HIDE DEF tcp, sent, d
    <2>4. d = [n1 EXCEPT !.out = sent]
        BY <2>3
    <2>5. n1 = Parts(tcp, stream, selected, received, waiting, out)
        BY <2>1 DEF Parts
    <2> HIDE DEF n1
    <2>6. d = Parts(tcp, stream, selected, received, waiting, sent)
        BY <2>4, <2>5 DEF Parts
    <2>7. r = [d EXCEPT !.x = NewPeer(d.x.tcp)]
        BY DEF d
    <2> HIDE DEF r
    <2> QED
        BY <2>6, <2>7 DEF Parts
<1>3. peer[s].tcp \in [Conn -> TcpState] /\ "RST" \in Control /\ <<Packet("RST")>> \in Seq(Pkt)
    <2>1. "RST" \in Control
        BY DEF Control
    <2>2. Packet("RST") \in Pkt
        BY <2>1, MailIsPkt
    <2>3. peer[s].tcp \in [Conn -> TcpState]
        BY DEF RouteInv, BgpInv, PeerOK, Entered, IsPeer
    <2> QED
        BY <2>1, <2>2, <2>3
<1>4. \A c \in Conn : c \in streams <=> peer[s].stream[c] # NoStream
    BY DEF Streams
<1> HIDE DEF streams
<1>5. /\ tcp \in [Conn -> TcpState] /\ sent \in [Conn -> Seq(Pkt)]
      /\ \A c \in Conn : /\ tcp[c] = IF c \in streams THEN "none" ELSE peer[s].tcp[c]
                         /\ sent[c] = IF c \in streams THEN <<Packet("RST")>> ELSE <<>>
    BY <1>3 DEF TcpState
<1> HIDE DEF r, tcp, sent
<1>6. /\ r.x = [tcp |-> tcp, stream |-> [c \in Conn |-> NoStream], selected |-> NoConn,
                received |-> NoRoutes, waiting |-> FALSE]
      /\ Entered(r.x) /\ IsResult(r) /\ r.out = sent
    BY <1>2, <1>5, NewPeerOK DEF IsResult, Entered
<1>7. /\ r.x.tcp = tcp /\ r.x.received = NoRoutes /\ r.x.selected = NoConn
      /\ \A c \in Conn : r.x.stream[c] = NoStream
    BY <1>6
<1>8. \A c \in Conn : r.x.tcp[c] \in Gone
    BY <1>4, <1>5, <1>7, RouteEnd DEF Gone
<1>9. Ready(s, r)
    BY <1>5, <1>6, <1>7, <1>8, NoRoutesType DEF Ready, Up
<1>10. ASSUME NEW k \in Conn
       PROVE  Happens(peer[s], r, k, wire[s][k], EndOf(peer[Other(s)], k), wire[Other(s)][k],
                      rest[k], IF k = NoConn THEN Nothing ELSE Nothing)
    <2>1. CASE k \in streams
        <3>1. peer[s].tcp[k] # "none"
            BY <1>4, <2>1, RouteEnd DEF Gone
        <3>2. Lost(peer[s], r, k, wire[s][k], wire[Other(s)][k], rest[k])
            BY <1>5, <1>6, <1>7, <2>1, <3>1 DEF Lost
        <3> QED
            BY <3>2 DEF Happens
    <2>2. CASE k \notin streams
        <3>1. peer[s].stream[k] = NoStream
            BY <1>4, <2>2
        <3>2. Got(peer[s], k) = NoRoutes
            BY <3>1, RouteEnd, EndFields DEF End
        <3>3. Got(r.x, k) = NoRoutes
            BY <1>7 DEF Got
        <3>4. Untouched(peer[s], r, k, wire[s][k], rest[k], Nothing)
            BY <1>5, <1>6, <1>7, <2>2, <3>1, <3>2, <3>3, NotUpdate DEF Untouched
        <3> QED
            BY <3>4 DEF Happens
    <2> QED
        BY <2>1, <2>2
<1>11. Touched(s, r, NoConn, Nothing, rest, none)
    BY <1>10 DEF Touched
<1>12. rest \in [Conn -> Seq(Pkt)] /\ Lasts(r.x, none) /\ Nothing.kind # "update"
    BY WireAt, NoDue, NotUpdate
<1> HIDE DEF rest, none
<1> QED
    BY <1>1, <1>9, <1>11, <1>12, EventKeeps

LEMMA SetNetworkRoutes ==
    ASSUME RouteInv, NEW s \in Speaker, NEW p \in Prefix, NEW value \in 0 .. 2,
           SetNetwork(s, p, value)
    PROVE  RouteInv'
<1>1. /\ peer' = peer /\ wire' = wire /\ network' = [network EXCEPT ![s][p] = value]
    BY DEF SetNetwork
<1>2. network' \in [Speaker -> Routes]
    BY <1>1 DEF RouteInv, Routes
<1>3. BgpInv'
    BY <1>1 DEF RouteInv, BgpInv
<1>4. \A c \in Conn : LinkAt(c)'
    BY <1>1 DEF RouteInv, LinkAt, EndOf, Got
<1> QED
    BY <1>1, <1>2, <1>3, <1>4 DEF RouteInv

\* At first there are no connections.
LEMMA InitRoutes == Init => RouteInv
<1> SUFFICES ASSUME Init
             PROVE  RouteInv
    OBVIOUS
<1>1. BgpInv
    BY BgpInit
<1>2. network \in [Speaker -> Routes]
    BY DEF Init, Routes
<1>3. wire \in [Speaker -> [Conn -> Seq(Pkt)]] /\ \A s \in Speaker, c \in Conn : wire[s][c] = <<>>
    BY DEF Init
<1>4. ASSUME NEW s \in Speaker
      PROVE  /\ peer[s].received = NoRoutes
             /\ \A c \in Conn : peer[s].tcp[c] = "none" /\ peer[s].stream[c] = NoStream
    <2> DEFINE none == [c \in Conn |-> "none"]
               new == NewPeer(none)
    <2>1. peer[s] = [new EXCEPT !.waiting = s \notin bound.first]
        BY DEF Init
    <2>2. new = [tcp |-> none, stream |-> [c \in Conn |-> NoStream],
                 selected |-> NoConn, received |-> NoRoutes, waiting |-> FALSE]
        BY DEF NewPeer
    <2> HIDE DEF new
    <2>3. PICK wait : peer[s] = [new EXCEPT !.waiting = wait]
        BY <2>1
    <2>4. /\ peer[s].received = NoRoutes /\ peer[s].tcp = none
          /\ peer[s].stream = [c \in Conn |-> NoStream]
        BY <2>2, <2>3
    <2> QED
        BY <2>4
<1>5. ASSUME NEW s \in Speaker, NEW c \in Conn
      PROVE  LET e == EndOf(peer[s], c) IN
             End(e) /\ e.tcp = "none" /\ e.stream = NoStream
    <2>1. PeerOK(peer[s])
        BY <1>1 DEF BgpInv
    <2>2. "none" \in Gone
        BY DEF Gone
    <2>3. End(EndOf(peer[s], c))
        BY <1>4, <2>1, <2>2, NoRoutesType, EndOK
    <2> QED
        BY <1>4, <2>3, EndFields
<1>6. ASSUME NEW c \in Conn PROVE LinkAt(c)
    <2> DEFINE a == EndOf(peer[c[1]], c)
               b == EndOf(peer[Other(c[1])], c)
               wa == wire[c[1]][c]
               wb == wire[Other(c[1])][c]
    <2>1. c[1] \in Speaker /\ Other(c[1]) \in Speaker
        BY Others DEF Conn
    <2>2. /\ End(a) /\ a.tcp = "none" /\ a.stream = NoStream
          /\ End(b) /\ b.tcp = "none" /\ b.stream = NoStream
        BY <1>5, <2>1
    <2>3. wa = <<>> /\ wb = <<>> /\ wa \in Seq(Pkt) /\ wb \in Seq(Pkt)
        BY <1>3, <2>1
    <2> HIDE DEF a, b, wa, wb
    <2>4. Handshake(a, wa, b, wb)
        BY <2>2, <2>3 DEF Handshake
    <2>5. Agreed(a, wa, b) /\ Agreed(b, wb, a)
        BY <2>2 DEF Agreed, Alive
    <2>6. Link(a, wa, b, wb)
        BY <2>2, <2>3, <2>4, <2>5 DEF Link
    <2> QED
        BY <2>6 DEF LinkAt, a, b, wa, wb
<1>7. \A s \in Speaker : peer[s].received \in Routes
    BY <1>4, NoRoutesType
<1> QED
    BY <1>1, <1>2, <1>3, <1>6, <1>7 DEF RouteInv

\* Every event keeps what both ends of every connection know of each other:
\* the handshake (receive_tcp), the messages under way and in the queues
\* (Stream::queue, bgp_flush), and the routes noted as advertised
\* (bgp_advertise).
THEOREM BgpRoutes == Spec => []RouteInv
<1>1. RouteInv /\ [Next]_vars => RouteInv'
    <2> SUFFICES ASSUME RouteInv, [Next]_vars
                 PROVE  RouteInv'
        OBVIOUS
    <2>1. CASE UNCHANGED vars
        <3>1. peer' = peer /\ wire' = wire /\ network' = network
            BY <2>1 DEF vars
        <3>2. BgpInv'
            BY <3>1 DEF RouteInv, BgpInv
        <3>3. \A c \in Conn : LinkAt(c)'
            BY <3>1 DEF RouteInv, LinkAt, EndOf, Got
        <3> QED
            BY <3>1, <3>2, <3>3 DEF RouteInv
    <2>2. ASSUME NEW s \in Speaker, NEW c \in Conn,
                 \/ Deliver(s, c) \/ CloseDue(s, c) \/ Retransmit(s, c) \/ Break(s, c)
                 \/ \E kind \in {"expired", "idle"} : Timeout(s, c, kind)
          PROVE  RouteInv'
        BY <2>2, DeliverRoutes, CloseDueRoutes, RetransmitRoutes, BreakRoutes, TimeoutRoutes
    <2>3. ASSUME NEW s \in Speaker, Pump(s) \/ Retry(s) \/ Reset(s)
          PROVE  RouteInv'
        BY <2>3, PumpRoutes, RetryRoutes, ResetRoutes
    <2>4. ASSUME NEW s \in Speaker, NEW p \in Prefix, NEW value \in 0 .. 2,
                 SetNetwork(s, p, value)
          PROVE  RouteInv'
        BY <2>4, SetNetworkRoutes
    <2> QED
        BY <2>1, <2>2, <2>3, <2>4 DEF Next
<1> QED
    BY <1>1, InitRoutes, PTL DEF Spec

\* While both ends of a session are established, the routes received with the
\* updates still under way are those that the peer has noted as advertised
\* (bgp_advertise, bgp_flush, Learned in bgp_tick), whatever connections were
\* opened, broken or reset before.
THEOREM BgpRoutesFollow == Spec => []RoutesFollow
<1>1. ASSUME RouteInv, NEW s \in Speaker, NEW c \in Conn,
             peer[s].selected = c, Up(peer[Other(s)].stream[c])
      PROVE  Applied(peer[s].received, wire[s][c] \o peer[Other(s)].stream[c].output)
                = peer[Other(s)].stream[c].advertised
    <2> DEFINE t == Other(s)
               e == EndOf(peer[s], c)
               o == EndOf(peer[t], c)
               w == wire[s][c]
               wo == wire[t][c]
    <2>1. t \in Speaker /\ Other(t) = s
        BY Others
    <2>2. c # NoConn
        BY DEF NoConn, Conn, Speaker
    <2>3. Up(peer[s].stream[c])
        BY <1>1, <2>2 DEF RouteInv, BgpInv, PeerOK, Entered
    <2>4. /\ e.stream = peer[s].stream[c] /\ o.stream = peer[t].stream[c]
          /\ e.got = peer[s].received
        BY <1>1, EndFields DEF Got
    <2>5. Link(e, w, o, wo) \/ Link(o, wo, e, w)
        <3>1. LinkAt(c)
            BY <1>1 DEF RouteInv
        <3>2. CASE c[1] = s
            BY <3>1, <3>2 DEF LinkAt
        <3>3. CASE c[1] = t
            BY <2>1, <3>1, <3>3 DEF LinkAt
        <3> QED
            BY <3>2, <3>3, Others
    <2>6. Agreed(e, w, o) /\ End(o) /\ w \in Seq(Pkt)
        BY <2>5 DEF Link
    <2>7. Alive(e.stream) /\ Alive(o.stream)
        BY <1>1, <2>3, <2>4 DEF Alive, Up
    <2> HIDE DEF e, o, w, t
    <2>8. Follows(e.got, w \o o.stream.output, o.stream.advertised)
        BY <2>6, <2>7 DEF Agreed
    <2>9. o.stream.output \in Seq(Mail) /\ o.stream.advertised \in Routes
        BY <2>6, <2>7 DEF End, Alive, Fine
    <2>10. w \o o.stream.output \in Seq(Pkt)
        BY <2>6, <2>9, MailIsPkt, ConcatAt
    <2>11. Applied(e.got, w \o o.stream.output) = o.stream.advertised
        BY <2>8, <2>9, <2>10, FollowsApplied
    <2> QED
        BY <2>4, <2>11 DEF w, t
<1>2. RouteInv => RoutesFollow
    BY <1>1 DEF RoutesFollow
<1> QED
    BY <1>2, BgpRoutes, PTL

=============================================================================
