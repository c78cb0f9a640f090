---------------------------- MODULE OspfAdjacency ----------------------------
(***************************************************************************)
(* Two OSPF routers on a point-to-point link: Hellos, the database         *)
(* exchange of one adjacency and the reliable flooding of advertisements   *)
(* over it (crates/rios-routing/src/ospf_exchange.rs), and the origination *)
(* and installation of advertisements around it                            *)
(* (crates/rios-device/src/ospf.rs and ospf/).                             *)
(*                                                                         *)
(* An advertisement is the router that originates it and the number of its *)
(* instance; ages, checksums and areas are left out, and so are the limits *)
(* on the tables and the MTU, which both ends share.  Timers fire when few *)
(* packets are under way: the retransmission interval is five seconds.     *)
(***************************************************************************)
EXTENDS Integers, Sequences, FiniteSetsExt, SequencesExt

CONSTANTS
    Labs,        \* the labs explored, see the operators on lab below
    Page         \* headers in a Database Description packet

Router == {1, 2}  \* router IDs

\* Routers that originate advertisements: the third is behind router 2.
Key == 1 .. 3

AllTimers == {"hello", "dd", "request", "update"}

ASSUME OspfAssumption ==
    /\ Page \in Nat \ {0}
    /\ \A n \in Labs :
         /\ n.known \in [Router -> [Key -> Nat]]
         /\ \A r \in Router : n.known[r][r] > 0 /\ n.known[r][3 - r] <= n.known[3 - r][3 - r]
         /\ n.known[1][3] <= n.known[2][3]
         /\ n.timers \subseteq SUBSET AllTimers
         /\ {n.busy, n.losses, n.faults, n.changes} \subseteq Nat

VARIABLES
    lab,       \* the member of Labs that this behaviour takes place in
    db,        \* db[r][k]: the instance of k's advertisement that r has
    linked,    \* linked[r]: r's own advertisement names the link to its peer
    nbr,       \* nbr[r]: r's neighbor and its exchange
    counter,   \* counter[r]: OspfRuntime::sequence
    chan,      \* chan[r]: packets under way to r
    losses, faults, changes  \* auxiliary: the bounds

vars == <<lab, db, linked, nbr, counter, chan, losses, faults, changes>>

\* The databases at first, where 0 is absent, and the timers that fire together.
Known == lab.known

Timers == lab.timers

\* Bounds: packets under way when a timer fires, packets lost on the link,
\* neighbors that die at one end and restarts, changes of other links.
Busy == lab.busy

MaxLosses == lab.losses

MaxFaults == lab.faults

MaxChanges == lab.changes

Peer(r) == 3 - r

Master(r) == r > Peer(r)

None == [k \in Key |-> 0]

Hello(seen) == [type |-> "hello", seen |-> seen]

Dd(init, more, master, seq, headers) ==
    [type |-> "dd", init |-> init, more |-> more, master |-> master,
     seq |-> seq, headers |-> headers]

Request(keys) == [type |-> "request", keys |-> keys]

Update(k, v) == [type |-> "update", key |-> k, instance |-> v]

Ack(k, v) == [type |-> "ack", key |-> k, instance |-> v]

\* No neighbor, or one without an exchange.
Neighbor(state) ==
    [state |-> state, seq |-> 0, summary |-> <<>>, offset |-> 0,
     last |-> Hello(FALSE), requests |-> None, retransmit |-> None]

Init ==
    /\ lab \in Labs
    /\ db = Known
    /\ linked = [r \in Router |-> FALSE]
    /\ nbr = [r \in Router |-> Neighbor("Down")]
    /\ counter = [r \in Router |-> 0]
    /\ chan = [r \in Router |-> <<>>]
    /\ losses = 0 /\ faults = 0 /\ changes = 0

-----------------------------------------------------------------------------
(* OspfExchange: x is the exchange of router r, d the database of r.  A     *)
(* handler gives the exchange, the packets and the advertisements accepted. *)

CanExchange(x) == x.state \in {"Exchange", "Loading", "Full"}

Result(x, out, accepted) == [x |-> x, out |-> out, accepted |-> accepted]

Ignore(x) == Result(x, <<>>, {})

\* The headers of a database, in the order of their keys.
Headers(d) == SetToSortSeq({<<k, d[k]>> : k \in {j \in Key : d[j] > 0}},
                           LAMBDA a, b : a[1] < b[1])

\* start: a snapshot of the database and the initial packet.
Start(x, d) ==
    [x EXCEPT !.state = "ExStart", !.summary = Headers(d), !.offset = 0,
              !.requests = None, !.retransmit = None,
              !.last = Dd(TRUE, TRUE, TRUE, x.seq, <<>>)]

\* A sequence mismatch, or a request for what is not there.
Restarted(x, d) ==
    LET y == Start([x EXCEPT !.seq = @ + 1], d) IN Result(y, <<y.last>>, {})

NextDd(r, x) ==
    LET end == Min({x.offset + Page, Len(x.summary)}) IN
    [x EXCEPT !.offset = end,
              !.last = Dd(FALSE, end < Len(x.summary), Master(r), x.seq,
                          SubSeq(x.summary, x.offset + 1, end))]

\* Mutant of RequestHeaders: what the database has in any instance is not asked for.
RequestAbsent(x, headers, d) ==
    [x EXCEPT !.requests = [k \in Key |->
        Max({x.requests[k]} \cup {h[2] : h \in {g \in Range(headers) : g[1] = k /\ d[k] = 0}})]]

RequestHeaders(x, headers, d) ==
    [x EXCEPT !.requests = [k \in Key |->
        Max({x.requests[k]} \cup {h[2] : h \in {g \in Range(headers) : g[1] = k /\ g[2] > d[k]}})]]

Wanted(x) == {k \in Key : x.requests[k] > 0}

RequestPackets(x) == IF Wanted(x) = {} THEN <<>> ELSE <<Request(Wanted(x))>>

Finish(x, out) ==
    Result([x EXCEPT !.state = IF Wanted(x) = {} THEN "Full" ELSE "Loading"],
           out \o RequestPackets(x), {})

\* flood: an update that is sent until it is acknowledged.
Flooded(x, k, v) == IF CanExchange(x) THEN [x EXCEPT !.retransmit[k] = v] ELSE x

FloodPacket(x, k, v) == IF CanExchange(x) THEN <<Update(k, v)>> ELSE <<>>

-----------------------------------------------------------------------------
(* receive: a Database Description packet m *)

Negotiating(r, x, m, d) ==
    CASE ~Master(r) /\ m.init /\ m.more /\ m.master /\ m.headers = <<>> ->
           LET y == NextDd(r, [x EXCEPT !.seq = m.seq, !.state = "Exchange"])
           IN Result(y, <<y.last>>, {})
      [] Master(r) /\ ~m.init /\ ~m.master /\ m.seq = x.seq ->
           LET y == NextDd(r, RequestHeaders([x EXCEPT !.seq = @ + 1, !.state = "Exchange"],
                                             m.headers, d))
           IN Result(y, <<y.last>>, {})
      [] OTHER -> Ignore(x)

\* The next packet in its turn.
Described(r, x, m, d) ==
    LET y == RequestHeaders(x, m.headers, d)
        z == NextDd(r, [y EXCEPT !.seq = IF Master(r) THEN @ + 1 ELSE m.seq])
    IN
    CASE Master(r) /\ ~x.last.more /\ ~m.more -> Finish(y, <<>>)
      [] ~Master(r) /\ z.offset = Len(z.summary) /\ ~m.more -> Finish(z, <<z.last>>)
      [] OTHER -> Result(z, <<z.last>>, {})

InTurn(r, x, m) ==
    /\ ~m.init
    /\ m.master # Master(r)
    /\ m.seq = IF Master(r) THEN x.seq ELSE x.seq + 1
    /\ x.state = "Exchange"

OnDd(r, x, m, d) ==
    CASE x.state = "ExStart" -> Negotiating(r, x, m, d)
      [] ~CanExchange(x) -> Ignore(x)
      [] ~Master(r) /\ m.seq = x.seq -> Result(x, <<x.last>>, {})
      [] \/ /\ Master(r) /\ x.state \in {"Loading", "Full"}
            /\ m.seq = x.seq /\ ~m.init /\ ~m.master
         \/ Master(r) /\ m.seq = x.seq - 1 -> Ignore(x)
      [] InTurn(r, x, m) -> Described(r, x, m, d)
      [] OTHER -> Restarted(x, d)

-----------------------------------------------------------------------------
(* receive: requests, updates and acknowledgments *)

OnRequest(x, m, d) ==
    IF \E k \in m.keys : d[k] = 0 THEN Restarted(x, d)
    ELSE Result([x EXCEPT !.retransmit = [k \in Key |-> IF k \in m.keys THEN d[k] ELSE @[k]]],
                SetToSeq({Update(k, d[k]) : k \in m.keys}), {})

OnUpdate(x, m, d) ==
    LET y == [x EXCEPT !.requests[m.key] = 0,
                       !.state = IF @ = "Loading" /\ Wanted(x) \subseteq {m.key} THEN "Full" ELSE @]
    IN
    CASE m.instance < x.requests[m.key] -> Ignore(x)
      [] m.instance >= x.requests[m.key] /\ m.instance >= d[m.key] ->
           Result(y, <<Ack(m.key, m.instance)>>, {m})
      [] OTHER -> Result([y EXCEPT !.retransmit[m.key] = d[m.key]],
                         <<Update(m.key, d[m.key])>>, {})

\* Mutant of OnAck: acknowledgments of r's next instance only.
OnAckNext(x, m) ==
    IF x.retransmit[m.key] = m.instance + 1
    THEN Result([x EXCEPT !.retransmit[m.key] = 0], <<>>, {})
    ELSE Ignore(x)

OnAck(x, m) ==
    IF x.retransmit[m.key] = m.instance
    THEN Result([x EXCEPT !.retransmit[m.key] = 0], <<>>, {})
    ELSE Ignore(x)

Handled(r, x, m, d) ==
    CASE m.type = "dd" -> OnDd(r, x, m, d)
      [] m.type = "request" /\ CanExchange(x) -> OnRequest(x, m, d)
      [] m.type = "update" /\ CanExchange(x) -> OnUpdate(x, m, d)
      [] m.type = "ack" /\ CanExchange(x) -> OnAck(x, m)
      [] OTHER -> Ignore(x)

-----------------------------------------------------------------------------
(* The device: what is accepted is installed, and what changed is originated *)

\* ospf_install: a newer instance, and of r's own advertisement a newer one still.
Installed(r, d, m) ==
    CASE m.instance <= d[m.key] -> d[m.key]
      [] m.key = r -> m.instance + 1
      [] OTHER -> m.instance

\* The end of every handler: with exchange x, database d, these packets to
\* send and those still under way to r, r originates its advertisement again
\* if it has changed.
Settle(r, x, d, out, waiting) ==
    LET stale == linked[r] # (x.state = "Full") IN
    /\ linked' = [linked EXCEPT ![r] = (x.state = "Full")]
    /\ db' = [db EXCEPT ![r] = IF stale THEN [d EXCEPT ![r] = @ + 1] ELSE d]
    /\ nbr' = [nbr EXCEPT ![r] = IF stale THEN Flooded(x, r, d[r] + 1) ELSE x]
    /\ chan' = [chan EXCEPT
                  ![r] = waiting,
                  ![Peer(r)] = @ \o out \o IF stale THEN FloodPacket(x, r, d[r] + 1) ELSE <<>>]

\* A packet other than a Hello.
Packet(r, m, waiting) ==
    LET result == Handled(r, nbr[r], m, db[r])
        d == [k \in Key |->
                Max({db[r][k]} \cup
                    {Installed(r, db[r], a) : a \in {b \in result.accepted : b.key = k}})]
        fights == d[r] > db[r][r]
    IN
    IF fights
    THEN Settle(r, Flooded(result.x, r, d[r]), d,
                result.out \o FloodPacket(result.x, r, d[r]), waiting)
    ELSE Settle(r, result.x, d, result.out, waiting)

\* A Hello: an exchange begins when both ends have heard each other.
Heard(r, m, waiting) ==
    LET x == nbr[r]
        fresh == IF x.state = "Down" THEN <<Hello(TRUE)>> ELSE <<>>
        y == Start([Neighbor("ExStart") EXCEPT !.seq = counter[r] + 1], db[r])
        begins == m.seen /\ x.state \in {"Down", "Init"}
    IN
    /\ counter' = [counter EXCEPT ![r] = IF begins THEN @ + 1 ELSE @]
    /\ CASE ~m.seen -> Settle(r, Neighbor("Init"), db[r], fresh, waiting)
         [] begins -> Settle(r, y, db[r], <<y.last>> \o fresh, waiting)
         [] OTHER -> Settle(r, x, db[r], <<>>, waiting)

-----------------------------------------------------------------------------
(* Actions *)

Deliver(r) ==
    /\ chan[r] # <<>>
    /\ IF Head(chan[r]).type = "hello" THEN Heard(r, Head(chan[r]), Tail(chan[r]))
       ELSE Packet(r, Head(chan[r]), Tail(chan[r])) /\ UNCHANGED counter
    /\ UNCHANGED <<lab, losses, faults, changes>>

Lose(r) ==
    /\ chan[r] # <<>>
    /\ losses < MaxLosses
    /\ losses' = losses + 1
    /\ chan' = [chan EXCEPT ![r] = Tail(@)]
    /\ UNCHANGED <<lab, db, linked, nbr, counter, faults, changes>>

\* Mutant of Resent: an initial packet that is lost is not sent again.
ResentNoInit(r, x, due) ==
    (IF "dd" \in due /\ x.state = "Exchange" /\ Master(r) THEN <<x.last>> ELSE <<>>)
    \o (IF "request" \in due /\ x.state = "Loading" THEN RequestPackets(x) ELSE <<>>)

\* OspfExchange::tick: what is sent again.
Resent(r, x, due) ==
    (IF "dd" \in due /\ (x.state = "ExStart" \/ (x.state = "Exchange" /\ Master(r)))
     THEN <<x.last>> ELSE <<>>)
    \o (IF "request" \in due /\ x.state = "Loading" THEN RequestPackets(x) ELSE <<>>)
    \o (IF "update" \in due
        THEN SetToSeq({Update(k, x.retransmit[k]) : k \in {j \in Key : x.retransmit[j] > 0}})
        ELSE <<>>)

\* ospf_tick when these timers are due.
Tick(r, due) ==
    /\ Len(chan[1]) + Len(chan[2]) <= Busy
    /\ Settle(r, nbr[r], db[r],
              (IF "hello" \in due THEN <<Hello(nbr[r].state # "Down")>> ELSE <<>>)
              \o Resent(r, nbr[r], due),
              chan[r])
    /\ UNCHANGED <<lab, counter, losses, faults, changes>>

Fault == faults < MaxFaults /\ faults' = faults + 1

\* The Hellos of the peer did not come through for the dead interval.
Dead(r) ==
    /\ Fault
    /\ nbr[r].state # "Down"
    /\ Settle(r, Neighbor("Down"), db[r], <<>>, chan[r])
    /\ UNCHANGED <<lab, counter, losses, changes>>

\* set_ospf_router_id: the process of r starts again with nothing.
Restart(r) ==
    /\ Fault
    /\ nbr' = [nbr EXCEPT ![r] = Neighbor("Down")]
    /\ db' = [db EXCEPT ![r] = [None EXCEPT ![r] = 1]]
    /\ linked' = [linked EXCEPT ![r] = FALSE]
    /\ counter' = [counter EXCEPT ![r] = 0]
    /\ chan' = [chan EXCEPT ![Peer(r)] = Append(@, Hello(FALSE))]
    /\ UNCHANGED <<lab, losses, changes>>

\* Another link changes the advertisement k, of r itself or of the router
\* behind r; the new instance is installed and flooded.
Change(r, k) ==
    LET v == (IF k = r THEN db[r][r] ELSE Max({db[1][k], db[2][k]})) + 1 IN
    /\ changes < MaxChanges
    /\ k = r \/ (k = 3 /\ r = 2)
    /\ changes' = changes + 1
    /\ db' = [db EXCEPT ![r][k] = v]
    /\ nbr' = [nbr EXCEPT ![r] = Flooded(@, k, v)]
    /\ chan' = [chan EXCEPT ![Peer(r)] = @ \o FloodPacket(nbr[r], k, v)]
    /\ UNCHANGED <<lab, linked, counter, losses, faults>>

Next ==
    \E r \in Router :
        \/ Deliver(r)
        \/ Lose(r)
        \/ \E due \in Timers : Tick(r, due)
        \/ Dead(r)
        \/ Restart(r)
        \/ \E k \in Key : Change(r, k)

\* Every packet under way arrives or is lost, and every timer fires in the end.
Fairness ==
    /\ WF_vars(\E r \in Router : Deliver(r))
    /\ \A r \in Router : SF_vars(Tick(r, AllTimers))

Spec == Init /\ [][Next]_vars

FairSpec == Spec /\ Fairness

-----------------------------------------------------------------------------
(* Properties *)

Exchanges == {"Down", "Init", "ExStart", "Exchange", "Loading", "Full"}

\* The state of the routers is well formed: an exchange that is over is Full
\* just when nothing is left to request (OspfExchange::finish), and one that has
\* begun has a Database Description to send again.
TypeOK ==
    /\ db \in [Router -> [Key -> Nat]]
    /\ linked \in [Router -> BOOLEAN]
    /\ counter \in [Router -> Nat]
    /\ \A r \in Router :
         /\ nbr[r].state \in Exchanges
         /\ nbr[r].offset \in 0 .. Len(nbr[r].summary)
         /\ nbr[r].state \in {"Loading", "Full"} =>
              (nbr[r].state = "Full" <=> Wanted(nbr[r]) = {})
         /\ nbr[r].state \notin {"Down", "Init"} => nbr[r].last.type = "dd"

Pending(r) == Wanted(nbr[r]) \cup {k \in Key : nbr[r].retransmit[k] > 0}

Full == \A r \in Router : nbr[r].state = "Full"

Quiet == \A r \in Router : chan[r] = <<>> /\ Pending(r) = {}

\* Two Full neighbors that have nothing more to say have the same database.
Synchronized == Full /\ Quiet => db[1] = db[2]

\* The neighbors become Full and stay so unless one of them fails: the timers
\* that send a packet again make up for every loss.
BecomesFull == <>[](Full \/ faults > 0)

\* They become Full again after a failure.
Recovers == <>[]Full

\* What Full neighbors send until it is acknowledged is acknowledged in the end.
Drains == []<>(Full => \A r \in Router : Pending(r) = {})

=============================================================================
