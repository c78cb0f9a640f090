----------------------------- MODULE DhcpProofs ------------------------------
(***************************************************************************)
(* Proofs about Dhcp, for every set of labs, every pool, and every choice  *)
(* of lease, offer, retry, probe and quarantine times.                     *)
(*                                                                         *)
(* The inductive invariant has a part for the servers (the entries of one  *)
(* server, expired or not, keep its clients apart) and a part for the      *)
(* clients (the event a client waits for is in the queue, and an expiry    *)
(* event names the time at which it fires).  A second one, UseInv, follows *)
(* an exchange through time, from the offer to the lease in use: no        *)
(* address has two users.                                                  *)
(***************************************************************************)
EXTENDS Dhcp, WellFoundedInduction, TLAPS

USE DhcpAssumption

-----------------------------------------------------------------------------
(* The inductive invariant *)

Lease ==
    [address : Nat \ {0}, server : Client \cup Server,
     renew_at : Nat, rebind_at : Nat, expires_at : Nat]

Probe == [xid : Nat, address : Nat, server : Client \cup Server]

ClientState ==
    [lease : {NoLease} \cup Lease, xid : Nat, probe : {NoProbe} \cup Probe,
     retry_after : Nat, up : BOOLEAN, dhcp : BOOLEAN]

\* An entry of server s for a client.
EntryOf(s) == {NoEntry} \cup [address : Pool[s], expires_at : Nat]

ServerState(s) ==
    [offers : [Client -> EntryOf(s)], bindings : [Client -> EntryOf(s)],
     conflicts : SUBSET [address : Nat, deadline : Nat]]

MessageKind == {"discover", "request", "decline", "offer", "ack", "nak", "arp", "reply"}

Packet ==
    [kind : MessageKind, client : Client, server : Client \cup Server,
     xid : Nat, address : Nat, sent : Nat]

Types ==
    /\ lab \in Labs
    /\ now \in Nat
    /\ client \in [Client -> ClientState]
    /\ generation \in [Client -> Nat]
    /\ next_xid \in Nat
    /\ server = [s \in Server |-> server[s]]
    /\ \A s \in Server : server[s] \in ServerState(s)
    /\ network \in SUBSET Packet
    /\ changes \in Nat

\* An ACK gives an address.
AcksGive == \A msg \in network : msg.kind = "ack" => msg.address # 0

\* The clients of a server have addresses of their own.
Apart(sv) ==
    \A c, d \in Client : c # d =>
        {sv.offers[c].address, sv.bindings[c].address}
            \cap {sv.offers[d].address, sv.bindings[d].address} \subseteq {0}

ServersApart == \A s \in Server : Apart(server[s])

\* An expiry event is for the time at which it fires.
ExpiryTimers ==
    \A t \in timers : t.kind = "expired" => t.key.deadline = t.time

\* Client c, in state cl and of generation g, has its events among T.
RetryOK(c, cl, g, T) ==
    Pending(cl) =>
        /\ \E t \in T : t.kind = "client" /\ t.client = c /\ t.key = g
        /\ cl.probe # NoProbe =>
             /\ cl.xid = cl.probe.xid
             /\ \E t \in T : t.kind = "probe" /\ t.client = c /\ t.key = cl.probe.xid

ExpiryOK(c, cl, T) ==
    cl.lease # NoLease =>
        \E t \in T : /\ t.kind = "expired" /\ t.client = c
                     /\ ExpiryCurrent(cl, t.key)
                     /\ t.time = cl.lease.expires_at

Armed == \A c \in Client :
    RetryOK(c, client[c], generation[c], timers) /\ ExpiryOK(c, client[c], timers)

DhcpInv == Types /\ AcksGive /\ ServersApart /\ ExpiryTimers /\ Armed

-----------------------------------------------------------------------------
(* Lemmas on the operators of Dhcp *)

\* A set of numbers that is not empty has a least element, which Min is.
LEMMA MinNat ==
    ASSUME NEW S \in SUBSET Nat, S # {}
    PROVE  Min(S) \in S
<1> DEFINE Less == {ss \in Nat \X Nat : ss[1] < ss[2]}
<1>1. IsWellFoundedOn(Less, Nat)
    BY NatLessThanWellFounded DEF OpToRel
<1> HIDE DEF Less
<1>2. PICK x \in S : \A y \in S : ~(<<y, x>> \in Less)
    BY <1>1, WFMin
<1> \A y \in S : x <= y
    <2> TAKE y \in S
    <2>1. x \in Nat /\ y \in Nat /\ <<y, x>> \in Nat \X Nat
        OBVIOUS
    <2>2. y < x => <<y, x>> \in Less
        BY <2>1 DEF Less
    <2> QED
        BY <1>2, <2>1, <2>2
<1>3. \E z \in S : \A y \in S : z =< y
    OBVIOUS
<1> QED
    BY <1>3 DEF Min

\* The addresses of a server are numbers, and 0 is none of them.
LEMMA PoolType ==
    ASSUME Types, NEW s \in Server
    PROVE  Pool[s] \in SUBSET Nat /\ 0 \notin Pool[s]
BY DEF Types, Server

\* expire_dhcp_server_state keeps clients apart.
LEMMA ExpiredOK ==
    ASSUME Types, NEW s \in Server, NEW sv \in ServerState(s), Apart(sv)
    PROVE  Expired(sv) \in ServerState(s) /\ Apart(Expired(sv))
<1>1. \A c \in Client : /\ Live(sv.offers[c]) \in EntryOf(s)
                        /\ Live(sv.bindings[c]) \in EntryOf(s)
                        /\ Live(sv.offers[c]).address \in {0, sv.offers[c].address}
                        /\ Live(sv.bindings[c]).address \in {0, sv.bindings[c].address}
    BY DEF ServerState, EntryOf, Live, NoEntry
<1>2. Expired(sv) \in ServerState(s)
    BY <1>1 DEF Expired, ServerState
<1>3. Apart(Expired(sv))
    <2> SUFFICES ASSUME NEW c \in Client, NEW d \in Client, c # d
                 PROVE  {Live(sv.offers[c]).address, Live(sv.bindings[c]).address}
                          \cap {Live(sv.offers[d]).address, Live(sv.bindings[d]).address} \subseteq {0}
        BY DEF Apart, Expired
    <2> QED
        BY <1>1 DEF Apart
<1> QED
    BY <1>2, <1>3

\* The address offered to a client is one of the pool that no other client
\* has, as an offer or as a binding.
LEMMA ChoiceOK ==
    ASSUME Types, NEW s \in Server, NEW sv \in ServerState(s), Apart(sv),
           NEW c \in Client, Offers(s, sv, c)
    PROVE  /\ Choice(s, sv, c) \in Pool[s]
           /\ \A d \in Client \ {c} : /\ sv.offers[d].address # Choice(s, sv, c)
                                      /\ sv.bindings[d].address # Choice(s, sv, c)
<1>1. Pool[s] \in SUBSET Nat /\ 0 \notin Pool[s]
    BY PoolType
<1>2. CASE sv.offers[c] # NoEntry
    <2>1. sv.offers[c] \in EntryOf(s)
        BY DEF ServerState
    <2>2. sv.offers[c].address \in Pool[s]
        BY <1>2, <2>1 DEF EntryOf
    <2>3. Choice(s, sv, c) = sv.offers[c].address
        BY <1>2 DEF Choice
    <2> QED
        BY <1>1, <2>2, <2>3 DEF Apart
<1>3. CASE sv.offers[c] = NoEntry
    <2>1. Free(s, sv, c) # {} /\ Free(s, sv, c) \in SUBSET Nat
        BY <1>1, <1>3 DEF Offers, Free
    <2>2. Min(Free(s, sv, c)) \in Free(s, sv, c)
        BY <2>1, MinNat
    <2>3. Choice(s, sv, c) \in Free(s, sv, c)
        BY <1>3, <2>2 DEF Choice
    <2> QED
        BY <2>3 DEF Free, Used
<1> QED
    BY <1>2, <1>3

\* An offer keeps clients apart.
LEMMA OfferedOK ==
    ASSUME Types, NEW s \in Server, NEW sv \in ServerState(s), Apart(sv),
           NEW c \in Client, Offers(s, sv, c)
    PROVE  /\ Offered(s, sv, c) \in ServerState(s)
           /\ Apart(Offered(s, sv, c))
           /\ Offered(s, sv, c).offers[c].address \in Pool[s]
<1>1. CASE sv.offers[c] # NoEntry
    BY <1>1 DEF Offered, ServerState, EntryOf
<1>2. CASE sv.offers[c] = NoEntry
    <2> DEFINE a == Choice(s, sv, c)
               entry == [address |-> a, expires_at |-> now + OfferTime]
               new == [sv EXCEPT !.offers[c] = entry]
    <2>1. Offered(s, sv, c) = new
        BY <1>2 DEF Offered
    <2>2. /\ a \in Pool[s]
          /\ \A d \in Client \ {c} : sv.offers[d].address # a /\ sv.bindings[d].address # a
        BY ChoiceOK
    <2> HIDE DEF a
    <2>3. entry \in EntryOf(s) /\ entry.address = a
        BY <2>2 DEF EntryOf, Types
    <2> HIDE DEF entry
    <2>4. new \in ServerState(s)
        BY <2>3 DEF ServerState
    <2>5. /\ new.offers[c] = entry /\ new.bindings = sv.bindings
          /\ \A d \in Client \ {c} : new.offers[d] = sv.offers[d]
        BY DEF ServerState
    <2> HIDE DEF new
    <2>6. Apart(new)
        BY <2>2, <2>3, <2>5 DEF Apart
    <2> QED
        BY <2>1, <2>2, <2>3, <2>4, <2>5, <2>6
<1> QED
    BY <1>1, <1>2

\* commit_dhcp keeps clients apart.
LEMMA CommittedOK ==
    ASSUME Types, NEW s \in Server, NEW sv \in ServerState(s), Apart(sv),
           NEW c \in Client, sv.offers[c].address \in Pool[s]
    PROVE  /\ Committed(sv, c) \in ServerState(s)
           /\ Apart(Committed(sv, c))
<1> DEFINE entry == [address |-> sv.offers[c].address, expires_at |-> now + LeaseTime]
           new == [sv EXCEPT !.offers[c] = NoEntry, !.bindings[c] = entry]
<1>1. entry \in EntryOf(s) /\ entry.address = sv.offers[c].address
    BY DEF EntryOf, Types
<1>2. NoEntry \in EntryOf(s) /\ NoEntry.address = 0
    BY DEF EntryOf, NoEntry
<1>3. Committed(sv, c) = new
    BY DEF Committed
<1> HIDE DEF entry
<1>4. new \in ServerState(s)
    BY <1>1, <1>2 DEF ServerState
<1>5. /\ new.offers[c] = NoEntry /\ new.bindings[c] = entry
      /\ \A d \in Client \ {c} : new.offers[d] = sv.offers[d] /\ new.bindings[d] = sv.bindings[d]
    BY DEF ServerState
<1> HIDE DEF new
<1>6. Apart(new)
    BY <1>1, <1>2, <1>5 DEF Apart
<1> QED
    BY <1>3, <1>4, <1>6

-----------------------------------------------------------------------------
(* What a step owes to each part of the invariant *)

\* A step of server s.
LEMMA ServerStep ==
    ASSUME DhcpInv, NEW s \in Server, NEW sv \in ServerState(s), Apart(sv),
           server' = [server EXCEPT ![s] = sv], network' \in SUBSET Packet,
           \A msg \in network' : msg.kind = "ack" => msg.address # 0,
           UNCHANGED <<lab, now, client, generation, next_xid, timers, changes>>
    PROVE  DhcpInv'
<1>0. server = [z \in Server |-> server[z]]
    BY DEF DhcpInv, Types
<1>1. /\ server' = [z \in Server |-> server'[z]]
      /\ \A z \in Server : server'[z] \in ServerState(z) /\ Apart(server'[z])
    BY <1>0 DEF DhcpInv, Types, ServersApart
<1>2. Types'
    BY <1>1 DEF DhcpInv, Types, Client, Server, ClientState, Lease, Probe, ServerState, EntryOf, Packet
<1>3. ServersApart'
    BY <1>1 DEF ServersApart, Apart, Client, Server
<1>4. AcksGive'
    BY DEF AcksGive
<1>5. Armed' /\ ExpiryTimers'
    BY DEF DhcpInv, Armed, ExpiryTimers, RetryOK, ExpiryOK, Client, Pending, ExpiryCurrent
<1> QED
    BY <1>2, <1>3, <1>4, <1>5 DEF DhcpInv

\* A step of client c, which leaves the servers and the events of others.
LEMMA ClientStep ==
    ASSUME DhcpInv, NEW c \in Client, NEW cl \in ClientState, NEW g \in Nat,
           client' = [client EXCEPT ![c] = cl],
           generation' = [generation EXCEPT ![c] = g],
           next_xid' \in Nat, changes' \in Nat,
           \A t \in timers : t.client # c => t \in timers',
           \A t \in timers' : t.kind = "expired" => t.key.deadline = t.time,
           RetryOK(c, cl, g, timers'), ExpiryOK(c, cl, timers'),
           network' \in SUBSET Packet,
           \A msg \in network' : msg.kind = "ack" => msg.address # 0,
           UNCHANGED <<lab, now, server>>
    PROVE  DhcpInv'
<1>1. /\ client' \in [Client -> ClientState] /\ generation' \in [Client -> Nat]
      /\ client'[c] = cl /\ generation'[c] = g
      /\ \A d \in Client \ {c} : client'[d] = client[d] /\ generation'[d] = generation[d]
    BY DEF DhcpInv, Types
<1>2. Types'
    BY <1>1 DEF DhcpInv, Types, Client, Server, ClientState, Lease, Probe, ServerState, EntryOf, Packet
<1>3. ServersApart' /\ AcksGive' /\ ExpiryTimers'
    BY DEF DhcpInv, ServersApart, Apart, Client, Server, AcksGive, ExpiryTimers
<1>4. Armed'
    <2> SUFFICES ASSUME NEW d \in Client
                 PROVE  RetryOK(d, client[d], generation[d], timers)' /\ ExpiryOK(d, client[d], timers)'
        BY DEF Armed, Client
    <2>1. CASE d = c
        BY <1>1, <2>1 DEF RetryOK, ExpiryOK, Pending, ExpiryCurrent
    <2>2. CASE d # c
        <3>1. RetryOK(d, client[d], generation[d], timers) /\ ExpiryOK(d, client[d], timers)
            BY DEF DhcpInv, Armed
        <3>2. \A t \in timers : t.client = d => t \in timers'
            BY <2>2
        <3> QED
            BY <1>1, <2>2, <3>1, <3>2 DEF RetryOK, ExpiryOK, Pending, ExpiryCurrent
    <2> QED
        BY <2>1, <2>2
<1> QED
    BY <1>2, <1>3, <1>4 DEF DhcpInv

\* Packets that are not ACKs may be added to the network.
LEMMA SendMore ==
    ASSUME DhcpInv, NEW M \in SUBSET Packet, \A msg \in M : msg.kind # "ack",
           network' \in SUBSET (network \cup M)
    PROVE  /\ network' \in SUBSET Packet
           /\ \A msg \in network' : msg.kind = "ack" => msg.address # 0
BY DEF DhcpInv, Types, AcksGive

\* schedule_dhcp_now: the client forgets its transaction and, if it needs an
\* address, has an event of its new generation.
LEMMA ScheduleStep ==
    ASSUME DhcpInv, NEW c \in Client, NEW cl \in ClientState, NEW P \in SUBSET timers,
           \A t \in timers : t.client # c => t \in P,
           ExpiryOK(c, cl, P),
           ScheduleDhcpNow(c, cl, P),
           next_xid' = next_xid, changes' \in Nat,
           network' \in SUBSET network,
           UNCHANGED <<lab, now, server>>
    PROVE  DhcpInv'
<1> DEFINE new == Forget(cl)
           g == generation[c] + 1
           t0 == Timer(now, "client", c, g)
<1>1. /\ new \in ClientState /\ new.lease = cl.lease /\ new.probe = NoProbe
      /\ Pending(new) = Pending(cl)
    BY DEF Forget, ClientState, NoProbe, Pending
<1>2. g \in Nat
    BY DEF DhcpInv, Types
<1>3. /\ client' = [client EXCEPT ![c] = new] /\ generation' = [generation EXCEPT ![c] = g]
      /\ timers' = P \cup (IF Pending(cl) THEN {t0} ELSE {})
    BY DEF ScheduleDhcpNow, DhcpInv, Types
<1>4. t0.kind = "client" /\ t0.client = c /\ t0.key = g
    BY DEF Timer
<1> HIDE DEF new, g, t0
<1>5. RetryOK(c, new, g, timers')
    BY <1>1, <1>3, <1>4 DEF RetryOK
<1>6. ExpiryOK(c, new, timers')
    BY <1>1, <1>3 DEF ExpiryOK, ExpiryCurrent
<1>7. \A t \in timers' : t.kind = "expired" => t.key.deadline = t.time
    BY <1>3, <1>4 DEF DhcpInv, ExpiryTimers
<1>8. /\ network' \in SUBSET Packet
      /\ \A msg \in network' : msg.kind = "ack" => msg.address # 0
    BY DEF DhcpInv, Types, AcksGive
<1>9. next_xid' \in Nat
    BY DEF DhcpInv, Types
<1> QED
    BY <1>1, <1>2, <1>3, <1>5, <1>6, <1>7, <1>8, <1>9, ClientStep

\* What the invariant says of a client and of its state.
LEMMA ClientFacts ==
    ASSUME DhcpInv, NEW c \in Client
    PROVE  /\ client[c] \in ClientState /\ generation[c] \in Nat /\ next_xid \in Nat
           /\ now \in Nat /\ changes \in Nat
           /\ generation = [generation EXCEPT ![c] = generation[c]]
           /\ client = [client EXCEPT ![c] = client[c]]
           /\ RetryOK(c, client[c], generation[c], timers)
           /\ ExpiryOK(c, client[c], timers)
BY DEF DhcpInv, Types, Armed

-----------------------------------------------------------------------------
(* Events of a client *)

\* send_dhcp_discovers: a client that needs an address asks, and is going to
\* ask again.
LEMMA DiscoverStep ==
    ASSUME DhcpInv, NEW c \in Client, NEW t \in timers, Discover(c, t)
    PROVE  DhcpInv'
<1> DEFINE cl == client[c]
           again == Timer(now + RetryTime, "client", c, t.key)
           new == [cl EXCEPT !.xid = next_xid + 1, !.retry_after = 0]
           sends == Pending(cl) /\ cl.up /\ cl.probe = NoProbe /\ cl.retry_after <= now
           M == ToServers("discover", c, next_xid + 1, 0)
<1>0. /\ cl \in ClientState /\ generation[c] \in Nat /\ next_xid \in Nat
      /\ now \in Nat /\ changes \in Nat
      /\ generation = [generation EXCEPT ![c] = generation[c]]
      /\ client = [client EXCEPT ![c] = cl]
      /\ RetryOK(c, cl, generation[c], timers)
      /\ ExpiryOK(c, cl, timers)
    BY ClientFacts
<1>1. /\ t.kind = "client" /\ t.client = c /\ t.key = generation[c]
      /\ timers' = IF Pending(cl) THEN (timers \ {t}) \cup {again} ELSE timers \ {t}
      /\ UNCHANGED <<lab, now, generation, server, changes>>
    BY DEF Discover
<1>2. again.kind = "client" /\ again.client = c /\ again.key = t.key
    BY DEF Timer
<1> HIDE DEF again
<1>3. /\ \A u \in timers : u.client # c => u \in timers'
      /\ \A u \in timers' : u.kind = "expired" => u.key.deadline = u.time
      /\ \A u \in timers : u.kind # "client" => u \in timers'
    BY <1>1, <1>2 DEF DhcpInv, ExpiryTimers
<1>4. ExpiryOK(c, cl, timers')
    BY <1>0, <1>3 DEF ExpiryOK
<1>5. RetryOK(c, cl, generation[c], timers')
    BY <1>0, <1>1, <1>2, <1>3 DEF RetryOK
<1>6. CASE ~sends
    <2>1. UNCHANGED <<next_xid, client, network>>
        BY <1>6 DEF Discover
    <2>2. /\ network' \in SUBSET Packet
          /\ \A msg \in network' : msg.kind = "ack" => msg.address # 0
        BY <2>1 DEF DhcpInv, Types, AcksGive
    <2> HIDE DEF cl
    <2> QED
        BY <1>0, <1>1, <1>3, <1>4, <1>5, <2>1, <2>2, ClientStep
<1>7. CASE sends
    <2>1. /\ next_xid' = next_xid + 1
          /\ client' = [client EXCEPT ![c] = new]
          /\ network' = network \cup M
        BY <1>7 DEF Discover, DhcpInv, Types, ClientState
    <2>2. new \in ClientState /\ new.lease = cl.lease /\ new.probe = cl.probe /\ new.dhcp = cl.dhcp
        <3>1. next_xid + 1 \in Nat /\ 0 \in Nat
            BY <1>0
        <3> HIDE DEF cl
        <3> QED
            BY <1>0, <3>1 DEF ClientState
    <2>3. M \in SUBSET Packet /\ \A msg \in M : msg.kind # "ack"
        <3>1. Types /\ "discover" \in MessageKind /\ next_xid + 1 \in Nat /\ 0 \in Nat
            BY <1>0 DEF DhcpInv, MessageKind
        <3>2. \A s \in Server :
                /\ Message("discover", c, s, next_xid + 1, 0) \in Packet
                /\ Message("discover", c, s, next_xid + 1, 0).kind = "discover"
            BY <3>1 DEF Message, Packet, Types
        <3> QED
            BY <3>2 DEF ToServers
    <2>4. /\ network' \in SUBSET Packet
          /\ \A msg \in network' : msg.kind = "ack" => msg.address # 0
        BY <2>1, <2>3, SendMore
    <2> HIDE DEF new, M
    <2>5. RetryOK(c, new, generation[c], timers') /\ ExpiryOK(c, new, timers')
        BY <1>4, <1>5, <1>7, <2>2 DEF RetryOK, ExpiryOK, Pending, ExpiryCurrent
    <2>6. next_xid' \in Nat
        BY <1>0, <2>1
    <2> HIDE DEF cl
    <2> QED
        BY <1>0, <1>1, <1>3, <2>1, <2>2, <2>4, <2>5, <2>6, ClientStep
<1> QED
    BY <1>6, <1>7

\* An event that no longer means anything is not one that a client waits for.
LEMMA IgnoreStep ==
    ASSUME DhcpInv, NEW c \in Client, NEW t \in timers, Ignore(c, t)
    PROVE  DhcpInv'
<1> DEFINE cl == client[c]
<1>0. /\ cl \in ClientState /\ generation[c] \in Nat /\ next_xid \in Nat
      /\ now \in Nat /\ changes \in Nat
      /\ generation = [generation EXCEPT ![c] = generation[c]]
      /\ client = [client EXCEPT ![c] = cl]
      /\ RetryOK(c, cl, generation[c], timers)
      /\ ExpiryOK(c, cl, timers)
    BY ClientFacts
<1>1. /\ t.client = c
      /\ t.kind = "client" => t.key # generation[c]
      /\ t.kind = "probe" => ~ProbeCurrent(cl, t.key)
      /\ t.kind = "expired" => ~ExpiryCurrent(cl, t.key)
      /\ timers' = timers \ {t}
      /\ UNCHANGED <<lab, now, client, generation, next_xid, server, network, changes>>
    BY DEF Ignore
<1>2. RetryOK(c, cl, generation[c], timers')
    BY <1>0, <1>1 DEF RetryOK, ProbeCurrent
<1>3. ExpiryOK(c, cl, timers')
    BY <1>0, <1>1 DEF ExpiryOK
<1>4. \A u \in timers' : u.kind = "expired" => u.key.deadline = u.time
    BY <1>1 DEF DhcpInv, ExpiryTimers
<1>5. /\ network' \in SUBSET Packet
      /\ \A msg \in network' : msg.kind = "ack" => msg.address # 0
    BY <1>1 DEF DhcpInv, Types, AcksGive
<1> HIDE DEF cl
<1> QED
    BY <1>0, <1>1, <1>2, <1>3, <1>4, <1>5, ClientStep

\* finish_dhcp_probe: the probe and its event go together.
LEMMA FinishProbeStep ==
    ASSUME DhcpInv, NEW c \in Client, NEW t \in timers, FinishProbe(c, t)
    PROVE  DhcpInv'
<1> DEFINE cl == client[c]
           new == [cl EXCEPT !.probe = NoProbe]
           M == {Message("request", c, cl.probe.server, t.key, cl.probe.address)}
<1>0. /\ cl \in ClientState /\ generation[c] \in Nat /\ next_xid \in Nat
      /\ now \in Nat /\ changes \in Nat
      /\ generation = [generation EXCEPT ![c] = generation[c]]
      /\ RetryOK(c, cl, generation[c], timers)
      /\ ExpiryOK(c, cl, timers)
    BY ClientFacts
<1>1. /\ t.client = c /\ t.kind = "probe" /\ cl.probe # NoProbe /\ cl.probe.xid = t.key
      /\ client' = [client EXCEPT ![c] = new]
      /\ timers' = timers \ {t}
      /\ network' \in SUBSET (network \cup M)
      /\ UNCHANGED <<lab, now, generation, next_xid, server, changes>>
    BY DEF FinishProbe, ProbeCurrent, DhcpInv, Types, ClientState
<1>2. /\ new \in ClientState /\ new.lease = cl.lease /\ new.probe = NoProbe /\ new.dhcp = cl.dhcp
    BY <1>0 DEF ClientState, NoProbe
<1>3. M \in SUBSET Packet /\ \A msg \in M : msg.kind # "ack"
    <2>1. cl.probe \in Probe
        BY <1>0, <1>1 DEF ClientState
    <2>2. cl.probe.server \in Client \cup Server /\ cl.probe.address \in Nat /\ t.key \in Nat
        BY <1>1, <2>1 DEF Probe
    <2>3. Types /\ "request" \in MessageKind
        BY DEF DhcpInv, MessageKind
    <2> HIDE DEF cl
    <2>4. /\ Message("request", c, cl.probe.server, t.key, cl.probe.address) \in Packet
          /\ Message("request", c, cl.probe.server, t.key, cl.probe.address).kind = "request"
        BY <2>2, <2>3 DEF Message, Packet, Types
    <2> QED
        BY <2>4
<1>4. /\ network' \in SUBSET Packet
      /\ \A msg \in network' : msg.kind = "ack" => msg.address # 0
    BY <1>1, <1>3, SendMore
<1> HIDE DEF new
<1>5. RetryOK(c, new, generation[c], timers')
    BY <1>0, <1>1, <1>2 DEF RetryOK, Pending
<1>6. ExpiryOK(c, new, timers')
    BY <1>0, <1>1, <1>2 DEF ExpiryOK, ExpiryCurrent
<1>7. \A u \in timers' : u.kind = "expired" => u.key.deadline = u.time
    BY <1>1 DEF DhcpInv, ExpiryTimers
<1> HIDE DEF cl
<1> QED
    BY <1>0, <1>1, <1>2, <1>4, <1>5, <1>6, <1>7, ClientStep

\* renew_dhcp leaves the lease and the events of its expiry.
LEMMA RenewStep ==
    ASSUME DhcpInv, NEW c \in Client, NEW t \in timers, Renew(c, t)
    PROVE  DhcpInv'
<1> DEFINE cl == client[c]
           lease == cl.lease
           rebind == now >= lease.rebind_at
           boundary == IF rebind THEN lease.expires_at ELSE lease.rebind_at
           retry == Min({now + Max({(boundary - now) \div 2, 1}), boundary})
           xid == IF cl.xid = 0 THEN next_xid + 1 ELSE cl.xid
           M == IF rebind THEN ToServers("request", c, xid, lease.address)
                ELSE {Message("request", c, lease.server, xid, lease.address)}
           new == [cl EXCEPT !.xid = xid]
           again == Timer(retry, "renew", c, t.key)
<1>0. /\ cl \in ClientState /\ generation[c] \in Nat /\ next_xid \in Nat
      /\ now \in Nat /\ changes \in Nat
      /\ generation = [generation EXCEPT ![c] = generation[c]]
      /\ client = [client EXCEPT ![c] = cl]
      /\ RetryOK(c, cl, generation[c], timers)
      /\ ExpiryOK(c, cl, timers)
    BY ClientFacts
<1>1. /\ t.client = c /\ t.kind = "renew" /\ lease # NoLease
      /\ timers' = (timers \ {t}) \cup (IF retry < t.key THEN {again} ELSE {})
      /\ UNCHANGED <<lab, now, generation, server, changes>>
    BY DEF Renew, RenewCurrent
<1>2. again.kind = "renew"
    BY DEF Timer
<1> HIDE DEF again, retry
<1>3. /\ \A u \in timers : u.kind # "renew" => u \in timers'
      /\ \A u \in timers : u.client # c => u \in timers'
      /\ \A u \in timers' : u.kind = "expired" => u.key.deadline = u.time
    BY <1>1, <1>2 DEF DhcpInv, ExpiryTimers
<1>4. ExpiryOK(c, cl, timers')
    BY <1>0, <1>3 DEF ExpiryOK
<1>5. RetryOK(c, cl, generation[c], timers')
    BY <1>1 DEF RetryOK, Pending
<1>6. CASE ~cl.up
    <2>1. UNCHANGED <<next_xid, client, network>>
        BY <1>6 DEF Renew
    <2>2. /\ network' \in SUBSET Packet
          /\ \A msg \in network' : msg.kind = "ack" => msg.address # 0
        BY <2>1 DEF DhcpInv, Types, AcksGive
    <2> HIDE DEF cl
    <2> QED
        BY <1>0, <1>1, <1>3, <1>4, <1>5, <2>1, <2>2, ClientStep
<1>7. CASE cl.up
    <2>1. /\ next_xid' = IF cl.xid = 0 THEN xid ELSE next_xid
          /\ client' = [client EXCEPT ![c] = new]
          /\ network' = network \cup M
        BY <1>7 DEF Renew, DhcpInv, Types, ClientState
    <2>2. xid \in Nat
        BY <1>0 DEF ClientState
    <2>3. next_xid' \in Nat
        BY <1>0, <2>1, <2>2
    <2>4. M \in SUBSET Packet /\ \A msg \in M : msg.kind # "ack"
        <3>1. lease \in Lease
            BY <1>0, <1>1 DEF ClientState
        <3>2. lease.server \in Client \cup Server /\ lease.address \in Nat
            BY <3>1 DEF Lease
        <3> HIDE DEF lease, xid, rebind
        <3> Types /\ "request" \in MessageKind
            BY DEF DhcpInv, MessageKind
        <3>3. /\ Message("request", c, lease.server, xid, lease.address) \in Packet
              /\ Message("request", c, lease.server, xid, lease.address).kind = "request"
            BY <2>2, <3>2 DEF Message, Packet, Types
        <3>4. /\ ToServers("request", c, xid, lease.address) \in SUBSET Packet
              /\ \A msg \in ToServers("request", c, xid, lease.address) : msg.kind = "request"
            <4>1. \A s \in Server :
                    /\ Message("request", c, s, xid, lease.address) \in Packet
                    /\ Message("request", c, s, xid, lease.address).kind = "request"
                BY <2>2, <3>2 DEF Message, Packet, Types
            <4> QED
                BY <4>1 DEF ToServers
        <3> QED
            BY <3>3, <3>4
    <2>5. /\ network' \in SUBSET Packet
          /\ \A msg \in network' : msg.kind = "ack" => msg.address # 0
        BY <2>1, <2>4, SendMore
    <2> HIDE DEF M, xid
    <2>6. new \in ClientState /\ new.lease = cl.lease
        BY <1>0, <2>2 DEF ClientState
    <2> HIDE DEF new
    <2>7. RetryOK(c, new, generation[c], timers') /\ ExpiryOK(c, new, timers')
        BY <1>1, <1>4, <2>6 DEF RetryOK, Pending, ExpiryOK, ExpiryCurrent
    <2> HIDE DEF cl
    <2> QED
        BY <1>0, <1>1, <1>3, <2>1, <2>3, <2>5, <2>6, <2>7, ClientStep
<1> QED
    BY <1>6, <1>7

\* DhcpLeaseExpired: the client is without an address and asks again.
LEMMA ExpireLeaseStep ==
    ASSUME DhcpInv, NEW c \in Client, NEW t \in timers, ExpireLease(c, t)
    PROVE  DhcpInv'
<1> DEFINE cl == [client[c] EXCEPT !.lease = NoLease]
<1>1. client[c] \in ClientState /\ changes \in Nat
    BY ClientFacts
<1>2. cl \in ClientState /\ cl.lease = NoLease
    BY <1>1 DEF ClientState
<1>3. /\ t.client = c /\ ScheduleDhcpNow(c, cl, timers \ {t})
      /\ UNCHANGED <<lab, now, next_xid, server, network, changes>>
    BY DEF ExpireLease
<1> HIDE DEF cl
<1>4. ExpiryOK(c, cl, timers \ {t})
    BY <1>2 DEF ExpiryOK
<1>5. network' \in SUBSET network
    BY <1>3
<1> QED
    BY <1>1, <1>2, <1>3, <1>4, <1>5, ScheduleStep

-----------------------------------------------------------------------------
(* Messages to a server *)

\* What the invariant says of a server, its expired entries put aside.
LEMMA ServerFacts ==
    ASSUME DhcpInv, NEW s \in Server, NEW msg \in network
    PROVE  /\ Types /\ now \in Nat
           /\ server[s] \in ServerState(s) /\ Apart(server[s])
           /\ Expired(server[s]) \in ServerState(s) /\ Apart(Expired(server[s]))
           /\ msg \in Packet /\ msg.client \in Client
    BY ExpiredOK DEF DhcpInv, Types, ServersApart, Packet

\* The packets left after an answer; an ACK carries an address of the pool.
LEMMA AnswerOK ==
    ASSUME DhcpInv, NEW s \in Server, NEW msg \in network, NEW M \in SUBSET Packet,
           \A m \in M : m.kind = "ack" => m.address # 0,
           Answer(msg, M)
    PROVE  /\ network' \in SUBSET Packet
           /\ \A m \in network' : m.kind = "ack" => m.address # 0
BY DEF Answer, DhcpInv, Types, AcksGive

\* A discover is answered with an offer, when there is an address.
LEMMA HandleDiscoverStep ==
    ASSUME DhcpInv, NEW s \in Server, NEW msg \in network, HandleDiscover(s, msg)
    PROVE  DhcpInv'
<1> DEFINE sv == Expired(server[s])
           c == msg.client
<1>0. /\ Types /\ now \in Nat /\ sv \in ServerState(s) /\ Apart(sv)
      /\ msg \in Packet /\ c \in Client
    BY ServerFacts
<1>1. UNCHANGED <<lab, now, client, generation, next_xid, timers, changes>>
    BY DEF HandleDiscover
<1>2. CASE ~Offers(s, sv, c)
    <2>1. server' = [server EXCEPT ![s] = sv] /\ Answer(msg, {})
        BY <1>2 DEF HandleDiscover
    <2>2. /\ network' \in SUBSET Packet
          /\ \A m \in network' : m.kind = "ack" => m.address # 0
        BY <2>1, AnswerOK
    <2> HIDE DEF sv
    <2> QED
        BY <1>0, <1>1, <2>1, <2>2, ServerStep
<1>3. CASE Offers(s, sv, c)
    <2> DEFINE a == Choice(s, sv, c)
               M == {Message("offer", c, s, msg.xid, a)}
    <2>1. server' = [server EXCEPT ![s] = Offered(s, sv, c)] /\ Answer(msg, M)
        BY <1>3 DEF HandleDiscover
    <2> HIDE DEF sv, c
    <2>2. a \in Nat
        BY <1>0, <1>3, ChoiceOK, PoolType
    <2> HIDE DEF a
    <2>3. M \in SUBSET Packet /\ \A m \in M : m.kind # "ack"
        BY <1>0, <2>2 DEF Message, Packet, MessageKind
    <2>4. /\ network' \in SUBSET Packet
          /\ \A m \in network' : m.kind = "ack" => m.address # 0
        BY <2>1, <2>3, AnswerOK
    <2>5. Offered(s, sv, c) \in ServerState(s) /\ Apart(Offered(s, sv, c))
        BY <1>0, <1>3, OfferedOK
    <2> QED
        BY <1>1, <2>1, <2>4, <2>5, ServerStep
<1> QED
    BY <1>2, <1>3

\* A request is answered with an ACK for the address of the offer, or a NAK.
LEMMA HandleRequestStep ==
    ASSUME DhcpInv, NEW s \in Server, NEW msg \in network, HandleRequest(s, msg)
    PROVE  DhcpInv'
<1> DEFINE sv == Expired(server[s])
           c == msg.client
           a == Choice(s, sv, c)
           ack == Message("ack", c, s, msg.xid, msg.address)
           nak == Message("nak", c, s, msg.xid, 0)
<1>0. /\ Types /\ now \in Nat /\ sv \in ServerState(s) /\ Apart(sv)
      /\ msg \in Packet /\ c \in Client
    BY ServerFacts
<1>1. UNCHANGED <<lab, now, client, generation, next_xid, timers, changes>>
    BY DEF HandleRequest
<1>2. CASE ~Offers(s, sv, c)
    <2>1. server' = [server EXCEPT ![s] = sv] /\ Answer(msg, {})
        BY <1>2 DEF HandleRequest
    <2>2. /\ network' \in SUBSET Packet
          /\ \A m \in network' : m.kind = "ack" => m.address # 0
        BY <2>1, AnswerOK
    <2> HIDE DEF sv
    <2> QED
        BY <1>0, <1>1, <2>1, <2>2, ServerStep
<1>3. CASE Offers(s, sv, c)
    <2> DEFINE offered == Offered(s, sv, c)
    <2>1. \/ /\ a = msg.address
             /\ server' = [server EXCEPT ![s] = Committed(offered, c)]
             /\ Answer(msg, {ack})
          \/ /\ server' = [server EXCEPT ![s] = offered]
             /\ Answer(msg, {nak})
        BY <1>3 DEF HandleRequest
    <2> HIDE DEF sv, c
    <2>2. a \in Nat /\ a # 0
        BY <1>0, <1>3, ChoiceOK, PoolType
    <2> HIDE DEF a
    <2>3. nak \in Packet /\ nak.kind # "ack" /\ ack \in Packet /\ ack.address = msg.address
        BY <1>0 DEF Message, Packet, MessageKind
    <2> HIDE DEF ack, nak
    <2>4. /\ network' \in SUBSET Packet
          /\ \A m \in network' : m.kind = "ack" => m.address # 0
        BY <2>1, <2>2, <2>3, AnswerOK
    <2>5. /\ offered \in ServerState(s) /\ Apart(offered)
          /\ offered.offers[c].address \in Pool[s]
        BY <1>0, <1>3, OfferedOK
    <2> HIDE DEF offered
    <2>6. Committed(offered, c) \in ServerState(s) /\ Apart(Committed(offered, c))
        BY <1>0, <2>5, CommittedOK
    <2> QED
        BY <1>1, <2>1, <2>4, <2>5, <2>6, ServerStep
<1> QED
    BY <1>2, <1>3

\* decline_dhcp sets an address aside; the client has nothing then.
LEMMA HandleDeclineStep ==
    ASSUME DhcpInv, NEW s \in Server, NEW msg \in network, HandleDecline(s, msg)
    PROVE  DhcpInv'
<1> DEFINE sv == server[s]
           c == msg.client
           x == [address |-> msg.address, deadline |-> now + Quarantine]
           X == {y \in sv.conflicts : y.address # msg.address} \cup {x}
           new == [sv EXCEPT !.bindings[c] = NoEntry, !.offers[c] = NoEntry, !.conflicts = X]
<1>0. /\ Types /\ now \in Nat /\ sv \in ServerState(s) /\ Apart(sv)
      /\ msg \in Packet /\ c \in Client
    BY ServerFacts
<1>1. /\ server' = [server EXCEPT ![s] = sv] \/ server' = [server EXCEPT ![s] = new]
      /\ Answer(msg, {})
      /\ UNCHANGED <<lab, now, client, generation, next_xid, timers, changes>>
    <2>1. server = [server EXCEPT ![s] = sv]
        BY <1>0 DEF Types
    <2>2. Declined(sv, c, msg.address) = new
        BY DEF Declined
    <2> QED
        BY <2>1, <2>2 DEF HandleDecline
<1>2. x \in [address : Nat, deadline : Nat]
    BY <1>0 DEF Packet
<1>3. X \in SUBSET [address : Nat, deadline : Nat]
    BY <1>0, <1>2 DEF ServerState
<1>4. NoEntry \in EntryOf(s) /\ NoEntry.address = 0
    BY DEF EntryOf, NoEntry
<1> HIDE DEF c, sv, X
<1>5. new \in ServerState(s)
    BY <1>0, <1>3, <1>4 DEF ServerState
<1>6. /\ new.offers[c] = NoEntry /\ new.bindings[c] = NoEntry
      /\ \A d \in Client \ {c} : new.offers[d] = sv.offers[d] /\ new.bindings[d] = sv.bindings[d]
    BY <1>0 DEF ServerState
<1> HIDE DEF new
<1>7. Apart(new)
    BY <1>0, <1>4, <1>6 DEF Apart
<1>8. /\ network' \in SUBSET Packet
      /\ \A m \in network' : m.kind = "ack" => m.address # 0
    BY <1>1, AnswerOK
<1> QED
    BY <1>0, <1>1, <1>5, <1>7, <1>8, ServerStep

-----------------------------------------------------------------------------
(* Messages to a client *)

\* A message that leaves client c and the events as they are.
LEMMA ReadStep ==
    ASSUME DhcpInv, NEW c \in Client, NEW M \in SUBSET Packet,
           \A m \in M : m.kind # "ack",
           network' \in SUBSET (network \cup M),
           UNCHANGED <<lab, now, client, generation, next_xid, timers, server, changes>>
    PROVE  DhcpInv'
<1>1. /\ network' \in SUBSET Packet
      /\ \A msg \in network' : msg.kind = "ack" => msg.address # 0
    BY SendMore
<1>2. /\ client[c] \in ClientState /\ generation[c] \in Nat /\ next_xid \in Nat /\ changes \in Nat
      /\ generation = [generation EXCEPT ![c] = generation[c]]
      /\ client = [client EXCEPT ![c] = client[c]]
      /\ RetryOK(c, client[c], generation[c], timers)
      /\ ExpiryOK(c, client[c], timers)
    BY ClientFacts
<1>3. \A t \in timers' : t.kind = "expired" => t.key.deadline = t.time
    BY DEF DhcpInv, ExpiryTimers
<1> QED
    BY <1>1, <1>2, <1>3, ClientStep

\* begin_dhcp_probe: the probe and its event come together.
LEMMA HandleOfferStep ==
    ASSUME DhcpInv, NEW c \in Client, NEW msg \in network, HandleOffer(c, msg)
    PROVE  DhcpInv'
<1> DEFINE cl == client[c]
           probe == [xid |-> msg.xid, address |-> msg.address, server |-> msg.server]
           new == [cl EXCEPT !.probe = probe]
           t0 == Timer(now + ProbeTime, "probe", c, msg.xid)
           M == ToPeers("arp", c, msg.address)
<1>0. /\ cl \in ClientState /\ generation[c] \in Nat /\ next_xid \in Nat
      /\ now \in Nat /\ changes \in Nat
      /\ generation = [generation EXCEPT ![c] = generation[c]]
      /\ client = [client EXCEPT ![c] = cl]
      /\ RetryOK(c, cl, generation[c], timers)
      /\ ExpiryOK(c, cl, timers)
      /\ msg \in Packet /\ Types
    BY ClientFacts DEF DhcpInv, Types
<1>1. UNCHANGED <<lab, now, generation, next_xid, server, changes>>
    BY DEF HandleOffer
<1>2. CASE ~(ForClient(c, msg) /\ cl.probe = NoProbe)
    <2>1. network' = network \ {msg} /\ UNCHANGED <<client, timers>>
        BY <1>2 DEF HandleOffer, Answer
    <2>2. network' \in SUBSET (network \cup {}) /\ {} \in SUBSET Packet
        BY <2>1
    <2> QED
        BY <1>1, <2>1, <2>2, ReadStep
<1>3. CASE ForClient(c, msg) /\ cl.probe = NoProbe
    <2>1. /\ client' = [client EXCEPT ![c] = new]
          /\ timers' = timers \cup {t0}
          /\ network' = (network \ {msg}) \cup M
        BY <1>3 DEF HandleOffer, Answer, DhcpInv, Types, ClientState
    <2>2. probe \in Probe /\ probe.xid = msg.xid
        BY <1>0 DEF Packet, Probe
    <2> HIDE DEF probe
    <2>3. /\ new \in ClientState /\ new.lease = cl.lease /\ new.probe = probe
          /\ new.xid = cl.xid /\ new.dhcp = cl.dhcp
        <3> HIDE DEF cl
        <3> QED
            BY <1>0, <2>2 DEF ClientState
    <2>4. cl.xid = msg.xid
        BY <1>3 DEF ForClient
    <2>5. t0.kind = "probe" /\ t0.client = c /\ t0.key = msg.xid
        BY DEF Timer
    <2>6. M \in SUBSET Packet /\ \A m \in M : m.kind # "ack"
        <3>1. \A d \in Client : /\ Message("arp", c, d, 0, msg.address) \in Packet
                                /\ Message("arp", c, d, 0, msg.address).kind = "arp"
            BY <1>0 DEF Message, Packet, MessageKind
        <3> QED
            BY <3>1 DEF ToPeers
    <2> HIDE DEF M, t0, new
    <2>7. /\ network' \in SUBSET Packet
          /\ \A m \in network' : m.kind = "ack" => m.address # 0
        BY <2>1, <2>6, SendMore
    <2>8. RetryOK(c, new, generation[c], timers')
        BY <1>0, <2>1, <2>2, <2>3, <2>4, <2>5 DEF RetryOK, Pending
    <2>9. ExpiryOK(c, new, timers')
        BY <1>0, <2>1, <2>3 DEF ExpiryOK, ExpiryCurrent
    <2>10. \A t \in timers' : t.kind = "expired" => t.key.deadline = t.time
        BY <2>1, <2>5 DEF DhcpInv, ExpiryTimers
    <2> HIDE DEF cl
    <2> QED
        BY <1>0, <1>1, <2>1, <2>3, <2>7, <2>8, <2>9, <2>10, ClientStep
<1> QED
    BY <1>2, <1>3

\* An ACK gives a lease, and the event of its expiry.
LEMMA HandleAckStep ==
    ASSUME DhcpInv, NEW c \in Client, NEW msg \in network, HandleAck(c, msg)
    PROVE  DhcpInv'
<1> DEFINE cl == client[c]
           lease == [address |-> msg.address, server |-> msg.server,
                     renew_at |-> Renewal(now), rebind_at |-> Rebinding(now),
                     expires_at |-> LeaseEnd(now)]
           new == [cl EXCEPT !.lease = lease, !.xid = 0]
           t1 == Timer(lease.renew_at, "renew", c, lease.expires_at)
           t2 == Timer(lease.expires_at, "expired", c, ExpiryKey(lease))
<1>0. /\ cl \in ClientState /\ generation[c] \in Nat /\ next_xid \in Nat
      /\ now \in Nat /\ changes \in Nat
      /\ generation = [generation EXCEPT ![c] = generation[c]]
      /\ client = [client EXCEPT ![c] = cl]
      /\ RetryOK(c, cl, generation[c], timers)
      /\ ExpiryOK(c, cl, timers)
      /\ msg \in Packet /\ Types
    BY ClientFacts DEF DhcpInv, Types
<1>1. /\ UNCHANGED <<lab, now, generation, next_xid, server, changes>>
      /\ network' = network \ {msg}
    BY DEF HandleAck, Answer
<1>2. {} \in SUBSET Packet /\ network' \in SUBSET (network \cup {})
    BY <1>1
<1>3. CASE ~ForClient(c, msg)
    <2>1. UNCHANGED <<client, timers>>
        BY <1>3 DEF HandleAck
    <2> QED
        BY <1>1, <1>2, <2>1, ReadStep
<1>4. CASE ForClient(c, msg)
    <2>1. /\ client' = [client EXCEPT ![c] = new]
          /\ timers' = timers \cup {t1, t2}
        BY <1>4 DEF HandleAck, DhcpInv, Types, ClientState
    <2>2. lease \in Lease /\ lease.address # 0
        <3>1. msg.address # 0
            BY DEF HandleAck, Reaches, DhcpInv, AcksGive
        <3>2. Renewal(now) \in Nat /\ Rebinding(now) \in Nat /\ LeaseEnd(now) \in Nat
            BY <1>0 DEF Renewal, Rebinding, LeaseEnd
        <3> QED
            BY <1>0, <3>1, <3>2 DEF Packet, Lease
    <2>3. lease # NoLease
        BY <2>2 DEF NoLease
    <2>4. lease.expires_at \in Nat
        BY <2>2 DEF Lease
    <2> HIDE DEF lease
    <2>5. new \in ClientState /\ new.lease = lease
        <3>1. 0 \in Nat
            OBVIOUS
        <3> HIDE DEF cl
        <3> QED
            BY <1>0, <2>2, <3>1 DEF ClientState
    <2>6. /\ t1.kind = "renew" /\ t2.kind = "expired" /\ t2.client = c
          /\ t2.time = lease.expires_at
          /\ t2.key.address = lease.address /\ t2.key.deadline = lease.expires_at
        BY DEF Timer, ExpiryKey
    <2> HIDE DEF new, t1, t2
    <2>7. RetryOK(c, new, generation[c], timers')
        BY <2>3, <2>5 DEF RetryOK, Pending
    <2>8. ExpiryOK(c, new, timers')
        BY <2>1, <2>4, <2>5, <2>6 DEF ExpiryOK, ExpiryCurrent
    <2>9. \A t \in timers' : t.kind = "expired" => t.key.deadline = t.time
        BY <2>1, <2>6 DEF DhcpInv, ExpiryTimers
    <2>10. /\ network' \in SUBSET Packet
           /\ \A m \in network' : m.kind = "ack" => m.address # 0
        BY <1>2, SendMore
    <2> HIDE DEF cl
    <2> QED
        BY <1>0, <1>1, <2>1, <2>5, <2>7, <2>8, <2>9, <2>10, ClientStep
<1> QED
    BY <1>3, <1>4

\* A NAK takes the lease, and the client asks again.
LEMMA HandleNakStep ==
    ASSUME DhcpInv, NEW c \in Client, NEW msg \in network, HandleNak(c, msg)
    PROVE  DhcpInv'
<1> DEFINE cl == [client[c] EXCEPT !.lease = NoLease]
<1>1. /\ UNCHANGED <<lab, now, next_xid, server, changes>>
      /\ network' = network \ {msg}
    BY DEF HandleNak, Answer
<1>2. {} \in SUBSET Packet /\ network' \in SUBSET (network \cup {}) /\ network' \in SUBSET network
    BY <1>1
<1>3. CASE ~ForClient(c, msg)
    <2>1. UNCHANGED <<client, timers, generation>>
        BY <1>3 DEF HandleNak
    <2> QED
        BY <1>1, <1>2, <2>1, ReadStep
<1>4. CASE ForClient(c, msg)
    <2>1. client[c] \in ClientState /\ changes \in Nat
        BY ClientFacts
    <2>2. cl \in ClientState /\ cl.lease = NoLease
        BY <2>1 DEF ClientState
    <2>3. ScheduleDhcpNow(c, cl, timers) /\ timers \in SUBSET timers
        BY <1>4 DEF HandleNak
    <2> HIDE DEF cl
    <2>4. ExpiryOK(c, cl, timers)
        BY <2>2 DEF ExpiryOK
    <2> QED
        BY <1>1, <1>2, <2>1, <2>2, <2>3, <2>4, ScheduleStep
<1> QED
    BY <1>3, <1>4

\* observe_dhcp_conflict: the probe goes and the retry event stays.
LEMMA ConflictStep ==
    ASSUME DhcpInv, NEW c \in Client, client[c].probe # NoProbe,
           client' = [client EXCEPT ![c] = Declining(c)],
           NEW M \in SUBSET Packet, \A m \in M : m.kind # "ack",
           network' \in SUBSET (network \cup M \cup Decline(c)),
           UNCHANGED <<lab, now, generation, next_xid, timers, server, changes>>
    PROVE  DhcpInv'
<1> DEFINE cl == client[c]
           new == Declining(c)
<1>0. /\ cl \in ClientState /\ generation[c] \in Nat /\ next_xid \in Nat
      /\ now \in Nat /\ changes \in Nat
      /\ generation = [generation EXCEPT ![c] = generation[c]]
      /\ RetryOK(c, cl, generation[c], timers)
      /\ ExpiryOK(c, cl, timers)
    BY ClientFacts
<1>1. /\ new \in ClientState /\ new.lease = cl.lease /\ new.probe = NoProbe /\ new.dhcp = cl.dhcp
    <2>1. now + DeclineTime \in Nat /\ 0 \in Nat
        BY <1>0
    <2>2. new = [cl EXCEPT !.probe = NoProbe, !.xid = 0, !.retry_after = now + DeclineTime]
        BY DEF Declining
    <2> HIDE DEF cl, new
    <2> QED
        BY <1>0, <2>1, <2>2 DEF ClientState
<1>2. Decline(c) \in SUBSET Packet /\ \A m \in Decline(c) : m.kind # "ack"
    <2>1. cl.probe.xid \in Nat /\ cl.probe.address \in Nat
        BY <1>0 DEF ClientState, Probe
    <2>2. \A s \in Server :
            /\ Message("decline", c, s, cl.probe.xid, cl.probe.address) \in Packet
            /\ Message("decline", c, s, cl.probe.xid, cl.probe.address).kind = "decline"
        BY <1>0, <2>1 DEF Message, Packet, MessageKind
    <2> QED
        BY <2>2 DEF Decline
<1>3. /\ network' \in SUBSET Packet
      /\ \A m \in network' : m.kind = "ack" => m.address # 0
    BY <1>2 DEF DhcpInv, Types, AcksGive
<1> HIDE DEF new
<1>4. RetryOK(c, new, generation[c], timers')
    BY <1>0, <1>1 DEF RetryOK, Pending
<1>5. ExpiryOK(c, new, timers')
    BY <1>0, <1>1 DEF ExpiryOK, ExpiryCurrent
<1>6. \A t \in timers' : t.kind = "expired" => t.key.deadline = t.time
    BY DEF DhcpInv, ExpiryTimers
<1> HIDE DEF cl
<1> QED
    BY <1>0, <1>1, <1>3, <1>4, <1>5, <1>6, ClientStep DEF new

\* handle_arp
LEMMA HandleArpStep ==
    ASSUME DhcpInv, NEW c \in Client, NEW msg \in network, HandleArp(c, msg)
    PROVE  DhcpInv'
<1> DEFINE cl == client[c]
           M == IF cl.lease # NoLease /\ cl.lease.address = msg.address
                THEN {Message("reply", c, msg.client, 0, msg.address)} ELSE {}
<1>0. /\ cl \in ClientState /\ generation[c] \in Nat /\ next_xid \in Nat
      /\ now \in Nat /\ changes \in Nat
      /\ generation = [generation EXCEPT ![c] = generation[c]]
      /\ client = [client EXCEPT ![c] = cl]
      /\ RetryOK(c, cl, generation[c], timers)
      /\ ExpiryOK(c, cl, timers)
      /\ msg \in Packet /\ Types
    BY ClientFacts DEF DhcpInv, Types
<1>1. M \in SUBSET Packet /\ \A m \in M : m.kind # "ack"
    BY <1>0 DEF Message, Packet, MessageKind
<1>2. UNCHANGED <<lab, now, generation, next_xid, timers, server, changes>>
    BY DEF HandleArp
<1>3. CASE Conflicts(cl, msg)
    <2>1. client' = [client EXCEPT ![c] = Declining(c)] /\ Answer(msg, M \cup Decline(c))
        BY <1>3 DEF HandleArp
    <2>2. network' \in SUBSET (network \cup M \cup Decline(c))
        BY <2>1 DEF Answer
    <2>3. client[c].probe # NoProbe
        BY <1>3 DEF Conflicts
    <2> HIDE DEF M
    <2> QED
        BY <1>1, <1>2, <2>1, <2>2, <2>3, ConflictStep
<1>4. CASE ~Conflicts(cl, msg)
    <2>1. UNCHANGED client /\ Answer(msg, M)
        BY <1>4 DEF HandleArp
    <2>2. network' \in SUBSET (network \cup M)
        BY <2>1 DEF Answer
    <2> HIDE DEF M
    <2> QED
        BY <1>1, <1>2, <2>1, <2>2, ReadStep
<1> QED
    BY <1>3, <1>4

\* An answer to a probe.
LEMMA HandleReplyStep ==
    ASSUME DhcpInv, NEW c \in Client, NEW msg \in network, HandleReply(c, msg)
    PROVE  DhcpInv'
<1>1. UNCHANGED <<lab, now, generation, next_xid, timers, server, changes>>
    BY DEF HandleReply
<1>2. {} \in SUBSET Packet
    OBVIOUS
<1>3. CASE Conflicts(client[c], msg)
    <2>1. client' = [client EXCEPT ![c] = Declining(c)] /\ Answer(msg, Decline(c))
        BY <1>3 DEF HandleReply
    <2>2. network' \in SUBSET (network \cup {} \cup Decline(c))
        BY <2>1 DEF Answer
    <2>3. client[c].probe # NoProbe
        BY <1>3 DEF Conflicts
    <2> QED
        BY <1>1, <1>2, <2>1, <2>2, <2>3, ConflictStep
<1>4. CASE ~Conflicts(client[c], msg)
    <2>1. UNCHANGED client /\ Answer(msg, {})
        BY <1>4 DEF HandleReply
    <2>2. network' \in SUBSET (network \cup {})
        BY <2>1 DEF Answer
    <2> QED
        BY <1>1, <1>2, <2>1, <2>2, ReadStep
<1> QED
    BY <1>3, <1>4

-----------------------------------------------------------------------------
(* The environment *)

\* The link of a client changes.
LEMMA ChangeLinkStep ==
    ASSUME DhcpInv, NEW c \in Client, ChangeLink(c)
    PROVE  DhcpInv'
<1> DEFINE cl == client[c]
           new == [cl EXCEPT !.up = ~cl.up]
<1>0. /\ cl \in ClientState /\ generation[c] \in Nat /\ next_xid \in Nat /\ changes \in Nat
      /\ generation = [generation EXCEPT ![c] = generation[c]]
      /\ RetryOK(c, cl, generation[c], timers)
      /\ ExpiryOK(c, cl, timers)
    BY ClientFacts
<1>1. /\ client' = [client EXCEPT ![c] = new] /\ changes' = changes + 1
      /\ UNCHANGED <<lab, now, generation, next_xid, timers, server, network>>
    BY DEF ChangeLink, DhcpInv, Types, ClientState
<1>2. /\ new \in ClientState /\ new.lease = cl.lease /\ new.probe = cl.probe
      /\ new.xid = cl.xid /\ new.dhcp = cl.dhcp
    <2> HIDE DEF cl
    <2> QED
        BY <1>0 DEF ClientState
<1> HIDE DEF new
<1>3. RetryOK(c, new, generation[c], timers') /\ ExpiryOK(c, new, timers')
    BY <1>0, <1>1, <1>2 DEF RetryOK, Pending, ExpiryOK, ExpiryCurrent
<1>4. /\ network' \in SUBSET Packet
      /\ \A m \in network' : m.kind = "ack" => m.address # 0
      /\ \A t \in timers' : t.kind = "expired" => t.key.deadline = t.time
    BY <1>1 DEF DhcpInv, Types, AcksGive, ExpiryTimers
<1>5. changes' \in Nat
    BY <1>0, <1>1
<1> HIDE DEF cl
<1> QED
    BY <1>0, <1>1, <1>2, <1>3, <1>4, <1>5, ClientStep

\* A configuration edit keeps the lease, or takes it, and schedules again.
LEMMA EditStep ==
    ASSUME DhcpInv, NEW c \in Client, NEW dhcp \in BOOLEAN, Edit(c, dhcp)
    PROVE  DhcpInv'
<1> DEFINE cl == client[c]
           lease == IF dhcp /\ cl.dhcp THEN cl.lease ELSE NoLease
           new == [cl EXCEPT !.dhcp = dhcp, !.lease = lease]
<1>0. cl \in ClientState /\ changes \in Nat /\ ExpiryOK(c, cl, timers)
    BY ClientFacts
<1>1. /\ ScheduleDhcpNow(c, new, timers) /\ changes' = changes + 1
      /\ UNCHANGED <<lab, now, next_xid, server, network>>
    BY DEF Edit
<1>2. lease \in {NoLease} \cup Lease /\ lease \in {NoLease, cl.lease}
    BY <1>0 DEF ClientState
<1> HIDE DEF lease
<1>3. new \in ClientState /\ new.lease = lease
    <2> HIDE DEF cl
    <2> QED
        BY <1>0, <1>2 DEF ClientState
<1> HIDE DEF new
<1>4. ExpiryOK(c, new, timers)
    BY <1>0, <1>2, <1>3 DEF ExpiryOK, ExpiryCurrent
<1>5. timers \in SUBSET timers /\ network' \in SUBSET network /\ changes' \in Nat
    BY <1>0, <1>1
<1> QED
    BY <1>1, <1>3, <1>4, <1>5, ScheduleStep

\* Every action keeps the invariant.
LEMMA DhcpInvNext ==
    ASSUME DhcpInv, [Next]_vars
    PROVE  DhcpInv'
<1>1. CASE \E c \in Client, t \in timers :
             Discover(c, t) \/ Ignore(c, t) \/ FinishProbe(c, t) \/ Renew(c, t) \/ ExpireLease(c, t)
    BY <1>1, DiscoverStep, IgnoreStep, FinishProbeStep, RenewStep, ExpireLeaseStep
<1>2. CASE \E s \in Server, msg \in network :
             HandleDiscover(s, msg) \/ HandleRequest(s, msg) \/ HandleDecline(s, msg)
    BY <1>2, HandleDiscoverStep, HandleRequestStep, HandleDeclineStep
<1>3. CASE \E c \in Client, msg \in network :
             \/ HandleOffer(c, msg) \/ HandleAck(c, msg) \/ HandleNak(c, msg)
             \/ HandleArp(c, msg) \/ HandleReply(c, msg)
    BY <1>3, HandleOfferStep, HandleAckStep, HandleNakStep, HandleArpStep, HandleReplyStep
<1>4. CASE \E msg \in network : Lose(msg)
    <2>1. PICK msg \in network : Lose(msg)
        BY <1>4
    <2>2. /\ network' = network \ {msg}
          /\ UNCHANGED <<lab, now, client, generation, next_xid, timers, server, changes>>
        BY <2>1 DEF Lose
    <2>3. network' \in SUBSET (network \cup {}) /\ {} \in SUBSET Packet
        BY <2>2
    <2>4. msg.client \in Client
        BY DEF DhcpInv, Types, Packet
    <2> QED
        BY <2>2, <2>3, <2>4, ReadStep
<1>5. CASE \E c \in Client : ChangeLink(c) \/ \E dhcp \in BOOLEAN : Edit(c, dhcp)
    BY <1>5, ChangeLinkStep, EditStep
<1>6. CASE Tick \/ UNCHANGED vars
    <2>1. /\ now' \in Nat
          /\ UNCHANGED <<lab, client, generation, next_xid, timers, server, network, changes>>
        BY <1>6 DEF Tick, vars, DhcpInv, Types
    <2>2. Types'
        BY <2>1 DEF DhcpInv, Types, Client, Server, ClientState, Lease, Probe, ServerState, EntryOf, Packet
    <2>3. AcksGive' /\ ServersApart' /\ ExpiryTimers'
        BY <2>1 DEF DhcpInv, AcksGive, ServersApart, Apart, Client, Server, ExpiryTimers
    <2>4. Armed'
        BY <2>1 DEF DhcpInv, Armed, RetryOK, ExpiryOK, Client, Pending, ExpiryCurrent
    <2> QED
        BY <2>2, <2>3, <2>4 DEF DhcpInv
<1> QED
    BY <1>1, <1>2, <1>3, <1>4, <1>5, <1>6 DEF Next

\* The inductive invariant holds in every reachable state.
THEOREM DhcpInvariant == Spec => []DhcpInv
<1>1. Init => DhcpInv
    <2> SUFFICES ASSUME Init PROVE DhcpInv
        OBVIOUS
    <2>1. lab \in Labs /\ now = 0 /\ next_xid = 0 /\ network = {} /\ changes = 0
        BY DEF Init
    <2>2. client \in [Client -> ClientState] /\ generation \in [Client -> Nat]
        BY DEF Init, ClientState, Lease, Probe, NoLease, NoProbe
    <2>3. server = [s \in Server |-> server[s]] /\ \A s \in Server : server[s] \in ServerState(s)
        BY DEF Init, ServerState, EntryOf
    <2>4. ServersApart
        BY DEF Init, ServersApart, Apart, NoEntry
    <2>5. \A c \in Client : /\ client[c].lease = NoLease /\ client[c].probe = NoProbe
                            /\ generation[c] = 1
        BY DEF Init
    <2>6. /\ \A t \in timers : t.kind = "client"
          /\ \A c \in Client : \E t \in timers : t.kind = "client" /\ t.client = c /\ t.key = 1
        <3> DEFINE T(c) == [time |-> 0, kind |-> "client", client |-> c, key |-> 1]
        <3>1. timers = {T(c) : c \in Client}
            BY DEF Init
        <3>2. \A c : T(c).kind = "client" /\ T(c).client = c /\ T(c).key = 1
            OBVIOUS
        <3> HIDE DEF T
        <3> QED
            BY <3>1, <3>2
    <2>7. Armed /\ ExpiryTimers
        BY <2>5, <2>6 DEF Armed, RetryOK, ExpiryOK, ExpiryTimers
    <2> QED
        BY <2>1, <2>2, <2>3, <2>4, <2>7 DEF DhcpInv, Types, AcksGive
<1> QED
    BY <1>1, DhcpInvNext, PTL DEF Spec

-----------------------------------------------------------------------------
(* What follows from it *)

\* offer_dhcp_on_network and commit_dhcp never reserve one address for two
\* clients, whatever has expired, been declined or been offered before.
THEOREM DhcpNoDoubleReservation == Spec => []NoDoubleReservation
<1>1. DhcpInv => NoDoubleReservation
    <2> SUFFICES ASSUME DhcpInv, NEW s \in Server PROVE Apart(Expired(server[s]))
        BY DEF NoDoubleReservation, Apart
    <2> QED
        BY ExpiredOK DEF DhcpInv, Types, ServersApart
<1> QED
    BY <1>1, DhcpInvariant, PTL

\* A client that needs an address has its DhcpClient event pending, and its
\* probe the DhcpProbe event, whatever is lost, late or reconfigured.
THEOREM DhcpRetryArmed == Spec => []RetryArmed
<1>1. DhcpInv => RetryArmed
    BY DEF DhcpInv, Armed, RetryOK, RetryArmed
<1> QED
    BY <1>1, DhcpInvariant, PTL

\* A lease in use always has its DhcpLeaseExpired event pending.
THEOREM DhcpExpiryArmed == Spec => []ExpiryArmed
<1>1. DhcpInv => ExpiryArmed
    BY DEF DhcpInv, Armed, ExpiryOK, ExpiryArmed
<1> QED
    BY <1>1, DhcpInvariant, PTL

\* "Stale timers cannot remove renewed leases": expire_dhcp_lease compares
\* what the event says with the lease that the client has now.
THEOREM DhcpNoEarlyExpiry == Spec => NoEarlyExpiry
<1> DEFINE A == \A c \in Client :
                    /\ client[c].lease # NoLease /\ client'[c].lease = NoLease
                    /\ changes' = changes
                    /\ network' = network
                    => client[c].lease.expires_at <= now
<1>1. ASSUME DhcpInv, [Next]_vars PROVE [A]_vars
    <2> SUFFICES ASSUME Next, NEW c \in Client,
                        client[c].lease # NoLease, client'[c].lease = NoLease,
                        changes' = changes, network' = network
                 PROVE  client[c].lease.expires_at <= now
        BY <1>1
    <2>0. /\ client \in [Client -> ClientState] /\ next_xid \in Nat /\ changes \in Nat
          /\ now \in Nat
        BY <1>1 DEF DhcpInv, Types
    <2>1. ASSUME NEW d \in Client, NEW t \in timers, ExpireLease(d, t)
          PROVE  client[c].lease.expires_at <= now
        <3>1. t.time = now /\ t.kind = "expired" /\ ExpiryCurrent(client[d], t.key)
            BY <2>1 DEF ExpireLease, Due
        <3>2. t.key.deadline = now
            BY <1>1, <3>1 DEF DhcpInv, ExpiryTimers
        <3>3. c # d => client'[c] = client[c]
            BY <2>0, <2>1 DEF ExpireLease, ScheduleDhcpNow
        <3> QED
            BY <3>1, <3>2, <3>3 DEF ExpiryCurrent
    <2>2. ASSUME NEW d \in Client, NEW t \in timers,
                 Discover(d, t) \/ Ignore(d, t) \/ FinishProbe(d, t) \/ Renew(d, t)
          PROVE  client'[c].lease = client[c].lease
        <3>1. CASE Discover(d, t)
            BY <2>0, <3>1 DEF Discover, ClientState
        <3>2. CASE Ignore(d, t)
            BY <3>2 DEF Ignore
        <3>3. CASE FinishProbe(d, t)
            BY <2>0, <3>3 DEF FinishProbe, ClientState
        <3>4. CASE Renew(d, t)
            BY <2>0, <3>4 DEF Renew, ClientState
        <3> QED
            BY <2>2, <3>1, <3>2, <3>3, <3>4
    <2>3. ASSUME NEW s \in Server, NEW msg \in network,
                 HandleDiscover(s, msg) \/ HandleRequest(s, msg) \/ HandleDecline(s, msg)
          PROVE  client' = client
        BY <2>3 DEF HandleDiscover, HandleRequest, HandleDecline
    <2>4. ASSUME NEW d \in Client, NEW msg \in network,
                 HandleOffer(d, msg) \/ HandleArp(d, msg) \/ HandleReply(d, msg)
          PROVE  client'[c].lease = client[c].lease
        <3>1. CASE HandleOffer(d, msg)
            BY <2>0, <3>1 DEF HandleOffer, ClientState
        <3>2. CASE HandleArp(d, msg) \/ HandleReply(d, msg)
            <4>1. client' = client \/ client' = [client EXCEPT ![d] = Declining(d)]
                BY <3>2 DEF HandleArp, HandleReply
            <4>2. Declining(d).lease = client[d].lease
                BY <2>0 DEF Declining, ClientState
            <4> QED
                BY <2>0, <4>1, <4>2
        <3> QED
            BY <2>4, <3>1, <3>2
    <2>5. ASSUME NEW d \in Client, NEW msg \in network, HandleNak(d, msg) \/ HandleAck(d, msg)
          PROVE  network' # network
        <3>1. network' = network \ {msg}
            BY <2>5 DEF HandleNak, HandleAck, Answer
        <3> QED
            BY <3>1
    <2>6. ASSUME NEW d \in Client, ChangeLink(d) \/ \E dhcp \in BOOLEAN : Edit(d, dhcp)
          PROVE  changes' # changes
        <3>1. changes' = changes + 1
            BY <2>6 DEF ChangeLink, Edit
        <3> QED
            BY <2>0, <3>1
    <2>7. ASSUME (\E msg \in network : Lose(msg)) \/ Tick PROVE client' = client
        BY <2>7 DEF Lose, Tick
    <2> QED
        BY <2>1, <2>2, <2>3, <2>4, <2>5, <2>6, <2>7 DEF Next
<1> QED
    BY <1>1, DhcpInvariant, PTL DEF Spec, NoEarlyExpiry

-----------------------------------------------------------------------------
(* No address is used twice.  The rest of the module follows an address from  *)
(* the offer to the lease, in time: what a client does to get an address comes *)
(* to nothing while another client uses it, because the server remembers that *)
(* client until the request arrives, or the lease ends before the probe does. *)

Asking == {"discover", "offer"}

Taking == {"request", "ack"}

\* A message arrives in time, belongs to a transaction that was begun, and
\* gives an address of the server that sent it.
MessageOK(m) ==
    /\ m.sent <= now /\ now <= m.sent + MaxDelay
    /\ m.kind \in Asking \cup Taking => m.server \in Server /\ m.xid \in 1 .. next_xid
    /\ m.kind \in {"offer", "ack"} => m.address \in Pool[m.server]
    /\ m.kind = "decline" => m.address # 0

\* An event is yet to come, and a probe takes ProbeTime.
TimerOK(t) ==
    /\ t.time \in Nat /\ now <= t.time
    /\ t.kind = "probe" => t.key \in 1 .. next_xid /\ t.time <= now + ProbeTime

\* A client probes and uses addresses that servers gave it.  A probe that was
\* overtaken by the answer of another server is not of the address in use.
ClientOK(cl, last) ==
    /\ cl.xid <= last
    /\ cl.probe # NoProbe => /\ cl.probe.xid \in 1 .. last
                             /\ cl.probe.server \in Server
                             /\ cl.probe.address \in Pool[cl.probe.server]
    /\ cl.lease # NoLease => /\ cl.lease.server \in Server
                             /\ cl.lease.address \in Pool[cl.lease.server]
    /\ cl.lease # NoLease /\ cl.probe # NoProbe =>
          cl.probe.xid # cl.xid /\ cl.probe.address # cl.lease.address
    /\ cl.lease = NoLease /\ cl.probe # NoProbe => cl.probe.xid = cl.xid

\* A message of the exchange that c, in state cl, has with a server.
Current(c, cl, m) == m.client = c /\ m.xid = cl.xid /\ m.kind \in Asking \cup Taking

\* The exchange with a server is at one point: while it asks, in one message.
OneAtATime(c, cl, N) ==
    \A m, n \in N : /\ Current(c, cl, m) /\ m.kind \in Asking
                    /\ Current(c, cl, n) /\ m.server = n.server
                    => m = n

\* A client that probes has nothing under way with the server of the probe, and
\* one with a lease only prolongs it.
Consistent(cl, m) ==
    /\ cl.probe # NoProbe /\ cl.probe.xid = cl.xid => m.server # cl.probe.server
    /\ cl.lease # NoLease => m.kind \in Taking /\ m.address = cl.lease.address

ProbeTimer(c, cl, t) == t.kind = "probe" /\ t.client = c /\ t.key = cl.xid

\* The event of the probe is there for a probe, and once.
OneProbe(c, cl, T) ==
    \A t, u \in T : ProbeTimer(c, cl, t) /\ ProbeTimer(c, cl, u) =>
        t = u /\ cl.probe # NoProbe /\ cl.probe.xid = cl.xid

\* While a DHCPDECLINE is under way its client pauses and keeps what it has.
DeclineOK(m, cl) ==
    m.kind = "decline" =>
        /\ m.sent + DeclineTime <= cl.retry_after
        /\ cl.lease = NoLease => cl.xid = 0
        /\ cl.lease # NoLease => cl.lease.address # m.address

\* In S, a server has bound client c to the address of the lease until after t.
Bound(c, lease, S, t) ==
    /\ S[lease.server].bindings[c].address = lease.address
    /\ t < S[lease.server].bindings[c].expires_at

\* What an ACK says is what its server has noted.
AckBound(c, cl, m, S) ==
    Current(c, cl, m) /\ m.kind = "ack" =>
        /\ S[m.server].bindings[c].address = m.address
        /\ m.sent + LeaseTime <= S[m.server].bindings[c].expires_at

\* What the messages N and the events T say of client c.
ExchangeOK(c, cl, N, T, S) ==
    /\ OneAtATime(c, cl, N)
    /\ OneProbe(c, cl, T)
    /\ \A m \in N : /\ Current(c, cl, m) => Consistent(cl, m)
                    /\ m.client = c => DeclineOK(m, cl)
                    /\ AckBound(c, cl, m, S)

\* The server forgets a lease by one delay before the client does, no sooner.
LeaseBound(c, lease, S) ==
    lease # NoLease =>
        \/ lease.expires_at <= now + MaxDelay
        \/ /\ S[lease.server].bindings[c].address = lease.address
           /\ lease.expires_at <= S[lease.server].bindings[c].expires_at + MaxDelay

\* No address is both set aside and reserved, and a server offers a client what
\* it is bound to.
TableOK(sv) ==
    /\ \A x \in sv.conflicts, c \in Client :
          /\ x.address # sv.offers[c].address
          /\ x.address # sv.bindings[c].address
          /\ x.address # 0
    /\ \A c \in Client :
          /\ sv.offers[c] # NoEntry /\ now < sv.bindings[c].expires_at =>
                sv.offers[c].address = sv.bindings[c].address
          /\ sv.bindings[c].expires_at <= now + LeaseTime

\* What client d, in state cl, does comes to nothing while c uses the lease.
Excluded(c, lease, d, cl, m, S) ==
    Current(d, cl, m) /\ m.address = lease.address =>
        /\ m.kind # "ack"
        /\ m.kind = "request" => Bound(c, lease, S, m.sent + MaxDelay)
        /\ m.kind = "offer" => \/ lease.expires_at < m.sent + ProbeTime
                               \/ Bound(c, lease, S, m.sent + 2 * MaxDelay + ProbeTime)

ProbeExcluded(c, lease, d, cl, t, S) ==
    /\ ProbeTimer(d, cl, t)
    /\ cl.probe # NoProbe /\ cl.probe.address = lease.address
    => lease.expires_at < t.time \/ Bound(c, lease, S, t.time + MaxDelay)

Excludes(c, lease, d, cl, N, T, S) ==
    lease # NoLease =>
        /\ cl.lease # NoLease => cl.lease.address # lease.address
        /\ \A m \in N : Excluded(c, lease, d, cl, m, S)
        /\ \A t \in T : ProbeExcluded(c, lease, d, cl, t, S)

UseInv ==
    /\ \A m \in network : MessageOK(m)
    /\ \A t \in timers : TimerOK(t)
    /\ \A s \in Server : TableOK(server[s])
    /\ \A c \in Client : /\ ClientOK(client[c], next_xid)
                         /\ ExchangeOK(c, client[c], network, timers, server)
                         /\ LeaseBound(c, client[c].lease, server)
    /\ \A c, d \in Client : c # d =>
          Excludes(c, client[c].lease, d, client[d], network, timers, server)

-----------------------------------------------------------------------------
(* What the parts of the invariant say *)

\* The times of the code, and the pools of the servers.
LEMMA Times ==
    /\ {LeaseTime, OfferTime, RetryTime, ProbeTime, DeclineTime, Quarantine, MaxDelay} \subseteq Nat
    /\ MaxDelay < ProbeTime /\ MaxDelay < DeclineTime
    /\ 3 * MaxDelay + ProbeTime < LeaseTime
BY DhcpTiming

\* An address is of one server.
LEMMA OneServer ==
    ASSUME Types, NEW s \in Server, NEW t \in Server, NEW a \in Pool[s], a \in Pool[t]
    PROVE  s = t
BY DhcpTiming DEF Types, Server

\* The entries of a server have times and addresses.
LEMMA EntryType ==
    ASSUME Types, NEW s \in Server, NEW c \in Client
    PROVE  /\ server[s].bindings[c].address \in Nat /\ server[s].bindings[c].expires_at \in Nat
           /\ server[s].offers[c].address \in Nat /\ server[s].offers[c].expires_at \in Nat
<1>1. server[s].bindings[c] \in EntryOf(s) /\ server[s].offers[c] \in EntryOf(s)
    BY DEF Types, ServerState
<1>2. Pool[s] \in SUBSET Nat
    BY PoolType
<1> QED
    BY <1>1, <1>2 DEF EntryOf, NoEntry

\* A message of an exchange, or the event of a probe, is of a transaction.
LEMMA NoTransaction ==
    ASSUME UseInv, NEW c, NEW cl, cl.xid = 0
    PROVE  /\ \A m \in network : ~Current(c, cl, m)
           /\ \A t \in timers : ~ProbeTimer(c, cl, t)
BY DEF UseInv, MessageOK, TimerOK, Current, ProbeTimer

\* A client without a transaction has nothing under way.
LEMMA IdleExchange ==
    ASSUME NEW c, NEW cl, NEW N, NEW T, NEW S,
           \A m \in N : ~Current(c, cl, m) /\ (m.client = c => DeclineOK(m, cl)),
           \A t \in T : ~ProbeTimer(c, cl, t)
    PROVE  ExchangeOK(c, cl, N, T, S)
BY DEF ExchangeOK, OneAtATime, OneProbe, AckBound

\* ... and is in the way of nobody.
LEMMA IdleExcluded ==
    ASSUME NEW c, NEW lease, NEW d, NEW cl, NEW N, NEW T, NEW S,
           cl.lease # NoLease /\ lease # NoLease => cl.lease.address # lease.address,
           \A m \in N : ~Current(d, cl, m),
           \A t \in T : ~ProbeTimer(d, cl, t)
    PROVE  Excludes(c, lease, d, cl, N, T, S)
BY DEF Excludes, Excluded, ProbeExcluded

\* With fewer messages and events less is under way.
LEMMA FewerExchange ==
    ASSUME NEW c, NEW cl, NEW N, NEW T, NEW S, NEW M, NEW U,
           ExchangeOK(c, cl, N, T, S),
           \A m \in M : m.client = c => m \in N, \A t \in U : t.client = c => t \in T
    PROVE  ExchangeOK(c, cl, M, U, S)
BY DEF ExchangeOK, OneAtATime, OneProbe, AckBound, Current, ProbeTimer

\* ... and less has to be excluded.
LEMMA FewerExcluded ==
    ASSUME NEW c, NEW lease, NEW d, NEW cl, NEW N, NEW T, NEW S, NEW M, NEW U,
           Excludes(c, lease, d, cl, N, T, S),
           \A m \in M : m.client = d => m \in N, \A t \in U : t.client = d => t \in T
    PROVE  Excludes(c, lease, d, cl, M, U, S)
BY DEF Excludes, Excluded, ProbeExcluded, Current, ProbeTimer

-----------------------------------------------------------------------------
(* A step of a client *)

\* What a step of client c owes: the servers and the other clients stay, and
\* what is new in the network and among the events is of c.
LEMMA ClientUse ==
    ASSUME DhcpInv, UseInv, NEW c \in Client, NEW cl,
           client' = [client EXCEPT ![c] = cl],
           UNCHANGED <<lab, now, server>>,
           next_xid' \in Nat, next_xid <= next_xid',
           \A m \in network' : m \in network \/ (m.client = c /\ MessageOK(m)'),
           \A t \in timers' : t \in timers \/ (t.client = c /\ TimerOK(t)'),
           ClientOK(cl, next_xid'),
           ExchangeOK(c, cl, network', timers', server),
           LeaseBound(c, cl.lease, server),
           \A d \in Client \ {c} :
              /\ Excludes(c, cl.lease, d, client[d], network, timers, server)
              /\ Excludes(d, client[d].lease, c, cl, network', timers', server)
    PROVE  UseInv'
<1>0. /\ next_xid \in Nat /\ now \in Nat
      /\ client'[c] = cl /\ \A d \in Client \ {c} : client'[d] = client[d]
    BY DEF DhcpInv, Types
<1>1. \A m \in network : MessageOK(m)'
    BY <1>0 DEF UseInv, MessageOK, Server
<1>2. \A t \in timers : TimerOK(t)'
    BY <1>0 DEF UseInv, TimerOK
<1>3. \A s \in Server : TableOK(server[s])'
    BY DEF UseInv, TableOK, Server, Client
<1>4. ASSUME NEW d \in Client
      PROVE  /\ ClientOK(client[d], next_xid)'
             /\ ExchangeOK(d, client[d], network, timers, server)'
             /\ LeaseBound(d, client[d].lease, server)'
    <2>1. CASE d = c
        <3>1. ClientOK(client[d], next_xid)'
            BY <1>0, <2>1 DEF ClientOK, Server
        <3>2. LeaseBound(d, client[d].lease, server)'
            BY <1>0, <2>1 DEF LeaseBound
        <3> QED
            BY <1>0, <2>1, <3>1, <3>2
    <2>2. CASE d # c
        <3>1. client'[d] = client[d]
            BY <1>0, <2>2
        <3>2. /\ ClientOK(client[d], next_xid) /\ LeaseBound(d, client[d].lease, server)
              /\ ExchangeOK(d, client[d], network, timers, server)
            BY DEF UseInv
        <3>3. client[d].xid \in Nat
            BY DEF DhcpInv, Types, ClientState
        <3>4. ClientOK(client[d], next_xid)'
            BY <1>0, <3>1, <3>2, <3>3 DEF ClientOK, Server
        <3>5. LeaseBound(d, client[d].lease, server)'
            BY <3>1, <3>2 DEF LeaseBound
        <3>6. ExchangeOK(d, client[d], network', timers', server)
            BY <2>2, <3>2, FewerExchange
        <3> QED
            BY <3>1, <3>4, <3>5, <3>6
    <2> QED
        BY <2>1, <2>2
<1>5. ASSUME NEW d \in Client, NEW e \in Client, d # e
      PROVE  Excludes(d, client[d].lease, e, client[e], network, timers, server)'
    <2>1. CASE d = c
        BY <1>0, <1>5, <2>1, FewerExcluded
    <2>2. CASE e = c
        BY <1>0, <1>5, <2>2
    <2>3. CASE d # c /\ e # c
        <3>1. Excludes(d, client[d].lease, e, client[e], network, timers, server)
            BY <1>5 DEF UseInv
        <3>2. Excludes(d, client[d].lease, e, client[e], network', timers', server)
            BY <2>3, <3>1, FewerExcluded
        <3> QED
            BY <1>0, <2>3, <3>2
    <2> QED
        BY <2>1, <2>2, <2>3
<1> QED
    BY <1>1, <1>2, <1>3, <1>4, <1>5 DEF UseInv, Server, Client

\* A client that stays in its exchange, and sends ARP at most.
LEMMA StayUse ==
    ASSUME DhcpInv, UseInv, NEW c \in Client, NEW cl,
           client' = [client EXCEPT ![c] = cl],
           cl.lease = client[c].lease, cl.probe = client[c].probe,
           cl.xid = client[c].xid, cl.retry_after = client[c].retry_after,
           UNCHANGED <<lab, now, server, next_xid>>,
           \A m \in network' : \/ m \in network
                               \/ m.client = c /\ m.kind \in {"arp", "reply"} /\ m.sent = now,
           \A t \in timers' : \/ t \in timers
                              \/ t.client = c /\ t.kind # "probe" /\ TimerOK(t)
    PROVE  UseInv'
<1>0. next_xid \in Nat /\ now \in Nat
    BY DEF DhcpInv, Types
<1>1. /\ ClientOK(client[c], next_xid) /\ LeaseBound(c, client[c].lease, server)
      /\ ExchangeOK(c, client[c], network, timers, server)
      /\ \A d \in Client \ {c} :
            /\ Excludes(c, client[c].lease, d, client[d], network, timers, server)
            /\ Excludes(d, client[d].lease, c, client[c], network, timers, server)
    BY DEF UseInv
<1>2. \A m \in network' : m \in network \/ (m.client = c /\ MessageOK(m)')
    BY <1>0, Times DEF MessageOK, Asking, Taking
<1>3. \A t \in timers' : t \in timers \/ (t.client = c /\ TimerOK(t)')
    BY DEF TimerOK
<1>4. ClientOK(cl, next_xid')
    BY <1>1 DEF ClientOK
<1>5. /\ \A m : Current(c, cl, m) = Current(c, client[c], m)
      /\ \A t : ProbeTimer(c, cl, t) = ProbeTimer(c, client[c], t)
      /\ \A m \in network' : /\ Current(c, cl, m) => m \in network
                             /\ m.kind = "decline" => m \in network
      /\ \A t \in timers' : ProbeTimer(c, cl, t) => t \in timers
    BY DEF Current, ProbeTimer, Asking, Taking
<1>6. ExchangeOK(c, cl, network', timers', server)
    <2>1. OneAtATime(c, cl, network') /\ OneProbe(c, cl, timers')
        BY <1>1, <1>5 DEF ExchangeOK, OneAtATime, OneProbe
    <2>2. \A m \in network' : /\ Current(c, cl, m) => Consistent(cl, m)
                              /\ AckBound(c, cl, m, server)
        BY <1>1, <1>5 DEF ExchangeOK, Consistent, AckBound
    <2>3. \A m \in network' : m.client = c => DeclineOK(m, cl)
        BY <1>1, <1>5 DEF ExchangeOK, DeclineOK
    <2> QED
        BY <2>1, <2>2, <2>3 DEF ExchangeOK
<1>7. \A d \in Client \ {c} : Excludes(d, client[d].lease, c, cl, network', timers', server)
    BY <1>1, <1>5 DEF Excludes, Excluded, ProbeExcluded
<1>8. /\ UNCHANGED <<lab, now, server>> /\ next_xid' \in Nat /\ next_xid <= next_xid'
      /\ LeaseBound(c, cl.lease, server)
      /\ \A d \in Client \ {c} :
            /\ Excludes(c, cl.lease, d, client[d], network, timers, server)
            /\ Excludes(d, client[d].lease, c, cl, network', timers', server)
    BY <1>0, <1>1, <1>7
<1> QED
    BY <1>2, <1>3, <1>4, <1>6, <1>8, ClientUse

\* A client that keeps its state altogether.
LEMMA SameUse ==
    ASSUME DhcpInv, UseInv, NEW c \in Client,
           UNCHANGED <<lab, now, server, next_xid, client>>,
           \A m \in network' : \/ m \in network
                               \/ m.client = c /\ m.kind \in {"arp", "reply"} /\ m.sent = now,
           \A t \in timers' : \/ t \in timers
                              \/ t.client = c /\ t.kind # "probe" /\ TimerOK(t)
    PROVE  UseInv'
<1>1. client' = [client EXCEPT ![c] = client[c]]
    BY DEF DhcpInv, Types
<1> DEFINE cl == client[c]
<1>2. /\ client' = [client EXCEPT ![c] = cl]
      /\ cl.lease = client[c].lease /\ cl.probe = client[c].probe
      /\ cl.xid = client[c].xid /\ cl.retry_after = client[c].retry_after
    BY <1>1
<1> HIDE DEF cl
<1> QED
    BY <1>2, StayUse

\* A client that leaves its exchange, with the lease or without it.  It may
\* decline an address that it does not use.
LEMMA ForgetUse ==
    ASSUME DhcpInv, UseInv, NEW c \in Client, NEW cl,
           client' = [client EXCEPT ![c] = cl],
           cl.lease \in {NoLease, client[c].lease}, cl.probe = NoProbe, cl.xid = 0,
           \A m \in network' : m.client = c /\ m.kind = "decline" =>
              /\ m.sent + DeclineTime <= cl.retry_after
              /\ cl.lease # NoLease => cl.lease.address # m.address,
           UNCHANGED <<lab, now, server, next_xid>>,
           \A m \in network' :
              \/ m \in network
              \/ /\ m.client = c /\ m.sent = now
                 /\ m.kind \in {"arp", "reply", "decline"}
                 /\ m.kind = "decline" => m.address # 0,
           \A t \in timers' : \/ t \in timers
                              \/ t.client = c /\ t.kind # "probe" /\ TimerOK(t)
    PROVE  UseInv'
<1>0. next_xid \in Nat /\ now \in Nat
    BY DEF DhcpInv, Types
<1>1. /\ ClientOK(client[c], next_xid) /\ LeaseBound(c, client[c].lease, server)
      /\ \A d \in Client \ {c} :
            /\ Excludes(c, client[c].lease, d, client[d], network, timers, server)
            /\ Excludes(d, client[d].lease, c, client[c], network, timers, server)
    BY DEF UseInv
<1>2. \A m \in network' : m \in network \/ (m.client = c /\ MessageOK(m)')
    BY <1>0, Times DEF MessageOK, Asking, Taking
<1>3. \A t \in timers' : t \in timers \/ (t.client = c /\ TimerOK(t)')
    BY DEF TimerOK
<1>4. ClientOK(cl, next_xid')
    BY <1>0, <1>1 DEF ClientOK
<1>5. /\ \A m \in network : ~Current(c, cl, m)
      /\ \A t \in timers : ~ProbeTimer(c, cl, t)
    BY NoTransaction
<1>6. \A m \in network' : ~Current(c, cl, m)
    BY <1>5 DEF Current, Asking, Taking
<1>7. \A t \in timers' : ~ProbeTimer(c, cl, t)
    BY <1>5 DEF ProbeTimer
<1>8. \A m \in network' : m.client = c => DeclineOK(m, cl)
    BY DEF DeclineOK
<1>9. ExchangeOK(c, cl, network', timers', server)
    BY <1>6, <1>7, <1>8, IdleExchange
<1>10. LeaseBound(c, cl.lease, server)
    BY <1>1 DEF LeaseBound
<1>11. ASSUME NEW d \in Client \ {c}
       PROVE  /\ Excludes(c, cl.lease, d, client[d], network, timers, server)
              /\ Excludes(d, client[d].lease, c, cl, network', timers', server)
    <2>1. Excludes(c, cl.lease, d, client[d], network, timers, server)
        BY <1>1 DEF Excludes
    <2>2. cl.lease # NoLease /\ client[d].lease # NoLease => cl.lease.address # client[d].lease.address
        BY <1>1 DEF Excludes
    <2> QED
        BY <1>6, <1>7, <2>1, <2>2, IdleExcluded
<1>12. /\ UNCHANGED <<lab, now, server>> /\ next_xid' \in Nat /\ next_xid <= next_xid'
       /\ \A d \in Client \ {c} :
             /\ Excludes(c, cl.lease, d, client[d], network, timers, server)
             /\ Excludes(d, client[d].lease, c, cl, network', timers', server)
    BY <1>0, <1>11
<1> QED
    BY <1>2, <1>3, <1>4, <1>9, <1>10, <1>12, ClientUse

\* schedule_dhcp_now
LEMMA ScheduleUse ==
    ASSUME DhcpInv, UseInv, NEW c \in Client, NEW cl \in ClientState, NEW P \in SUBSET timers,
           cl.lease \in {NoLease, client[c].lease}, cl.retry_after = client[c].retry_after,
           ScheduleDhcpNow(c, cl, P),
           network' \in SUBSET network,
           UNCHANGED <<lab, now, next_xid, server>>
    PROVE  UseInv'
<1> DEFINE new == Forget(cl)
           t0 == Timer(now, "client", c, generation[c] + 1)
<1>0. now \in Nat
    BY DEF DhcpInv, Types
<1>1. /\ new.lease = cl.lease /\ new.probe = NoProbe /\ new.xid = 0
      /\ new.retry_after = cl.retry_after
    BY DEF Forget, ClientState, NoProbe
<1>2. /\ client' = [client EXCEPT ![c] = new]
      /\ timers' = P \cup (IF Pending(cl) THEN {t0} ELSE {})
    BY DEF ScheduleDhcpNow
<1>3. t0.client = c /\ t0.kind = "client" /\ t0.time = now
    BY DEF Timer
<1>4. TimerOK(t0)
    BY <1>0, <1>3 DEF TimerOK
<1>5. \A m \in network : m.client = c => DeclineOK(m, client[c])
    BY DEF UseInv, ExchangeOK
<1> HIDE DEF new, t0
<1>6. \A m \in network' : m.client = c /\ m.kind = "decline" =>
         /\ m.sent + DeclineTime <= new.retry_after
         /\ new.lease # NoLease => new.lease.address # m.address
    BY <1>1, <1>5 DEF DeclineOK
<1>7. \A t \in timers' : t \in timers \/ (t.client = c /\ t.kind # "probe" /\ TimerOK(t))
    BY <1>2, <1>3, <1>4
<1>8. \A m \in network' : \/ m \in network
                          \/ /\ m.client = c /\ m.sent = now
                             /\ m.kind \in {"arp", "reply", "decline"}
                             /\ m.kind = "decline" => m.address # 0
    OBVIOUS
<1>9. /\ client' = [client EXCEPT ![c] = new]
      /\ new.lease \in {NoLease, client[c].lease} /\ new.probe = NoProbe /\ new.xid = 0
      /\ UNCHANGED <<lab, now, server, next_xid>>
    BY <1>1, <1>2
<1> QED
    BY <1>6, <1>7, <1>8, <1>9, ForgetUse

-----------------------------------------------------------------------------
(* Events of a client *)

\* An event that no longer means anything.
LEMMA IgnoreUse ==
    ASSUME DhcpInv, UseInv, NEW c \in Client, NEW t \in timers, Ignore(c, t)
    PROVE  UseInv'
BY SameUse DEF Ignore

\* DhcpLeaseExpired
LEMMA ExpireLeaseUse ==
    ASSUME DhcpInv, UseInv, NEW c \in Client, NEW t \in timers, ExpireLease(c, t)
    PROVE  UseInv'
<1> DEFINE cl == [client[c] EXCEPT !.lease = NoLease]
<1>1. client[c] \in ClientState
    BY ClientFacts
<1>2. cl \in ClientState /\ cl.lease = NoLease /\ cl.retry_after = client[c].retry_after
    BY <1>1 DEF ClientState
<1>3. /\ ScheduleDhcpNow(c, cl, timers \ {t})
      /\ UNCHANGED <<lab, now, next_xid, server, network, changes>>
    BY DEF ExpireLease
<1> HIDE DEF cl
<1> QED
    BY <1>2, <1>3, ScheduleUse

\* send_dhcp_discovers: the transaction is a new one, and no decline is under
\* way once the pause is over.
LEMMA DiscoverUse ==
    ASSUME DhcpInv, UseInv, NEW c \in Client, NEW t \in timers, Discover(c, t)
    PROVE  UseInv'
<1> DEFINE cl == client[c]
           again == Timer(now + RetryTime, "client", c, t.key)
           new == [cl EXCEPT !.xid = next_xid + 1, !.retry_after = 0]
           sends == Pending(cl) /\ cl.up /\ cl.probe = NoProbe /\ cl.retry_after <= now
           M == ToServers("discover", c, next_xid + 1, 0)
<1>0. cl \in ClientState /\ next_xid \in Nat /\ now \in Nat
    BY ClientFacts
<1>1. /\ timers' \in SUBSET (timers \cup {again})
      /\ UNCHANGED <<lab, now, server>>
    BY DEF Discover
<1>2. again.kind = "client" /\ again.client = c /\ again.time = now + RetryTime
    BY DEF Timer
<1> HIDE DEF again
<1>3. \A u \in timers' : u \in timers \/ (u.client = c /\ u.kind # "probe" /\ TimerOK(u))
    BY <1>0, <1>1, <1>2, Times DEF TimerOK
<1>4. CASE ~sends
    <2>1. UNCHANGED <<next_xid, client, network>>
        BY <1>4 DEF Discover
    <2> QED
        BY <1>1, <1>3, <2>1, SameUse
<1>5. CASE sends
    <2>1. /\ next_xid' = next_xid + 1
          /\ client' = [client EXCEPT ![c] = new]
          /\ network' = network \cup M
        BY <1>5 DEF Discover, DhcpInv, Types, ClientState
    <2>2. /\ new.lease = NoLease /\ new.probe = NoProbe
          /\ new.xid = next_xid + 1
        <3>1. cl.lease = NoLease /\ cl.probe = NoProbe
            BY <1>5 DEF Pending
        <3> HIDE DEF cl
        <3> QED
            BY <1>0, <3>1 DEF ClientState
    <2>3. \A m \in M : /\ m.kind = "discover" /\ m.client = c /\ m.server \in Server
                       /\ m.xid = next_xid + 1 /\ m.sent = now
        BY DEF M, ToServers, Message
    <2>4. \A m, n \in M : m.server = n.server => m = n
        BY DEF M, ToServers, Message
    <2> HIDE DEF new, M
    <2>5. /\ \A m \in network : ~Current(c, new, m)
          /\ \A u \in timers : ~ProbeTimer(c, new, u)
        BY <1>0, <2>2 DEF UseInv, MessageOK, TimerOK, Current, ProbeTimer
    <2>6. \A u \in timers' : ~ProbeTimer(c, new, u)
        BY <1>3, <2>5 DEF ProbeTimer
    <2>7. \A m \in network : m.client = c => m.kind # "decline"
        <3> SUFFICES ASSUME NEW m \in network, m.client = c, m.kind = "decline"
                     PROVE  FALSE
            OBVIOUS
        <3>1. m.sent + DeclineTime <= cl.retry_after /\ now <= m.sent + MaxDelay /\ m.sent \in Nat
            BY DEF UseInv, ExchangeOK, DeclineOK, MessageOK, DhcpInv, Types, Packet
        <3>2. cl.retry_after \in Nat /\ cl.retry_after <= now
            BY <1>0, <1>5 DEF ClientState
        <3> HIDE DEF cl
        <3> QED
            BY <1>0, <3>1, <3>2, Times
    <2>8. ExchangeOK(c, new, network', timers', server)
        <3>1. OneAtATime(c, new, network')
            BY <2>1, <2>4, <2>5 DEF OneAtATime
        <3>2. OneProbe(c, new, timers')
            BY <2>6 DEF OneProbe
        <3>3. \A m \in network' : /\ Current(c, new, m) => Consistent(new, m)
                                  /\ AckBound(c, new, m, server)
            BY <2>1, <2>2, <2>3, <2>5 DEF Consistent, AckBound
        <3>4. \A m \in network' : m.client = c => DeclineOK(m, new)
            BY <2>1, <2>3, <2>7 DEF DeclineOK
        <3> QED
            BY <3>1, <3>2, <3>3, <3>4 DEF ExchangeOK
    <2>9. \A d \in Client \ {c} :
             /\ Excludes(c, new.lease, d, client[d], network, timers, server)
             /\ Excludes(d, client[d].lease, c, new, network', timers', server)
        BY <2>1, <2>2, <2>3, <2>5, <2>6 DEF Excludes, Excluded, ProbeExcluded
    <2>10. ClientOK(new, next_xid') /\ LeaseBound(c, new.lease, server)
        BY <1>0, <2>1, <2>2 DEF ClientOK, LeaseBound
    <2>11. \A m \in network' : m \in network \/ (m.client = c /\ MessageOK(m)')
        <3> SUFFICES ASSUME NEW m \in M PROVE m.client = c /\ MessageOK(m)'
            BY <2>1
        <3> QED
            BY <1>0, <1>1, <2>1, <2>3, Times DEF MessageOK, Server
    <2>12. \A u \in timers' : u \in timers \/ (u.client = c /\ TimerOK(u)')
        BY <1>1, <1>3 DEF TimerOK
    <2>13. next_xid' \in Nat /\ next_xid <= next_xid'
        BY <1>0, <2>1
    <2> QED
        BY <1>1, <2>1, <2>8, <2>9, <2>10, <2>11, <2>12, <2>13, ClientUse
<1> QED
    BY <1>4, <1>5

\* finish_dhcp_probe: the lease of nobody ends before now, so that the server
\* knows the client that uses the address until the request arrives.
LEMMA FinishProbeUse ==
    ASSUME DhcpInv, UseInv, NEW c \in Client, NEW t \in timers, FinishProbe(c, t)
    PROVE  UseInv'
<1> DEFINE cl == client[c]
           new == [cl EXCEPT !.probe = NoProbe]
           r == Message("request", c, cl.probe.server, t.key, cl.probe.address)
<1>0. /\ cl \in ClientState /\ next_xid \in Nat /\ now \in Nat
      /\ ClientOK(cl, next_xid) /\ ExchangeOK(c, cl, network, timers, server)
    BY ClientFacts DEF UseInv
<1>1. /\ t.client = c /\ t.kind = "probe" /\ t.time = now
      /\ cl.probe # NoProbe /\ cl.probe.xid = t.key /\ cl.xid = t.key
      /\ client' = [client EXCEPT ![c] = new]
      /\ timers' = timers \ {t}
      /\ network' \in SUBSET (network \cup {r})
      /\ UNCHANGED <<lab, now, next_xid, server>>
    BY DEF FinishProbe, ProbeCurrent, Due, DhcpInv, Types, ClientState
<1>2. /\ new.lease = cl.lease /\ new.probe = NoProbe /\ new.xid = cl.xid
      /\ new.retry_after = cl.retry_after
    BY <1>0 DEF ClientState, NoProbe
<1>3. /\ r.kind = "request" /\ r.client = c /\ r.server = cl.probe.server /\ r.xid = cl.xid
      /\ r.address = cl.probe.address /\ r.sent = now
    BY <1>1 DEF Message
<1>4. /\ cl.lease = NoLease /\ cl.xid \in 1 .. next_xid /\ cl.probe.server \in Server
    BY <1>0, <1>1 DEF ClientOK
<1> HIDE DEF new, r
<1>5. /\ \A m : Current(c, new, m) = Current(c, cl, m)
      /\ \A u : ProbeTimer(c, new, u) = ProbeTimer(c, cl, u)
    BY <1>2 DEF Current, ProbeTimer
<1>6. \A u \in timers' : ~ProbeTimer(c, new, u)
    <2>1. ProbeTimer(c, cl, t)
        BY <1>1 DEF ProbeTimer
    <2> QED
        BY <1>0, <1>1, <1>5, <2>1 DEF ExchangeOK, OneProbe
<1>7. ExchangeOK(c, new, network', timers', server)
    <2>1. \A m \in network : Current(c, cl, m) => m.server # cl.probe.server
        BY <1>0, <1>1 DEF ExchangeOK, Consistent
    <2>2. OneAtATime(c, new, network')
        <3> SUFFICES ASSUME NEW m \in network', NEW n \in network',
                            Current(c, cl, m), m.kind \in Asking,
                            Current(c, cl, n), m.server = n.server
                     PROVE  m = n
            BY <1>5 DEF OneAtATime
        <3>1. m \in network
            BY <1>1, <1>3 DEF Asking
        <3>2. n # r
            BY <1>3, <2>1, <3>1
        <3> QED
            BY <1>0, <1>1, <3>1, <3>2 DEF ExchangeOK, OneAtATime
    <2>3. OneProbe(c, new, timers')
        BY <1>6 DEF OneProbe
    <2>4. \A m \in network' : /\ Current(c, new, m) => Consistent(new, m)
                              /\ AckBound(c, new, m, server)
        BY <1>0, <1>1, <1>2, <1>3, <1>4, <1>5 DEF ExchangeOK, Consistent, AckBound
    <2>5. \A m \in network' : m.client = c => DeclineOK(m, new)
        BY <1>0, <1>1, <1>2, <1>3 DEF ExchangeOK, DeclineOK
    <2> QED
        BY <2>2, <2>3, <2>4, <2>5 DEF ExchangeOK
<1>8. ASSUME NEW d \in Client \ {c}
      PROVE  /\ Excludes(c, new.lease, d, client[d], network, timers, server)
             /\ Excludes(d, client[d].lease, c, new, network', timers', server)
    <2> DEFINE lease == client[d].lease
    <2>1. Excludes(c, new.lease, d, client[d], network, timers, server)
        BY <1>2, <1>4 DEF Excludes
    <2>2. Excludes(d, lease, c, cl, network, timers, server)
        BY DEF UseInv
    <2>3. ASSUME lease # NoLease, r.address = lease.address
          PROVE  Bound(d, lease, server, now + MaxDelay)
        <3>1. ProbeExcluded(d, lease, c, cl, t, server)
            BY <2>2, <2>3 DEF Excludes
        <3>2. lease.expires_at < now \/ Bound(d, lease, server, now + MaxDelay)
            BY <1>1, <1>3, <2>3, <3>1 DEF ProbeExcluded, ProbeTimer
        <3>3. PICK u \in timers : u.time = lease.expires_at
            BY <2>3 DEF DhcpInv, Armed, ExpiryOK
        <3>4. now <= lease.expires_at /\ lease.expires_at \in Nat
            BY <3>3 DEF UseInv, TimerOK
        <3> QED
            BY <1>0, <3>2, <3>4
    <2>4. ASSUME lease # NoLease, NEW m \in network'
          PROVE  Excluded(d, lease, c, new, m, server)
        <3>1. CASE m = r
            BY <1>3, <2>3, <2>4, <3>1 DEF Excluded
        <3>2. CASE m \in network
            BY <1>5, <2>2, <2>4, <3>2 DEF Excludes, Excluded
        <3> QED
            BY <1>1, <3>1, <3>2
    <2>5. Excludes(d, lease, c, new, network', timers', server)
        <3>1. \A u \in timers' : ProbeExcluded(d, lease, c, new, u, server)
            BY <1>6 DEF ProbeExcluded
        <3> QED
            BY <1>2, <1>4, <2>4, <3>1 DEF Excludes
    <2> QED
        BY <2>1, <2>5
<1>9. ClientOK(new, next_xid') /\ LeaseBound(c, new.lease, server)
    BY <1>0, <1>1, <1>2, <1>4 DEF ClientOK, LeaseBound
<1>10. \A m \in network' : m \in network \/ (m.client = c /\ MessageOK(m)')
    <2> SUFFICES ASSUME NEW m, m = r PROVE m.client = c /\ MessageOK(m)'
        BY <1>1
    <2> QED
        BY <1>0, <1>1, <1>3, <1>4, Times DEF MessageOK, Server, Asking, Taking
<1>11. \A u \in timers' : u \in timers \/ (u.client = c /\ TimerOK(u)')
    BY <1>1
<1>12. next_xid' \in Nat /\ next_xid <= next_xid' /\ UNCHANGED <<lab, now, server>>
    BY <1>0, <1>1
<1>13. \A d \in Client \ {c} :
          /\ Excludes(c, new.lease, d, client[d], network, timers, server)
          /\ Excludes(d, client[d].lease, c, new, network', timers', server)
    BY <1>8
<1> QED
    BY <1>1, <1>7, <1>9, <1>10, <1>11, <1>12, <1>13, ClientUse

\* A new request of renew_dhcp, half-way to the next boundary or there.
LEMMA HalfWay ==
    ASSUME NEW n \in Nat, NEW b \in Nat, n <= b
    PROVE  /\ Min({n + Max({(b - n) \div 2, 1}), b}) \in Nat
           /\ n <= Min({n + Max({(b - n) \div 2, 1}), b})
<1> DEFINE h == (b - n) \div 2
<1>1. h \in Nat
    OBVIOUS
<1> HIDE DEF h
<1>2. \E x \in {h, 1} : \A y \in {h, 1} : x >= y
    BY <1>1
<1>3. Max({h, 1}) \in {h, 1}
    BY <1>2 DEF Max
<1> DEFINE x == Max({h, 1})
<1>4. x \in Nat
    BY <1>1, <1>3
<1> HIDE DEF x
<1>5. {n + x, b} \in SUBSET Nat /\ {n + x, b} # {}
    BY <1>4
<1>6. Min({n + x, b}) \in {n + x, b}
    BY <1>5, MinNat
<1> QED
    BY <1>4, <1>6 DEF x, h

\* renew_dhcp asks for the address that the client uses, in the transaction it
\* has or in a new one.
LEMMA RenewUse ==
    ASSUME DhcpInv, UseInv, NEW c \in Client, NEW t \in timers, Renew(c, t)
    PROVE  UseInv'
<1> DEFINE cl == client[c]
           lease == cl.lease
           rebind == now >= lease.rebind_at
           boundary == IF rebind THEN lease.expires_at ELSE lease.rebind_at
           retry == Min({now + Max({(boundary - now) \div 2, 1}), boundary})
           xid == IF cl.xid = 0 THEN next_xid + 1 ELSE cl.xid
           M == IF rebind THEN ToServers("request", c, xid, lease.address)
                ELSE {Message("request", c, lease.server, xid, lease.address)}
           new == [cl EXCEPT !.xid = xid]
           again == Timer(retry, "renew", c, t.key)
<1>0. /\ cl \in ClientState /\ next_xid \in Nat /\ now \in Nat
      /\ ClientOK(cl, next_xid) /\ ExchangeOK(c, cl, network, timers, server)
      /\ LeaseBound(c, lease, server)
    BY ClientFacts DEF UseInv
<1>1. /\ lease # NoLease /\ lease.expires_at > now
      /\ timers' \in SUBSET (timers \cup {again})
      /\ UNCHANGED <<lab, now, server>>
    BY DEF Renew, RenewCurrent
<1>2. lease \in Lease /\ lease.server \in Server
    BY <1>0, <1>1 DEF ClientState, ClientOK
<1>3. retry \in Nat /\ now <= retry
    <2>1. boundary \in Nat /\ now <= boundary
        BY <1>0, <1>1, <1>2 DEF Lease
    <2> HIDE DEF boundary
    <2> QED
        BY <1>0, <2>1, HalfWay
<1> HIDE DEF retry
<1>4. again.kind = "renew" /\ again.client = c /\ again.time = retry
    BY DEF Timer
<1> HIDE DEF again
<1>5. \A u \in timers' : u \in timers \/ (u.client = c /\ u.kind # "probe" /\ TimerOK(u))
    BY <1>1, <1>3, <1>4 DEF TimerOK
<1>6. CASE ~cl.up
    <2>1. UNCHANGED <<next_xid, client, network>>
        BY <1>6 DEF Renew
    <2> QED
        BY <1>1, <1>5, <2>1, SameUse
<1>7. CASE cl.up
    <2>1. /\ next_xid' = IF cl.xid = 0 THEN xid ELSE next_xid
          /\ client' = [client EXCEPT ![c] = new]
          /\ network' = network \cup M
        BY <1>7 DEF Renew, DhcpInv, Types, ClientState
    <2>2. /\ xid \in 1 .. next_xid' /\ next_xid' \in Nat /\ next_xid <= next_xid'
          /\ xid = cl.xid \/ xid = next_xid + 1
        BY <1>0, <2>1 DEF ClientState, ClientOK
    <2>3. \A m \in M : /\ m.kind = "request" /\ m.client = c /\ m.server \in Server
                       /\ m.xid = xid /\ m.sent = now /\ m.address = lease.address
        <3> HIDE DEF xid, lease, rebind
        <3> QED
            BY <1>2 DEF M, ToServers, Message
    <2>4. /\ new.lease = lease /\ new.probe = cl.probe /\ new.xid = xid
          /\ new.retry_after = cl.retry_after
        <3> HIDE DEF cl, xid
        <3> QED
            BY <1>0 DEF ClientState, lease
    <2> HIDE DEF new, M, xid
    <2>5. /\ \A m \in network : Current(c, new, m) => Current(c, cl, m)
          /\ \A u \in timers : ProbeTimer(c, new, u) => ProbeTimer(c, cl, u) /\ xid = cl.xid
        BY <1>0, <2>2, <2>4 DEF UseInv, MessageOK, TimerOK, Current, ProbeTimer
    <2>6. \A u \in timers' : ProbeTimer(c, new, u) => u \in timers
        BY <1>5 DEF ProbeTimer
    <2>7. ClientOK(new, next_xid') /\ LeaseBound(c, new.lease, server)
        <3>1. LeaseBound(c, new.lease, server)
            BY <1>0, <2>4
        <3>2. cl.probe # NoProbe => cl.probe.xid \in 1 .. next_xid /\ cl.probe.xid # cl.xid
            BY <1>0, <1>1 DEF ClientOK
        <3>3. cl.probe # NoProbe => cl.probe.xid \in 1 .. next_xid' /\ cl.probe.xid # xid
            BY <1>0, <2>2, <3>2
        <3> QED
            BY <1>0, <1>1, <2>2, <2>4, <3>1, <3>3 DEF ClientOK
    <2>8. ExchangeOK(c, new, network', timers', server)
        <3>1. \A m \in network : Current(c, cl, m) => m.kind \in Taking /\ m.address = lease.address
            BY <1>0, <1>1 DEF ExchangeOK, Consistent
        <3>2. OneAtATime(c, new, network')
            BY <2>1, <2>3, <2>5, <3>1 DEF OneAtATime, Asking, Taking
        <3>3. OneProbe(c, new, timers')
            BY <1>0, <2>4, <2>5, <2>6 DEF ExchangeOK, OneProbe
        <3>4. \A m \in network' : Current(c, new, m) => Consistent(new, m)
            <4>1. cl.probe # NoProbe => cl.probe.xid # xid
                BY <1>1, <2>4, <2>7 DEF ClientOK
            <4> QED
                BY <2>1, <2>3, <2>4, <2>5, <3>1, <4>1 DEF Consistent, Taking
        <3>5. \A m \in network' : AckBound(c, new, m, server)
            BY <1>0, <2>1, <2>3, <2>5 DEF ExchangeOK, AckBound
        <3>6. \A m \in network' : m.client = c => DeclineOK(m, new)
            BY <1>0, <1>1, <2>1, <2>3, <2>4 DEF ExchangeOK, DeclineOK
        <3> QED
            BY <3>2, <3>3, <3>4, <3>5, <3>6 DEF ExchangeOK
    <2>9. ASSUME NEW d \in Client \ {c}
          PROVE  /\ Excludes(c, new.lease, d, client[d], network, timers, server)
                 /\ Excludes(d, client[d].lease, c, new, network', timers', server)
        <3>1. /\ Excludes(c, lease, d, client[d], network, timers, server)
              /\ Excludes(d, client[d].lease, c, cl, network, timers, server)
            BY DEF UseInv
        <3>2. ASSUME client[d].lease # NoLease, NEW m \in network'
              PROVE  Excluded(d, client[d].lease, c, new, m, server)
            <4>1. CASE m \in network
                BY <2>5, <3>1, <3>2, <4>1 DEF Excludes, Excluded
            <4>2. CASE m \in M
                BY <1>1, <2>3, <3>1, <3>2, <4>2 DEF Excludes, Excluded
            <4> QED
                BY <2>1, <4>1, <4>2
        <3>3. ASSUME client[d].lease # NoLease, NEW u \in timers'
              PROVE  ProbeExcluded(d, client[d].lease, c, new, u, server)
            BY <2>4, <2>5, <2>6, <3>1, <3>3 DEF Excludes, ProbeExcluded
        <3>4. client[d].lease # NoLease => lease.address # client[d].lease.address
            BY <1>1, <3>1 DEF Excludes
        <3> QED
            BY <2>4, <3>1, <3>2, <3>3, <3>4 DEF Excludes
    <2>10. \A m \in network' : m \in network \/ (m.client = c /\ MessageOK(m)')
        <3> SUFFICES ASSUME NEW m \in M PROVE m.client = c /\ MessageOK(m)'
            BY <2>1
        <3> QED
            BY <1>0, <1>1, <2>2, <2>3, Times DEF MessageOK, Server
    <2>11. \A u \in timers' : u \in timers \/ (u.client = c /\ TimerOK(u)')
        BY <1>1, <1>5 DEF TimerOK
    <2>12. \A d \in Client \ {c} :
              /\ Excludes(c, new.lease, d, client[d], network, timers, server)
              /\ Excludes(d, client[d].lease, c, new, network', timers', server)
        BY <2>9
    <2>13. next_xid' \in Nat /\ next_xid <= next_xid'
        BY <2>2
    <2> QED
        BY <1>1, <2>1, <2>7, <2>8, <2>10, <2>11, <2>12, <2>13, ClientUse
<1> QED
    BY <1>6, <1>7

-----------------------------------------------------------------------------
(* Messages to a client *)

\* begin_dhcp_probe: the offer was the one message from its server.
LEMMA HandleOfferUse ==
    ASSUME DhcpInv, UseInv, NEW c \in Client, NEW msg \in network, HandleOffer(c, msg)
    PROVE  UseInv'
<1> DEFINE cl == client[c]
           probe == [xid |-> msg.xid, address |-> msg.address, server |-> msg.server]
           new == [cl EXCEPT !.probe = probe]
           t0 == Timer(now + ProbeTime, "probe", c, msg.xid)
           M == ToPeers("arp", c, msg.address)
<1>0. /\ cl \in ClientState /\ next_xid \in Nat /\ now \in Nat
      /\ ClientOK(cl, next_xid) /\ ExchangeOK(c, cl, network, timers, server)
      /\ msg \in Packet /\ MessageOK(msg)
    BY ClientFacts DEF UseInv, DhcpInv, Types
<1>1. UNCHANGED <<lab, now, next_xid, server>> /\ msg.kind = "offer" /\ msg.client = c
    BY DEF HandleOffer, Reaches
<1>2. CASE ~(ForClient(c, msg) /\ cl.probe = NoProbe)
    <2>1. network' = network \ {msg} /\ UNCHANGED <<client, timers>>
        BY <1>2 DEF HandleOffer, Answer
    <2> QED
        BY <1>1, <2>1, SameUse
<1>3. CASE ForClient(c, msg) /\ cl.probe = NoProbe
    <2>1. /\ client' = [client EXCEPT ![c] = new]
          /\ timers' = timers \cup {t0}
          /\ network' = (network \ {msg}) \cup M
          /\ cl.xid = msg.xid /\ cl.probe = NoProbe
        BY <1>3 DEF HandleOffer, Answer, ForClient, DhcpInv, Types, ClientState
    <2>2. /\ msg.server \in Server /\ msg.xid \in 1 .. next_xid /\ msg.address \in Pool[msg.server]
          /\ msg.sent <= now /\ now <= msg.sent + MaxDelay /\ msg.sent \in Nat
        BY <1>0, <1>1 DEF MessageOK, Asking, Packet
    <2>3. /\ probe.xid = msg.xid /\ probe.address = msg.address /\ probe.server = msg.server
          /\ probe # NoProbe
        <3>1. probe \in Probe /\ probe.xid = msg.xid /\ probe.address = msg.address
              /\ probe.server = msg.server
            BY <1>0 DEF Packet, Probe
        <3>2. NoProbe.xid = 0
            BY DEF NoProbe
        <3> HIDE DEF probe
        <3> QED
            BY <1>0, <2>2, <3>1, <3>2
    <2> HIDE DEF probe
    <2>4. /\ new.lease = cl.lease /\ new.probe = probe /\ new.xid = cl.xid
          /\ new.retry_after = cl.retry_after
        <3> HIDE DEF cl
        <3> QED
            BY <1>0 DEF ClientState
    <2>5. t0.kind = "probe" /\ t0.client = c /\ t0.key = msg.xid /\ t0.time = now + ProbeTime
        BY DEF Timer
    <2>6. \A m \in M : m.kind = "arp" /\ m.client = c /\ m.sent = now
        BY DEF ToPeers, Message
    <2> HIDE DEF M, t0, new
    <2>7. /\ \A m : Current(c, new, m) = Current(c, cl, m)
          /\ \A u : ProbeTimer(c, new, u) = ProbeTimer(c, cl, u)
          /\ \A m \in M : ~Current(c, cl, m)
        BY <2>4, <2>6 DEF Current, ProbeTimer, Asking, Taking
    <2>8. Current(c, cl, msg) /\ cl.lease = NoLease
        <3>1. Current(c, cl, msg)
            BY <1>1, <2>1 DEF Current, Asking
        <3> QED
            BY <1>0, <1>1, <3>1 DEF ExchangeOK, Consistent, Taking
    <2>9. \A u \in timers : ~ProbeTimer(c, cl, u)
        BY <1>0, <2>1 DEF ExchangeOK, OneProbe
    <2>10. ExchangeOK(c, new, network', timers', server)
        <3>1. OneAtATime(c, new, network')
            BY <1>0, <2>1, <2>7 DEF ExchangeOK, OneAtATime
        <3>2. OneProbe(c, new, timers')
            BY <2>1, <2>3, <2>4, <2>7, <2>9 DEF OneProbe
        <3>3. \A m \in network' : Current(c, new, m) => Consistent(new, m)
            <4> SUFFICES ASSUME NEW m \in network', Current(c, cl, m)
                         PROVE  m.server # msg.server
                BY <2>3, <2>4, <2>7, <2>8 DEF Consistent
            <4> QED
                BY <1>0, <1>1, <2>1, <2>7, <2>8 DEF ExchangeOK, OneAtATime, Asking
        <3>4. \A m \in network' : AckBound(c, new, m, server)
            BY <1>0, <2>1, <2>7 DEF ExchangeOK, AckBound
        <3>5. \A m \in network' : m.client = c => DeclineOK(m, new)
            BY <1>0, <2>1, <2>4, <2>6 DEF ExchangeOK, DeclineOK
        <3> QED
            BY <3>1, <3>2, <3>3, <3>4, <3>5 DEF ExchangeOK
    <2>11. ASSUME NEW d \in Client \ {c}
           PROVE  /\ Excludes(c, new.lease, d, client[d], network, timers, server)
                  /\ Excludes(d, client[d].lease, c, new, network', timers', server)
        <3> DEFINE lease == client[d].lease
        <3>1. Excludes(c, new.lease, d, client[d], network, timers, server)
            BY <2>4, <2>8 DEF Excludes
        <3>2. Excludes(d, lease, c, cl, network, timers, server)
            BY DEF UseInv
        <3>3. ASSUME lease # NoLease, msg.address = lease.address
              PROVE  lease.expires_at < now + ProbeTime \/ Bound(d, lease, server, now + ProbeTime + MaxDelay)
            <4>1. \/ lease.expires_at < msg.sent + ProbeTime
                  \/ Bound(d, lease, server, msg.sent + 2 * MaxDelay + ProbeTime)
                BY <1>1, <2>8, <3>2, <3>3 DEF Excludes, Excluded
            <4>2. lease \in Lease /\ lease.server \in Server
                BY <3>3 DEF DhcpInv, Types, ClientState, UseInv, ClientOK
            <4>3. lease.expires_at \in Nat
                BY <4>2 DEF Lease
            <4>4. CASE lease.expires_at < msg.sent + ProbeTime
                BY <1>0, <2>2, <4>3, <4>4, Times
            <4>5. CASE Bound(d, lease, server, msg.sent + 2 * MaxDelay + ProbeTime)
                <5>1. server[lease.server].bindings[d].expires_at \in Nat
                    BY <4>2, EntryType DEF DhcpInv
                <5> HIDE DEF lease
                <5> QED
                    BY <1>0, <2>2, <4>5, <5>1, Times DEF Bound
            <4> QED
                BY <4>1, <4>4, <4>5
        <3>4. ASSUME lease # NoLease, NEW u \in timers'
              PROVE  ProbeExcluded(d, lease, c, new, u, server)
            <4>1. CASE u = t0
                BY <2>3, <2>4, <2>5, <3>3, <3>4, <4>1 DEF ProbeExcluded
            <4>2. CASE u \in timers
                BY <2>7, <2>9, <4>2 DEF ProbeExcluded
            <4> QED
                BY <2>1, <4>1, <4>2
        <3>5. ASSUME lease # NoLease, NEW m \in network'
              PROVE  Excluded(d, lease, c, new, m, server)
            BY <2>1, <2>7, <3>2, <3>5 DEF Excludes, Excluded
        <3>6. Excludes(d, lease, c, new, network', timers', server)
            BY <2>4, <2>8, <3>4, <3>5 DEF Excludes
        <3> QED
            BY <3>1, <3>6
    <2>12. ClientOK(new, next_xid') /\ LeaseBound(c, new.lease, server)
        BY <1>0, <1>1, <2>1, <2>2, <2>3, <2>4, <2>8 DEF ClientOK, LeaseBound
    <2>13. \A m \in network' : m \in network \/ (m.client = c /\ MessageOK(m)')
        BY <1>0, <1>1, <2>1, <2>6, Times DEF MessageOK, Asking, Taking
    <2>14. \A u \in timers' : u \in timers \/ (u.client = c /\ TimerOK(u)')
        <3> SUFFICES ASSUME NEW u, u = t0 PROVE u.client = c /\ TimerOK(u)'
            BY <2>1
        <3> QED
            BY <1>0, <1>1, <2>2, <2>5, Times DEF TimerOK
    <2>15. next_xid' \in Nat /\ next_xid <= next_xid' /\ UNCHANGED <<lab, now, server>>
        BY <1>0, <1>1
    <2>16. \A d \in Client \ {c} :
              /\ Excludes(c, new.lease, d, client[d], network, timers, server)
              /\ Excludes(d, client[d].lease, c, new, network', timers', server)
        BY <2>11
    <2> QED
        BY <2>1, <2>10, <2>12, <2>13, <2>14, <2>15, <2>16, ClientUse
<1> QED
    BY <1>2, <1>3

\* An ACK: the server holds the address for the client until long after all
\* that others have under way has arrived.
LEMMA HandleAckUse ==
    ASSUME DhcpInv, UseInv, NEW c \in Client, NEW msg \in network, HandleAck(c, msg)
    PROVE  UseInv'
<1> DEFINE cl == client[c]
           lease == [address |-> msg.address, server |-> msg.server,
                     renew_at |-> Renewal(now), rebind_at |-> Rebinding(now),
                     expires_at |-> LeaseEnd(now)]
           new == [cl EXCEPT !.lease = lease, !.xid = 0]
           t1 == Timer(lease.renew_at, "renew", c, lease.expires_at)
           t2 == Timer(lease.expires_at, "expired", c, ExpiryKey(lease))
<1>0. /\ cl \in ClientState /\ next_xid \in Nat /\ now \in Nat /\ Types
      /\ ClientOK(cl, next_xid) /\ ExchangeOK(c, cl, network, timers, server)
      /\ msg \in Packet /\ MessageOK(msg)
    BY ClientFacts DEF UseInv, DhcpInv, Types
<1>1. /\ UNCHANGED <<lab, now, next_xid, server>> /\ msg.kind = "ack" /\ msg.client = c
      /\ network' = network \ {msg}
    BY DEF HandleAck, Reaches, Answer
<1>2. CASE ~ForClient(c, msg)
    <2>1. UNCHANGED <<client, timers>>
        BY <1>2 DEF HandleAck
    <2> QED
        BY <1>1, <2>1, SameUse
<1>3. CASE ForClient(c, msg)
    <2>1. /\ client' = [client EXCEPT ![c] = new]
          /\ timers' = timers \cup {t1, t2}
          /\ cl.xid = msg.xid
        BY <1>3 DEF HandleAck, ForClient, DhcpInv, Types, ClientState
    <2>2. /\ msg.server \in Server /\ msg.xid \in 1 .. next_xid /\ msg.address \in Pool[msg.server]
          /\ msg.sent <= now /\ now <= msg.sent + MaxDelay /\ msg.sent \in Nat
        BY <1>0, <1>1 DEF MessageOK, Taking, Packet
    <2>3. /\ lease.address = msg.address /\ lease.server = msg.server
          /\ lease.expires_at = now + LeaseTime
          /\ lease.renew_at \in Nat /\ now <= lease.renew_at
        BY <1>0, Times DEF LeaseEnd, Renewal
    <2> HIDE DEF lease
    <2>4. new.lease = lease /\ new.probe = cl.probe /\ new.xid = 0 /\ new.retry_after = cl.retry_after
        <3> HIDE DEF cl
        <3> QED
            BY <1>0 DEF ClientState
    <2>5. /\ t1.kind = "renew" /\ t1.client = c /\ t1.time = lease.renew_at
          /\ t2.kind = "expired" /\ t2.client = c /\ t2.time = lease.expires_at
        BY DEF Timer
    <2> HIDE DEF t1, t2, new
    <2>6. /\ \A m \in network' : ~Current(c, new, m)
          /\ \A u \in timers' : ~ProbeTimer(c, new, u)
        BY <1>1, <2>1, <2>4, <2>5, NoTransaction DEF ProbeTimer
    <2>7. /\ Current(c, cl, msg) /\ Consistent(cl, msg)
          /\ server[msg.server].bindings[c].address = msg.address
          /\ msg.sent + LeaseTime <= server[msg.server].bindings[c].expires_at
        <3>1. Current(c, cl, msg)
            BY <1>1, <2>1 DEF Current, Taking
        <3> QED
            BY <1>0, <1>1, <3>1 DEF ExchangeOK, AckBound
    <2> DEFINE until == server[msg.server].bindings[c].expires_at
    <2>8. until \in Nat
        BY <1>0, <2>2, EntryType
    <2>9. ClientOK(new, next_xid')
        <3>1. cl.probe # NoProbe => cl.probe.address # msg.address
            <4>1. CASE cl.lease = NoLease
                BY <1>0, <2>2, <2>7, <4>1, OneServer DEF ClientOK, Consistent
            <4>2. CASE cl.lease # NoLease
                BY <1>0, <2>7, <4>2 DEF ClientOK, Consistent
            <4> QED
                BY <4>1, <4>2
        <3>2. lease # NoLease
            <4>1. 0 \notin Pool[msg.server] /\ NoLease.address = 0
                BY <1>0, <2>2, PoolType DEF NoLease
            <4> QED
                BY <2>2, <2>3, <4>1
        <3> QED
            BY <1>0, <1>1, <2>2, <2>3, <2>4, <3>1, <3>2 DEF ClientOK
    <2>10. LeaseBound(c, new.lease, server)
        <3>1. lease.expires_at <= until + MaxDelay
            BY <1>0, <2>2, <2>3, <2>7, <2>8, Times
        <3> QED
            BY <2>3, <2>4, <2>7, <3>1 DEF LeaseBound
    <2>11. ExchangeOK(c, new, network', timers', server)
        <3>1. \A m \in network' : m.client = c => DeclineOK(m, new)
            <4> SUFFICES ASSUME NEW m \in network, m.client = c, m.kind = "decline"
                         PROVE  DeclineOK(m, new)
                BY <1>1 DEF DeclineOK
            <4>1. DeclineOK(m, cl)
                BY <1>0 DEF ExchangeOK
            <4>2. cl.lease # NoLease
                BY <1>0, <2>1, <2>2, <4>1 DEF DeclineOK
            <4>3. msg.address = cl.lease.address
                BY <2>7, <4>2 DEF Consistent
            <4> QED
                BY <2>3, <2>4, <4>1, <4>2, <4>3 DEF DeclineOK
        <3> QED
            BY <2>6, <3>1, IdleExchange
    <2>12. ASSUME NEW d \in Client \ {c}
           PROVE  /\ Excludes(c, new.lease, d, client[d], network, timers, server)
                  /\ Excludes(d, client[d].lease, c, new, network', timers', server)
        <3>1. client[d].lease # NoLease => client[d].lease.address # msg.address
            <4>1. Excludes(d, client[d].lease, c, cl, network, timers, server)
                BY DEF UseInv
            <4> QED
                BY <1>1, <2>7, <4>1 DEF Excludes, Excluded
        <3>2. Excludes(d, client[d].lease, c, new, network', timers', server)
            BY <2>3, <2>4, <2>6, <3>1, IdleExcluded
        <3>3. ASSUME NEW time \in Nat, time <= now + 2 * MaxDelay + ProbeTime
              PROVE  Bound(c, lease, server, time)
            <4>1. time < until
                BY <1>0, <2>2, <2>7, <2>8, <3>3, Times
            <4> QED
                BY <2>3, <2>7, <4>1 DEF Bound
        <3>4. ASSUME NEW m \in network PROVE Excluded(c, lease, d, client[d], m, server)
            <4> SUFFICES ASSUME Current(d, client[d], m), m.address = msg.address
                         PROVE  /\ m.kind # "ack"
                                /\ m.kind = "request" => Bound(c, lease, server, m.sent + MaxDelay)
                                /\ m.kind = "offer" =>
                                      Bound(c, lease, server, m.sent + 2 * MaxDelay + ProbeTime)
                BY <2>3 DEF Excluded
            <4>1. m.sent \in Nat /\ m.sent <= now /\ MessageOK(m)
                BY DEF UseInv, MessageOK, DhcpInv, Types, Packet
            <4>2. /\ m.sent + MaxDelay \in Nat /\ m.sent + MaxDelay <= now + 2 * MaxDelay + ProbeTime
                  /\ m.sent + 2 * MaxDelay + ProbeTime \in Nat
                  /\ m.sent + 2 * MaxDelay + ProbeTime <= now + 2 * MaxDelay + ProbeTime
                BY <1>0, <4>1, Times
            <4>3. m.kind # "ack"
                <5> SUFFICES ASSUME m.kind = "ack" PROVE FALSE
                    OBVIOUS
                <5>1. m.server = msg.server
                    BY <1>0, <2>2, <4>1, OneServer DEF MessageOK, Taking
                <5>2. server[m.server].bindings[d].address = m.address
                    BY DEF UseInv, ExchangeOK, AckBound
                <5>3. Apart(server[msg.server]) /\ 0 \notin Pool[msg.server]
                    BY <1>0, <2>2, PoolType DEF DhcpInv, ServersApart
                <5> QED
                    BY <2>2, <2>7, <5>1, <5>2, <5>3 DEF Apart
            <4> QED
                BY <3>3, <4>2, <4>3
        <3>5. ASSUME NEW u \in timers PROVE ProbeExcluded(c, lease, d, client[d], u, server)
            <4> SUFFICES ASSUME u.kind = "probe" PROVE Bound(c, lease, server, u.time + MaxDelay)
                BY DEF ProbeExcluded, ProbeTimer
            <4>1. u.time \in Nat /\ u.time <= now + ProbeTime
                BY DEF UseInv, TimerOK
            <4>2. u.time + MaxDelay \in Nat /\ u.time + MaxDelay <= now + 2 * MaxDelay + ProbeTime
                BY <1>0, <4>1, Times
            <4> QED
                BY <3>3, <4>2
        <3>6. Excludes(c, lease, d, client[d], network, timers, server)
            BY <2>3, <3>1, <3>4, <3>5 DEF Excludes
        <3> QED
            BY <2>4, <3>2, <3>6
    <2>13. \A m \in network' : m \in network \/ (m.client = c /\ MessageOK(m)')
        BY <1>1
    <2>14. \A u \in timers' : u \in timers \/ (u.client = c /\ TimerOK(u)')
        <3> SUFFICES ASSUME NEW u, u = t1 \/ u = t2 PROVE u.client = c /\ TimerOK(u)'
            BY <2>1
        <3> QED
            BY <1>0, <1>1, <2>3, <2>5, Times DEF TimerOK
    <2>15. next_xid' \in Nat /\ next_xid <= next_xid' /\ UNCHANGED <<lab, now, server>>
        BY <1>0, <1>1
    <2>16. \A d \in Client \ {c} :
              /\ Excludes(c, new.lease, d, client[d], network, timers, server)
              /\ Excludes(d, client[d].lease, c, new, network', timers', server)
        BY <2>12
    <2> QED
        BY <2>1, <2>9, <2>10, <2>11, <2>13, <2>14, <2>15, <2>16, ClientUse
<1> QED
    BY <1>2, <1>3

\* A NAK
LEMMA HandleNakUse ==
    ASSUME DhcpInv, UseInv, NEW c \in Client, NEW msg \in network, HandleNak(c, msg)
    PROVE  UseInv'
<1> DEFINE cl == [client[c] EXCEPT !.lease = NoLease]
<1>1. UNCHANGED <<lab, now, next_xid, server>> /\ network' = network \ {msg}
    BY DEF HandleNak, Answer
<1>2. CASE ~ForClient(c, msg)
    <2>1. UNCHANGED <<client, timers>>
        BY <1>2 DEF HandleNak
    <2> QED
        BY <1>1, <2>1, SameUse
<1>3. CASE ForClient(c, msg)
    <2>1. client[c] \in ClientState
        BY ClientFacts
    <2>2. cl \in ClientState /\ cl.lease = NoLease /\ cl.retry_after = client[c].retry_after
        BY <2>1 DEF ClientState
    <2>3. ScheduleDhcpNow(c, cl, timers) /\ timers \in SUBSET timers /\ network' \in SUBSET network
        BY <1>1, <1>3 DEF HandleNak
    <2> HIDE DEF cl
    <2> QED
        BY <1>1, <2>2, <2>3, ScheduleUse
<1> QED
    BY <1>2, <1>3

\* observe_dhcp_conflict: the client declines an address that it does not use.
LEMMA ConflictUse ==
    ASSUME DhcpInv, UseInv, NEW c \in Client, client[c].probe # NoProbe,
           client' = [client EXCEPT ![c] = Declining(c)],
           NEW M, \A m \in M : m.client = c /\ m.kind = "reply" /\ m.sent = now,
           network' \in SUBSET (network \cup M \cup Decline(c)),
           UNCHANGED <<lab, now, next_xid, timers, server>>
    PROVE  UseInv'
<1> DEFINE cl == client[c]
           new == Declining(c)
<1>0. /\ cl \in ClientState /\ next_xid \in Nat /\ now \in Nat /\ Types
      /\ ClientOK(cl, next_xid) /\ ExchangeOK(c, cl, network, timers, server)
    BY ClientFacts DEF UseInv, DhcpInv
<1>1. /\ new.lease = cl.lease /\ new.probe = NoProbe /\ new.xid = 0
      /\ new.retry_after = now + DeclineTime
    <2>1. new = [cl EXCEPT !.probe = NoProbe, !.xid = 0, !.retry_after = now + DeclineTime]
        BY DEF Declining
    <2> HIDE DEF cl, new
    <2> QED
        BY <1>0, <2>1 DEF ClientState
<1>2. \A m \in Decline(c) : /\ m.client = c /\ m.kind = "decline" /\ m.sent = now
                            /\ m.address = cl.probe.address
    BY DEF Decline, Message
<1>3. /\ cl.probe.address # 0
      /\ cl.lease # NoLease => cl.lease.address # cl.probe.address
    BY <1>0, PoolType DEF ClientOK
<1> HIDE DEF new
<1>4. \A m \in network' : m.client = c /\ m.kind = "decline" =>
         /\ m.sent + DeclineTime <= new.retry_after
         /\ new.lease # NoLease => new.lease.address # m.address
    <2> SUFFICES ASSUME NEW m \in network', m.client = c, m.kind = "decline"
                 PROVE  /\ m.sent + DeclineTime <= new.retry_after
                        /\ new.lease # NoLease => new.lease.address # m.address
        OBVIOUS
    <2>1. CASE m \in network
        <3>1. m.sent \in Nat /\ m.sent <= now /\ DeclineOK(m, cl)
            BY <1>0, <2>1 DEF UseInv, MessageOK, Types, Packet, ExchangeOK
        <3> QED
            BY <1>0, <1>1, <3>1, Times DEF DeclineOK
    <2>2. CASE m \in Decline(c)
        BY <1>0, <1>1, <1>2, <1>3, <2>2, Times
    <2> QED
        BY <2>1, <2>2
<1>5. \A m \in network' : \/ m \in network
                          \/ /\ m.client = c /\ m.sent = now
                             /\ m.kind \in {"arp", "reply", "decline"}
                             /\ m.kind = "decline" => m.address # 0
    BY <1>2, <1>3
<1>6. /\ client' = [client EXCEPT ![c] = new]
      /\ new.lease \in {NoLease, client[c].lease} /\ new.probe = NoProbe /\ new.xid = 0
      /\ UNCHANGED <<lab, now, server, next_xid>>
    BY <1>1 DEF new
<1>7. \A t \in timers' : t \in timers \/ (t.client = c /\ t.kind # "probe" /\ TimerOK(t))
    OBVIOUS
<1> QED
    BY <1>4, <1>5, <1>6, <1>7, ForgetUse

\* handle_arp
LEMMA HandleArpUse ==
    ASSUME DhcpInv, UseInv, NEW c \in Client, NEW msg \in network, HandleArp(c, msg)
    PROVE  UseInv'
<1> DEFINE cl == client[c]
           M == IF cl.lease # NoLease /\ cl.lease.address = msg.address
                THEN {Message("reply", c, msg.client, 0, msg.address)} ELSE {}
<1>1. \A m \in M : m.client = c /\ m.kind = "reply" /\ m.sent = now
    BY DEF Message
<1>2. UNCHANGED <<lab, now, next_xid, timers, server>>
    BY DEF HandleArp
<1>3. CASE Conflicts(cl, msg)
    <2>1. client' = [client EXCEPT ![c] = Declining(c)] /\ Answer(msg, M \cup Decline(c))
        BY <1>3 DEF HandleArp
    <2>2. network' \in SUBSET (network \cup M \cup Decline(c))
        BY <2>1 DEF Answer
    <2>3. client[c].probe # NoProbe
        BY <1>3 DEF Conflicts
    <2> HIDE DEF M
    <2> QED
        BY <1>1, <1>2, <2>1, <2>2, <2>3, ConflictUse
<1>4. CASE ~Conflicts(cl, msg)
    <2>1. UNCHANGED client /\ network' \in SUBSET (network \cup M)
        BY <1>4 DEF HandleArp, Answer
    <2> HIDE DEF M
    <2>2. \A m \in network' : \/ m \in network
                              \/ m.client = c /\ m.kind \in {"arp", "reply"} /\ m.sent = now
        BY <1>1, <2>1
    <2> QED
        BY <1>2, <2>1, <2>2, SameUse
<1> QED
    BY <1>3, <1>4

\* An answer to a probe
LEMMA HandleReplyUse ==
    ASSUME DhcpInv, UseInv, NEW c \in Client, NEW msg \in network, HandleReply(c, msg)
    PROVE  UseInv'
<1>1. UNCHANGED <<lab, now, next_xid, timers, server>>
    BY DEF HandleReply
<1>2. CASE Conflicts(client[c], msg)
    <2> DEFINE M == {}
    <2>1. client' = [client EXCEPT ![c] = Declining(c)] /\ Answer(msg, Decline(c))
        BY <1>2 DEF HandleReply
    <2>2. /\ network' \in SUBSET (network \cup M \cup Decline(c))
          /\ \A m \in M : m.client = c /\ m.kind = "reply" /\ m.sent = now
        BY <2>1 DEF Answer
    <2>3. client[c].probe # NoProbe
        BY <1>2 DEF Conflicts
    <2> HIDE DEF M
    <2> QED
        BY <1>1, <2>1, <2>2, <2>3, ConflictUse
<1>3. CASE ~Conflicts(client[c], msg)
    BY <1>1, <1>3, SameUse DEF HandleReply, Answer
<1> QED
    BY <1>2, <1>3

-----------------------------------------------------------------------------
(* A step of a server *)

\* Client c has the address, or is about to get it.
InUse(c, a) ==
    \/ client[c].lease # NoLease /\ client[c].lease.address = a
    \/ \E m \in network : Current(c, client[c], m) /\ m.kind = "ack" /\ m.address = a

\* In sv, server s still has the bindings of the addresses in use.
Keeps(s, sv) ==
    \A c \in Client :
        /\ InUse(c, server[s].bindings[c].address)
        /\ now < server[s].bindings[c].expires_at
        => /\ sv.bindings[c].address = server[s].bindings[c].address
           /\ server[s].bindings[c].expires_at <= sv.bindings[c].expires_at

\* r is the answer to msg: it goes on with the exchange, or ends it.
Answers(msg, r) ==
    /\ r.client = msg.client /\ r.server = msg.server /\ r.xid = msg.xid /\ r.sent = now
    /\ \/ r.kind = "nak"
       \/ msg.kind = "discover" /\ r.kind = "offer"
       \/ msg.kind = "request" /\ r.kind = "ack" /\ r.address = msg.address

\* R holds the answer to msg, if there is one, of server s that is now in state
\* sv: it does not promise an address that another client uses.
AnswersOK(s, sv, msg, R) ==
    /\ \A q, r \in R : q = r
    /\ \A r \in R :
          /\ Answers(msg, r)
          /\ r.kind \in {"offer", "ack"} => r.address \in Pool[s]
          /\ r.kind = "ack" => /\ sv.bindings[msg.client].address = r.address
                               /\ now + LeaseTime <= sv.bindings[msg.client].expires_at
          /\ \A e \in Client \ {msg.client} :
                /\ client[e].lease # NoLease
                /\ Current(msg.client, client[msg.client], msg)
                /\ r.address = client[e].lease.address
                => /\ r.kind # "ack"
                   /\ r.kind = "offer" => client[e].lease.expires_at < now + ProbeTime

\* The entries of a state of server s.
LEMMA StateType ==
    ASSUME Types, NEW s \in Server, NEW sv \in ServerState(s), NEW c \in Client
    PROVE  /\ sv.bindings[c] \in EntryOf(s) /\ sv.offers[c] \in EntryOf(s)
           /\ sv.bindings[c].address \in Nat /\ sv.bindings[c].expires_at \in Nat
           /\ sv.offers[c].address \in Nat /\ sv.offers[c].expires_at \in Nat
<1>1. sv.bindings[c] \in EntryOf(s) /\ sv.offers[c] \in EntryOf(s)
    BY DEF ServerState
<1>2. Pool[s] \in SUBSET Nat
    BY PoolType
<1> QED
    BY <1>1, <1>2 DEF EntryOf, NoEntry

\* The answer takes the place of the message in the exchange.
LEMMA AnswerExchange ==
    ASSUME NEW c, NEW cl, NEW N, NEW msg \in N, NEW R,
           OneAtATime(c, cl, N), \A m \in N : Current(c, cl, m) => Consistent(cl, m),
           \A r \in R : Answers(msg, r), \A q, r \in R : q = r
    PROVE  /\ OneAtATime(c, cl, (N \ {msg}) \cup R)
           /\ \A r \in R : Current(c, cl, r) => Consistent(cl, r) /\ Current(c, cl, msg)
<1>1. \A r \in R : Current(c, cl, r) =>
         /\ Current(c, cl, msg) /\ r.server = msg.server
         /\ r.kind \in Asking => msg.kind \in Asking
    BY DEF Answers, Current, Asking, Taking
<1>2. ASSUME NEW m \in (N \ {msg}) \cup R, NEW n \in (N \ {msg}) \cup R,
             Current(c, cl, m), m.kind \in Asking, Current(c, cl, n), m.server = n.server
      PROVE  m = n
    <2>1. CASE m \in R /\ n \in R
        BY <2>1
    <2>2. CASE m \in R /\ n \in N \ {msg}
        BY <1>1, <1>2, <2>2 DEF OneAtATime
    <2>3. CASE m \in N \ {msg} /\ n \in R
        BY <1>1, <1>2, <2>3 DEF OneAtATime
    <2>4. CASE m \in N /\ n \in N
        BY <1>2, <2>4 DEF OneAtATime
    <2> QED
        BY <2>1, <2>2, <2>3, <2>4
<1>3. \A r \in R : Current(c, cl, r) => Consistent(cl, r)
    BY <1>1 DEF Answers, Consistent, Current, Asking, Taking
<1> QED
    BY <1>1, <1>2, <1>3 DEF OneAtATime

\* What a step of server s owes: it keeps the bindings in use, and does not
\* promise an address in use.
LEMMA ServerUse ==
    ASSUME DhcpInv, UseInv, NEW s \in Server, NEW sv \in ServerState(s),
           server' = [server EXCEPT ![s] = sv],
           UNCHANGED <<lab, now, client, next_xid, timers>>,
           TableOK(sv), Keeps(s, sv),
           NEW msg \in network, msg.server = s, NEW R,
           network' = (network \ {msg}) \cup R, AnswersOK(s, sv, msg, R)
    PROVE  UseInv'
<1>0. /\ next_xid \in Nat /\ now \in Nat /\ Types
      /\ server'[s] = sv /\ \A z \in Server \ {s} : server'[z] = server[z]
      /\ \A c \in Client : client[c] \in ClientState
      /\ msg.client \in Client /\ MessageOK(msg)
    BY DEF DhcpInv, Types, Packet, UseInv
<1>1. /\ \A r \in R : Answers(msg, r)
      /\ \A q, r \in R : q = r
      /\ \A r \in R : r.kind \in {"offer", "ack"} => r.address \in Pool[s]
      /\ \A r \in R : r.kind = "ack" =>
            /\ sv.bindings[msg.client].address = r.address
            /\ now + LeaseTime <= sv.bindings[msg.client].expires_at
      /\ \A r \in R, e \in Client \ {msg.client} :
            /\ client[e].lease # NoLease
            /\ Current(msg.client, client[msg.client], msg)
            /\ r.address = client[e].lease.address
            => /\ r.kind # "ack"
               /\ r.kind = "offer" => client[e].lease.expires_at < now + ProbeTime
    BY DEF AnswersOK
<1>2. \A c \in Client : /\ ClientOK(client[c], next_xid)
                        /\ ExchangeOK(c, client[c], network, timers, server)
                        /\ LeaseBound(c, client[c].lease, server)
    BY DEF UseInv
<1>3. ASSUME NEW c \in Client, NEW z \in Server, InUse(c, server[z].bindings[c].address),
             now < server[z].bindings[c].expires_at
      PROVE  /\ server'[z].bindings[c].address = server[z].bindings[c].address
             /\ server[z].bindings[c].expires_at <= server'[z].bindings[c].expires_at
             /\ server'[z].bindings[c].expires_at \in Nat
    <2>1. CASE z = s
        BY <1>0, <1>3, <2>1, StateType DEF Keeps
    <2>2. CASE z # s
        BY <1>0, <2>2, EntryType
    <2> QED
        BY <2>1, <2>2
<1>4. ASSUME NEW c \in Client, client[c].lease # NoLease, NEW t \in Nat, now <= t,
             Bound(c, client[c].lease, server, t)
      PROVE  Bound(c, client[c].lease, server', t)
    <2> DEFINE z == client[c].lease.server
    <2>1. z \in Server
        BY <1>2, <1>4 DEF ClientOK
    <2>2. InUse(c, server[z].bindings[c].address)
        BY <1>4 DEF InUse, Bound
    <2>3. t < server[z].bindings[c].expires_at /\ server[z].bindings[c].expires_at \in Nat
        BY <1>0, <1>4, <2>1, EntryType DEF Bound
    <2> HIDE DEF z
    <2>4. now < server[z].bindings[c].expires_at
        BY <1>0, <1>4, <2>3
    <2>5. /\ server'[z].bindings[c].address = server[z].bindings[c].address
          /\ server[z].bindings[c].expires_at <= server'[z].bindings[c].expires_at
          /\ server'[z].bindings[c].expires_at \in Nat
        BY <1>3, <2>1, <2>2, <2>4
    <2>6. t < server'[z].bindings[c].expires_at
        BY <1>4, <2>3, <2>5
    <2> QED
        BY <1>4, <2>5, <2>6 DEF Bound, z
<1>5. \A m \in network' : MessageOK(m)'
    <2>1. \A m \in network : MessageOK(m)'
        BY DEF UseInv, MessageOK, Server
    <2>2. \A r \in R : MessageOK(r)'
        BY <1>0, <1>1, Times DEF MessageOK, Answers, Server, Asking, Taking
    <2> QED
        BY <2>1, <2>2
<1>6. \A t \in timers' : TimerOK(t)'
    BY DEF UseInv, TimerOK
<1>7. \A z \in Server : TableOK(server[z])'
    <2> SUFFICES ASSUME NEW z \in Server PROVE TableOK(server[z])'
        OBVIOUS
    <2>1. TableOK(server'[z])
        BY <1>0 DEF UseInv
    <2> QED
        BY <2>1 DEF TableOK, Client
<1>8. ASSUME NEW c \in Client
      PROVE  ExchangeOK(c, client[c], network', timers', server')
    <2> DEFINE cl == client[c]
    <2>1. /\ OneAtATime(c, cl, network)
          /\ \A m \in network : Current(c, cl, m) => Consistent(cl, m)
        BY <1>2 DEF ExchangeOK
    <2>2. /\ OneAtATime(c, cl, network')
          /\ \A r \in R : Current(c, cl, r) => Consistent(cl, r) /\ Current(c, cl, msg)
        <3> HIDE DEF cl
        <3> QED
            BY <1>1, <2>1, AnswerExchange
    <2>3. OneProbe(c, cl, timers')
        BY <1>2 DEF ExchangeOK
    <2>4. \A m \in network' : /\ Current(c, cl, m) => Consistent(cl, m)
                              /\ m.client = c => DeclineOK(m, cl)
        BY <1>2, <1>1, <2>1, <2>2 DEF ExchangeOK, DeclineOK, Answers
    <2>5. ASSUME NEW m \in network' PROVE AckBound(c, cl, m, server')
        <3> SUFFICES ASSUME Current(c, cl, m), m.kind = "ack"
                     PROVE  /\ server'[m.server].bindings[c].address = m.address
                            /\ m.sent + LeaseTime <= server'[m.server].bindings[c].expires_at
            BY DEF AckBound
        <3>1. CASE m \in R
            BY <1>0, <1>1, <3>1 DEF Answers, Current
        <3>2. CASE m \in network
            <4> DEFINE b == server[m.server].bindings[c]
            <4>1. b.address = m.address /\ m.sent + LeaseTime <= b.expires_at
                BY <1>2, <3>2 DEF ExchangeOK, AckBound
            <4>2. /\ m.server \in Server /\ now <= m.sent + MaxDelay /\ m.sent \in Nat
                BY <1>0, <3>2 DEF UseInv, MessageOK, Current, Types, Packet
            <4>3. b.expires_at \in Nat
                BY <1>0, <4>2, EntryType
            <4>4. InUse(c, b.address)
                BY <3>2, <4>1 DEF InUse
            <4> HIDE DEF b
            <4>5. now < b.expires_at
                BY <1>0, <4>1, <4>2, <4>3, Times
            <4>6. /\ server'[m.server].bindings[c].address = b.address
                  /\ b.expires_at <= server'[m.server].bindings[c].expires_at
                  /\ server'[m.server].bindings[c].expires_at \in Nat
                BY <1>3, <4>2, <4>4, <4>5 DEF b
            <4> QED
                BY <4>1, <4>2, <4>3, <4>6, Times
        <3> QED
            BY <3>1, <3>2
    <2> QED
        BY <2>2, <2>3, <2>4, <2>5 DEF ExchangeOK
<1>9. ASSUME NEW c \in Client
      PROVE  LeaseBound(c, client[c].lease, server')
    <2> DEFINE lease == client[c].lease
               b == server[lease.server].bindings[c]
    <2> SUFFICES ASSUME lease # NoLease, ~(lease.expires_at <= now + MaxDelay)
                 PROVE  /\ server'[lease.server].bindings[c].address = lease.address
                        /\ lease.expires_at <= server'[lease.server].bindings[c].expires_at + MaxDelay
        BY DEF LeaseBound
    <2>1. b.address = lease.address /\ lease.expires_at <= b.expires_at + MaxDelay
        BY <1>2 DEF LeaseBound
    <2>2. lease.server \in Server /\ lease.expires_at \in Nat
        BY <1>0, <1>2 DEF ClientOK, ClientState, Lease
    <2>3. b.expires_at \in Nat
        BY <1>0, <2>2, EntryType
    <2>4. InUse(c, b.address)
        BY <2>1 DEF InUse
    <2> HIDE DEF b
    <2>5. now < b.expires_at
        BY <1>0, <2>1, <2>2, <2>3, Times
    <2>6. /\ server'[lease.server].bindings[c].address = b.address
          /\ b.expires_at <= server'[lease.server].bindings[c].expires_at
          /\ server'[lease.server].bindings[c].expires_at \in Nat
        BY <1>3, <2>2, <2>4, <2>5 DEF b
    <2> QED
        BY <2>1, <2>2, <2>3, <2>6, Times
<1>10. ASSUME NEW c \in Client, NEW d \in Client, c # d
      PROVE  Excludes(c, client[c].lease, d, client[d], network', timers', server')
    <2> DEFINE lease == client[c].lease
    <2> SUFFICES ASSUME lease # NoLease
                 PROVE  Excludes(c, lease, d, client[d], network', timers', server')
        BY DEF Excludes
    <2>1. Excludes(c, lease, d, client[d], network, timers, server)
        BY <1>10 DEF UseInv
    <2>2. ASSUME NEW m \in network' PROVE Excluded(c, lease, d, client[d], m, server')
        <3>1. CASE m \in R
            <4>1. Current(d, client[d], m) => d = msg.client /\ Current(d, client[d], msg)
                BY <1>1, <3>1 DEF Answers, Current, Asking, Taking
            <4>2. m.kind \in {"nak", "offer", "ack"} /\ m.sent = now
                BY <1>1, <3>1 DEF Answers
            <4>3. ASSUME Current(d, client[d], m), m.address = lease.address
                  PROVE  m.kind # "ack" /\ (m.kind = "offer" => lease.expires_at < m.sent + ProbeTime)
                <5>1. c \in Client \ {msg.client} /\ Current(msg.client, client[msg.client], msg)
                    BY <1>10, <4>1, <4>3
                <5> QED
                    BY <1>1, <3>1, <4>2, <4>3, <5>1
            <4> QED
                BY <4>2, <4>3 DEF Excluded
        <3>2. CASE m \in network
            <4>1. Excluded(c, lease, d, client[d], m, server)
                BY <2>1, <3>2 DEF Excludes
            <4>2. m.sent \in Nat /\ now <= m.sent + MaxDelay
                BY <3>2 DEF UseInv, MessageOK, DhcpInv, Types, Packet
            <4>3. /\ m.sent + MaxDelay \in Nat
                  /\ m.sent + 2 * MaxDelay + ProbeTime \in Nat
                  /\ now <= m.sent + 2 * MaxDelay + ProbeTime
                BY <1>0, <4>2, Times
            <4> QED
                BY <1>4, <4>1, <4>2, <4>3 DEF Excluded
        <3> QED
            BY <3>1, <3>2
    <2>3. ASSUME NEW t \in timers' PROVE ProbeExcluded(c, lease, d, client[d], t, server')
        <3>1. ProbeExcluded(c, lease, d, client[d], t, server)
            BY <2>1 DEF Excludes
        <3>2. t.time \in Nat /\ now <= t.time
            BY DEF UseInv, TimerOK
        <3>3. t.time + MaxDelay \in Nat /\ now <= t.time + MaxDelay
            BY <1>0, <3>2, Times
        <3> QED
            BY <1>4, <3>1, <3>3 DEF ProbeExcluded
    <2> QED
        BY <2>1, <2>2, <2>3 DEF Excludes
<1>11. \A c \in Client : ClientOK(client[c], next_xid)' /\ LeaseBound(c, client[c].lease, server)'
    <2>1. \A c \in Client : ClientOK(client[c], next_xid)'
        BY <1>2 DEF ClientOK, Server
    <2>2. \A c \in Client : LeaseBound(c, client[c].lease, server)'
        BY <1>9 DEF LeaseBound
    <2> QED
        BY <2>1, <2>2
<1> QED
    BY <1>5, <1>6, <1>7, <1>8, <1>10, <1>11 DEF UseInv, Server, Client

\* expire_dhcp_server_state drops what has expired.
LEMMA ExpiredTable ==
    ASSUME DhcpInv, UseInv, NEW s \in Server
    PROVE  /\ TableOK(Expired(server[s]))
           /\ \A c \in Client : now < server[s].bindings[c].expires_at =>
                 Expired(server[s]).bindings[c] = server[s].bindings[c]
<1> DEFINE old == server[s]
           sv == Expired(old)
<1>0. Types /\ now \in Nat /\ TableOK(old)
    BY DEF DhcpInv, Types, UseInv
<1>1. /\ sv.conflicts \in SUBSET old.conflicts
      /\ \A c \in Client : sv.offers[c] = Live(old.offers[c]) /\ sv.bindings[c] = Live(old.bindings[c])
    BY DEF Expired
<1>2. \A c \in Client : /\ sv.offers[c] \in {NoEntry, old.offers[c]}
                        /\ \/ sv.bindings[c] = NoEntry /\ ~(now < old.bindings[c].expires_at)
                           \/ sv.bindings[c] = old.bindings[c] /\ now < old.bindings[c].expires_at
    BY <1>0, <1>1, EntryType DEF Live
<1>3. NoEntry.address = 0 /\ NoEntry.expires_at = 0
    BY DEF NoEntry
<1>4. \A c \in Client : old.bindings[c].expires_at <= now + LeaseTime
    BY <1>0 DEF TableOK
<1> HIDE DEF old, sv
<1>5. \A x \in sv.conflicts, c \in Client :
          /\ x.address # sv.offers[c].address
          /\ x.address # sv.bindings[c].address
          /\ x.address # 0
    BY <1>0, <1>1, <1>2, <1>3 DEF TableOK
<1>6. \A c \in Client :
          /\ sv.offers[c] # NoEntry /\ now < sv.bindings[c].expires_at =>
                sv.offers[c].address = sv.bindings[c].address
          /\ sv.bindings[c].expires_at <= now + LeaseTime
    BY <1>0, <1>2, <1>3, <1>4, Times DEF TableOK
<1>7. TableOK(sv)
    BY <1>5, <1>6 DEF TableOK
<1> QED
    BY <1>2, <1>7 DEF old, sv

\* A client is offered what it is bound to, and nothing that is set aside.
LEMMA ChoiceTable ==
    ASSUME Types, NEW s \in Server, NEW sv \in ServerState(s), Apart(sv), TableOK(sv),
           NEW c \in Client, Offers(s, sv, c)
    PROVE  /\ \A x \in sv.conflicts : x.address # Choice(s, sv, c)
           /\ now < sv.bindings[c].expires_at => Choice(s, sv, c) = sv.bindings[c].address
<1>1. CASE sv.offers[c] # NoEntry
    BY <1>1 DEF Choice, TableOK
<1>2. CASE sv.offers[c] = NoEntry
    <2>1. Pool[s] \in SUBSET Nat /\ 0 \notin Pool[s] /\ now \in Nat
        BY PoolType DEF Types
    <2>2. Free(s, sv, c) # {} /\ Free(s, sv, c) \in SUBSET Nat
        BY <1>2, <2>1 DEF Offers, Free
    <2>3. Min(Free(s, sv, c)) \in Free(s, sv, c)
        BY <2>2, MinNat
    <2>4. Choice(s, sv, c) \in Free(s, sv, c)
        BY <1>2, <2>3 DEF Choice
    <2>5. \A x \in sv.conflicts : x.address # Choice(s, sv, c)
        BY <2>4 DEF Free, Used
    <2>6. ASSUME now < sv.bindings[c].expires_at
          PROVE  Choice(s, sv, c) = sv.bindings[c].address
        <3>1. sv.bindings[c].address \in Pool[s]
            BY <2>1, <2>6, StateType DEF EntryOf, NoEntry
        <3>2. sv.bindings[c].address \notin Used(sv, c)
            <4>1. sv.bindings[c].address # 0
                BY <2>1, <3>1
            <4>2. \A d \in Client \ {c} : /\ sv.bindings[c].address # sv.bindings[d].address
                                          /\ sv.bindings[c].address # sv.offers[d].address
                BY <4>1 DEF Apart
            <4>3. \A x \in sv.conflicts : x.address # sv.bindings[c].address
                BY DEF TableOK
            <4> QED
                BY <4>2, <4>3 DEF Used
        <3> QED
            BY <1>2, <3>1, <3>2 DEF Choice, Free
    <2> QED
        BY <2>5, <2>6
<1> QED
    BY <1>1, <1>2

\* An offer changes no binding.
LEMMA OfferedTable ==
    ASSUME Types, NEW s \in Server, NEW sv \in ServerState(s), Apart(sv), TableOK(sv),
           NEW c \in Client, Offers(s, sv, c)
    PROVE  /\ TableOK(Offered(s, sv, c))
           /\ Offered(s, sv, c).bindings = sv.bindings
           /\ Offered(s, sv, c).conflicts = sv.conflicts
           /\ Offered(s, sv, c).offers[c].address = Choice(s, sv, c)
<1>1. CASE sv.offers[c] # NoEntry
    BY <1>1 DEF Offered, Choice
<1>2. CASE sv.offers[c] = NoEntry
    <2> DEFINE a == Choice(s, sv, c)
               entry == [address |-> a, expires_at |-> now + OfferTime]
               new == [sv EXCEPT !.offers[c] = entry]
    <2>1. Offered(s, sv, c) = new
        BY <1>2 DEF Offered
    <2>2. /\ \A x \in sv.conflicts : x.address # a
          /\ now < sv.bindings[c].expires_at => a = sv.bindings[c].address
        BY ChoiceTable
    <2> HIDE DEF a
    <2>3. entry.address = a
        OBVIOUS
    <2> HIDE DEF entry
    <2>4. /\ new.offers[c] = entry /\ new.bindings = sv.bindings /\ new.conflicts = sv.conflicts
          /\ \A d \in Client \ {c} : new.offers[d] = sv.offers[d]
        BY DEF ServerState
    <2> HIDE DEF new
    <2>5. TableOK(new)
        BY <2>2, <2>3, <2>4 DEF TableOK
    <2> QED
        BY <2>1, <2>3, <2>4, <2>5 DEF a
<1> QED
    BY <1>1, <1>2

\* commit_dhcp prolongs the binding that the client has.
LEMMA CommittedTable ==
    ASSUME Types, NEW s \in Server, NEW sv \in ServerState(s), Apart(sv), TableOK(sv),
           NEW c \in Client, sv.offers[c] # NoEntry
    PROVE  /\ TableOK(Committed(sv, c))
           /\ Committed(sv, c).bindings[c].address = sv.offers[c].address
           /\ Committed(sv, c).bindings[c].expires_at = now + LeaseTime
           /\ \A d \in Client \ {c} : Committed(sv, c).bindings[d] = sv.bindings[d]
<1> DEFINE entry == [address |-> sv.offers[c].address, expires_at |-> now + LeaseTime]
           new == [sv EXCEPT !.offers[c] = NoEntry, !.bindings[c] = entry]
<1>0. now \in Nat
    BY DEF Types
<1>1. entry.address = sv.offers[c].address /\ entry.expires_at = now + LeaseTime
    OBVIOUS
<1>2. NoEntry.address = 0
    BY DEF NoEntry
<1>3. Committed(sv, c) = new
    BY DEF Committed
<1> HIDE DEF entry
<1>4. /\ new.offers[c] = NoEntry /\ new.bindings[c] = entry /\ new.conflicts = sv.conflicts
      /\ \A d \in Client \ {c} : new.offers[d] = sv.offers[d] /\ new.bindings[d] = sv.bindings[d]
    BY DEF ServerState
<1> HIDE DEF new
<1>5. TableOK(new)
    <2>1. \A x \in new.conflicts, d \in Client :
             /\ x.address # new.offers[d].address
             /\ x.address # new.bindings[d].address
             /\ x.address # 0
        BY <1>1, <1>2, <1>4 DEF TableOK
    <2>2. \A d \in Client :
             /\ new.offers[d] # NoEntry /\ now < new.bindings[d].expires_at =>
                   new.offers[d].address = new.bindings[d].address
             /\ new.bindings[d].expires_at <= now + LeaseTime
        BY <1>0, <1>1, <1>4, Times DEF TableOK
    <2> QED
        BY <2>1, <2>2 DEF TableOK
<1> QED
    BY <1>1, <1>3, <1>4, <1>5

\* A discover: an address in use is offered to another client only when its
\* lease is about to end.
LEMMA HandleDiscoverUse ==
    ASSUME DhcpInv, UseInv, NEW s \in Server, NEW msg \in network, HandleDiscover(s, msg)
    PROVE  UseInv'
<1> DEFINE sv == Expired(server[s])
           c == msg.client
<1>0. /\ Types /\ now \in Nat /\ sv \in ServerState(s) /\ Apart(sv)
      /\ c \in Client
    BY ServerFacts
<1>1. /\ UNCHANGED <<lab, now, client, next_xid, timers>>
      /\ msg.server = s /\ msg.kind = "discover"
    BY DEF HandleDiscover
<1>2. TableOK(sv) /\ \A d \in Client : now < server[s].bindings[d].expires_at =>
                        sv.bindings[d] = server[s].bindings[d]
    BY ExpiredTable
<1>3. \A d \in Client : server[s].bindings[d].expires_at \in Nat
    BY <1>0, EntryType
<1>4. CASE ~Offers(s, sv, c)
    <2> DEFINE R == {}
    <2>1. server' = [server EXCEPT ![s] = sv] /\ network' = (network \ {msg}) \cup R
        BY <1>4 DEF HandleDiscover, Answer
    <2>2. Keeps(s, sv)
        BY <1>2, <1>3 DEF Keeps
    <2>3. AnswersOK(s, sv, msg, R)
        BY DEF AnswersOK
    <2> HIDE DEF sv, R
    <2> QED
        BY <1>0, <1>1, <1>2, <2>1, <2>2, <2>3, ServerUse
<1>5. CASE Offers(s, sv, c)
    <2> DEFINE a == Choice(s, sv, c)
               r == Message("offer", c, s, msg.xid, a)
               R == {r}
               new == Offered(s, sv, c)
    <2>1. server' = [server EXCEPT ![s] = new] /\ network' = (network \ {msg}) \cup R
        BY <1>5 DEF HandleDiscover, Answer
    <2> HIDE DEF sv
    <2>2. new \in ServerState(s)
        BY <1>0, <1>5, OfferedOK
    <2>3. TableOK(new) /\ new.bindings = sv.bindings
        BY <1>0, <1>2, <1>5, OfferedTable
    <2>4. /\ a \in Pool[s]
          /\ \A d \in Client \ {c} : sv.bindings[d].address # a
        BY <1>0, <1>5, ChoiceOK
    <2>5. Keeps(s, new)
        BY <1>2, <1>3, <2>3 DEF Keeps
    <2>6. r.kind = "offer" /\ r.address = a /\ Answers(msg, r)
        BY <1>1 DEF Message, Answers
    <2> HIDE DEF r, new, a, c
    <2>7. ASSUME NEW e \in Client \ {c}, client[e].lease # NoLease, a = client[e].lease.address
          PROVE  client[e].lease.expires_at < now + ProbeTime
        <3> DEFINE lease == client[e].lease
                   b == server[s].bindings[e]
        <3>1. /\ lease.server \in Server /\ lease.address \in Pool[lease.server]
              /\ LeaseBound(e, lease, server) /\ lease.expires_at \in Nat
            BY <2>7 DEF UseInv, ClientOK, DhcpInv, Types, ClientState, Lease
        <3>2. lease.server = s
            BY <1>0, <2>4, <2>7, <3>1, OneServer
        <3>3. \/ lease.expires_at <= now + MaxDelay
              \/ b.address = a /\ lease.expires_at <= b.expires_at + MaxDelay
            BY <2>7, <3>1, <3>2 DEF LeaseBound
        <3>4. b.address = a => ~(now < b.expires_at)
            BY <1>2, <2>4
        <3>5. b.expires_at \in Nat
            BY <1>3
        <3> HIDE DEF b, lease
        <3>6. lease.expires_at < now + ProbeTime
            BY <1>0, <3>1, <3>3, <3>4, <3>5, Times
        <3> QED
            BY <3>6 DEF lease
    <2>8. \A q, p \in R : q = p
        OBVIOUS
    <2>9. \A p \in R : /\ Answers(msg, p)
                       /\ p.kind \in {"offer", "ack"} => p.address \in Pool[s]
                       /\ p.kind # "ack"
        BY <2>4, <2>6
    <2>10. \A p \in R, e \in Client \ {msg.client} :
              /\ client[e].lease # NoLease
              /\ Current(msg.client, client[msg.client], msg)
              /\ p.address = client[e].lease.address
              => /\ p.kind # "ack"
                 /\ p.kind = "offer" => client[e].lease.expires_at < now + ProbeTime
        BY <2>6, <2>7 DEF c
    <2>11. AnswersOK(s, new, msg, R)
        <3> HIDE DEF R
        <3> QED
            BY <2>8, <2>9, <2>10 DEF AnswersOK
    <2> HIDE DEF R
    <2> QED
        BY <1>1, <2>1, <2>2, <2>3, <2>5, <2>11, ServerUse
<1> QED
    BY <1>4, <1>5

\* A request: the server does not promise what another client uses, for it has
\* that client in its table.
LEMMA HandleRequestUse ==
    ASSUME DhcpInv, UseInv, NEW s \in Server, NEW msg \in network, HandleRequest(s, msg)
    PROVE  UseInv'
<1> DEFINE sv == Expired(server[s])
           c == msg.client
           a == Choice(s, sv, c)
           offered == Offered(s, sv, c)
           ack == Message("ack", c, s, msg.xid, msg.address)
           nak == Message("nak", c, s, msg.xid, 0)
<1>0. /\ Types /\ now \in Nat /\ sv \in ServerState(s) /\ Apart(sv)
      /\ c \in Client
    BY ServerFacts
<1>1. /\ UNCHANGED <<lab, now, client, next_xid, timers>>
      /\ msg.server = s /\ msg.kind = "request"
    BY DEF HandleRequest
<1>2. TableOK(sv) /\ \A d \in Client : now < server[s].bindings[d].expires_at =>
                        sv.bindings[d] = server[s].bindings[d]
    BY ExpiredTable
<1>3. \A d \in Client : server[s].bindings[d].expires_at \in Nat
    BY <1>0, EntryType
<1>4. CASE ~Offers(s, sv, c)
    <2> DEFINE R == {}
    <2>1. server' = [server EXCEPT ![s] = sv] /\ network' = (network \ {msg}) \cup R
        BY <1>4 DEF HandleRequest, Answer
    <2>2. Keeps(s, sv)
        BY <1>2, <1>3 DEF Keeps
    <2>3. AnswersOK(s, sv, msg, R)
        BY DEF AnswersOK
    <2> HIDE DEF sv, R
    <2> QED
        BY <1>0, <1>1, <1>2, <2>1, <2>2, <2>3, ServerUse
<1>5. ASSUME Offers(s, sv, c)
      PROVE  /\ offered \in ServerState(s) /\ Apart(offered) /\ TableOK(offered)
             /\ offered.bindings = sv.bindings /\ offered.offers[c].address = a
             /\ a \in Pool[s] /\ a # 0
             /\ \A d \in Client \ {c} : sv.bindings[d].address # a
    <2> HIDE DEF sv
    <2> QED
        BY <1>0, <1>2, <1>5, OfferedOK, OfferedTable, ChoiceOK, PoolType
<1>6. CASE Offers(s, sv, c) /\ a # msg.address
    <2> DEFINE R == {nak}
    <2>1. server' = [server EXCEPT ![s] = offered] /\ network' = (network \ {msg}) \cup R
        BY <1>6 DEF HandleRequest, Answer
    <2>2. Keeps(s, offered)
        BY <1>2, <1>3, <1>5, <1>6 DEF Keeps
    <2>3. nak.kind = "nak" /\ Answers(msg, nak)
        BY <1>1 DEF Message, Answers
    <2> HIDE DEF nak
    <2>4. \A q, p \in R : q = p
        OBVIOUS
    <2>5. \A p \in R : p.kind = "nak" /\ Answers(msg, p)
        BY <2>3
    <2> HIDE DEF R, offered, sv
    <2>6. AnswersOK(s, offered, msg, R)
        BY <2>4, <2>5 DEF AnswersOK
    <2>7. offered \in ServerState(s) /\ TableOK(offered)
        BY <1>5, <1>6
    <2> QED
        BY <1>1, <2>1, <2>2, <2>6, <2>7, ServerUse
<1>7. CASE Offers(s, sv, c) /\ a = msg.address
    <2> DEFINE R == {ack}
               new == Committed(offered, c)
    <2>1. server' = [server EXCEPT ![s] = new] /\ network' = (network \ {msg}) \cup R
        BY <1>7 DEF HandleRequest, Answer
    <2>2. ack.kind = "ack" /\ ack.address = a /\ Answers(msg, ack)
        BY <1>1, <1>7 DEF Message, Answers
    <2>3. offered.offers[c] # NoEntry
        BY <1>5, <1>7 DEF NoEntry
    <2>4. now < sv.bindings[c].expires_at => a = sv.bindings[c].address
        <3> HIDE DEF sv
        <3> QED
            BY <1>0, <1>2, <1>7, ChoiceTable
    <2>5. \A d \in Client : server[s].bindings[d].expires_at <= now + LeaseTime
        BY DEF UseInv, TableOK
    <2> HIDE DEF ack, offered, sv, a
    <2>6. new \in ServerState(s)
        BY <1>0, <1>5, <1>7, CommittedOK
    <2>7. /\ TableOK(new)
          /\ new.bindings[c].address = a /\ new.bindings[c].expires_at = now + LeaseTime
          /\ \A d \in Client \ {c} : new.bindings[d] = sv.bindings[d]
        BY <1>0, <1>5, <1>7, <2>3, CommittedTable
    <2> HIDE DEF new
    <2>8. Keeps(s, new)
        <3> SUFFICES ASSUME NEW d \in Client, now < server[s].bindings[d].expires_at
                     PROVE  /\ new.bindings[d].address = server[s].bindings[d].address
                            /\ server[s].bindings[d].expires_at <= new.bindings[d].expires_at
            BY DEF Keeps
        <3>1. CASE d = c
            BY <1>2, <2>4, <2>5, <2>7, <3>1
        <3>2. CASE d # c
            BY <1>2, <1>3, <2>7, <3>2
        <3> QED
            BY <3>1, <3>2
    <2>9. ASSUME NEW e \in Client \ {c}, client[e].lease # NoLease, Current(c, client[c], msg)
          PROVE  a # client[e].lease.address
        <3> SUFFICES ASSUME a = client[e].lease.address PROVE FALSE
            OBVIOUS
        <3> DEFINE lease == client[e].lease
        <3>1. Excludes(e, lease, c, client[c], network, timers, server)
            BY <1>0, <2>9 DEF UseInv
        <3>2. Bound(e, lease, server, msg.sent + MaxDelay)
            BY <1>1, <1>7, <2>9, <3>1 DEF Excludes, Excluded
        <3>3. lease.server \in Server /\ lease.address \in Pool[lease.server]
            BY <2>9 DEF UseInv, ClientOK
        <3>4. lease.server = s
            BY <1>0, <1>5, <1>7, <3>3, OneServer
        <3>5. msg.sent \in Nat /\ now <= msg.sent + MaxDelay
            BY DEF UseInv, MessageOK, DhcpInv, Types, Packet
        <3>6. /\ server[s].bindings[e].address = a
              /\ msg.sent + MaxDelay < server[s].bindings[e].expires_at
            BY <3>2, <3>4 DEF Bound
        <3>7. now < server[s].bindings[e].expires_at
            BY <1>0, <1>3, <3>5, <3>6, Times
        <3> QED
            BY <1>2, <1>5, <1>7, <3>6, <3>7
    <2>10. \A q, p \in R : q = p
        OBVIOUS
    <2>11. \A p \in R : /\ Answers(msg, p) /\ p.address = a
                        /\ p.kind \in {"offer", "ack"} => p.address \in Pool[s]
                        /\ p.kind = "ack" => /\ new.bindings[msg.client].address = p.address
                                             /\ now + LeaseTime <= new.bindings[msg.client].expires_at
        BY <1>0, <1>5, <1>7, <2>2, <2>7, Times
    <2>12. \A p \in R, e \in Client \ {msg.client} :
              /\ client[e].lease # NoLease
              /\ Current(msg.client, client[msg.client], msg)
              /\ p.address = client[e].lease.address
              => /\ p.kind # "ack"
                 /\ p.kind = "offer" => client[e].lease.expires_at < now + ProbeTime
        BY <2>2, <2>9
    <2> HIDE DEF R, c
    <2>13. AnswersOK(s, new, msg, R)
        BY <2>10, <2>11, <2>12 DEF AnswersOK
    <2> QED
        BY <1>1, <2>1, <2>6, <2>7, <2>8, <2>13, ServerUse
<1> QED
    BY <1>4, <1>6, <1>7

\* decline_dhcp: the declined address is one that the client was offered, or
\* was bound to, and does not use.
LEMMA HandleDeclineUse ==
    ASSUME DhcpInv, UseInv, NEW s \in Server, NEW msg \in network, HandleDecline(s, msg)
    PROVE  UseInv'
<1> DEFINE sv == server[s]
           c == msg.client
           x == [address |-> msg.address, deadline |-> now + Quarantine]
           X == {y \in sv.conflicts : y.address # msg.address} \cup {x}
           new == [sv EXCEPT !.bindings[c] = NoEntry, !.offers[c] = NoEntry, !.conflicts = X]
           known == msg.address \in {sv.bindings[c].address, sv.offers[c].address}
           R == {}
<1>0. /\ Types /\ now \in Nat /\ sv \in ServerState(s) /\ Apart(sv)
      /\ msg \in Packet /\ c \in Client /\ TableOK(sv)
      /\ sv.bindings[c].expires_at \in Nat
      /\ \A d \in Client : sv.bindings[d].expires_at \in Nat
    BY ServerFacts, EntryType DEF UseInv
<1>1. /\ network' = (network \ {msg}) \cup R
      /\ UNCHANGED <<lab, now, client, next_xid, timers>>
      /\ msg.server = s /\ msg.kind = "decline" /\ msg.address # 0
    BY DEF HandleDecline, Answer, UseInv, MessageOK
<1>2. CASE ~known
    <2>1. server' = [server EXCEPT ![s] = sv]
        BY <1>0, <1>2 DEF HandleDecline, Types
    <2>2. Keeps(s, sv)
        BY <1>0 DEF Keeps
    <2>3. AnswersOK(s, sv, msg, R)
        BY DEF AnswersOK
    <2> HIDE DEF sv, R
    <2> QED
        BY <1>0, <1>1, <2>1, <2>2, <2>3, ServerUse
<1>3. CASE known
    <2>1. server' = [server EXCEPT ![s] = new]
        BY <1>3 DEF HandleDecline, Declined
    <2>2. x \in [address : Nat, deadline : Nat] /\ x.address = msg.address
        BY <1>0 DEF Packet
    <2> HIDE DEF x
    <2>3. X \in SUBSET [address : Nat, deadline : Nat]
        BY <1>0, <2>2 DEF ServerState
    <2>4. NoEntry \in EntryOf(s) /\ NoEntry.address = 0 /\ NoEntry.expires_at = 0
        BY DEF EntryOf, NoEntry
    <2>5. \A y \in X : \/ y.address = msg.address
                       \/ y \in sv.conflicts
        BY <2>2
    <2> HIDE DEF sv, X
    <2>6. new \in ServerState(s)
        <3> HIDE DEF c
        <3> QED
            BY <1>0, <2>3, <2>4 DEF ServerState
    <2>7. /\ new.offers[c] = NoEntry /\ new.bindings[c] = NoEntry /\ new.conflicts = X
          /\ \A d \in Client \ {c} : new.offers[d] = sv.offers[d] /\ new.bindings[d] = sv.bindings[d]
        <3> HIDE DEF c
        <3> QED
            BY <1>0 DEF ServerState
    <2> HIDE DEF new, c
    <2>8. TableOK(new)
        <3>1. \A d \in Client \ {c} : /\ msg.address # sv.offers[d].address
                                      /\ msg.address # sv.bindings[d].address
            BY <1>0, <1>1, <1>3 DEF Apart
        <3>2. \A y \in new.conflicts, d \in Client :
                 /\ y.address # new.offers[d].address
                 /\ y.address # new.bindings[d].address
                 /\ y.address # 0
            <4> SUFFICES ASSUME NEW y \in X, NEW d \in Client
                         PROVE  /\ y.address # new.offers[d].address
                                /\ y.address # new.bindings[d].address
                                /\ y.address # 0
                BY <2>7
            <4>1. y.address # 0
                BY <1>0, <1>1, <2>5 DEF TableOK
            <4>2. CASE d = c
                BY <2>4, <2>7, <4>1, <4>2
            <4>3. CASE d # c
                BY <1>0, <2>5, <2>7, <3>1, <4>1, <4>3 DEF TableOK
            <4> QED
                BY <4>2, <4>3
        <3>3. \A d \in Client :
                 /\ new.offers[d] # NoEntry /\ now < new.bindings[d].expires_at =>
                       new.offers[d].address = new.bindings[d].address
                 /\ new.bindings[d].expires_at <= now + LeaseTime
            BY <1>0, <2>4, <2>7, Times DEF TableOK
        <3> QED
            BY <3>2, <3>3 DEF TableOK
    <2>9. Keeps(s, new)
        <3>1. \A d \in Client \ {c} : new.bindings[d] = server[s].bindings[d]
                                      /\ server[s].bindings[d].expires_at \in Nat
            BY <1>0, <2>7 DEF sv
        <3>2. ~(InUse(c, server[s].bindings[c].address) /\ now < server[s].bindings[c].expires_at)
            <4> SUFFICES ASSUME InUse(c, sv.bindings[c].address), now < sv.bindings[c].expires_at
                         PROVE  FALSE
                BY DEF sv
            <4>1. msg.address = sv.bindings[c].address
                <5>1. CASE msg.address = sv.offers[c].address
                    <6>1. sv.offers[c] # NoEntry
                        BY <1>1, <2>4, <5>1
                    <6> QED
                        BY <1>0, <5>1, <6>1 DEF TableOK
                <5> QED
                    BY <1>3, <5>1
            <4>2. ExchangeOK(c, client[c], network, timers, server)
                BY <1>0 DEF UseInv
            <4>3. DeclineOK(msg, client[c])
                BY <4>2 DEF ExchangeOK, c
            <4>4. CASE client[c].lease # NoLease /\ client[c].lease.address = sv.bindings[c].address
                BY <1>1, <4>1, <4>3, <4>4 DEF DeclineOK
            <4>5. ASSUME NEW m \in network, Current(c, client[c], m), m.kind = "ack",
                         m.address = sv.bindings[c].address
                  PROVE  FALSE
                <5>1. client[c].lease # NoLease
                    BY <1>1, <4>3, <4>5, NoTransaction DEF DeclineOK
                <5>2. m.address = client[c].lease.address
                    BY <4>2, <4>5, <5>1 DEF ExchangeOK, Consistent
                <5> QED
                    BY <1>1, <4>1, <4>3, <4>5, <5>1, <5>2 DEF DeclineOK
            <4> QED
                BY <4>4, <4>5 DEF InUse
        <3> QED
            BY <3>1, <3>2 DEF Keeps
    <2>10. AnswersOK(s, new, msg, R)
        BY DEF AnswersOK
    <2> HIDE DEF R
    <2> QED
        BY <1>1, <2>1, <2>6, <2>8, <2>9, <2>10, ServerUse
<1> QED
    BY <1>2, <1>3

-----------------------------------------------------------------------------
(* The environment *)

\* A message is lost.
LEMMA LoseUse ==
    ASSUME DhcpInv, UseInv, NEW msg \in network, Lose(msg)
    PROVE  UseInv'
<1>1. msg.client \in Client
    BY DEF DhcpInv, Types, Packet
<1> QED
    BY <1>1, SameUse DEF Lose

\* The link of a client changes.
LEMMA ChangeLinkUse ==
    ASSUME DhcpInv, UseInv, NEW c \in Client, ChangeLink(c)
    PROVE  UseInv'
<1> DEFINE cl == client[c]
           new == [cl EXCEPT !.up = ~cl.up]
<1>0. cl \in ClientState
    BY ClientFacts
<1>1. /\ client' = [client EXCEPT ![c] = new]
      /\ UNCHANGED <<lab, now, server, next_xid, timers, network>>
    BY DEF ChangeLink, DhcpInv, Types, ClientState
<1>2. /\ new.lease = cl.lease /\ new.probe = cl.probe
      /\ new.xid = cl.xid /\ new.retry_after = cl.retry_after
    <2> HIDE DEF cl
    <2> QED
        BY <1>0 DEF ClientState
<1> HIDE DEF new
<1> QED
    BY <1>1, <1>2, StayUse

\* A configuration edit keeps the lease, or takes it.
LEMMA EditUse ==
    ASSUME DhcpInv, UseInv, NEW c \in Client, NEW dhcp \in BOOLEAN, Edit(c, dhcp)
    PROVE  UseInv'
<1> DEFINE cl == client[c]
           lease == IF dhcp /\ cl.dhcp THEN cl.lease ELSE NoLease
           new == [cl EXCEPT !.dhcp = dhcp, !.lease = lease]
<1>0. cl \in ClientState
    BY ClientFacts
<1>1. ScheduleDhcpNow(c, new, timers) /\ UNCHANGED <<lab, now, next_xid, server, network>>
    BY DEF Edit
<1>2. lease \in {NoLease} \cup Lease /\ lease \in {NoLease, cl.lease}
    BY <1>0 DEF ClientState
<1> HIDE DEF lease
<1>3. new \in ClientState /\ new.lease = lease /\ new.retry_after = cl.retry_after
    <2> HIDE DEF cl
    <2> QED
        BY <1>0, <1>2 DEF ClientState
<1> HIDE DEF new
<1>4. timers \in SUBSET timers /\ network' \in SUBSET network
    BY <1>1
<1> QED
    BY <1>1, <1>2, <1>3, <1>4, ScheduleUse

\* Time passes when all that is due has happened.
LEMMA TickUse ==
    ASSUME DhcpInv, UseInv, Tick
    PROVE  UseInv'
<1>0. /\ now \in Nat /\ now' = now + 1 /\ next_xid \in Nat /\ Types
      /\ UNCHANGED <<lab, client, next_xid, timers, server, network>>
      /\ \A t \in timers : t.time > now
      /\ \A m \in network : now + 1 - m.sent <= MaxDelay /\ m.sent \in Nat
    BY DEF Tick, DhcpInv, Types, Packet
<1>1. \A m \in network : MessageOK(m)'
    BY <1>0, Times DEF UseInv, MessageOK, Server
<1>2. \A t \in timers : TimerOK(t)'
    BY <1>0, Times DEF UseInv, TimerOK
<1>3. ASSUME NEW s \in Server PROVE TableOK(server[s])'
    <2>1. TableOK(server[s])
        BY DEF UseInv
    <2>2. \A c \in Client : server[s].bindings[c].expires_at \in Nat
        BY <1>0, EntryType
    <2> QED
        BY <1>0, <2>1, <2>2, Times DEF TableOK, Client
<1>4. ASSUME NEW c \in Client
      PROVE  /\ ClientOK(client[c], next_xid)'
             /\ ExchangeOK(c, client[c], network, timers, server)'
             /\ LeaseBound(c, client[c].lease, server)'
    <2>1. /\ ClientOK(client[c], next_xid)
          /\ ExchangeOK(c, client[c], network, timers, server)
          /\ LeaseBound(c, client[c].lease, server)
        BY DEF UseInv
    <2>2. client[c].lease # NoLease => client[c].lease.expires_at \in Nat
        BY <1>0 DEF Types, ClientState, Lease
    <2>3. LeaseBound(c, client[c].lease, server)'
        BY <1>0, <2>1, <2>2, Times DEF LeaseBound
    <2>4. ClientOK(client[c], next_xid)'
        BY <1>0, <2>1 DEF ClientOK, Server
    <2> QED
        BY <1>0, <2>1, <2>3, <2>4
<1>5. \A c, d \in Client : c # d =>
          Excludes(c, client[c].lease, d, client[d], network, timers, server)'
    BY <1>0 DEF UseInv
<1> QED
    BY <1>0, <1>1, <1>2, <1>3, <1>4, <1>5 DEF UseInv, Server, Client

\* Every action keeps the invariant.
LEMMA UseInvNext ==
    ASSUME DhcpInv, UseInv, [Next]_vars
    PROVE  UseInv'
<1>1. CASE \E c \in Client, t \in timers :
             Discover(c, t) \/ Ignore(c, t) \/ FinishProbe(c, t) \/ Renew(c, t) \/ ExpireLease(c, t)
    BY <1>1, DiscoverUse, IgnoreUse, FinishProbeUse, RenewUse, ExpireLeaseUse
<1>2. CASE \E s \in Server, msg \in network :
             HandleDiscover(s, msg) \/ HandleRequest(s, msg) \/ HandleDecline(s, msg)
    BY <1>2, HandleDiscoverUse, HandleRequestUse, HandleDeclineUse
<1>3. CASE \E c \in Client, msg \in network :
             \/ HandleOffer(c, msg) \/ HandleAck(c, msg) \/ HandleNak(c, msg)
             \/ HandleArp(c, msg) \/ HandleReply(c, msg)
    BY <1>3, HandleOfferUse, HandleAckUse, HandleNakUse, HandleArpUse, HandleReplyUse
<1>4. CASE \E msg \in network : Lose(msg)
    BY <1>4, LoseUse
<1>5. CASE \E c \in Client : ChangeLink(c) \/ \E dhcp \in BOOLEAN : Edit(c, dhcp)
    BY <1>5, ChangeLinkUse, EditUse
<1>6. CASE Tick
    BY <1>6, TickUse
<1>7. CASE UNCHANGED vars
    BY <1>7 DEF vars, UseInv, MessageOK, TimerOK, TableOK, ClientOK, LeaseBound, Server, Client
<1> QED
    BY <1>1, <1>2, <1>3, <1>4, <1>5, <1>6, <1>7 DEF Next

\* The invariant of the use of addresses holds in every reachable state.
THEOREM DhcpUse == Spec => []UseInv
<1>1. Init => UseInv
    <2> SUFFICES ASSUME Init PROVE UseInv
        OBVIOUS
    <2>1. lab \in Labs /\ now = 0 /\ next_xid = 0 /\ network = {}
        BY DEF Init
    <2>2. \A c \in Client : /\ client[c].lease = NoLease /\ client[c].probe = NoProbe
                            /\ client[c].xid = 0
        BY DEF Init
    <2>3. \A t \in timers : t.kind = "client" /\ t.time = 0
        BY DEF Init
    <2>4. \A s \in Server : TableOK(server[s])
        <3>1. \A s \in Server : /\ server[s].conflicts = {}
                                /\ \A c \in Client : /\ server[s].offers[c] = NoEntry
                                                     /\ server[s].bindings[c] = NoEntry
            BY DEF Init
        <3>2. NoEntry.expires_at = 0
            BY DEF NoEntry
        <3> QED
            BY <2>1, <3>1, <3>2, Times DEF TableOK
    <2>5. \A c \in Client : ClientOK(client[c], next_xid) /\ LeaseBound(c, client[c].lease, server)
        BY <2>1, <2>2 DEF ClientOK, LeaseBound
    <2>6. \A c \in Client : ExchangeOK(c, client[c], network, timers, server)
        BY <2>1, <2>3 DEF ExchangeOK, OneAtATime, OneProbe, ProbeTimer
    <2>7. \A t \in timers : TimerOK(t)
        BY <2>1, <2>3 DEF TimerOK
    <2>8. \A c, d \in Client : Excludes(c, client[c].lease, d, client[d], network, timers, server)
        BY <2>2 DEF Excludes
    <2> QED
        BY <2>1, <2>4, <2>5, <2>6, <2>7, <2>8 DEF UseInv
<1> QED
    BY <1>1, DhcpInvariant, UseInvNext, PTL DEF Spec

\* No two clients use one address at a time: dhcp.rs of the device forgets a
\* binding before the client does, which counts from the arrival of the ACK,
\* but not so early that the address passes to another client.
THEOREM DhcpNoDuplicateAddress == Spec => []NoDuplicateAddress
<1>1. UseInv /\ DhcpInv => NoDuplicateAddress
    <2> SUFFICES ASSUME UseInv, DhcpInv, NEW c \in Client, NEW d \in Client, c # d,
                        client[c].lease # NoLease
                 PROVE  client[c].lease.address # client[d].lease.address
        BY DEF NoDuplicateAddress
    <2>1. Excludes(c, client[c].lease, d, client[d], network, timers, server)
        BY DEF UseInv
    <2>2. client[c].lease.address # 0 /\ NoLease.address = 0
        BY DEF DhcpInv, Types, ClientState, Lease, NoLease
    <2> QED
        BY <2>1, <2>2 DEF Excludes
<1> QED
    BY <1>1, DhcpInvariant, DhcpUse, PTL

=============================================================================
