-------------------------------- MODULE Dhcp --------------------------------
(***************************************************************************)
(* DHCP clients and servers of one segment: the server tables of           *)
(* crates/rios-device/src/dhcp.rs and the exchange of                      *)
(* crates/rios-topology/src/network/dhcp.rs and dhcp/probe.rs, on the      *)
(* virtual clock.  Every client device has one DHCP interface.             *)
(*                                                                         *)
(* A message takes any time up to MaxDelay and may be lost when CanLose.   *)
(* Timers of the same time fire in any order.                              *)
(***************************************************************************)
EXTENDS Integers, FiniteSetsExt

CONSTANTS
    Labs,         \* the labs explored, see Lab
    Pool,         \* Pool[s]: the addresses of s, numbers in allocation order
    LeaseTime,    \* lease_time_seconds
    OfferTime,    \* DHCP_OFFER_MS
    RetryTime,    \* DHCP_RETRY_MS
    ProbeTime,    \* the 200 ms of an address probe
    DeclineTime,  \* the pause of a client after a conflict
    Quarantine,   \* how long a declined address is set aside
    MaxDelay,     \* bound: age of a message
    MaxXid        \* bound: transactions

ASSUME DhcpAssumption ==
    /\ {LeaseTime, OfferTime, RetryTime, ProbeTime, DeclineTime, Quarantine,
        MaxDelay, MaxXid} \subseteq Nat
    /\ LeaseTime >= 3 /\ RetryTime > 0
    /\ \A l \in Labs :
         /\ l.lossy \in BOOLEAN /\ {l.time, l.changes} \subseteq Nat
         /\ \A s \in l.servers : Pool[s] \subseteq Nat \ {0}

\* Messages are quick next to the probe, the pause and the lease, and servers
\* of one segment have pools of their own.
ASSUME DhcpTiming ==
    /\ MaxDelay < ProbeTime /\ MaxDelay < DeclineTime
    /\ 3 * MaxDelay + ProbeTime < LeaseTime
    /\ \A l \in Labs : \A s, t \in l.servers : s # t => Pool[s] \cap Pool[t] = {}

VARIABLES
    lab,        \* the member of Labs that this behaviour takes place in
    now,
    client,     \* lease, transaction, probe, pause and link of each client
    generation, \* Lab::dhcp_generations
    next_xid,   \* Lab::next_dhcp_xid
    timers,     \* pending DhcpClient, DhcpProbe, DhcpRenew, DhcpLeaseExpired
    server,     \* offers, bindings and conflicts of each server
    network,    \* messages in flight
    changes     \* auxiliary: link changes and edits so far

vars == <<lab, now, client, generation, next_xid, timers, server, network, changes>>

\* The client devices, each named by the MAC address it uses, and the servers
\* of the segment.
Client == lab.clients

Server == lab.servers

\* Whether messages may be lost.
CanLose == lab.lossy

\* Bounds: the clock, and link changes and configuration edits.
MaxTime == lab.time

MaxChanges == lab.changes

NoLease == [address |-> 0]

NoProbe == [xid |-> 0]

NoEntry == [address |-> 0, expires_at |-> 0]

Renewal(t) == t + LeaseTime \div 2

Rebinding(t) == t + (LeaseTime * 7) \div 8

\* Mutant of LeaseEnd: the lease is counted from its renewal time.
LeaseEndLate(t) == Renewal(t) + LeaseTime

LeaseEnd(t) == t + LeaseTime

Init ==
    /\ lab \in Labs
    /\ now = 0
    /\ client = [c \in Client |-> [lease |-> NoLease, xid |-> 0, probe |-> NoProbe,
                                   retry_after |-> 0, up |-> TRUE, dhcp |-> TRUE]]
    /\ generation = [c \in Client |-> 1]
    /\ next_xid = 0
    /\ timers = {[time |-> 0, kind |-> "client", client |-> c, key |-> 1] : c \in Client}
    /\ server = [s \in Server |-> [offers |-> [c \in Client |-> NoEntry],
                                   bindings |-> [c \in Client |-> NoEntry],
                                   conflicts |-> {}]]
    /\ network = {}
    /\ changes = 0

-----------------------------------------------------------------------------
(* Messages and timers *)

Message(kind, c, s, xid, address) ==
    [kind |-> kind, client |-> c, server |-> s, xid |-> xid, address |-> address,
     sent |-> now]

\* To every server, or to every other client.
ToServers(kind, c, xid, address) == {Message(kind, c, s, xid, address) : s \in Server}

ToPeers(kind, c, address) == {Message(kind, c, d, 0, address) : d \in Client \ {c}}

Timer(time, kind, c, key) == [time |-> time, kind |-> kind, client |-> c, key |-> key]

Pending(cl) == cl.dhcp /\ cl.lease = NoLease

\* Mutant of Forget: schedule_dhcp_now leaves the probe of the client.
ForgetTransaction(cl) == [cl EXCEPT !.xid = 0]

Forget(cl) == [cl EXCEPT !.xid = 0, !.probe = NoProbe]

\* Lab::schedule_dhcp_now for a client that is now cl: the generation makes
\* the pending DhcpClient event stale.
ScheduleDhcpNow(c, cl, pending) ==
    /\ generation' = [generation EXCEPT ![c] = @ + 1]
    /\ client' = [client EXCEPT ![c] = Forget(cl)]
    /\ timers' = pending \cup
         (IF Pending(cl) THEN {Timer(now, "client", c, generation[c] + 1)} ELSE {})

Due(t) == t \in timers /\ t.time = now

\* send_dhcp_discovers
Discover(c, t) ==
    LET cl == client[c]
        sends == /\ Pending(cl) /\ cl.up
                 /\ cl.probe = NoProbe /\ cl.retry_after <= now
        rest == timers \ {t}
    IN
    /\ Due(t) /\ t.kind = "client" /\ t.client = c
    /\ t.key = generation[c]
    /\ timers' = IF Pending(cl)
                 THEN rest \cup {Timer(now + RetryTime, "client", c, t.key)} ELSE rest
    /\ IF sends
       THEN /\ next_xid < MaxXid
            /\ next_xid' = next_xid + 1
            /\ client' = [client EXCEPT ![c].xid = next_xid + 1, ![c].retry_after = 0]
            /\ network' = network \cup ToServers("discover", c, next_xid + 1, 0)
       ELSE UNCHANGED <<next_xid, client, network>>
    /\ UNCHANGED <<lab, now, generation, server, changes>>

\* A timer that no longer means anything: a DhcpClient of an old generation,
\* a DhcpProbe, DhcpRenew or DhcpLeaseExpired of a state that has passed.
ProbeCurrent(cl, xid) == cl.probe # NoProbe /\ cl.probe.xid = xid /\ cl.xid = xid

RenewCurrent(cl, deadline) ==
    cl.lease # NoLease /\ cl.lease.expires_at = deadline /\ deadline > now

\* Mutant of ExpiryCurrent: the expiry timer does not look at the lease.
ExpiryCurrentAlways(cl, key) == cl.lease # NoLease

ExpiryCurrent(cl, key) ==
    /\ cl.lease # NoLease
    /\ cl.lease.address = key.address /\ cl.lease.expires_at <= key.deadline

Ignore(c, t) ==
    /\ Due(t) /\ t.client = c
    /\ CASE t.kind = "client" -> t.key # generation[c]
         [] t.kind = "probe" -> ~ProbeCurrent(client[c], t.key)
         [] t.kind = "renew" -> ~RenewCurrent(client[c], t.key)
         [] t.kind = "expired" -> ~ExpiryCurrent(client[c], t.key)
    /\ timers' = timers \ {t}
    /\ UNCHANGED <<lab, now, client, generation, next_xid, server, network, changes>>

\* finish_dhcp_probe: nobody has answered the probe.
FinishProbe(c, t) ==
    LET cl == client[c] IN
    /\ Due(t) /\ t.kind = "probe" /\ t.client = c
    /\ ProbeCurrent(cl, t.key)
    /\ client' = [client EXCEPT ![c].probe = NoProbe]
    /\ network' = IF ~cl.up THEN network
                  ELSE network \cup {Message("request", c, cl.probe.server,
                                             t.key, cl.probe.address)}
    /\ timers' = timers \ {t}
    /\ UNCHANGED <<lab, now, generation, next_xid, server, changes>>

\* renew_dhcp: to the server that gave the lease before rebind_at, to every
\* server after it, and again half-way to the next boundary.
Renew(c, t) ==
    LET cl == client[c]
        lease == cl.lease
        rebind == now >= lease.rebind_at
        boundary == IF rebind THEN lease.expires_at ELSE lease.rebind_at
        retry == Min({now + Max({(boundary - now) \div 2, 1}), boundary})
        xid == IF cl.xid = 0 THEN next_xid + 1 ELSE cl.xid
    IN
    /\ Due(t) /\ t.kind = "renew" /\ t.client = c
    /\ RenewCurrent(cl, t.key)
    /\ IF cl.up
       THEN /\ xid <= MaxXid
            /\ next_xid' = IF cl.xid = 0 THEN xid ELSE next_xid
            /\ client' = [client EXCEPT ![c].xid = xid]
            /\ network' = network \cup
                 (IF rebind THEN ToServers("request", c, xid, lease.address)
                  ELSE {Message("request", c, lease.server, xid, lease.address)})
       ELSE UNCHANGED <<next_xid, client, network>>
    /\ timers' = (timers \ {t}) \cup
         (IF retry < t.key THEN {Timer(retry, "renew", c, t.key)} ELSE {})
    /\ UNCHANGED <<lab, now, generation, server, changes>>

\* DhcpLeaseExpired
ExpireLease(c, t) ==
    /\ Due(t) /\ t.kind = "expired" /\ t.client = c
    /\ ExpiryCurrent(client[c], t.key)
    /\ ScheduleDhcpNow(c, [client[c] EXCEPT !.lease = NoLease], timers \ {t})
    /\ UNCHANGED <<lab, now, next_xid, server, network, changes>>


-----------------------------------------------------------------------------
(* Servers *)

Live(entry) == IF entry.expires_at > now THEN entry ELSE NoEntry

\* expire_dhcp_server_state
Expired(sv) ==
    [offers |-> [c \in Client |-> Live(sv.offers[c])],
     bindings |-> [c \in Client |-> Live(sv.bindings[c])],
     conflicts |-> {x \in sv.conflicts : x.deadline > now}]

\* Mutant of Used: addresses offered to others and not yet bound are free.
UsedWithoutOffers(sv, c) ==
    {sv.bindings[d].address : d \in Client \ {c}} \cup {x.address : x \in sv.conflicts}

Used(sv, c) ==
    {sv.bindings[d].address : d \in Client \ {c}}
    \cup {sv.offers[d].address : d \in Client \ {c}}
    \cup {x.address : x \in sv.conflicts}

Free(s, sv, c) == Pool[s] \ Used(sv, c)

\* The address offer_dhcp_on_network gives: the one already offered, the one
\* the client had, or the first free one.
Choice(s, sv, c) ==
    IF sv.offers[c] # NoEntry THEN sv.offers[c].address
    ELSE IF sv.bindings[c].address \in Free(s, sv, c) THEN sv.bindings[c].address
    ELSE Min(Free(s, sv, c))

Offers(s, sv, c) == sv.offers[c] # NoEntry \/ Free(s, sv, c) # {}

Offered(s, sv, c) ==
    IF sv.offers[c] # NoEntry THEN sv
    ELSE [sv EXCEPT !.offers[c] = [address |-> Choice(s, sv, c),
                                   expires_at |-> now + OfferTime]]

\* The network without the message that is handled, with the answers to it.
Answer(msg, answers) == network' = (network \ {msg}) \cup answers

HandleDiscover(s, msg) ==
    LET sv == Expired(server[s]) IN
    /\ msg \in network /\ msg.server = s /\ msg.kind = "discover"
    /\ IF Offers(s, sv, msg.client)
       THEN /\ server' = [server EXCEPT ![s] = Offered(s, sv, msg.client)]
            /\ Answer(msg, {Message("offer", msg.client, s, msg.xid,
                                    Choice(s, sv, msg.client))})
       ELSE server' = [server EXCEPT ![s] = sv] /\ Answer(msg, {})
    /\ UNCHANGED <<lab, now, client, generation, next_xid, timers, changes>>

\* commit_dhcp: the offer of c in sv becomes a binding.
Committed(sv, c) ==
    [sv EXCEPT !.offers[c] = NoEntry,
               !.bindings[c] = [address |-> sv.offers[c].address,
                                expires_at |-> now + LeaseTime]]

\* A request makes an offer too, and commits it when it is the address asked
\* for; otherwise the answer is a NAK and the offer stays.
HandleRequest(s, msg) ==
    LET c == msg.client
        sv == Expired(server[s])
    IN
    /\ msg \in network /\ msg.server = s /\ msg.kind = "request"
    /\ IF ~Offers(s, sv, c)
       THEN server' = [server EXCEPT ![s] = sv] /\ Answer(msg, {})
       ELSE IF Choice(s, sv, c) = msg.address
       THEN /\ server' = [server EXCEPT ![s] = Committed(Offered(s, sv, c), c)]
            /\ Answer(msg, {Message("ack", c, s, msg.xid, msg.address)})
       ELSE /\ server' = [server EXCEPT ![s] = Offered(s, sv, c)]
            /\ Answer(msg, {Message("nak", c, s, msg.xid, 0)})
    /\ UNCHANGED <<lab, now, client, generation, next_xid, timers, changes>>

\* decline_dhcp: the address of c is set aside, and c has nothing.
Declined(sv, c, address) ==
    [sv EXCEPT !.bindings[c] = NoEntry,
               !.offers[c] = NoEntry,
               !.conflicts = {x \in @ : x.address # address} \cup
                    {[address |-> address, deadline |-> now + Quarantine]}]

HandleDecline(s, msg) ==
    LET c == msg.client
        known == msg.address \in {server[s].bindings[c].address, server[s].offers[c].address}
    IN
    /\ msg \in network /\ msg.server = s /\ msg.kind = "decline"
    /\ server' = IF ~known THEN server
                 ELSE [server EXCEPT ![s] = Declined(server[s], c, msg.address)]
    /\ Answer(msg, {})
    /\ UNCHANGED <<lab, now, client, generation, next_xid, timers, changes>>

-----------------------------------------------------------------------------
(* Clients.  A message reaches a client only on a link that is up. *)

Reaches(msg, c, kind) == msg \in network /\ msg.kind = kind /\ client[c].up

\* dhcp_for_client
ForClient(c, msg) == client[c].xid = msg.xid

\* An offer starts the probe of its address, unless one is under way.
HandleOffer(c, msg) ==
    /\ Reaches(msg, c, "offer") /\ msg.client = c
    /\ IF ForClient(c, msg) /\ client[c].probe = NoProbe
       THEN /\ client' = [client EXCEPT ![c].probe = [xid |-> msg.xid, address |-> msg.address,
                                                      server |-> msg.server]]
            /\ timers' = timers \cup {Timer(now + ProbeTime, "probe", c, msg.xid)}
            /\ Answer(msg, ToPeers("arp", c, msg.address))
       ELSE Answer(msg, {}) /\ UNCHANGED <<client, timers>>
    /\ UNCHANGED <<lab, now, generation, next_xid, server, changes>>

\* Mutant of ExpiryKey: the event carries the renewal time.
ExpiryKeyRenewal(lease) == [address |-> lease.address, deadline |-> lease.renew_at]

ExpiryKey(lease) == [address |-> lease.address, deadline |-> lease.expires_at]

HandleAck(c, msg) ==
    LET lease == [address |-> msg.address, server |-> msg.server,
                  renew_at |-> Renewal(now), rebind_at |-> Rebinding(now),
                  expires_at |-> LeaseEnd(now)]
    IN
    /\ Reaches(msg, c, "ack") /\ msg.client = c
    /\ IF ForClient(c, msg)
       THEN /\ client' = [client EXCEPT ![c].lease = lease, ![c].xid = 0]
            /\ timers' = timers \cup
                 {Timer(lease.renew_at, "renew", c, lease.expires_at),
                  Timer(lease.expires_at, "expired", c, ExpiryKey(lease))}
       ELSE UNCHANGED <<client, timers>>
    /\ Answer(msg, {})
    /\ UNCHANGED <<lab, now, generation, next_xid, server, changes>>

HandleNak(c, msg) ==
    /\ Reaches(msg, c, "nak") /\ msg.client = c
    /\ IF ForClient(c, msg)
       THEN ScheduleDhcpNow(c, [client[c] EXCEPT !.lease = NoLease], timers)
       ELSE UNCHANGED <<client, generation, timers>>
    /\ Answer(msg, {})
    /\ UNCHANGED <<lab, now, next_xid, server, changes>>

\* observe_dhcp_conflict: another station uses or probes the address that c
\* is probing.  The client declines it and pauses.
Conflicts(cl, msg) == cl.probe # NoProbe /\ cl.probe.address = msg.address

Declining(c) ==
    [client[c] EXCEPT !.probe = NoProbe, !.xid = 0, !.retry_after = now + DeclineTime]

Decline(c) ==
    LET probe == client[c].probe IN
    {Message("decline", c, s, probe.xid, probe.address) : s \in Server}

\* handle_arp of another client's probe: c answers for an address it holds.
HandleArp(c, msg) ==
    LET cl == client[c]
        reply == IF cl.lease # NoLease /\ cl.lease.address = msg.address
                 THEN {Message("reply", c, msg.client, 0, msg.address)} ELSE {}
    IN
    /\ Reaches(msg, c, "arp") /\ msg.server = c
    /\ IF Conflicts(cl, msg)
       THEN client' = [client EXCEPT ![c] = Declining(c)] /\ Answer(msg, reply \cup Decline(c))
       ELSE UNCHANGED client /\ Answer(msg, reply)
    /\ UNCHANGED <<lab, now, generation, next_xid, timers, server, changes>>

HandleReply(c, msg) ==
    /\ Reaches(msg, c, "reply") /\ msg.server = c
    /\ IF Conflicts(client[c], msg)
       THEN client' = [client EXCEPT ![c] = Declining(c)] /\ Answer(msg, Decline(c))
       ELSE UNCHANGED client /\ Answer(msg, {})
    /\ UNCHANGED <<lab, now, generation, next_xid, timers, server, changes>>

-----------------------------------------------------------------------------
(* The environment *)

Lose(msg) ==
    /\ msg \in network
    /\ CanLose \/ (msg.kind \in {"offer", "ack", "nak"} /\ ~client[msg.client].up)
               \/ (msg.kind \in {"arp", "reply"} /\ ~client[msg.server].up)
    /\ network' = network \ {msg}
    /\ UNCHANGED <<lab, now, client, generation, next_xid, timers, server, changes>>

\* The link of the client goes up or down.
ChangeLink(c) ==
    /\ changes < MaxChanges
    /\ changes' = changes + 1
    /\ client' = [client EXCEPT ![c].up = ~@]
    /\ UNCHANGED <<lab, now, generation, next_xid, timers, server, network>>

\* A configuration edit of the client device (Lab::with_device_mut), which
\* may be "ip address dhcp" or "no ip address".
Edit(c, dhcp) ==
    LET cl == client[c]
        lease == IF dhcp /\ cl.dhcp THEN cl.lease ELSE NoLease
    IN
    /\ changes < MaxChanges
    /\ changes' = changes + 1
    /\ ScheduleDhcpNow(c, [cl EXCEPT !.dhcp = dhcp, !.lease = lease], timers)
    /\ UNCHANGED <<lab, now, next_xid, server, network>>

Tick ==
    /\ now < MaxTime
    /\ \A t \in timers : t.time > now
    /\ \A msg \in network : now + 1 - msg.sent <= MaxDelay
    /\ now' = now + 1
    /\ UNCHANGED <<lab, client, generation, next_xid, timers, server, network, changes>>

Next ==
    \/ \E c \in Client, t \in timers :
         Discover(c, t) \/ Ignore(c, t) \/ FinishProbe(c, t) \/ Renew(c, t) \/ ExpireLease(c, t)
    \/ \E s \in Server, msg \in network :
         HandleDiscover(s, msg) \/ HandleRequest(s, msg) \/ HandleDecline(s, msg)
    \/ \E c \in Client, msg \in network :
         \/ HandleOffer(c, msg) \/ HandleAck(c, msg) \/ HandleNak(c, msg)
         \/ HandleArp(c, msg) \/ HandleReply(c, msg)
    \/ \E msg \in network : Lose(msg)
    \/ \E c \in Client : ChangeLink(c) \/ \E dhcp \in BOOLEAN : Edit(c, dhcp)
    \/ Tick

Spec == Init /\ [][Next]_vars

-----------------------------------------------------------------------------
(* Properties *)

\* A server never reserves one address for two clients, as an offer to one
\* and an offer or a binding of another.
NoDoubleReservation ==
    \A s \in Server, c, d \in Client : c # d =>
        LET sv == Expired(server[s]) IN
        {sv.offers[c].address, sv.bindings[c].address}
            \cap {sv.offers[d].address, sv.bindings[d].address} \subseteq {0}

\* No two clients use one address at a time, although the server forgets a
\* binding before the client, which counts its lease from the arrival of the
\* ACK: the probe of the next client finds the address in use.
NoDuplicateAddress ==
    \A c, d \in Client : c # d /\ client[c].lease # NoLease =>
        client[c].lease.address # client[d].lease.address

\* A client that needs an address is going to ask for one: the DhcpClient
\* event of its generation is pending, and a probe, which silences it, has
\* its own DhcpProbe event pending.
RetryArmed ==
    \A c \in Client : Pending(client[c]) =>
        /\ \E t \in timers : t.kind = "client" /\ t.client = c /\ t.key = generation[c]
        /\ client[c].probe # NoProbe =>
             /\ client[c].xid = client[c].probe.xid
             /\ \E t \in timers : /\ t.kind = "probe" /\ t.client = c
                                  /\ t.key = client[c].probe.xid

\* A lease in use always has its DhcpLeaseExpired event pending.
ExpiryArmed ==
    \A c \in Client : client[c].lease # NoLease =>
        \E t \in timers : /\ t.kind = "expired" /\ t.client = c
                          /\ ExpiryCurrent(client[c], t.key)
                          /\ t.time = client[c].lease.expires_at

\* "Stale timers cannot remove renewed leases": without a NAK or a change of
\* configuration, a lease goes only when its own time has come.
NoEarlyExpiry ==
    [][\A c \in Client :
         /\ client[c].lease # NoLease /\ client'[c].lease = NoLease
         /\ changes' = changes
         /\ network' = network
         => client[c].lease.expires_at <= now]_vars

=============================================================================
