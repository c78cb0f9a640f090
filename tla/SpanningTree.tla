---------------------------- MODULE SpanningTree ----------------------------
(***************************************************************************)
(* Spanning tree of one VLAN over a fixed cabling of switches              *)
(* (crates/rios-device/src/stp.rs, driven by                               *)
(* crates/rios-topology/src/delivery.rs): classic timers, the rapid        *)
(* proposal and agreement handshake, PortFast, Root Guard and BPDU Guard.  *)
(*                                                                         *)
(* A port is named by the bridge and the number of the cable on it.  The   *)
(* unit of time is the hello interval; clocks are relative (how long a     *)
(* received BPDU is still good, for how long a port has had its role), so  *)
(* that the model has finitely many states without a bound on the clock.   *)
(* A BPDU takes less than a unit of time.                                  *)
(***************************************************************************)
EXTENDS Integers, Sequences, FiniteSetsExt

CONSTANTS
    Bridge,        \* bridge identifiers, numbers: the priority and address
    Link,          \* cables, numbers: the order of the ports of a bridge
    Labs,          \* the labs explored, see the operators on lab below
    MaxAge,        \* max_age of a BPDU
    ForwardDelay   \* the 15 seconds of listening and of learning

\* A BPDU that is not renewed ages before a port that began to wait when it came
\* forwards (20 seconds against twice 15 in the code).
Settings ==
    /\ Bridge \subseteq Nat \ {0} /\ Link \subseteq Nat \ {0}
    /\ MaxAge \in Nat /\ ForwardDelay \in Nat \ {0} /\ MaxAge <= 2 * ForwardDelay
    /\ \A n \in Labs :
         /\ \A l \in Link : n.end[l] \subseteq Bridge /\ Cardinality(n.end[l]) \in 1 .. 2
         /\ n.cost \in [Link -> Nat \ {0}]
         /\ n.rapid \subseteq Bridge /\ n.cut \subseteq Link
         /\ n.shut \cup n.portfast \cup n.rootguard \cup n.bpduguard \subseteq Bridge \X Link
         /\ n.changes \in Nat

ASSUME SpanningTreeAssumption == Settings

VARIABLES
    lab,          \* the member of Labs that this behaviour takes place in
    carrier,      \* the cable carries frames
    shut,         \* ports that are administratively down
    errdisabled,  \* stp_errdisabled: ports that BPDU Guard has stopped
    instance,     \* the StpInstance of each bridge
    due,          \* bridges whose StpHello of this unit of time is pending
    channel,      \* BPDUs on the way from each port
    changes       \* auxiliary: changes of the environment so far

treeVars == <<lab, carrier, shut, errdisabled, instance, due, channel, changes>>

\* The bridges on each cable, one for the cable of a host.
End == lab.end

\* stp_cost
Cost == lab.cost

\* Bridges in mode rapid-pvst.
Rapid == lab.rapid

\* Ports [bridge, link] so configured.
PortFast == lab.portfast

RootGuard == lab.rootguard

BpduGuard == lab.bpduguard

\* The cables that are cut and restored, the ports that are shut down and
\* brought up again, and how often.
CanCut == lab.cut

CanShut == lab.shut

MaxChanges == lab.changes

BridgePort == {p \in Bridge \X Link : p[1] \in End[p[2]]}

PortsOf(b) == {l \in Link : b \in End[l]}

NoBpdu == [none |-> TRUE]

NoPort == 0

NoRole == [role |-> "none", state |-> "none"]

Never == -1

NewInstance(b) ==
    [received |-> [l \in PortsOf(b) |-> NoBpdu],
     agreed |-> {},
     elapsed |-> [l \in PortsOf(b) |-> Never],  \* since "transitions"
     root_id |-> 0, root_cost |-> 0, root_port |-> NoPort,
     ports |-> [l \in PortsOf(b) |-> NoRole]]

TreeInit ==
    /\ lab \in Labs
    /\ carrier \in [Link -> BOOLEAN] /\ \A l \in Link \ CanCut : carrier[l]
    /\ shut = {}
    /\ errdisabled = {}
    /\ instance = [b \in Bridge |-> NewInstance(b)]
    /\ due = Bridge
    /\ channel = [p \in BridgePort |-> <<>>]
    /\ changes = 0

-----------------------------------------------------------------------------
(* recompute_stp_instance *)

\* f itself; TLC then builds it once instead of at every application.
Built(f) == CHOOSE g \in {f} : g = f

Less(u, v) == \E k \in DOMAIN u : u[k] < v[k] /\ \A j \in 1 .. k - 1 : u[j] = v[j]

\* stp_ports: the ports with a carrier that BPDU Guard has not stopped.
StpPorts(b, stopped) == {l \in PortsOf(b) : carrier[l] /\ <<b, l>> \notin stopped}

StpMembers(b) == StpPorts(b, errdisabled)

\* What is left of the received BPDUs on the ports M.
Fresh(i, M) ==
    [l \in DOMAIN i.received |->
        IF l \in M /\ i.received[l] # NoBpdu /\ i.received[l].left > 0
        THEN i.received[l] ELSE NoBpdu]

\* The vector of the path to the root through port l.
Through(r, l) == <<r.root_id, r.root_cost + Cost[l], r.bridge_id, r.port_id, l>>

\* The port with the best path to a better root than b, if there is one.
RootPort(b, received) ==
    LET known == {l \in DOMAIN received : received[l] # NoBpdu /\ ~received[l].guarded}
        better == {l \in known : Less(Through(received[l], l), <<b, 0, b, 0, 0>>)}
        best == {l \in better : \A k \in better \ {l} :
                    Less(Through(received[l], l), Through(received[k], k))}
    IN IF best = {} THEN NoPort ELSE CHOOSE l \in best : TRUE

\* Mutant of Superior: the bridge identifier does not break the tie.
SuperiorByCost(root_id, root_cost, b, l, r) ==
    Less(<<root_id, root_cost>>, <<r.root_id, r.root_cost + 1>>)

\* What b sends on its port l is better than the BPDU r received there.
Superior(root_id, root_cost, b, l, r) ==
    Less(<<root_id, root_cost, b, l>>, <<r.root_id, r.root_cost, r.bridge_id, r.port_id>>)

Role(b, l, received, root_id, root_cost, root_port) ==
    IF l = root_port THEN "root"
    ELSE IF \/ received[l] = NoBpdu
            \/ received[l].guarded
            \/ Superior(root_id, root_cost, b, l, received[l])
    THEN "designated"
    ELSE "alternate"

IsEdge(b, l, received) == <<b, l>> \in PortFast /\ received[l] = NoBpdu

State(b, l, received, agreed, role, elapsed) ==
    IF (received[l] # NoBpdu /\ received[l].guarded) \/ role = "alternate" THEN "blocking"
    ELSE IF IsEdge(b, l, received) \/ (b \in Rapid /\ l \in agreed) THEN "forwarding"
    ELSE IF elapsed < ForwardDelay THEN IF b \in Rapid THEN "blocking" ELSE "listening"
    ELSE IF elapsed < 2 * ForwardDelay THEN "learning"
    ELSE "forwarding"

\* Mutant of KeepsAgreements: every refresh counts as a change of the root.
KeepsAgreementsNever(i, root_id, root_cost, root_port) == FALSE

\* Agreements and timers are dropped when anything of the root changes.
KeepsAgreements(i, root_id, root_cost, root_port) ==
    i.root_id = root_id /\ i.root_cost = root_cost /\ i.root_port = root_port

\* The root as b sees it, and the port that leads to it.
Root(b, received, l) ==
    IF l = NoPort THEN [id |-> b, cost |-> 0, port |-> NoPort]
    ELSE [id |-> received[l].root_id, cost |-> received[l].root_cost + Cost[l], port |-> l]

\* How long each port has had its role, 0 for the ports that begin anew.
Elapsed(b, M, i, anew) ==
    Built([l \in PortsOf(b) |-> IF l \notin M THEN Never
                                ELSE IF l \in anew \/ i.elapsed[l] = Never THEN 0
                                ELSE i.elapsed[l]])

WithStates(b, M, received, root, role, agreed, elapsed) ==
    [received |-> received, agreed |-> agreed, elapsed |-> elapsed,
     root_id |-> root.id, root_cost |-> root.cost, root_port |-> root.port,
     ports |-> Built([l \in PortsOf(b) |->
                  IF l \notin M THEN NoRole
                  ELSE [role |-> role[l],
                        state |-> State(b, l, received, agreed, role[l], elapsed[l])]])]

\* anew: the ports whose agreement and timer are dropped.
WithTimers(b, M, i, received, root, role, anew) ==
    WithStates(b, M, received, root, role, (i.agreed \cap M) \ anew, Elapsed(b, M, i, anew))

WithRoles(b, M, i, received, root, role) ==
    WithTimers(b, M, i, received, root, role,
               {l \in M : \/ i.ports[l].role # role[l]
                          \/ ~KeepsAgreements(i, root.id, root.cost, root.port)})

WithRoot(b, M, i, received, root) ==
    WithRoles(b, M, i, received, root,
              Built([l \in M |-> Role(b, l, received, root.id, root.cost, root.port)]))

WithReceived(b, M, i, received) ==
    WithRoot(b, M, i, received, Root(b, received, RootPort(b, received)))

\* The instance of b over the ports M.
RecomputedOver(M, b, i) == WithReceived(b, M, i, Built(Fresh(i, M)))

\* refresh_spanning_tree
Recomputed(b, i) == RecomputedOver(StpMembers(b), b, i)

-----------------------------------------------------------------------------
(* stp_packets *)

\* The rapid protocol is spoken on a port unless its peer is a legacy bridge.
Speaks(b, i, l) == b \in Rapid /\ (i.received[l] = NoBpdu \/ i.received[l].rapid)

Age(i) == IF i.root_port = NoPort THEN 0 ELSE i.received[i.root_port].age + 1

Bpdu(b, i, l) ==
    LET rapid == Speaks(b, i, l)
        role == i.ports[l].role
    IN [root_id |-> i.root_id, root_cost |-> i.root_cost, bridge_id |-> b, port_id |-> l,
        rapid |-> rapid, age |-> Age(i),
        proposal |-> rapid /\ role = "designated" /\ l \notin i.agreed,
        agreement |-> rapid /\ role = "root" /\ l \in i.agreed]

Sends(b, i, l) ==
    /\ \/ i.ports[l].role = "designated"
       \/ i.ports[l].role = "root" /\ Speaks(b, i, l)
    /\ Age(i) < MaxAge

\* emit_stp_bpdus of b, whose instance is i and has just been refreshed.
Emitted(b, i, sent) ==
    [p \in BridgePort |-> IF p[1] = b /\ Sends(b, i, p[2])
                    THEN Append(sent[p], Bpdu(b, i, p[2])) ELSE sent[p]]

\* send_stp_bpdus, for the StpHello of b.  The bridges are added to the lab in
\* the order of their numbers, and their hellos fire in it.
Hello(b) ==
    LET i == Recomputed(b, instance[b]) IN
    /\ b \in due /\ \A c \in due : b <= c
    /\ due' = due \ {b}
    /\ instance' = [instance EXCEPT ![b] = i]
    /\ channel' = Emitted(b, i, channel)
    /\ UNCHANGED <<lab, carrier, shut, errdisabled, changes>>

-----------------------------------------------------------------------------
(* receive_stp_packet *)

\* Mutant of Guarded: only a better root counts, not a better path to it.
GuardedByRoot(b, l, i, bpdu) == <<b, l>> \in RootGuard /\ bpdu.root_id < i.root_id

Guarded(b, l, i, bpdu) ==
    /\ <<b, l>> \in RootGuard
    /\ Less(<<bpdu.root_id, bpdu.root_cost, bpdu.bridge_id>>, <<i.root_id, i.root_cost, b>>)

\* A rapid BPDU is good for three hellos at most.
Lifetime(bpdu) == IF bpdu.rapid THEN Min({MaxAge - bpdu.age, 3}) ELSE MaxAge - bpdu.age

Stored(b, l, i, bpdu) ==
    [i EXCEPT
       !.elapsed[l] = IF i.received[l] = NoBpdu THEN 0 ELSE @,
       !.received[l] = [root_id |-> bpdu.root_id, root_cost |-> bpdu.root_cost,
                        bridge_id |-> bpdu.bridge_id, port_id |-> bpdu.port_id,
                        rapid |-> bpdu.rapid, age |-> bpdu.age,
                        guarded |-> Guarded(b, l, i, bpdu), left |-> Lifetime(bpdu)]]

\* The root port agrees to a proposal once every other designated port that
\* is not an edge has gone back to waiting.
Synchronized(b, l, i) ==
    LET others == {k \in PortsOf(b) \ {l} : /\ i.ports[k].role = "designated"
                                           /\ ~IsEdge(b, k, i.received)}
    IN [i EXCEPT !.agreed = (@ \ others) \cup {l},
                 !.elapsed = Built([k \in PortsOf(b) |-> IF k \in others THEN 0 ELSE @[k]])]

Agrees(i, bpdu) ==
    bpdu.agreement /\ bpdu.root_id = i.root_id /\ bpdu.root_cost >= i.root_cost

Negotiated(b, l, i, bpdu) ==
    LET role == i.ports[l].role IN
    CASE role = "root" /\ bpdu.proposal /\ l \notin i.agreed -> Synchronized(b, l, i)
      [] role = "designated" /\ Agrees(i, bpdu) -> [i EXCEPT !.agreed = @ \cup {l}]
      [] OTHER -> i

NegotiatedIfRapid(b, l, stored, bpdu) ==
    IF b \in Rapid /\ bpdu.rapid /\ ~stored.received[l].guarded
    THEN Recomputed(b, Negotiated(b, l, stored, bpdu))
    ELSE stored

Absorbed(b, l, before, bpdu) ==
    NegotiatedIfRapid(b, l, Recomputed(b, Stored(b, l, before, bpdu)), bpdu)

\* Whether the answer is sent at once: something has changed, or a proposal
\* has come in on the root port.
Changed(l, before, after, bpdu) ==
    \/ before.root_id # after.root_id \/ before.root_port # after.root_port
    \/ before.ports # after.ports \/ before.agreed # after.agreed
    \/ bpdu.rapid /\ bpdu.proposal /\ after.root_port = l

\* The channels when b has taken a BPDU from p and its instance went from
\* before to after.
Answered(p, b, l, before, after, bpdu) ==
    LET rest == [channel EXCEPT ![p] = Tail(@)] IN
    IF Changed(l, before, after, bpdu) THEN Emitted(b, after, rest) ELSE rest

Became(p, b, l, before, after, bpdu) ==
    /\ instance' = [instance EXCEPT ![b] = after]
    /\ channel' = Answered(p, b, l, before, after, bpdu)

Take(p, b, l, before, bpdu) ==
    Became(p, b, l, before, Absorbed(b, l, before, bpdu), bpdu)

\* The BPDU from port p arrives at port q, the other end of the cable.
Receive(p, q) ==
    /\ channel[p] # <<>>
    /\ q[2] \in StpMembers(q[1]) /\ q \notin BpduGuard
    /\ Take(p, q[1], q[2], Recomputed(q[1], instance[q[1]]), Head(channel[p]))
    /\ UNCHANGED <<lab, carrier, shut, errdisabled, due, changes>>

\* BPDU Guard takes the port down for good.
ReceiveGuarded(p, q) ==
    LET b == q[1]
        l == q[2]
        i == [instance[b] EXCEPT !.received[l] = NoBpdu, !.ports[l] = NoRole,
                                 !.agreed = @ \ {l}]
        after == RecomputedOver(StpPorts(b, errdisabled \cup {q}), b, i)
    IN
    /\ channel[p] # <<>>
    /\ l \in StpMembers(b) /\ q \in BpduGuard
    /\ errdisabled' = errdisabled \cup {q}
    /\ instance' = [instance EXCEPT ![b] = after]
    /\ channel' = Emitted(b, after, [channel EXCEPT ![p] = Tail(@)])
    /\ UNCHANGED <<lab, carrier, shut, due, changes>>

\* The port does not take part: it is stopped, or it belongs to a host.
Discard(p) ==
    /\ channel[p] # <<>>
    /\ \A q \in BridgePort \ {p} : q[2] = p[2] => q[2] \notin StpMembers(q[1])
    /\ channel' = [channel EXCEPT ![p] = Tail(@)]
    /\ UNCHANGED <<lab, carrier, shut, errdisabled, instance, due, changes>>

-----------------------------------------------------------------------------
(* Carrier, configuration and time *)

Forgotten(i, l) ==
    [i EXCEPT !.received[l] = NoBpdu, !.agreed = @ \ {l}, !.elapsed[l] = Never]

\* What Device::set_link_state does to the ports of a cable that goes down, of
\* the instances "before", and what becomes of the BPDUs on it.
CableLost(l, before) ==
    /\ instance' = [b \in Bridge |-> IF b \in End[l] THEN Forgotten(before[b], l)
                                     ELSE before[b]]
    /\ channel' = [p \in BridgePort |-> IF p[2] = l THEN <<>> ELSE channel[p]]

ShutEnds(l) == {p \in shut : p[2] = l}

\* refresh_carriers: the cable is cut or restored.
ChangeCable(l) ==
    /\ changes < MaxChanges
    /\ changes' = changes + 1
    /\ ShutEnds(l) = {}
    /\ carrier' = [carrier EXCEPT ![l] = ~@]
    /\ IF carrier[l] THEN CableLost(l, instance) ELSE UNCHANGED <<instance, channel>>
    /\ UNCHANGED <<lab, errdisabled, shut, due>>

\* Device::set_admin_state down, the only way out of err-disabled.  Every
\* configuration command sends the hello of the bridge at once.
Shutdown(p) ==
    LET b == p[1]
        l == p[2]
    IN
    /\ changes < MaxChanges
    /\ changes' = changes + 1
    /\ carrier[l]
    /\ carrier' = [carrier EXCEPT ![l] = FALSE]
    /\ shut' = shut \cup {p}
    /\ errdisabled' = errdisabled \ {p}
    /\ CableLost(l, [instance EXCEPT ![b].received[l] = NoBpdu, ![b].ports[l] = NoRole])
    /\ due' = due \cup {b}
    /\ UNCHANGED lab

NoShutdown(p) ==
    /\ changes < MaxChanges
    /\ changes' = changes + 1
    /\ p \in shut
    /\ shut' = shut \ {p}
    /\ carrier' = [carrier EXCEPT ![p[2]] = ShutEnds(p[2]) = {p}]
    /\ due' = due \cup {p[1]}
    /\ UNCHANGED <<lab, errdisabled, instance, channel>>

\* What a port has received, a unit of time later.
Aged(r) == IF r = NoBpdu THEN NoBpdu ELSE [r EXCEPT !.left = Max({r.left - 1, 0})]

Older(i) ==
    [i EXCEPT
       !.received = [l \in DOMAIN i.received |-> Aged(i.received[l])],
       !.elapsed = [l \in DOMAIN i.elapsed |->
                      IF i.elapsed[l] = Never THEN Never
                      ELSE Min({i.elapsed[l] + 1, 2 * ForwardDelay})]]

Tick ==
    /\ due = {}
    /\ \A p \in BridgePort : channel[p] = <<>>
    /\ due' = Bridge
    /\ instance' = [b \in Bridge |-> Older(instance[b])]
    /\ UNCHANGED <<lab, carrier, shut, errdisabled, channel, changes>>

Run ==
    \/ \E b \in Bridge : Hello(b)
    \/ \E p \in BridgePort : \E b \in End[p[2]] \ {p[1]} :
         Receive(p, <<b, p[2]>>) \/ ReceiveGuarded(p, <<b, p[2]>>)
    \/ \E p \in BridgePort : Discard(p)
    \/ Tick

TreeNext ==
    \/ Run
    \/ \E l \in CanCut : ChangeCable(l)
    \/ \E p \in CanShut : Shutdown(p) \/ NoShutdown(p)

\* The lab runs its events one after the other, and there always is one: Run
\* is never disabled, so that its weak fairness is that it happens for ever.
\* The steps of Run are the ones that are no change of the environment.
TreeSpec == TreeInit /\ [][TreeNext]_treeVars /\ []<><<UNCHANGED changes>>_treeVars

-----------------------------------------------------------------------------
(* Properties *)

\* The ports on which b forwards.  Frames are handled after
\* refresh_spanning_tree, in the state it gives.
Forwarding(b) ==
    LET ports == Recomputed(b, instance[b]).ports IN
    {l \in PortsOf(b) : ports[l].state = "forwarding"}

Open ==
    LET forwarding == Built([b \in Bridge |-> Forwarding(b)]) IN
    {l \in Link : Cardinality(End[l]) = 2 /\ \A b \in End[l] : l \in forwarding[b]}

\* No frame can circle: among the cables that both ends forward on, every
\* set of cables has a bridge on which it ends.  A port between switches that
\* is taken for the port of a host may close a loop until its first BPDU.
NoLoop ==
    PortFast = {} =>
        LET open == Open IN
        \A F \in SUBSET open \ {{}} :
            \E b \in Bridge : Cardinality({l \in F : b \in End[l]}) = 1

Closed(S, L) == \A l \in L : End[l] \cap S # {} => End[l] \subseteq S

Usable == {l \in Link : carrier[l] /\ \A b \in End[l] : <<b, l>> \notin errdisabled}

\* The bridges that the cables L connect to b.
Component(b, L) ==
    {c \in Bridge : \A S \in SUBSET Bridge : b \in S /\ Closed(S, L) => c \in S}

Converged ==
    LET open == Open
        usable == Usable
    IN \A b \in Bridge :
         /\ instance[b].root_id = Min(Component(b, usable))
         /\ Component(b, open) = Component(b, usable)

\* Once the cabling has settled, every bridge knows the best bridge it is
\* connected to as the root, and the forwarding cables connect what the
\* cables connect, where Root Guard does not set a bridge apart.
Converges == RootGuard = {} => <>[]Converged

\* The guarded port p forwards as the way to the root.
Breached(p) ==
    LET i == Recomputed(p[1], instance[p[1]]) IN
    i.root_port = p[2] /\ i.ports[p[2]].state = "forwarding"

\* Root Guard in the classic protocol: a guarded port never forwards as the way
\* to the root, although it is decided when a BPDU arrives and the root may be
\* lost after that.  What was accepted then ages before the port forwards.  In
\* the rapid protocol a port that agrees to a proposal does not wait for that.
ClassicGuardHolds == \A p \in RootGuard : p[1] \notin Rapid => ~Breached(p)

=============================================================================
