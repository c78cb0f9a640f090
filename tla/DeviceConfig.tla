---------------------------- MODULE DeviceConfig ----------------------------
(***************************************************************************)
(* A device's structured running configuration, the commands that edit it  *)
(* (rios-cli: tree, parser, executor; rios-device: the validating setters) *)
(* and the two conversions the persistent state rests on: render, which    *)
(* turns a configuration into commands, and load_configuration, which      *)
(* replays commands on a candidate copy of a device.                       *)
(*                                                                         *)
(* A command is a tuple <<op, argument>>; a mode is a tuple <<kind>> or    *)
(* <<kind, object>>.  An optional value is <<>> or <<v>>.  Settings that   *)
(* no other command reads (host name, description, OSPF cost, static       *)
(* routes, timers, ...) are the members of "plain".                        *)
(***************************************************************************)
EXTENDS Naturals, Sequences, FiniteSets, SequencesExt, FiniteSetsExt, TLC

CONSTANT MaxMembers      \* eight members of a channel group

ASSUME MembersAssumption == MaxMembers \in Nat \ {0}

None    == << >>
Some(v) == <<v>>

(* Interface names, by family.  A subinterface names its parent.           *)
Eth(n)    == [k |-> "eth", n |-> n, s |-> 0]
Sub(n, v) == [k |-> "sub", n |-> n, s |-> v]
Po(n)     == [k |-> "po",  n |-> n, s |-> 0]
Lo(n)     == [k |-> "lo",  n |-> n, s |-> 0]
Parent(x) == Eth(x.n)

SupportsSwitching(d) == d.type \in {"switch", "l3switch"}
SupportsRouting(d)   == d.type \in {"router", "l3switch"}
DefaultSwitchport    == [mode |-> "access", access |-> 1, native |-> 1, allowed |-> None]

(***************************************************************************)
(* Inventory.                                                              *)
(***************************************************************************)
InterfaceConfig(sw, up) ==
  [sw |-> sw, ip |-> "none", v6 |-> FALSE, bind |-> FALSE, stp |-> FALSE,
   chan |-> None, tag |-> None, up |-> up, acl |-> None, role |-> FALSE,
   qos |-> None, plain |-> {}]

InsertInterface(d, x, sw, up) ==
  [d EXCEPT !.order = Append(@, x),
            !.ports = @ @@ (x :> InterfaceConfig(sw, up))]

NewDevice(type, hardware) ==
  LET empty == [type |-> type, order |-> << >>, ports |-> << >>,
                vlans |-> IF type \in {"switch", "l3switch"} THEN {1} ELSE {},
                std |-> << >>, named |-> << >>, nat |-> None, maps |-> << >>,
                classes |-> << >>, policies |-> << >>,
                ospf |-> [p \in {2, 3} |-> None], bgp |-> None,
                pools |-> << >>, plain |-> {}]
      switching == SupportsSwitching(empty)
  IN  FoldLeft(LAMBDA d, x: InsertInterface(d, x,
                  IF switching THEN Some(DefaultSwitchport) ELSE None, switching),
               empty, hardware)

IsSwitchport(d, x) == d.ports[x].sw # None

(* Every edit either changes the device or rejects the command.            *)
Accept(d)           == [ok |-> TRUE, dev |-> d]
Reject(d)           == [ok |-> FALSE, dev |-> d]
When(guard, old, d) == IF guard THEN Accept(d) ELSE Reject(old)

SetPort(d, x, p) == [d EXCEPT !.ports[x] = p]

CreatePortChannel(d, x) ==
  InsertInterface(d, x, IF SupportsSwitching(d) THEN Some(DefaultSwitchport) ELSE None, TRUE)

CreateSubinterface(d, x) ==
  When(/\ SupportsRouting(d)
       /\ Parent(x) \in DOMAIN d.ports
       /\ ~IsSwitchport(d, Parent(x)),
       d, InsertInterface(d, x, None, TRUE))

EnsureInterface(d, x) ==
  IF x \in DOMAIN d.ports THEN Accept(d)
  ELSE IF x.k = "eth" THEN Reject(d)
  ELSE IF x.k = "sub" THEN CreateSubinterface(d, x)
  ELSE IF x.k = "po"
  THEN When(SupportsRouting(d) \/ SupportsSwitching(d), d, CreatePortChannel(d, x))
  ELSE Accept(InsertInterface(d, x, None, FALSE))

(***************************************************************************)
(* Aggregation: the logical port owns the Layer 2 policy of its members.   *)
(***************************************************************************)
Members(d, n) == {x \in DOMAIN d.ports : \E g \in Range(d.ports[x].chan) : g.n = n}

ChannelInterface(d, x) ==
  \E g \in Range(d.ports[x].chan) : Po(g.n) \in DOMAIN d.ports

SyncChannel(d, x) ==
  IF x.k # "po" THEN d
  ELSE FoldSet(LAMBDA m, e : SetPort(e, m, [e.ports[m] EXCEPT !.sw = d.ports[x].sw]),
               d, Members(d, x.n))

ChannelCompatible(d, x, g) ==
  LET p == d.ports[x]
      others == Members(d, g.n) \ {x}
  IN  /\ x.k = "eth" /\ (SupportsRouting(d) \/ SupportsSwitching(d))
      /\ p.ip = "none" /\ ~p.v6
      /\ \A h \in Range(p.chan) : h.n = g.n
      /\ ~\E y \in DOMAIN d.ports : y.k = "sub" /\ Parent(y) = x
      /\ Cardinality(others) < MaxMembers
      /\ \A y \in others : \A h \in Range(d.ports[y].chan) : h.on = g.on
      /\ Po(g.n) \in DOMAIN d.ports => d.ports[Po(g.n)].sw = p.sw

SetChannelGroup(d, x, g) ==
  IF ~ChannelCompatible(d, x, g) THEN Reject(d)
  ELSE LET e == IF Po(g.n) \in DOMAIN d.ports THEN d
                ELSE [CreatePortChannel(d, Po(g.n)) EXCEPT !.ports[Po(g.n)].sw = d.ports[x].sw]
       IN  Accept([e EXCEPT !.ports[x].chan = Some(g)])

(***************************************************************************)
(* Layer 2 and Layer 3 policy of one interface.                            *)
(***************************************************************************)
EnableSwitchport(d, x) ==
  LET p == d.ports[x]
      q == [p EXCEPT !.ip = "none", !.v6 = FALSE, !.bind = FALSE,
                     !.sw = IF @ = None THEN Some(DefaultSwitchport) ELSE @]
  IN  When(SupportsSwitching(d) /\ x.k \in {"eth", "po"}, d, SyncChannel(SetPort(d, x, q), x))

DisableSwitchport(d, x) ==
  When(d.type = "l3switch" /\ x.k \in {"eth", "po"},
       d, SyncChannel([d EXCEPT !.ports[x].sw = None], x))

EditSwitchport(d, x, field, v) ==
  When(IsSwitchport(d, x), d,
       SyncChannel([d EXCEPT !.ports[x].sw = Some([@[1] EXCEPT ![field] = v])], x))

SetSwitchportMode(d, x, v) ==
  IF d.type = "l3switch" /\ ~IsSwitchport(d, x)
  THEN LET r == EnableSwitchport(d, x)
       IN  IF r.ok THEN EditSwitchport(r.dev, x, "mode", v) ELSE Reject(d)
  ELSE EditSwitchport(d, x, "mode", v)

SetIpv4(d, x) ==
  When(~ChannelInterface(d, x) /\ ~IsSwitchport(d, x), d, [d EXCEPT !.ports[x].ip = "static"])

SetDhcpClient(d, x) ==
  When(d.type \in {"router", "host", "l3switch"}, d, [d EXCEPT !.ports[x].ip = "dhcp"])

SetIpv6Policy(d, x, on) ==
  When(~ChannelInterface(d, x) /\ ~IsSwitchport(d, x), d, [d EXCEPT !.ports[x].v6 = on])

SetOspfv3Interface(d, x, on) ==
  When(SupportsRouting(d) /\ ~IsSwitchport(d, x) /\ d.ports[x].chan = None,
       d, [d EXCEPT !.ports[x].bind = on])

SetDot1q(d, x, t) ==
  LET clash(y) == /\ y # x /\ y.k = "sub" /\ Parent(y) = Parent(x)
                  /\ \E u \in Range(d.ports[y].tag) : u.vlan = t.vlan \/ (u.native /\ t.native)
  IN  When(x.k = "sub" /\ ~\E y \in DOMAIN d.ports : clash(y),
           d, [d EXCEPT !.ports[x].tag = Some(t)])

(***************************************************************************)
(* Access lists.  A numbered standard list is promoted to a named one when *)
(* it is entered by name; its rules take sequences 10, 20, ...             *)
(***************************************************************************)
NextSequence(used) == IF used = {} THEN 10 ELSE Max(used) + 10

AddAccessListEntry(d, n) ==
  IF ~SupportsRouting(d) THEN Reject(d)
  ELSE IF n \in DOMAIN d.named
  THEN Accept([d EXCEPT !.named[n] = @ \cup {NextSequence(@)}])
  ELSE Accept([d EXCEPT !.std = (n :> (IF n \in DOMAIN @ THEN @[n] + 1 ELSE 1)) @@ @])

EnsureAcl(d, n) ==
  IF n \in DOMAIN d.named THEN When(SupportsRouting(d), d, d)
  ELSE LET promoted == IF n \in DOMAIN d.std THEN {10 * i : i \in 1..d.std[n]} ELSE {}
       IN  When(SupportsRouting(d), d,
                [d EXCEPT !.named = @ @@ (n :> promoted),
                          !.std = [m \in DOMAIN @ \ {n} |-> @[m]]])

SetAclEntry(d, n, s) ==
  When(n \in DOMAIN d.named, d,
       [d EXCEPT !.named[n] = @ \cup {IF s = 0 THEN NextSequence(@) ELSE s}])

RemoveAclEntry(d, n, s) ==
  When(n \in DOMAIN d.named, d, [d EXCEPT !.named[n] = @ \ {s}])

SetAccessGroup(d, x, n) ==
  When(/\ SupportsRouting(d) /\ n \in DOMAIN d.named \cup DOMAIN d.std,
       d, [d EXCEPT !.ports[x].acl = Some(<<IF n \in DOMAIN d.named THEN "named" ELSE "std", n>>)])

(* The interface is ensured before the rule is validated, on the device    *)
(* itself.                                                                 *)
SetNatOverload(d, n, x) ==
  LET r == EnsureInterface(d, x)
      valid == d.type = "router" /\ n \in DOMAIN d.named \cup DOMAIN d.std
  IN  IF r.ok /\ valid THEN Accept([r.dev EXCEPT !.nat = Some(<<n, x>>)]) ELSE Reject(r.dev)

(***************************************************************************)
(* Route maps, class maps and policy maps: objects with a name, stored     *)
(* under an identifier one above the largest in use.                       *)
(***************************************************************************)
(* Mutation: the number of objects instead of the largest identifier.      *)
FreshIdByCount(table) == Cardinality(DOMAIN table) + 1

IdOf(table, name) == {i \in DOMAIN table : table[i].name = name}
FreshId(table)    == IF DOMAIN table = {} THEN 1 ELSE Max(DOMAIN table) + 1
Without(table, ids) == [i \in DOMAIN table \ ids |-> table[i]]

EnsureRouteMap(d, name, seq) ==
  LET ids == IdOf(d.maps, name)
      id  == IF ids = {} THEN FreshId(d.maps) ELSE Max(ids)
      old == IF ids = {} THEN [name |-> name, clauses |-> << >>] ELSE d.maps[id]
      new == [old EXCEPT !.clauses = @ @@ (seq :> FALSE)]
  IN  When(SupportsRouting(d), d, [d EXCEPT !.maps = (id :> new) @@ @])

(* seq is None for the whole map; a map left without a clause goes too.    *)
RemoveRouteMap(d, name, seq) ==
  LET ids  == IdOf(d.maps, name)
      rest == [i \in ids |-> [d.maps[i] EXCEPT !.clauses = [s \in DOMAIN @ \ Range(seq) |-> @[s]]]]
      gone == {i \in ids : seq = None \/ DOMAIN rest[i].clauses = {}}
  IN  Accept([d EXCEPT !.maps = Without(rest @@ @, gone)])

SetRouteMapEntry(d, id, seq) ==
  When(id \in DOMAIN d.maps /\ seq \in DOMAIN d.maps[id].clauses,
       d, [d EXCEPT !.maps[id].clauses[seq] = TRUE])

EnsureQosClass(d, name) ==
  IF IdOf(d.classes, name) # {} THEN Accept(d)
  ELSE When(SupportsRouting(d) \/ SupportsSwitching(d), d,
            [d EXCEPT !.classes = @ @@ (FreshId(@) :> [name |-> name, match |-> FALSE])])

SetQosClass(d, id) ==
  When(id \in DOMAIN d.classes, d, [d EXCEPT !.classes[id].match = TRUE])

RemoveQosClass(d, name) ==
  LET ids == IdOf(d.classes, name)
      used == \E p \in DOMAIN d.policies : ToSet(d.policies[p].classes) \cap ids # {}
  IN  When(~used, d, [d EXCEPT !.classes = Without(@, ids)])

EnsureQosPolicy(d, name) ==
  IF IdOf(d.policies, name) # {} THEN Accept(d)
  ELSE When(SupportsRouting(d) \/ SupportsSwitching(d), d,
            [d EXCEPT !.policies = @ @@ (FreshId(@) :> [name |-> name, classes |-> << >>, acts |-> {}])])

EnsureQosPolicyClass(d, id, name) ==
  LET ids == IdOf(d.classes, name)
      c == Max(ids)
  IN  IF ids = {} \/ id \notin DOMAIN d.policies THEN Reject(d)
      ELSE IF c \in ToSet(d.policies[id].classes) THEN Accept(d)
      ELSE Accept([d EXCEPT !.policies[id].classes = Append(@, c)])

(* Leaving a class in the middle of a policy keeps the order of the rest.   *)
RemoveQosPolicyClass(d, id, name) ==
  LET ids == IdOf(d.classes, name)
  IN  When(ids # {} /\ id \in DOMAIN d.policies, d,
           [d EXCEPT !.policies[id].classes = SelectSeq(@, LAMBDA c : c \notin ids),
                     !.policies[id].acts = @ \ ids])

SetQosPolicyClass(d, id, class) ==
  When(id \in DOMAIN d.policies /\ class \in ToSet(d.policies[id].classes), d,
       [d EXCEPT !.policies[id].acts = @ \cup {class}])

RemoveQosPolicy(d, name) ==
  LET ids == IdOf(d.policies, name)
      bound == \E x \in DOMAIN d.ports : Range(d.ports[x].qos) \cap ids # {}
  IN  When(~bound, d, [d EXCEPT !.policies = Without(@, ids)])

SetServicePolicy(d, x, name) ==
  LET ids == IdOf(d.policies, name)
  IN  IF ids = {} \/ x.k # "eth" THEN Reject(d)
      ELSE Accept([d EXCEPT !.ports[x].qos = Some(Max(ids))])

(***************************************************************************)
(* Routing processes and DHCP pools.                                       *)
(***************************************************************************)
(* OSPFv2 keeps its settings under another process number; OSPFv3 does not. *)
SetOspfProcess(d, p, pid) ==
  LET fresh == [pid |-> pid, passive |-> {}, rid |-> FALSE, opts |-> FALSE]
      keep  == \E o \in Range(d.ospf[p]) : p = 2 \/ o.pid = pid
  IN  When(SupportsRouting(d), d,
           [d EXCEPT !.ospf[p] = Some(IF keep THEN [@[1] EXCEPT !.pid = pid] ELSE fresh)])

RemoveOspfv3Process(d, pid) ==
  Accept([d EXCEPT !.ospf[3] = IF \E o \in Range(@) : o.pid = pid THEN None ELSE @])

SetOspfOption(d, p, field) ==
  When(d.ospf[p] # None, d, [d EXCEPT !.ospf[p] = Some([@[1] EXCEPT ![field] = TRUE])])

SetOspfPassive(d, p, x) ==
  When(x \in DOMAIN d.ports /\ d.ospf[p] # None,
       d, [d EXCEPT !.ospf[p] = Some([@[1] EXCEPT !.passive = @ \cup {x}])])

(* Another AS number replaces the process.                                 *)
SetBgpProcess(d, asn) ==
  LET fresh == [asn |-> asn, opts |-> FALSE, peer |-> None]
      same  == \E b \in Range(d.bgp) : b.asn = asn
  IN  When(SupportsRouting(d), d, [d EXCEPT !.bgp = IF same THEN @ ELSE Some(fresh)])

RemoveBgpProcess(d, asn) ==
  When(\E b \in Range(d.bgp) : b.asn = asn, d, [d EXCEPT !.bgp = None])

SetBgpOption(d) ==
  When(d.bgp # None, d, [d EXCEPT !.bgp = Some([@[1] EXCEPT !.opts = TRUE])])

(* One option of the neighbor is changed and the whole entry validated     *)
(* again; only remote-as creates it.                                       *)
SetBgpNeighbor(d, field, v) ==
  LET old  == IF d.bgp = None THEN None ELSE d.bgp[1].peer
      base == IF old = None THEN [as |-> 0, rr |-> FALSE, src |-> None] ELSE old[1]
      new  == [base EXCEPT ![field] = v]
  IN  When(/\ d.bgp # None
           /\ old = None => field = "as"
           /\ new.rr => new.as = d.bgp[1].asn
           /\ \A x \in Range(new.src) : x \in DOMAIN d.ports,
           d, [d EXCEPT !.bgp = Some([@[1] EXCEPT !.peer = Some(new)])])

RemoveBgpNeighbor(d) ==
  When(d.bgp # None, d, [d EXCEPT !.bgp = Some([@[1] EXCEPT !.peer = None])])

EnsureDhcpPool(d, name) ==
  IF name \in DOMAIN d.pools THEN Accept(d)
  ELSE When(d.type \in {"router", "l3switch", "host"}, d,
            [d EXCEPT !.pools = @ @@ (name :> [net |-> 0, host |-> 0, opts |-> FALSE])])

(* A reservation lies in the pool's network; host 10*n+k is in network n.   *)
UpdateDhcpPool(d, name, pool) ==
  When(pool.host = 0 \/ pool.host \div 10 = pool.net, d, [d EXCEPT !.pools[name] = pool])
=============================================================================
