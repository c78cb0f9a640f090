---------------------------- MODULE ConfigReplay ----------------------------
(***************************************************************************)
(* The two conversions persistence rests on: RunningConfig::render writes  *)
(* a configuration as commands, load_configuration replays commands on a   *)
(* candidate copy of a device.  The state file holds rendered commands.    *)
(***************************************************************************)
EXTENDS Commands

If(guard, s) == IF guard THEN s ELSE << >>

(* The keys of a table in increasing order, as a BTreeMap iterates.        *)
Sorted(S) == SetToSortSeq(S, <)

(***************************************************************************)
(* render, section by section in the order of the code.                    *)
(***************************************************************************)
RenderGlobals(d) ==
  LET flag(s) == If(s \in d.plain, <<<<"SetPlain", s>>>>)
  IN  flag("hostname") \o flag("ipv6routing") \o flag("iprouting") \o flag("stp")

RenderVlans(d) ==
  FlattenSeq([i \in 1..Cardinality(d.vlans) |->
    LET v == Sorted(d.vlans)[i] IN If(v # 1, <<<<"EnterVlan", v>>>>)])

RenderLists(d) ==
  LET std == Sorted(DOMAIN d.std)
      named == Sorted(DOMAIN d.named)
      entries(n) == [i \in 1..Cardinality(d.named[n]) |-> <<"AddAclEntry", Sorted(d.named[n])[i]>>]
  IN  FlattenSeq([i \in 1..Len(std) |-> [j \in 1..d.std[std[i]] |-> <<"AddStandardAccessList", std[i]>>]])
      \o FlattenSeq([i \in 1..Len(named) |-> <<<<"EnterAccessList", named[i]>>>> \o entries(named[i])])

RenderPools(d) ==
  LET names == Sorted(DOMAIN d.pools)
      one(n) == <<<<"EnterDhcpPool", n>>>>
                \o If(d.pools[n].net # 0, <<<<"SetPoolNetwork", d.pools[n].net>>>>)
                \o If(d.pools[n].host # 0, <<<<"SetPoolHost", d.pools[n].host>>>>)
                \o If(d.pools[n].opts, <<<<"SetPoolOption">>>>)
  IN  If("excluded" \in d.plain, <<<<"SetPlain", "excluded">>>>)
      \o FlattenSeq([i \in 1..Len(names) |-> one(names[i])])

RenderQos(d) ==
  LET classes == Sorted(DOMAIN d.classes)
      policies == Sorted(DOMAIN d.policies)
      class(c) == <<<<"EnterClass", d.classes[c].name>>>> \o If(d.classes[c].match, <<<<"MatchClass">>>>)
      member(p, c) == <<<<"EnterPolicyClass", d.classes[c].name>>>>
                      \o If(c \in d.policies[p].acts, <<<<"SetClassAction">>>>)
      policy(p) == <<<<"EnterPolicy", d.policies[p].name>>>>
                   \o FlattenSeq([i \in DOMAIN d.policies[p].classes |-> member(p, d.policies[p].classes[i])])
  IN  FlattenSeq([i \in 1..Len(classes) |-> class(classes[i])])
      \o FlattenSeq([i \in 1..Len(policies) |-> policy(policies[i])])

RenderSwitchport(sw) ==
  IF sw = None THEN << >>
  ELSE <<<<"SetSwitchportMode", sw[1].mode>>>> \o
       IF sw[1].mode = "access" THEN <<<<"SetAccessVlan", sw[1].access>>>>
       ELSE If(sw[1].native # 1, <<<<"SetNativeVlan", sw[1].native>>>>)
            \o If(sw[1].allowed # None, <<<<"SetTrunkAllowed", sw[1].allowed[1]>>>>)

(* Mutation: a routed Port-channel is rendered without its layer.          *)
SwitchportCapablePhysical(d, x) == SupportsSwitching(d) /\ x.k = "eth"

SwitchportCapable(d, x) == SupportsSwitching(d) /\ x.k \in {"eth", "po"}

RenderInterface(d, x) ==
  LET p == d.ports[x] IN
  <<<<"EnterInterface", x>>>>
  \o If(p.tag # None, <<<<"SetDot1q", p.tag[1]>>>>)
  \o If(p.qos # None, <<<<"BindOutput", <<d.policies[p.qos[1]].name, TRUE>>>>>>)
  \o If("description" \in p.plain, <<<<"SetPortPlain", "description">>>>)
  \o If(SwitchportCapable(d, x) /\ p.sw = None, <<<<"NoSwitchport">>>>)
  \o If("helper" \in p.plain, <<<<"SetDhcpHelper", "helper">>>>)
  \o If(p.bind, <<<<"BindOspfv3", TRUE>>>>)
  \o If(p.v6, <<<<"SetIpv6Port", TRUE>>>>)
  \o If("ospf" \in p.plain, <<<<"SetOspfPort", "ospf">>>>)
  \o If(p.stp, <<<<"SetStpPort", TRUE>>>>)
  \o If(p.ip = "dhcp", <<<<"SetIpv4Dhcp">>>>)
  \o If(p.ip = "static", <<<<"SetIpv4Address">>>>)
  \o If(p.acl # None, <<<<"SetAccessGroup", p.acl[1][2]>>>>)
  \o If(p.role, <<<<"SetNatRole">>>>)
  \o RenderSwitchport(p.sw)
  \o If(p.chan # None, <<<<"SetChannelGroup", p.chan[1]>>>>)
  \o <<<<"SetAdmin", p.up>>>>

(* Physical ports, subinterfaces and virtual ports by identifier, then the *)
(* Port-channels: members come before the bundle they create.              *)
RenderInterfaces(d) ==
  LET all == SelectSeq(d.order, LAMBDA x : x.k # "po") \o SelectSeq(d.order, LAMBDA x : x.k = "po")
  IN  FlattenSeq([i \in DOMAIN all |-> RenderInterface(d, all[i])])

RenderRoutesAndNat(d) ==
  LET flag(s) == If(s \in d.plain, <<<<"SetPlain", s>>>>)
  IN  flag("ipv6route") \o flag("staticroute") \o flag("natpool") \o flag("staticnat")
      \o If(d.nat # None, <<<<"SetNatOverload", d.nat[1]>>>>)

RenderPolicy(d) ==
  LET ids == Sorted(DOMAIN d.maps)
      clause(i, s) == <<<<"EnterRouteMap", <<d.maps[i].name, s>>>>>>
                      \o If(d.maps[i].clauses[s], <<<<"SetRouteMap">>>>)
      one(i) == FlattenSeq([j \in 1..Cardinality(DOMAIN d.maps[i].clauses) |->
                              clause(i, Sorted(DOMAIN d.maps[i].clauses)[j])])
  IN  If("prefixlist" \in d.plain, <<<<"SetPlain", "prefixlist">>>>)
      \o FlattenSeq([i \in 1..Len(ids) |-> one(ids[i])])

RenderNeighbor(p) ==
  <<<<"SetBgpNeighbor", <<"as", p.as>>>>>>
  \o If(p.src # None, <<<<"SetBgpNeighbor", <<"src", p.src>>>>>>)
  \o If(p.rr, <<<<"SetBgpNeighbor", <<"rr", TRUE>>>>>>)

RenderBgp(d) ==
  IF d.bgp = None THEN << >>
  ELSE <<<<"BgpProcess", d.bgp[1].asn>>>>
       \o If(d.bgp[1].opts, <<<<"SetBgpOption">>>>)
       \o IF d.bgp[1].peer = None THEN << >> ELSE RenderNeighbor(d.bgp[1].peer[1])

RenderOspf(d, p) ==
  IF d.ospf[p] = None THEN << >>
  ELSE LET o == d.ospf[p][1]
           passive == SelectSeq(d.order, LAMBDA x : x \in o.passive)
       IN  <<<<IF p = 3 THEN "EnterRouterOspfv3" ELSE "EnterRouterOspf", o.pid>>>>
           \o If(o.rid, <<<<"SetOspfRouterId">>>>)
           \o [i \in DOMAIN passive |-> <<"SetOspfPassive", passive[i]>>]
           \o If(o.opts, <<<<"SetOspfOption">>>>)

Render(d) ==
  RenderGlobals(d) \o RenderVlans(d) \o RenderLists(d) \o RenderPools(d) \o RenderQos(d)
  \o RenderInterfaces(d) \o RenderRoutesAndNat(d) \o RenderPolicy(d) \o RenderBgp(d)
  \o RenderOspf(d, 3) \o RenderOspf(d, 2) \o <<<<"End">>>>

(***************************************************************************)
(* load_configuration: a line that the current mode does not offer is      *)
(* parsed in global configuration mode; the first error discards the       *)
(* candidate.                                                              *)
(***************************************************************************)
LoadLine(s, cmd) ==
  IF ~s.ok \/ Kind(s.mode) \notin ConfigModes THEN [s EXCEPT !.ok = FALSE]
  ELSE LET mode == IF cmd[1] \in Offers(Kind(s.mode)) THEN s.mode ELSE Global
           r == Execute(cmd, s.dev, mode)
       IN  IF cmd[1] \notin Offers(Kind(mode)) THEN [s EXCEPT !.ok = FALSE]
           ELSE [ok |-> r.ok, dev |-> r.dev, mode |-> r.mode]

LoadConfiguration(device, text) ==
  LET s == FoldLeft(LoadLine, [ok |-> TRUE, dev |-> device, mode |-> Global], text)
  IN  IF s.ok THEN Accept(s.dev) ELSE Reject(device)
=============================================================================
