------------------------------ MODULE Commands ------------------------------
(***************************************************************************)
(* The command line of a device: which commands each mode offers (tree),   *)
(* which the executor accepts there, and what each does to the device and  *)
(* to the session's mode.  A group of commands that differ only in the     *)
(* setting they write is one operation here.                               *)
(***************************************************************************)
EXTENDS DeviceConfig

(***************************************************************************)
(* Modes.  <<kind>> or <<kind, object the session edits>>.                 *)
(***************************************************************************)
User       == <<"user">>
Privileged == <<"priv">>
Global     == <<"global">>
Kind(mode) == mode[1]

PortModes   == {"if", "subif", "range"}
ConfigModes == {"global", "vlan", "ospf", "ospfv3", "bgp", "pool", "acl", "rmap",
                "class", "policy", "pclass"} \cup PortModes

(***************************************************************************)
(* tree: the operations each mode offers.                                  *)
(***************************************************************************)
ExecTree(kind) ==
  {"Exit", "Show", "Ping"} \cup
    (IF kind = "user" THEN {"Enable"}
     ELSE {"Disable", "ConfigureTerminal", "ShowConfig", "SaveConfig", "Debug", "ClearNat"})

GlobalTree ==
  {"SetPlain", "EnterVlan", "RemoveVlan", "EnterAccessList", "AddStandardAccessList",
   "EnterDhcpPool", "SetNatOverload", "EnterRouterOspf", "EnterRouterOspfv3",
   "RemoveRouterOspfv3", "BgpProcess", "RemoveBgp", "EnterRouteMap", "RemoveRouteMap",
   "EnterClass", "RemoveClass", "EnterPolicy", "RemovePolicy"}

PortTree(kind) ==
  {"SetPortPlain", "SetOspfPort", "SetIpv6Port", "BindOspfv3", "SetAdmin", "Switchport",
   "NoSwitchport", "SetSwitchportMode", "SetAccessVlan", "SetNativeVlan", "SetTrunkAllowed"}
  \cup (IF kind \in {"if", "subif"}
        THEN {"SetDhcpHelper", "SetDot1q", "SetIpv4Address", "SetIpv4Dhcp", "NoIpv4Address",
              "SetAccessGroup", "SetNatRole"} ELSE {})
  \cup (IF kind \in {"if", "range"}
        THEN {"SetStpPort", "SetChannelGroup", "ClearChannelGroup", "BindOutput"} ELSE {})

ObjectTree(kind) ==
  CASE kind = "vlan"   -> {"EnterVlan", "NameVlan"}
    [] kind = "ospf"   -> {"SetOspfRouterId", "SetOspfOption", "SetOspfPassive"}
    [] kind = "ospfv3" -> {"SetOspfRouterId", "SetOspfPassive"}
    [] kind = "bgp"    -> {"SetBgpOption", "SetBgpNeighbor", "RemoveBgpNeighbor"}
    [] kind = "pool"   -> {"SetPoolNetwork", "SetPoolHost", "SetPoolOption"}
    [] kind = "acl"    -> {"AddAclEntry", "RemoveAclEntry"}
    [] kind = "rmap"   -> {"SetRouteMap"}
    [] kind = "class"  -> {"MatchClass"}
    [] kind = "policy" -> {"EnterPolicyClass", "RemovePolicyClass"}
    [] kind = "pclass" -> {"EnterPolicyClass", "RemovePolicyClass", "SetClassAction"}

Offers(kind) ==
  IF kind \in {"user", "priv"} THEN ExecTree(kind)
  ELSE {"Exit", "End", "Do", "EnterInterface", "EnterInterfaceRange"} \cup
       (IF kind = "global" THEN GlobalTree
        ELSE IF kind \in PortModes THEN PortTree(kind) ELSE ObjectTree(kind))

(***************************************************************************)
(* execute_at: the modes in which the executor accepts an operation, and   *)
(* the commands "do" may run.                                              *)
(***************************************************************************)
ExecutableAfterDo == {"Show", "ShowConfig", "Ping", "Debug", "ClearNat", "SaveConfig"}

AcceptedIn(op) ==
  CASE op = "Exit" -> ConfigModes \cup {"user", "priv"}
    [] op \in {"Show", "Ping"} -> {"user", "priv"}
    [] op = "Enable" -> {"user"}
    [] op \in {"Disable", "ConfigureTerminal", "ShowConfig", "SaveConfig", "Debug", "ClearNat"} -> {"priv"}
    [] op \in {"End", "Do", "EnterInterface", "EnterInterfaceRange"} -> ConfigModes
    [] op = "EnterVlan" -> {"global", "vlan"}
    [] op \in GlobalTree \ {"EnterVlan"} -> {"global"}
    [] op \in {"SetPortPlain", "SetOspfPort", "SetIpv6Port", "BindOspfv3", "SetAdmin",
               "Switchport", "NoSwitchport", "SetSwitchportMode", "SetAccessVlan",
               "SetNativeVlan", "SetTrunkAllowed"} -> PortModes
    [] op \in {"SetDhcpHelper", "SetDot1q", "SetIpv4Address", "SetIpv4Dhcp", "NoIpv4Address",
               "SetAccessGroup", "SetNatRole"} -> {"if", "subif"}
    [] op \in {"SetStpPort", "SetChannelGroup", "ClearChannelGroup", "BindOutput"} -> {"if", "range"}
    [] op \in {"SetOspfRouterId", "SetOspfPassive"} -> {"ospf", "ospfv3"}
    [] op = "SetOspfOption" -> {"ospf"}
    [] op \in {"SetBgpOption", "SetBgpNeighbor", "RemoveBgpNeighbor"} -> {"bgp"}
    [] op \in {"SetPoolNetwork", "SetPoolHost", "SetPoolOption"} -> {"pool"}
    [] op \in {"AddAclEntry", "RemoveAclEntry"} -> {"acl"}
    [] op = "NameVlan" -> {"vlan"}
    [] op = "SetRouteMap" -> {"rmap"}
    [] op = "MatchClass" -> {"class"}
    [] op \in {"EnterPolicyClass", "RemovePolicyClass"} -> {"policy", "pclass"}
    [] op = "SetClassAction" -> {"pclass"}

Valid(cmd, mode) ==
  /\ Kind(mode) \in AcceptedIn(cmd[1])
  /\ cmd[1] = "Do" => cmd[2][1] \in ExecutableAfterDo

(***************************************************************************)
(* Commands on one or several interfaces: a range is edited on a candidate *)
(* copy, which replaces the device only when every port accepts the edit.  *)
(***************************************************************************)
InRange(x, y, z) == /\ x.k = z.k /\ y.k = z.k /\ (z.k = "sub" => x.n = z.n /\ y.n = z.n)
                    /\ IF z.k = "sub" THEN x.s <= z.s /\ z.s <= y.s ELSE x.n <= z.n /\ z.n <= y.n

InterfaceRange(d, x, y) == SelectSeq(d.order, LAMBDA z : InRange(x, y, z))

RangeExists(d, x, y) ==
  {x, y} \subseteq DOMAIN d.ports /\ InRange(x, y, x) /\ InRange(x, y, y)

Targets(d, mode) ==
  IF mode[1] = "range" THEN InterfaceRange(d, mode[2][1], mode[2][2]) ELSE <<mode[2]>>

SetPortPlain(d, x, s, guard) ==
  When(guard, d, [d EXCEPT !.ports[x].plain = @ \cup {s}])

BindOutput(d, x, name, on) ==
  LET ids == IdOf(d.policies, name)
  IN  IF ids = {} THEN Reject(d)
      ELSE IF on THEN SetServicePolicy(d, x, name)
      ELSE Accept([d EXCEPT !.ports[x].qos = IF Range(@) \cap ids # {} THEN None ELSE @])

PortEdit(cmd, d, x) ==
  LET op == cmd[1] IN
  CASE op = "SetPortPlain"      -> SetPortPlain(d, x, cmd[2], TRUE)
    [] op \in {"SetOspfPort", "SetDhcpHelper"} -> SetPortPlain(d, x, cmd[2], SupportsRouting(d))
    [] op = "SetIpv6Port"       -> SetIpv6Policy(d, x, cmd[2])
    [] op = "BindOspfv3"        -> SetOspfv3Interface(d, x, cmd[2])
    [] op = "SetAdmin"          -> Accept([d EXCEPT !.ports[x].up = cmd[2]])
    [] op = "Switchport"        -> EnableSwitchport(d, x)
    [] op = "NoSwitchport"      -> DisableSwitchport(d, x)
    [] op = "SetSwitchportMode" -> SetSwitchportMode(d, x, cmd[2])
    [] op = "SetAccessVlan"     -> EditSwitchport(d, x, "access", cmd[2])
    [] op = "SetNativeVlan"     -> EditSwitchport(d, x, "native", cmd[2])
    [] op = "SetTrunkAllowed"   -> EditSwitchport(d, x, "allowed", Some(cmd[2]))
    [] op = "SetDot1q"          -> SetDot1q(d, x, cmd[2])
    [] op = "SetIpv4Address"    -> SetIpv4(d, x)
    [] op = "SetIpv4Dhcp"       -> SetDhcpClient(d, x)
    [] op = "NoIpv4Address"     -> Accept([d EXCEPT !.ports[x].ip = "none"])
    [] op = "SetAccessGroup"    -> SetAccessGroup(d, x, cmd[2])
    [] op = "SetNatRole"        -> When(d.type = "router", d, [d EXCEPT !.ports[x].role = TRUE])
    [] op = "SetStpPort"        -> When(IsSwitchport(d, x), d, [d EXCEPT !.ports[x].stp = cmd[2]])
    [] op = "SetChannelGroup"   -> SetChannelGroup(d, x, cmd[2])
    [] op = "ClearChannelGroup" -> Accept([d EXCEPT !.ports[x].chan = None])
    [] op = "BindOutput"        -> BindOutput(d, x, cmd[2][1], cmd[2][2])

EditInterfaces(d, mode, cmd) ==
  LET Step(r, x) == IF r.ok THEN PortEdit(cmd, r.dev, x) ELSE r
      r == FoldLeft(Step, Accept(d), Targets(d, mode))
  IN  IF r.ok THEN r ELSE Reject(d)

(***************************************************************************)
(* Global and object commands.  They answer with the device and the mode   *)
(* the session is in afterwards.                                           *)
(***************************************************************************)
Stay(r, mode)        == [ok |-> r.ok, dev |-> r.dev, mode |-> mode, fx |-> "none"]
Enter(r, old, mode)  == [ok |-> r.ok, dev |-> r.dev, mode |-> IF r.ok THEN mode ELSE old, fx |-> "none"]
Effect(d, mode, fx)  == [ok |-> TRUE, dev |-> d, mode |-> mode, fx |-> fx]

PlainGuard(d, s) ==
  CASE s \in {"hostname", "staticroute"} -> TRUE
    [] s \in {"iprouting", "ipv6routing", "prefixlist"} -> SupportsRouting(d)
    [] s \in {"excluded", "ipv6route"} -> SupportsRouting(d) \/ d.type = "host"
    [] s = "stp" -> SupportsSwitching(d)
    [] s \in {"staticnat", "natpool"} -> d.type = "router"

SetPlain(d, s) == When(PlainGuard(d, s), d, [d EXCEPT !.plain = @ \cup {s}])

GlobalEdit(cmd, d) ==
  LET op == cmd[1] IN
  CASE op = "SetPlain"              -> Stay(SetPlain(d, cmd[2]), Global)
    [] op = "RemoveVlan"            -> Stay(When(SupportsSwitching(d) /\ cmd[2] # 1, d,
                                                 [d EXCEPT !.vlans = @ \ {cmd[2]}]), Global)
    [] op = "EnterAccessList"       -> Enter(EnsureAcl(d, cmd[2]), Global, <<"acl", cmd[2]>>)
    [] op = "AddStandardAccessList" -> Stay(AddAccessListEntry(d, cmd[2]), Global)
    [] op = "EnterDhcpPool"         -> Enter(EnsureDhcpPool(d, cmd[2]), Global, <<"pool", cmd[2]>>)
    [] op = "SetNatOverload"        -> Stay(SetNatOverload(d, cmd[2][1], cmd[2][2]), Global)
    [] op = "EnterRouterOspf"       -> Enter(SetOspfProcess(d, 2, cmd[2]), Global, <<"ospf">>)
    [] op = "EnterRouterOspfv3"     -> Enter(SetOspfProcess(d, 3, cmd[2]), Global, <<"ospfv3">>)
    [] op = "RemoveRouterOspfv3"    -> Stay(RemoveOspfv3Process(d, cmd[2]), Global)
    [] op = "BgpProcess"            -> Enter(SetBgpProcess(d, cmd[2]), Global, <<"bgp">>)
    [] op = "RemoveBgp"             -> Stay(RemoveBgpProcess(d, cmd[2]), Global)
    [] op = "EnterRouteMap"         -> LET r == EnsureRouteMap(d, cmd[2][1], cmd[2][2])
                                       IN  Enter(r, Global, <<"rmap", <<Max(IdOf(r.dev.maps, cmd[2][1]) \cup {0}), cmd[2][2]>>>>)
    [] op = "RemoveRouteMap"        -> Stay(RemoveRouteMap(d, cmd[2][1], cmd[2][2]), Global)
    [] op = "EnterClass"            -> LET r == EnsureQosClass(d, cmd[2])
                                       IN  Enter(r, Global, <<"class", Max(IdOf(r.dev.classes, cmd[2]) \cup {0})>>)
    [] op = "RemoveClass"           -> Stay(RemoveQosClass(d, cmd[2]), Global)
    [] op = "EnterPolicy"           -> LET r == EnsureQosPolicy(d, cmd[2])
                                       IN  Enter(r, Global, <<"policy", Max(IdOf(r.dev.policies, cmd[2]) \cup {0})>>)
    [] op = "RemovePolicy"          -> Stay(RemoveQosPolicy(d, cmd[2]), Global)

AclEdit(cmd, d, mode) ==
  Stay(IF cmd[1] = "AddAclEntry" THEN SetAclEntry(d, mode[2], cmd[2])
       ELSE RemoveAclEntry(d, mode[2], cmd[2]), mode)

PoolEdit(cmd, d, mode) ==
  LET pool == d.pools[mode[2]]
      new  == CASE cmd[1] = "SetPoolNetwork" -> [pool EXCEPT !.net = cmd[2]]
                [] cmd[1] = "SetPoolHost"    -> [pool EXCEPT !.net = cmd[2] \div 10, !.host = cmd[2]]
                [] cmd[1] = "SetPoolOption"  -> [pool EXCEPT !.opts = TRUE]
  IN  Stay(UpdateDhcpPool(d, mode[2], new), mode)

(* The process or the object that the session's mode names need not exist  *)
(* any more.                                                               *)
BgpEdit(cmd, d, mode) ==
  Stay(CASE cmd[1] = "SetBgpOption"      -> SetBgpOption(d)
         [] cmd[1] = "SetBgpNeighbor"    -> SetBgpNeighbor(d, cmd[2][1], cmd[2][2])
         [] cmd[1] = "RemoveBgpNeighbor" -> RemoveBgpNeighbor(d), mode)

OspfEdit(cmd, d, mode) ==
  LET p == IF mode[1] = "ospfv3" THEN 3 ELSE 2
  IN  Stay(CASE cmd[1] = "SetOspfOption"   -> SetOspfOption(d, 2, "opts")
             [] cmd[1] = "SetOspfRouterId" -> SetOspfOption(d, p, "rid")
             [] cmd[1] = "SetOspfPassive"  -> SetOspfPassive(d, p, cmd[2]), mode)

QosEdit(cmd, d, mode) ==
  LET policy == IF mode[1] = "policy" THEN mode[2] ELSE mode[2][1] IN
  CASE cmd[1] = "MatchClass"        -> Stay(SetQosClass(d, mode[2]), mode)
    [] cmd[1] = "SetClassAction"    -> Stay(SetQosPolicyClass(d, mode[2][1], mode[2][2]), mode)
    [] cmd[1] = "RemovePolicyClass" -> Enter(RemoveQosPolicyClass(d, policy, cmd[2]), mode, <<"policy", policy>>)
    [] cmd[1] = "EnterPolicyClass"  -> Enter(EnsureQosPolicyClass(d, policy, cmd[2]), mode,
                                             <<"pclass", <<policy, Max(IdOf(d.classes, cmd[2]) \cup {0})>>>>)

ObjectEdit(cmd, d, mode) ==
  CASE mode[1] = "vlan"                         -> Stay(When(mode[2] \in d.vlans, d, d), mode)
    [] mode[1] = "acl"                          -> AclEdit(cmd, d, mode)
    [] mode[1] = "pool"                         -> PoolEdit(cmd, d, mode)
    [] mode[1] = "rmap"                         -> Stay(SetRouteMapEntry(d, mode[2][1], mode[2][2]), mode)
    [] mode[1] = "bgp"                          -> BgpEdit(cmd, d, mode)
    [] mode[1] \in {"ospf", "ospfv3"}           -> OspfEdit(cmd, d, mode)
    [] mode[1] \in {"class", "policy", "pclass"} -> QosEdit(cmd, d, mode)

(* exit leaves one level; in EXEC it closes the session.                   *)
ExitMode(mode) ==
  IF mode[1] = "pclass" THEN <<"policy", mode[2][1]>>
  ELSE IF mode[1] = "global" THEN Privileged ELSE Global

ExecEdit(cmd, d, mode) ==
  LET op == cmd[1] IN
  CASE op = "Exit"   -> IF mode[1] \in {"user", "priv"} THEN Effect(d, mode, "close")
                        ELSE Effect(d, ExitMode(mode), "none")
    [] op = "End"    -> Effect(d, Privileged, "none")
    [] op = "Enable" -> Effect(d, Privileged, "none")
    [] op = "Disable" -> Effect(d, User, "none")
    [] op = "ConfigureTerminal" -> Effect(d, Global, "none")
    [] op = "SaveConfig" -> Effect(d, mode, "persist")
    [] op = "Ping"   -> Effect(d, mode, "request")
    [] op \in {"Show", "ShowConfig", "Debug", "ClearNat"} -> Effect(d, mode, "none")

EnterInterface(d, mode, x) ==
  LET r == EnsureInterface(d, x)
  IN  Enter(r, mode, <<IF x.k = "sub" THEN "subif" ELSE "if", x>>)

Dispatch(cmd, d, mode) ==
  LET op == cmd[1] IN
  IF op = "EnterInterface" THEN EnterInterface(d, mode, cmd[2])
  ELSE IF op = "EnterInterfaceRange"
  THEN Enter(When(RangeExists(d, cmd[2][1], cmd[2][2]), d, d), mode, <<"range", cmd[2]>>)
  ELSE IF op = "EnterVlan"
  THEN Enter(When(SupportsSwitching(d), d, [d EXCEPT !.vlans = @ \cup {cmd[2]}]), mode, <<"vlan", cmd[2]>>)
  ELSE IF op \in GlobalTree THEN GlobalEdit(cmd, d)
  ELSE IF mode[1] \in PortModes /\ op \in PortTree(mode[1])
  THEN Stay(EditInterfaces(d, mode, cmd), mode)
  ELSE IF op \in {"Exit", "End", "Enable", "Disable", "ConfigureTerminal", "SaveConfig", "Ping",
                  "Show", "ShowConfig", "Debug", "ClearNat"}
  THEN ExecEdit(cmd, d, mode)
  ELSE ObjectEdit(cmd, d, mode)

(* "do" runs an EXEC command as if from privileged mode, leaving the       *)
(* session where it is.                                                    *)
Execute(cmd, d, mode) ==
  IF ~Valid(cmd, mode) THEN [ok |-> FALSE, dev |-> d, mode |-> mode, fx |-> "wrongmode"]
  ELSE IF cmd[1] = "Do"
  THEN LET r == Dispatch(cmd[2], d, Privileged) IN [r EXCEPT !.mode = mode]
  ELSE Dispatch(cmd, d, mode)
=============================================================================
