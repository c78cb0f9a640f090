---------------------------- MODULE MCManagement ----------------------------
(* The devices TLC checks, with the commands typed at each.                 *)
EXTENDS Management

Ops(S)       == {<<op>> : op \in S}
With(op, S)  == {<<op, v>> : v \in S}
Tag(v, n)    == [vlan |-> v, native |-> n]
Group(n, on) == [n |-> n, on |-> on]

\* A Layer 3 switch whose ports join a bundle, change layer and are split.
Bundle ==
  [type |-> "l3switch", hardware |-> <<Eth(1), Eth(2), Eth(3)>>, sessions |-> 1,
   configuring |-> TRUE, parents |-> {TRUE}, crashes |-> FALSE, budget |-> 7,
   commands |->
     With("EnterInterface", {Eth(1), Po(1), Sub(1, 10)})
     \cup With("EnterInterfaceRange", {<<Eth(1), Eth(2)>>, <<Eth(1), Eth(3)>>})
     \cup With("SetChannelGroup", {Group(1, TRUE), Group(1, FALSE), Group(2, TRUE)})
     \cup With("SetSwitchportMode", {"trunk"}) \cup With("SetAccessVlan", {2})
     \cup With("SetStpPort", {TRUE}) \cup With("BindOspfv3", {TRUE}) \cup With("SetIpv6Port", {TRUE})
     \cup Ops({"Switchport", "NoSwitchport", "SetIpv4Dhcp", "SetIpv4Address", "ClearChannelGroup"})]

\* A switch: VLANs, trunks, and the settings of its ports.
Switch ==
  [type |-> "switch", hardware |-> <<Eth(1)>>, sessions |-> 1,
   configuring |-> TRUE, parents |-> {TRUE}, crashes |-> FALSE, budget |-> 6,
   commands |->
     With("EnterInterface", {Eth(1)}) \cup With("EnterVlan", {1, 2}) \cup With("RemoveVlan", {1, 2})
     \cup With("SetSwitchportMode", {"trunk", "access"}) \cup With("SetAccessVlan", {2})
     \cup With("SetNativeVlan", {2}) \cup With("SetTrunkAllowed", {{1, 2}}) \cup With("SetAdmin", {FALSE})
     \cup With("SetPlain", {"hostname", "stp", "iprouting"}) \cup With("SetPortPlain", {"description"})
     \cup Ops({"NameVlan", "NoSwitchport", "Exit"})]

\* A router: access lists, translation, subinterfaces, pools and processes.
Router ==
  [type |-> "router", hardware |-> <<Eth(1)>>, sessions |-> 1,
   configuring |-> TRUE, parents |-> {TRUE}, crashes |-> FALSE, budget |-> 6,
   commands |->
     With("EnterInterface", {Eth(1), Lo(1), Sub(1, 10), Sub(1, 20)})
     \cup With("SetDot1q", {Tag(10, FALSE), Tag(10, TRUE), Tag(20, TRUE)})
     \cup With("AddStandardAccessList", {1}) \cup With("EnterAccessList", {1, 2})
     \cup With("AddAclEntry", {0, 10, 25}) \cup With("RemoveAclEntry", {10})
     \cup With("SetAccessGroup", {1}) \cup With("SetNatOverload", {<<1, Lo(1)>>, <<1, Eth(1)>>})
     \cup With("SetOspfPort", {"ospf"}) \cup With("SetDhcpHelper", {"helper"})
     \cup Ops({"SetNatRole", "SetIpv4Address", "NoIpv4Address", "Exit"})]

\* A router: its routing processes and address pools.
Processes ==
  [type |-> "router", hardware |-> <<Eth(1)>>, sessions |-> 2,
   configuring |-> TRUE, parents |-> {TRUE}, crashes |-> FALSE, budget |-> 5,
   commands |->
     With("EnterInterface", {Lo(1)}) \cup With("EnterDhcpPool", {1})
     \cup With("SetPoolNetwork", {1, 2}) \cup With("SetPoolHost", {11, 21})
     \cup With("BgpProcess", {1, 2}) \cup With("RemoveBgp", {1})
     \cup With("SetBgpNeighbor", {<<"as", 1>>, <<"as", 2>>, <<"rr", TRUE>>, <<"src", Some(Lo(1))>>})
     \cup With("EnterRouterOspf", {1, 2}) \cup With("EnterRouterOspfv3", {1, 2}) \cup With("RemoveRouterOspfv3", {1})
     \cup With("SetOspfPassive", {Lo(1)})
     \cup Ops({"SetOspfRouterId", "SetOspfOption", "SetBgpOption", "RemoveBgpNeighbor", "SetPoolOption"})]

\* Two sessions on the named objects of a router.
Policies ==
  [type |-> "router", hardware |-> <<Eth(1)>>, sessions |-> 2,
   configuring |-> TRUE, parents |-> {TRUE}, crashes |-> FALSE, budget |-> 8,
   commands |->
     With("EnterRouteMap", {<<1, 10>>, <<1, 20>>, <<2, 10>>})
     \cup With("RemoveRouteMap", {<<1, None>>, <<1, Some(10)>>, <<2, Some(10)>>})
     \cup Ops({"SetRouteMap", "Exit"})]

Classes ==
  [type |-> "router", hardware |-> <<Eth(1)>>, sessions |-> 2,
   configuring |-> TRUE, parents |-> {TRUE}, crashes |-> FALSE, budget |-> 7,
   commands |->
     With("EnterInterface", {Eth(1)})
     \cup With("EnterClass", {1, 2}) \cup With("RemoveClass", {1, 2})
     \cup With("EnterPolicy", {1}) \cup With("RemovePolicy", {1})
     \cup With("EnterPolicyClass", {1, 2}) \cup With("RemovePolicyClass", {1})
     \cup With("BindOutput", {<<1, TRUE>>, <<1, FALSE>>})
     \cup Ops({"MatchClass", "SetClassAction", "Exit"})]

\* EXEC, configuration and saving, with crashes.
Exec ==
  [type |-> "host", hardware |-> <<Eth(1)>>, sessions |-> 2,
   configuring |-> FALSE, parents |-> BOOLEAN, crashes |-> TRUE, budget |-> 7,
   commands |->
     With("SetPlain", {"hostname", "prefixlist"})
     \cup With("Do", {<<"SaveConfig">>, <<"Ping">>, <<"Disable">>})
     \cup Ops({"Enable", "Disable", "ConfigureTerminal", "SaveConfig", "Show", "ShowConfig",
               "Ping", "Debug", "ClearNat", "Exit", "End"})]

ReloadProfiles == <<Bundle>>

MCProfiles == <<Bundle, Switch, Router, Processes, Policies, Classes, Exec>>
=============================================================================
