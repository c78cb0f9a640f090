--------------------------- MODULE MCCommandLine ----------------------------
(* The commands, by family, and the words typed at each family.            *)
EXTENDS CommandLine

Topic(commands, words, length) == [commands |-> commands, words |-> words, length |-> length, stray |-> 2]

\* Lines that are accepted only against the advice of help.
Unhelped(t) == [t EXCEPT !.stray = 3]

MCTopics ==
  <<Topic({"BgpNeighbor", "NoBgpNeighbor"},
          NeighborWords \cup {"10.0.0.1", "1", "r", "N", "in", "out", "Gi0/1", "GigabitEthernet", "0/1"}, 4),
    Topic({"RouterBgp", "BgpRouterId", "NoBgpRouterId", "BgpNetwork", "NoBgpNetwork"},
          {"10.0.0.1", "255.255.255.0", "mask", "m", "0", "1", "N"}, 4),
    Topic({"PrefixList", "NoPrefixList"},
          {"N", "seq", "s", "permit", "ge", "le", "10.0.0.0/8", "0", "8", "16", "24"}, 6),
    Topic({"RouteMap", "NoRouteMap", "RouteMapMatch", "NoRouteMapMatch", "RouteMapPrepend",
           "RouteMapLocalPref", "NoRouteMapMetric"},
          {"N", "p", "permit", "deny", "0", "16", "70000"}, 4),
    Topic({"QosClassMap", "NoQosClassMap", "QosDscp", "QosPrecedence", "NoQosDscp", "QosAcl", "QosBandwidth",
           "QosPolice", "QosShape", "QosOutput", "ShowQosInterface", "NoQosPriority"},
          {"match-all", "m", "N", "name", "n", "0", "2", "16", "100", "Gi0/1", "GigabitEthernet", "0/1"}, 3),
    Topic({"OspfDefault", "OspfRedistribute"},
          {"always", "a", "subnets", "metric", "metric-type", "m", "1", "2", "16"}, 5),
    Topic({"RouterOspf", "RouterOspfv3", "BindOspfv3", "NoBindOspfv3", "OspfRouterId", "OspfPassive",
           "OspfCost", "OspfPriority", "StaticRoute", "DhcpNetwork", "Hostname", "Ping", "DhcpDefaultRouter", "Address"},
          {"10.0.0.1", "255.255.255.0", "0", "100", "70000", "area", "a", "d", "p", "dhcp", "ipv6", "N", "Gi0/1",
           "network", "broadcast"}, 4),
    Topic({"Vlan", "SwitchportAccessVlan", "SwitchportTrunkAllowed", "StpPriority", "StpPortPriority", "StpCost",
           "SpanningTree", "ChannelGroup", "Dot1q", "AccessGroup", "NoAclSequence", "NamedExtendedAcl"},
          {"0", "1", "16", "4096", "vlan", "priority", "p", "mode", "m", "on", "native", "in", "N"}, 4),
    Topic({"StandardRule", "ExtendedRule", "AclRemark", "RuleLine"},
          {"ip", "tcp", "any", "host", "10.0.0.1", "eq", "range", "1", "16", "log", "permit", "exit", "0"}, 7),
    Topic({"AccessList"},
          {"16", "100", "1300", "permit", "p", "any", "a", "host", "10.0.0.1", "ip", "log", "N"}, 6),
    Unhelped(Topic({"OspfNetwork"}, {"10.0.0.1", "area", "a", "0", "N"}, 4)),
    Unhelped(Topic({"NatOverload"}, {"list", "16", "interface", "pool", "in", "overload", "Gi0/1", "GigabitEthernet",
                                     "0/1", "static", "10.0.0.1"}, 6)),
    Topic({"NatStatic", "NatPool"}, {"N", "16", "tcp", "10.0.0.1", "255.255.255.0", "netmask", "0"}, 6),
    Topic({"DhcpLease", "DhcpDns", "DhcpDomain", "DhcpHost", "DhcpHardware", "DhcpExcluded", "DhcpHelper"},
          {"0", "1", "100", "10.0.0.1", "255.255.255.0", "02:00:00:00:00:01", "N"}, 4),
    Topic({"Ipv6Address", "NoIpv6Address", "Ipv6Route", "NoIpv6Route", "PingIpv6"},
          {"a", "autoconfig", "fd00::/64", "fe80::1", "link-local", "source", "s", "Gi0/1", "N"}, 4),
    Topic({"Interface", "Interfaces", "Description", "Shutdown"},
          {"range", "r", "GigabitEthernet", "s", "Loopback", "0/1", "1", "Gi0/1", "Gi0/1-2", "0/1-2", "status", "N"}, 3),
    Topic({"Do"}, {"ping", "ipv6", "disable", "10.0.0.1", "fe80::1", "source", "Gi0/1", "N"}, 5)>>
=============================================================================
