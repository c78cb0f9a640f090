---------------------------- MODULE CommandLine -----------------------------
(***************************************************************************)
(* A line being typed.  The walk down the keyword tree has reached a node  *)
(* with an action; every further word is a keyword of a child node or an   *)
(* argument.  At each point Enter parses the line and "?" asks for help.   *)
(***************************************************************************)
EXTENDS Arguments

CONSTANT Topics       \* sets of commands, with the words typed at them and two
                      \* bounds: words typed, and words typed against help's advice

VARIABLES topic, action, args,
          stray,      \* how many of the words were not among those help offered
          enter,      \* what Enter would make of the line
          help        \* what "?" would offer, empty when it fails

lineVars == <<topic, action, args, stray, enter, help>>

(* Nodes of the tree with an action (or none: V3Network) and children.      *)
Children(a) ==
  CASE a = "Interfaces"   -> "status" :> "InterfacesStatus"
    [] a = "BindOspfv3"   -> "cost" :> "V3Cost" @@ "priority" :> "V3Priority"
                             @@ "dead-interval" :> "V3Dead" @@ "network" :> "V3Network"
    [] a = "NoBindOspfv3" -> "cost" :> "NoV3Cost" @@ "network" :> "V3Broadcast"
    [] a = "V3Network"    -> "point-to-point" :> "V3PointToPoint" @@ "broadcast" :> "V3Broadcast"
    [] a = "NatOverload"  -> "static" :> "NatStatic"
    [] a = "Ping"         -> "ipv6" :> "PingIpv6"
    [] a = "SpanningTree" -> "vlan" :> "SpanningTreeVlan"
    [] OTHER              -> << >>

BgpActions == {"RouterBgp", "NoRouterBgp", "BgpRouterId", "NoBgpRouterId", "BgpClusterId", "NoBgpClusterId",
           "BgpNetwork", "NoBgpNetwork", "BgpNeighbor", "NoBgpNeighbor"}
PolicyActions == {"PrefixList", "NoPrefixList", "RouteMap", "NoRouteMap", "RouteMapMatch", "NoRouteMapMatch",
           "RouteMapLocalPref", "NoRouteMapLocalPref", "RouteMapMetric", "NoRouteMapMetric",
           "RouteMapPrepend", "NoRouteMapPrepend"}
QosActions == {"QosClassMap", "NoQosClassMap", "QosDscp", "NoQosDscp", "QosPrecedence", "NoQosPrecedence",
           "QosAcl", "NoQosAcl", "QosPolicyMap", "NoQosPolicyMap", "QosPolicyClass", "NoQosPolicyClass",
           "QosBandwidth", "NoQosBandwidth", "QosPriority", "NoQosPriority", "QosPolice", "NoQosPolice",
           "QosShape", "NoQosShape", "QosOutput", "NoQosOutput", "ShowQosInterface"}
OspfActions == {"OspfDefault", "OspfRedistribute"}
NatActions == {"NatStatic", "NatPool", "NatOverload"}
RuleActions == {"StandardRule", "ExtendedRule"}          \* AclPermit and AclDeny, by the list's kind
FreeText == {"Description", "AclRemark"}

(* One grammar for the parser and for help.                                 *)
Options(a, s) ==
  CASE a \in BgpActions    -> BgpOptions(a, s)
    [] a \in PolicyActions -> PolicyOptions(a, s)
    [] a \in QosActions    -> QosOptions(a, s)
    [] OTHER        -> Originate(a, s)

(***************************************************************************)
(* Enter.                                                                  *)
(***************************************************************************)
Variable == {"Address", "AccessList", "NatStatic", "NatOverload", "Dot1q", "Interface"}
            \cup RuleActions \cup FreeText \cup DhcpAction

ParseCommand(a, s) ==
  CASE a \in BgpActions \cup PolicyActions \cup QosActions \cup OspfActions     -> Options(a, s).parse
    [] s = << >> /\ a \in Variable                  -> "incomplete"
    [] a = "Address"                                -> ParseAddress(s)
    [] a = "AccessList"                             -> ParseAccessList(s)
    [] a = "NatStatic"                              -> ParseNatStatic(s)
    [] a = "NatOverload"                            -> ParseNatOverload(s)
    [] a = "Dot1q"                                  -> ParseDot1q(s)
    [] a = "Interface"                              -> ParseInterface(s)
    [] a = "Interfaces"                             -> Verdict(s = << >> \/ CanonicalInterface(s))
    [] a \in RuleActions                                  -> ParseRule(s, a = "ExtendedRule")
    [] a \in FreeText                               -> "command"
    [] a \in DhcpAction                             -> ParseDhcp(a, s)
    [] a \in {"Ipv6Address", "NoIpv6Address"}       -> ParseIpv6Address(s, a = "Ipv6Address")
    [] a \in {"Ipv6Route", "NoIpv6Route"}           -> ParseIpv6Route(s)
    [] a = "PingIpv6"                               -> ParsePingIpv6(s)
    [] a = "V3Network"                              -> IF s = << >> THEN "incomplete" ELSE "invalid"
    [] OTHER                                        -> ParseFixed(a, s)

(* "do": the rest of the line in privileged EXEC, if it is one of the       *)
(* commands that configuration mode may run.                                *)
Inner(s) ==
  IF s[1] = "ping" THEN IF Len(s) > 1 /\ s[2] = "ipv6" THEN <<"PingIpv6", SubSeq(s, 3, Len(s))>> ELSE <<"Ping", Tail(s)>>
  ELSE IF s[1] = "disable" THEN <<"Disable", Tail(s)>> ELSE <<"?", s>>

(* Access-list configuration mode: a line is a rule, a remark or another    *)
(* command of the mode, here "exit", behind any number of sequence numbers. *)
Numbered(s) == {i \in DOMAIN s : \A j \in 1..i : s[j] \in DOMAIN Numbers}

Unnumbered(s) == SubSeq(s, Cardinality(Numbered(s)) + 1, Len(s))

RuleLine(s) ==
  LET word == IF s = << >> THEN "" ELSE Choice(s[1], {"permit", "deny", "remark", "exit"})
  IN  CASE word = ""                   -> <<"Root", s>>
        [] word \in {"permit", "deny"} -> <<"StandardRule", Tail(s)>>
        [] word = "remark"             -> <<"AclRemark", Tail(s)>>
        [] word = "exit"               -> <<"Exit", Tail(s)>>
        [] OTHER                       -> <<"?", s>>

(***************************************************************************)
(* "?".                                                                    *)
(***************************************************************************)
(* The hints by number of arguments; what is not listed is "<cr>".          *)
Hint(a, n) ==
  CASE a \in Bindings /\ n < 3                        -> {Pattern(a)[n + 1]}
    [] a = "StpPriority" /\ n < 3                     -> {<<"<vlan-id>", "priority", "<0-61440>">>[n + 1]}
    [] a = "StpPortPriority" /\ n = 0                 -> {"<0-240>"}
    [] a = "ChannelGroup" /\ n < 3                    -> <<{"<1-4096>"}, {"mode"}, {"on", "active", "passive"}>>[n + 1]
    [] a \in StaticRoutes /\ n < 3                    -> {Pattern(a)[n + 1]}
    [] a = "DhcpNetwork" /\ n < 2                     -> {Pattern(a)[n + 1]}
    [] a = "AccessGroup" /\ n < 2                     -> <<{"<1-99>"}, {"in", "out"}>>[n + 1]
    [] a = "NoAclSequence" /\ n = 0                   -> {"<sequence>"}
    [] a \in FreeText /\ n = 0                        -> {"<text>"}
    [] a = "Dot1q" /\ n = 0                           -> {"<vlan-id>"}
    [] a \in ProcessIds \cup V3Values \cup Priorities \cup VlanIds \cup NamesOnly \cup Addresses
           \cup Passives \cup {"StpCost", "SwitchportTrunkAllowed", "OspfNetwork"} /\ n = 0
                                                      -> {Pattern(a)[1]}
    [] OTHER                                          -> {Cr}

(* "<cr>" is a hint only when the line, here `ok`, parses.                  *)
Checked(ok, words) == IF words = {Cr} /\ ~ok THEN {} ELSE words

HelpAddress(s, ok) ==
  LET dhcp == s # << >> /\ StartsWith("dhcp", s[1])
  IN  CASE s = << >>                     -> {"dhcp", "<address>"}
        [] ~dhcp /\ ~Ip(s[1])            -> {}
        [] Len(s) = 1 /\ ~dhcp           -> {"<mask>"}
        [] OTHER                         -> Checked(ok, {Cr})

HelpAccessList(s, ok) ==
  LET n == Len(s)
  IN  CASE n < 3                         -> <<{"<1-99>"}, {"permit", "deny"}, {"<source>"}>>[n + 1]
        [] n = 3 /\ s[3] # "any"         -> {"<address>"}
        [] OTHER                         -> Checked(ok, {Cr})

HelpInterface(a, s, ok) ==
  CASE s = << >>    -> Families \cup IF a = "Interface" THEN {"range"} ELSE {Cr, "status"}
    [] Len(s) = 1 /\ StartsWith("range", s[1])   -> {"<interface-range>"}
    [] ok                                        -> {Cr}
    [] Len(s) = 1 /\ Family(s[1])                -> {"<number>"}
    [] OTHER                                     -> {}

HelpDhcp(a, s) ==
  LET n == Len(s)
      steps == CASE a = "DhcpLease" -> <<"<days>", "<hours>", "<minutes>">>
                 [] a = "DhcpDns"   -> [i \in 1..8 |-> "<address>"]
                 [] a = "DhcpExcluded" -> <<"<address>", "<address>">>
                 [] OTHER -> Pattern(a)
      cr == IF s # << >> /\ DhcpCommand(a, s) THEN {Cr} ELSE {}
  IN  cr \cup IF n < Len(steps) THEN {steps[n + 1]} ELSE {}

HelpIpv6Address(a, s, ok) ==
  CASE s = << >>                    -> {"<ipv6/prefix>", "autoconfig", "<ipv6>"} \cup IF a = "NoIpv6Address" THEN {Cr} ELSE {}
    [] Len(s) = 1 /\ Ip6(s[1])      -> {"link-local"}
    [] OTHER                        -> Checked(ok, {Cr})

HelpIpv6Route(s, ok) ==
  CASE s = << >>                    -> {"<ipv6/prefix>"}
    [] Len(s) = 1                   -> {"<ipv6>", "<interface>"}
    [] Len(s) = 2 /\ ~Ip6(s[2])     -> {"<ipv6>"}
    [] OTHER                        -> Checked(ok, {Cr})

HelpPingIpv6(s, ok) ==
  CASE s = << >>                    -> {"<ipv6>"}
    [] Len(s) = 1                   -> IF Ip6(s[1]) THEN {Cr, "source"} ELSE {}
    [] Len(s) = 2                   -> IF Choice(s[2], {"source"}) # "?" THEN {"<interface>"} ELSE {}
    [] OTHER                        -> Checked(ok, {Cr})

HelpNat(a, s, ok) ==
  LET n == Len(s)
      kind == IF n < 3 THEN "" ELSE Choice(s[3], {"interface", "pool"})
      end == Checked(ok, {Cr})
  IN  CASE a = "NatPool"  -> IF n < 5 THEN {Pattern(a)[n + 1]} ELSE end
        [] a = "NatStatic" ->
             CASE n = 0                                       -> {"<address>", "tcp", "udp"}
               [] Ip(s[1])                                    -> IF n = 1 THEN {"<address>"} ELSE end
               [] Choice(s[1], {"tcp", "udp"}) = "?"          -> {}
               [] n < 5                                       -> {<<"<address>", "<nat-port>", "<address>", "<nat-port>">>[n]}
               [] OTHER                                       -> end
        [] OTHER ->
             CASE n < 3                                       -> <<{"list"}, {"<1-99>"}, {"interface", "pool"}>>[n + 1]
               [] n \in {3, 4} /\ kind = "?"                  -> {}
               [] n = 3                                       -> IF kind = "pool" THEN {"<name>"} ELSE {"<interface>"}
               [] n = 4 /\ kind = "pool"                      -> IF end = {} THEN {} ELSE {"overload", Cr}
               [] n = 4                                       -> {"overload"}
               [] OTHER                                       -> end

HelpArguments(a, s, ok) ==
  CASE a \in BgpActions \cup PolicyActions \cup QosActions \cup OspfActions     -> Options(a, s).help
    [] a \in RuleActions                                  -> HelpRule(s, a = "ExtendedRule")
    [] a \in {"Interface", "Interfaces"}            -> HelpInterface(a, s, ok)
    [] a = "Address"                                -> HelpAddress(s, ok)
    [] a = "AccessList"                             -> HelpAccessList(s, ok)
    [] a \in DhcpAction                             -> HelpDhcp(a, s)
    [] a \in {"Ipv6Address", "NoIpv6Address"}       -> HelpIpv6Address(a, s, ok)
    [] a \in {"Ipv6Route", "NoIpv6Route"}           -> HelpIpv6Route(s, ok)
    [] a = "PingIpv6"                               -> HelpPingIpv6(s, ok)
    [] a \in NatActions                                    -> HelpNat(a, s, ok)
    [] a = "Dot1q" /\ Len(s) = 1                    -> IF ok THEN {Cr, "native"} ELSE {}
    [] a \in StaticRoutes \cup {"DhcpNetwork"} /\ s # << >> /\ ~Ip(s[1]) -> {}
    [] OTHER                                        -> Checked(ok, Hint(a, Len(s)))

(* Child keywords come first; a node that also takes arguments adds their   *)
(* hint only for the two commands named here.                               *)
HelpChildren(a, ok) ==
  DOMAIN Children(a)
  \cup (IF a \in Bindings THEN {"<process-id>"} ELSE IF a = "NatOverload" THEN {"list"} ELSE {})
  \cup (IF ok THEN {Cr} ELSE {})

HelpCommand(a, s, ok) ==
  IF s = << >> /\ a # "Interfaces" /\ Children(a) # << >> THEN HelpChildren(a, ok) ELSE HelpArguments(a, s, ok)

(* The command a line comes down to: behind "do", in privileged EXEC, where *)
(* every command is offered; behind the number of a rule.                   *)
Behind(a, s) ==
  CASE a = "Do"       -> IF s = << >> THEN <<"Exec", s>> ELSE Inner(s)
    [] a = "RuleLine" -> RuleLine(Unnumbered(s))
    [] OTHER          -> <<a, s>>

ParseLine(line) ==
  CASE line[1] \in {"Exec", "Root"} -> "incomplete"
    [] line[1] = "?"                -> "invalid"
    [] OTHER                        -> ParseCommand(line[1], line[2])

(* A rule's number is positive, and only a rule or a remark has one.        *)
Misnumbered(s) ==
  \/ \E i \in Numbered(s) : s[i] = "0"
  \/ Numbered(s) # {} /\ RuleLine(Unnumbered(s))[1] = "Exit"

(* "do" does not run every command; Enter checks the numbers of a rule.     *)
Parse(a, s, parsed) ==
  IF \/ a = "Do" /\ s # << >> /\ Inner(s)[1] = "Disable"
     \/ a = "RuleLine" /\ Misnumbered(s)
  THEN "invalid" ELSE parsed

Help(line, parsed) ==
  CASE line[1] = "Exec" -> {"ping", "disable"}
    [] line[1] = "Root" -> {"permit", "deny", "remark", "exit"}
    [] line[1] = "?"    -> {}
    [] OTHER            -> HelpCommand(line[1], line[2], parsed = "command")

(***************************************************************************)
(* Typing.                                                                 *)
(***************************************************************************)
LineInit ==
  /\ topic \in DOMAIN Topics
  /\ action \in Topics[topic].commands
  /\ args = << >>
  /\ stray = 0
  /\ \E line \in {Behind(action, << >>)} : \E parsed \in {ParseLine(line)} :
       enter = Parse(action, << >>, parsed) /\ help = Help(line, parsed)

(* resolve: while no argument has been taken, a word that begins one child *)
(* is that child; one that begins several is refused as ambiguous.         *)
Walking(t) == args = << >> /\ \E k \in DOMAIN Children(action) : StartsWith(k, t)

TypeWord(t) ==
  LET child == Choice(t, DOMAIN Children(action))
  IN  /\ Len(args) < Topics[topic].length
      /\ Walking(t) => child # "?"
      /\ action' = IF Walking(t) THEN Children(action)[child] ELSE action
      /\ args' = IF Walking(t) THEN args ELSE Append(args, t)
      /\ stray' = stray + IF Answers(help, t) THEN 0 ELSE 1
      /\ stray' <= Topics[topic].stray
      /\ \E line \in {Behind(action', args')} : \E parsed \in {ParseLine(line)} :
           enter' = Parse(action', args', parsed) /\ help' = Help(line, parsed)
      /\ UNCHANGED topic

LineNext == \E t \in Topics[topic].words : TypeWord(t)

LineSpec == LineInit /\ [][LineNext]_lineVars

(***************************************************************************)
(* Properties.                                                             *)
(***************************************************************************)
(* Values inside the range a hint states that the command then refuses:    *)
(* priorities and bursts that are no multiple, an empty lease, inconsistent *)
(* prefix lengths, a descending port range, a number of another family.    *)
Constrained == {"StpPriority", "StpPortPriority", "QosShape", "DhcpLease", "PrefixList", "ExtendedRule",
                "Interface", "Interfaces"}

(* Where following help ends in a refusal.  Besides constrained values:    *)
(* the one combined hint of "network", a class named like the start of a   *)
(* keyword, and an abbreviation that only an option already given makes    *)
(* ambiguous.                                                              *)
KnownDeadEnd(a, s) ==
  \/ a \in Constrained /\ Last(s) \in DOMAIN Numbers \cup {"0/1"}
  \/ a = "OspfNetwork" /\ Len(s) = 1
  \/ a = "QosClassMap" /\ \E k \in {"match-all", "match-any"} : StartsWith(k, s[1])
  \/ a \in OspfActions /\ \E i \in 1..(Len(s) - 1) : StartsWith(s[i], Last(s))

(* Lines Enter refuses where "?" offers "<cr>": a command "do" does not    *)
(* run, a rule numbered 0, a number before a command that is no rule, and  *)
(* surplus words after the DHCP commands whose words the parser counts.    *)
KnownOffered(a, s) ==
  \/ a = "Do" /\ Inner(s)[1] = "Disable"
  \/ a = "RuleLine" /\ Misnumbered(s)
  \/ a \in DhcpCounted /\ Len(s) > Len(Pattern(a))

(* Lines Enter accepts where "?" does not offer "<cr>": "any" abbreviated  *)
(* in a standard list numbered from 1300.                                  *)
KnownWithheld(a, s) ==
  /\ a = "AccessList" /\ Number(s[1], 1300, 1999)
  /\ Len(s) = 3 /\ s[3] # "any" /\ StartsWith("any", s[3])

(* Following the words help offers never leads to a line help cannot       *)
(* continue, and "<cr>" is offered exactly when Enter would accept the     *)
(* line, but for the dead ends and the two lists of lines above.           *)
HelpIsSound ==
  /\ stray = 0 /\ help = {} => KnownDeadEnd(action, args)
  /\ Cr \in help /\ enter # "command" => KnownOffered(action, args)
  /\ enter = "command" /\ Cr \notin help => KnownWithheld(action, args)

(* Accepted lines help leads no one to: lists numbered above 99 and names  *)
(* of lists, the sequence number of a rule, the address of "ping", the     *)
(* words after the first of "network", an interface name in two words in   *)
(* the middle of a line, and the number in "no neighbor ... remote-as".    *)
KnownUnoffered(a, s) ==
  \/ a \in {"AccessList", "AccessGroup"} /\ ~Number(s[1], 1, 99)
  \/ a \in {"RuleLine", "NoAclSequence"} /\ s[1] \in DOMAIN Numbers
  \/ a = "Ping" \/ (a = "Do" /\ Inner(s)[1] = "Ping")
  \/ a = "OspfNetwork"
  \/ a \in {"BgpNeighbor", "NatOverload", "ShowQosInterface", "Interface"}
       /\ \E i \in 2..Len(s) : s[i - 1] \in Families /\ s[i] \in {"0/1", "0/1-2"}
  \/ a = "NoBgpNeighbor" /\ Len(s) = 3

(* Every line the parser accepts can be reached by typing only words that  *)
(* help offers, but for the lines above; the rest of a free text is free.  *)
HelpIsComplete ==
  enter = "command" /\ action \notin FreeText =>
    stray = 0 \/ KnownUnoffered(action, args)
=============================================================================
