----------------------------- MODULE Arguments ------------------------------
(***************************************************************************)
(* The commands whose arguments are parsed by one table and hinted at by   *)
(* another, and the two entry points: Parse, what Enter does with a line,  *)
(* and Help, what "?" says after it.                                       *)
(***************************************************************************)
EXTENDS Grammar

(***************************************************************************)
(* Commands with a fixed number of arguments.                              *)
(***************************************************************************)
V3Values   == {"V3Cost", "V3Hello", "V3Dead", "OspfCost", "OspfHello", "OspfDead"}
Priorities == {"V3Priority", "OspfPriority"}
ProcessIds  == {"RouterOspfv3", "NoRouterOspfv3", "RouterOspf"}
Bindings   == {"BindOspfv3", "NoBindOspfv3"}
StaticRoutes == {"StaticRoute", "NoStaticRoute"}
VlanIds    == {"Vlan", "NoVlan", "NativeVlan", "SwitchportAccessVlan", "SpanningTreeVlan"}
NamesOnly  == {"Hostname", "VlanName", "DhcpPool", "DhcpDomain", "NamedStandardAcl", "NamedExtendedAcl"}
Addresses  == {"Ping", "OspfRouterId", "DhcpDefaultRouter", "DhcpHelper"}
Passives   == {"OspfPassive", "NoOspfPassive"}
DhcpAction == {"DhcpLease", "DhcpDns", "DhcpDomain", "DhcpHost", "DhcpHardware", "DhcpExcluded", "DhcpHelper"}

(* The words a position takes; "%16" is a number divisible by 16.           *)
Pattern(action) ==
  CASE action \in ProcessIds                     -> <<"<process-id>">>
    [] action \in Bindings                      -> <<"<process-id>", "area", "<area-id>">>
    [] action \in StaticRoutes                  -> <<"<address>", "<mask>", "<address>">>
    [] action \in V3Values                      -> <<"<1-65535>">>
    [] action \in Priorities                    -> <<"<0-255>">>
    [] action = "StpPriority"                   -> <<"<vlan-id>", "priority", "%4096">>
    [] action = "StpPortPriority"               -> <<"%16">>
    [] action = "StpCost"                       -> <<"<1-200000000>">>
    [] action = "ChannelGroup"                  -> <<"<1-4096>", "mode", "channel-mode">>
    [] action = "NatPool"                       -> <<"<name>", "<address>", "<address>", "netmask", "<mask>">>
    [] action = "AccessGroup"                   -> <<"<name>", "direction">>
    [] action \in {"DhcpNetwork", "DhcpHost"}   -> <<"<address>", "<mask>">>
    [] action \in NamesOnly                     -> <<"<name>">>
    [] action \in Addresses                     -> <<"<address>">>
    [] action \in VlanIds                       -> <<"<vlan-id>">>
    [] action = "SwitchportTrunkAllowed"        -> <<"<vlan-list>">>
    [] action = "OspfNetwork"                   -> <<"<address>", "<address>", "area", "<metric>">>
    [] action \in Passives                      -> <<"<interface>">>
    [] action = "NoAclSequence"                 -> <<"<metric>">>
    [] action = "DhcpHardware"                  -> <<"<mac>">>
    [] OTHER                                    -> << >>

Takes(word, t) ==
  CASE word = "%16"          -> Number(t, 0, 255) /\ Numbers[t] % 16 = 0
    [] word = "%4096"        -> Number(t, 0, 65535) /\ Numbers[t] % 4096 = 0
    [] word = "channel-mode" -> Choice(t, {"on", "active", "passive"}) # "?"
    [] word = "direction"    -> Choice(t, {"in", "out"}) # "?"
    [] OTHER                 -> Choice(t, {word}) # "?" \/ Fits(word, t)

(* Mutation: surplus arguments are ignored.                                 *)
ParseFixedLenient(action, args) ==
  LET p == Pattern(action)
  IN  IF Len(args) < Len(p) THEN "incomplete"
      ELSE IF \A i \in DOMAIN p : Takes(p[i], args[i]) THEN "command" ELSE "invalid"

ParseFixed(action, args) ==
  LET p == Pattern(action)
  IN  IF Len(args) < Len(p) THEN "incomplete"
      ELSE IF Len(args) = Len(p) /\ \A i \in DOMAIN p : Takes(p[i], args[i]) THEN "command"
      ELSE "invalid"

Verdict(accepted) == IF accepted THEN "command" ELSE "invalid"

(***************************************************************************)
(* acl::entry: a cursor over the rule's words.                             *)
(***************************************************************************)
At(p)          == [at |-> p, need |-> {}]
Stop(words)    == [at |-> 0, need |-> words]
Lost           == Stop({})
Then(c, F(_))  == IF c.at = 0 THEN c ELSE F(c.at)

RuleAddress(args, p) ==
  LET second == p + 1 \in DOMAIN args
      choice == IF p \in DOMAIN args THEN Choice(args[p], {"any", "host"}) ELSE ""
  IN  CASE choice = ""                             -> Stop({"any", "host", "<address>"})
        [] choice = "any"                          -> At(p + 1)
        [] choice = "?" /\ ~Ip(args[p])            -> Lost
        [] ~second                                 -> Stop({"<address>"})
        [] Ip(args[p + 1])                         -> At(p + 2)
        [] OTHER                                   -> Lost

Operators == {"eq", "range", "lt", "gt", "neq"}

RulePorts(args, p, help, otherwise) ==
  LET port(i) == i \in DOMAIN args /\ Fits("<port>", args[i])
      op == IF p \in DOMAIN args THEN Choice(args[p], Operators) ELSE ""
  IN  CASE op = ""                                          -> IF help THEN Stop(Operators \cup otherwise) ELSE At(p)
        [] op = "?"                                         -> At(p)
        [] p + 1 \notin DOMAIN args                         -> Stop({"<port>"})
        [] ~port(p + 1)                                     -> Lost
        [] op # "range"                                     -> At(p + 2)
        [] p + 2 \notin DOMAIN args                         -> Stop({"<port>"})
        [] port(p + 2) /\ Numbers[args[p + 1]] <= Numbers[args[p + 2]] -> At(p + 3)
        [] OTHER                                            -> Lost

RuleEnd(args, p, help) ==
  CASE p \notin DOMAIN args                        -> IF help THEN Stop({"log", Cr}) ELSE At(p)
    [] Choice(args[p], {"log"}) = "?"              -> Lost
    [] p + 1 \in DOMAIN args                       -> Lost
    [] OTHER                                       -> At(p + 1)

RuleBody(args, p, transport, extended, help) ==
  LET ports(q, more) == IF transport THEN RulePorts(args, q, help, more) ELSE At(q)
      source == Then(RuleAddress(args, p), LAMBDA q : ports(q, {"any", "host", "<address>"}))
      target == IF extended THEN Then(source, LAMBDA q : RuleAddress(args, q)) ELSE source
  IN  Then(Then(target, LAMBDA q : ports(q, {"log", Cr})), LAMBDA q : RuleEnd(args, q, help))

Rule(args, extended, help) ==
  LET protocols == {"ip", "icmp", "tcp", "udp"}
  IN  CASE ~extended                            -> RuleBody(args, 1, FALSE, FALSE, help)
        [] args = << >>                         -> Stop(protocols)
        [] Choice(args[1], protocols) = "?"     -> Lost
        [] OTHER                                -> RuleBody(args, 2, Choice(args[1], protocols) \in {"tcp", "udp"}, TRUE, help)

ParseRule(args, extended) ==
  LET c == Rule(args, extended, FALSE)
  IN  IF c.at # 0 THEN "command" ELSE IF c.need # {} THEN "incomplete" ELSE "invalid"

HelpRule(args, extended) ==
  LET c == Rule(args, extended, TRUE) IN IF c.at # 0 THEN {Cr} ELSE c.need

(* access-list <number>: 1-99 have a grammar of their own.                  *)
ParseAccessList(args) ==
  LET simple == Number(args[1], 1, 99)
      decided == Choice(args[2], {"permit", "deny"}) # "?"
  IN  IF Len(args) < 3 THEN "incomplete"
      ELSE IF ~decided \/ ~(simple \/ Number(args[1], 100, 199) \/ Number(args[1], 1300, 2699)) THEN "invalid"
      ELSE IF ~simple THEN ParseRule(SubSeq(args, 3, Len(args)), Number(args[1], 100, 199) \/ Number(args[1], 2000, 2699))
      ELSE CASE args[3] = "any" /\ Len(args) = 3   -> "command"
             [] Len(args) = 4                      -> Verdict(Ip(args[4]) /\ (args[3] = "host" \/ Ip(args[3])))
             [] Len(args) < 4                      -> "incomplete"
             [] OTHER                              -> "invalid"

(***************************************************************************)
(* The commands with a variable number of arguments.                       *)
(***************************************************************************)
ParseAddress(args) ==
  CASE Len(args) = 1 /\ StartsWith("dhcp", args[1]) -> "command"
    [] Len(args) < 2                                -> "incomplete"
    [] OTHER                                        -> Verdict(Len(args) = 2 /\ Ip(args[1]) /\ Mask(args[2]))

ParseInterface(args) ==
  CASE StartsWith("range", args[1]) -> IF Len(args) < 2 THEN "incomplete" ELSE Verdict(InterfaceSpan(Tail(args)))
    [] OTHER                        -> Verdict(CanonicalInterface(args))

(* dhcp::command counts the words of three commands; it takes the first    *)
(* words of the others and leaves counting them to the parser.              *)
DhcpCommand(action, args) ==
  CASE action = "DhcpLease"    -> /\ Len(args) <= 3
                                  /\ \A i \in DOMAIN args : Fits(<<"<days>", "<hours>", "<minutes>">>[i], args[i])
                                  /\ \E i \in DOMAIN args : args[i] # "0"
    [] action = "DhcpDns"      -> Len(args) <= 8 /\ \A i \in DOMAIN args : Ip(args[i])
    [] action = "DhcpExcluded" -> Len(args) <= 2 /\ \A i \in DOMAIN args : Ip(args[i])
    [] OTHER                   -> \A i \in DOMAIN Pattern(action) : i \in DOMAIN args /\ Takes(Pattern(action)[i], args[i])

DhcpCounted == {"DhcpDomain", "DhcpHost", "DhcpHardware", "DhcpHelper"}

ParseDhcp(action, args) ==
  CASE action \in DhcpCounted -> ParseFixed(action, args)
    [] OTHER                  -> Verdict(DhcpCommand(action, args))

ParseIpv6Address(args, present) ==
  CASE args = << >>                        -> IF present THEN "incomplete" ELSE "command"
    [] StartsWith("autoconfig", args[1])   -> Verdict(Len(args) = 1)
    [] Prefix6(args[1])                    -> Verdict(Len(args) = 1)
    [] ~Ip6(args[1])                       -> "invalid"
    [] Len(args) = 1                       -> "incomplete"
    [] OTHER                               -> Verdict(Len(args) = 2 /\ Choice(args[2], {"link-local"}) # "?")

ParseIpv6Route(args) ==
  IF Len(args) < 2 THEN "incomplete"
  ELSE Verdict(/\ Len(args) <= 3 /\ Prefix6(args[1]) /\ Ip6(args[Len(args)])
               /\ Len(args) = 3 => CanonicalInterface(<<args[2]>>))

ParsePingIpv6(args) ==
  CASE args = << >>                                                   -> "incomplete"
    [] Len(args) > 3 \/ ~Ip6(args[1])                                 -> "invalid"
    [] Len(args) > 1 /\ Choice(args[2], {"source"}) = "?"             -> "invalid"
    [] Len(args) = 2                                                  -> "incomplete"
    [] OTHER                                                          -> Verdict(Len(args) = 1 \/ CanonicalInterface(<<args[3]>>))

ParseNatStatic(args) ==
  LET plain == Ip(args[1])
      n == IF plain THEN 2 ELSE 5
  IN  CASE ~plain /\ Choice(args[1], {"tcp", "udp"}) = "?" -> "invalid"
        [] Len(args) < n                                   -> "incomplete"
        [] Len(args) > n                                   -> "invalid"
        [] plain                                           -> Verdict(Ip(args[2]))
        [] OTHER -> Verdict(/\ Ip(args[2]) /\ Fits("<nat-port>", args[3])
                            /\ Ip(args[4]) /\ Fits("<nat-port>", args[5]))

ParseNatOverload(args) ==
  LET n == Len(args)
      kind == IF n < 3 THEN "" ELSE Choice(args[3], {"interface", "pool"})
      overload == Choice(args[n], {"overload"}) # "?"
  IN  CASE Choice(args[1], {"list"}) = "?"             -> "invalid"
        [] n = 1                                       -> "incomplete"
        [] ~Number(args[2], 1, 99)                     -> "invalid"
        [] n = 2                                       -> "incomplete"
        [] kind = "?"                                  -> "invalid"
        [] kind = "pool"                               -> IF n = 3 THEN "incomplete" ELSE Verdict(n = 4 \/ (n = 5 /\ overload))
        [] n < 5                                       -> "incomplete"
        [] OTHER                                       -> Verdict(n <= 6 /\ overload /\ CanonicalInterface(SubSeq(args, 4, n - 1)))

ParseDot1q(args) ==
  Verdict(Fits("<vlan-id>", args[1]) /\ (Len(args) = 1 \/ (Len(args) = 2 /\ Choice(args[2], {"native"}) # "?")))
=============================================================================
