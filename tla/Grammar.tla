------------------------------ MODULE Grammar -------------------------------
(***************************************************************************)
(* The arguments of the commands: what the parser makes of them, and what  *)
(* contextual help says may come next.  Some commands have one grammar for *)
(* both (BGP, routing policy, QoS, OSPF origination, access-list rules);   *)
(* the others have a table of arities and a separate table of hints.       *)
(*                                                                         *)
(* A result is "command", "incomplete" or "invalid" for the parser and a   *)
(* set of words for help, empty when help fails.  Help words are named for *)
(* what they accept, not for how the program prints them.                  *)
(***************************************************************************)
EXTENDS Words, SequencesExt

Cr == "<cr>"

Need(words) == [parse |-> "incomplete", help |-> words]
Done(words) == [parse |-> "command", help |-> words \cup {Cr}]
Error       == [parse |-> "invalid", help |-> {}]

(* A chain of positions, of which the first `least` make a command; help    *)
(* names the next position, after each word has been accepted.              *)
Chain(args, steps, least) ==
  IF Len(args) > Len(steps) THEN Error
  ELSE IF \E i \in DOMAIN args : Choice(args[i], {steps[i]}) = "?" /\ ~Fits(steps[i], args[i]) THEN Error
  ELSE LET next == IF Len(args) = Len(steps) THEN {} ELSE {steps[Len(args) + 1]}
       IN  IF Len(args) < least THEN Need(next) ELSE Done(next)

Repeated(args, word) ==
  IF args = << >> THEN Need({word})
  ELSE IF \A i \in DOMAIN args : Fits(word, args[i]) THEN Done({word}) ELSE Error

(***************************************************************************)
(* bgp::options                                                            *)
(***************************************************************************)
NeighborWords == {"remote-as", "update-source", "next-hop-self", "route-reflector-client",
                  "prefix-list", "route-map", "default-originate"}

NeighborOption(args, word, present) ==
  LET rest == SubSeq(args, 3, Len(args)) IN
  CASE word \in {"prefix-list", "route-map"} ->
         IF Len(rest) < 2 THEN Need(IF rest = << >> THEN {"<name>"} ELSE {"in", "out"})
         ELSE IF Len(rest) = 2 /\ Choice(rest[2], {"in", "out"}) # "?" THEN Done({}) ELSE Error
    [] word = "default-originate" ->
         IF Len(rest) = 1 /\ Choice(rest[1], {"route-map"}) # "?" THEN Need({"<name>"})
         ELSE Chain(rest, <<"route-map", "<name>">>, 0)
    [] word = "remote-as" ->
         IF ~present /\ rest = << >> THEN Done({}) ELSE Chain(rest, <<"<as>">>, 1)
    [] word = "update-source" /\ present ->
         IF rest = << >> THEN Need({"<interface>"})
         ELSE IF CanonicalInterface(rest) THEN Done({}) ELSE Error
    [] OTHER -> Chain(rest, << >>, 0)

NeighborOptions(args, present) ==
  CASE args = << >>    -> Need({"<address>"})
    [] ~Ip(args[1])    -> Error
    [] Len(args) = 1   -> IF present THEN Need(NeighborWords) ELSE Done(NeighborWords)
    [] OTHER           -> LET word == Choice(args[2], NeighborWords)
                          IN  IF word = "?" THEN Error ELSE NeighborOption(args, word, present)

BgpOptions(action, args) ==
  CASE action \in {"RouterBgp", "NoRouterBgp"}      -> Chain(args, <<"<as>">>, 1)
    [] action \in {"BgpRouterId", "BgpClusterId"}   -> Chain(args, <<"<address>">>, 1)
    [] action \in {"BgpNetwork", "NoBgpNetwork"}    -> Chain(args, <<"<address>", "mask", "<mask>">>, 3)
    [] action \in {"BgpNeighbor", "NoBgpNeighbor"}  -> NeighborOptions(args, action = "BgpNeighbor")
    [] OTHER                                        -> Chain(args, << >>, 0)

(***************************************************************************)
(* route_policy::options.  The prefix-list loop takes "ge" and "le" with   *)
(* their lengths, in any order and once each; the entry's prefix is a /8.  *)
(***************************************************************************)
LengthStep(s, t) ==
  IF s.want # "" THEN [s EXCEPT !.ok = @ /\ Number(t, 0, 32), !.want = "",
                                !.got = @ @@ (s.want :> IF Number(t, 0, 32) THEN Numbers[t] ELSE 0)]
  ELSE LET word == Choice(t, {"ge", "le"})
       IN  [s EXCEPT !.ok = @ /\ word # "?" /\ word \notin DOMAIN s.got, !.want = word]

ValidLengths(got) ==
  /\ "ge" \in DOMAIN got => got["ge"] > 8
  /\ "le" \in DOMAIN got => got["le"] >= 8
  /\ {"ge", "le"} \subseteq DOMAIN got => got["ge"] <= got["le"]

PrefixEntry(rest, before) ==
  CASE rest = << >>                                     -> Need(before \cup {"permit", "deny"})
    [] Choice(rest[1], {"permit", "deny"}) = "?"        -> Error
    [] Len(rest) = 1                                    -> Need({"<prefix/length>"})
    [] ~Prefix4(rest[2])                                -> Error
    [] OTHER ->
         LET s == FoldLeft(LengthStep, [ok |-> TRUE, want |-> "", got |-> << >>], SubSeq(rest, 3, Len(rest)))
         IN  IF ~s.ok THEN Error
             ELSE IF s.want # "" THEN Need({"<0-32>"})
             ELSE IF ValidLengths(s.got) THEN Done({"ge", "le"} \ DOMAIN s.got) ELSE Error

PrefixList(args, present) ==
  LET words == IF present THEN {"seq", "permit", "deny"} ELSE {"seq"}
      word == IF Len(args) < 2 THEN "" ELSE Choice(args[2], words)
      after == IF word = "seq" THEN 4 ELSE 2
      rest == SubSeq(args, after, Len(args))
  IN  CASE args = << >>                                                -> Need({"<name>"})
        [] word = "?"                                                  -> Error
        [] word = "seq" /\ Len(args) = 2                               -> Need({"<sequence>"})
        [] word = "seq" /\ Len(args) > 2 /\ ~Fits("<sequence>", args[3]) -> Error
        [] ~present -> IF rest # << >> THEN Error ELSE Done(IF word = "seq" THEN {} ELSE {"seq"})
        [] OTHER    -> PrefixEntry(rest, IF word = "seq" THEN {} ELSE {"seq"})

RouteMapHeader(args) ==
  CASE args = << >>                                                 -> Need({"<name>"})
    [] Len(args) > 1 /\ Choice(args[2], {"permit", "deny"}) = "?"   -> Error
    [] Len(args) > 2 /\ ~Fits("<sequence>", args[3])                -> Error
    [] Len(args) > 3                                                -> Error
    [] OTHER -> Done(CASE Len(args) = 1 -> {"permit", "deny"} [] Len(args) = 2 -> {"<sequence>"} [] OTHER -> {})

PolicyOptions(action, args) ==
  CASE action \in {"PrefixList", "NoPrefixList"}          -> PrefixList(args, action = "PrefixList")
    [] action \in {"RouteMap", "NoRouteMap"}              -> RouteMapHeader(args)
    [] action = "RouteMapMatch"                           -> Repeated(args, "<name>")
    [] action = "RouteMapPrepend"                         -> Repeated(args, "<as>")
    [] action \in {"RouteMapLocalPref", "RouteMapMetric"} -> Chain(args, <<"<metric>">>, 1)
    [] OTHER                                              -> Chain(args, << >>, 0)

(***************************************************************************)
(* qos::options.  A class name that begins "match-all" or "match-any" is   *)
(* taken for the keyword, and a list name that begins "name" for "name".   *)
(***************************************************************************)
ClassMap(args) ==
  LET typed == args # << >> /\ \E k \in {"match-all", "match-any"} : StartsWith(k, args[1])
      rest == IF typed THEN Tail(args) ELSE args
  IN  CASE args = << >>                                                     -> Need({"match-all", "match-any", "<name>"})
        [] typed /\ Choice(args[1], {"match-all", "match-any"}) = "?"       -> Error
        [] OTHER                                                            -> Chain(rest, <<"<name>">>, 1)

MatchAcl(args) ==
  IF args = << >> THEN Need({"name", "<acl-number>"})
  ELSE IF StartsWith("name", args[1]) THEN Chain(Tail(args), <<"<name>">>, 1)
  ELSE Chain(args, <<"<acl-number>">>, 1)

ShowPolicy(args) ==
  IF args = << >> THEN Done({"<interface>"})
  ELSE IF CanonicalInterface(args) THEN Done({}) ELSE Error

(* The burst of a shaper is in bits, and a multiple of eight.               *)
ServiceRate(action, args) ==
  LET r == Chain(args, <<"<rate>", "<burst>">>, 1)
  IN  IF action = "QosShape" /\ Len(args) = 2 /\ r.parse = "command" /\ Numbers[args[2]] % 8 # 0
      THEN Error ELSE r

QosOptions(action, args) ==
  CASE action = "QosClassMap"                            -> ClassMap(args)
    [] action \in {"NoQosClassMap", "QosPolicyMap", "NoQosPolicyMap", "QosPolicyClass",
                   "NoQosPolicyClass", "QosOutput", "NoQosOutput"} -> Chain(args, <<"<name>">>, 1)
    [] action = "QosDscp"                                -> Repeated(args, "<0-63>")
    [] action = "QosPrecedence"                          -> Repeated(args, "<0-7>")
    [] action \in {"QosAcl", "NoQosAcl"}                 -> MatchAcl(args)
    [] action = "QosBandwidth"                           -> Chain(args, <<"<rate>">>, 1)
    [] action \in {"QosPriority", "QosPolice", "QosShape"} -> ServiceRate(action, args)
    [] action = "ShowQosInterface"                       -> ShowPolicy(args)
    [] OTHER                                             -> Chain(args, << >>, 0)

(***************************************************************************)
(* ospf::options: keywords in any order, once each, two with a value.      *)
(***************************************************************************)
OriginateStep(s, t) ==
  IF s.want # "" THEN [s EXCEPT !.ok = @ /\ (IF s.want = "metric" THEN Fits("<metric>", t) ELSE t \in {"1", "2"}),
                                !.want = ""]
  ELSE LET word == Choice(t, s.words)
       IN  [s EXCEPT !.ok = @ /\ word # "?" /\ word \notin s.seen, !.seen = @ \cup {word},
                     !.want = IF word \in {"metric", "metric-type"} THEN word ELSE ""]

Originate(action, args) ==
  LET words == {IF action = "OspfDefault" THEN "always" ELSE "subnets", "metric", "metric-type"}
      s == FoldLeft(OriginateStep, [ok |-> TRUE, words |-> words, seen |-> {}, want |-> ""], args)
  IN  IF ~s.ok THEN Error
      ELSE IF s.want # "" THEN Need(IF s.want = "metric" THEN {"<metric>"} ELSE {"1", "2"})
      ELSE Done(words \ s.seen)
=============================================================================
