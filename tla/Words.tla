------------------------------- MODULE Words --------------------------------
(***************************************************************************)
(* The words of a command line and what they read as.  A word is a string; *)
(* its readings (an address, a mask, a number, part of an interface name,  *)
(* a keyword or the beginning of several) are tables, so that no character *)
(* is looked at.                                                           *)
(***************************************************************************)
EXTENDS Integers, Sequences, FiniteSets, TLC

Numbers ==
  "0" :> 0 @@ "1" :> 1 @@ "2" :> 2 @@ "8" :> 8 @@ "16" :> 16 @@ "24" :> 24 @@ "100" :> 100
  @@ "1300" :> 1300 @@ "4096" :> 4096 @@ "70000" :> 70000

Number(t, low, high) == t \in DOMAIN Numbers /\ Numbers[t] \in low..high

Ip(t)      == t \in {"10.0.0.1", "255.255.255.0"}
Mask(t)    == t = "255.255.255.0"
Ip6(t)     == t = "fe80::1"
Prefix6(t) == t = "fd00::/64"
Prefix4(t) == t = "10.0.0.0/8"

(* What a word begins, apart from itself.                                   *)
Begins ==
  "m"      :> {"mask", "mode", "metric", "metric-type", "match-all", "match-any"} @@
  "metric" :> {"metric-type"} @@
  "in"     :> {"interface"} @@
  "a"      :> {"any", "area", "active", "always", "autoconfig"} @@
  "d"      :> {"dhcp", "deny", "default-originate", "dead-interval"} @@
  "p"      :> {"permit", "pool", "passive", "priority", "prefix-list"} @@
  "r"      :> {"range", "remote-as", "route-map", "route-reflector-client"} @@
  "n"      :> {"name", "native", "netmask", "neq", "next-hop-self", "network"} @@
  "s"      :> {"seq", "static", "status", "source", "subnets", "Serial"}

StartsWith(keyword, t) == keyword = t \/ (t \in DOMAIN Begins /\ keyword \in Begins[t])

(* Mutation: an exact word is not preferred to the words it begins.         *)
ChoicePrefixOnly(t, choices) ==
  LET found == {k \in choices : StartsWith(k, t)}
  IN  IF Cardinality(found) = 1 THEN CHOOSE k \in found : TRUE ELSE "?"

(* unique_choice: the exact word, or the only one t begins; "?" is neither. *)
Choice(t, choices) ==
  LET found == {k \in choices : StartsWith(k, t)}
  IN  IF t \in choices THEN t
      ELSE IF Cardinality(found) = 1 THEN CHOOSE k \in found : TRUE ELSE "?"

(* Interface names are one word, or a family and a number.                  *)
Families == {"GigabitEthernet", "Serial", "Loopback"}
Family(t) == Choice(t, Families) # "?"

CanonicalInterface(ts) ==
  \/ ts = <<"Gi0/1">>
  \/ Len(ts) = 2 /\ Family(ts[1]) /\ ts[2] = IF ts[1] = "Loopback" THEN "1" ELSE "0/1"

(* parse_interface_range, on the joined words.                              *)
InterfaceSpan(ts) ==
  ts = <<"Gi0/1-2">> \/ (Len(ts) = 2 /\ ts[1] = "GigabitEthernet" /\ ts[2] = "0/1-2")

(***************************************************************************)
(* What help calls a word, and the words that answer the call.  Anything   *)
(* that is not in brackets is a keyword.                                    *)
(***************************************************************************)
Bounds ==
  "<process-id>" :> <<1, 65535>> @@ "<1-65535>" :> <<1, 65535>> @@ "<0-255>" :> <<0, 255>>
  @@ "<vlan-id>" :> <<1, 4094>> @@ "<vlan-list>" :> <<1, 4094>> @@ "<1-99>" :> <<1, 99>>
  @@ "<0-61440>" :> <<0, 61440>> @@ "<0-240>" :> <<0, 240>> @@ "<1-200000000>" :> <<1, 200000000>>
  @@ "<1-4096>" :> <<1, 4096>> @@ "<sequence>" :> <<1, 2000000>> @@ "<as>" :> <<1, 2000000>>
  @@ "<metric>" :> <<0, 2000000>> @@ "<0-32>" :> <<0, 32>> @@ "<port>" :> <<0, 65535>>
  @@ "<nat-port>" :> <<1, 65535>> @@ "<days>" :> <<0, 365>> @@ "<hours>" :> <<0, 23>>
  @@ "<minutes>" :> <<0, 59>> @@ "<rate>" :> <<1, 1000000>> @@ "<burst>" :> <<1, 1000000>>
  @@ "<0-63>" :> <<0, 63>> @@ "<0-7>" :> <<0, 7>> @@ "<acl-number>" :> <<0, 65535>>

Fits(word, t) ==
  CASE word \in DOMAIN Bounds             -> Number(t, Bounds[word][1], Bounds[word][2])
    [] word = "<address>"                 -> Ip(t)
    [] word = "<mask>"                    -> Mask(t)
    [] word = "<source>"                  -> Ip(t) \/ t \in {"any", "host"}
    [] word \in {"<name>", "<text>"}      -> TRUE
    [] word = "<area-id>"                 -> Ip(t) \/ Number(t, 0, 2000000)
    [] word = "<interface>"               -> CanonicalInterface(<<t>>)
    [] word = "<interface-range>"         -> InterfaceSpan(<<t>>)
    [] word = "<number>"                  -> t \in {"0/1", "1"}
    [] word = "<ipv6>"                    -> Ip6(t)
    [] word = "<ipv6/prefix>"             -> Prefix6(t)
    [] word = "<prefix/length>"           -> Prefix4(t)
    [] word = "<mac>"                     -> t = "02:00:00:00:00:01"
    [] word = "<cr>"                      -> FALSE
    [] word \in Families                  -> Choice(t, Families) = word \/ (word = "GigabitEthernet" /\ t = "Gi0/1")
    [] OTHER                              -> t = word

(* A word is offered when it answers one of the calls, or begins just one   *)
(* of the offered keywords.                                                 *)
Answers(help, t) == (\E w \in help : Fits(w, t)) \/ Choice(t, help) # "?"
=============================================================================
