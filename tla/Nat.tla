-------------------------------- MODULE Nat ---------------------------------
(***************************************************************************)
(* Address translation of a router between its inside and its outside      *)
(* interface (crates/rios-device/src/nat.rs): static rules, and dynamic    *)
(* translations to the interface address or to a pool, with or without     *)
(* port overload, which expire on the virtual clock.                       *)
(*                                                                         *)
(* A flow is what an inside host sends to an outside endpoint; an ICMP     *)
(* echo has its identifier for a port and the outside port 0.  Outside,    *)
(* every packet is answered, after any time shorter than the timeout of a  *)
(* translation.  The order of the vector of translations plays no part:    *)
(* NoAmbiguity says that its searches find one entry.                      *)
(***************************************************************************)
EXTENDS Integers, FiniteSetsExt

CONSTANTS
    Flow,        \* [protocol, local, port, outside, outside_port]
    Permitted,   \* inside addresses that the access list permits
    Interface,   \* the address of the outside interface, a number
    Pool,        \* addresses of the pool, numbers
    Rules,       \* static rules that may be configured
    FirstPort, LastPort,  \* NAT_PORT_FIRST, NAT_PORT_LAST
    MaxTranslations,      \* MAX_TRANSLATIONS
    Timeout,     \* NAT_TIMEOUT_MS
    MaxTime,     \* bound: the clock
    MaxEdits,    \* bound: configuration commands
    MaxAnswers   \* bound: answers on their way

ASSUME NatAssumption ==
    /\ Interface \in Nat \ {0} /\ Pool \subseteq Nat \ {0}
    /\ FirstPort \in Nat /\ LastPort \in Nat /\ FirstPort <= LastPort
    /\ {MaxTranslations, Timeout, MaxTime, MaxEdits, MaxAnswers} \subseteq Nat
    /\ Timeout > 0
    /\ \A r \in Rules : r.kind \in {"address", "port"}
    \* A static rule for the whole interface address would take every answer.
    /\ \A r \in Rules : r.kind = "address" => r.global # Interface

VARIABLES
    now,
    mode,           \* the dynamic rule: "none", "interface", "pool", "overload"
    static,         \* running_config.static_nat
    translations,   \* Device::nat_translations
    next_nat_port,  \* Device::next_nat_port
    answers,        \* answers on their way to the outside interface
    edits           \* auxiliary: configuration commands so far

vars == <<now, mode, static, translations, next_nat_port, answers, edits>>

PortRange == FirstPort .. LastPort

Init ==
    /\ now = 0
    /\ mode = "none"
    /\ static = {}
    /\ translations = {}
    /\ next_nat_port = FirstPort
    /\ answers = {}
    /\ edits = 0

-----------------------------------------------------------------------------
(* Static rules *)

\* translate_static: the rule for an inside address and port going out.
StaticOut(f) ==
    {r \in static : /\ r.local = f.local
                    /\ r.kind = "port" => r.protocol = f.protocol /\ r.local_port = f.port}

\* The rule for an answer a coming in.
StaticIn(a) ==
    {r \in static : /\ r.global = a.global
                    /\ r.kind = "port" => r.protocol = a.protocol /\ r.global_port = a.port}

\* What a rule makes of a port.
PortOut(r, port) == IF r.kind = "port" THEN r.global_port ELSE port

PortIn(r, port) == IF r.kind = "port" THEN r.local_port ELSE port

\* Mutant of Conflict: rules are compared by what is inside only.
ConflictLocal(r, old) == r.kind = "address" /\ old.kind = "address" /\ r.local = old.local

\* add_static_nat refuses a rule that an old one contradicts.
Conflict(r, old) ==
    IF r.kind = "port" /\ old.kind = "port"
    THEN /\ r.protocol = old.protocol
         /\ \/ r.global = old.global /\ r.global_port = old.global_port
            \/ r.local = old.local /\ r.local_port = old.local_port
    ELSE r.global = old.global \/ r.local = old.local

-----------------------------------------------------------------------------
(* Dynamic translations *)

\* Mutant of Live: the whole lifetime is not waited for.
LiveShort(t) == t.expires_at > now + 1

\* expire_nat
Live(t) == t.expires_at > now

Kept == {t \in translations : Live(t)}

Matches(t, f) ==
    /\ t.protocol = f.protocol
    /\ t.local = f.local /\ t.port = f.port
    /\ t.outside = f.outside /\ t.outside_port = f.outside_port

\* A port of any translation, or of a static rule, is taken for every protocol.
PortTaken(kept, port) ==
    \/ \E t \in kept : t.global_port = port
    \/ \E r \in static : r.kind = "port" /\ r.global_port = port

\* The port k steps after p, around the range.
After(p, k) == FirstPort + (((p - FirstPort) + k) % (LastPort - FirstPort + 1))

\* allocate_nat_port looks at each port once, from next_nat_port on.
FreeSteps(kept) ==
    {k \in 0 .. LastPort - FirstPort : ~PortTaken(kept, After(next_nat_port, k))}

\* pool_address: addresses that can be given to a host that has none.
PoolFree(kept) ==
    {a \in Pool : /\ \A r \in static : r.global # a
                  /\ mode = "overload" \/ \A t \in kept : t.global # a}

\* Mutant of Candidates: a host is given an address for each flow.
CandidatesByFlow(kept, f) == IF mode = "interface" THEN {Interface} ELSE PoolFree(kept)

\* The addresses among which the global address is chosen, the lowest first.
Candidates(kept, f) ==
    LET own == {t.global : t \in {u \in kept : u.local = f.local /\ u.global \in Pool}} IN
    IF mode = "interface" THEN {Interface}
    ELSE IF own # {} THEN own
    ELSE PoolFree(kept)

Overloads == mode \in {"interface", "overload"}

\* The answer to a packet of flow f that leaves now with this global address
\* and port; origin, sent and edit say where it belongs.
Answer(f, global, port) ==
    [protocol |-> f.protocol, global |-> global, port |-> port,
     outside |-> f.outside, outside_port |-> f.outside_port,
     origin |-> f, sent |-> now, edit |-> edits]

\* The packet leaves, and its answer is on the way.
Sent(f, global, port) ==
    /\ answers' = answers \cup {Answer(f, global, port)}
    /\ Cardinality(answers') <= MaxAnswers

\* The entry for f with this global address and port, used now.
Translation(f, global, port) ==
    [protocol |-> f.protocol, local |-> f.local, port |-> f.port,
     global |-> global, global_port |-> port,
     outside |-> f.outside, outside_port |-> f.outside_port,
     expires_at |-> now + Timeout]

-----------------------------------------------------------------------------
(* nat_outbound, for a packet of flow f *)

OutStatic(f) ==
    /\ \E r \in StaticOut(f) :
         Sent(f, r.global, PortOut(r, f.port))
    /\ UNCHANGED <<now, mode, static, translations, next_nat_port, edits>>

Dynamic(f) == StaticOut(f) = {} /\ mode # "none" /\ f.local \in Permitted

OutExisting(f) ==
    /\ Dynamic(f)
    /\ \E t \in Kept :
         /\ Matches(t, f)
         /\ translations' = (Kept \ {t}) \cup {Translation(f, t.global, t.global_port)}
         /\ Sent(f, t.global, t.global_port)
    /\ UNCHANGED <<now, mode, static, next_nat_port, edits>>

Needs(f) == Dynamic(f) /\ \A t \in Kept : ~Matches(t, f)

HasRoom == Cardinality(Kept) < MaxTranslations

OutNew(f) ==
    LET global == Min(Candidates(Kept, f))
        step == Min(FreeSteps(Kept))
        port == IF Overloads THEN After(next_nat_port, step) ELSE f.port
    IN
    /\ Needs(f)
    /\ HasRoom
    /\ Candidates(Kept, f) # {}
    /\ Overloads => FreeSteps(Kept) # {}
    /\ translations' = Kept \cup {Translation(f, global, port)}
    /\ next_nat_port' = IF Overloads THEN After(next_nat_port, step + 1) ELSE next_nat_port
    /\ Sent(f, global, port)
    /\ UNCHANGED <<now, mode, static, edits>>

\* Nothing to give: the packet is dropped.  A full round over the ports leaves
\* next_nat_port where it was.
OutDrop(f) ==
    /\ Needs(f)
    /\ \/ ~HasRoom
       \/ Candidates(Kept, f) = {}
       \/ Overloads /\ FreeSteps(Kept) = {}
    /\ translations' = Kept
    /\ UNCHANGED <<now, mode, static, next_nat_port, answers, edits>>

-----------------------------------------------------------------------------
(* translate_nat_inbound *)

\* The entries for an answer a.
Reverse(a) ==
    {t \in Kept : /\ t.protocol = a.protocol
                  /\ t.global = a.global /\ t.global_port = a.port
                  /\ t.outside = a.outside /\ t.outside_port = a.outside_port}

\* The inside endpoints that an answer may be given to.
Receivers(a) ==
    IF StaticIn(a) # {} THEN {<<r.local, PortIn(r, a.port)>> : r \in StaticIn(a)}
    ELSE {<<t.local, t.port>> : t \in Reverse(a)}

Inbound(a) ==
    /\ a \in answers
    /\ answers' = answers \ {a}
    /\ IF StaticIn(a) # {} THEN UNCHANGED translations
       ELSE \/ /\ Reverse(a) = {}
               /\ translations' = Kept
            \/ \E t \in Reverse(a) :
                 translations' = (Kept \ {t}) \cup {[t EXCEPT !.expires_at = now + Timeout]}
    /\ UNCHANGED <<now, mode, static, next_nat_port, edits>>

-----------------------------------------------------------------------------
(* Configuration, and the clock *)

Edited == edits < MaxEdits /\ edits' = edits + 1

\* set_nat_overload and set_nat_pool_rule; set_nat_pool too clears the table.
SetMode(m) ==
    /\ Edited
    /\ mode' = m
    /\ translations' = {}
    /\ UNCHANGED <<now, static, next_nat_port, answers>>

AddStatic(r) ==
    /\ Edited
    /\ \A old \in static : r # old /\ ~Conflict(r, old)
    /\ static' = static \cup {r}
    /\ translations' = {}
    /\ UNCHANGED <<now, mode, next_nat_port, answers>>

\* clear ip nat translation *
Clear ==
    /\ Edited
    /\ translations' = {}
    /\ UNCHANGED <<now, mode, static, next_nat_port, answers>>

\* An answer that has not come back in time is lost.
Tick ==
    /\ now < MaxTime
    /\ now' = now + 1
    /\ answers' = {a \in answers : now' - a.sent < Timeout}
    /\ UNCHANGED <<mode, static, translations, next_nat_port, edits>>

Next ==
    \/ \E f \in Flow : OutStatic(f) \/ OutExisting(f) \/ OutNew(f) \/ OutDrop(f)
    \/ \E a \in answers : Inbound(a)
    \/ \E m \in {"interface", "pool", "overload"} : SetMode(m)
    \/ \E r \in Rules : AddStatic(r)
    \/ Clear
    \/ Tick

Spec == Init /\ [][Next]_vars

-----------------------------------------------------------------------------
(* Properties *)

\* The state of the translator is well formed, and the table within its bound.
TypeOK ==
    /\ now \in 0 .. MaxTime
    /\ mode \in {"none", "interface", "pool", "overload"}
    /\ static \subseteq Rules
    /\ next_nat_port \in PortRange
    /\ Cardinality(translations) <= MaxTranslations
    /\ \A t \in translations : /\ Overloads => t.global_port \in PortRange
                               /\ t.global \in Pool \cup {Interface}

\* An answer finds at most one translation, or one static rule and then no
\* translation: the first match of the searches is the only one.
NoAmbiguity ==
    /\ \A t, u \in translations :
         /\ t.global = u.global /\ t.global_port = u.global_port
         /\ t.protocol = u.protocol
         /\ t.outside = u.outside /\ t.outside_port = u.outside_port
         => t = u
    /\ \A t \in translations, r \in static : t.global = r.global =>
         r.kind = "port" /\ (Overloads => r.global_port # t.global_port)
    /\ \A q, r \in static : q # r /\ q.global = r.global =>
         /\ q.kind = "port" /\ r.kind = "port"
         /\ q.protocol # r.protocol \/ q.global_port # r.global_port

\* Two hosts of a pool without overload never share an address, and a host
\* has one address of a pool.
OneAddress ==
    mode \in {"pool", "overload"} =>
        \A t, u \in translations :
            /\ t.local = u.local => t.global = u.global
            /\ mode = "pool" /\ t.global = u.global => t.local = u.local

\* Every answer goes back to the host and port that sent the packet, whatever
\* other flows have been given ports or have expired in the meantime, unless
\* translation has been reconfigured or cleared since.
Returns ==
    \A a \in answers : a.edit = edits => Receivers(a) = {<<a.origin.local, a.origin.port>>}

=============================================================================
