------------------------------ MODULE NatProofs ------------------------------
(***************************************************************************)
(* Proofs about Nat, for every set of flows, every pool, every set of      *)
(* static rules, every range of ports and every timeout.                   *)
(*                                                                         *)
(* The inductive invariant has two halves.  Table says what tells the      *)
(* entries of the table apart: an entry per flow, and either a port per    *)
(* entry (overload) or an address per host (pool).  Answered says that     *)
(* the entry or the rule which a packet was sent with is still there, and  *)
(* lives long enough, when the answer to the packet comes back.            *)
(***************************************************************************)
EXTENDS Nat, FiniteSetTheorems, WellFoundedInduction, TLAPS

USE NatAssumption

-----------------------------------------------------------------------------
(* The inductive invariant *)

Field ==
    [protocol |-> {f.protocol : f \in Flow}, local |-> {f.local : f \in Flow},
     port |-> {f.port : f \in Flow}, outside |-> {f.outside : f \in Flow},
     outside_port |-> {f.outside_port : f \in Flow}]

Entry ==
    [protocol : Field.protocol, local : Field.local, port : Field.port,
     global : Pool \cup {Interface}, global_port : PortRange \cup Field.port,
     outside : Field.outside, outside_port : Field.outside_port,
     expires_at : Nat]

Types ==
    /\ now \in 0 .. MaxTime
    /\ mode \in {"none", "interface", "pool", "overload"}
    /\ static \in SUBSET Rules
    /\ translations \in SUBSET Entry
    /\ next_nat_port \in PortRange
    /\ edits \in Nat

Bounded == IsFiniteSet(translations) /\ Cardinality(translations) <= MaxTranslations

\* The same endpoints inside and outside.
SameFlow(t, u) ==
    /\ t.protocol = u.protocol
    /\ t.local = u.local /\ t.port = u.port
    /\ t.outside = u.outside /\ t.outside_port = u.outside_port

\* The dynamic rule says where the global address of an entry comes from.
Source(T) ==
    \A t \in T :
        /\ mode # "none"
        /\ mode = "interface" => t.global = Interface
        /\ mode # "interface" => t.global \in Pool /\ \A r \in static : r.global # t.global

\* An entry per flow.
OnePerFlow(T) == \A t, u \in T : SameFlow(t, u) => t = u

\* With overload, a port per entry, out of the range and of no static rule.
OnePerPort(T) ==
    Overloads =>
        /\ \A t \in T : t.global_port \in PortRange
        /\ \A t, u \in T : t.global_port = u.global_port => t = u
        /\ \A t \in T, r \in static : r.kind = "port" => r.global_port # t.global_port

\* Without overload the port is kept.
PortKept(T) == ~Overloads => \A t \in T : t.global_port = t.port

\* With a pool, an address per host; without overload, a host per address.
OnePerHost(T) ==
    mode # "interface" =>
        \A t, u \in T :
            /\ t.local = u.local => t.global = u.global
            /\ ~Overloads /\ t.global = u.global => t.local = u.local

TableOK(T) == Source(T) /\ OnePerFlow(T) /\ OnePerPort(T) /\ PortKept(T) /\ OnePerHost(T)

\* Static rules can be told apart by what is outside.
RulesApart ==
    \A q, r \in static : q # r /\ q.global = r.global =>
        /\ q.kind = "port" /\ r.kind = "port"
        /\ q.protocol # r.protocol \/ q.global_port # r.global_port

Table == Types /\ Bounded /\ TableOK(translations) /\ RulesApart

\* A rule that the packet of answer a was sent with.
ByRule(a) ==
    \E r \in StaticOut(a.origin) : r.global = a.global /\ a.port = PortOut(r, a.origin.port)

\* The entry that it was sent with, among the entries T, for as long as the
\* answer can take.
ByEntry(a, T) ==
    \E t \in T :
        /\ Matches(t, a.origin)
        /\ t.global = a.global /\ t.global_port = a.port
        /\ t.expires_at >= a.sent + Timeout

\* An answer is as old as its packet, and carries what its packet carried.
Stamped(a) ==
    /\ a.sent \in Nat /\ a.sent <= now /\ now < a.sent + Timeout
    /\ a.edit \in Nat /\ a.edit <= edits
    /\ a.protocol = a.origin.protocol
    /\ a.outside = a.origin.outside /\ a.outside_port = a.origin.outside_port

Answered ==
    \A a \in answers :
        /\ Stamped(a)
        /\ a.edit = edits => ByRule(a) \/ ByEntry(a, translations)

NatInv == Table /\ Answered

-----------------------------------------------------------------------------
(* Lemmas on the operators of Nat *)

\* A set of numbers that is not empty has a least element, which Min is.
LEMMA MinNat ==
    ASSUME NEW S \in SUBSET Nat, S # {}
    PROVE  Min(S) \in S /\ \A y \in S : Min(S) <= y
<1> DEFINE Less == {ss \in Nat \X Nat : ss[1] < ss[2]}
<1>1. IsWellFoundedOn(Less, Nat)
    BY NatLessThanWellFounded DEF OpToRel
<1> HIDE DEF Less
<1>2. PICK x \in S : \A y \in S : ~(<<y, x>> \in Less)
    BY <1>1, WFMin
<1> \A y \in S : x <= y
    <2> TAKE y \in S
    <2>1. x \in Nat /\ y \in Nat /\ <<y, x>> \in Nat \X Nat
        OBVIOUS
    <2>2. y < x => <<y, x>> \in Less
        BY <2>1 DEF Less
    <2> QED
        BY <1>2, <2>1, <2>2
<1>3. \E z \in S : \A y \in S : z =< y
    OBVIOUS
<1> QED
    BY <1>3 DEF Min

\* Stepping around the range of ports stays in the range.
LEMMA AfterInRange ==
    ASSUME NEW p \in PortRange, NEW k \in Nat
    PROVE  After(p, k) \in PortRange
<1> DEFINE n == LastPort - FirstPort + 1
<1>1. n \in Nat /\ n > 0 /\ (p - FirstPort) + k \in Nat
    BY DEF PortRange
<1>2. ((p - FirstPort) + k) % n \in 0 .. n - 1
    BY <1>1
<1> QED
    BY <1>1, <1>2 DEF After, PortRange

\* What the entries of a table satisfy, the entries that are left satisfy.
LEMMA TableSubset ==
    ASSUME NEW T, TableOK(T), NEW S \in SUBSET T
    PROVE  TableOK(S)
BY DEF TableOK, Source, OnePerFlow, OnePerPort, PortKept, OnePerHost

\* An entry may be replaced by one that differs in its time only.
LEMMA TableRenewed ==
    ASSUME NEW T, TableOK(T), NEW t \in T, NEW n, SameFlow(n, t),
           n.global = t.global, n.global_port = t.global_port
    PROVE  TableOK((T \ {t}) \cup {n})
<1> DEFINE S == (T \ {t}) \cup {n}
<1>1. Source(S)
    BY DEF TableOK, Source, SameFlow
<1>2. OnePerFlow(S)
    BY DEF TableOK, OnePerFlow, SameFlow
<1>3. OnePerPort(S)
    BY DEF TableOK, OnePerPort, SameFlow
<1>4. PortKept(S)
    BY DEF TableOK, PortKept, SameFlow
<1>5. OnePerHost(S)
    BY DEF TableOK, OnePerHost, SameFlow
<1> QED
    BY <1>1, <1>2, <1>3, <1>4, <1>5 DEF TableOK

\* expire_nat leaves a good table.
LEMMA KeptOK ==
    ASSUME Table
    PROVE  /\ Kept \in SUBSET translations
           /\ TableOK(Kept)
           /\ IsFiniteSet(Kept)
           /\ Cardinality(Kept) <= Cardinality(translations)
           /\ Cardinality(Kept) \in Nat
<1>1. Kept \in SUBSET translations
    BY DEF Kept
<1>2. TableOK(Kept)
    BY <1>1, TableSubset DEF Table
<1> QED
    BY <1>1, <1>2, FS_Subset, FS_CardinalityType DEF Table, Bounded

\* The entry for a flow with an address and a port is an entry.
LEMMA TranslationType ==
    ASSUME Types, NEW f \in Flow, NEW g \in Pool \cup {Interface},
           NEW p \in PortRange \cup Field.port
    PROVE  Translation(f, g, p) \in Entry
<1>1. now + Timeout \in Nat
    BY DEF Types
<1> QED
    BY <1>1 DEF Translation, Entry, Field

\* The address chosen for a flow: the one its host has, or one that nobody has.
LEMMA CandidateOK ==
    ASSUME Table, NEW f \in Flow, mode # "none", Candidates(Kept, f) # {}
    PROVE  LET g == Min(Candidates(Kept, f)) IN
           /\ g \in Pool \cup {Interface}
           /\ mode = "interface" => g = Interface
           /\ mode # "interface" =>
                /\ g \in Pool /\ \A r \in static : r.global # g
                /\ \A t \in Kept : t.local = f.local => t.global = g
                /\ ~Overloads => \A t \in Kept : t.global = g => t.local = f.local
<1> DEFINE C == Candidates(Kept, f)
           g == Min(C)
<1>0. TableOK(Kept) /\ Kept \in SUBSET translations
    BY KeptOK
<1>1. CASE mode = "interface"
    <2>1. C = {Interface}
        BY <1>1 DEF Candidates
    <2>2. C \in SUBSET Nat /\ C # {}
        BY <2>1
    <2>3. g \in C
        BY <2>2, MinNat
    <2> QED
        BY <1>1, <2>1, <2>3
<1>2. CASE mode # "interface"
    <2> DEFINE own == {t.global : t \in {u \in Kept : u.local = f.local /\ u.global \in Pool}}
    <2>1. C = IF own # {} THEN own ELSE PoolFree(Kept)
        BY <1>2 DEF Candidates
    <2>2. C \in SUBSET Pool
        BY <2>1 DEF PoolFree
    <2>3. g \in C
        <3>1. C \in SUBSET Nat /\ C # {}
            BY <2>2
        <3> QED
            BY <3>1, MinNat
    <2>4. \A t \in Kept : t.global \in Pool /\ \A r \in static : r.global # t.global
        BY <1>0, <1>2 DEF TableOK, Source
    <2>5. \A t, u \in Kept :
            /\ t.local = u.local => t.global = u.global
            /\ ~Overloads /\ t.global = u.global => t.local = u.local
        BY <1>0, <1>2 DEF TableOK, OnePerHost
    <2>6. CASE own # {}
        <3>1. PICK u \in Kept : u.local = f.local /\ u.global = g
            BY <2>1, <2>3, <2>6, ZenonT(40)
        <3> QED
            BY <1>2, <2>4, <2>5, <3>1
    <2>7. CASE own = {}
        <3>1. \A t \in Kept : t.local # f.local
            BY <2>4, <2>7
        <3>2. g \in PoolFree(Kept)
            BY <2>1, <2>3, <2>7
        <3>3. ~Overloads => mode # "overload"
            BY DEF Overloads
        <3> QED
            BY <1>2, <2>2, <2>3, <3>1, <3>2, <3>3 DEF PoolFree
    <2> QED
        BY <2>6, <2>7
<1> QED
    BY <1>1, <1>2

\* The port allocated for a flow is in the range and not taken.
LEMMA PortOK ==
    ASSUME Types, FreeSteps(Kept) # {}
    PROVE  LET k == Min(FreeSteps(Kept)) IN
           /\ After(next_nat_port, k) \in PortRange
           /\ After(next_nat_port, k + 1) \in PortRange
           /\ ~PortTaken(Kept, After(next_nat_port, k))
<1>1. FreeSteps(Kept) \in SUBSET Nat
    BY DEF FreeSteps
<1>2. Min(FreeSteps(Kept)) \in FreeSteps(Kept)
    BY <1>1, MinNat
<1>3. Min(FreeSteps(Kept)) \in Nat /\ Min(FreeSteps(Kept)) + 1 \in Nat
    BY <1>1, <1>2
<1>4. ~PortTaken(Kept, After(next_nat_port, Min(FreeSteps(Kept))))
    BY <1>2 DEF FreeSteps
<1> QED
    BY <1>3, <1>4, AfterInRange DEF Types

\* A new entry with such an address and such a port leaves a good table.
LEMMA TableExtended ==
    ASSUME Table, NEW f \in Flow, Needs(f), NEW g, NEW p,
           mode = "interface" => g = Interface,
           mode # "interface" =>
                /\ g \in Pool /\ \A r \in static : r.global # g
                /\ \A t \in Kept : t.local = f.local => t.global = g
                /\ ~Overloads => \A t \in Kept : t.global = g => t.local = f.local,
           Overloads => p \in PortRange /\ ~PortTaken(Kept, p),
           ~Overloads => p = f.port
    PROVE  TableOK(Kept \cup {Translation(f, g, p)})
<1> DEFINE n == Translation(f, g, p)
           S == Kept \cup {n}
<1>0. TableOK(Kept)
    BY KeptOK
<1>1. /\ n.protocol = f.protocol /\ n.local = f.local /\ n.port = f.port
      /\ n.outside = f.outside /\ n.outside_port = f.outside_port
      /\ n.global = g /\ n.global_port = p
    BY DEF Translation
<1> HIDE DEF n
<1>2. Source(S)
    BY <1>0, <1>1 DEF TableOK, Source, Needs, Dynamic
<1>3. OnePerFlow(S)
    <2>1. \A t \in Kept : ~SameFlow(t, n) /\ ~SameFlow(n, t)
        BY <1>1 DEF Needs, Matches, SameFlow
    <2> QED
        BY <1>0, <2>1 DEF TableOK, OnePerFlow
<1>4. OnePerPort(S)
    <2> SUFFICES ASSUME Overloads PROVE OnePerPort(S)
        BY DEF OnePerPort
    <2>1. \A t \in Kept : t.global_port # p
        BY DEF PortTaken
    <2>2. \A r \in static : r.kind = "port" => r.global_port # p
        BY DEF PortTaken
    <2> QED
        BY <1>0, <1>1, <2>1, <2>2 DEF TableOK, OnePerPort
<1>5. PortKept(S)
    BY <1>0, <1>1 DEF TableOK, PortKept
<1>6. OnePerHost(S)
    BY <1>0, <1>1 DEF TableOK, OnePerHost
<1> QED
    BY <1>2, <1>3, <1>4, <1>5, <1>6 DEF TableOK, n

\* Every live entry is in T, perhaps used again now.
Covers(T) ==
    \A t \in Kept : \E u \in T :
        /\ SameFlow(u, t) /\ u.global = t.global /\ u.global_port = t.global_port
        /\ u.expires_at = t.expires_at \/ u.expires_at = now + Timeout

\* A table that covers the live entries still answers what is on its way.
LEMMA StillAnswered ==
    ASSUME Table, Answered, NEW T, Covers(T), NEW a \in answers, a.edit = edits
    PROVE  ByRule(a) \/ ByEntry(a, T)
<1> SUFFICES ASSUME ~ByRule(a) PROVE ByEntry(a, T)
    OBVIOUS
<1>1. Stamped(a)
    BY DEF Answered
<1>2. PICK t \in translations :
        /\ Matches(t, a.origin)
        /\ t.global = a.global /\ t.global_port = a.port
        /\ t.expires_at >= a.sent + Timeout
    BY DEF Answered, ByEntry
<1>3. t.expires_at \in Nat /\ now \in Nat /\ Timeout \in Nat
    BY DEF Table, Types, Entry
<1>4. t \in Kept
    BY <1>1, <1>2, <1>3 DEF Stamped, Kept, Live
<1>5. PICK u \in T :
        /\ SameFlow(u, t) /\ u.global = t.global /\ u.global_port = t.global_port
        /\ u.expires_at = t.expires_at \/ u.expires_at = now + Timeout
    BY <1>4 DEF Covers
<1>6. u.expires_at >= a.sent + Timeout
    BY <1>1, <1>2, <1>3, <1>5 DEF Stamped
<1>7. Matches(u, a.origin)
    BY <1>2, <1>5 DEF Matches, SameFlow
<1> QED
    BY <1>2, <1>5, <1>6, <1>7 DEF ByEntry

-----------------------------------------------------------------------------
(* The invariant is inductive *)

\* What a step that changes neither the configuration nor the clock owes.
LEMMA TableStep ==
    ASSUME Table, NEW T, T \in SUBSET Entry, TableOK(T),
           IsFiniteSet(T), Cardinality(T) <= MaxTranslations,
           translations' = T, next_nat_port' \in PortRange,
           UNCHANGED <<now, mode, static, edits>>
    PROVE  Table'
<1>1. Types'
    BY DEF Table, Types
<1>2. Bounded'
    BY DEF Bounded
<1>3. TableOK(translations)'
    BY DEF TableOK, Source, OnePerFlow, OnePerPort, PortKept, OnePerHost, Overloads, SameFlow
<1>4. RulesApart'
    BY DEF Table, RulesApart
<1> QED
    BY <1>1, <1>2, <1>3, <1>4 DEF Table

\* The same for the answers: the new one is for an entry or for a rule.
LEMMA AnsweredStep ==
    ASSUME Table, Answered, NEW T, Covers(T), translations' = T,
           \A a \in answers' : \/ a \in answers
                               \/ Stamped(a) /\ (ByRule(a) \/ ByEntry(a, T)),
           UNCHANGED <<now, mode, static, edits>>
    PROVE  Answered'
<1> SUFFICES ASSUME NEW a \in answers'
             PROVE  Stamped(a)' /\ (a.edit = edits => ByRule(a)' \/ ByEntry(a, T)')
    BY DEF Answered
<1>1. Stamped(a) /\ (a.edit = edits => ByRule(a) \/ ByEntry(a, T))
    <2>1. CASE a \in answers
        BY <2>1, StillAnswered DEF Answered
    <2> QED
        BY <2>1
<1>2. Stamped(a)'
    BY <1>1 DEF Stamped
<1>3. ByRule(a) => ByRule(a)'
    BY DEF ByRule, StaticOut, PortOut
<1>4. ByEntry(a, T) => ByEntry(a, T)'
    BY DEF ByEntry, Matches
<1> QED
    BY <1>1, <1>2, <1>3, <1>4

\* The answer to the packet that leaves now is well stamped.
LEMMA AnswerStamped ==
    ASSUME Types, NEW f \in Flow, NEW g, NEW p
    PROVE  /\ Stamped(Answer(f, g, p))
           /\ Answer(f, g, p).origin = f
           /\ Answer(f, g, p).global = g /\ Answer(f, g, p).port = p
           /\ Answer(f, g, p).sent = now
BY DEF Types, Stamped, Answer

\* Replacing a live entry by its like, used now.
LEMMA RenewedStep ==
    ASSUME NatInv, NEW t \in Kept, NEW n \in Entry, SameFlow(n, t),
           n.global = t.global, n.global_port = t.global_port,
           n.expires_at = now + Timeout
    PROVE  LET T == (Kept \ {t}) \cup {n} IN
           /\ T \in SUBSET Entry
           /\ TableOK(T)
           /\ IsFiniteSet(T)
           /\ Cardinality(T) <= MaxTranslations
           /\ Covers(T)
<1> DEFINE T == (Kept \ {t}) \cup {n}
<1>0. /\ Kept \in SUBSET translations
      /\ TableOK(Kept)
      /\ IsFiniteSet(Kept)
      /\ Cardinality(Kept) <= Cardinality(translations)
      /\ Cardinality(Kept) \in Nat
    BY KeptOK DEF NatInv
<1>1. T \in SUBSET Entry
    BY <1>0 DEF NatInv, Table, Types
<1>2. TableOK(T)
    BY <1>0, TableRenewed
<1>3. IsFiniteSet(T) /\ Cardinality(T) <= MaxTranslations
    <2>1. /\ IsFiniteSet(Kept \ {t})
          /\ Cardinality(Kept \ {t}) = Cardinality(Kept) - 1
        BY <1>0, FS_RemoveElement
    <2>2. /\ IsFiniteSet((Kept \ {t}) \cup {n})
          /\ \/ Cardinality((Kept \ {t}) \cup {n}) = Cardinality(Kept \ {t})
             \/ Cardinality((Kept \ {t}) \cup {n}) = Cardinality(Kept \ {t}) + 1
        BY <2>1, FS_AddElement
    <2>3. Cardinality(translations) \in Nat /\ Cardinality(translations) <= MaxTranslations
        BY FS_CardinalityType DEF NatInv, Table, Bounded
    <2> QED
        BY <1>0, <2>1, <2>2, <2>3
<1>4. Covers(T)
    <2> SUFFICES ASSUME NEW u \in Kept
                 PROVE  \E v \in T :
                    /\ SameFlow(v, u) /\ v.global = u.global /\ v.global_port = u.global_port
                    /\ v.expires_at = u.expires_at \/ v.expires_at = now + Timeout
        BY DEF Covers
    <2>1. CASE u = t
        BY <2>1
    <2>2. CASE u # t
        BY <2>2 DEF SameFlow
    <2> QED
        BY <2>1, <2>2
<1> QED
    BY <1>1, <1>2, <1>3, <1>4

\* A packet sent by a static rule changes the answers only.
LEMMA OutStaticStep ==
    ASSUME NatInv, NEW f \in Flow, OutStatic(f)
    PROVE  NatInv'
<1>0. Table /\ Answered /\ Types
    BY DEF NatInv, Table
<1>1. PICK r \in StaticOut(f) : Sent(f, r.global, PortOut(r, f.port))
    BY DEF OutStatic
<1> DEFINE new == Answer(f, r.global, PortOut(r, f.port))
<1>2. Stamped(new) /\ ByRule(new)
    BY <1>0, AnswerStamped DEF ByRule
<1>3. Covers(translations)
    BY <1>0 DEF Covers, Kept, SameFlow
<1>4. answers' = answers \cup {new} /\ translations' = translations
    BY <1>1 DEF Sent, OutStatic
<1>5. UNCHANGED <<now, mode, static, next_nat_port, edits>>
    BY DEF OutStatic
<1>6. Table'
    BY <1>0, <1>4, <1>5, TableStep DEF Table, Types, Bounded
<1> HIDE DEF new
<1>7. Answered'
    BY <1>0, <1>2, <1>3, <1>4, <1>5, AnsweredStep
<1> QED
    BY <1>6, <1>7 DEF NatInv

\* A packet of a flow that has an entry uses the entry again.
LEMMA OutExistingStep ==
    ASSUME NatInv, NEW f \in Flow, OutExisting(f)
    PROVE  NatInv'
<1>0. Table /\ Answered /\ Types
    BY DEF NatInv, Table
<1>1. PICK t \in Kept :
        /\ Matches(t, f)
        /\ translations' = (Kept \ {t}) \cup {Translation(f, t.global, t.global_port)}
        /\ Sent(f, t.global, t.global_port)
    BY DEF OutExisting
<1> DEFINE n == Translation(f, t.global, t.global_port)
           T == (Kept \ {t}) \cup {n}
           new == Answer(f, t.global, t.global_port)
<1>2. n \in Entry
    <2>1. t \in Entry
        BY <1>0 DEF Kept, Types
    <2> QED
        BY <1>0, <2>1, TranslationType DEF Entry
<1>3. /\ SameFlow(n, t) /\ Matches(n, f)
      /\ n.global = t.global /\ n.global_port = t.global_port
      /\ n.expires_at = now + Timeout
    BY <1>1 DEF Translation, SameFlow, Matches
<1> HIDE DEF n
<1>4. /\ T \in SUBSET Entry
      /\ TableOK(T)
      /\ IsFiniteSet(T)
      /\ Cardinality(T) <= MaxTranslations
      /\ Covers(T)
    BY <1>2, <1>3, RenewedStep
<1>5. Stamped(new) /\ ByEntry(new, T)
    <2>1. /\ Stamped(new) /\ new.origin = f /\ new.sent = now
          /\ new.global = t.global /\ new.port = t.global_port
        BY <1>0, AnswerStamped
    <2> HIDE DEF new
    <2>2. n.expires_at >= new.sent + Timeout
        BY <1>0, <1>3, <2>1 DEF Types
    <2> QED
        BY <1>3, <2>1, <2>2 DEF ByEntry
<1>6. answers' = answers \cup {new} /\ translations' = T
    BY <1>1 DEF Sent, n
<1>7. UNCHANGED <<now, mode, static, next_nat_port, edits>>
    BY DEF OutExisting
<1> HIDE DEF new, T
<1>8. Table'
    BY <1>0, <1>4, <1>6, <1>7, TableStep DEF Types
<1>9. Answered'
    BY <1>0, <1>4, <1>5, <1>6, <1>7, AnsweredStep
<1> QED
    BY <1>8, <1>9 DEF NatInv

\* A packet of a flow without an entry gets one.
LEMMA OutNewStep ==
    ASSUME NatInv, NEW f \in Flow, OutNew(f)
    PROVE  NatInv'
<1> DEFINE g == Min(Candidates(Kept, f))
           k == Min(FreeSteps(Kept))
           p == IF Overloads THEN After(next_nat_port, k) ELSE f.port
           n == Translation(f, g, p)
           T == Kept \cup {n}
           new == Answer(f, g, p)
<1>0. Table /\ Answered /\ Types
    BY DEF NatInv, Table
<1>1. /\ Needs(f) /\ HasRoom /\ Candidates(Kept, f) # {}
      /\ Overloads => FreeSteps(Kept) # {}
      /\ translations' = T
      /\ next_nat_port' = IF Overloads THEN After(next_nat_port, k + 1) ELSE next_nat_port
      /\ answers' = answers \cup {new}
      /\ UNCHANGED <<now, mode, static, edits>>
    BY DEF OutNew, Sent
<1>2. mode # "none"
    BY <1>1 DEF Needs, Dynamic
<1>3. /\ g \in Pool \cup {Interface}
      /\ mode = "interface" => g = Interface
      /\ mode # "interface" =>
           /\ g \in Pool /\ \A r \in static : r.global # g
           /\ \A t \in Kept : t.local = f.local => t.global = g
           /\ ~Overloads => \A t \in Kept : t.global = g => t.local = f.local
    BY <1>0, <1>1, <1>2, CandidateOK
<1>4. /\ Overloads => p \in PortRange /\ ~PortTaken(Kept, p)
      /\ ~Overloads => p = f.port
      /\ next_nat_port' \in PortRange
    BY <1>0, <1>1, PortOK DEF Types
<1>5. p \in PortRange \cup Field.port
    BY <1>4 DEF Field
<1> HIDE DEF g, p
<1>6. n \in Entry
    BY <1>0, <1>3, <1>5, TranslationType
<1>7. TableOK(T)
    BY <1>0, <1>1, <1>3, <1>4, TableExtended
<1>8. IsFiniteSet(T) /\ Cardinality(T) <= MaxTranslations
    <2>1. IsFiniteSet(Kept) /\ Cardinality(Kept) \in Nat /\ Cardinality(Kept) < MaxTranslations
        BY <1>0, <1>1, KeptOK DEF HasRoom
    <2> HIDE DEF n
    <2>2. /\ IsFiniteSet(T)
          /\ Cardinality(T) = Cardinality(Kept) \/ Cardinality(T) = Cardinality(Kept) + 1
        BY <2>1, FS_AddElement
    <2> QED
        BY <2>1, <2>2
<1>9. T \in SUBSET Entry
    BY <1>0, <1>6, KeptOK DEF Types
<1>10. Covers(T)
    BY DEF Covers, SameFlow
<1>11. Stamped(new) /\ ByEntry(new, T)
    <2>1. /\ Stamped(new) /\ new.origin = f /\ new.sent = now
          /\ new.global = g /\ new.port = p
        BY <1>0, AnswerStamped
    <2> HIDE DEF new
    <2>2. /\ Matches(n, f) /\ n.global = g /\ n.global_port = p
          /\ n.expires_at = now + Timeout
        BY DEF Translation, Matches
    <2> HIDE DEF n
    <2>3. n.expires_at >= new.sent + Timeout
        BY <1>0, <2>1, <2>2 DEF Types
    <2> QED
        BY <2>1, <2>2, <2>3 DEF ByEntry
<1> HIDE DEF new, T
<1>12. Table'
    BY <1>0, <1>1, <1>4, <1>7, <1>8, <1>9, TableStep
<1>13. Answered'
    BY <1>0, <1>1, <1>10, <1>11, AnsweredStep
<1> QED
    BY <1>12, <1>13 DEF NatInv

\* A packet that is dropped leaves the live entries.
LEMMA OutDropStep ==
    ASSUME NatInv, NEW f \in Flow, OutDrop(f)
    PROVE  NatInv'
<1>0. Table /\ Answered /\ Types
    BY DEF NatInv, Table
<1>1. /\ translations' = Kept
      /\ UNCHANGED <<now, mode, static, next_nat_port, answers, edits>>
    BY DEF OutDrop
<1>2. /\ Kept \in SUBSET Entry /\ TableOK(Kept) /\ IsFiniteSet(Kept)
      /\ Cardinality(Kept) <= MaxTranslations
    BY <1>0, KeptOK, FS_CardinalityType DEF Table, Bounded, Types
<1>3. Covers(Kept)
    BY DEF Covers, SameFlow
<1>4. Table'
    BY <1>0, <1>1, <1>2, TableStep DEF Types
<1>5. Answered'
    BY <1>0, <1>1, <1>3, AnsweredStep
<1> QED
    BY <1>4, <1>5 DEF NatInv

\* An answer uses the entry that it comes back by.
LEMMA InboundStep ==
    ASSUME NatInv, NEW a \in answers, Inbound(a)
    PROVE  NatInv'
<1>0. Table /\ Answered /\ Types
    BY DEF NatInv, Table
<1>1. /\ answers' = answers \ {a}
      /\ UNCHANGED <<now, mode, static, next_nat_port, edits>>
    BY DEF Inbound
<1>2. CASE translations' = translations
    <2>1. Covers(translations)
        BY DEF Covers, Kept, SameFlow
    <2>2. Table'
        BY <1>0, <1>1, <1>2, TableStep DEF Table, Types, Bounded
    <2>3. Answered'
        BY <1>0, <1>1, <1>2, <2>1, AnsweredStep
    <2> QED
        BY <2>2, <2>3 DEF NatInv
<1>3. CASE translations' = Kept
    <2>1. /\ Kept \in SUBSET Entry /\ TableOK(Kept) /\ IsFiniteSet(Kept)
          /\ Cardinality(Kept) <= MaxTranslations
        BY <1>0, KeptOK, FS_CardinalityType DEF Table, Bounded, Types
    <2>2. Covers(Kept)
        BY DEF Covers, SameFlow
    <2>3. Table'
        BY <1>0, <1>1, <1>3, <2>1, TableStep DEF Types
    <2>4. Answered'
        BY <1>0, <1>1, <1>3, <2>2, AnsweredStep
    <2> QED
        BY <2>3, <2>4 DEF NatInv
<1>4. CASE \E t \in Reverse(a) :
             translations' = (Kept \ {t}) \cup {[t EXCEPT !.expires_at = now + Timeout]}
    <2>1. PICK t \in Reverse(a) :
             translations' = (Kept \ {t}) \cup {[t EXCEPT !.expires_at = now + Timeout]}
        BY <1>4
    <2> DEFINE n == [t EXCEPT !.expires_at = now + Timeout]
               T == (Kept \ {t}) \cup {n}
    <2>2. t \in Kept /\ t \in Entry
        BY <1>0 DEF Reverse, Kept, Types
    <2>3. now + Timeout \in Nat
        BY <1>0 DEF Types
    <2>4. /\ n \in Entry /\ SameFlow(n, t)
          /\ n.global = t.global /\ n.global_port = t.global_port
          /\ n.expires_at = now + Timeout
        BY <2>2, <2>3 DEF Entry, SameFlow
    <2> HIDE DEF n
    <2>5. /\ T \in SUBSET Entry
          /\ TableOK(T)
          /\ IsFiniteSet(T)
          /\ Cardinality(T) <= MaxTranslations
          /\ Covers(T)
        BY <2>2, <2>4, RenewedStep
    <2>6. translations' = T
        BY <2>1 DEF n
    <2> HIDE DEF T
    <2>7. Table'
        BY <1>0, <1>1, <2>5, <2>6, TableStep DEF Types
    <2>8. Answered'
        BY <1>0, <1>1, <2>5, <2>6, AnsweredStep
    <2> QED
        BY <2>7, <2>8 DEF NatInv
<1> QED
    BY <1>2, <1>3, <1>4 DEF Inbound

\* A configuration command empties the table and outdates every answer.
LEMMA EditStep ==
    ASSUME NatInv, Edited, translations' = {}, static' \in SUBSET Rules, RulesApart',
           mode' \in {"none", "interface", "pool", "overload"},
           UNCHANGED <<now, next_nat_port, answers>>
    PROVE  NatInv'
<1>1. Types'
    BY DEF NatInv, Table, Types, Edited
<1>2. Bounded'
    BY FS_EmptySet DEF Bounded
<1>3. TableOK(translations)'
    BY DEF TableOK, Source, OnePerFlow, OnePerPort, PortKept, OnePerHost
<1>4. Answered'
    <2> SUFFICES ASSUME NEW a \in answers
                 PROVE  Stamped(a)' /\ a.edit # edits'
        BY DEF Answered
    <2> QED
        BY DEF NatInv, Table, Types, Answered, Stamped, Edited
<1> QED
    BY <1>1, <1>2, <1>3, <1>4 DEF NatInv, Table

\* The clock makes late answers disappear, and leaves the table.
LEMMA TickStep ==
    ASSUME NatInv, Tick
    PROVE  NatInv'
<1>1. /\ now' = now + 1 /\ now < MaxTime
      /\ answers' = {a \in answers : now' - a.sent < Timeout}
      /\ UNCHANGED <<mode, static, translations, next_nat_port, edits>>
    BY DEF Tick
<1>2. Types'
    BY <1>1 DEF NatInv, Table, Types
<1>3. Bounded' /\ RulesApart'
    BY <1>1 DEF NatInv, Table, Bounded, RulesApart
<1>4. TableOK(translations)'
    BY <1>1 DEF NatInv, Table, TableOK, Source, OnePerFlow, OnePerPort, PortKept,
                OnePerHost, Overloads, SameFlow
<1>5. Answered'
    <2> SUFFICES ASSUME NEW a \in answers'
                 PROVE  /\ Stamped(a)'
                        /\ a.edit = edits => ByRule(a)' \/ ByEntry(a, translations)'
        BY <1>1 DEF Answered
    <2>1. a \in answers /\ now' - a.sent < Timeout
        BY <1>1
    <2>2. Stamped(a) /\ (a.edit = edits => ByRule(a) \/ ByEntry(a, translations))
        BY <2>1 DEF NatInv, Answered
    <2>3. Stamped(a)'
        BY <1>1, <2>1, <2>2 DEF Stamped, NatInv, Table, Types
    <2>4. ByRule(a) => ByRule(a)'
        BY <1>1 DEF ByRule, StaticOut, PortOut
    <2>5. ByEntry(a, translations) => ByEntry(a, translations)'
        BY <1>1 DEF ByEntry, Matches
    <2> QED
        BY <2>2, <2>3, <2>4, <2>5
<1> QED
    BY <1>2, <1>3, <1>4, <1>5 DEF NatInv, Table

\* Every action keeps the invariant.
LEMMA NatInvNext ==
    ASSUME NatInv, [Next]_vars
    PROVE  NatInv'
<1>1. CASE \E f \in Flow : OutStatic(f) \/ OutExisting(f) \/ OutNew(f) \/ OutDrop(f)
    BY <1>1, OutStaticStep, OutExistingStep, OutNewStep, OutDropStep
<1>2. CASE \E a \in answers : Inbound(a)
    BY <1>2, InboundStep
<1>3. ASSUME NEW m \in {"interface", "pool", "overload"}, SetMode(m) PROVE NatInv'
    <2>1. RulesApart' /\ static' \in SUBSET Rules
        BY <1>3 DEF SetMode, NatInv, Table, Types, RulesApart
    <2> QED
        BY <1>3, <2>1, EditStep DEF SetMode
<1>4. ASSUME NEW r \in Rules, AddStatic(r) PROVE NatInv'
    <2>1. static' = static \cup {r} /\ static \in SUBSET Rules /\ RulesApart
        BY <1>4 DEF AddStatic, NatInv, Table, Types
    <2>2. \A old \in static : r # old /\ ~Conflict(r, old)
        BY <1>4 DEF AddStatic
    <2>3. \A old \in static : r.global = old.global =>
            /\ r.kind = "port" /\ old.kind = "port"
            /\ r.protocol # old.protocol \/ r.global_port # old.global_port
        BY <2>2 DEF Conflict
    <2>4. RulesApart'
        BY <2>1, <2>3 DEF RulesApart
    <2>5. static' \in SUBSET Rules /\ mode' \in {"none", "interface", "pool", "overload"}
        BY <1>4, <2>1 DEF AddStatic, NatInv, Table, Types
    <2> QED
        BY <1>4, <2>4, <2>5, EditStep DEF AddStatic
<1>5. CASE Clear
    <2>1. /\ RulesApart' /\ static' \in SUBSET Rules
          /\ mode' \in {"none", "interface", "pool", "overload"}
        BY <1>5 DEF Clear, NatInv, Table, Types, RulesApart
    <2> QED
        BY <1>5, <2>1, EditStep DEF Clear
<1>6. CASE Tick
    BY <1>6, TickStep
<1>7. CASE UNCHANGED vars
    BY <1>7 DEF vars, NatInv, Table, Types, Bounded, TableOK, Source, OnePerFlow, OnePerPort,
                PortKept, OnePerHost, Overloads, SameFlow, RulesApart, Answered, Stamped,
                ByRule, ByEntry, StaticOut, PortOut, Matches
<1> QED
    BY <1>1, <1>2, <1>3, <1>4, <1>5, <1>6, <1>7 DEF Next

\* The inductive invariant holds in every reachable state: entries are told
\* apart, and what was sent can still be answered.
THEOREM NatInvariant == Spec => []NatInv
<1>1. Init => NatInv
    <2> SUFFICES ASSUME Init PROVE NatInv
        OBVIOUS
    <2>1. Types /\ RulesApart /\ Answered
        BY DEF Init, Types, RulesApart, Answered, PortRange
    <2>2. Bounded /\ TableOK(translations)
        BY FS_EmptySet DEF Init, Bounded, TableOK, Source, OnePerFlow, OnePerPort, PortKept, OnePerHost
    <2> QED
        BY <2>1, <2>2 DEF NatInv, Table
<1> QED
    BY <1>1, NatInvNext, PTL DEF Spec

-----------------------------------------------------------------------------
(* What follows from it *)

\* The searches of nat.rs find one entry or one rule: entries with one port
\* each differ by it, entries of a pool without overload by host and flow.
LEMMA InvNoAmbiguity == NatInv => NoAmbiguity
<1> SUFFICES ASSUME NatInv PROVE NoAmbiguity
    OBVIOUS
<1>0. Types /\ TableOK(translations) /\ RulesApart
    BY DEF NatInv, Table
<1>1. ASSUME NEW t \in translations, NEW u \in translations,
             t.global = u.global, t.global_port = u.global_port,
             t.protocol = u.protocol,
             t.outside = u.outside, t.outside_port = u.outside_port
      PROVE  t = u
    <2>1. CASE Overloads
        BY <1>0, <1>1, <2>1 DEF TableOK, OnePerPort
    <2>2. CASE ~Overloads
        <3>1. mode # "interface"
            BY <2>2 DEF Overloads
        <3>2. t.local = u.local
            BY <1>0, <1>1, <2>2, <3>1 DEF TableOK, OnePerHost
        <3>3. t.port = u.port
            BY <1>0, <1>1, <2>2 DEF TableOK, PortKept
        <3> QED
            BY <1>0, <1>1, <3>2, <3>3 DEF TableOK, OnePerFlow, SameFlow
    <2> QED
        BY <2>1, <2>2
<1>2. ASSUME NEW t \in translations, NEW r \in static, t.global = r.global
      PROVE  r.kind = "port" /\ (Overloads => r.global_port # t.global_port)
    <2>1. mode = "interface" /\ t.global = Interface
        BY <1>0, <1>2 DEF TableOK, Source
    <2>2. r.kind = "port"
        BY <1>0, <1>2, <2>1 DEF Types
    <2> QED
        BY <1>0, <1>2, <2>2 DEF TableOK, OnePerPort
<1> QED
    BY <1>0, <1>1, <1>2 DEF NoAmbiguity, RulesApart

\* An answer of this configuration has one receiver, its origin.
LEMMA InvReturns == NatInv => Returns
<1> SUFFICES ASSUME NatInv, NEW a \in answers, a.edit = edits
             PROVE  Receivers(a) = {<<a.origin.local, a.origin.port>>}
    BY DEF Returns
<1>0. Table /\ Types /\ TableOK(translations) /\ RulesApart /\ Stamped(a) /\ NoAmbiguity
    BY InvNoAmbiguity DEF NatInv, Table, Answered
<1>1. CASE ByRule(a)
    <2>1. PICK r \in StaticOut(a.origin) :
            r.global = a.global /\ a.port = PortOut(r, a.origin.port)
        BY <1>1 DEF ByRule
    <2>2. /\ r \in static /\ r.local = a.origin.local
          /\ r.kind = "port" => r.protocol = a.origin.protocol /\ r.local_port = a.origin.port
        BY DEF StaticOut
    <2>3. r \in StaticIn(a)
        BY <1>0, <2>1, <2>2 DEF StaticIn, PortOut, Stamped
    <2>4. \A q \in StaticIn(a) : q = r
        BY <1>0, <2>2, <2>3 DEF StaticIn, RulesApart
    <2>5. StaticIn(a) = {r}
        BY <2>3, <2>4
    <2>6. PortIn(r, a.port) = a.origin.port
        BY <2>1, <2>2 DEF PortIn, PortOut
    <2>7. Receivers(a) = {<<r.local, PortIn(r, a.port)>>}
        BY <2>5 DEF Receivers
    <2> QED
        BY <2>2, <2>6, <2>7
<1>2. CASE ByEntry(a, translations)
    <2>1. PICK t \in translations :
            /\ Matches(t, a.origin)
            /\ t.global = a.global /\ t.global_port = a.port
            /\ t.expires_at >= a.sent + Timeout
        BY <1>2 DEF ByEntry
    <2>2. t \in Kept
        <3>1. t.expires_at \in Nat /\ now \in Nat /\ Timeout \in Nat
            BY <1>0 DEF Types, Entry
        <3> QED
            BY <1>0, <2>1, <3>1 DEF Kept, Live, Stamped
    <2>3. t \in Reverse(a)
        BY <1>0, <2>1, <2>2 DEF Reverse, Matches, Stamped
    <2>4. \A u \in Reverse(a) : u = t
        BY <1>0, <2>3 DEF Reverse, Kept, NoAmbiguity
    <2>5. StaticIn(a) = {}
        <3> SUFFICES ASSUME NEW r \in StaticIn(a) PROVE FALSE
            OBVIOUS
        <3>1. r \in static /\ r.global = t.global
            BY <2>1 DEF StaticIn
        <3>2. r.kind = "port" /\ (Overloads => r.global_port # t.global_port)
            BY <1>0, <3>1 DEF NoAmbiguity
        <3>3. mode = "interface"
            BY <1>0, <3>1 DEF TableOK, Source
        <3> QED
            BY <2>1, <3>2, <3>3 DEF StaticIn, Overloads
    <2>6. Reverse(a) = {t}
        BY <2>3, <2>4
    <2>7. Receivers(a) = {<<t.local, t.port>>}
        BY <2>5, <2>6 DEF Receivers
    <2> QED
        BY <2>1, <2>7 DEF Matches
<1> QED
    BY <1>1, <1>2 DEF NatInv, Answered

\* The state of the translator is well formed, and nat_translations never
\* grows past MAX_TRANSLATIONS.
THEOREM NatTypeOK == Spec => []TypeOK
<1>1. NatInv => TypeOK
    BY DEF NatInv, Table, Types, Bounded, TypeOK, Entry, TableOK, OnePerPort
<1> QED
    BY <1>1, NatInvariant, PTL

\* An answer finds at most one translation, or one static rule and then no
\* translation: allocate_nat_port, pool_address and add_static_nat between
\* them keep the searches of translate_nat_inbound unambiguous.
THEOREM NatNoAmbiguity == Spec => []NoAmbiguity
BY NatInvariant, InvNoAmbiguity, PTL

\* A host has one address of a pool, and without overload shares it with
\* nobody (pool_address).
THEOREM NatOneAddress == Spec => []OneAddress
<1>1. NatInv => OneAddress
    <2> SUFFICES ASSUME NatInv, mode \in {"pool", "overload"},
                        NEW t \in translations, NEW u \in translations
                 PROVE  /\ t.local = u.local => t.global = u.global
                        /\ mode = "pool" /\ t.global = u.global => t.local = u.local
        BY DEF OneAddress
    <2>1. OnePerHost(translations)
        BY DEF NatInv, Table, TableOK
    <2>2. mode # "interface" /\ (mode = "pool" => ~Overloads)
        BY DEF Overloads
    <2> QED
        BY <2>1, <2>2 DEF OnePerHost
<1> QED
    BY <1>1, NatInvariant, PTL

\* Every answer goes back to the host and the port that sent the packet,
\* unless translation has been reconfigured or cleared since.
THEOREM NatReturns == Spec => []Returns
BY NatInvariant, InvReturns, PTL

=============================================================================
