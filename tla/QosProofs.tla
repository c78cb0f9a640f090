----------------------------- MODULE QosProofs ------------------------------
(***************************************************************************)
(* Output queueing for every policy, burst, rate, weight, capacity and     *)
(* bound: the port always has a wake-up in time, a weighted class is never *)
(* overtaken, and a shaped class keeps to its rate.                        *)
(*                                                                         *)
(* The first part is about the values: token buckets and the scheduler.    *)
(* The second is about the port, whose queue keeps what the first part     *)
(* shows of every operation on it.                                         *)
(***************************************************************************)
EXTENDS QosPort, SequenceTheorems, WellFoundedInduction, TLAPS

-----------------------------------------------------------------------------
(* Values *)

\* A bucket whose last refill was no later than t.
Bucket(t) == [credit : Nat, updated : 0 .. t]

Packet == [bytes : Nat, finish : Nat]

ClassState(t) ==
    [priority : Bucket(t), police : Bucket(t), shape : Bucket(t),
     packets : Seq(Packet), last_finish : Nat, transmitted_bytes : Nat]

\* The state of a scheduler with the classes D at time t.
Queue(D, t) == [virtual_time : Nat, class : [D -> ClassState(t)]]

-----------------------------------------------------------------------------
(* Arithmetic *)

\* The smaller and the larger of two numbers.
LEMMA MinMaxOfTwo ==
    ASSUME NEW a \in Int, NEW b \in Int
    PROVE  /\ Min({a, b}) = IF a <= b THEN a ELSE b
           /\ Max({a, b}) = IF a >= b THEN a ELSE b
<1>1. \E x \in {a, b} : \A y \in {a, b} : x <= y
    OBVIOUS
<1>2. \E x \in {a, b} : \A y \in {a, b} : x >= y
    OBVIOUS
<1>3. Min({a, b}) \in {a, b} /\ \A y \in {a, b} : Min({a, b}) <= y
    BY <1>1 DEF Min
<1>4. Max({a, b}) \in {a, b} /\ \A y \in {a, b} : Max({a, b}) >= y
    BY <1>2 DEF Max
<1> QED
    BY <1>3, <1>4

\* A set of numbers that is not empty has a least element, which Min is.
LEMMA MinNat ==
    ASSUME NEW S \in SUBSET Nat, S # {}
    PROVE  Min(S) \in S /\ \A y \in S : Min(S) <= y
<1> DEFINE Less == {ss \in Nat \X Nat : ss[1] < ss[2]}
<1>1. IsWellFoundedOn(Less, Nat)
    BY NatLessThanWellFounded DEF OpToRel
<1> HIDE DEF Less
<1>2. PICK x \in S : \A y \in S : ~(<<y, x>> \in Less)
    BY <1>1, WFMin
<1>3. \A y \in S : x <= y
    <2> TAKE y \in S
    <2>1. x \in Nat /\ y \in Nat /\ <<y, x>> \in Nat \X Nat
        OBVIOUS
    <2>2. y < x => <<y, x>> \in Less
        BY <2>1 DEF Less
    <2> QED
        BY <1>2, <2>1, <2>2
<1>4. \E z \in S : \A y \in S : z =< y
    BY <1>3
<1> QED
    BY <1>4 DEF Min

\* Multiplication by a number that is not negative keeps the order.
LEMMA TimesMonotone ==
    ASSUME NEW a \in Int, NEW b \in Int, NEW c \in Nat, a <= b
    PROVE  a * c <= b * c
<1>1. (b - a) * c >= 0
    OBVIOUS
<1>2. (b - a) * c = b * c - a * c
    OBVIOUS
<1>3. a * c \in Int /\ b * c \in Int
    OBVIOUS
<1> QED
    BY <1>1, <1>2, <1>3

\* CeilDiv rounds up: it is the least number of portions of b that cover a.
LEMMA CeilDivLeast ==
    ASSUME NEW a \in Nat, NEW b \in Nat \ {0}
    PROVE  /\ CeilDiv(a, b) \in Nat
           /\ CeilDiv(a, b) * b >= a
           /\ \A n \in Int : n * b >= a => n >= CeilDiv(a, b)
           /\ a > 0 => CeilDiv(a, b) > 0
<1> DEFINE q == (a + b - 1) \div b
<1>1. q \in Nat /\ b * q <= a + b - 1 /\ a + b - 1 < b * (q + 1)
    OBVIOUS
<1>2. CeilDiv(a, b) = q
    BY DEF CeilDiv
<1> HIDE DEF q
<1>3. q * b = b * q /\ b * (q + 1) = b * q + b /\ b * q \in Nat
    BY <1>1
<1>4. q * b >= a
    BY <1>1, <1>3
<1>5. ASSUME NEW n \in Int, n * b >= a PROVE n >= q
    <2> SUFFICES ASSUME n < q PROVE FALSE
        BY <1>1
    <2>1. n + 1 <= q
        BY <1>1
    <2>2. (n + 1) * b <= q * b
        BY <1>1, <2>1, TimesMonotone
    <2>3. (n + 1) * b = n * b + b /\ n * b \in Int
        OBVIOUS
    <2> QED
        BY <1>1, <1>3, <1>5, <2>2, <2>3
<1>6. a > 0 => q > 0
    <2> SUFFICES ASSUME a > 0, q = 0 PROVE FALSE
        BY <1>1
    <2>1. q * b = 0
        OBVIOUS
    <2> QED
        BY <1>4, <2>1
<1> QED
    BY <1>1, <1>2, <1>4, <1>5, <1>6

-----------------------------------------------------------------------------
(* Token buckets *)

\* The numbers of a limit.
LEMMA LimitType ==
    ASSUME NEW limit \in Limits
    PROVE  /\ limit.rate \in Nat /\ limit.burst \in Nat
           /\ limit # NoLimit => limit.rate > 0
           /\ limit.burst * ByteCredits \in Nat
<1>1. limit.rate \in Nat /\ limit.burst \in Nat /\ (limit # NoLimit => limit.rate > 0)
    BY DEF Limits, NoLimit
<1> QED
    BY <1>1, ScaleAssumption

\* A refill adds what the rate allows for the time since the last, up to the
\* burst.
LEMMA RefilledOK ==
    ASSUME NEW t \in Nat, NEW b \in Bucket(t), NEW limit \in Limits
    PROVE  /\ Refilled(b, limit, t) \in Bucket(t)
           /\ Refilled(b, limit, t).updated = t
           /\ Refilled(b, limit, t).credit <= limit.burst * ByteCredits
           /\ Refilled(b, limit, t).credit <= b.credit + (t - b.updated) * limit.rate
           /\ \/ Refilled(b, limit, t).credit = limit.burst * ByteCredits
              \/ Refilled(b, limit, t).credit = b.credit + (t - b.updated) * limit.rate
<1> DEFINE more == b.credit + (t - b.updated) * limit.rate
           most == limit.burst * ByteCredits
<1>1. limit.rate \in Nat /\ most \in Nat
    BY LimitType
<1>2. b.credit \in Nat /\ t - b.updated \in Nat
    BY DEF Bucket
<1>3. (t - b.updated) * limit.rate \in Nat
    BY <1>1, <1>2
<1>4. more \in Nat
    BY <1>2, <1>3
<1>5. Refilled(b, limit, t) = [credit |-> Min({more, most}), updated |-> t]
    BY DEF Refilled
<1> HIDE DEF more, most
<1>6. Min({more, most}) = IF more <= most THEN more ELSE most
    BY <1>1, <1>4, MinMaxOfTwo
<1>7. Min({more, most}) \in Nat /\ Min({more, most}) <= most /\ Min({more, most}) <= more
      /\ (Min({more, most}) = most \/ Min({more, most}) = more)
    BY <1>1, <1>4, <1>6
<1> QED
    BY <1>5, <1>7 DEF Bucket, more, most

\* Taking bytes never leaves a debt, and spends exactly the bytes when the
\* limit has them.
LEMMA TakenOK ==
    ASSUME NEW t \in Nat, NEW b \in Bucket(t), NEW limit \in Limits, NEW bytes \in Nat
    PROVE  /\ Taken(b, limit, t, bytes) \in Bucket(t)
           /\ Taken(b, limit, t, bytes).updated = t
           /\ limit # NoLimit /\ Available(b, limit, t, bytes) =>
                Taken(b, limit, t, bytes).credit = Refilled(b, limit, t).credit - bytes * ByteCredits
<1> DEFINE r == Refilled(b, limit, t)
<1>1. r \in Bucket(t) /\ r.updated = t
    BY RefilledOK
<1>2. bytes * ByteCredits \in Nat
    BY ScaleAssumption
<1>3. CASE limit # NoLimit /\ Available(b, limit, t, bytes)
    <2>1. Taken(b, limit, t, bytes) = [r EXCEPT !.credit = @ - bytes * ByteCredits]
        BY <1>3 DEF Taken
    <2>2. r.credit >= bytes * ByteCredits
        BY <1>3 DEF Available
    <2> HIDE DEF r
    <2>3. r.credit - bytes * ByteCredits \in Nat
        BY <1>1, <1>2, <2>2 DEF Bucket
    <2> QED
        BY <1>1, <2>1, <2>3 DEF Bucket, r
<1>4. CASE ~(limit # NoLimit /\ Available(b, limit, t, bytes))
    BY <1>1, <1>4 DEF Taken
<1> QED
    BY <1>3, <1>4

\* A bucket is ready now exactly when it has the bytes.
LEMMA ReadyAtOK ==
    ASSUME NEW t \in Nat, NEW b \in Bucket(t), NEW limit \in Limits, NEW bytes \in Nat
    PROVE  /\ ReadyAt(b, limit, t, bytes) \in Nat
           /\ ReadyAt(b, limit, t, bytes) >= t
           /\ ReadyAt(b, limit, t, bytes) <= t => Available(b, limit, t, bytes)
<1>1. CASE Available(b, limit, t, bytes)
    BY <1>1 DEF ReadyAt
<1>2. CASE ~Available(b, limit, t, bytes)
    <2> DEFINE lacking == bytes * ByteCredits - Refilled(b, limit, t).credit
    <2>1. Refilled(b, limit, t).credit \in Nat /\ bytes * ByteCredits \in Nat
        BY RefilledOK, ScaleAssumption DEF Bucket
    <2>2. lacking \in Nat /\ lacking > 0 /\ limit # NoLimit
        BY <1>2, <2>1 DEF Available
    <2>3. limit.rate \in Nat \ {0}
        BY <2>2, LimitType
    <2>4. ReadyAt(b, limit, t, bytes) = t + CeilDiv(lacking, limit.rate)
        BY <1>2 DEF ReadyAt
    <2> HIDE DEF lacking
    <2>5. CeilDiv(lacking, limit.rate) \in Nat /\ CeilDiv(lacking, limit.rate) > 0
        BY <2>2, <2>3, CeilDivLeast
    <2> QED
        BY <2>4, <2>5
<1> QED
    BY <1>1, <1>2

\* Looking again later never gives an earlier time: what the refill adds in
\* the meantime is what the wait was computed from.
LEMMA ReadyAtMonotone ==
    ASSUME NEW t \in Nat, NEW u \in Nat, t <= u,
           NEW b \in Bucket(t), NEW limit \in Limits, NEW bytes \in Nat
    PROVE  ReadyAt(b, limit, t, bytes) <= ReadyAt(b, limit, u, bytes)
<1>1. b \in Bucket(u)
    BY DEF Bucket
<1>2. CASE Available(b, limit, t, bytes)
    <2>1. ReadyAt(b, limit, t, bytes) = t
        BY <1>2 DEF ReadyAt
    <2> QED
        BY <1>1, <2>1, ReadyAtOK
<1>3. CASE ~Available(b, limit, t, bytes)
    <2> DEFINE need == bytes * ByteCredits
               c == Refilled(b, limit, t).credit
               d == Refilled(b, limit, u).credit
               r == limit.rate
    <2>1. /\ c \in Nat /\ c <= limit.burst * ByteCredits
          /\ c = limit.burst * ByteCredits \/ c = b.credit + (t - b.updated) * r
        BY RefilledOK DEF Bucket
    <2>2. /\ d \in Nat /\ d <= limit.burst * ByteCredits
          /\ d <= b.credit + (u - b.updated) * r
        BY <1>1, RefilledOK DEF Bucket
    <2>3. need \in Nat /\ limit # NoLimit /\ c < need
        BY <1>3, <2>1, ScaleAssumption DEF Available
    <2>4. r \in Nat \ {0} /\ limit.burst * ByteCredits \in Nat
        BY <2>3, LimitType
    <2>5. b.credit \in Nat /\ b.updated \in Int
        BY DEF Bucket
    <2>6. ReadyAt(b, limit, t, bytes) = t + CeilDiv(need - c, r)
        BY <1>3 DEF ReadyAt
    <2>7. Available(b, limit, u, bytes) <=> d >= need
        BY <2>3 DEF Available
    <2>8. ReadyAt(b, limit, u, bytes) = IF d >= need THEN u ELSE u + CeilDiv(need - d, r)
        BY <2>7 DEF ReadyAt
    <2> DEFINE gain == (u - t) * r
    <2>9. gain \in Nat /\ d <= c + gain
        <3>1. (u - b.updated) * r = (t - b.updated) * r + (u - t) * r
            BY <2>4, <2>5
        <3>2. (u - t) * r \in Nat /\ (t - b.updated) * r \in Int
            BY <2>4, <2>5
        <3> HIDE DEF c, d, r
        <3> QED
            BY <2>1, <2>2, <2>4, <2>5, <3>1, <3>2
    <2> HIDE DEF need, c, d, r
    <2>10. need - c \in Nat
        BY <2>1, <2>3
    <2>11. CASE d >= need
        <3>1. (u - t) * r >= need - c
            BY <2>1, <2>2, <2>3, <2>9, <2>11
        <3>2. u - t \in Int
            OBVIOUS
        <3>3. u - t >= CeilDiv(need - c, r)
            BY <2>4, <2>10, <3>1, <3>2, CeilDivLeast
        <3>4. CeilDiv(need - c, r) \in Nat
            BY <2>4, <2>10, CeilDivLeast
        <3> QED
            BY <2>6, <2>8, <2>11, <3>3, <3>4
    <2>12. CASE ~(d >= need)
        <3>1. need - d \in Nat
            BY <2>2, <2>3, <2>12
        <3> DEFINE w == CeilDiv(need - d, r)
        <3>2. w \in Nat /\ w * r >= need - d
            BY <2>4, <3>1, CeilDivLeast
        <3> HIDE DEF w
        <3>3. (w + (u - t)) * r = w * r + gain /\ w * r \in Nat
            BY <2>4, <3>2
        <3>4. (w + (u - t)) * r >= need - c
            BY <2>1, <2>2, <2>3, <2>9, <3>2, <3>3
        <3>5. w + (u - t) >= CeilDiv(need - c, r) /\ CeilDiv(need - c, r) \in Nat
            BY <2>4, <2>10, <3>2, <3>4, CeilDivLeast
        <3> QED
            BY <2>6, <2>8, <2>12, <3>2, <3>5 DEF w
    <2> QED
        BY <2>11, <2>12
<1> QED
    BY <1>2, <1>3

-----------------------------------------------------------------------------
(* The scheduler: what every operation keeps *)

\* The tags of a class grow, and its last tag is the largest.
TagsGrow(c) ==
    /\ \A i, j \in DOMAIN c.packets : i <= j => c.packets[i].finish <= c.packets[j].finish
    /\ \A i \in DOMAIN c.packets : c.packets[i].finish <= c.last_finish

\* The virtual time has not passed a packet of class k.
NotPassed(q, k) ==
    \A i \in DOMAIN q.class[k].packets : q.class[k].packets[i].finish >= q.virtual_time

Ordered(q, classes) ==
    \A k \in DOMAIN classes :
        /\ TagsGrow(q.class[k])
        /\ classes[k].shape = NoLimit /\ classes[k].priority = NoLimit => NotPassed(q, k)

Departure == [time : Nat, class : Nat, bytes : Nat, total : Nat]

\* What class k has sent since its departure d, that one included, and what it
\* may still send at once come from the burst and from what the rate has added.
Covered(c, shape, d) ==
    (c.transmitted_bytes - d.total + d.bytes) * ByteCredits + c.shape.credit
        <= shape.burst * ByteCredits + (c.shape.updated - d.time) * shape.rate

Conforming(q, classes, lg) ==
    \A k \in DOMAIN classes : classes[k].shape # NoLimit =>
        \A i \in DOMAIN lg : lg[i].class = k => Covered(q.class[k], classes[k].shape, lg[i])

SchedulerOK(q, classes, t, lg) ==
    /\ q \in Queue(DOMAIN classes, t)
    /\ Ordered(q, classes)
    /\ Conforming(q, classes, lg)

\* A class of a policy and its numbers.
LEMMA ConfigOK ==
    ASSUME NEW classes \in Seq(QueueClassConfig), NEW k \in DOMAIN classes
    PROVE  /\ k \in Nat /\ classes[k] \in QueueClassConfig
           /\ classes[k].weight \in Nat \ {0}
           /\ classes[k].shape \in Limits
           /\ classes[k].police \in Limits
           /\ classes[k].priority \in Limits
<1>1. k \in 1 .. Len(classes) /\ Len(classes) \in Nat
    OBVIOUS
<1>2. classes[k] \in QueueClassConfig
    BY <1>1, ElementOfSeq
<1> QED
    BY <1>1, <1>2 DEF QueueClassConfig

\* The first packet of a class that waits.
LEMMA HeadOK ==
    ASSUME NEW D, NEW t \in Nat, NEW q \in Queue(D, t), NEW k \in Waiting(q)
    PROVE  /\ k \in D /\ q.class[k] \in ClassState(t)
           /\ q.class[k].packets \in Seq(Packet)
           /\ q.class[k].packets # <<>> /\ Len(q.class[k].packets) > 0
           /\ 1 \in DOMAIN q.class[k].packets
           /\ Head(q.class[k].packets) = q.class[k].packets[1]
           /\ Head(q.class[k].packets) \in Packet
           /\ Head(q.class[k].packets).bytes \in Nat
           /\ Head(q.class[k].packets).finish \in Nat
<1>1. k \in D /\ q.class[k].packets # <<>>
    BY DEF Waiting, Queue
<1>2. q.class[k] \in ClassState(t)
    BY <1>1 DEF Queue
<1>3. q.class[k].packets \in Seq(Packet)
    BY <1>2 DEF ClassState
<1>4. /\ Len(q.class[k].packets) > 0 /\ 1 \in DOMAIN q.class[k].packets
      /\ Head(q.class[k].packets) = q.class[k].packets[1]
      /\ Head(q.class[k].packets) \in Packet
    BY <1>1, <1>3
<1> QED
    BY <1>1, <1>2, <1>3, <1>4 DEF Packet

\* A queue of time t is one of every later time.
LEMMA QueueLater ==
    ASSUME NEW D, NEW t \in Nat, NEW u \in Nat, t <= u, NEW q \in Queue(D, t)
    PROVE  q \in Queue(D, u)
<1>1. Bucket(t) \subseteq Bucket(u)
    BY DEF Bucket
<1>2. ClassState(t) \subseteq ClassState(u)
    BY <1>1 DEF ClassState
<1> QED
    BY <1>2 DEF Queue

\* The time at which the first packet of a class may leave.
LEMMA HeadReadyAtOK ==
    ASSUME NEW classes \in Seq(QueueClassConfig), NEW t \in Nat,
           NEW q \in Queue(DOMAIN classes, t), NEW k \in Waiting(q)
    PROVE  /\ HeadReadyAt(q, classes, k, t) \in Nat
           /\ HeadReadyAt(q, classes, k, t) >= t
           /\ \A u \in Nat : t <= u =>
                HeadReadyAt(q, classes, k, t) <= HeadReadyAt(q, classes, k, u)
<1> DEFINE bytes == Head(q.class[k].packets).bytes
<1>1. k \in DOMAIN classes /\ q.class[k] \in ClassState(t) /\ bytes \in Nat
    BY HeadOK
<1>2. classes[k].shape \in Limits
    BY <1>1, ConfigOK
<1>3. q.class[k].shape \in Bucket(t)
    BY <1>1 DEF ClassState
<1>4. \A u : HeadReadyAt(q, classes, k, u) = ReadyAt(q.class[k].shape, classes[k].shape, u, bytes)
    BY DEF HeadReadyAt
<1> HIDE DEF bytes
<1>5. ASSUME NEW u \in Nat, t <= u
      PROVE  HeadReadyAt(q, classes, k, t) <= HeadReadyAt(q, classes, k, u)
    BY <1>1, <1>2, <1>3, <1>4, <1>5, ReadyAtMonotone
<1> QED
    BY <1>1, <1>2, <1>3, <1>4, <1>5, ReadyAtOK

\* next_ready of the same queue never moves back.
LEMMA NextReadyOK ==
    ASSUME NEW classes \in Seq(QueueClassConfig), NEW t \in Nat,
           NEW q \in Queue(DOMAIN classes, t), Waiting(q) # {}
    PROVE  /\ NextReady(q, classes, t) \in Nat
           /\ \A u \in Nat : t <= u => NextReady(q, classes, t) <= NextReady(q, classes, u)
<1> DEFINE times(u) == {HeadReadyAt(q, classes, k, u) : k \in Waiting(q)}
<1>1. ASSUME NEW u \in Nat, t <= u
      PROVE  /\ NextReady(q, classes, u) \in Nat
             /\ NextReady(q, classes, u) \in times(u)
             /\ \A x \in times(u) : NextReady(q, classes, u) <= x
    <2>1. q \in Queue(DOMAIN classes, u)
        BY <1>1, QueueLater
    <2>2. times(u) \in SUBSET Nat /\ times(u) # {}
        BY <1>1, <2>1, HeadReadyAtOK
    <2>3. NextReady(q, classes, u) = Min(times(u))
        BY DEF NextReady
    <2> HIDE DEF times
    <2> QED
        BY <2>2, <2>3, MinNat
<1>2. ASSUME NEW u \in Nat, t <= u
      PROVE  NextReady(q, classes, t) <= NextReady(q, classes, u)
    <2>1. PICK k \in Waiting(q) : NextReady(q, classes, u) = HeadReadyAt(q, classes, k, u)
        BY <1>1, <1>2
    <2>2. NextReady(q, classes, t) <= HeadReadyAt(q, classes, k, t) /\ NextReady(q, classes, t) \in Nat
        BY <1>1
    <2>3. HeadReadyAt(q, classes, k, t) <= HeadReadyAt(q, classes, k, u) /\ HeadReadyAt(q, classes, k, t) \in Nat
        BY <1>2, HeadReadyAtOK
    <2>4. NextReady(q, classes, u) \in Nat
        BY <1>1, <1>2
    <2> QED
        BY <2>1, <2>2, <2>3, <2>4
<1> QED
    BY <1>1, <1>2

\* A scheduler in which one class and the virtual time are replaced.
LEMMA ClassReplaced ==
    ASSUME NEW D, NEW t \in Nat, NEW q \in Queue(D, t), NEW k \in D,
           NEW c \in ClassState(t), NEW v \in Nat,
           NEW p, p = [virtual_time |-> v, class |-> [q.class EXCEPT ![k] = c]]
    PROVE  /\ p \in Queue(D, t)
           /\ p.virtual_time = v /\ p.class[k] = c
           /\ \A j \in D \ {k} : p.class[j] = q.class[j]
<1>1. q.class \in [D -> ClassState(t)]
    BY DEF Queue
<1>2. [q.class EXCEPT ![k] = c] \in [D -> ClassState(t)]
    BY <1>1
<1> QED
    BY <1>1, <1>2 DEF Queue

\* A queue whose classes are replaced.
LEMMA QueueRecord ==
    ASSUME NEW D, NEW t, NEW q \in Queue(D, t), NEW f
    PROVE  [q EXCEPT !.class = f] = [virtual_time |-> q.virtual_time, class |-> f]
BY DEF Queue

Served(q, k, a, b, n) ==
    [q EXCEPT !.class[k].packets = a, !.class[k].shape = b, !.class[k].transmitted_bytes = n]

ServedClass(c, a, b, n) == [c EXCEPT !.packets = a, !.shape = b, !.transmitted_bytes = n]

LEMMA ServedRecord ==
    ASSUME NEW D, NEW t, NEW q \in Queue(D, t), NEW k \in D, NEW a, NEW b, NEW n
    PROVE  Served(q, k, a, b, n)
             = [virtual_time |-> q.virtual_time,
                class |-> [q.class EXCEPT ![k] = ServedClass(q.class[k], a, b, n)]]
<1>1. Served(q, k, a, b, n)
        = [q EXCEPT !.class = [q.class EXCEPT ![k] = ServedClass(q.class[k], a, b, n)]]
    BY DEF Queue, ClassState, Served, ServedClass
<1> QED
    BY <1>1, QueueRecord

\* p and q have the same packets, tags and shapers.
SameService(p, q, classes) ==
    /\ p.virtual_time = q.virtual_time
    /\ \A j \in DOMAIN classes :
         /\ p.class[j].packets = q.class[j].packets
         /\ p.class[j].last_finish = q.class[j].last_finish
         /\ p.class[j].transmitted_bytes = q.class[j].transmitted_bytes
         /\ p.class[j].shape = q.class[j].shape

\* A scheduler that keeps its packets, tags and shapers keeps its invariant.
LEMMA ClassKept ==
    ASSUME NEW classes, NEW t \in Nat, NEW lg, NEW q, NEW p,
           SchedulerOK(q, classes, t, lg),
           p \in Queue(DOMAIN classes, t),
           SameService(p, q, classes)
    PROVE  /\ SchedulerOK(p, classes, t, lg)
           /\ Waiting(p) = Waiting(q)
           /\ \A u : NextReady(p, classes, u) = NextReady(q, classes, u)
<1>1. Ordered(p, classes)
    BY DEF SchedulerOK, Ordered, TagsGrow, NotPassed, SameService
<1>2. Conforming(p, classes, lg)
    BY DEF SchedulerOK, Conforming, Covered, SameService
<1>3. DOMAIN p.class = DOMAIN classes /\ DOMAIN q.class = DOMAIN classes
    BY DEF SchedulerOK, Queue
<1>4. Waiting(p) = Waiting(q)
    BY <1>3 DEF Waiting, SameService
<1>5. ASSUME NEW u PROVE NextReady(p, classes, u) = NextReady(q, classes, u)
    <2>1. \A k \in Waiting(q) : HeadReadyAt(p, classes, k, u) = HeadReadyAt(q, classes, k, u)
        BY <1>3 DEF HeadReadyAt, Waiting, SameService
    <2>2. {HeadReadyAt(p, classes, k, u) : k \in Waiting(p)} = {HeadReadyAt(q, classes, k, u) : k \in Waiting(q)}
        BY <1>4, <2>1
    <2> QED
        BY <2>2 DEF NextReady
<1> QED
    BY <1>1, <1>2, <1>4, <1>5 DEF SchedulerOK

\* A new scheduler is empty and keeps what has to be kept.
LEMMA NewSchedulerOK ==
    ASSUME NEW classes \in Seq(QueueClassConfig), NEW t \in Nat
    PROVE  /\ SchedulerOK(NewScheduler(classes, t), classes, t, <<>>)
           /\ Waiting(NewScheduler(classes, t)) = {}
<1> DEFINE q == NewScheduler(classes, t)
<1>1. ASSUME NEW limit \in Limits PROVE NewBucket(limit, t) \in Bucket(t)
    BY LimitType DEF NewBucket, Bucket
<1>2. \A k \in DOMAIN classes :
        q.class[k] = [priority |-> NewBucket(classes[k].priority, t),
                      police |-> NewBucket(classes[k].police, t),
                      shape |-> NewBucket(classes[k].shape, t),
                      packets |-> <<>>, last_finish |-> 0, transmitted_bytes |-> 0]
    BY DEF NewScheduler
<1>3. q.virtual_time = 0 /\ q.class = [k \in DOMAIN classes |-> q.class[k]]
      /\ q = [virtual_time |-> 0, class |-> q.class]
    BY DEF NewScheduler
<1> HIDE DEF q
<1>4. ASSUME NEW k \in DOMAIN classes
      PROVE  q.class[k] \in ClassState(t) /\ q.class[k].packets = <<>>
    <2> DEFINE x == NewBucket(classes[k].priority, t)
               y == NewBucket(classes[k].police, t)
               z == NewBucket(classes[k].shape, t)
    <2>1. x \in Bucket(t) /\ y \in Bucket(t) /\ z \in Bucket(t)
        BY <1>1, ConfigOK
    <2>2. q.class[k] = [priority |-> x, police |-> y, shape |-> z,
                        packets |-> <<>>, last_finish |-> 0, transmitted_bytes |-> 0]
        BY <1>2
    <2>3. <<>> \in Seq(Packet)
        OBVIOUS
    <2> HIDE DEF x, y, z
    <2> QED
        BY <2>1, <2>2, <2>3 DEF ClassState
<1>5. \A k \in DOMAIN classes : q.class[k] \in ClassState(t) /\ q.class[k].packets = <<>>
    BY <1>4
<1>7. q \in Queue(DOMAIN classes, t)
    <2>1. q.class \in [DOMAIN classes -> ClassState(t)]
        BY <1>3, <1>5
    <2> QED
        BY <1>3, <2>1 DEF Queue
<1>8. Ordered(q, classes)
    BY <1>5 DEF Ordered, TagsGrow, NotPassed
<1>9. Conforming(q, classes, <<>>)
    BY DEF Conforming
<1>10. Waiting(q) = {}
    BY <1>3, <1>5 DEF Waiting
<1> QED
    BY <1>7, <1>8, <1>9, <1>10 DEF SchedulerOK, q

\* A class whose tags start over keeps its packets, its shaper and its count.
LEMMA RestartedClass ==
    ASSUME NEW t \in Nat, NEW c \in ClassState(t)
    PROVE  /\ [c EXCEPT !.last_finish = 0] \in ClassState(t)
           /\ [c EXCEPT !.last_finish = 0].packets = c.packets
           /\ [c EXCEPT !.last_finish = 0].shape = c.shape
           /\ [c EXCEPT !.last_finish = 0].transmitted_bytes = c.transmitted_bytes
BY DEF ClassState

\* Starting the tags over in an empty scheduler loses nothing.
LEMMA RestartedOK ==
    ASSUME NEW classes \in Seq(QueueClassConfig), NEW t \in Nat, NEW lg, NEW q,
           SchedulerOK(q, classes, t, lg)
    PROVE  /\ SchedulerOK(Restarted(q), classes, t, lg)
           /\ Waiting(Restarted(q)) = Waiting(q)
           /\ Waiting(q) # {} => Restarted(q) = q
<1>1. CASE Waiting(q) # {}
    BY <1>1 DEF Restarted
<1>2. CASE Waiting(q) = {}
    <2> DEFINE p == Restarted(q)
    <2>1. q.class \in [DOMAIN classes -> ClassState(t)] /\ DOMAIN q.class = DOMAIN classes
        BY DEF SchedulerOK, Queue
    <2>2. /\ p = [virtual_time |-> 0, class |-> p.class]
          /\ p.class = [k \in DOMAIN classes |-> p.class[k]]
          /\ \A k \in DOMAIN classes : p.class[k] = [q.class[k] EXCEPT !.last_finish = 0]
        BY <1>2, <2>1 DEF Restarted
    <2> HIDE DEF p
    <2>3. \A k \in DOMAIN classes :
            /\ p.class[k] \in ClassState(t)
            /\ p.class[k].packets = q.class[k].packets
            /\ p.class[k].shape = q.class[k].shape
            /\ p.class[k].transmitted_bytes = q.class[k].transmitted_bytes
        <3> TAKE k \in DOMAIN classes
        <3>1. q.class[k] \in ClassState(t) /\ p.class[k] = [q.class[k] EXCEPT !.last_finish = 0]
            BY <2>1, <2>2
        <3> QED
            BY <3>1, RestartedClass
    <2>4. \A k \in DOMAIN classes : q.class[k].packets = <<>>
        BY <1>2, <2>1 DEF Waiting
    <2>5. p \in Queue(DOMAIN classes, t)
        <3>1. p.class \in [DOMAIN classes -> ClassState(t)]
            BY <2>2, <2>3
        <3> QED
            BY <2>2, <3>1 DEF Queue
    <2>6. Ordered(p, classes)
        BY <2>3, <2>4 DEF Ordered, TagsGrow, NotPassed
    <2>7. Conforming(p, classes, lg)
        BY <2>3 DEF SchedulerOK, Conforming, Covered
    <2>8. DOMAIN p.class = DOMAIN classes
        BY <2>2
    <2>9. Waiting(p) = {}
        BY <2>3, <2>4, <2>8 DEF Waiting
    <2> QED
        BY <1>2, <2>5, <2>6, <2>7, <2>9 DEF SchedulerOK, p
<1> QED
    BY <1>1, <1>2

\* The policer and the priority bucket touch nothing else.
LEMMA ConditionedOK ==
    ASSUME NEW classes \in Seq(QueueClassConfig), NEW t \in Nat, NEW lg, NEW q,
           NEW k \in DOMAIN classes, NEW bytes \in Nat,
           SchedulerOK(q, classes, t, lg)
    PROVE  /\ SchedulerOK(Conditioned(q, classes, k, t, bytes), classes, t, lg)
           /\ Waiting(Conditioned(q, classes, k, t, bytes)) = Waiting(q)
           /\ \A u : NextReady(Conditioned(q, classes, k, t, bytes), classes, u) = NextReady(q, classes, u)
<1> DEFINE p == Conditioned(q, classes, k, t, bytes)
           c == q.class[k]
           police == Taken(c.police, classes[k].police, t, bytes)
           priority == IF Available(c.police, classes[k].police, t, bytes)
                       THEN Taken(c.priority, classes[k].priority, t, bytes) ELSE c.priority
           d == [c EXCEPT !.police = police, !.priority = priority]
<1>1. q \in Queue(DOMAIN classes, t) /\ c \in ClassState(t)
    BY DEF SchedulerOK, Queue
<1>2. c.police \in Bucket(t) /\ c.priority \in Bucket(t)
    BY <1>1 DEF ClassState
<1>3. police \in Bucket(t) /\ priority \in Bucket(t)
    BY <1>2, ConfigOK, TakenOK
<1>4. p = [virtual_time |-> q.virtual_time, class |-> [q.class EXCEPT ![k] = d]]
    <2>1. p = [q EXCEPT !.class[k].police = police, !.class[k].priority = priority]
        BY <1>1 DEF Conditioned, Queue, ClassState
    <2> HIDE DEF p, police, priority
    <2>2. [q EXCEPT !.class[k].police = police, !.class[k].priority = priority]
            = [q EXCEPT !.class = [q.class EXCEPT ![k] = d]]
        BY <1>1 DEF Queue, ClassState
    <2>3. [q EXCEPT !.class = [q.class EXCEPT ![k] = d]]
            = [virtual_time |-> q.virtual_time, class |-> [q.class EXCEPT ![k] = d]]
        <3> HIDE DEF c, d
        <3> QED
            BY <1>1, QueueRecord
    <2> QED
        BY <2>1, <2>2, <2>3
<1> HIDE DEF p, police, priority
<1>5. /\ d \in ClassState(t) /\ d.packets = c.packets /\ d.last_finish = c.last_finish
      /\ d.transmitted_bytes = c.transmitted_bytes /\ d.shape = c.shape
    BY <1>1, <1>3 DEF ClassState
<1>6. q.virtual_time \in Nat
    BY <1>1 DEF Queue
<1> HIDE DEF d
<1>7. /\ p \in Queue(DOMAIN classes, t)
      /\ p.virtual_time = q.virtual_time /\ p.class[k] = d
      /\ \A j \in DOMAIN classes \ {k} : p.class[j] = q.class[j]
    BY <1>1, <1>4, <1>5, <1>6, ClassReplaced
<1>8. SameService(p, q, classes)
    BY <1>5, <1>7 DEF SameService
<1>9. /\ SchedulerOK(p, classes, t, lg)
      /\ Waiting(p) = Waiting(q)
      /\ \A u : NextReady(p, classes, u) = NextReady(q, classes, u)
    <2>1. p \in Queue(DOMAIN classes, t)
        BY <1>7
    <2> HIDE DEF c
    <2> QED
        BY <1>8, <2>1, ClassKept
<1> QED
    BY <1>9 DEF p

\* A packet at the end of a queue.
LEMMA PacketAppended ==
    ASSUME NEW s \in Seq(Packet), NEW x \in Packet
    PROVE  \E n \in Nat :
               /\ Append(s, x) \in Seq(Packet)
               /\ DOMAIN s = 1 .. n /\ DOMAIN Append(s, x) = 1 .. n + 1
               /\ Append(s, x)[n + 1] = x
               /\ \A i \in 1 .. n : Append(s, x)[i] = s[i] /\ s[i].finish \in Nat
               /\ \A i \in 1 .. n + 1 : i \in 1 .. n \/ i = n + 1
<1>1. /\ Append(s, x) \in Seq(Packet) /\ Len(Append(s, x)) = Len(s) + 1
      /\ Append(s, x)[Len(s) + 1] = x
      /\ \A i \in 1 .. Len(s) : Append(s, x)[i] = s[i]
    BY AppendProperties
<1>2. /\ Len(s) \in Nat /\ DOMAIN s = 1 .. Len(s)
      /\ DOMAIN Append(s, x) = 1 .. Len(Append(s, x))
    BY <1>1, LenProperties
<1>3. \A i \in 1 .. Len(s) : s[i].finish \in Nat
    <2> TAKE i \in 1 .. Len(s)
    <2>1. s[i] \in Packet
        BY ElementOfSeq
    <2> QED
        BY <2>1 DEF Packet
<1>4. \A i \in 1 .. Len(s) + 1 : i \in 1 .. Len(s) \/ i = Len(s) + 1
    BY <1>2
<1> QED
    BY <1>1, <1>2, <1>3, <1>4

\* A new tag is later than the tags of its class and not before the virtual
\* time.
LEMMA EnqueuedOK ==
    ASSUME NEW classes \in Seq(QueueClassConfig), NEW t \in Nat, NEW lg, NEW q,
           NEW k \in DOMAIN classes, NEW bytes \in Nat,
           SchedulerOK(q, classes, t, lg)
    PROVE  SchedulerOK(Enqueued(q, classes, k, bytes), classes, t, lg)
<1> DEFINE p == Enqueued(q, classes, k, bytes)
           c == q.class[k]
           finish == FinishTag(q, classes[k].weight, k, bytes)
           packet == [bytes |-> bytes, finish |-> finish]
           longer == Append(c.packets, packet)
           d == [c EXCEPT !.last_finish = finish, !.packets = longer]
<1>1. q \in Queue(DOMAIN classes, t) /\ c \in ClassState(t) /\ q.virtual_time \in Nat
    BY DEF SchedulerOK, Queue
<1>2. c.last_finish \in Nat /\ c.packets \in Seq(Packet)
    BY <1>1 DEF ClassState
<1>3. finish \in Nat /\ finish >= c.last_finish /\ finish >= q.virtual_time
    <2> DEFINE service == CeilDiv(bytes * TagScale, classes[k].weight)
    <2>1. bytes * TagScale \in Nat
        BY ScaleAssumption
    <2>2. service \in Nat
        BY <2>1, ConfigOK, CeilDivLeast
    <2>3. finish = Max({c.last_finish, q.virtual_time}) + service
        BY DEF FinishTag
    <2> HIDE DEF service, finish, c
    <2>4. Max({c.last_finish, q.virtual_time})
            = IF c.last_finish >= q.virtual_time THEN c.last_finish ELSE q.virtual_time
        <3>1. c.last_finish \in Int /\ q.virtual_time \in Int
            BY <1>1, <1>2
        <3> QED
            BY <3>1, MinMaxOfTwo
    <2> QED
        BY <1>1, <1>2, <2>2, <2>3, <2>4
<1>4. p = [virtual_time |-> q.virtual_time, class |-> [q.class EXCEPT ![k] = d]]
    <2>1. p = [q EXCEPT !.class[k].last_finish = finish, !.class[k].packets = longer]
        BY <1>1 DEF Enqueued, Queue, ClassState
    <2> HIDE DEF p, finish, longer
    <2>2. [q EXCEPT !.class[k].last_finish = finish, !.class[k].packets = longer]
            = [q EXCEPT !.class = [q.class EXCEPT ![k] = d]]
        BY <1>1 DEF Queue, ClassState
    <2>3. [q EXCEPT !.class = [q.class EXCEPT ![k] = d]]
            = [virtual_time |-> q.virtual_time, class |-> [q.class EXCEPT ![k] = d]]
        <3> HIDE DEF c, d
        <3> QED
            BY <1>1, QueueRecord
    <2> QED
        BY <2>1, <2>2, <2>3
<1> HIDE DEF p, finish
<1>5. packet \in Packet /\ packet.finish = finish
    BY <1>3 DEF Packet
<1> HIDE DEF packet
<1> HIDE DEF c
<1>6. PICK n \in Nat :
               /\ longer \in Seq(Packet)
               /\ DOMAIN c.packets = 1 .. n /\ DOMAIN longer = 1 .. n + 1
               /\ longer[n + 1] = packet
               /\ \A i \in 1 .. n : longer[i] = c.packets[i] /\ c.packets[i].finish \in Nat
               /\ \A i \in 1 .. n + 1 : i \in 1 .. n \/ i = n + 1
    BY <1>2, <1>5, PacketAppended
<1> HIDE DEF longer
<1>7. /\ d \in ClassState(t) /\ d.packets = longer /\ d.last_finish = finish
      /\ d.transmitted_bytes = c.transmitted_bytes /\ d.shape = c.shape
    BY <1>1, <1>3, <1>6 DEF ClassState
<1> HIDE DEF d
<1>8. /\ p \in Queue(DOMAIN classes, t)
      /\ p.virtual_time = q.virtual_time /\ p.class[k] = d
      /\ \A j \in DOMAIN classes \ {k} : p.class[j] = q.class[j]
    <2>1. q \in Queue(DOMAIN classes, t) /\ q.virtual_time \in Nat /\ d \in ClassState(t)
        BY <1>1, <1>7
    <2>2. q.class \in [DOMAIN classes -> ClassState(t)]
        BY <2>1 DEF Queue
    <2>3. p.virtual_time = q.virtual_time /\ p.class = [q.class EXCEPT ![k] = d]
        BY <1>4
    <2>4. p.class \in [DOMAIN classes -> ClassState(t)]
        BY <2>1, <2>2, <2>3
    <2>5. p \in Queue(DOMAIN classes, t)
        BY <1>4, <2>1, <2>3, <2>4 DEF Queue
    <2> QED
        BY <2>2, <2>3, <2>5
<1>9. Conforming(p, classes, lg)
    BY <1>7, <1>8 DEF SchedulerOK, Conforming, Covered, c
<1>10. TagsGrow(d)
    <2>1. TagsGrow(c)
        BY DEF SchedulerOK, Ordered, c
    <2>2. \A i \in 1 .. n : longer[i].finish \in Nat /\ longer[i].finish <= finish
        <3> TAKE i \in 1 .. n
        <3>1. c.packets[i].finish <= c.last_finish /\ c.packets[i].finish \in Nat
            BY <1>6, <2>1 DEF TagsGrow
        <3> QED
            BY <1>2, <1>3, <1>6, <3>1
    <2>3. \A i, j \in 1 .. n : i <= j => longer[i].finish <= longer[j].finish
        BY <1>6, <2>1 DEF TagsGrow
    <2>4. longer[n + 1].finish = finish
        BY <1>5, <1>6
    <2>5. \A i, j \in 1 .. n + 1 : i <= j => longer[i].finish <= longer[j].finish
        <3> TAKE i, j \in 1 .. n + 1
        <3> HAVE i <= j
        <3>1. CASE j = n + 1
            BY <1>3, <1>6, <2>2, <2>4, <3>1
        <3>2. CASE j \in 1 .. n
            <4>1. i \in 1 .. n
                BY <3>2
            <4> QED
                BY <2>3, <3>2, <4>1
        <3> QED
            BY <1>6, <3>1, <3>2
    <2>6. \A i \in 1 .. n + 1 : longer[i].finish <= finish
        BY <1>3, <1>6, <2>2, <2>4
    <2> QED
        BY <1>6, <1>7, <2>5, <2>6 DEF TagsGrow
<1>11. classes[k].shape = NoLimit /\ classes[k].priority = NoLimit => NotPassed(p, k)
    <2> SUFFICES ASSUME classes[k].shape = NoLimit, classes[k].priority = NoLimit
                 PROVE  NotPassed(p, k)
        OBVIOUS
    <2>1. \A i \in 1 .. n : c.packets[i].finish >= q.virtual_time
        BY <1>6 DEF SchedulerOK, Ordered, NotPassed, c
    <2>2. \A i \in 1 .. n + 1 : longer[i].finish >= q.virtual_time
        <3> TAKE i \in 1 .. n + 1
        <3>1. CASE i \in 1 .. n
            BY <1>6, <2>1, <3>1
        <3>2. CASE i = n + 1
            BY <1>3, <1>5, <1>6, <3>2
        <3> QED
            BY <1>6, <3>1, <3>2
    <2> QED
        BY <1>6, <1>7, <1>8, <2>2 DEF NotPassed
<1>12. Ordered(p, classes)
    <2>1. ASSUME NEW j \in DOMAIN classes \ {k}
          PROVE  /\ TagsGrow(p.class[j])
                 /\ classes[j].shape = NoLimit /\ classes[j].priority = NoLimit => NotPassed(p, j)
        BY <1>8, <2>1 DEF SchedulerOK, Ordered, NotPassed
    <2>2. TagsGrow(p.class[k])
        BY <1>8, <1>10
    <2> QED
        BY <1>11, <2>1, <2>2 DEF Ordered
<1> QED
    BY <1>8, <1>9, <1>12 DEF SchedulerOK, p

\* dequeue_ready serves a class whose bucket has the bytes, and of the classes
\* without priority one with the earliest tag.
LEMMA SelectedOK ==
    ASSUME NEW classes \in Seq(QueueClassConfig), NEW t \in Nat,
           NEW q \in Queue(DOMAIN classes, t), Eligible(q, classes, t) # {}
    PROVE  /\ Selected(q, classes, t) \in Eligible(q, classes, t)
           /\ classes[Selected(q, classes, t)].priority = NoLimit =>
                \A j \in Eligible(q, classes, t) :
                    Head(q.class[Selected(q, classes, t)].packets).finish <= Head(q.class[j].packets).finish
<1> DEFINE e == Eligible(q, classes, t)
           urgent == {k \in e : classes[k].priority # NoLimit}
           tag(k) == Head(q.class[k].packets).finish
           first == {k \in e : \A j \in e : tag(k) <= tag(j)}
<1>1. Selected(q, classes, t) = IF urgent # {} THEN Min(urgent) ELSE Min(first)
    BY DEF Selected
<1>2. \A k \in e : k \in Nat /\ tag(k) \in Nat
    <2> TAKE k \in e
    <2>1. k \in Waiting(q)
        BY DEF Eligible
    <2> QED
        BY <2>1, HeadOK, ConfigOK
<1> HIDE DEF e, tag
<1>3. CASE urgent # {}
    <2>1. urgent \in SUBSET Nat
        BY <1>2
    <2>2. Min(urgent) \in urgent
        BY <1>3, <2>1, MinNat
    <2> QED
        BY <1>1, <1>3, <2>2 DEF e
<1>4. CASE urgent = {}
    <2> DEFINE tags == {tag(k) : k \in e}
    <2>1. tags \in SUBSET Nat /\ tags # {}
        BY <1>2 DEF e
    <2> HIDE DEF tags
    <2>2. Min(tags) \in tags /\ \A y \in tags : Min(tags) <= y
        BY <2>1, MinNat
    <2>3. PICK k \in e : tag(k) = Min(tags)
        BY <2>2 DEF tags
    <2>4. k \in first
        BY <2>2, <2>3 DEF tags
    <2>5. first \in SUBSET Nat
        BY <1>2
    <2> HIDE DEF first
    <2>6. Min(first) \in first
        BY <2>4, <2>5, MinNat
    <2>7. Selected(q, classes, t) \in first
        BY <1>1, <1>4, <2>6
    <2> QED
        BY <2>7 DEF first, e, tag
<1> QED
    BY <1>3, <1>4

\* The queue without its first packet.
LEMMA PacketRemoved ==
    ASSUME NEW s \in Seq(Packet), s # <<>>
    PROVE  \E n \in Nat :
               /\ Tail(s) \in Seq(Packet)
               /\ DOMAIN s = 1 .. n + 1 /\ DOMAIN Tail(s) = 1 .. n
               /\ \A i \in 1 .. n : Tail(s)[i] = s[i + 1]
               /\ \A i \in 1 .. n + 1 : s[i].finish \in Nat
<1>1. PICK n \in Nat : Len(s) = n + 1
    <2>1. Len(s) \in Nat /\ Len(s) # 0
        BY EmptySeq
    <2> QED
        BY <2>1
<1>2. Tail(s) \in Seq(Packet) /\ Len(Tail(s)) = n /\ DOMAIN s = 1 .. n + 1 /\ DOMAIN Tail(s) = 1 .. n
    BY <1>1
<1>3. \A i \in 1 .. n : Tail(s)[i] = s[i + 1]
    BY <1>1, <1>2
<1>4. \A i \in 1 .. n + 1 : s[i].finish \in Nat
    <2> TAKE i \in 1 .. n + 1
    <2>1. s[i] \in Packet
        BY <1>1, ElementOfSeq
    <2> QED
        BY <2>1 DEF Packet
<1> QED
    BY <1>2, <1>3, <1>4

\* What a bucket covers it still covers after a refill and a departure.
LEMMA CoverKept ==
    ASSUME NEW a \in Int, NEW x \in Nat, NEW credit \in Nat, NEW more \in Nat, NEW most \in Nat,
           NEW s \in Int, NEW u \in Int, NEW t \in Int, NEW rate \in Nat,
           a * ByteCredits + credit <= most + (u - s) * rate,
           more <= credit + (t - u) * rate
    PROVE  (a + x) * ByteCredits + (more - x * ByteCredits) <= most + (t - s) * rate
<1>1. ByteCredits \in Nat
    BY ScaleAssumption
<1>2. (a + x) * ByteCredits = a * ByteCredits + x * ByteCredits
    BY <1>1
<1>3. (t - s) * rate = (t - u) * rate + (u - s) * rate
    OBVIOUS
<1>4. /\ a * ByteCredits \in Int /\ x * ByteCredits \in Int
      /\ (t - u) * rate \in Int /\ (u - s) * rate \in Int
    BY <1>1
<1> QED
    BY <1>2, <1>3, <1>4

\* A shaper that was ready has paid for the bytes, and covers the departures
\* so far and the new one.
LEMMA PaidCovers ==
    ASSUME NEW t \in Nat, NEW c \in ClassState(t), NEW limit \in Limits, limit # NoLimit,
           NEW bytes \in Nat, ReadyAt(c.shape, limit, t, bytes) <= t,
           NEW d, d.transmitted_bytes = c.transmitted_bytes + bytes,
           d.shape = Taken(c.shape, limit, t, bytes),
           NEW y \in Departure,
           \/ Covered(c, limit, y)
           \/ y.total = c.transmitted_bytes + bytes /\ y.bytes = bytes /\ y.time = t
    PROVE  Covered(d, limit, y) /\ d.shape.credit \in Nat /\ d.shape.updated = t
<1> DEFINE b == Refilled(c.shape, limit, t)
           most == limit.burst * ByteCredits
           rate == limit.rate
<1>1. /\ c.shape \in Bucket(t) /\ c.transmitted_bytes \in Nat
      /\ c.shape.credit \in Nat /\ c.shape.updated \in Int
    BY DEF ClassState, Bucket
<1>2. /\ b.credit \in Nat /\ b.credit <= most
      /\ b.credit <= c.shape.credit + (t - c.shape.updated) * rate
    BY <1>1, RefilledOK DEF Bucket
<1>3. rate \in Nat /\ most \in Nat
    BY LimitType
<1>4. Available(c.shape, limit, t, bytes)
    BY <1>1, ReadyAtOK
<1>5. d.shape.updated = t /\ d.shape.credit = b.credit - bytes * ByteCredits /\ d.shape.credit \in Nat
    <2>1. /\ Taken(c.shape, limit, t, bytes) \in Bucket(t)
          /\ Taken(c.shape, limit, t, bytes).updated = t
          /\ Taken(c.shape, limit, t, bytes).credit = b.credit - bytes * ByteCredits
        BY <1>1, <1>4, TakenOK
    <2> HIDE DEF b
    <2> QED
        BY <2>1 DEF Bucket
<1>6. bytes * ByteCredits \in Nat
    BY ScaleAssumption
<1>7. y.total \in Nat /\ y.bytes \in Nat /\ y.time \in Nat
    BY DEF Departure
<1>8. ASSUME (d.transmitted_bytes - y.total + y.bytes) * ByteCredits + d.shape.credit
                <= most + (d.shape.updated - y.time) * rate
      PROVE  Covered(d, limit, y)
    BY <1>8 DEF Covered
<1> HIDE DEF b
<1>9. CASE Covered(c, limit, y)
    <2> DEFINE a == c.transmitted_bytes - y.total + y.bytes
    <2>1. a \in Int /\ d.transmitted_bytes - y.total + y.bytes = a + bytes
        BY <1>1, <1>7
    <2>2. a * ByteCredits + c.shape.credit <= most + (c.shape.updated - y.time) * rate
        BY <1>9 DEF Covered
    <2>3. t \in Int /\ y.time \in Int
        BY <1>7
    <2> HIDE DEF a, most, rate
    <2>4. (a + bytes) * ByteCredits + (b.credit - bytes * ByteCredits) <= most + (t - y.time) * rate
        <3>1. PICK credit \in Nat, u \in Int, more \in Nat, since \in Int :
                credit = c.shape.credit /\ u = c.shape.updated /\ more = b.credit /\ since = y.time
            BY <1>1, <1>2, <2>3
        <3>2. /\ a * ByteCredits + credit <= most + (u - since) * rate
              /\ more <= credit + (t - u) * rate
            BY <1>2, <2>2, <3>1 DEF rate
        <3>3. (a + bytes) * ByteCredits + (more - bytes * ByteCredits) <= most + (t - since) * rate
            BY <1>3, <2>1, <2>3, <3>2, CoverKept
        <3> QED
            BY <3>1, <3>3
    <2>5. (d.transmitted_bytes - y.total + y.bytes) * ByteCredits + d.shape.credit
            <= most + (d.shape.updated - y.time) * rate
        BY <1>5, <2>1, <2>4
    <2> QED
        BY <1>5, <1>8, <2>5
<1>10. CASE y.total = c.transmitted_bytes + bytes /\ y.bytes = bytes /\ y.time = t
    <2> HIDE DEF most, rate
    <2>1. d.transmitted_bytes - y.total + y.bytes = bytes
        BY <1>1, <1>7, <1>10
    <2>2. (d.shape.updated - y.time) * rate = 0
        <3>1. d.shape.updated - y.time = 0
            BY <1>5, <1>10
        <3> QED
            BY <1>3, <3>1
    <2>3. bytes * ByteCredits + d.shape.credit <= most + 0
        BY <1>2, <1>3, <1>5, <1>6
    <2>4. (d.transmitted_bytes - y.total + y.bytes) * ByteCredits + d.shape.credit
            <= most + (d.shape.updated - y.time) * rate
        BY <2>1, <2>2, <2>3
    <2> QED
        BY <1>5, <1>8, <2>4
<1> QED
    BY <1>9, <1>10

\* The departures so far conform to the rates of their classes.
Conforms(classes, y, z) ==
    y.class = z.class /\ classes[y.class].shape # NoLimit =>
        (z.total - y.total + y.bytes) * ByteCredits
            <= classes[y.class].shape.burst * ByteCredits
               + (z.time - y.time) * classes[y.class].shape.rate

LogOK(classes, lg) ==
    \A i, j \in DOMAIN lg : i <= j => Conforms(classes, lg[i], lg[j])

\* The record of a departure, and a sum of its numbers.
LEMMA DepartureType ==
    ASSUME NEW t \in Nat, NEW k \in Nat, NEW bytes \in Nat, NEW total \in Nat
    PROVE  [time |-> t, class |-> k, bytes |-> bytes, total |-> total] \in Departure
BY DEF Departure

LEMMA SumType ==
    ASSUME NEW a \in Int, NEW b \in Int, NEW c \in Int
    PROVE  a - b + c \in Int /\ a - b \in Int
OBVIOUS

LEMMA ProductType ==
    ASSUME NEW a \in Int, NEW b \in Int
    PROVE  a * b \in Int
OBVIOUS

\* The larger of two numbers is one of them.
LEMMA MaxOfTwo ==
    ASSUME NEW a \in Nat, NEW b \in Nat
    PROVE  \E m \in Nat : m = Max({a, b}) /\ m >= a /\ (m = a \/ m = b)
<1>1. Max({a, b}) = IF a >= b THEN a ELSE b
    BY MinMaxOfTwo
<1> QED
    BY <1>1

\* A departure: the class with the earliest tag is served, the virtual time
\* passes nobody, and a shaper pays for the bytes.
LEMMA DequeuedOK ==
    ASSUME NEW classes \in Seq(QueueClassConfig), NEW t \in Nat, NEW lg \in Seq(Departure), NEW q,
           SchedulerOK(q, classes, t, lg), LogOK(classes, lg),
           Eligible(q, classes, t) # {},
           NEW k, k = Selected(q, classes, t),
           NEW p, p = Dequeued(q, classes, k, t),
           NEW x, x = [time |-> t, class |-> k, bytes |-> Head(q.class[k].packets).bytes,
                       total |-> p.class[k].transmitted_bytes]
    PROVE  /\ Append(lg, x) \in Seq(Departure)
           /\ SchedulerOK(p, classes, t, Append(lg, x))
           /\ LogOK(classes, Append(lg, x))
<1>1. q \in Queue(DOMAIN classes, t)
    BY DEF SchedulerOK
<1>2. /\ k \in Eligible(q, classes, t)
      /\ classes[k].priority = NoLimit =>
            \A j \in Eligible(q, classes, t) :
                Head(q.class[k].packets).finish <= Head(q.class[j].packets).finish
    BY <1>1, SelectedOK
<1>3. k \in Waiting(q) /\ HeadReadyAt(q, classes, k, t) <= t
    BY <1>2 DEF Eligible
<1> DEFINE packet == Head(q.class[k].packets)
<1>4. /\ k \in DOMAIN classes /\ q.class[k] \in ClassState(t)
      /\ q.class[k].packets \in Seq(Packet) /\ q.class[k].packets # <<>>
      /\ packet = q.class[k].packets[1] /\ packet.bytes \in Nat /\ packet.finish \in Nat
    BY <1>1, <1>3, HeadOK
<1>5. k \in Nat /\ classes[k].shape \in Limits
    BY <1>4, ConfigOK
<1>6. PICK c \in ClassState(t) : c = q.class[k]
    BY <1>4
<1>7. /\ c.packets \in Seq(Packet) /\ c.packets # <<>> /\ c.shape \in Bucket(t)
      /\ c.transmitted_bytes \in Nat /\ q.virtual_time \in Nat
    BY <1>1, <1>4, <1>6 DEF ClassState, Queue
<1>8. PICK bytes \in Nat : bytes = packet.bytes
    BY <1>4
<1>9. PICK shape \in Bucket(t) : shape = Taken(c.shape, classes[k].shape, t, bytes)
    BY <1>5, <1>7, TakenOK
<1>10. PICK v \in Nat :
        /\ v = IF classes[k].priority # NoLimit THEN q.virtual_time
               ELSE Max({q.virtual_time, packet.finish})
        /\ v >= q.virtual_time
        /\ v = q.virtual_time \/ (classes[k].priority = NoLimit /\ v = packet.finish)
    <2> HIDE DEF packet
    <2>1. PICK u \in Nat, f \in Nat : u = q.virtual_time /\ f = packet.finish
        BY <1>4, <1>7
    <2>2. PICK m \in Nat : m = Max({u, f}) /\ m >= u /\ (m = u \/ m = f)
        BY MaxOfTwo
    <2>3. CASE classes[k].priority # NoLimit
        BY <2>1, <2>3
    <2>4. CASE classes[k].priority = NoLimit
        BY <2>1, <2>2, <2>4
    <2> QED
        BY <2>3, <2>4
<1> DEFINE rest == Tail(c.packets)
           d == ServedClass(c, rest, shape, c.transmitted_bytes + bytes)
<1>11. p = [virtual_time |-> v, class |-> [q.class EXCEPT ![k] = d]]
    <2> DEFINE sent == c.transmitted_bytes + bytes
               r == Served(q, k, rest, shape, sent)
    <2>1. p = [r EXCEPT !.virtual_time = v]
        BY <1>1, <1>4, <1>6, <1>8, <1>9, <1>10 DEF Dequeued, Queue, ClassState, Served
    <2> HIDE DEF rest, sent
    <2> HIDE DEF r, d
    <2>2. r = [virtual_time |-> q.virtual_time,
               class |-> [q.class EXCEPT ![k] = ServedClass(q.class[k], rest, shape, sent)]]
        BY <1>1, <1>4, ServedRecord DEF r
    <2>3. ServedClass(q.class[k], rest, shape, sent) = d
        BY <1>6 DEF d, sent
    <2> QED
        BY <2>1, <2>2, <2>3
<1>12. PICK n \in Nat :
               /\ rest \in Seq(Packet)
               /\ DOMAIN c.packets = 1 .. n + 1 /\ DOMAIN rest = 1 .. n
               /\ \A i \in 1 .. n : rest[i] = c.packets[i + 1]
               /\ \A i \in 1 .. n + 1 : c.packets[i].finish \in Nat
    BY <1>7, PacketRemoved
<1> HIDE DEF rest
<1>13. /\ d \in ClassState(t) /\ d.packets = rest /\ d.last_finish = c.last_finish
       /\ d.transmitted_bytes = c.transmitted_bytes + bytes /\ d.shape = shape
    <2>1. c.transmitted_bytes + bytes \in Nat
        BY <1>7
    <2> QED
        BY <1>12, <2>1 DEF ClassState, ServedClass
<1> HIDE DEF d
<1>14. /\ p \in Queue(DOMAIN classes, t)
       /\ p.virtual_time = v /\ p.class[k] = d
       /\ \A j \in DOMAIN classes \ {k} : p.class[j] = q.class[j]
    <2>1. q.class \in [DOMAIN classes -> ClassState(t)]
        BY <1>1 DEF Queue
    <2>2. p.virtual_time = v /\ p.class = [q.class EXCEPT ![k] = d]
        BY <1>11
    <2>3. p.class \in [DOMAIN classes -> ClassState(t)]
        BY <1>13, <2>1, <2>2
    <2>4. p \in Queue(DOMAIN classes, t)
        BY <1>11, <2>2, <2>3 DEF Queue
    <2> QED
        BY <1>4, <2>1, <2>2, <2>4
<1>15. packet.finish = c.packets[1].finish /\ packet.finish \in Nat
    BY <1>4, <1>6
<1>16. TagsGrow(c) /\ TagsGrow(d)
    <2>1. TagsGrow(c)
        BY <1>4, <1>6 DEF SchedulerOK, Ordered
    <2>2. \A i \in 1 .. n : i \in Nat /\ i + 1 \in 1 .. n + 1
        OBVIOUS
    <2>3. \A i, j \in 1 .. n : i <= j => rest[i].finish <= rest[j].finish
        <3> TAKE i, j \in 1 .. n
        <3> HAVE i <= j
        <3>1. i + 1 \in DOMAIN c.packets /\ j + 1 \in DOMAIN c.packets /\ i + 1 <= j + 1
            BY <1>12, <2>2
        <3>2. c.packets[i + 1].finish <= c.packets[j + 1].finish
            BY <2>1, <3>1 DEF TagsGrow
        <3> QED
            BY <1>12, <3>2
    <2>4. \A i \in 1 .. n : rest[i].finish <= c.last_finish
        BY <1>12, <2>1, <2>2 DEF TagsGrow
    <2> QED
        BY <1>12, <1>13, <2>1, <2>3, <2>4 DEF TagsGrow
<1>17. ASSUME NEW j \in DOMAIN classes, classes[j].shape = NoLimit, classes[j].priority = NoLimit
       PROVE  NotPassed(p, j)
    <2>1. NotPassed(q, j)
        BY <1>17 DEF SchedulerOK, Ordered
    <2>2. CASE j = k
        <3>1. ASSUME NEW i \in 1 .. n PROVE rest[i].finish >= v
            <4>1. 1 \in DOMAIN c.packets /\ i + 1 \in DOMAIN c.packets /\ 1 <= i + 1
                BY <1>12
            <4>2. c.packets[1].finish <= c.packets[i + 1].finish /\ c.packets[i + 1].finish >= q.virtual_time
                BY <1>6, <1>16, <2>1, <2>2, <4>1 DEF TagsGrow, NotPassed
            <4>3. c.packets[i + 1].finish \in Nat /\ rest[i] = c.packets[i + 1]
                BY <1>12, <3>1, <4>1
            <4> HIDE DEF packet
            <4> QED
                BY <1>7, <1>10, <1>15, <4>2, <4>3
        <3> QED
            BY <1>12, <1>13, <1>14, <2>2, <3>1 DEF NotPassed
    <2>3. CASE j # k
        <3>1. p.class[j] = q.class[j] /\ q.class[j] \in ClassState(t) /\ j \in DOMAIN q.class
            BY <1>1, <1>14, <2>3 DEF Queue
        <3>2. q.class[j].packets \in Seq(Packet)
            BY <3>1 DEF ClassState
        <3>3. ASSUME NEW i \in DOMAIN q.class[j].packets
              PROVE  q.class[j].packets[i].finish >= v
            <4>1. q.class[j].packets # <<>>
                BY <3>3
            <4>2. j \in Waiting(q)
                BY <3>1, <4>1 DEF Waiting
            <4>3. HeadReadyAt(q, classes, j, t) = t
                BY <1>17 DEF HeadReadyAt, ReadyAt, Available
            <4>4. j \in Eligible(q, classes, t)
                BY <4>2, <4>3 DEF Eligible
            <4>5. classes[k].priority = NoLimit => packet.finish <= Head(q.class[j].packets).finish
                BY <1>2, <4>4
            <4>6. /\ 1 \in DOMAIN q.class[j].packets /\ 1 <= i
                  /\ Head(q.class[j].packets) = q.class[j].packets[1]
                  /\ Head(q.class[j].packets).finish \in Nat
                BY <1>1, <3>2, <4>2, HeadOK
            <4>7. TagsGrow(q.class[j])
                BY DEF SchedulerOK, Ordered
            <4>8. /\ Head(q.class[j].packets).finish <= q.class[j].packets[i].finish
                  /\ q.class[j].packets[i].finish >= q.virtual_time
                BY <2>1, <4>6, <4>7 DEF TagsGrow, NotPassed
            <4>9. q.class[j].packets[i].finish \in Nat
                <5>1. q.class[j].packets[i] \in Packet
                    BY <3>2, <3>3
                <5> QED
                    BY <5>1 DEF Packet
            <4> HIDE DEF packet
            <4>10. CASE v = q.virtual_time
                BY <4>8, <4>10
            <4>11. CASE classes[k].priority = NoLimit /\ v = packet.finish
                <5>1. PICK head \in Nat, tag \in Nat :
                        head = Head(q.class[j].packets).finish /\ tag = q.class[j].packets[i].finish
                    BY <4>6, <4>9
                <5>2. v <= head /\ head <= tag
                    BY <4>5, <4>8, <4>11, <5>1
                <5>3. v <= tag
                    BY <5>2
                <5> QED
                    BY <5>1, <5>3
            <4> QED
                BY <1>10, <4>10, <4>11
        <3> QED
            BY <1>14, <3>1, <3>3 DEF NotPassed
    <2> QED
        BY <2>2, <2>3
<1>18. Ordered(p, classes)
    <2>1. ASSUME NEW j \in DOMAIN classes PROVE TagsGrow(p.class[j])
        <3>1. CASE j = k
            BY <1>14, <1>16, <3>1
        <3>2. CASE j # k
            BY <1>14, <3>2 DEF SchedulerOK, Ordered
        <3> QED
            BY <3>1, <3>2
    <2> QED
        BY <1>17, <2>1 DEF Ordered
<1>19. x = [time |-> t, class |-> k, bytes |-> bytes, total |-> c.transmitted_bytes + bytes]
    BY <1>8, <1>13, <1>14
<1>20. x \in Departure
    <2>1. PICK total \in Nat : total = c.transmitted_bytes + bytes
        BY <1>7
    <2>2. x = [time |-> t, class |-> k, bytes |-> bytes, total |-> total]
        BY <1>19, <2>1
    <2> QED
        BY <1>5, <2>2, DepartureType
<1>21. PICK m \in Nat :
        /\ Append(lg, x) \in Seq(Departure)
        /\ DOMAIN lg = 1 .. m /\ DOMAIN Append(lg, x) = 1 .. m + 1
        /\ Append(lg, x)[m + 1] = x
        /\ \A i \in 1 .. m : Append(lg, x)[i] = lg[i] /\ lg[i] \in Departure
        /\ \A i \in 1 .. m + 1 : i \in 1 .. m \/ i = m + 1
    <2>1. Len(lg) \in Nat /\ DOMAIN lg = 1 .. Len(lg)
        OBVIOUS
    <2>2. /\ Append(lg, x) \in Seq(Departure) /\ Len(Append(lg, x)) = Len(lg) + 1
          /\ Append(lg, x)[Len(lg) + 1] = x
          /\ \A i \in 1 .. Len(lg) : Append(lg, x)[i] = lg[i]
        BY <1>20, AppendProperties
    <2>3. DOMAIN Append(lg, x) = 1 .. Len(lg) + 1
        BY <2>2
    <2>4. \A i \in 1 .. Len(lg) : lg[i] \in Departure
        BY ElementOfSeq
    <2>5. \A i \in 1 .. Len(lg) + 1 : i \in 1 .. Len(lg) \/ i = Len(lg) + 1
        BY <2>1
    <2> QED
        BY <2>1, <2>2, <2>3, <2>4, <2>5
<1>22. ASSUME classes[k].shape # NoLimit, NEW i \in 1 .. m + 1, Append(lg, x)[i].class = k
       PROVE  /\ Covered(d, classes[k].shape, Append(lg, x)[i])
              /\ shape.credit \in Nat /\ shape.updated = t
    <2>1. PICK y \in Departure : y = Append(lg, x)[i]
        BY <1>20, <1>21
    <2>2. ReadyAt(c.shape, classes[k].shape, t, bytes) <= t
        BY <1>3, <1>6, <1>8 DEF HeadReadyAt
    <2>3. \/ Covered(c, classes[k].shape, y)
          \/ y.total = c.transmitted_bytes + bytes /\ y.bytes = bytes /\ y.time = t
        <3>1. CASE i \in 1 .. m
            <4>1. y = lg[i] /\ i \in DOMAIN lg
                BY <1>21, <2>1, <3>1
            <4> QED
                BY <1>4, <1>6, <1>22, <2>1, <4>1 DEF SchedulerOK, Conforming
        <3>2. CASE i = m + 1
            BY <1>19, <1>21, <2>1, <3>2
        <3> QED
            BY <1>21, <3>1, <3>2
    <2>4. /\ d.transmitted_bytes = c.transmitted_bytes + bytes
          /\ d.shape = Taken(c.shape, classes[k].shape, t, bytes) /\ d.shape = shape
        BY <1>9, <1>13
    <2>5. PICK limit \in Limits : limit = classes[k].shape
        BY <1>5
    <2>6. /\ limit # NoLimit /\ ReadyAt(c.shape, limit, t, bytes) <= t
          /\ \/ Covered(c, limit, y)
             \/ y.total = c.transmitted_bytes + bytes /\ y.bytes = bytes /\ y.time = t
          /\ d.shape = Taken(c.shape, limit, t, bytes)
        BY <1>22, <2>2, <2>3, <2>4, <2>5
    <2>7. Covered(d, limit, y) /\ d.shape.credit \in Nat /\ d.shape.updated = t
        BY <2>4, <2>6, PaidCovers
    <2> QED
        BY <2>1, <2>4, <2>5, <2>7
<1>23. Conforming(p, classes, Append(lg, x))
    <2> SUFFICES ASSUME NEW j \in DOMAIN classes, classes[j].shape # NoLimit,
                        NEW i \in DOMAIN Append(lg, x), Append(lg, x)[i].class = j
                 PROVE  Covered(p.class[j], classes[j].shape, Append(lg, x)[i])
        BY DEF Conforming
    <2>1. CASE j = k
        BY <1>14, <1>21, <1>22, <2>1
    <2>2. CASE j # k
        <3>1. i \in 1 .. m
            BY <1>19, <1>21, <2>2
        <3>2. Append(lg, x)[i] = lg[i] /\ i \in DOMAIN lg
            BY <1>21, <3>1
        <3> QED
            BY <1>14, <2>2, <3>2 DEF SchedulerOK, Conforming
    <2> QED
        BY <2>1, <2>2
<1>24. LogOK(classes, Append(lg, x))
    <2> DEFINE new == Append(lg, x)
    <2> SUFFICES ASSUME NEW i \in DOMAIN new, NEW j \in DOMAIN new, i <= j
                 PROVE  Conforms(classes, new[i], new[j])
        BY DEF LogOK
    <2>0. i \in 1 .. m + 1 /\ j \in 1 .. m + 1
        BY <1>21
    <2>1. CASE j \in 1 .. m
        <3>1. i \in 1 .. m
            BY <2>0, <2>1
        <3>2. new[i] = lg[i] /\ new[j] = lg[j] /\ i \in DOMAIN lg /\ j \in DOMAIN lg
            BY <1>21, <2>1, <3>1
        <3> QED
            BY <3>2 DEF LogOK
    <2>2. CASE j = m + 1
        <3> SUFFICES ASSUME new[i].class = new[j].class, classes[new[i].class].shape # NoLimit
                     PROVE  (new[j].total - new[i].total + new[i].bytes) * ByteCredits
                                <= classes[new[i].class].shape.burst * ByteCredits
                                   + (new[j].time - new[i].time) * classes[new[i].class].shape.rate
            BY DEF Conforms
        <3>1. new[j] = x /\ new[i].class = k
            BY <1>19, <1>21, <2>2
        <3>2. PICK y \in Departure : y = new[i]
            BY <1>20, <1>21, <2>0
        <3>3. Covered(d, classes[k].shape, y) /\ shape.credit \in Nat /\ shape.updated = t
            BY <1>22, <2>0, <3>1, <3>2
        <3>4. d.transmitted_bytes = x.total /\ d.shape = shape /\ x.time = t
            BY <1>13, <1>19
        <3> HIDE DEF new
        <3> DEFINE a == (x.total - y.total + y.bytes) * ByteCredits
                   z == classes[k].shape.burst * ByteCredits + (t - y.time) * classes[k].shape.rate
        <3>5. a + shape.credit <= z
            BY <3>3, <3>4 DEF Covered
        <3>6. a \in Int /\ z \in Int
            <4>1. x.total \in Int /\ y.total \in Int /\ y.bytes \in Int /\ y.time \in Int
                BY <1>20 DEF Departure
            <4>2. x.total - y.total + y.bytes \in Int /\ t - y.time \in Int
                <5>1. t \in Int
                    OBVIOUS
                <5> QED
                    BY <4>1, <5>1, SumType
            <4>3. classes[k].shape.burst * ByteCredits \in Nat /\ classes[k].shape.rate \in Nat /\ ByteCredits \in Int
                BY <1>5, LimitType, ScaleAssumption
            <4>4. PICK e \in Int, f \in Int : e = x.total - y.total + y.bytes /\ f = t - y.time
                BY <4>2
            <4>5. e * ByteCredits \in Int /\ f * classes[k].shape.rate \in Int
                BY <4>3, ProductType
            <4>6. a = e * ByteCredits
                BY <4>4
            <4>7. z = classes[k].shape.burst * ByteCredits + f * classes[k].shape.rate
                BY <4>4
            <4> HIDE DEF a, z
            <4> QED
                BY <4>3, <4>5, <4>6, <4>7
        <3> HIDE DEF a, z
        <3>7. a <= z
            BY <3>3, <3>5, <3>6
        <3> QED
            BY <3>1, <3>2, <3>4, <3>7 DEF a, z
    <2> QED
        BY <1>21, <2>0, <2>1, <2>2
<1> QED
    BY <1>14, <1>18, <1>21, <1>23, <1>24 DEF SchedulerOK

-----------------------------------------------------------------------------
(* The port *)

Wake == [time : Nat, epoch : Nat]

\* A runtime of the policy and the generation there are now, whose wake-ups
\* are among the events "pending".
Runtime(pending) ==
    [policy : {policy}, generation : {generation},
     queue : Queue(DOMAIN Classes, now), wakes : SUBSET pending]

\* The clock, the event queue, the cable and the departures.
LabOK ==
    /\ now \in Nat /\ epoch \in Nat /\ generation \in Nat
    /\ events \in SUBSET Wake
    /\ policy \in DOMAIN Policies \cup {NoPolicy}
    /\ finishes \in Seq(Nat) /\ log \in Seq(Departure)

\* The port belongs to the policy there is, and its queue keeps what every
\* operation of the scheduler keeps.
PortOK ==
    /\ port = NoPort => log = <<>>
    /\ port # NoPort =>
         /\ policy \in DOMAIN Policies
         /\ port \in Runtime(events)
         /\ SchedulerOK(port.queue, Classes, now, log)
         /\ LogOK(Classes, log)

QosInv == LabOK /\ PortOK /\ WakeInTime

\* The classes of a policy.
LEMMA ClassesOK ==
    ASSUME policy \in DOMAIN Policies
    PROVE  Classes \in Seq(QueueClassConfig) /\ policy # NoPolicy
BY QosAssumption DEF Classes, NoPolicy

\* The time at which the cable is free, now or later.
LEMMA AvailableAtOK ==
    ASSUME now \in Nat, NEW f \in Seq(Nat)
    PROVE  AvailableAt(f) \in Nat
<1>1. CASE f = <<>>
    BY <1>1 DEF AvailableAt
<1>2. CASE f # <<>>
    <2>1. Last(f) \in Nat
        BY <1>2 DEF Last
    <2>2. Max({Last(f), now}) = IF Last(f) >= now THEN Last(f) ELSE now
        <3>1. Last(f) \in Int /\ now \in Int
            BY <2>1
        <3> QED
            BY <3>1, MinMaxOfTwo
    <2> QED
        BY <1>2, <2>1, <2>2 DEF AvailableAt
<1> QED
    BY <1>1, <1>2

\* The cable is not free earlier when one looks later.
LEMMA AvailableAtLater ==
    ASSUME now \in Nat, now' \in Nat, now <= now', finishes \in Seq(Nat), finishes' = finishes
    PROVE  AvailableAt(finishes) \in Nat /\ AvailableAt(finishes)' \in Nat
           /\ AvailableAt(finishes) <= AvailableAt(finishes)'
<1>1. CASE finishes = <<>>
    BY <1>1 DEF AvailableAt
<1>2. CASE finishes # <<>>
    <2>1. PICK last \in Nat : last = Last(finishes) /\ last = Last(finishes)'
        BY <1>2 DEF Last
    <2> last \in Int /\ now \in Int /\ now' \in Int
        OBVIOUS
    <2>2. Max({last, now}) = IF last >= now THEN last ELSE now
        BY MinMaxOfTwo
    <2>3. Max({last, now'}) = IF last >= now' THEN last ELSE now'
        BY MinMaxOfTwo
    <2>4. AvailableAt(finishes) = Max({last, now}) /\ AvailableAt(finishes)' = Max({last, now'})
        BY <1>2, <2>1 DEF AvailableAt
    <2> QED
        BY <2>2, <2>3, <2>4
<1> QED
    BY <1>1, <1>2

\* What the cable keeps of its reservations.
LEMMA AdmittedOK ==
    ASSUME now \in Nat, NEW f \in Seq(Nat), NEW bytes \in Nat
    PROVE  Admitted(f, bytes) \in Seq(Nat)
<1> DEFINE Over(i) == /\ \A j \in 1 .. i : f[j] <= now
                      /\ i < Len(f) => f[i + 1] > now
           S == {i \in 0 .. Len(f) : i < Len(f) => f[i + 1] > now}
<1>1. Len(f) \in Nat /\ \A i \in 1 .. Len(f) : f[i] \in Nat
    BY ElementOfSeq
<1>2. Len(f) \in S /\ S \in SUBSET Nat
    BY <1>1
<1>3. Min(S) \in S /\ \A y \in S : Min(S) <= y
    <2> HIDE DEF S
    <2> QED
        BY <1>2, MinNat
<1>4. PICK n \in 0 .. Len(f) : n = Min(S)
    BY <1>3
<1>5. Over(n)
    <2>1. n < Len(f) => f[n + 1] > now
        BY <1>3, <1>4
    <2>2. ASSUME NEW j \in 1 .. n PROVE f[j] <= now
        <3>1. j - 1 \in 0 .. Len(f) /\ j - 1 < n /\ j - 1 < Len(f) /\ (j - 1) + 1 = j
            BY <1>1, <1>4
        <3>2. j - 1 \notin S
            <4> HIDE DEF S
            <4>1. \A y \in S : n <= y
                BY <1>3, <1>4
            <4>2. ~(n <= j - 1)
                BY <3>1
            <4> QED
                BY <4>1, <4>2
        <3>3. ~(f[j] > now)
            BY <3>1, <3>2
        <3>4. f[j] \in Nat
            BY <1>1, <3>1
        <3> QED
            BY <3>3, <3>4
    <2> QED
        BY <2>1, <2>2
<1>6. PICK m \in 0 .. Len(f) : Unfinished(f) = SubSeq(f, m + 1, Len(f))
    <2>1. (CHOOSE i \in 0 .. Len(f) : Over(i)) \in 0 .. Len(f)
        BY <1>5
    <2> QED
        BY <2>1 DEF Unfinished
<1>7. Unfinished(f) \in Seq(Nat)
    <2>1. \A i \in m + 1 .. Len(f) : f[i] \in Nat
        BY <1>1
    <2>2. m + 1 \in Int /\ Len(f) \in Int
        BY <1>1
    <2> QED
        BY <1>6, <2>1, <2>2, SubSeqProperties
<1>8. bytes * ByteTime \in Nat
    BY QosAssumption
<1>9. AvailableAt(f) + bytes * ByteTime \in Nat
    BY <1>8, AvailableAtOK
<1> QED
    BY <1>7, <1>9, AppendProperties DEF Admitted

\* schedule_qos leaves a wake-up in time for the queue it is called for.
LEMMA ScheduleStep ==
    ASSUME now \in Nat, epoch \in Nat, policy \in DOMAIN Policies,
           NEW f \in Seq(Nat), NEW pending \in SUBSET Wake, NEW r \in Runtime(pending),
           ScheduleQos(r, f, pending)
    PROVE  /\ epoch' \in Nat /\ events' \in SUBSET Wake
           /\ port' \in Runtime(events') /\ port'.queue = r.queue
           /\ Waiting(r.queue) # {} =>
                \E w \in port'.wakes \cap events' :
                    w.time <= Max({NextReady(r.queue, Classes, now), AvailableAt(f)})
<1> DEFINE at == Max({NextReady(r.queue, Classes, now), AvailableAt(f)})
           wake == [time |-> at, epoch |-> epoch + 1]
<1>1. r.queue \in Queue(DOMAIN Classes, now) /\ r.wakes \in SUBSET pending
    BY DEF Runtime
<1>2. CASE Waiting(r.queue) = {} \/ Suffices(r.wakes, at)
    <2>1. port' = r /\ events' = pending /\ epoch' = epoch
        BY <1>2 DEF ScheduleQos
    <2>2. Suffices(r.wakes, at) => \E w \in r.wakes \cap pending : w.time <= at
        BY <1>1 DEF Suffices
    <2> HIDE DEF at
    <2> QED
        BY <1>2, <2>1, <2>2 DEF at
<1>3. CASE ~(Waiting(r.queue) = {} \/ Suffices(r.wakes, at))
    <2>1. /\ epoch' = epoch + 1 /\ events' = pending \cup {wake}
          /\ port' = [r EXCEPT !.wakes = @ \cup {wake}]
        BY <1>3 DEF ScheduleQos
    <2>2. at \in Nat
        <3>1. NextReady(r.queue, Classes, now) \in Nat
            BY <1>1, <1>3, ClassesOK, NextReadyOK
        <3>2. AvailableAt(f) \in Nat
            BY AvailableAtOK
        <3>3. PICK a \in Int, b \in Int : a = NextReady(r.queue, Classes, now) /\ b = AvailableAt(f)
            BY <3>1, <3>2
        <3>4. Max({a, b}) = IF a >= b THEN a ELSE b
            BY MinMaxOfTwo
        <3>5. at = Max({a, b})
            BY <3>3
        <3> QED
            BY <3>1, <3>2, <3>3, <3>4, <3>5
    <2> HIDE DEF at
    <2>3. wake \in Wake /\ wake.time = at
        BY <2>2 DEF Wake
    <2> HIDE DEF wake
    <2>4. events' \in SUBSET Wake
        BY <2>1, <2>3
    <2>5. /\ port' \in Runtime(events') /\ port'.queue = r.queue
          /\ port'.wakes = r.wakes \cup {wake}
        BY <1>1, <2>1 DEF Runtime
    <2>6. wake \in port'.wakes \cap events' /\ wake.time <= at
        BY <2>1, <2>2, <2>3, <2>5
    <2> QED
        BY <2>1, <2>4, <2>5, <2>6 DEF at
<1> QED
    BY <1>2, <1>3

\* service_qos: a departure or none, and the next wake-up.
LEMMA ServiceStep ==
    ASSUME LabOK, policy \in DOMAIN Policies,
           NEW pending \in SUBSET Wake, NEW r \in Runtime(pending),
           SchedulerOK(r.queue, Classes, now, log), LogOK(Classes, log),
           ServiceQos(r, pending), UNCHANGED <<now, policy, generation>>
    PROVE  QosInv'
<1>1. /\ now \in Nat /\ epoch \in Nat /\ generation \in Nat
      /\ finishes \in Seq(Nat) /\ log \in Seq(Departure)
    BY DEF LabOK
<1>2. Classes \in Seq(QueueClassConfig) /\ policy # NoPolicy /\ Classes' = Classes
    BY ClassesOK DEF Classes
<1>3. r.queue \in Queue(DOMAIN Classes, now)
    BY DEF Runtime
<1>4. ASSUME NEW f \in Seq(Nat), NEW s \in Runtime(pending), ScheduleQos(s, f, pending),
             finishes' = f, log' \in Seq(Departure),
             SchedulerOK(s.queue, Classes, now, log'), LogOK(Classes, log')
      PROVE  QosInv'
    <2>1. /\ epoch' \in Nat /\ events' \in SUBSET Wake
          /\ port' \in Runtime(events') /\ port'.queue = s.queue
          /\ Waiting(s.queue) # {} =>
                \E w \in port'.wakes \cap events' :
                    w.time <= Max({NextReady(s.queue, Classes, now), AvailableAt(f)})
        BY <1>1, <1>4, ScheduleStep
    <2>2. LabOK'
        BY <1>1, <1>4, <2>1 DEF LabOK
    <2>3. port'.policy = policy /\ port' # NoPort
        BY <1>2, <2>1 DEF Runtime, NoPort
    <2>4. port' \in Runtime(events)'
        BY <1>2, <2>1 DEF Runtime
    <2>5. SchedulerOK(port.queue, Classes, now, log)' /\ LogOK(Classes, log)'
        BY <1>2, <1>4, <2>1
    <2>6. PortOK'
        BY <2>3, <2>4, <2>5 DEF PortOK, NoPort
    <2>7. AvailableAt(finishes)' = AvailableAt(f)
        BY <1>4 DEF AvailableAt
    <2>8. NextReady(port.queue, Classes, now)' = NextReady(s.queue, Classes, now)
        BY <1>2, <2>1
    <2>9. WakeInTime'
        BY <2>1, <2>7, <2>8 DEF WakeInTime
    <2> QED
        BY <2>2, <2>6, <2>9 DEF QosInv
<1>5. CASE AvailableAt(finishes) <= now /\ Eligible(r.queue, Classes, now) # {}
    <2> DEFINE k == Selected(r.queue, Classes, now)
               bytes == Head(r.queue.class[k].packets).bytes
               q == Dequeued(r.queue, Classes, k, now)
               after == [r EXCEPT !.queue = q]
               x == [time |-> now, class |-> k, bytes |-> bytes, total |-> q.class[k].transmitted_bytes]
    <2>1. /\ after.queue = q
          /\ log' = Append(log, x)
          /\ \E blocked \in BOOLEAN :
                 /\ finishes' = IF blocked THEN finishes ELSE Admitted(finishes, bytes)
                 /\ ScheduleQos(after, finishes', pending)
        <3>1. after.queue = q
            BY DEF Runtime
        <3> QED
            BY <1>5, <3>1 DEF ServiceQos
    <2>2. /\ Append(log, x) \in Seq(Departure)
          /\ SchedulerOK(q, Classes, now, Append(log, x))
          /\ LogOK(Classes, Append(log, x))
        BY <1>1, <1>2, <1>5, DequeuedOK
    <2>3. bytes \in Nat
        <3>1. k \in Waiting(r.queue)
            BY <1>1, <1>2, <1>3, <1>5, SelectedOK DEF Eligible
        <3> QED
            BY <1>1, <1>3, <3>1, HeadOK
    <2> HIDE DEF q, bytes, x
    <2>4. after \in Runtime(pending)
        BY <2>2 DEF Runtime, SchedulerOK
    <2>5. finishes' \in Seq(Nat)
        BY <1>1, <2>1, <2>3, AdmittedOK
    <2>6. PICK f \in Seq(Nat), s \in Runtime(pending) : f = finishes' /\ s = after
        BY <2>4, <2>5
    <2>7. ScheduleQos(s, f, pending)
        BY <2>1, <2>6
    <2> HIDE DEF after
    <2> QED
        BY <1>4, <2>1, <2>2, <2>6, <2>7
<1>6. CASE ~(AvailableAt(finishes) <= now /\ Eligible(r.queue, Classes, now) # {})
    <2>1. ScheduleQos(r, finishes, pending) /\ finishes' = finishes /\ log' = log
        BY <1>6 DEF ServiceQos
    <2>2. PICK f \in Seq(Nat) : f = finishes
        BY <1>1
    <2>3. ScheduleQos(r, f, pending)
        BY <2>1, <2>2
    <2> QED
        BY <1>1, <1>4, <2>1, <2>2, <2>3
<1> QED
    BY <1>5, <1>6

\* At the start there is no policy and no queue.
LEMMA InitQos == Init => QosInv
<1> SUFFICES ASSUME Init PROVE QosInv
    OBVIOUS
<1>1. <<>> \in Seq(Nat) /\ <<>> \in Seq(Departure)
    OBVIOUS
<1>2. LabOK
    BY <1>1 DEF Init, LabOK
<1>3. PortOK
    BY DEF Init, PortOK
<1>4. WakeInTime
    BY DEF Init, WakeInTime
<1> QED
    BY <1>2, <1>3, <1>4 DEF QosInv

\* enqueue_qos, for a new or an existing runtime; a packet that is refused may
\* cost credit and changes nothing else.
LEMMA EnqueueStep ==
    ASSUME QosInv, NEW k \in DOMAIN Classes, NEW bytes \in Lengths, policy # NoPolicy,
           Enqueue(k, bytes)
    PROVE  QosInv'
<1>1. /\ LabOK /\ PortOK /\ WakeInTime /\ policy \in DOMAIN Policies
      /\ now \in Nat /\ epoch \in Nat /\ generation \in Nat /\ events \in SUBSET Wake
      /\ finishes \in Seq(Nat) /\ log \in Seq(Departure) /\ bytes \in Nat
    BY QosAssumption DEF QosInv, LabOK
<1>2. Classes \in Seq(QueueClassConfig) /\ UNCHANGED <<now, policy, generation>> /\ Classes' = Classes
    BY <1>1, ClassesOK DEF Enqueue, Classes
<1> DEFINE new == [policy |-> policy, generation |-> generation,
                   queue |-> NewScheduler(Classes, now), wakes |-> {}]
           r == IF port = NoPort THEN new ELSE port
           q == Restarted(r.queue)
           spent == Conditioned(q, Classes, k, now, bytes)
           full == Enqueued(spent, Classes, k, bytes)
<1>3. /\ r \in Runtime(events)
      /\ SchedulerOK(r.queue, Classes, now, log) /\ LogOK(Classes, log)
    <2>1. CASE port = NoPort
        <3>1. /\ SchedulerOK(NewScheduler(Classes, now), Classes, now, <<>>)
              /\ log = <<>>
            BY <1>1, <1>2, <2>1, NewSchedulerOK DEF PortOK
        <3>2. NewScheduler(Classes, now) \in Queue(DOMAIN Classes, now)
            BY <3>1 DEF SchedulerOK
        <3>3. LogOK(Classes, <<>>)
            BY DEF LogOK
        <3>4. r = new /\ new.queue = NewScheduler(Classes, now)
            BY <2>1
        <3>5. new \in Runtime(events)
            BY <3>2 DEF Runtime
        <3> QED
            BY <3>1, <3>3, <3>4, <3>5
    <2>2. CASE port # NoPort
        BY <1>1, <2>2 DEF PortOK
    <2> QED
        BY <2>1, <2>2
<1>4. /\ SchedulerOK(q, Classes, now, log)
      /\ Waiting(q) = Waiting(r.queue)
      /\ Waiting(r.queue) # {} => q = r.queue
    <2> HIDE DEF r
    <2> QED
        BY <1>1, <1>2, <1>3, RestartedOK
<1>5. /\ SchedulerOK(spent, Classes, now, log)
      /\ Waiting(spent) = Waiting(q)
      /\ \A u : NextReady(spent, Classes, u) = NextReady(q, Classes, u)
    <2> HIDE DEF q
    <2> QED
        BY <1>1, <1>2, <1>4, ConditionedOK
<1>6. CASE Reject(q, Classes, k, now, bytes, Queued(finishes), Capacity) # "none"
    <2>1. port' = [r EXCEPT !.queue = spent] /\ UNCHANGED <<events, epoch, finishes, log>>
        BY <1>6 DEF Enqueue
    <2> HIDE DEF q, spent
    <2>2. LabOK'
        BY <1>1, <1>2, <2>1 DEF LabOK
    <2>3. /\ port' \in Runtime(events)
          /\ port'.queue = spent /\ port'.wakes = r.wakes /\ port'.policy = policy
        <3>1. spent \in Queue(DOMAIN Classes, now)
            BY <1>5 DEF SchedulerOK
        <3> HIDE DEF r
        <3> QED
            BY <1>3, <2>1, <3>1 DEF Runtime
    <2>4. port' # NoPort
        BY <2>3 DEF NoPort
    <2>5. port' \in Runtime(events)'
        BY <1>2, <2>1, <2>3 DEF Runtime
    <2>6. SchedulerOK(port.queue, Classes, now, log)' /\ LogOK(Classes, log)'
        BY <1>2, <1>3, <1>5, <2>1, <2>3
    <2>7. PortOK'
        BY <1>1, <1>2, <2>4, <2>5, <2>6 DEF PortOK, NoPort
    <2>8. WakeInTime'
        <3> SUFFICES ASSUME Waiting(spent) # {}
                     PROVE  \E w \in port'.wakes \cap events' :
                                w.time <= Max({NextReady(spent, Classes, now), AvailableAt(finishes)})
            BY <1>2, <2>1, <2>3 DEF WakeInTime, AvailableAt
        <3>1. Waiting(r.queue) # {} /\ q = r.queue
            BY <1>4, <1>5
        <3>2. port # NoPort
            <4>1. port = NoPort => r.queue = NewScheduler(Classes, now)
                OBVIOUS
            <4>2. Waiting(NewScheduler(Classes, now)) = {}
                BY <1>1, <1>2, NewSchedulerOK
            <4> QED
                BY <3>1, <4>1, <4>2
        <3>3. r = port
            BY <3>2
        <3>4. \E w \in port.wakes \cap events :
                w.time <= Max({NextReady(port.queue, Classes, now), AvailableAt(finishes)})
            BY <1>1, <3>1, <3>2, <3>3 DEF WakeInTime
        <3>5. NextReady(spent, Classes, now) = NextReady(port.queue, Classes, now)
            BY <1>5, <3>1, <3>3
        <3> QED
            BY <2>1, <2>3, <3>3, <3>4, <3>5
    <2> QED
        BY <2>2, <2>7, <2>8 DEF QosInv
<1>7. CASE Reject(q, Classes, k, now, bytes, Queued(finishes), Capacity) = "none"
    <2>1. ServiceQos([r EXCEPT !.queue = full], events)
        BY <1>7 DEF Enqueue
    <2>2. SchedulerOK(full, Classes, now, log)
        <3> HIDE DEF spent
        <3> QED
            BY <1>1, <1>2, <1>5, EnqueuedOK
    <2> HIDE DEF full
    <2>3. PICK s : s = [r EXCEPT !.queue = full]
        OBVIOUS
    <2>4. s \in Runtime(events) /\ s.queue = full
        <3>1. full \in Queue(DOMAIN Classes, now)
            BY <2>2 DEF SchedulerOK
        <3> HIDE DEF r
        <3> QED
            BY <1>3, <2>3, <3>1 DEF Runtime
    <2>5. PICK pending \in SUBSET Wake : pending = events
        BY <1>1
    <2> HIDE DEF r
    <2> QED
        BY <1>1, <1>2, <1>3, <2>1, <2>2, <2>3, <2>4, <2>5, ServiceStep
<1> QED
    BY <1>6, <1>7

\* qos_timer: a stale wake-up is dropped, another one serves the queue.
LEMMA TimerStep ==
    ASSUME QosInv, NEW wake \in events, QosTimer(wake)
    PROVE  QosInv'
<1>1. /\ LabOK /\ PortOK /\ WakeInTime
      /\ now \in Nat /\ events \in SUBSET Wake
    BY DEF QosInv, LabOK
<1>2. UNCHANGED <<now, policy, generation>>
    BY DEF QosTimer
<1>3. CASE port = NoPort \/ wake \notin port.wakes
    <2>1. events' = events \ {wake} /\ UNCHANGED <<epoch, finishes, port, log>>
        BY <1>3 DEF QosTimer
    <2>2. LabOK'
        BY <1>1, <1>2, <2>1 DEF LabOK
    <2>3. Classes' = Classes /\ AvailableAt(finishes)' = AvailableAt(finishes)
        BY <1>2, <2>1 DEF Classes, AvailableAt
    <2>4. PortOK'
        <3>1. CASE port = NoPort
            BY <1>1, <2>1, <3>1 DEF PortOK, NoPort
        <3>2. CASE port # NoPort
            <4>1. port \in Runtime(events) /\ wake \notin port.wakes
                BY <1>1, <1>3, <3>2 DEF PortOK
            <4>2. port \in Runtime(events \ {wake})
                BY <4>1 DEF Runtime
            <4>3. port' \in Runtime(events)'
                BY <1>2, <2>1, <2>3, <4>2 DEF Runtime
            <4> QED
                BY <1>1, <1>2, <2>1, <2>3, <3>2, <4>3 DEF PortOK, NoPort
        <3> QED
            BY <3>1, <3>2
    <2>5. WakeInTime'
        BY <1>1, <1>2, <1>3, <2>1, <2>3 DEF WakeInTime, NoPort
    <2> QED
        BY <2>2, <2>4, <2>5 DEF QosInv
<1>4. CASE ~(port = NoPort \/ wake \notin port.wakes)
    <2>1. ServiceQos([port EXCEPT !.wakes = @ \ {wake}], events \ {wake})
        BY <1>4 DEF QosTimer
    <2>2. /\ policy \in DOMAIN Policies /\ port \in Runtime(events)
          /\ SchedulerOK(port.queue, Classes, now, log) /\ LogOK(Classes, log)
        BY <1>1, <1>4 DEF PortOK
    <2>3. PICK s : s = [port EXCEPT !.wakes = @ \ {wake}]
        OBVIOUS
    <2>4. PICK pending \in SUBSET Wake : pending = events \ {wake}
        BY <1>1
    <2>5. s \in Runtime(pending) /\ s.queue = port.queue
        BY <2>2, <2>3, <2>4 DEF Runtime
    <2> QED
        BY <1>1, <1>2, <2>1, <2>2, <2>3, <2>4, <2>5, ServiceStep
<1> QED
    BY <1>3, <1>4

\* Without a policy there is no queue, and a frame goes to the cable.
LEMMA TransmitStep ==
    ASSUME QosInv, NEW bytes \in Lengths, Transmit(bytes)
    PROVE  QosInv'
<1>1. /\ LabOK /\ PortOK /\ now \in Nat /\ finishes \in Seq(Nat) /\ bytes \in Nat
    BY QosAssumption DEF QosInv, LabOK
<1>2. /\ policy = NoPolicy /\ finishes' = Admitted(finishes, bytes)
      /\ UNCHANGED <<now, events, epoch, policy, generation, port, log>>
    BY DEF Transmit
<1>3. port = NoPort
    BY <1>1, <1>2, ClassesOK DEF PortOK
<1>4. finishes' \in Seq(Nat)
    BY <1>1, <1>2, AdmittedOK
<1>5. LabOK'
    BY <1>1, <1>2, <1>4 DEF LabOK
<1>6. PortOK' /\ WakeInTime'
    BY <1>1, <1>2, <1>3 DEF PortOK, WakeInTime, NoPort
<1> QED
    BY <1>5, <1>6 DEF QosInv

\* Time passes: neither the first packet nor the cable is ready earlier than
\* it was, so the wake-up that was in time still is.
LEMMA AdvanceStep ==
    ASSUME QosInv, NEW t \in 0 .. MaxTime, Advance(t)
    PROVE  QosInv'
<1>1. /\ LabOK /\ PortOK /\ WakeInTime /\ now \in Nat /\ finishes \in Seq(Nat)
    BY DEF QosInv, LabOK
<1>2. /\ now' \in Nat /\ now < now'
      /\ UNCHANGED <<events, epoch, policy, generation, finishes, port, log>>
    <2>1. MaxTime \in Nat /\ now' = t /\ t \in now + 1 .. MaxTime
        BY QosAssumption DEF Advance
    <2>2. now' \in Nat /\ now < now'
        BY <1>1, <2>1
    <2> QED
        BY <2>2 DEF Advance
<1>3. Classes' = Classes
    BY <1>2 DEF Classes
<1>4. LabOK'
    BY <1>1, <1>2 DEF LabOK
<1>5. CASE port = NoPort
    BY <1>1, <1>2, <1>4, <1>5 DEF PortOK, WakeInTime, NoPort, QosInv
<1>6. CASE port # NoPort
    <2>1. /\ policy \in DOMAIN Policies /\ port \in Runtime(events)
          /\ SchedulerOK(port.queue, Classes, now, log) /\ LogOK(Classes, log)
        BY <1>1, <1>6 DEF PortOK
    <2>2. port.queue \in Queue(DOMAIN Classes, now)
        BY <2>1 DEF SchedulerOK
    <2>3. port.queue \in Queue(DOMAIN Classes, now')
        <3>1. now <= now'
            BY <1>1, <1>2
        <3> QED
            BY <1>1, <1>2, <2>2, <3>1, QueueLater
    <2>4. port' \in Runtime(events)'
        BY <1>2, <1>3, <2>1, <2>3 DEF Runtime
    <2>5. SchedulerOK(port.queue, Classes, now, log)' /\ LogOK(Classes, log)'
        BY <1>2, <1>3, <2>1, <2>3 DEF SchedulerOK
    <2>6. PortOK'
        BY <1>2, <1>3, <1>6, <2>1, <2>4, <2>5 DEF PortOK, NoPort
    <2>7. WakeInTime'
        <3> SUFFICES ASSUME Waiting(port.queue) # {}
                     PROVE  \E w \in port.wakes \cap events :
                                w.time <= Max({NextReady(port.queue, Classes, now'), AvailableAt(finishes)'})
            BY <1>2, <1>3 DEF WakeInTime
        <3>1. PICK w \in port.wakes \cap events :
                w.time <= Max({NextReady(port.queue, Classes, now), AvailableAt(finishes)})
            BY <1>1, <1>6 DEF WakeInTime
        <3>2. w.time \in Nat
            BY <1>1 DEF LabOK, Wake
        <3>3. now <= now' /\ Classes \in Seq(QueueClassConfig)
            BY <1>1, <1>2, <2>1, ClassesOK
        <3>4. /\ NextReady(port.queue, Classes, now) \in Nat
              /\ NextReady(port.queue, Classes, now) <= NextReady(port.queue, Classes, now')
            BY <1>1, <1>2, <2>2, <3>3, NextReadyOK
        <3>5. NextReady(port.queue, Classes, now') \in Nat
            BY <1>2, <2>3, <3>3, NextReadyOK
        <3>6. /\ AvailableAt(finishes) \in Nat /\ AvailableAt(finishes)' \in Nat
              /\ AvailableAt(finishes) <= AvailableAt(finishes)'
            BY <1>1, <1>2, <3>3, AvailableAtLater
        <3>7. PICK a \in Int, b \in Int, c \in Int, d \in Int :
                /\ a = NextReady(port.queue, Classes, now) /\ b = AvailableAt(finishes)
                /\ c = NextReady(port.queue, Classes, now') /\ d = AvailableAt(finishes)'
            BY <3>4, <3>5, <3>6
        <3>8. a <= c /\ b <= d
            BY <3>4, <3>6, <3>7
        <3>9. /\ Max({a, b}) = IF a >= b THEN a ELSE b
              /\ Max({c, d}) = IF c >= d THEN c ELSE d
            BY MinMaxOfTwo
        <3>10. w.time <= Max({a, b})
            BY <3>1, <3>7
        <3>11. w.time <= Max({c, d})
            BY <3>2, <3>8, <3>9, <3>10
        <3> QED
            BY <3>7, <3>11
    <2> QED
        BY <1>4, <2>6, <2>7 DEF QosInv
<1> QED
    BY <1>5, <1>6

\* A change of the carrier or of the policy drops the queue with its wake-ups
\* still pending.
LEMMA DropStep ==
    ASSUME QosInv, ChangeCarrier \/ \E p \in DOMAIN Policies \cup {NoPolicy} : SetPolicy(p)
    PROVE  QosInv'
<1>1. /\ LabOK /\ PortOK
    BY DEF QosInv
<1>2. <<>> \in Seq(Nat) /\ <<>> \in Seq(Departure)
    OBVIOUS
<1>3. /\ RefreshQos /\ UNCHANGED <<now, events, epoch>>
      /\ generation' \in Nat /\ policy' \in DOMAIN Policies \cup {NoPolicy}
      /\ finishes' \in Seq(Nat)
      /\ generation' # generation \/ policy' # policy
    <2>1. CASE ChangeCarrier
        <3>1. generation' # generation /\ generation' \in Nat
            BY <1>1, <2>1 DEF ChangeCarrier, LabOK
        <3> QED
            BY <1>1, <1>2, <2>1, <3>1 DEF ChangeCarrier, LabOK
    <2>2. ASSUME NEW p \in DOMAIN Policies \cup {NoPolicy}, SetPolicy(p)
          PROVE  /\ RefreshQos /\ UNCHANGED <<now, events, epoch>>
                 /\ generation' \in Nat /\ policy' \in DOMAIN Policies \cup {NoPolicy}
                 /\ finishes' \in Seq(Nat) /\ policy' # policy
        BY <1>1, <2>2 DEF SetPolicy, LabOK
    <2> QED
        BY <2>1, <2>2
<1>4. port' = NoPort /\ log' = <<>>
    <2>1. CASE port = NoPort
        BY <1>1, <1>3, <2>1 DEF RefreshQos, PortOK
    <2>2. CASE port # NoPort
        <3>1. port.policy = policy /\ port.generation = generation
            BY <1>1, <2>2 DEF PortOK, Runtime
        <3> QED
            BY <1>3, <2>2, <3>1 DEF RefreshQos, Stale
    <2> QED
        BY <2>1, <2>2
<1>5. LabOK'
    BY <1>1, <1>2, <1>3, <1>4 DEF LabOK
<1> QED
    BY <1>4, <1>5 DEF QosInv, PortOK, WakeInTime, NoPort

\* Every action keeps the invariant.
LEMMA NextQos == QosInv /\ [Next]_vars => QosInv'
<1> SUFFICES ASSUME QosInv, [Next]_vars PROVE QosInv'
    OBVIOUS
<1>1. CASE UNCHANGED vars
    <2>1. /\ Classes' = Classes /\ AvailableAt(finishes)' = AvailableAt(finishes)
          /\ UNCHANGED <<now, events, epoch, policy, generation, finishes, port, log>>
        BY <1>1 DEF vars, Classes, AvailableAt
    <2>2. Runtime(events)' = Runtime(events)
        BY <2>1 DEF Runtime
    <2>3. LabOK' /\ PortOK'
        BY <2>1, <2>2 DEF QosInv, LabOK, PortOK, NoPort
    <2>4. WakeInTime'
        BY <2>1 DEF QosInv, WakeInTime, NoPort
    <2> QED
        BY <2>3, <2>4 DEF QosInv
<1>2. ASSUME policy # NoPolicy, NEW k \in DOMAIN Classes, NEW bytes \in Lengths, Enqueue(k, bytes)
      PROVE  QosInv'
    BY <1>2, EnqueueStep
<1>3. ASSUME NEW bytes \in Lengths, Transmit(bytes) PROVE QosInv'
    BY <1>3, TransmitStep
<1>4. ASSUME NEW wake \in events, QosTimer(wake) PROVE QosInv'
    BY <1>4, TimerStep
<1>5. ASSUME NEW t \in 0 .. MaxTime, Advance(t) PROVE QosInv'
    BY <1>5, AdvanceStep
<1>6. CASE ChangeCarrier \/ \E p \in DOMAIN Policies \cup {NoPolicy} : SetPolicy(p)
    BY <1>6, DropStep
<1> QED
    BY <1>1, <1>2, <1>3, <1>4, <1>5, <1>6 DEF Next

-----------------------------------------------------------------------------
(* Results *)

\* The inductive invariant of the port: what every operation of the scheduler
\* keeps, and a wake-up in time.
THEOREM QosInvariant == Spec => []QosInv
<1> QED
    BY InitQos, NextQos, PTL DEF Spec

\* schedule_qos: whatever is cut, restored, reconfigured, refused or fired
\* late, a port with waiting frames has a pending wake-up of its own no later
\* than the first of them may leave.
THEOREM QosWakeInTime == Spec => []WakeInTime
<1>1. QosInv => WakeInTime
    BY DEF QosInv
<1> QED
    BY <1>1, QosInvariant, PTL

\* dequeue_ready and the finish tags of enqueue: the virtual time never passes
\* a waiting frame of a class that is neither shaped nor urgent.
THEOREM QosNotOvertaken == Spec => []NotOvertaken
<1>1. QosInv => NotOvertaken
    <2> SUFFICES ASSUME QosInv, port # NoPort, NEW k \in Waiting(port.queue),
                        Classes[k].shape = NoLimit, Classes[k].priority = NoLimit
                 PROVE  Head(port.queue.class[k].packets).finish >= port.queue.virtual_time
        BY DEF NotOvertaken
    <2>1. /\ now \in Nat /\ SchedulerOK(port.queue, Classes, now, log)
          /\ port.queue \in Queue(DOMAIN Classes, now)
        BY DEF QosInv, LabOK, PortOK, SchedulerOK
    <2>2. /\ k \in DOMAIN Classes /\ 1 \in DOMAIN port.queue.class[k].packets
          /\ Head(port.queue.class[k].packets) = port.queue.class[k].packets[1]
        BY <2>1, HeadOK
    <2>3. NotPassed(port.queue, k)
        BY <2>1, <2>2 DEF SchedulerOK, Ordered
    <2> QED
        BY <2>2, <2>3 DEF NotPassed
<1> QED
    BY <1>1, QosInvariant, PTL

\* TokenBucket: between any two departures of a shaped class it sends at most
\* its burst and what its rate allows for the time between them.
THEOREM QosShapeConforms == Spec => []ShapeConforms
<1>1. QosInv => ShapeConforms
    BY DEF QosInv, PortOK, LogOK, Conforms, ShapeConforms, Sent
<1> QED
    BY <1>1, QosInvariant, PTL

=============================================================================
