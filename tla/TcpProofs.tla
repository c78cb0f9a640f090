------------------------------ MODULE TcpProofs ------------------------------
(***************************************************************************)
(* Proofs about Tcp: for every number of incarnations, of bytes and of     *)
(* retransmissions, every receive buffer and every capacity of the         *)
(* network, the connections implement ByteStream.                          *)
(*                                                                         *)
(* The inductive invariant names every sequence number by the incarnation  *)
(* it belongs to and its offset from the initial sequence.  Incarnations   *)
(* use disjoint numbers, so a segment with the expected number is of the   *)
(* expected incarnation, and an acknowledgment of the number that is sent  *)
(* next tells that the other end has taken everything.  Which incarnation  *)
(* each one has talked to outlives the connections; the invariant says     *)
(* that there is a function p of partners that fits the state.             *)
(***************************************************************************)
EXTENDS Tcp, FiniteSetTheorems, WellFoundedInduction, TLAPS

USE TcpAssumption

-----------------------------------------------------------------------------
(* The inductive invariant *)

Number == 0 .. Modulus - 1

Flag == {"SYN", "ACK", "FIN", "RST"}

SegmentType ==
    [to : Device, sequence : Number, acknowledgment : Number, flags : SUBSET Flag,
     window : 0 .. ReceiveLimit, byte : Nat, stream : Nat]

Outstanding == [segment : SegmentType, retries : Nat]

Connection ==
    [state : States, send_next : Number, receive_next : Number,
     peer_window : 0 .. ReceiveLimit, received : 0 .. ReceiveLimit,
     outstanding : {None} \cup Outstanding, peer_closed : BOOLEAN, own : Nat, peer : Nat]

\* The number k steps after the initial sequence of incarnation n.
Numbered(n, k) == Plus(InitialSequence(n), k)

\* The offset of what stream i sends next, and of what it is to accept next.
SentTo(i) == 1 + written[i] + (IF shut[i] THEN 1 ELSE 0)

Got(i) == 1 + Len(accepted[i]) + (IF eof[i] THEN 1 ELSE 0)

\* The incarnations of device d so far.
Used(d) == 1 .. opens[d]

Types ==
    /\ bound \in Bounds
    /\ listening \in BOOLEAN
    /\ opens \in [Device -> Nat]
    /\ opens["client"] <= bound.opens /\ opens["server"] <= bound.accepts
    /\ conn \in [Device -> {NoConn} \cup Connection]
    /\ network \in SUBSET SegmentType
    /\ written \in [Stream -> Nat] /\ shut \in [Stream -> BOOLEAN]
    /\ accepted \in [Stream -> Seq(Nat)] /\ eof \in [Stream -> BOOLEAN]

\* Every incarnation of d that has a partner has one of the other device.
Partners(p) ==
    /\ p \in [Stream -> Nat]
    /\ \A d \in Device : \A n \in Used(d) : p[<<d, n>>] # 0 => p[<<d, n>>] \in Used(Other(d))
    /\ \A i \in Stream : i[2] \notin Used(i[1]) => p[i] = 0

\* Incarnation n of d and its partner agree.
Mutual(p, d, n) == p[<<d, n>>] # 0 /\ p[<<Other(d), p[<<d, n>>]>>] = n

\* How far incarnation n of d has come in the stream of its partner.
Reached(p, d, n) == IF Mutual(p, d, n) THEN Got(<<Other(d), p[<<d, n>>]>>) ELSE 1

\* A stream: nothing is accepted that was not written, the end only after the
\* last byte, and nothing by another than the partner.
StreamOK(p, i) ==
    /\ written[i] <= bound.bytes
    /\ Len(accepted[i]) <= written[i]
    /\ eof[i] => shut[i] /\ Len(accepted[i]) = written[i]
    /\ Got(i) # 1 => Mutual(p, i[1], i[2])
    /\ i[2] \notin Used(i[1]) => SentTo(i) = 1

\* Segment seg acknowledges what incarnation n of d has accepted, or less.
AckOK(p, d, n, seg) ==
    /\ p[<<d, n>>] # 0
    /\ \E a \in 1 .. Reached(p, d, n) : seg.acknowledgment = Numbered(p[<<d, n>>], a)

\* A segment of incarnation n of d that takes no more than what was sent.
Carries(d, n, seg) ==
    LET i == <<d, n>> IN
    \/ /\ seg.flags \in {{"SYN"}, {"SYN", "ACK"}} /\ seg.byte = 0
       /\ seg.sequence = Numbered(n, 0)
    \/ /\ seg.flags = {"ACK"} /\ seg.byte = 0
       /\ \E k \in 1 .. SentTo(i) : seg.sequence = Numbered(n, k)
    \/ /\ seg.flags = {"ACK"} /\ seg.byte \in 1 .. written[i]
       /\ seg.sequence = Numbered(n, seg.byte)
    \/ /\ seg.flags = {"ACK", "FIN"} /\ seg.byte = 0 /\ shut[i]
       /\ seg.sequence = Numbered(n, 1 + written[i])

SegmentOK(p, seg) ==
    "RST" \notin seg.flags =>
        LET d == Other(seg.to) IN
        /\ seg.stream \in Used(d)
        /\ Carries(d, seg.stream, seg)
        /\ "ACK" \in seg.flags => AckOK(p, d, seg.stream, seg)

Synchronized == {"Established", "CloseWait", "FinWait", "LastAck", "TimeWait"}

\* A connection c of device d.
ConnectionOK(p, d, c) ==
    LET i == <<d, c.own>> IN
    /\ c.own \in Used(d)
    /\ c.send_next = Numbered(c.own, SentTo(i))
    /\ c.outstanding # None => SegmentOK(p, c.outstanding.segment)
    /\ c.peer = p[i]
    /\ c.peer # 0 => c.receive_next = Numbered(c.peer, Reached(p, d, c.own))
    /\ c.peer = 0 => c.received = 0 /\ c.state \in {"Closed", "SynSent"}
    /\ c.state = "SynSent" => c.peer = 0 /\ d = "client" /\ SentTo(i) = 1
    /\ c.state \in {"SynReceived", "Established", "CloseWait"} => ~shut[i]
    /\ c.state \in {"CloseWait", "LastAck", "TimeWait"} => c.peer_closed
    /\ c.state \in Synchronized => Mutual(p, d, c.own)
    /\ c.state \in Synchronized /\ c.outstanding = None => Got(i) = SentTo(i)
    /\ Mutual(p, d, c.own) /\ eof[<<Other(d), c.peer>>] => c.peer_closed

Fits(p) ==
    /\ Partners(p)
    /\ \A i \in Stream : StreamOK(p, i)
    /\ \A seg \in network : SegmentOK(p, seg)
    /\ \A d \in Device : \A c \in {conn[d]} \ {NoConn} : ConnectionOK(p, d, c)

TcpInv == Types /\ \E p \in [Stream -> Nat] : Fits(p)

-----------------------------------------------------------------------------
(* Arithmetic of sequence numbers *)

\* Quotient and remainder.
LEMMA DivMod ==
    ASSUME NEW M \in Nat \ {0}, NEW a \in Nat
    PROVE  a \div M \in Nat /\ a % M \in 0 .. M - 1 /\ a = M * (a \div M) + (a % M)
OBVIOUS

\* Multiples of M are M apart.
LEMMA Multiples ==
    ASSUME NEW M \in Nat, NEW x \in Nat, NEW y \in Nat, x < y
    PROVE  M * x \in Nat /\ M * y \in Nat /\ M * x + M <= M * y
<1>1. PICK z \in Nat : y = x + 1 + z
    <2>1. y - x - 1 \in Nat /\ y = x + 1 + (y - x - 1)
        OBVIOUS
    <2> QED
        BY <2>1
<1>2. M * (x + 1 + z) = M * x + M + M * z
    OBVIOUS
<1>3. M * z \in Nat /\ M * x \in Nat /\ M * y \in Nat
    OBVIOUS
<1> QED
    BY <1>1, <1>2, <1>3

\* The remainder is unique.
LEMMA ModUnique ==
    ASSUME NEW M \in Nat \ {0}, NEW q \in Nat, NEW r \in 0 .. M - 1
    PROVE  (M * q + r) % M = r
<1> DEFINE a == M * q + r
           s == a \div M
           t == a % M
<1>1. a \in Nat /\ M * q \in Nat
    OBVIOUS
<1>2. s \in Nat /\ t \in 0 .. M - 1 /\ a = M * s + t
    BY <1>1, DivMod
<1> HIDE DEF s, t
<1>3. M * s \in Nat
    BY <1>2
<1>4. CASE s < q
    BY <1>1, <1>2, <1>3, <1>4, Multiples
<1>5. CASE q < s
    BY <1>1, <1>2, <1>3, <1>5, Multiples
<1>6. CASE s = q
    BY <1>1, <1>2, <1>3, <1>6 DEF t
<1> QED
    BY <1>2, <1>4, <1>5, <1>6

\* Taking the remainder early makes no difference.
LEMMA ModAdd ==
    ASSUME NEW M \in Nat \ {0}, NEW a \in Nat, NEW b \in Nat
    PROVE  ((a % M) + b) % M = (a + b) % M
<1> DEFINE q == a \div M
           r == a % M
           s == (r + b) \div M
           t == (r + b) % M
<1>1. q \in Nat /\ r \in 0 .. M - 1 /\ a = M * q + r
    BY DivMod
<1> HIDE DEF q, r
<1>2. s \in Nat /\ t \in 0 .. M - 1 /\ r + b = M * s + t
    <2>1. r + b \in Nat
        BY <1>1
    <2> QED
        BY <2>1, DivMod
<1> HIDE DEF s, t
<1>3. a + b = M * (q + s) + t
    <2>1. M * (q + s) = M * q + M * s
        BY <1>1, <1>2
    <2>2. M * q \in Nat /\ M * s \in Nat
        BY <1>1, <1>2
    <2> QED
        BY <1>1, <1>2, <2>1, <2>2
<1>4. (M * (q + s) + t) % M = t
    <2>1. q + s \in Nat
        BY <1>1, <1>2
    <2> QED
        BY <1>2, <2>1, ModUnique
<1> QED
    BY <1>3, <1>4 DEF t, r

\* Numbers with the same remainder are a modulus apart.
LEMMA ModApart ==
    ASSUME NEW M \in Nat \ {0}, NEW a \in Nat, NEW b \in Nat, a % M = b % M, a < b
    PROVE  a + M <= b
<1> DEFINE q == a \div M
           s == b \div M
           r == a % M
<1>1. q \in Nat /\ s \in Nat /\ r \in 0 .. M - 1 /\ a = M * q + r /\ b = M * s + r
    BY DivMod
<1> HIDE DEF q, s, r
<1>2. M * q \in Nat /\ M * s \in Nat
    BY <1>1
<1>3. q < s
    <2>1. q = s => a = b
        BY <1>1
    <2>2. s < q => M * s + M <= M * q
        BY <1>1, Multiples
    <2> QED
        BY <1>1, <1>2, <2>1, <2>2
<1> QED
    BY <1>1, <1>2, <1>3, Multiples

\* A number by its incarnation and offset.
LEMMA NumberedMod ==
    ASSUME NEW n \in Nat, NEW k \in Nat
    PROVE  /\ Numbered(n, k) = (n * IsnStep + k) % Modulus
           /\ Numbered(n, k) \in Number
           /\ Plus(Numbered(n, k), 1) = Numbered(n, k + 1)
           /\ Plus(Numbered(n, k), 0) = Numbered(n, k)
           /\ InitialSequence(n) = Numbered(n, 0)
<1> DEFINE x == n * IsnStep
<1>1. x \in Nat /\ Modulus \in Nat \ {0}
    OBVIOUS
<1> HIDE DEF x
<1>2. \A j \in Nat : Numbered(n, j) = (x + j) % Modulus
    BY <1>1, ModAdd DEF Numbered, Plus, InitialSequence, x
<1>3. \A j \in Nat : (x + j) % Modulus \in Number
    BY <1>1 DEF Number
<1>4. \A j \in Nat : (((x + k) % Modulus) + j) % Modulus = (x + k + j) % Modulus
    <2>1. x + k \in Nat
        BY <1>1
    <2> QED
        BY <1>1, <2>1, ModAdd
<1>5. Plus(Numbered(n, k), 1) = Numbered(n, k + 1)
    <2>1. Plus(Numbered(n, k), 1) = (x + k + 1) % Modulus
        BY <1>2, <1>4 DEF Plus
    <2>2. Numbered(n, k + 1) = (x + (k + 1)) % Modulus
        BY <1>2
    <2>3. x + k + 1 = x + (k + 1)
        BY <1>1
    <2> QED
        BY <2>1, <2>2, <2>3
<1>6. Plus(Numbered(n, k), 0) = Numbered(n, k)
    <2>1. Plus(Numbered(n, k), 0) = (x + k + 0) % Modulus
        BY <1>2, <1>4 DEF Plus
    <2>2. x + k + 0 = x + k
        BY <1>1
    <2> QED
        BY <1>2, <2>1, <2>2
<1>7. InitialSequence(n) = Numbered(n, 0)
    <2>1. x + 0 = x
        BY <1>1
    <2> QED
        BY <1>2, <2>1 DEF InitialSequence, x
<1> QED
    BY <1>2, <1>3, <1>5, <1>6, <1>7 DEF x

\* Incarnations use disjoint numbers.
LEMMA NumberedApart ==
    ASSUME NEW K \in Nat, K * IsnStep <= Modulus,
           NEW n \in 1 .. K, NEW m \in 1 .. K,
           NEW k \in 0 .. IsnStep - 1, NEW l \in 0 .. IsnStep - 1,
           Numbered(n, k) = Numbered(m, l)
    PROVE  n = m /\ k = l
<1> DEFINE a == n * IsnStep + k
           b == m * IsnStep + l
<1>1. a \in Nat /\ b \in Nat /\ n * IsnStep \in Nat /\ m * IsnStep \in Nat /\ K * IsnStep \in Nat
    OBVIOUS
<1>2. a % Modulus = b % Modulus
    BY NumberedMod
<1>3. ASSUME NEW x \in 1 .. K
      PROVE  IsnStep <= x * IsnStep /\ x * IsnStep <= K * IsnStep
    <2>0. x * IsnStep = IsnStep * x /\ K * IsnStep = IsnStep * K /\ IsnStep * 0 = 0
        OBVIOUS
    <2>1. IsnStep <= x * IsnStep
        BY <2>0, Multiples
    <2>2. x * IsnStep <= K * IsnStep
        <3>1. CASE x = K
            BY <1>1, <3>1
        <3>2. CASE x < K
            BY <1>1, <2>0, <3>2, Multiples
        <3> QED
            BY <3>1, <3>2
    <2> QED
        BY <2>1, <2>2
<1>4. a >= IsnStep /\ b >= IsnStep /\ a < Modulus + IsnStep /\ b < Modulus + IsnStep
    BY <1>1, <1>3
<1>5. a = b
    <2>1. a < b => a + Modulus <= b
        BY <1>1, <1>2, ModApart
    <2>2. b < a => b + Modulus <= a
        BY <1>1, <1>2, ModApart
    <2> HIDE DEF a, b
    <2> QED
        BY <1>1, <1>4, <2>1, <2>2
<1>6. n = m
    <2>0. n * IsnStep = IsnStep * n /\ m * IsnStep = IsnStep * m
        OBVIOUS
    <2>1. n < m => n * IsnStep + IsnStep <= m * IsnStep
        BY <2>0, Multiples
    <2>2. m < n => m * IsnStep + IsnStep <= n * IsnStep
        BY <2>0, Multiples
    <2> QED
        BY <1>1, <1>5, <2>1, <2>2
<1> QED
    BY <1>1, <1>5, <1>6

-----------------------------------------------------------------------------
(* Segments and connections *)

HIDE TcpAssumption

\* What most steps need of the constants.
LEMMA Constants ==
    Modulus \in Nat \ {0} /\ IsnStep \in Nat /\ ReceiveLimit \in Nat \ {0}
BY TcpAssumption

USE Constants

\* The other end of the other end.
LEMMA Others ==
    ASSUME NEW d \in Device
    PROVE  Other(d) \in Device /\ Other(d) # d /\ Other(Other(d)) = d /\ Device = {d, Other(d)}
BY DEF Device, Other

\* Every incarnation has its stream, and its numbers apart from the others'.
LEMMA Incarnations ==
    ASSUME Types, NEW d \in Device
    PROVE  /\ \A n \in Used(d) : <<d, n>> \in Stream
           /\ opens[d] \in Nat /\ opens[d] * IsnStep <= Modulus
<1>1. /\ bound \in Bounds /\ bound.opens \in Nat /\ bound.accepts \in Nat
      /\ bound.opens * IsnStep <= Modulus /\ bound.accepts * IsnStep <= Modulus
    BY TcpAssumption DEF Types, Bound
<1>2. opens[d] \in Nat
    BY DEF Types
<1>3. ASSUME NEW K \in Nat, opens[d] <= K, K * IsnStep <= Modulus
      PROVE  opens[d] * IsnStep <= Modulus
    <2>1. CASE opens[d] = K
        BY <1>3, <2>1
    <2>2. CASE opens[d] < K
        <3>1. IsnStep * opens[d] + IsnStep <= IsnStep * K /\ IsnStep * opens[d] \in Nat
            BY <1>2, <2>2, Multiples
        <3>2. IsnStep * opens[d] = opens[d] * IsnStep /\ IsnStep * K = K * IsnStep /\ K * IsnStep \in Nat
            BY <1>2
        <3> QED
            BY <1>3, <3>1, <3>2
    <2> QED
        BY <1>2, <1>3, <2>1, <2>2
<1>4. CASE d = "client"
    <2>1. opens[d] <= bound.opens
        BY <1>4 DEF Types
    <2>2. Used(d) \subseteq 1 .. bound.opens
        BY <1>1, <1>2, <2>1 DEF Used
    <2>3. \A n \in 1 .. bound.opens : <<d, n>> \in Stream
        BY <1>1, <1>4 DEF Stream
    <2> QED
        BY <1>1, <1>2, <1>3, <2>1, <2>2, <2>3
<1>5. CASE d = "server"
    <2>1. opens[d] <= bound.accepts
        BY <1>5 DEF Types
    <2>2. Used(d) \subseteq 1 .. bound.accepts
        BY <1>1, <1>2, <2>1 DEF Used
    <2>3. \A n \in 1 .. bound.accepts : <<d, n>> \in Stream
        BY <1>1, <1>5 DEF Stream
    <2> QED
        BY <1>1, <1>2, <1>3, <2>1, <2>2, <2>3
<1> QED
    BY <1>4, <1>5 DEF Device

\* The elements of Stream.
LEMMA StreamType ==
    ASSUME NEW i \in Stream
    PROVE  i[1] \in Device /\ i[2] \in Nat \ {0} /\ i = <<i[1], i[2]>>
<1>1. PICK b \in Bounds : i \in ({"client"} \X (1 .. b.opens)) \cup ({"server"} \X (1 .. b.accepts))
    BY DEF Stream
<1>2. b.opens \in Nat /\ b.accepts \in Nat
    BY TcpAssumption DEF Bound
<1> QED
    BY <1>1, <1>2 DEF Device

\* Offsets are within the step between two initial sequences.
LEMMA Offsets ==
    ASSUME Types, NEW p, NEW i \in Stream, StreamOK(p, i)
    PROVE  /\ SentTo(i) \in Nat /\ SentTo(i) >= 1 /\ SentTo(i) < IsnStep
           /\ Got(i) \in Nat /\ Got(i) >= 1 /\ Got(i) <= SentTo(i)
           /\ written[i] \in Nat /\ Len(accepted[i]) \in Nat /\ written[i] + 1 < IsnStep
<1>1. bound \in Bounds /\ bound.bytes \in Nat /\ bound.bytes + 2 < IsnStep
    BY TcpAssumption DEF Types, Bound
<1>2. written[i] \in Nat /\ Len(accepted[i]) \in Nat /\ shut[i] \in BOOLEAN /\ eof[i] \in BOOLEAN
    BY DEF Types
<1>3. /\ written[i] <= bound.bytes /\ Len(accepted[i]) <= written[i]
      /\ eof[i] => shut[i] /\ Len(accepted[i]) = written[i]
    BY DEF StreamOK
<1>4. /\ SentTo(i) = 1 + written[i] + (IF shut[i] THEN 1 ELSE 0)
      /\ Got(i) = 1 + Len(accepted[i]) + (IF eof[i] THEN 1 ELSE 0)
    BY DEF SentTo, Got
<1>5. SentTo(i) \in Nat /\ SentTo(i) >= 1 /\ SentTo(i) < IsnStep /\ written[i] + 1 < IsnStep
    BY <1>1, <1>2, <1>3, <1>4
<1>6. CASE eof[i]
    <2>1. SentTo(i) = written[i] + 2 /\ Got(i) = Len(accepted[i]) + 2
        BY <1>2, <1>3, <1>4, <1>6
    <2> QED
        BY <1>2, <1>3, <1>5, <1>6, <2>1
<1>7. CASE ~eof[i]
    <2>1. SentTo(i) >= written[i] + 1 /\ Got(i) = Len(accepted[i]) + 1
        BY <1>2, <1>4, <1>7
    <2> QED
        BY <1>2, <1>3, <1>5, <2>1
<1> QED
    BY <1>6, <1>7

\* The same of the state after a step.
LEMMA OffsetsNext ==
    ASSUME Types', NEW p, NEW i \in Stream, StreamOK(p, i)'
    PROVE  /\ SentTo(i)' \in Nat /\ SentTo(i)' >= 1 /\ SentTo(i)' < IsnStep
           /\ Got(i)' \in Nat /\ Got(i)' >= 1 /\ Got(i)' <= SentTo(i)'
<1>1. bound' \in Bounds /\ bound'.bytes \in Nat /\ bound'.bytes + 2 < IsnStep
    BY TcpAssumption DEF Types, Bound
<1>2. written'[i] \in Nat /\ Len(accepted'[i]) \in Nat /\ shut'[i] \in BOOLEAN /\ eof'[i] \in BOOLEAN
    BY DEF Types
<1>3. /\ written'[i] <= bound'.bytes /\ Len(accepted'[i]) <= written'[i]
      /\ eof'[i] => shut'[i] /\ Len(accepted'[i]) = written'[i]
    BY DEF StreamOK
<1>4. /\ SentTo(i)' = 1 + written'[i] + (IF shut'[i] THEN 1 ELSE 0)
      /\ Got(i)' = 1 + Len(accepted'[i]) + (IF eof'[i] THEN 1 ELSE 0)
    BY DEF SentTo, Got
<1>5. SentTo(i)' \in Nat /\ SentTo(i)' >= 1 /\ SentTo(i)' < IsnStep /\ written'[i] + 1 < IsnStep
    BY <1>1, <1>2, <1>3, <1>4
<1>6. CASE eof'[i]
    <2>1. SentTo(i)' = written'[i] + 2 /\ Got(i)' = Len(accepted'[i]) + 2
        BY <1>2, <1>3, <1>4, <1>6
    <2> QED
        BY <1>2, <1>3, <1>5, <1>6, <2>1
<1>7. CASE ~eof'[i]
    <2>1. SentTo(i)' >= written'[i] + 1 /\ Got(i)' = Len(accepted'[i]) + 1
        BY <1>2, <1>4, <1>7
    <2> QED
        BY <1>2, <1>3, <1>5, <2>1
<1> QED
    BY <1>6, <1>7

\* The sequence space that the segments of a connection take.
LEMMA SequenceLens ==
    ASSUME NEW seg, seg.byte \in Nat
    PROVE  /\ SequenceLen(seg) \in Nat
           /\ seg.flags = {"ACK"} => SequenceLen(seg) = DataLen(seg)
           /\ seg.flags = {"SYN"} \/ seg.flags = {"SYN", "ACK"} \/ seg.flags = {"ACK", "FIN"}
                => SequenceLen(seg) = 1 + DataLen(seg)
           /\ DataLen(seg) = IF seg.byte = 0 THEN 0 ELSE 1
<1>1. DataLen(seg) = IF seg.byte = 0 THEN 0 ELSE 1
    BY DEF DataLen
<1>2. Cardinality({"SYN"}) = 1 /\ Cardinality({"FIN"}) = 1 /\ Cardinality({}) = 0
    BY FS_Singleton, FS_EmptySet
<1>3. seg.flags = {"ACK"} => seg.flags \cap {"SYN", "FIN"} = {}
    OBVIOUS
<1>4. seg.flags = {"SYN"} \/ seg.flags = {"SYN", "ACK"} => seg.flags \cap {"SYN", "FIN"} = {"SYN"}
    OBVIOUS
<1>5. seg.flags = {"ACK", "FIN"} => seg.flags \cap {"SYN", "FIN"} = {"FIN"}
    OBVIOUS
<1>6. Cardinality(seg.flags \cap {"SYN", "FIN"}) \in Nat
    <2>1. IsFiniteSet({"SYN", "FIN"})
        <3>1. IsFiniteSet({"SYN"})
            BY FS_Singleton
        <3>2. IsFiniteSet({"SYN"} \cup {"FIN"})
            BY <3>1, FS_AddElement
        <3>3. {"SYN"} \cup {"FIN"} = {"SYN", "FIN"}
            OBVIOUS
        <3> QED
            BY <3>2, <3>3
    <2> QED
        BY <2>1, FS_Subset, FS_CardinalityType
<1>7. SequenceLen(seg) = Cardinality(seg.flags \cap {"SYN", "FIN"}) + DataLen(seg)
    BY DEF SequenceLen
<1>8. DataLen(seg) \in Nat
    BY <1>1
<1>9. SequenceLen(seg) \in Nat
    BY <1>6, <1>7, <1>8
<1>10. seg.flags = {"ACK"} => SequenceLen(seg) = DataLen(seg)
    BY <1>2, <1>3, <1>7, <1>8
<1>11. seg.flags = {"SYN"} \/ seg.flags = {"SYN", "ACK"} \/ seg.flags = {"ACK", "FIN"}
            => SequenceLen(seg) = 1 + DataLen(seg)
    <2> SUFFICES ASSUME seg.flags = {"SYN"} \/ seg.flags = {"SYN", "ACK"} \/ seg.flags = {"ACK", "FIN"}
                 PROVE  SequenceLen(seg) = 1 + DataLen(seg)
        OBVIOUS
    <2>1. Cardinality(seg.flags \cap {"SYN", "FIN"}) = 1
        BY <1>2, <1>4, <1>5
    <2> QED
        BY <1>7, <1>8, <2>1
<1> QED
    BY <1>1, <1>9, <1>10, <1>11

\* A connection sends segments.
LEMMA SegmentTyped ==
    ASSUME NEW d \in Device, NEW c \in Connection, NEW flags \in SUBSET Flag, NEW byte \in Nat
    PROVE  Segment(d, c, flags, byte) \in SegmentType
BY Others DEF Segment, SegmentType, Connection, Number

\* The network holds nothing else than what was in it and what is sent.
LEMMA Posted ==
    ASSUME NEW segs, Post(segs)
    PROVE  network' \subseteq network \cup segs
BY DEF Post, kSubset

\* An outstanding segment is not None.
LEMMA NotNone ==
    ASSUME NEW o \in Outstanding
    PROVE  o # None
<1>1. "retries" \in DOMAIN o
    BY DEF Outstanding
<1>2. "retries" \notin DOMAIN None
    BY DEF None
<1> QED
    BY <1>1, <1>2

\* A connection is not NoConn.
LEMMA NotNoConn ==
    ASSUME NEW c \in Connection
    PROVE  c # NoConn /\ c.state # "none"
<1>1. "own" \in DOMAIN c
    BY DEF Connection
<1>2. "own" \notin DOMAIN NoConn
    BY DEF NoConn
<1> QED
    BY <1>1, <1>2 DEF Connection, States

-----------------------------------------------------------------------------
(* What a step keeps *)

\* Incarnations are added, streams advance, and partners stay.
Grows(p, q) ==
    /\ \A d \in Device : opens[d] <= opens'[d]
    /\ \A i \in Stream :
         /\ written[i] <= written'[i]
         /\ shut[i] => shut'[i] /\ written'[i] = written[i]
         /\ p[i] # 0 => q[i] = p[i]
         /\ Got(i) <= Got(i)'

\* Who is mutual stays so, and comes further in the partner's stream.
LEMMA ReachedGrows ==
    ASSUME Types, Types', NEW p \in [Stream -> Nat], NEW q \in [Stream -> Nat],
           Partners(p), \A i \in Stream : StreamOK(p, i), \A i \in Stream : StreamOK(q, i)',
           Grows(p, q), NEW d \in Device, NEW n \in Used(d), p[<<d, n>>] # 0
    PROVE  /\ Mutual(p, d, n) => Mutual(q, d, n)'
           /\ q[<<d, n>>] = p[<<d, n>>]
           /\ Reached(p, d, n) \in Nat /\ Reached(p, d, n) >= 1
           /\ Reached(q, d, n)' \in Nat
           /\ Reached(p, d, n) <= Reached(q, d, n)'
<1> DEFINE m == p[<<d, n>>]
           o == Other(d)
<1>1. <<d, n>> \in Stream /\ o \in Device /\ n \in Nat \ {0}
    BY Incarnations, Others, SMTT(20) DEF Used, Types
<1>2. m \in Used(o) /\ <<o, m>> \in Stream
    <2>1. m \in Used(o)
        BY DEF Partners
    <2> QED
        BY <1>1, <2>1, Incarnations
<1>3. q[<<d, n>>] = m
    BY <1>1 DEF Grows
<1>4. Mutual(p, d, n) => Mutual(q, d, n)'
    BY <1>1, <1>2, <1>3 DEF Mutual, Grows
<1>5. Got(<<o, m>>) \in Nat /\ Got(<<o, m>>) >= 1
    BY <1>2, Offsets
<1>6. Got(<<o, m>>)' \in Nat /\ Got(<<o, m>>)' >= 1
    BY <1>2, OffsetsNext
<1>7. Got(<<o, m>>) <= Got(<<o, m>>)'
    BY <1>2 DEF Grows
<1>8. Reached(p, d, n) = IF Mutual(p, d, n) THEN Got(<<o, m>>) ELSE 1
    BY DEF Reached
<1>9. Reached(q, d, n)' = IF Mutual(q, d, n)' THEN Got(<<o, m>>)' ELSE 1
    BY <1>3 DEF Reached
<1> HIDE DEF m, o
<1> QED
    BY <1>3, <1>4, <1>5, <1>6, <1>7, <1>8, <1>9 DEF m

\* A segment that was in order stays so.
LEMMA SegmentKept ==
    ASSUME Types, Types', NEW p \in [Stream -> Nat], NEW q \in [Stream -> Nat],
           Partners(p), \A i \in Stream : StreamOK(p, i), \A i \in Stream : StreamOK(q, i)',
           Grows(p, q), NEW seg \in SegmentType, SegmentOK(p, seg)
    PROVE  SegmentOK(q, seg)'
<1> DEFINE d == Other(seg.to)
           n == seg.stream
           i == <<d, n>>
<1> SUFFICES ASSUME "RST" \notin seg.flags
             PROVE  /\ n \in Used(d)' /\ Carries(d, n, seg)'
                    /\ "ACK" \in seg.flags => AckOK(q, d, n, seg)'
    BY DEF SegmentOK
<1>1. /\ n \in Used(d) /\ Carries(d, n, seg)
      /\ "ACK" \in seg.flags => AckOK(p, d, n, seg)
    BY DEF SegmentOK
<1>2. d \in Device /\ i \in Stream
    BY <1>1, Others, Incarnations DEF SegmentType
<1>3. n \in Used(d)'
    BY <1>1, <1>2 DEF Used, Grows, Types
<1>4. /\ written[i] \in Nat /\ written'[i] \in Nat /\ written[i] <= written'[i]
      /\ shut[i] => shut'[i] /\ written'[i] = written[i]
    BY <1>2 DEF Types, Grows
<1>5. SentTo(i) \in Nat /\ SentTo(i)' \in Nat /\ SentTo(i) <= SentTo(i)'
    <2>1. SentTo(i) = 1 + written[i] + (IF shut[i] THEN 1 ELSE 0)
        BY DEF SentTo
    <2>2. SentTo(i)' = 1 + written'[i] + (IF shut'[i] THEN 1 ELSE 0)
        BY DEF SentTo
    <2> HIDE DEF i
    <2>3. CASE shut[i]
        BY <1>4, <2>1, <2>2, <2>3
    <2>4. CASE ~shut[i]
        BY <1>4, <2>1, <2>2, <2>4
    <2> QED
        BY <2>3, <2>4
<1>6. Carries(d, n, seg)'
    <2>1. CASE seg.flags \in {{"SYN"}, {"SYN", "ACK"}} /\ seg.byte = 0 /\ seg.sequence = Numbered(n, 0)
        BY <2>1 DEF Carries
    <2>2. CASE seg.flags = {"ACK"} /\ seg.byte = 0 /\ \E k \in 1 .. SentTo(i) : seg.sequence = Numbered(n, k)
        <3>1. 1 .. SentTo(i) \subseteq 1 .. SentTo(i)'
            BY <1>5
        <3> QED
            BY <2>2, <3>1 DEF Carries
    <2>3. CASE seg.flags = {"ACK"} /\ seg.byte \in 1 .. written[i] /\ seg.sequence = Numbered(n, seg.byte)
        <3>1. 1 .. written[i] \subseteq 1 .. written'[i]
            BY <1>4
        <3> QED
            BY <2>3, <3>1 DEF Carries
    <2>4. CASE /\ seg.flags = {"ACK", "FIN"} /\ seg.byte = 0 /\ shut[i]
               /\ seg.sequence = Numbered(n, 1 + written[i])
        BY <1>4, <2>4 DEF Carries
    <2> QED
        BY <1>1, <2>1, <2>2, <2>3, <2>4 DEF Carries
<1>7. ASSUME "ACK" \in seg.flags
      PROVE  AckOK(q, d, n, seg)'
    <2>1. /\ p[i] # 0
          /\ \E a \in 1 .. Reached(p, d, n) : seg.acknowledgment = Numbered(p[i], a)
        BY <1>1, <1>7 DEF AckOK
    <2>2. /\ q[i] = p[i] /\ Reached(p, d, n) \in Nat /\ Reached(q, d, n)' \in Nat
          /\ Reached(p, d, n) <= Reached(q, d, n)'
        BY <1>1, <1>2, <2>1, ReachedGrows
    <2>3. 1 .. Reached(p, d, n) \subseteq 1 .. Reached(q, d, n)'
        BY <2>2
    <2> QED
        BY <2>1, <2>2, <2>3 DEF AckOK
<1> QED
    BY <1>3, <1>6, <1>7

\* So does the connection that the step is not about.
LEMMA ConnectionKept ==
    ASSUME Types, Types', NEW p \in [Stream -> Nat], NEW q \in [Stream -> Nat],
           Partners(p), \A i \in Stream : StreamOK(p, i), \A i \in Stream : StreamOK(q, i)',
           Grows(p, q), NEW d \in Device, NEW c \in Connection, ConnectionOK(p, d, c),
           written'[<<d, c.own>>] = written[<<d, c.own>>],
           shut'[<<d, c.own>>] = shut[<<d, c.own>>],
           q[<<d, c.own>>] = p[<<d, c.own>>],
           c.peer # 0 => /\ Reached(q, d, c.own)' = Reached(p, d, c.own)
                         /\ Mutual(q, d, c.own)' /\ eof'[<<Other(d), c.peer>>]
                              => Mutual(p, d, c.own) /\ eof[<<Other(d), c.peer>>]
    PROVE  ConnectionOK(q, d, c)'
<1> DEFINE n == c.own
           i == <<d, n>>
<1>1. n \in Used(d) /\ i \in Stream
    BY Incarnations DEF ConnectionOK
<1>2. n \in Used(d)'
    BY <1>1 DEF Used, Grows, Types
<1>3. SentTo(i)' = SentTo(i)
    BY DEF SentTo
<1>4. c.outstanding # None => SegmentOK(q, c.outstanding.segment)'
    <2> SUFFICES ASSUME c.outstanding # None
                 PROVE  SegmentOK(q, c.outstanding.segment)'
        OBVIOUS
    <2>1. c.outstanding.segment \in SegmentType
        BY DEF Connection, Outstanding
    <2>2. SegmentOK(p, c.outstanding.segment)
        BY DEF ConnectionOK
    <2> QED
        BY <2>1, <2>2, SegmentKept
<1>5. c.peer = p[i] /\ c.peer \in Nat
    BY DEF ConnectionOK, Connection
<1>6. c.peer # 0 => c.receive_next = Numbered(c.peer, Reached(q, d, n)')
    BY DEF ConnectionOK
<1>7. c.state \in Synchronized => Mutual(q, d, n)'
    <2>1. c.state \in Synchronized => Mutual(p, d, n) /\ p[i] # 0
        BY DEF ConnectionOK, Mutual
    <2> QED
        BY <1>1, <2>1, ReachedGrows
<1>8. c.state \in Synchronized /\ c.outstanding = None => Got(i)' = SentTo(i)'
    <2> SUFFICES ASSUME c.state \in Synchronized /\ c.outstanding = None
                 PROVE  Got(i)' = SentTo(i)'
        OBVIOUS
    <2>1. Got(i) = SentTo(i)
        BY DEF ConnectionOK
    <2>2. Got(i) <= Got(i)'
        BY <1>1 DEF Grows
    <2>3. Got(i)' <= SentTo(i)' /\ Got(i)' \in Nat
        <3>1. StreamOK(q, i)'
            BY <1>1
        <3> QED
            BY <1>1, <3>1, OffsetsNext
    <2>4. SentTo(i) \in Nat
        BY <1>1, Offsets
    <2> QED
        BY <1>3, <2>1, <2>2, <2>3, <2>4
<1>9. Mutual(q, d, n)' /\ eof'[<<Other(d), c.peer>>] => c.peer_closed
    <2>1. Mutual(q, d, n)' => c.peer # 0
        BY <1>5 DEF Mutual
    <2> QED
        BY <2>1 DEF ConnectionOK
<1> QED
    BY <1>2, <1>3, <1>4, <1>5, <1>6, <1>7, <1>8, <1>9 DEF ConnectionOK

\* A step of device d that moves the streams, with the partners q after it.
LEMMA StepInv ==
    ASSUME Types, Types', NEW p \in [Stream -> Nat], Fits(p), NEW q \in [Stream -> Nat],
           NEW d \in Device, NEW segs,
           Partners(q)', \A i \in Stream : StreamOK(q, i)', Grows(p, q),
           network' \subseteq network \cup segs,
           \A seg \in segs : SegmentOK(q, seg)',
           \A c \in {conn'[d]} \ {NoConn} : ConnectionOK(q, d, c)',
           \A c \in {conn'[Other(d)]} \ {NoConn} : ConnectionOK(q, Other(d), c)'
    PROVE  TcpInv'
<1>1. ASSUME NEW seg \in network'
      PROVE  SegmentOK(q, seg)'
    <2>1. CASE seg \in segs
        BY <2>1
    <2>2. CASE seg \in network
        <3>1. seg \in SegmentType /\ SegmentOK(p, seg)
            BY <2>2 DEF Types, Fits
        <3> QED
            BY <3>1, SegmentKept DEF Fits
    <2> QED
        BY <1>1, <2>1, <2>2
<1>2. \A e \in Device : \A c \in {conn'[e]} \ {NoConn} : ConnectionOK(q, e, c)'
    BY Others
<1>3. Fits(q)'
    BY <1>1, <1>2 DEF Fits
<1> QED
    BY <1>3 DEF TcpInv

\* A step of device d that leaves the streams alone.
LEMMA QuietStep ==
    ASSUME Types, Types', NEW p \in [Stream -> Nat], Fits(p),
           NEW d \in Device, NEW segs, UNCHANGED <<bound, opens, streams>>,
           network' \subseteq network \cup segs,
           \A seg \in segs : SegmentOK(p, seg),
           \A c \in {conn'[d]} \ {NoConn} : ConnectionOK(p, d, c),
           conn'[Other(d)] = conn[Other(d)]
    PROVE  TcpInv'
<1> USE DEF streams
<1>1. \A i : (SentTo(i)' = SentTo(i)) /\ (Got(i)' = Got(i))
    BY DEF SentTo, Got
<1>2. \A e : Used(e)' = Used(e)
    BY DEF Used
<1>3. \A e, n : Reached(p, e, n)' = Reached(p, e, n)
    BY <1>1 DEF Reached, Mutual
<1>4. \A seg : SegmentOK(p, seg) => SegmentOK(p, seg)'
    BY <1>1, <1>2, <1>3 DEF SegmentOK, Carries, AckOK
<1>5. \A e, c : ConnectionOK(p, e, c) => ConnectionOK(p, e, c)'
    BY <1>1, <1>2, <1>3, <1>4 DEF ConnectionOK, Mutual
<1>6. Partners(p)'
    BY <1>2 DEF Fits, Partners
<1>7. \A i \in Stream : StreamOK(p, i)'
    BY <1>1, <1>2 DEF Fits, StreamOK, Mutual
<1>8. \A seg \in network' : SegmentOK(p, seg)'
    BY <1>4 DEF Fits
<1>9. \A e \in Device : \A c \in {conn'[e]} \ {NoConn} : ConnectionOK(p, e, c)'
    BY <1>5, Others DEF Fits
<1>10. Fits(p)'
    BY <1>6, <1>7, <1>8, <1>9 DEF Fits
<1> QED
    BY <1>10 DEF TcpInv

\* What a connection acknowledges fits, with whatever it carries.
LEMMA AckFits ==
    ASSUME Types, NEW p \in [Stream -> Nat], Fits(p), NEW d \in Device, NEW c \in Connection,
           ConnectionOK(p, d, c), c.peer # 0
    PROVE  /\ \A flags, byte : AckOK(p, d, c.own, Segment(d, c, flags, byte))
           /\ SegmentOK(p, Segment(d, c, {"ACK"}, 0))
           /\ Segment(d, c, {"ACK"}, 0) \in SegmentType
<1> DEFINE n == c.own
           i == <<d, n>>
           seg == Segment(d, c, {"ACK"}, 0)
<1>1. n \in Used(d) /\ i \in Stream /\ p[i] = c.peer
    BY Incarnations DEF ConnectionOK
<1>2. c.peer \in Used(Other(d)) /\ <<Other(d), c.peer>> \in Stream
    <2>1. c.peer \in Used(Other(d))
        BY <1>1 DEF Fits, Partners
    <2> QED
        BY <2>1, Incarnations, Others
<1>3. Reached(p, d, n) \in Nat /\ Reached(p, d, n) >= 1
    <2>1. Got(<<Other(d), c.peer>>) \in Nat /\ Got(<<Other(d), c.peer>>) >= 1
        BY <1>2, Offsets DEF Fits
    <2>2. Reached(p, d, n) = IF Mutual(p, d, n) THEN Got(<<Other(d), c.peer>>) ELSE 1
        BY <1>1 DEF Reached
    <2> QED
        BY <2>1, <2>2
<1>4. Reached(p, d, n) \in 1 .. Reached(p, d, n)
    BY <1>3
<1>5. c.receive_next = Numbered(p[i], Reached(p, d, n))
    BY <1>1 DEF ConnectionOK
<1>6. \A flags, byte : Segment(d, c, flags, byte).acknowledgment = c.receive_next
    BY DEF Segment
<1>7. \A flags, byte : AckOK(p, d, n, Segment(d, c, flags, byte))
    BY <1>1, <1>4, <1>5, <1>6 DEF AckOK
<1>8. SentTo(i) \in 1 .. SentTo(i) /\ c.send_next = Numbered(n, SentTo(i))
    BY <1>1, Offsets DEF Fits, ConnectionOK
<1>9. /\ seg.flags = {"ACK"} /\ seg.byte = 0 /\ seg.sequence = c.send_next /\ seg.stream = n
      /\ seg.to = Other(d)
    BY DEF Segment
<1>10. seg \in SegmentType
    BY SegmentTyped DEF Flag
<1> HIDE DEF seg
<1>11. Carries(d, n, seg)
    BY <1>8, <1>9 DEF Carries
<1>12. SegmentOK(p, seg)
    BY <1>1, <1>7, <1>9, <1>11, Others DEF SegmentOK, seg
<1> QED
    BY <1>7, <1>10, <1>12 DEF seg

\* A segment with the number that is expected next is the partner's, and
\* carries what comes next in its stream.
LEMMA InOrderIsNext ==
    ASSUME Types, NEW p \in [Stream -> Nat], Fits(p), NEW d \in Device, NEW c \in Connection,
           ConnectionOK(p, d, c), c.peer # 0,
           NEW seg \in SegmentType, SegmentOK(p, seg), seg.to = d, "RST" \notin seg.flags,
           seg.sequence = c.receive_next
    PROVE  LET i == <<Other(d), c.peer>>
               r == Reached(p, d, c.own)
           IN /\ seg.stream = c.peer /\ i \in Stream
              /\ \/ seg.flags = {"ACK"} /\ seg.byte = 0
                 \/ seg.flags = {"ACK"} /\ seg.byte = r /\ r <= written[i]
                 \/ seg.flags = {"ACK", "FIN"} /\ seg.byte = 0 /\ shut[i] /\ r = 1 + written[i]
<1> DEFINE o == Other(d)
           m == c.peer
           s == seg.stream
           i == <<o, m>>
           r == Reached(p, d, c.own)
<1>1. o \in Device /\ m \in Used(o) /\ i \in Stream
    <2>1. m = p[<<d, c.own>>] /\ c.own \in Used(d)
        BY DEF ConnectionOK
    <2>2. m \in Used(o)
        BY <2>1 DEF Fits, Partners
    <2> QED
        BY <2>2, Incarnations, Others
<1>2. s \in Used(o) /\ Carries(o, s, seg) /\ <<o, s>> \in Stream
    BY Incarnations, Others DEF SegmentOK
<1>3. r \in Nat /\ r >= 1 /\ r < IsnStep
    <2>1. Got(i) \in Nat /\ Got(i) >= 1 /\ Got(i) < IsnStep
        BY <1>1, Offsets DEF Fits
    <2>2. r = IF Mutual(p, d, c.own) THEN Got(i) ELSE 1
        BY DEF Reached, ConnectionOK
    <2> QED
        BY <2>1, <2>2
<1>4. seg.sequence = Numbered(m, r)
    BY DEF ConnectionOK
<1>5. ASSUME NEW k \in 0 .. IsnStep - 1, seg.sequence = Numbered(s, k)
      PROVE  s = m /\ k = r
    <2>0. Numbered(s, k) = Numbered(m, r)
        BY <1>4, <1>5
    <2>1. opens[o] \in Nat /\ opens[o] * IsnStep <= Modulus
        BY <1>1, Incarnations
    <2>2. s \in 1 .. opens[o] /\ m \in 1 .. opens[o]
        BY <1>1, <1>2 DEF Used
    <2>3. r \in 0 .. IsnStep - 1
        BY <1>3
    <2> HIDE DEF s, m, r, o
    <2> QED
        BY <2>0, <2>1, <2>2, <2>3, NumberedApart
<1>6. /\ SentTo(<<o, s>>) \in Nat /\ SentTo(<<o, s>>) < IsnStep
      /\ written[<<o, s>>] \in Nat /\ written[<<o, s>>] + 1 < IsnStep
    BY <1>2, Offsets DEF Fits
<1>7. CASE seg.flags \in {{"SYN"}, {"SYN", "ACK"}} /\ seg.sequence = Numbered(s, 0)
    BY <1>3, <1>5, <1>7
<1>8. CASE seg.flags = {"ACK"} /\ seg.byte = 0 /\ \E k \in 1 .. SentTo(<<o, s>>) : seg.sequence = Numbered(s, k)
    BY <1>1, <1>5, <1>6, <1>8
<1>9. CASE seg.flags = {"ACK"} /\ seg.byte \in 1 .. written[<<o, s>>] /\ seg.sequence = Numbered(s, seg.byte)
    <2>1. seg.byte \in 0 .. IsnStep - 1
        BY <1>6, <1>9
    <2>2. s = m /\ seg.byte = r
        BY <1>5, <1>9, <2>1
    <2> QED
        BY <1>1, <1>6, <1>9, <2>2
<1>10. CASE /\ seg.flags = {"ACK", "FIN"} /\ seg.byte = 0 /\ shut[<<o, s>>]
            /\ seg.sequence = Numbered(s, 1 + written[<<o, s>>])
    <2>1. 1 + written[<<o, s>>] \in 0 .. IsnStep - 1
        BY <1>6
    <2>2. s = m /\ 1 + written[<<o, s>>] = r
        BY <1>5, <1>10, <2>1
    <2> QED
        BY <1>1, <1>10, <2>2
<1> QED
    BY <1>2, <1>7, <1>8, <1>9, <1>10 DEF Carries

\* An acknowledgment of what c sends next is of its incarnation, and says that
\* all of its stream has been accepted.
LEMMA AckIsAll ==
    ASSUME Types, NEW p \in [Stream -> Nat], Fits(p), NEW d \in Device, NEW c \in Connection,
           ConnectionOK(p, d, c),
           NEW seg \in SegmentType, SegmentOK(p, seg), seg.to = d, "RST" \notin seg.flags,
           "ACK" \in seg.flags, seg.acknowledgment = c.send_next
    PROVE  /\ seg.stream \in Used(Other(d)) /\ <<Other(d), seg.stream>> \in Stream
           /\ p[<<Other(d), seg.stream>>] = c.own
           /\ Reached(p, Other(d), seg.stream) = SentTo(<<d, c.own>>)
<1> DEFINE o == Other(d)
           n == c.own
           s == seg.stream
           i == <<d, n>>
           j == <<o, s>>
           x == p[j]
           R == Reached(p, o, s)
<1>1. o \in Device /\ Other(o) = d
    BY Others
<1>2. s \in Used(o) /\ j \in Stream /\ AckOK(p, o, s, seg)
    BY <1>1, Incarnations DEF SegmentOK
<1>3. n \in Used(d) /\ i \in Stream
    BY Incarnations DEF ConnectionOK
<1>4. x # 0 /\ x \in Used(d) /\ <<d, x>> \in Stream
    <2>1. x # 0
        BY <1>2 DEF AckOK
    <2>2. x \in Used(d)
        BY <1>1, <1>2, <2>1 DEF Fits, Partners
    <2> QED
        BY <2>1, <2>2, Incarnations
<1>5. PICK a \in 1 .. R : seg.acknowledgment = Numbered(x, a)
    BY <1>2 DEF AckOK
<1>6. SentTo(i) \in Nat /\ SentTo(i) < IsnStep /\ c.send_next = Numbered(n, SentTo(i))
    BY <1>3, Offsets DEF Fits, ConnectionOK
<1>7. Got(<<d, x>>) \in Nat /\ Got(<<d, x>>) >= 1 /\ Got(<<d, x>>) < IsnStep /\ Got(<<d, x>>) <= SentTo(<<d, x>>)
    BY <1>4, Offsets DEF Fits
<1>8. R = IF Mutual(p, o, s) THEN Got(<<d, x>>) ELSE 1
    BY <1>1 DEF Reached
<1>9. R \in Nat /\ R < IsnStep
    BY <1>7, <1>8
<1>10. x = n /\ a = SentTo(i)
    <2>1. opens[d] \in Nat /\ opens[d] * IsnStep <= Modulus
        BY Incarnations
    <2>2. x \in 1 .. opens[d] /\ n \in 1 .. opens[d]
        BY <1>3, <1>4 DEF Used
    <2>3. a \in 0 .. IsnStep - 1 /\ SentTo(i) \in 0 .. IsnStep - 1
        BY <1>5, <1>6, <1>9
    <2>4. Numbered(x, a) = Numbered(n, SentTo(i))
        BY <1>5, <1>6
    <2> HIDE DEF x, n, i, R
    <2> QED
        BY <2>1, <2>2, <2>3, <2>4, NumberedApart
<1>11. R = SentTo(i)
    <2>1. SentTo(i) <= R
        BY <1>5, <1>9, <1>10
    <2>2. SentTo(i) >= 1
        BY <1>3, Offsets DEF Fits
    <2>3. R <= SentTo(i)
        BY <1>6, <1>7, <1>8, <1>10, <2>2
    <2> HIDE DEF R, i
    <2> QED
        BY <1>6, <1>9, <2>1, <2>3
<1> QED
    BY <1>2, <1>10, <1>11

\* The same, with what the connection becomes and what is sent.
LEMMA Quiet ==
    ASSUME Types, NEW p \in [Stream -> Nat], Fits(p), NEW d \in Device,
           NEW c \in {NoConn} \cup Connection, NEW segs \in SUBSET SegmentType,
           UNCHANGED <<bound, opens, streams>>, listening' \in BOOLEAN,
           conn' = [conn EXCEPT ![d] = c], network' \subseteq network \cup segs,
           \A seg \in segs : SegmentOK(p, seg),
           c # NoConn => ConnectionOK(p, d, c)
    PROVE  TcpInv'
<1>1. Types'
    BY DEF Types, streams
<1>2. conn'[d] = c /\ conn'[Other(d)] = conn[Other(d)]
    BY Others DEF Types
<1> QED
    BY <1>1, <1>2, QuietStep

\* The connection of a device, when it has one.
LEMMA Current ==
    ASSUME Types, NEW p \in [Stream -> Nat], Fits(p), NEW d \in Device, conn[d] # NoConn
    PROVE  conn[d] \in Connection /\ ConnectionOK(p, d, conn[d])
<1>1. conn[d] \in Connection
    BY DEF Types
<1>2. \A c \in {conn[d]} \ {NoConn} : ConnectionOK(p, d, c)
    BY DEF Fits
<1> QED
    BY <1>1, <1>2

\* A segment with RST takes part in nothing.
LEMMA ResetFits ==
    ASSUME NEW p, NEW seg, "RST" \in seg.flags
    PROVE  SegmentOK(p, seg)
BY DEF SegmentOK

-----------------------------------------------------------------------------
(* The steps that leave the streams alone *)

\* Opening and removing the listener touches nothing else.
LEMMA ListenInv ==
    ASSUME TcpInv, Listen
    PROVE  TcpInv'
<1> DEFINE none == {}
<1>1. PICK p \in [Stream -> Nat] : Fits(p)
    BY DEF TcpInv
<1>2. Types /\ "client" \in Device
    BY DEF TcpInv, Device
<1>3. conn' = [conn EXCEPT !["client"] = conn["client"]] /\ conn["client"] \in {NoConn} \cup Connection
    BY <1>2 DEF Listen, Types
<1>4. /\ UNCHANGED <<bound, opens, streams>> /\ listening' \in BOOLEAN
      /\ network' \subseteq network \cup none
    BY <1>2 DEF Listen, Types
<1>5. conn["client"] # NoConn => ConnectionOK(p, "client", conn["client"])
    BY <1>1, <1>2, Current
<1>9. none \in SUBSET SegmentType /\ \A seg \in none : SegmentOK(p, seg)
    OBVIOUS
<1> HIDE DEF none
<1> QED
    BY <1>1, <1>2, <1>3, <1>4, <1>5, <1>9, Quiet

\* Draining the buffer sends an acknowledgment.
LEMMA ReadInv ==
    ASSUME TcpInv, NEW d \in Device, Read(d)
    PROVE  TcpInv'
<1> DEFINE c == [conn[d] EXCEPT !.received = 0]
           seg == Segment(d, c, {"ACK"}, 0)
<1>1. PICK p \in [Stream -> Nat] : Fits(p)
    BY DEF TcpInv
<1>2. Types
    BY DEF TcpInv
<1>3. conn[d] \in Connection /\ ConnectionOK(p, d, conn[d])
    BY <1>1, <1>2, Current DEF Read
<1>4. /\ UNCHANGED <<bound, opens, streams>> /\ listening' \in BOOLEAN
      /\ conn' = [conn EXCEPT ![d] = c] /\ network' \subseteq network \cup {seg}
    BY <1>2, Posted DEF Read, Types
<1>5. c \in Connection
    BY <1>3 DEF Connection
<1>6. c.peer # 0
    BY <1>3 DEF Read, ConnectionOK, Connection
<1>7. ConnectionOK(p, d, c)
    BY <1>3 DEF ConnectionOK, Connection
<1> HIDE DEF c
<1>8. SegmentOK(p, seg) /\ seg \in SegmentType
    BY <1>1, <1>2, <1>5, <1>6, <1>7, AckFits
<1> HIDE DEF seg
<1> QED
    BY <1>1, <1>2, <1>4, <1>5, <1>7, <1>8, Quiet

\* An abort forgets the connection and sends a reset.
LEMMA AbortInv ==
    ASSUME TcpInv, NEW d \in Device, Abort(d)
    PROVE  TcpInv'
<1> DEFINE seg == Segment(d, conn[d], {"RST", "ACK"}, 0)
<1>1. PICK p \in [Stream -> Nat] : Fits(p)
    BY DEF TcpInv
<1>2. Types
    BY DEF TcpInv
<1>3. conn[d] \in Connection
    BY <1>1, <1>2, Current DEF Abort
<1>4. /\ UNCHANGED <<bound, opens, streams>> /\ listening' \in BOOLEAN
      /\ conn' = [conn EXCEPT ![d] = NoConn] /\ network' \subseteq network \cup {seg}
    BY <1>2, Posted DEF Abort, Types
<1>5. seg \in SegmentType
    BY <1>3, SegmentTyped DEF Flag
<1>6. SegmentOK(p, seg)
    BY ResetFits DEF Segment
<1> HIDE DEF seg
<1> QED
    BY <1>1, <1>2, <1>4, <1>5, <1>6, Quiet

\* An expired connection is forgotten.
LEMMA ExpireInv ==
    ASSUME TcpInv, NEW d \in Device, Expire(d)
    PROVE  TcpInv'
<1> DEFINE none == {}
<1>1. PICK p \in [Stream -> Nat] : Fits(p)
    BY DEF TcpInv
<1>2. Types
    BY DEF TcpInv
<1>3. /\ UNCHANGED <<bound, opens, streams>> /\ listening' \in BOOLEAN
      /\ conn' = [conn EXCEPT ![d] = NoConn] /\ network' \subseteq network \cup none
    BY <1>2 DEF Expire, Types
<1>9. none \in SUBSET SegmentType /\ \A seg \in none : SegmentOK(p, seg)
    OBVIOUS
<1> HIDE DEF none
<1> QED
    BY <1>1, <1>2, <1>3, <1>9, Quiet

\* A retransmission sends the outstanding segment again.
LEMMA RetransmitInv ==
    ASSUME TcpInv, NEW d \in Device, Retransmit(d)
    PROVE  TcpInv'
<1> DEFINE c == [conn[d] EXCEPT !.outstanding.retries = @ + 1]
           seg == conn[d].outstanding.segment
<1>1. PICK p \in [Stream -> Nat] : Fits(p)
    BY DEF TcpInv
<1>2. Types
    BY DEF TcpInv
<1>3. conn[d] \in Connection /\ ConnectionOK(p, d, conn[d])
    <2>1. conn[d] # NoConn
        BY DEF Retransmit, Pending, NoConn
    <2> QED
        BY <1>1, <1>2, <2>1, Current
<1>4. /\ UNCHANGED <<bound, opens, streams>> /\ listening' \in BOOLEAN
      /\ conn' = [conn EXCEPT ![d] = c] /\ network' \subseteq network \cup {seg}
    BY <1>2, Posted DEF Retransmit, Types
<1>5. conn[d].outstanding # None /\ conn[d].outstanding \in Outstanding
    BY <1>3 DEF Connection, Retransmit, Pending
<1>6. SegmentOK(p, seg) /\ seg \in SegmentType
    BY <1>3, <1>5 DEF ConnectionOK, Outstanding
<1>7. c \in Connection
    BY <1>3, <1>5 DEF Connection, Outstanding
<1>8. c.outstanding.segment = seg
    BY <1>3, <1>5 DEF Connection, Outstanding
<1>9. \A f \in {"state", "send_next", "receive_next", "received", "peer_closed", "own", "peer"} : c[f] = conn[d][f]
    BY <1>3 DEF Connection
<1>10. /\ c.state = conn[d].state /\ c.send_next = conn[d].send_next
       /\ c.receive_next = conn[d].receive_next /\ c.received = conn[d].received
       /\ c.peer_closed = conn[d].peer_closed /\ c.own = conn[d].own /\ c.peer = conn[d].peer
    BY <1>3 DEF Connection
<1>11. c.outstanding # None
    <2>1. c.outstanding \in Outstanding
        BY <1>3, <1>5 DEF Connection, Outstanding
    <2> QED
        BY <2>1, NotNone
<1> HIDE DEF c
<1>12. ConnectionOK(p, d, c)
    BY <1>3, <1>6, <1>8, <1>10, <1>11 DEF ConnectionOK
<1> HIDE DEF seg
<1> QED
    BY <1>1, <1>2, <1>4, <1>6, <1>7, <1>12, Quiet

\* A connection that gives up is closed.
LEMMA GiveUpInv ==
    ASSUME TcpInv, NEW d \in Device, GiveUp(d)
    PROVE  TcpInv'
<1> DEFINE c == [conn[d] EXCEPT !.state = "Closed"]
<1> DEFINE none == {}
<1>1. PICK p \in [Stream -> Nat] : Fits(p)
    BY DEF TcpInv
<1>2. Types
    BY DEF TcpInv
<1>3. conn[d] \in Connection /\ ConnectionOK(p, d, conn[d])
    <2>1. conn[d] # NoConn
        BY DEF GiveUp, Pending, NoConn
    <2> QED
        BY <1>1, <1>2, <2>1, Current
<1>4. /\ UNCHANGED <<bound, opens, streams>> /\ listening' \in BOOLEAN
      /\ conn' = [conn EXCEPT ![d] = c] /\ network' \subseteq network \cup none
    BY <1>2 DEF GiveUp, Types
<1>5. c \in Connection
    BY <1>3 DEF Connection, States
<1>6. ConnectionOK(p, d, c)
    BY <1>3 DEF ConnectionOK, Connection, Synchronized
<1>9. none \in SUBSET SegmentType /\ \A seg \in none : SegmentOK(p, seg)
    OBVIOUS
<1> HIDE DEF c, none
<1> QED
    BY <1>1, <1>2, <1>4, <1>5, <1>6, <1>9, Quiet

\* A segment for no connection is answered with a reset.
LEMMA ReceiveUnknownInv ==
    ASSUME TcpInv, NEW d \in Device, NEW seg \in network, ReceiveUnknown(d, seg)
    PROVE  TcpInv'
<1> DEFINE blank == Segment(d, [NewConnection(0) EXCEPT !.send_next = 0], {"RST"}, 0)
           reset == IF Has(seg, {"ACK"})
                    THEN [blank EXCEPT !.sequence = seg.acknowledgment]
                    ELSE [blank EXCEPT !.flags = {"RST", "ACK"},
                            !.acknowledgment = Plus(seg.sequence, SequenceLen(seg))]
<1>1. PICK p \in [Stream -> Nat] : Fits(p)
    BY DEF TcpInv
<1>2. Types /\ seg \in SegmentType
    BY DEF TcpInv, Types
<1>3. /\ UNCHANGED <<bound, opens, streams>> /\ listening' \in BOOLEAN
      /\ conn' = [conn EXCEPT ![d] = NoConn] /\ network' \subseteq network \cup {reset}
    BY <1>2, Posted DEF ReceiveUnknown, Types
<1>4. blank = [to |-> Other(d), sequence |-> 0, acknowledgment |-> 0, flags |-> {"RST"},
               window |-> ReceiveLimit, byte |-> 0, stream |-> 0]
    BY DEF Segment, NewConnection
<1> HIDE DEF blank
<1>5. blank \in SegmentType
    BY <1>4, Others DEF SegmentType, Number, Flag
<1>6. seg.acknowledgment \in Number /\ Plus(seg.sequence, SequenceLen(seg)) \in Number
    <2>1. seg.sequence \in Nat /\ SequenceLen(seg) \in Nat
        BY <1>2, SequenceLens DEF SegmentType, Number
    <2> QED
        BY <1>2, <2>1 DEF Plus, SegmentType, Number
<1>7. reset \in SegmentType /\ "RST" \in reset.flags
    BY <1>4, <1>5, <1>6 DEF SegmentType, Flag
<1> HIDE DEF reset
<1>8. SegmentOK(p, reset)
    BY <1>7, ResetFits
<1> QED
    BY <1>1, <1>2, <1>3, <1>7, <1>8, Quiet

-----------------------------------------------------------------------------
(* A new incarnation *)

\* Device d opens incarnation n, which takes m of the other device, or none
\* yet, as its partner.
LEMMA Opening ==
    ASSUME Types, Types', NEW p \in [Stream -> Nat], Fits(p), NEW d \in Device,
           NEW n, n = opens[d] + 1, opens' = [opens EXCEPT ![d] = n],
           UNCHANGED <<bound, streams>>,
           NEW m \in {0} \cup Used(Other(d)),
           NEW q, q = [p EXCEPT ![<<d, n>>] = m],
           NEW segs, network' \subseteq network \cup segs,
           conn'[Other(d)] = conn[Other(d)]
    PROVE  /\ <<d, n>> \in Stream /\ n \in Used(d)' /\ q \in [Stream -> Nat] /\ q[<<d, n>>] = m
           /\ SentTo(<<d, n>>)' = 1 /\ ~Mutual(q, d, n) /\ ~shut'[<<d, n>>] /\ Got(<<d, n>>)' = 1
           /\ /\ \A seg \in segs : SegmentOK(q, seg)'
              /\ \A c \in {conn'[d]} \ {NoConn} : ConnectionOK(q, d, c)'
              => TcpInv'
<1> DEFINE i == <<d, n>>
           o == Other(d)
<1>1. o \in Device /\ o # d /\ Other(o) = d
    BY Others
<1>2. /\ opens[d] \in Nat /\ opens[o] \in Nat /\ opens'[d] = n /\ opens'[o] = opens[o]
      /\ n \in Nat /\ n \notin Used(d)
    BY <1>1 DEF Types, Used
<1>3. /\ Used(d)' = Used(d) \cup {n} /\ Used(o)' = Used(o) /\ n # 0
      /\ \A x \in Used(d) : x # n
    BY <1>2 DEF Used
<1>4. i \in Stream
    <2>1. bound' \in Bounds /\ bound'.opens \in Nat /\ bound'.accepts \in Nat
        BY TcpAssumption DEF Types, Bound
    <2>2. CASE d = "client"
        <3>1. n \in 1 .. bound'.opens
            BY <1>2, <1>3, <2>1, <2>2 DEF Types
        <3> QED
            BY <2>1, <2>2, <3>1 DEF Stream
    <2>3. CASE d = "server"
        <3>1. n \in 1 .. bound'.accepts
            BY <1>2, <1>3, <2>1, <2>3 DEF Types
        <3> QED
            BY <2>1, <2>3, <3>1 DEF Stream
    <2> QED
        BY <2>2, <2>3 DEF Device
<1>5. q \in [Stream -> Nat] /\ q[i] = m /\ p[i] = 0 /\ \A j \in Stream : j # i => q[j] = p[j]
    <2>1. m \in Nat
        BY <1>1, <1>2 DEF Used
    <2>2. p[i] = 0
        BY <1>2, <1>4 DEF Fits, Partners
    <2> QED
        BY <1>4, <2>1, <2>2
<1>6. \A j : (SentTo(j)' = SentTo(j)) /\ (Got(j)' = Got(j))
    BY DEF SentTo, Got, streams
<1>7. SentTo(i) = 1 /\ ~shut[i] /\ ~shut'[i] /\ Got(i) = 1
    <2>1. SentTo(i) = 1
        BY <1>2, <1>4 DEF Fits, StreamOK
    <2>2. SentTo(i) = 1 + written[i] + (IF shut[i] THEN 1 ELSE 0) /\ written[i] \in Nat /\ shut[i] \in BOOLEAN
        BY <1>4 DEF SentTo, Types
    <2>3. ~shut[i] /\ shut'[i] = shut[i]
        BY <2>1, <2>2 DEF streams
    <2>4. Got(i) \in Nat /\ Got(i) >= 1 /\ Got(i) <= SentTo(i)
        BY <1>4, Offsets DEF Fits
    <2> QED
        BY <2>1, <2>3, <2>4
<1>8. \A x : x \in Used(o) => <<o, x>> \in Stream /\ <<o, x>> # i /\ q[<<o, x>>] = p[<<o, x>>]
    BY <1>1, <1>5, Incarnations
<1>9. \A x : x \in Used(d) => <<d, x>> \in Stream /\ <<d, x>> # i /\ q[<<d, x>>] = p[<<d, x>>]
    BY <1>3, <1>5, Incarnations
<1>10. ~Mutual(q, d, n)
    <2> SUFFICES ASSUME m # 0, q[<<o, m>>] = n
                 PROVE  FALSE
        BY <1>5 DEF Mutual
    <2>1. m \in Used(o) /\ p[<<o, m>>] = n
        BY <1>8
    <2> QED
        BY <1>1, <1>3, <2>1 DEF Fits, Partners
<1>11. Partners(q)'
    <2>1. ASSUME NEW e \in Device, NEW x \in Used(e)', q[<<e, x>>] # 0
          PROVE  q[<<e, x>>] \in Used(Other(e))'
        <3>1. CASE e = d /\ x = n
            BY <1>3, <1>5, <2>1, <3>1
        <3>2. CASE e = d /\ x # n
            BY <1>3, <1>9, <2>1, <3>2 DEF Fits, Partners
        <3>3. CASE e = o
            <4>1. x \in Used(o) /\ p[<<o, x>>] # 0
                BY <1>3, <1>8, <2>1, <3>3
            <4>2. p[<<o, x>>] \in Used(d)
                BY <1>1, <4>1 DEF Fits, Partners
            <4> QED
                BY <1>1, <1>3, <1>8, <3>3, <4>1, <4>2
        <3> QED
            BY <3>1, <3>2, <3>3, Others
    <2>2. ASSUME NEW j \in Stream, j[2] \notin Used(j[1])'
          PROVE  q[j] = 0
        <3>1. j[1] \in Device /\ j # i /\ j[2] \notin Used(j[1])
            BY <1>3, <2>2, StreamType, Others
        <3> QED
            BY <1>5, <3>1 DEF Fits, Partners
    <2> QED
        BY <1>5, <2>1, <2>2 DEF Partners
<1>12. ASSUME NEW x \in Used(o)
       PROVE  Mutual(q, o, x) <=> Mutual(p, o, x)
    <2>1. q[<<o, x>>] = p[<<o, x>>]
        BY <1>8
    <2>2. p[<<o, x>>] # 0 => p[<<o, x>>] \in Used(d)
        BY <1>1 DEF Fits, Partners
    <2> QED
        BY <1>1, <1>9, <2>1, <2>2 DEF Mutual
<1>13. ASSUME NEW x \in Used(d)
       PROVE  Mutual(q, d, x) <=> Mutual(p, d, x)
    <2>1. q[<<d, x>>] = p[<<d, x>>]
        BY <1>9
    <2>2. p[<<d, x>>] # 0 => p[<<d, x>>] \in Used(o)
        BY <1>1 DEF Fits, Partners
    <2> QED
        BY <1>1, <1>8, <2>1, <2>2 DEF Mutual
<1>14. ASSUME NEW j \in Stream
       PROVE  StreamOK(q, j)'
    <2>1. StreamOK(p, j)
        BY DEF Fits
    <2>2. j[2] \notin Used(j[1])' => SentTo(j)' = 1
        <3>1. j[1] \in Device
            BY StreamType
        <3> QED
            BY <1>3, <1>6, <2>1, <3>1, Others DEF StreamOK
    <2>3. Got(j)' # 1 => Mutual(q, j[1], j[2])
        <3> SUFFICES ASSUME Got(j) # 1
                     PROVE  Mutual(q, j[1], j[2])
            BY <1>6
        <3>1. Mutual(p, j[1], j[2])
            BY <2>1 DEF StreamOK
        <3>2. j[1] \in Device /\ j = <<j[1], j[2]>>
            BY StreamType
        <3>3. j[2] \in Used(j[1])
            <4>1. p[j] # 0
                BY <3>1, <3>2 DEF Mutual
            <4> QED
                BY <4>1 DEF Fits, Partners
        <3>4. CASE j[1] = d
            BY <1>13, <3>1, <3>3, <3>4
        <3>5. CASE j[1] = o
            BY <1>12, <3>1, <3>3, <3>5
        <3> QED
            BY <3>2, <3>4, <3>5, Others
    <2> QED
        BY <2>1, <2>2, <2>3 DEF StreamOK, streams, Mutual
<1>15. Grows(p, q)
    <2>1. \A e \in Device : opens[e] <= opens'[e]
        BY <1>2, Others
    <2>2. ASSUME NEW j \in Stream
          PROVE  Got(j) \in Nat /\ written[j] \in Nat
        BY Offsets DEF Fits
    <2> QED
        BY <1>5, <1>6, <2>1, <2>2 DEF Grows, streams
<1>16. ASSUME NEW c \in {conn'[o]} \ {NoConn}
       PROVE  ConnectionOK(q, o, c)'
    <2>1. c \in Connection /\ ConnectionOK(p, o, c)
        BY <1>1, <1>16, Current
    <2>2. c.own \in Used(o) /\ c.peer = p[<<o, c.own>>]
        BY <2>1 DEF ConnectionOK
    <2>3. /\ written'[<<o, c.own>>] = written[<<o, c.own>>]
          /\ shut'[<<o, c.own>>] = shut[<<o, c.own>>]
          /\ q[<<o, c.own>>] = p[<<o, c.own>>]
        BY <1>8, <2>2 DEF streams
    <2>4. Reached(q, o, c.own)' = Reached(p, o, c.own)
        BY <1>6, <1>12, <2>2, <2>3 DEF Reached, Mutual
    <2>5. Mutual(q, o, c.own)' /\ eof'[<<d, c.peer>>] => Mutual(p, o, c.own) /\ eof[<<d, c.peer>>]
        BY <1>12, <2>2 DEF Mutual, streams
    <2>6. Partners(p) /\ \A j \in Stream : StreamOK(p, j)
        BY DEF Fits
    <2> QED
        BY <1>1, <1>5, <1>14, <1>15, <2>1, <2>3, <2>4, <2>5, <2>6, ConnectionKept
<1>17. ASSUME \A seg \in segs : SegmentOK(q, seg)',
              \A c \in {conn'[d]} \ {NoConn} : ConnectionOK(q, d, c)'
       PROVE  TcpInv'
    BY <1>5, <1>11, <1>14, <1>15, <1>16, <1>17, StepInv
<1> QED
    BY <1>3, <1>4, <1>5, <1>6, <1>7, <1>10, <1>17

\* The SYN of a new connection.
LEMMA Syn ==
    ASSUME NEW d \in Device, NEW new \in Connection, NEW flags \in {{"SYN"}, {"SYN", "ACK"}},
           NEW n \in Nat, new.own = n, new.send_next = InitialSequence(n)
    PROVE  LET seg == Segment(d, new, flags, 0)
               c == Sending(d, new, flags, 0)
           IN /\ seg \in SegmentType
              /\ seg.to = Other(d) /\ seg.sequence = Numbered(n, 0) /\ seg.byte = 0
              /\ seg.flags = flags /\ seg.stream = n /\ seg.acknowledgment = new.receive_next
              /\ c \in Connection /\ c # NoConn
              /\ c.outstanding # None /\ c.outstanding.segment = seg
              /\ c.send_next = Numbered(n, 1)
              /\ c.state = new.state /\ c.receive_next = new.receive_next
              /\ c.received = new.received /\ c.peer_closed = new.peer_closed
              /\ c.own = n /\ c.peer = new.peer
<1> DEFINE seg == Segment(d, new, flags, 0)
           out == [segment |-> seg, retries |-> 0]
           c == Sending(d, new, flags, 0)
<1>1. seg \in SegmentType
    BY SegmentTyped DEF Flag
<1>2. /\ seg.to = Other(d) /\ seg.sequence = new.send_next /\ seg.byte = 0
      /\ seg.flags = flags /\ seg.stream = n /\ seg.acknowledgment = new.receive_next
    BY DEF Segment
<1>0. c = [new EXCEPT !.send_next = Plus(new.send_next, SequenceLen(seg)),
                      !.outstanding = IF SequenceLen(seg) = 0 THEN new.outstanding ELSE out]
    BY DEF Sending, Connection
<1> HIDE DEF seg, c
<1>3. SequenceLen(seg) = 1
    BY <1>2, SequenceLens
<1>4. Plus(new.send_next, 1) = Numbered(n, 1) /\ new.send_next = Numbered(n, 0) /\ Numbered(n, 1) \in Number
    BY NumberedMod
<1>5. out \in Outstanding /\ out # None
    BY <1>1, NotNone DEF Outstanding
<1>6. c = [new EXCEPT !.send_next = Numbered(n, 1), !.outstanding = out]
    <2>1. /\ Plus(new.send_next, SequenceLen(seg)) = Numbered(n, 1)
          /\ (IF SequenceLen(seg) = 0 THEN new.outstanding ELSE out) = out
        BY <1>3, <1>4
    <2> QED
        BY <1>0, <2>1
<1>7. out.segment = seg
    OBVIOUS
<1> HIDE DEF out
<1>8. c \in Connection
    BY <1>4, <1>5, <1>6 DEF Connection
<1>9. /\ c.outstanding = out /\ c.send_next = Numbered(n, 1)
      /\ c.state = new.state /\ c.receive_next = new.receive_next
      /\ c.received = new.received /\ c.peer_closed = new.peer_closed
      /\ c.own = n /\ c.peer = new.peer
    BY <1>6 DEF Connection
<1>10. c # NoConn
    BY <1>8, NotNoConn
<1> QED
    BY <1>1, <1>2, <1>4, <1>5, <1>7, <1>8, <1>9, <1>10 DEF seg, c

\* A client opens a connection.
LEMMA ConnectInv ==
    ASSUME TcpInv, Connect
    PROVE  TcpInv'
<1> DEFINE d == "client"
<1>0. PICK n : n = opens[d] + 1
    OBVIOUS
<1> DEFINE i == <<d, n>>
           new == [NewConnection(n) EXCEPT !.state = "SynSent"]
           seg == Segment(d, new, {"SYN"}, 0)
           c == Sending(d, new, {"SYN"}, 0)
<1>1. PICK p \in [Stream -> Nat] : Fits(p)
    BY DEF TcpInv
<1>2. Types /\ d \in Device /\ Other(d) \in Device /\ Other(d) # d
    BY Others DEF TcpInv, Device
<1>3. n \in Nat /\ opens[d] \in Nat
    BY <1>0, <1>2 DEF Types
<1>4. /\ opens' = [opens EXCEPT ![d] = n] /\ opens'[d] = n /\ n <= bound.opens
      /\ UNCHANGED <<bound, listening, streams>>
    BY <1>0, <1>2, <1>3, TcpAssumption DEF Connect, Types, Bound
<1>5. conn' = [conn EXCEPT ![d] = c] /\ Post({seg})
    BY <1>4 DEF Connect
<1>6. new \in Connection /\ new.own = n /\ new.send_next = InitialSequence(n)
    <2>1. InitialSequence(n) \in Number
        BY <1>3, NumberedMod
    <2>2. 0 \in Number
        BY DEF Number
    <2>3. NewConnection(n) \in Connection
        BY <1>3, <2>1, <2>2 DEF NewConnection, Connection, States
    <2> QED
        BY <2>3 DEF NewConnection, Connection, States
<1>7. new.state = "SynSent" /\ new.received = 0 /\ new.peer = 0 /\ ~new.peer_closed
    BY DEF NewConnection
<1> HIDE DEF new
<1>8. /\ seg \in SegmentType
      /\ seg.to = Other(d) /\ seg.sequence = Numbered(n, 0) /\ seg.byte = 0
      /\ seg.flags = {"SYN"} /\ seg.stream = n
      /\ c \in Connection /\ c # NoConn
      /\ c.outstanding # None /\ c.outstanding.segment = seg
      /\ c.send_next = Numbered(n, 1)
      /\ c.state = "SynSent" /\ c.received = 0
      /\ c.own = n /\ c.peer = 0
    BY <1>2, <1>3, <1>6, <1>7, Syn
<1> HIDE DEF seg, c
<1>9. /\ conn'[d] = c /\ conn'[Other(d)] = conn[Other(d)]
      /\ network' \subseteq network \cup {seg}
    BY <1>2, <1>5, Posted DEF Types
<1>10. Types'
    <2>1. opens' \in [Device -> Nat] /\ opens'["server"] = opens["server"]
        BY <1>2, <1>3, <1>4 DEF Types
    <2>2. conn' \in [Device -> {NoConn} \cup Connection] /\ network' \in SUBSET SegmentType
        BY <1>2, <1>5, <1>8, <1>9 DEF Types
    <2> QED
        BY <1>2, <1>4, <2>1, <2>2 DEF Types, streams
<1>11. PICK m \in {0} \cup Used(Other(d)) : m = 0
    OBVIOUS
<1> DEFINE q == [p EXCEPT ![<<d, n>>] = m]
           segs == {seg}
<1>12. q = [p EXCEPT ![<<d, n>>] = m] /\ network' \subseteq network \cup segs /\ UNCHANGED <<bound, streams>>
    BY <1>4, <1>9
<1> HIDE DEF d, q, segs
<1>13. /\ <<d, n>> \in Stream /\ n \in Used(d)' /\ q \in [Stream -> Nat] /\ q[<<d, n>>] = m
       /\ SentTo(<<d, n>>)' = 1 /\ ~Mutual(q, d, n) /\ ~shut'[<<d, n>>] /\ Got(<<d, n>>)' = 1
       /\ /\ \A sg \in segs : SegmentOK(q, sg)'
          /\ \A x \in {conn'[d]} \ {NoConn} : ConnectionOK(q, d, x)'
          => TcpInv'
    <2>1. opens' = [opens EXCEPT ![d] = n]
        BY <1>4
    <2> QED
        BY <1>0, <1>1, <1>2, <1>9, <1>10, <1>11, <1>12, <2>1, Opening, ZenonT(40)
<1>14. SegmentOK(q, seg)'
    BY <1>2, <1>8, <1>13, Others DEF SegmentOK, Carries
<1>15. ConnectionOK(q, d, c)'
    BY <1>8, <1>11, <1>13, <1>14 DEF ConnectionOK, Mutual, d, Synchronized
<1> QED
    BY <1>9, <1>13, <1>14, <1>15 DEF segs

\* The listener answers a SYN with a connection of its own.
LEMMA ReceiveListenerInv ==
    ASSUME TcpInv, NEW d \in Device, NEW syn \in network, ReceiveListener(d, syn)
    PROVE  TcpInv'
<1>0. PICK n : n = opens[d] + 1
    OBVIOUS
<1>m. PICK m : m = syn.stream
    OBVIOUS
<1> DEFINE new == [NewConnection(n) EXCEPT
                     !.state = "SynReceived", !.receive_next = Plus(syn.sequence, 1),
                     !.peer_window = syn.window, !.peer = syn.stream]
           seg == Segment(d, new, {"SYN", "ACK"}, 0)
           c == Sending(d, new, {"SYN", "ACK"}, 0)
<1>1. PICK p \in [Stream -> Nat] : Fits(p)
    BY DEF TcpInv
<1>2. Types /\ Other(d) \in Device /\ Other(d) # d /\ Other(Other(d)) = d /\ d = "server"
    BY Others DEF TcpInv, ReceiveListener, Listens
<1>3. n \in Nat /\ opens[d] \in Nat
    BY <1>0, <1>2 DEF Types
<1>4. /\ opens' = [opens EXCEPT ![d] = n] /\ opens'[d] = n /\ n <= bound.accepts
      /\ UNCHANGED <<bound, listening, streams>>
    BY <1>0, <1>2, <1>3, TcpAssumption DEF ReceiveListener, Types, Bound
<1>5. conn' = [conn EXCEPT ![d] = c] /\ Post({seg})
    BY <1>4 DEF ReceiveListener
<1>6. /\ syn \in SegmentType /\ m \in Used(Other(d)) /\ m \in Nat /\ m # 0
      /\ Plus(syn.sequence, 1) = Numbered(m, 1) /\ Numbered(m, 1) \in Number
    <2>1. syn \in SegmentType /\ SegmentOK(p, syn) /\ syn.to = d /\ syn.flags = {"SYN"}
        BY <1>1, <1>2 DEF Types, Fits, ReceiveListener, Deliver, Listens
    <2>2. m \in Used(Other(d)) /\ syn.sequence = Numbered(m, 0)
        BY <1>m, <2>1 DEF SegmentOK, Carries
    <2>3. m \in Nat /\ m # 0
        BY <1>m, <2>1, <2>2 DEF SegmentType, Used
    <2>4. Plus(Numbered(m, 0), 1) = Numbered(m, 0 + 1) /\ Numbered(m, 1) \in Number
        BY <2>3, NumberedMod
    <2> QED
        BY <2>1, <2>2, <2>3, <2>4
<1>7. new \in Connection /\ new.own = n /\ new.send_next = InitialSequence(n)
    <2>1. InitialSequence(n) \in Number
        BY <1>3, NumberedMod
    <2>2. 0 \in Number
        BY DEF Number
    <2>3. NewConnection(n) \in Connection
        BY <1>3, <2>1, <2>2 DEF NewConnection, Connection, States
    <2>4. "SynReceived" \in States /\ Plus(syn.sequence, 1) \in Number /\ syn.window \in 0 .. ReceiveLimit /\ m \in Nat
        BY <1>6 DEF States, SegmentType
    <2>5. new \in Connection
        BY <1>m, <2>3, <2>4 DEF Connection
    <2> QED
        BY <2>5 DEF NewConnection
<1>8. new.state = "SynReceived" /\ new.received = 0 /\ new.peer = m /\ new.receive_next = Numbered(m, 1)
    BY <1>m, <1>6 DEF NewConnection
<1> HIDE DEF new
<1>9. /\ seg \in SegmentType
      /\ seg.to = Other(d) /\ seg.sequence = Numbered(n, 0) /\ seg.byte = 0
      /\ seg.flags = {"SYN", "ACK"} /\ seg.stream = n /\ seg.acknowledgment = Numbered(m, 1)
      /\ c \in Connection /\ c # NoConn
      /\ c.outstanding # None /\ c.outstanding.segment = seg
      /\ c.send_next = Numbered(n, 1) /\ c.receive_next = Numbered(m, 1)
      /\ c.state = "SynReceived" /\ c.own = n /\ c.peer = m
    BY <1>3, <1>7, <1>8, Syn
<1> HIDE DEF seg, c
<1>10. /\ conn'[d] = c /\ conn'[Other(d)] = conn[Other(d)]
       /\ network' \subseteq network \cup {seg}
    BY <1>2, <1>5, Posted DEF Types
<1>11. Types'
    <2>1. opens' \in [Device -> Nat] /\ opens'["client"] = opens["client"]
        BY <1>2, <1>3, <1>4 DEF Types
    <2>2. conn' \in [Device -> {NoConn} \cup Connection] /\ network' \in SUBSET SegmentType
        BY <1>2, <1>5, <1>9, <1>10 DEF Types
    <2> QED
        BY <1>2, <1>4, <2>1, <2>2 DEF Types, streams
<1> DEFINE q == [p EXCEPT ![<<d, n>>] = m]
           segs == {seg}
<1>12. /\ q = [p EXCEPT ![<<d, n>>] = m] /\ network' \subseteq network \cup segs
       /\ UNCHANGED <<bound, streams>> /\ m \in {0} \cup Used(Other(d))
    BY <1>4, <1>6, <1>10
<1> HIDE DEF q, segs
<1>13. /\ <<d, n>> \in Stream /\ n \in Used(d)' /\ q \in [Stream -> Nat] /\ q[<<d, n>>] = m
       /\ SentTo(<<d, n>>)' = 1 /\ ~Mutual(q, d, n) /\ ~shut'[<<d, n>>] /\ Got(<<d, n>>)' = 1
       /\ /\ \A sg \in segs : SegmentOK(q, sg)'
          /\ \A x \in {conn'[d]} \ {NoConn} : ConnectionOK(q, d, x)'
          => TcpInv'
    <2>1. opens' = [opens EXCEPT ![d] = n]
        BY <1>4
    <2>2. Types /\ conn'[Other(d)] = conn[Other(d)] /\ network' \subseteq network \cup segs
        BY <1>2, <1>10, <1>12
    <2> QED
        BY <1>0, <1>1, <1>11, <1>12, <2>1, <2>2, Opening
<1>14. Reached(q, d, n)' = 1 /\ 1 \in 1 .. 1
    BY <1>13 DEF Reached, Mutual
<1>15. SegmentOK(q, seg)'
    BY <1>2, <1>6, <1>9, <1>13, <1>14 DEF SegmentOK, Carries, AckOK
<1>16. ConnectionOK(q, d, c)'
    BY <1>6, <1>9, <1>13, <1>14, <1>15 DEF ConnectionOK, Mutual, Synchronized
<1> QED
    BY <1>10, <1>13, <1>15, <1>16 DEF segs

-----------------------------------------------------------------------------
(* The application writes and closes *)

\* Device d writes to, or shuts, the stream i of its connection c.
LEMMA Advancing ==
    ASSUME Types, Types', NEW p \in [Stream -> Nat], Fits(p), NEW d \in Device,
           UNCHANGED <<bound, opens, accepted, eof>>,
           NEW n \in Used(d), NEW i, i = <<d, n>>, ~shut[i],
           written[i] <= written'[i], written'[i] <= bound.bytes,
           \A j \in Stream : j # i => written'[j] = written[j] /\ shut'[j] = shut[j],
           NEW segs, network' \subseteq network \cup segs,
           conn'[Other(d)] = conn[Other(d)]
    PROVE  /\ \A j : (Got(j)' = Got(j))
           /\ \A x : (Reached(p, d, x)' = Reached(p, d, x))
           /\ Used(d)' = Used(d)
           /\ /\ \A seg \in segs : SegmentOK(p, seg)'
              /\ \A c \in {conn'[d]} \ {NoConn} : ConnectionOK(p, d, c)'
              => TcpInv'
<1> DEFINE o == Other(d)
<1>1. o \in Device /\ o # d /\ Other(o) = d
    BY Others
<1>2. i \in Stream
    BY Incarnations
<1>3. \A j : (Got(j)' = Got(j))
    BY DEF Got
<1>4. \A e : Used(e)' = Used(e)
    BY DEF Used
<1>5. \A e, x : (Reached(p, e, x)' = Reached(p, e, x))
    BY <1>3 DEF Reached, Mutual
<1>6. Partners(p)'
    BY <1>4 DEF Fits, Partners
<1>7. ASSUME NEW j \in Stream
      PROVE  StreamOK(p, j)'
    <2>1. StreamOK(p, j)
        BY DEF Fits
    <2>2. CASE j # i
        BY <1>3, <1>4, <2>1, <2>2 DEF StreamOK, Mutual, SentTo
    <2>3. CASE j = i
        <3>1. Len(accepted[i]) <= written'[i]
            <4>1. Len(accepted[i]) \in Nat /\ written[i] \in Nat /\ written'[i] \in Nat /\ Len(accepted[i]) <= written[i]
                BY <1>2, <2>1, <2>3 DEF StreamOK, Types
            <4> QED
                BY <4>1
        <3>2. ~eof[i]
            BY <2>1, <2>3 DEF StreamOK
        <3>3. i[2] \in Used(i[1])'
            BY <1>4
        <3> QED
            BY <1>3, <2>1, <2>3, <3>1, <3>2, <3>3 DEF StreamOK, Mutual
    <2> QED
        BY <2>2, <2>3
<1>8. Grows(p, p)
    <2>1. ASSUME NEW j \in Stream
          PROVE  Got(j) \in Nat /\ written[j] \in Nat
        BY Offsets DEF Fits
    <2>2. \A e \in Device : opens[e] <= opens'[e]
        BY DEF Types
    <2>3. ASSUME NEW j \in Stream
          PROVE  /\ written[j] <= written'[j] /\ Got(j) <= Got(j)'
                 /\ shut[j] => shut'[j] /\ written'[j] = written[j]
        BY <1>3, <2>1
    <2> QED
        BY <2>2, <2>3 DEF Grows
<1>9. ASSUME NEW c \in {conn'[o]} \ {NoConn}
      PROVE  ConnectionOK(p, o, c)'
    <2>1. c \in Connection /\ ConnectionOK(p, o, c)
        BY <1>1, <1>9, Current
    <2>2. c.own \in Used(o) /\ <<o, c.own>> \in Stream /\ <<o, c.own>> # i
        BY <1>1, <2>1, Incarnations DEF ConnectionOK
    <2>3. /\ written'[<<o, c.own>>] = written[<<o, c.own>>]
          /\ shut'[<<o, c.own>>] = shut[<<o, c.own>>]
        BY <2>2
    <2>4. Mutual(p, o, c.own)' /\ eof'[<<d, c.peer>>] => Mutual(p, o, c.own) /\ eof[<<d, c.peer>>]
        BY DEF Mutual
    <2>5. Partners(p) /\ \A j \in Stream : StreamOK(p, j)
        BY DEF Fits
    <2> QED
        BY <1>1, <1>5, <1>7, <1>8, <2>1, <2>3, <2>4, <2>5, ConnectionKept
<1>10. ASSUME \A seg \in segs : SegmentOK(p, seg)',
              \A c \in {conn'[d]} \ {NoConn} : ConnectionOK(p, d, c)'
       PROVE  TcpInv'
    BY <1>6, <1>7, <1>8, <1>9, <1>10, StepInv
<1> QED
    BY <1>3, <1>4, <1>5, <1>10

\* What a connection sends with an acknowledgment becomes outstanding.
LEMMA Data ==
    ASSUME NEW d \in Device, NEW c \in Connection, NEW flags, NEW byte \in Nat,
           \/ flags = {"ACK"} /\ byte # 0
           \/ flags = {"ACK", "FIN"} /\ byte = 0,
           NEW k \in Nat, c.send_next = Numbered(c.own, k)
    PROVE  LET seg == Segment(d, c, flags, byte)
               e == Sending(d, c, flags, byte)
           IN /\ seg \in SegmentType
              /\ seg.to = Other(d) /\ seg.sequence = Numbered(c.own, k) /\ seg.byte = byte
              /\ seg.flags = flags /\ seg.stream = c.own
              /\ e \in Connection
              /\ e.outstanding # None /\ e.outstanding.segment = seg
              /\ e.send_next = Numbered(c.own, k + 1)
              /\ e.state = c.state /\ e.receive_next = c.receive_next
              /\ e.received = c.received /\ e.peer_closed = c.peer_closed
              /\ e.own = c.own /\ e.peer = c.peer
<1> DEFINE seg == Segment(d, c, flags, byte)
           out == [segment |-> seg, retries |-> 0]
           e == Sending(d, c, flags, byte)
           n == c.own
<1>1. seg \in SegmentType
    BY SegmentTyped DEF Flag
<1>2. /\ seg.to = Other(d) /\ seg.sequence = c.send_next /\ seg.byte = byte
      /\ seg.flags = flags /\ seg.stream = n
    BY DEF Segment
<1>3. e = [c EXCEPT !.send_next = Plus(c.send_next, SequenceLen(seg)),
                    !.outstanding = IF SequenceLen(seg) = 0 THEN c.outstanding ELSE out]
    BY DEF Sending, Connection
<1> HIDE DEF seg, e
<1>4. SequenceLen(seg) = 1
    <2>1. seg.byte \in Nat /\ DataLen(seg) = IF seg.byte = 0 THEN 0 ELSE 1
        BY <1>2 DEF DataLen
    <2>2. CASE flags = {"ACK"} /\ byte # 0
        BY <1>2, <2>1, <2>2, SequenceLens
    <2>3. CASE flags = {"ACK", "FIN"} /\ byte = 0
        BY <1>2, <2>1, <2>3, SequenceLens
    <2> QED
        BY <2>2, <2>3
<1>5. Plus(c.send_next, 1) = Numbered(n, k + 1) /\ Numbered(n, k + 1) \in Number
    <2>1. n \in Nat /\ k + 1 \in Nat
        BY DEF Connection
    <2> QED
        BY <2>1, NumberedMod, ZenonT(40)
<1>6. out \in Outstanding /\ out # None
    BY <1>1, NotNone DEF Outstanding
<1>7. e = [c EXCEPT !.send_next = Numbered(n, k + 1), !.outstanding = out]
    <2>1. /\ Plus(c.send_next, SequenceLen(seg)) = Numbered(n, k + 1)
          /\ (IF SequenceLen(seg) = 0 THEN c.outstanding ELSE out) = out
        BY <1>4, <1>5
    <2> QED
        BY <1>3, <2>1
<1>8. out.segment = seg
    OBVIOUS
<1> HIDE DEF out
<1>9. e \in Connection
    BY <1>5, <1>6, <1>7 DEF Connection
<1>10. /\ e.outstanding = out /\ e.send_next = Numbered(n, k + 1)
       /\ e.state = c.state /\ e.receive_next = c.receive_next
       /\ e.received = c.received /\ e.peer_closed = c.peer_closed
       /\ e.own = n /\ e.peer = c.peer
    BY <1>7 DEF Connection
<1> QED
    BY <1>1, <1>2, <1>6, <1>8, <1>9, <1>10 DEF seg, e

\* The application writes a byte: nothing is outstanding, so the other end has
\* all the earlier ones.
LEMMA SendInv ==
    ASSUME TcpInv, NEW d \in Device, Send(d)
    PROVE  TcpInv'
<1>1. PICK p \in [Stream -> Nat] : Fits(p)
    BY DEF TcpInv
<1>2. Types /\ Other(d) \in Device /\ Other(d) # d /\ Other(Other(d)) = d
    BY Others DEF TcpInv
<1>3. PICK c \in Connection : c = conn[d] /\ ConnectionOK(p, d, c)
    <2>1. conn[d] # NoConn
        BY DEF Send, NoConn
    <2> QED
        BY <1>1, <1>2, <2>1, Current
<1> DEFINE n == c.own
           i == <<d, n>>
<1>4. n \in Used(d) /\ i \in Stream /\ c.peer # 0 /\ ~shut[i] /\ Mutual(p, d, n)
    BY <1>2, <1>3, Incarnations DEF Send, ConnectionOK, Synchronized, Connection
<1>5. PICK w \in Nat : w = written[i]
    BY <1>2, <1>4 DEF Types
<1>6. w + 1 \in Nat /\ w + 1 # 0 /\ SentTo(i) = w + 1 /\ c.send_next = Numbered(n, w + 1)
    BY <1>3, <1>4, <1>5 DEF SentTo, ConnectionOK
<1> DEFINE seg == Segment(d, c, {"ACK"}, w + 1)
           e == Sending(d, c, {"ACK"}, w + 1)
<1>7. /\ written' = [written EXCEPT ![i] = w + 1] /\ written'[i] = w + 1 /\ w < bound.bytes
      /\ UNCHANGED <<bound, listening, opens, shut, accepted, eof>>
    BY <1>2, <1>3, <1>4, <1>5 DEF Send, Types
<1>8. conn' = [conn EXCEPT ![d] = e] /\ Post({seg})
    BY <1>3, <1>7 DEF Send
<1>9. /\ seg \in SegmentType
      /\ seg.to = Other(d) /\ seg.sequence = Numbered(n, w + 1) /\ seg.byte = w + 1
      /\ seg.flags = {"ACK"} /\ seg.stream = n
      /\ e \in Connection /\ e # NoConn
      /\ e.outstanding # None /\ e.outstanding.segment = seg
      /\ e.send_next = Numbered(n, w + 1 + 1)
      /\ e.state = c.state /\ e.receive_next = c.receive_next
      /\ e.received = c.received /\ e.peer_closed = c.peer_closed
      /\ e.own = n /\ e.peer = c.peer
    BY <1>6, Data, NotNoConn
<1>10. AckOK(p, d, n, seg)
    BY <1>1, <1>2, <1>3, <1>4, AckFits
<1> HIDE DEF seg, e
<1>11. /\ conn'[d] = e /\ conn'[Other(d)] = conn[Other(d)]
       /\ network' \subseteq network \cup {seg}
    BY <1>2, <1>8, Posted DEF Types
<1>12. Types'
    <2>1. written' \in [Stream -> Nat]
        BY <1>2, <1>4, <1>6, <1>7 DEF Types
    <2>2. conn' \in [Device -> {NoConn} \cup Connection] /\ network' \in SUBSET SegmentType
        BY <1>2, <1>8, <1>9, <1>11 DEF Types
    <2> QED
        BY <1>2, <1>7, <2>1, <2>2 DEF Types
<1> DEFINE segs == {seg}
<1>13. /\ w <= w + 1 /\ w + 1 <= bound.bytes
       /\ network' \subseteq network \cup segs
       /\ \A j \in Stream : j # i => written'[j] = written[j] /\ shut'[j] = shut[j]
       /\ UNCHANGED <<bound, opens, accepted, eof>>
    <2>1. bound.bytes \in Nat
        BY <1>2, TcpAssumption DEF Types, Bound
    <2>2. \A j \in Stream : j # i => written'[j] = written[j] /\ shut'[j] = shut[j]
        BY <1>2, <1>7 DEF Types
    <2> QED
        BY <1>7, <1>11, <2>1, <2>2
<1> HIDE DEF segs
<1>14. /\ \A j : (Got(j)' = Got(j))
       /\ \A x : (Reached(p, d, x)' = Reached(p, d, x))
       /\ Used(d)' = Used(d)
       /\ /\ \A sg \in segs : SegmentOK(p, sg)'
          /\ \A x \in {conn'[d]} \ {NoConn} : ConnectionOK(p, d, x)'
          => TcpInv'
    <2>1. written[i] <= written'[i] /\ written'[i] <= bound.bytes
        BY <1>5, <1>7, <1>13
    <2>2. PICK j : j = i
        OBVIOUS
    <2>3. PICK m : m = n
        OBVIOUS
    <2>4. /\ m \in Used(d) /\ j = <<d, m>> /\ ~shut[j]
          /\ written[j] <= written'[j] /\ written'[j] <= bound.bytes
          /\ \A y \in Stream : y # j => written'[y] = written[y] /\ shut'[y] = shut[y]
          /\ UNCHANGED <<bound, opens, accepted, eof>>
          /\ network' \subseteq network \cup segs /\ conn'[Other(d)] = conn[Other(d)]
        BY <1>4, <1>11, <1>13, <2>1, <2>2, <2>3
    <2> QED
        BY <1>1, <1>2, <1>12, <2>4, Advancing
<1>15. SentTo(i)' = w + 1 + 1
    BY <1>4, <1>7 DEF SentTo
<1>16. SegmentOK(p, seg)'
    <2>1. Carries(d, n, seg)'
        <3>1. w + 1 \in 1 .. w + 1
            BY <1>5
        <3> QED
            BY <1>7, <1>9, <3>1 DEF Carries
    <2>2. AckOK(p, d, n, seg)'
        BY <1>10, <1>14 DEF AckOK
    <2> QED
        BY <1>2, <1>4, <1>9, <1>14, <2>1, <2>2 DEF SegmentOK
<1>17. ConnectionOK(p, d, e)'
    <2>1. c.state \in {"Established", "CloseWait"}
        BY <1>3 DEF Send
    <2>2. Mutual(p, d, n)'
        BY <1>4 DEF Mutual
    <2>3. Mutual(p, d, n) /\ eof[<<Other(d), c.peer>>] => c.peer_closed
        BY <1>3 DEF ConnectionOK
    <2>4. /\ c.peer = p[i] /\ c.receive_next = Numbered(c.peer, Reached(p, d, n))
          /\ c.state = "CloseWait" => c.peer_closed
        BY <1>3, <1>4 DEF ConnectionOK
    <2> QED
        BY <1>4, <1>7, <1>9, <1>14, <1>15, <1>16, <2>1, <2>2, <2>3, <2>4 DEF ConnectionOK
<1> QED
    BY <1>11, <1>14, <1>16, <1>17 DEF segs

\* The application closes: the FIN comes after every byte.
LEMMA CloseInv ==
    ASSUME TcpInv, NEW d \in Device, Close(d)
    PROVE  TcpInv'
<1>1. PICK p \in [Stream -> Nat] : Fits(p)
    BY DEF TcpInv
<1>2. Types /\ Other(d) \in Device /\ Other(d) # d /\ Other(Other(d)) = d
    BY Others DEF TcpInv
<1>0. PICK b \in Connection : b = conn[d] /\ ConnectionOK(p, d, b)
    <2>1. conn[d] # NoConn
        BY DEF Close, MayClose, NoConn
    <2> QED
        BY <1>1, <1>2, <2>1, Current
<1> DEFINE c == [b EXCEPT !.state = IF @ = "Established" THEN "FinWait" ELSE "LastAck"]
           n == b.own
           i == <<d, n>>
<1>a. /\ b.state \in {"Established", "CloseWait"} /\ b.outstanding = None
      /\ ~shut[i] /\ Mutual(p, d, n) /\ b.peer # 0
    BY <1>0 DEF Close, MayClose, ConnectionOK, Synchronized
<1>b. /\ c \in Connection /\ c.state = IF b.state = "Established" THEN "FinWait" ELSE "LastAck"
      /\ c.send_next = b.send_next /\ c.receive_next = b.receive_next /\ c.received = b.received
      /\ c.outstanding = b.outstanding /\ c.peer_closed = b.peer_closed
      /\ c.own = n /\ c.peer = b.peer
    BY DEF Connection, States
<1>3. c \in Connection /\ ConnectionOK(p, d, c)
    <2> HIDE DEF c
    <2> QED
        BY <1>0, <1>a, <1>b DEF ConnectionOK, Synchronized
<1>4. n \in Used(d) /\ i \in Stream /\ c.peer # 0 /\ ~shut[i] /\ Mutual(p, d, n) /\ c.own = n
    BY <1>0, <1>2, <1>a, <1>b, Incarnations DEF ConnectionOK
<1>5. PICK w \in Nat : w = written[i]
    BY <1>2, <1>4 DEF Types
<1>6. w + 1 \in Nat /\ w + 1 # 0 /\ SentTo(i) = w + 1 /\ c.send_next = Numbered(n, w + 1)
    BY <1>3, <1>4, <1>5 DEF SentTo, ConnectionOK
<1> DEFINE seg == Segment(d, c, {"ACK", "FIN"}, 0)
           e == Sending(d, c, {"ACK", "FIN"}, 0)
<1>7. /\ shut' = [shut EXCEPT ![i] = TRUE] /\ shut'[i] = TRUE /\ written'[i] = w
      /\ UNCHANGED <<bound, listening, opens, written, accepted, eof>>
    BY <1>0, <1>2, <1>4, <1>5 DEF Close, Types
<1>8. conn' = [conn EXCEPT ![d] = e] /\ Post({seg})
    BY <1>0 DEF Close
<1> HIDE DEF c
<1>9. /\ seg \in SegmentType
      /\ seg.to = Other(d) /\ seg.sequence = Numbered(n, w + 1) /\ seg.byte = 0
      /\ seg.flags = {"ACK", "FIN"} /\ seg.stream = n
      /\ e \in Connection /\ e # NoConn
      /\ e.outstanding # None /\ e.outstanding.segment = seg
      /\ e.send_next = Numbered(n, w + 1 + 1)
      /\ e.state = c.state /\ e.receive_next = c.receive_next
      /\ e.received = c.received /\ e.peer_closed = c.peer_closed
      /\ e.own = n /\ e.peer = c.peer
    BY <1>3, <1>4, <1>6, Data, NotNoConn
<1>10. AckOK(p, d, n, seg)
    BY <1>1, <1>2, <1>3, <1>4, AckFits
<1> HIDE DEF seg, e
<1>11. /\ conn'[d] = e /\ conn'[Other(d)] = conn[Other(d)]
       /\ network' \subseteq network \cup {seg}
    BY <1>2, <1>8, Posted DEF Types
<1>12. Types'
    <2>1. shut' \in [Stream -> BOOLEAN]
        BY <1>2, <1>4, <1>7 DEF Types
    <2>2. conn' \in [Device -> {NoConn} \cup Connection] /\ network' \in SUBSET SegmentType
        BY <1>2, <1>8, <1>9, <1>11 DEF Types
    <2> QED
        BY <1>2, <1>7, <2>1, <2>2 DEF Types
<1> DEFINE segs == {seg}
<1>13. /\ w <= bound.bytes
       /\ network' \subseteq network \cup segs
       /\ \A j \in Stream : j # i => written'[j] = written[j] /\ shut'[j] = shut[j]
       /\ UNCHANGED <<bound, opens, accepted, eof>>
    <2>1. w <= bound.bytes
        BY <1>1, <1>4, <1>5 DEF Fits, StreamOK
    <2>2. \A j \in Stream : j # i => written'[j] = written[j] /\ shut'[j] = shut[j]
        BY <1>2, <1>7 DEF Types
    <2> QED
        BY <1>7, <1>11, <2>1, <2>2
<1> HIDE DEF segs
<1>14. /\ \A j : (Got(j)' = Got(j))
       /\ \A x : (Reached(p, d, x)' = Reached(p, d, x))
       /\ Used(d)' = Used(d)
       /\ /\ \A sg \in segs : SegmentOK(p, sg)'
          /\ \A x \in {conn'[d]} \ {NoConn} : ConnectionOK(p, d, x)'
          => TcpInv'
    <2>1. written[i] <= written'[i] /\ written'[i] <= bound.bytes
        BY <1>5, <1>7, <1>13
    <2>2. PICK j : j = i
        OBVIOUS
    <2>3. PICK m : m = n
        OBVIOUS
    <2>4. /\ m \in Used(d) /\ j = <<d, m>> /\ ~shut[j]
          /\ written[j] <= written'[j] /\ written'[j] <= bound.bytes
          /\ \A y \in Stream : y # j => written'[y] = written[y] /\ shut'[y] = shut[y]
          /\ UNCHANGED <<bound, opens, accepted, eof>>
          /\ network' \subseteq network \cup segs /\ conn'[Other(d)] = conn[Other(d)]
        BY <1>4, <1>11, <1>13, <2>1, <2>2, <2>3
    <2> QED
        BY <1>1, <1>2, <1>12, <2>4, Advancing
<1>15. SentTo(i)' = w + 1 + 1
    BY <1>5, <1>7 DEF SentTo
<1>16. SegmentOK(p, seg)'
    <2>1. Carries(d, n, seg)'
        <3>1. 1 + written'[i] = w + 1
            BY <1>5, <1>7
        <3> QED
            BY <1>7, <1>9, <3>1 DEF Carries
    <2>2. AckOK(p, d, n, seg)'
        BY <1>10, <1>14 DEF AckOK
    <2> QED
        BY <1>2, <1>4, <1>9, <1>14, <2>1, <2>2 DEF SegmentOK
<1>17. ConnectionOK(p, d, e)'
    <2>1. c.state \in {"FinWait", "LastAck"}
        BY <1>b
    <2>2. Mutual(p, d, n)'
        BY <1>4 DEF Mutual
    <2>3. Mutual(p, d, n) /\ eof[<<Other(d), c.peer>>] => c.peer_closed
        BY <1>3, <1>4 DEF ConnectionOK
    <2>4. /\ c.peer = p[i] /\ c.receive_next = Numbered(c.peer, Reached(p, d, n))
          /\ c.state = "LastAck" => c.peer_closed
        BY <1>3, <1>4 DEF ConnectionOK
    <2> QED
        BY <1>4, <1>7, <1>9, <1>14, <1>15, <1>16, <2>1, <2>2, <2>3, <2>4 DEF ConnectionOK
<1> QED
    BY <1>11, <1>14, <1>16, <1>17 DEF segs

-----------------------------------------------------------------------------
(* A segment for a connection *)

\* A connection is left with its acknowledgment in the network.
LEMMA AckFitsNext ==
    ASSUME Types', NEW p \in [Stream -> Nat], NEW d \in Device, NEW c \in Connection,
           <<d, c.own>> \in Stream, StreamOK(p, <<d, c.own>>)',
           ConnectionOK(p, d, c)', c.peer # 0,
           Reached(p, d, c.own)' \in Nat, Reached(p, d, c.own)' >= 1
    PROVE  SegmentOK(p, Segment(d, c, {"ACK"}, 0))'
<1> DEFINE n == c.own
           i == <<d, n>>
           seg == Segment(d, c, {"ACK"}, 0)
<1>1. /\ seg.flags = {"ACK"} /\ seg.byte = 0 /\ seg.sequence = c.send_next /\ seg.stream = n
      /\ seg.to = Other(d) /\ seg.acknowledgment = c.receive_next /\ Other(seg.to) = d
    BY Others DEF Segment
<1> HIDE DEF seg
<1>2. n \in Used(d)' /\ c.send_next = Numbered(n, SentTo(i)')
    BY DEF ConnectionOK
<1>3. p[i] # 0 /\ c.receive_next = Numbered(p[i], Reached(p, d, n)')
    BY DEF ConnectionOK
<1>4. SentTo(i)' \in 1 .. SentTo(i)'
    BY OffsetsNext
<1>5. Reached(p, d, n)' \in 1 .. Reached(p, d, n)'
    OBVIOUS
<1>6. Carries(d, n, seg)'
    BY <1>1, <1>2, <1>4 DEF Carries
<1>7. AckOK(p, d, n, seg)'
    BY <1>1, <1>3, <1>5 DEF AckOK
<1> QED
    BY <1>1, <1>2, <1>6, <1>7 DEF SegmentOK, seg

\* The client takes the SYN-ACK: the two incarnations are partners.
LEMMA Establishing ==
    ASSUME Types, Types', NEW p \in [Stream -> Nat], Fits(p), NEW d \in Device,
           NEW c \in Connection, ConnectionOK(p, d, c), c.state = "SynSent",
           NEW seg \in SegmentType, SegmentOK(p, seg), seg.to = d, "RST" \notin seg.flags,
           {"SYN", "ACK"} \subseteq seg.flags, seg.acknowledgment = c.send_next,
           UNCHANGED <<bound, opens, streams>>,
           NEW e \in Connection, e.own = c.own, e.send_next = c.send_next,
           e.receive_next = Plus(seg.sequence, 1), e.outstanding = None,
           e.state = "Established", e.peer = seg.stream,
           conn'[d] = e, conn'[Other(d)] = conn[Other(d)],
           network' \subseteq network \cup {Segment(d, e, {"ACK"}, 0)}
    PROVE  TcpInv'
<1> DEFINE o == Other(d)
           n == c.own
           m == seg.stream
           i == <<d, n>>
           j == <<o, m>>
           q == [p EXCEPT ![i] = m]
<1>1. o \in Device /\ o # d /\ Other(o) = d
    BY Others
<1>2. n \in Used(d) /\ i \in Stream /\ p[i] = 0 /\ SentTo(i) = 1 /\ n \in Nat
    BY Incarnations DEF ConnectionOK, Connection
<1>3. m \in Used(o) /\ j \in Stream /\ p[j] = n /\ m \in Nat /\ m # 0 /\ n # 0 /\ j # i
    <2>0. "ACK" \in seg.flags
        OBVIOUS
    <2>1. /\ seg.stream \in Used(Other(d)) /\ <<Other(d), seg.stream>> \in Stream
          /\ p[<<Other(d), seg.stream>>] = c.own
          /\ Reached(p, Other(d), seg.stream) = SentTo(<<d, c.own>>)
        BY <2>0, AckIsAll
    <2>2. m # 0 /\ n # 0
        BY <1>2, <2>1 DEF Used
    <2> QED
        BY <1>1, <2>1, <2>2 DEF SegmentType
<1>4. \A k : (SentTo(k)' = SentTo(k)) /\ (Got(k)' = Got(k))
    BY DEF SentTo, Got, streams
<1>5. \A x : Used(x)' = Used(x)
    BY DEF Used
<1>6. ASSUME NEW k \in Stream, Got(k) = 1
      PROVE  ~eof[k]
    <2>1. Got(k) = 1 + Len(accepted[k]) + (IF eof[k] THEN 1 ELSE 0) /\ Len(accepted[k]) \in Nat
        BY DEF Got, Types
    <2>2. eof[k] => Got(k) = 1 + Len(accepted[k]) + 1
        BY <2>1
    <2> QED
        BY <1>6, <2>1, <2>2
<1>7. Got(i) = 1 /\ ~eof[i] /\ ~shut[i]
    <2>1. Got(i) \in Nat /\ Got(i) >= 1 /\ Got(i) <= SentTo(i)
        BY <1>2, Offsets DEF Fits
    <2>2. SentTo(i) = 1 + written[i] + (IF shut[i] THEN 1 ELSE 0) /\ written[i] \in Nat
        BY <1>2 DEF SentTo, Types
    <2> QED
        BY <1>2, <1>6, <2>1, <2>2
<1>8. Got(j) = 1 /\ ~eof[j]
    <2>1. Got(j) # 1 => Mutual(p, o, m)
        BY <1>3 DEF Fits, StreamOK
    <2>2. ~Mutual(p, o, m)
        BY <1>1, <1>2, <1>3 DEF Mutual
    <2> QED
        BY <1>3, <1>6, <2>1, <2>2
<1>9. q \in [Stream -> Nat] /\ q[i] = m /\ \A k \in Stream : k # i => q[k] = p[k]
    BY <1>2, <1>3
<1> HIDE DEF q
<1>10. Mutual(q, d, n)
    BY <1>3, <1>9 DEF Mutual
<1>11. ASSUME NEW x \in Device, NEW y \in Used(x), Mutual(p, x, y)
       PROVE  Mutual(q, x, y) /\ q[<<x, y>>] = p[<<x, y>>]
    <2> DEFINE z == p[<<x, y>>]
    <2>1. <<x, y>> \in Stream /\ z # 0 /\ <<x, y>> # i
        BY <1>2, <1>11, Incarnations DEF Mutual
    <2>2. z \in Used(Other(x)) /\ <<Other(x), z>> \in Stream
        <3>1. z \in Used(Other(x))
            BY <2>1 DEF Fits, Partners
        <3> QED
            BY <3>1, Incarnations, Others
    <2>3. p[<<Other(x), z>>] = y /\ y # 0
        BY <1>11 DEF Mutual, Used
    <2> QED
        BY <1>2, <1>9, <2>1, <2>2, <2>3 DEF Mutual
<1>12. Partners(q)'
    <2>1. ASSUME NEW x \in Device, NEW y \in Used(x)', q[<<x, y>>] # 0
          PROVE  q[<<x, y>>] \in Used(Other(x))'
        <3>1. y \in Used(x) /\ <<x, y>> \in Stream
            BY <1>5, Incarnations
        <3>2. CASE <<x, y>> = i
            BY <1>3, <1>5, <1>9, <3>2
        <3>3. CASE <<x, y>> # i
            BY <1>5, <1>9, <2>1, <3>1, <3>3 DEF Fits, Partners
        <3> QED
            BY <3>2, <3>3
    <2>2. ASSUME NEW k \in Stream, k[2] \notin Used(k[1])'
          PROVE  q[k] = 0
        BY <1>2, <1>5, <1>9, <2>2 DEF Fits, Partners
    <2> QED
        BY <1>9, <2>1, <2>2 DEF Partners
<1>13. ASSUME NEW k \in Stream
       PROVE  StreamOK(q, k)'
    <2>1. StreamOK(p, k)
        BY DEF Fits
    <2>2. k[1] \in Device /\ k = <<k[1], k[2]>>
        BY StreamType
    <2>3. Got(k) # 1 => Mutual(q, k[1], k[2])
        <3> SUFFICES ASSUME Got(k) # 1
                     PROVE  Mutual(q, k[1], k[2])
            OBVIOUS
        <3>1. Mutual(p, k[1], k[2])
            BY <2>1 DEF StreamOK
        <3>2. k[2] \in Used(k[1])
            <4>1. p[k] # 0
                BY <2>2, <3>1 DEF Mutual
            <4> QED
                BY <4>1 DEF Fits, Partners
        <3> QED
            BY <1>11, <2>2, <3>1, <3>2
    <2> QED
        BY <1>4, <1>5, <2>1, <2>3 DEF StreamOK, Mutual, streams
<1>14. Grows(p, q)
    <2>1. ASSUME NEW k \in Stream
          PROVE  Got(k) \in Nat /\ written[k] \in Nat
        BY Offsets DEF Fits
    <2>2. \A x \in Device : opens[x] <= opens'[x]
        BY DEF Types
    <2>3. \A k \in Stream : p[k] # 0 => q[k] = p[k]
        BY <1>2, <1>9
    <2> QED
        BY <1>4, <2>1, <2>2, <2>3 DEF Grows, streams
<1>15. ASSUME NEW b \in {conn'[o]} \ {NoConn}
       PROVE  ConnectionOK(q, o, b)'
    <2> DEFINE x == b.own
    <2>1. b \in Connection /\ ConnectionOK(p, o, b)
        BY <1>1, <1>15, Current
    <2>2. x \in Used(o) /\ <<o, x>> \in Stream /\ <<o, x>> # i /\ b.peer = p[<<o, x>>]
        BY <1>1, <2>1, Incarnations DEF ConnectionOK
    <2>3. q[<<o, x>>] = p[<<o, x>>]
        BY <1>9, <2>2
    <2>4. ASSUME Mutual(q, o, x), ~Mutual(p, o, x)
          PROVE  <<d, b.peer>> = i
        <3>1. b.peer # 0 /\ q[<<d, b.peer>>] = x /\ p[<<d, b.peer>>] # x
            BY <1>1, <2>2, <2>3, <2>4 DEF Mutual
        <3>2. b.peer \in Used(d) /\ <<d, b.peer>> \in Stream
            <4>1. b.peer \in Used(d)
                BY <1>1, <2>2, <3>1 DEF Fits, Partners
            <4> QED
                BY <4>1, Incarnations
        <3> QED
            BY <1>9, <3>1, <3>2
    <2>5. Reached(q, o, x)' = Reached(p, o, x)
        <3>1. Reached(q, o, x)' = IF Mutual(q, o, x) THEN Got(<<d, b.peer>>) ELSE 1
            BY <1>1, <1>4, <2>2, <2>3 DEF Reached, Mutual
        <3>2. Reached(p, o, x) = IF Mutual(p, o, x) THEN Got(<<d, b.peer>>) ELSE 1
            BY <1>1, <2>2 DEF Reached
        <3>3. CASE Mutual(p, o, x)
            BY <1>1, <1>11, <2>2, <3>1, <3>2, <3>3
        <3>4. CASE ~Mutual(p, o, x)
            BY <1>7, <2>4, <3>1, <3>2, <3>4
        <3> QED
            BY <3>3, <3>4
    <2>6. Mutual(q, o, x)' /\ eof'[<<d, b.peer>>] => Mutual(p, o, x) /\ eof[<<d, b.peer>>]
        BY <1>7, <2>4 DEF Mutual, streams
    <2>7. Partners(p) /\ \A k \in Stream : StreamOK(p, k)
        BY DEF Fits
    <2>8. /\ written'[<<o, x>>] = written[<<o, x>>]
          /\ shut'[<<o, x>>] = shut[<<o, x>>]
        BY DEF streams
    <2> QED
        BY <1>1, <1>9, <1>13, <1>14, <2>1, <2>3, <2>5, <2>6, <2>7, <2>8, ConnectionKept
<1>16. Plus(seg.sequence, 1) = Numbered(m, 1)
    <2>1. seg.sequence = Numbered(m, 0)
        BY DEF SegmentOK, Carries
    <2>2. Plus(Numbered(m, 0), 1) = Numbered(m, 0 + 1)
        BY <1>3, NumberedMod
    <2> QED
        BY <2>1, <2>2
<1>17. Reached(q, d, n)' = 1
    BY <1>4, <1>8, <1>9, <1>10 DEF Reached, Mutual
<1>18. ConnectionOK(q, d, e)'
    <2>1. c.send_next = Numbered(n, SentTo(i))
        BY DEF ConnectionOK
    <2>2. ~shut'[i] /\ ~eof'[j]
        BY <1>7, <1>8 DEF streams
    <2>3. Mutual(q, d, n)'
        BY <1>10 DEF Mutual
    <2> QED
        BY <1>2, <1>3, <1>4, <1>5, <1>7, <1>9, <1>16, <1>17, <2>1, <2>2, <2>3 DEF ConnectionOK
<1> DEFINE ack == Segment(d, e, {"ACK"}, 0)
           segs == {ack}
<1>19. SegmentOK(q, ack)'
    <2>1. e.own = n /\ e.peer # 0 /\ StreamOK(q, <<d, e.own>>)' /\ <<d, e.own>> \in Stream
        BY <1>2, <1>3, <1>13
    <2>2. Reached(q, d, e.own)' \in Nat /\ Reached(q, d, e.own)' >= 1
        BY <1>17
    <2> QED
        BY <1>9, <1>18, <2>1, <2>2, AckFitsNext
<1> HIDE DEF ack
<1>20. network' \subseteq network \cup segs /\ \A sg \in segs : SegmentOK(q, sg)'
    BY <1>19 DEF ack
<1>21. \A b \in {conn'[d]} \ {NoConn} : ConnectionOK(q, d, b)'
    BY <1>18
<1> HIDE DEF segs
<1> QED
    BY <1>9, <1>12, <1>13, <1>14, <1>15, <1>20, <1>21, StepInv

\* Taking the acknowledgment of an in-order segment.
LEMMA AcknowledgedFits ==
    ASSUME Types, NEW p \in [Stream -> Nat], Fits(p), NEW d \in Device,
           NEW c \in Connection, ConnectionOK(p, d, c),
           c.state \notin {"Closed", "SynSent", "TimeWait"},
           NEW seg \in SegmentType, SegmentOK(p, seg), seg.to = d, "RST" \notin seg.flags,
           "ACK" \in seg.flags, seg.sequence = c.receive_next,
           NEW e, e = Acknowledged(c, seg)
    PROVE  /\ e \in Connection /\ ConnectionOK(p, d, e) /\ e.peer # 0
           /\ e.state \notin {"SynSent"}
           /\ e.received = c.received /\ e.receive_next = c.receive_next
           /\ e.peer_closed = c.peer_closed /\ e.own = c.own /\ e.peer = c.peer
<1> DEFINE n == c.own
           i == <<d, n>>
<1>1. c.peer # 0 /\ c.peer = p[i] /\ n \in Used(d)
    BY DEF ConnectionOK
<1>2. CASE ~Acknowledges(c, seg)
    BY <1>1, <1>2 DEF Acknowledged
<1>3. CASE Acknowledges(c, seg)
    <2> DEFINE s == CASE c.state = "SynReceived" -> "Established"
                      [] c.state = "LastAck" -> "Closed"
                      [] c.state = "FinWait" /\ c.peer_closed -> "TimeWait"
                      [] OTHER -> c.state
    <2>1. e = [c EXCEPT !.outstanding = None, !.state = s]
        BY <1>3 DEF Acknowledged, Connection
    <2>2. /\ s \in {"Established", "CloseWait", "FinWait", "TimeWait", "Closed"}
          /\ s = "Established" => c.state \in {"SynReceived", "Established"}
          /\ s = "CloseWait" => c.state = "CloseWait"
          /\ s = "TimeWait" => c.peer_closed
        BY DEF Connection, States
    <2> HIDE DEF s
    <2>3. /\ e \in Connection /\ e.outstanding = None /\ e.state = s
          /\ e.send_next = c.send_next /\ e.received = c.received /\ e.receive_next = c.receive_next
          /\ e.peer_closed = c.peer_closed /\ e.own = c.own /\ e.peer = c.peer
        BY <2>1, <2>2 DEF Connection, States
    <2>4. seg.acknowledgment = c.send_next
        BY <1>3 DEF Acknowledges
    <2>5. /\ seg.stream \in Used(Other(d)) /\ <<Other(d), seg.stream>> \in Stream
          /\ p[<<Other(d), seg.stream>>] = c.own
          /\ Reached(p, Other(d), seg.stream) = SentTo(<<d, c.own>>)
        BY <2>4, AckIsAll
    <2>6. seg.stream = c.peer
        BY <1>1, InOrderIsNext
    <2>7. Mutual(p, d, n)
        BY <1>1, <2>5, <2>6 DEF Mutual
    <2>8. n # 0
        BY <1>1 DEF Used
    <2>9. Got(i) = SentTo(i)
        BY <1>1, <2>5, <2>6, <2>8, Others DEF Reached, Mutual
    <2>10. ConnectionOK(p, d, e)
        BY <1>1, <2>2, <2>3, <2>7, <2>9 DEF ConnectionOK
    <2> QED
        BY <1>1, <2>2, <2>3, <2>10
<1> QED
    BY <1>2, <1>3

\* Device d takes the next byte, or the end, of the stream j of its partner.
LEMMA Taking ==
    ASSUME Types, Types', NEW p \in [Stream -> Nat], Fits(p), NEW d \in Device,
           NEW c \in Connection, ConnectionOK(p, d, c), Mutual(p, d, c.own),
           c.state \in Synchronized,
           UNCHANGED <<bound, opens, written, shut>>,
           NEW j, j = <<Other(d), c.peer>>,
           \A k \in Stream : k # j => accepted'[k] = accepted[k] /\ eof'[k] = eof[k],
           Got(j)' = Got(j) + 1, Len(accepted'[j]) <= written[j],
           eof'[j] => shut[j] /\ Len(accepted'[j]) = written[j],
           NEW e \in Connection, e.own = c.own, e.peer = c.peer, e.send_next = c.send_next,
           e.outstanding = c.outstanding, e.receive_next = Plus(c.receive_next, 1),
           e.state \in Synchronized,
           e.state \in {"Established", "CloseWait"} => c.state \in {"Established", "CloseWait"},
           e.state \in {"CloseWait", "LastAck", "TimeWait"} => e.peer_closed,
           eof'[j] => e.peer_closed,
           conn'[d] = e, conn'[Other(d)] = conn[Other(d)],
           network' \subseteq network \cup {Segment(d, e, {"ACK"}, 0)}
    PROVE  TcpInv'
<1> DEFINE o == Other(d)
           n == c.own
           i == <<d, n>>
           m == c.peer
<1>1. o \in Device /\ o # d /\ Other(o) = d
    BY Others
<1>2. n \in Used(d) /\ i \in Stream /\ m = p[i] /\ m # 0
    BY Incarnations DEF ConnectionOK, Mutual
<1>3. m \in Used(o) /\ j \in Stream /\ j # i
    <2>1. m \in Used(o)
        BY <1>2 DEF Fits, Partners
    <2> QED
        BY <1>1, <2>1, Incarnations
<1>4. \A k : SentTo(k)' = SentTo(k)
    BY DEF SentTo
<1>5. \A x : Used(x)' = Used(x)
    BY DEF Used
<1>6. \A k \in Stream : k # j => Got(k)' = Got(k)
    BY DEF Got
<1>7. \A k \in Stream : Got(k) \in Nat /\ Got(k) <= Got(k)'
    <2>1. \A k \in Stream : Got(k) \in Nat
        BY Offsets DEF Fits
    <2> QED
        BY <1>6, <2>1
<1>8. \A x, y : Mutual(p, x, y)' <=> Mutual(p, x, y)
    BY DEF Mutual
<1>9. Partners(p)'
    BY <1>5 DEF Fits, Partners
<1>10. ASSUME NEW k \in Stream
       PROVE  StreamOK(p, k)'
    <2>1. StreamOK(p, k)
        BY DEF Fits
    <2>2. CASE k # j
        BY <1>4, <1>5, <1>6, <1>8, <2>1, <2>2 DEF StreamOK
    <2>3. CASE k = j
        <3>1. Mutual(p, k[1], k[2])
            <4>1. Mutual(p, o, m)
                BY <1>1, <1>2 DEF Mutual, Used
            <4> QED
                BY <2>3, <4>1
        <3> QED
            BY <1>4, <1>5, <1>8, <2>1, <2>3, <3>1 DEF StreamOK
    <2> QED
        BY <2>2, <2>3
<1>11. Grows(p, p)
    <2>1. \A x \in Device : opens[x] <= opens'[x]
        BY DEF Types
    <2>2. \A k \in Stream : written[k] \in Nat
        BY DEF Types
    <2> QED
        BY <1>7, <2>1, <2>2 DEF Grows
<1>12. ASSUME NEW b \in {conn'[o]} \ {NoConn}
       PROVE  ConnectionOK(p, o, b)'
    <2>1. b \in Connection /\ ConnectionOK(p, o, b)
        BY <1>1, <1>12, Current
    <2>2. b.own \in Used(o) /\ b.peer = p[<<o, b.own>>]
        BY <2>1 DEF ConnectionOK
    <2>3. b.peer # 0 => <<d, b.peer>> \in Stream /\ <<d, b.peer>> # j
        <3>1. b.peer # 0 => b.peer \in Used(d)
            BY <1>1, <2>2 DEF Fits, Partners
        <3> QED
            BY <1>1, <3>1, Incarnations
    <2>4. b.peer # 0 => /\ Reached(p, o, b.own)' = Reached(p, o, b.own)
                        /\ Mutual(p, o, b.own)' /\ eof'[<<Other(o), b.peer>>]
                             => Mutual(p, o, b.own) /\ eof[<<Other(o), b.peer>>]
        <3> SUFFICES ASSUME b.peer # 0
                     PROVE  /\ Reached(p, o, b.own)' = Reached(p, o, b.own)
                            /\ Mutual(p, o, b.own)' /\ eof'[<<Other(o), b.peer>>]
                                 => Mutual(p, o, b.own) /\ eof[<<Other(o), b.peer>>]
            OBVIOUS
        <3>1. Got(<<d, b.peer>>)' = Got(<<d, b.peer>>) /\ eof'[<<d, b.peer>>] = eof[<<d, b.peer>>]
            BY <1>6, <2>3
        <3> QED
            BY <1>1, <1>8, <2>2, <3>1 DEF Reached
    <2>5. Partners(p) /\ \A k \in Stream : StreamOK(p, k)
        BY DEF Fits
    <2>6. /\ written'[<<o, b.own>>] = written[<<o, b.own>>]
          /\ shut'[<<o, b.own>>] = shut[<<o, b.own>>]
        OBVIOUS
    <2> QED
        BY <1>1, <1>10, <1>11, <2>1, <2>4, <2>5, <2>6, ConnectionKept
<1>13. Reached(p, d, n) = Got(j) /\ Reached(p, d, n)' = Got(j) + 1
    BY <1>2, <1>8 DEF Reached
<1>14. e.receive_next = Numbered(m, Got(j) + 1)
    <2>1. c.receive_next = Numbered(m, Got(j))
        BY <1>2, <1>13 DEF ConnectionOK
    <2>2. m \in Nat /\ Got(j) \in Nat
        BY <1>3, <1>7 DEF Connection
    <2>3. Plus(Numbered(m, Got(j)), 1) = Numbered(m, Got(j) + 1)
        BY <2>2, NumberedMod
    <2> QED
        BY <2>1, <2>3
<1>15. ConnectionOK(p, d, e)'
    <2>1. c.send_next = Numbered(n, SentTo(i))
        BY DEF ConnectionOK
    <2>2. c.outstanding # None => SegmentOK(p, c.outstanding.segment)'
        <3> SUFFICES ASSUME c.outstanding # None
                     PROVE  SegmentOK(p, c.outstanding.segment)'
            OBVIOUS
        <3>1. c.outstanding.segment \in SegmentType /\ SegmentOK(p, c.outstanding.segment)
            BY DEF Connection, Outstanding, ConnectionOK
        <3>2. Partners(p) /\ \A k \in Stream : StreamOK(p, k)
            BY DEF Fits
        <3> QED
            BY <1>10, <1>11, <3>1, <3>2, SegmentKept
    <2>3. e.state \in {"Established", "CloseWait"} => ~shut'[i]
        BY DEF ConnectionOK
    <2>4. e.outstanding = None => Got(i)' = SentTo(i)'
        BY <1>2, <1>3, <1>4, <1>6 DEF ConnectionOK
    <2>5. e.state \notin {"SynSent", "SynReceived"}
        BY DEF Synchronized
    <2> QED
        BY <1>2, <1>4, <1>5, <1>8, <1>13, <1>14, <2>1, <2>2, <2>3, <2>4, <2>5 DEF ConnectionOK
<1> DEFINE ack == Segment(d, e, {"ACK"}, 0)
           segs == {ack}
<1>16. SegmentOK(p, ack)'
    <2>1. e.peer # 0 /\ StreamOK(p, <<d, e.own>>)' /\ <<d, e.own>> \in Stream
        BY <1>2, <1>10
    <2>2. Reached(p, d, e.own)' \in Nat /\ Reached(p, d, e.own)' >= 1
        BY <1>3, <1>7, <1>13
    <2> QED
        BY <1>15, <2>1, <2>2, AckFitsNext
<1> HIDE DEF ack
<1>17. network' \subseteq network \cup segs /\ \A sg \in segs : SegmentOK(p, sg)'
    BY <1>16 DEF ack
<1>18. \A b \in {conn'[d]} \ {NoConn} : ConnectionOK(p, d, b)'
    BY <1>15
<1> HIDE DEF segs
<1> QED
    BY <1>9, <1>10, <1>11, <1>12, <1>17, <1>18, StepInv

\* The three kinds of outcome of TcpConnection::receive on connection c: the
\* streams stay, a client is established, or the next byte or the end is taken.
StayOutcome(p, d, out) ==
    /\ out.byte = 0 /\ ~out.fin
    /\ out.conn \in Connection /\ ConnectionOK(p, d, out.conn)
    /\ out.replies \in SUBSET SegmentType /\ \A seg \in out.replies : SegmentOK(p, seg)

OpenOutcome(d, c, seg, out) ==
    LET e == out.conn IN
    /\ c.state = "SynSent" /\ "RST" \notin seg.flags
    /\ {"SYN", "ACK"} \subseteq seg.flags /\ seg.acknowledgment = c.send_next
    /\ e \in Connection /\ e.own = c.own /\ e.send_next = c.send_next
    /\ e.receive_next = Plus(seg.sequence, 1) /\ e.outstanding = None
    /\ e.state = "Established" /\ e.peer = seg.stream
    /\ out.byte = 0 /\ ~out.fin /\ out.replies = {Segment(d, e, {"ACK"}, 0)}

Taken(b, e) ==
    /\ e \in Connection /\ e.own = b.own /\ e.peer = b.peer /\ e.send_next = b.send_next
    /\ e.outstanding = b.outstanding /\ e.receive_next = Plus(b.receive_next, 1)
    /\ e.state \in Synchronized
    /\ e.state \in {"Established", "CloseWait"} => b.state \in {"Established", "CloseWait"}
    /\ e.state \in {"CloseWait", "LastAck", "TimeWait"} => e.peer_closed

TakeOutcome(p, d, c, out) ==
    LET j == <<Other(d), c.peer>> IN
    /\ \E b \in Connection :
         /\ ConnectionOK(p, d, b) /\ b.state \in Synchronized /\ b.own = c.own /\ b.peer = c.peer
         /\ Taken(b, out.conn)
    /\ c.peer # 0 /\ j \in Stream /\ ~eof[j]
    /\ \/ out.byte = Len(accepted[j]) + 1 /\ Len(accepted[j]) < written[j] /\ ~out.fin
       \/ out.byte = 0 /\ out.fin /\ out.conn.peer_closed /\ shut[j] /\ Len(accepted[j]) = written[j]
    /\ out.replies = {Segment(d, out.conn, {"ACK"}, 0)}

\* Absorbing an in-order segment, for which there is room.
LEMMA AbsorbedOutcome ==
    ASSUME Types, NEW p \in [Stream -> Nat], Fits(p), NEW d \in Device,
           NEW b \in Connection, ConnectionOK(p, d, b), b.peer # 0, b.state \in Synchronized,
           ~b.peer_closed,
           NEW seg \in SegmentType, SegmentOK(p, seg), seg.to = d, "RST" \notin seg.flags,
           seg.sequence = b.receive_next, b.received + DataLen(seg) <= ReceiveLimit,
           NEW out, out = Absorbed(d, b, seg)
    PROVE  StayOutcome(p, d, out) \/ TakeOutcome(p, d, b, out)
<1> DEFINE n == b.own
           j == <<Other(d), b.peer>>
           r == Reached(p, d, n)
           fin == Has(seg, {"FIN"})
           e == out.conn
<1>1. /\ j \in Stream
      /\ \/ seg.flags = {"ACK"} /\ seg.byte = 0
         \/ seg.flags = {"ACK"} /\ seg.byte = r /\ r <= written[j]
         \/ seg.flags = {"ACK", "FIN"} /\ seg.byte = 0 /\ shut[j] /\ r = 1 + written[j]
    BY InOrderIsNext
<1>2. n \in Used(d) /\ Mutual(p, d, n) /\ b.peer = p[<<d, n>>]
    BY DEF ConnectionOK
<1>3. ~eof[j] /\ r = 1 + Len(accepted[j]) /\ Len(accepted[j]) \in Nat /\ written[j] \in Nat
    <2>1. ~eof[j]
        BY <1>2 DEF ConnectionOK
    <2>2. Len(accepted[j]) \in Nat /\ written[j] \in Nat
        BY <1>1 DEF Types
    <2> QED
        BY <1>2, <2>1, <2>2 DEF Reached, Got
<1>4. (fin <=> "FIN" \in seg.flags) /\ fin \in BOOLEAN
    BY DEF Has
<1>5. DataLen(seg) = IF seg.byte = 0 THEN 0 ELSE 1
    BY DEF DataLen
<1> DEFINE s == IF ~fin THEN b.state
                ELSE IF b.state # "FinWait" THEN "CloseWait"
                ELSE IF b.outstanding = None THEN "TimeWait" ELSE b.state
           k == DataLen(seg) + (IF fin THEN 1 ELSE 0)
<1>6. /\ e = [b EXCEPT !.receive_next = Plus(b.receive_next, k),
                       !.received = b.received + DataLen(seg),
                       !.peer_closed = fin, !.state = s]
      /\ out.byte = seg.byte /\ out.fin = fin
      /\ out.replies = IF DataLen(seg) = 1 \/ fin THEN {Segment(d, e, {"ACK"}, 0)} ELSE {}
    BY DEF Absorbed, Ack, Connection
<1> HIDE DEF fin, r
<1>7. s \in Synchronized /\ s \in States /\ fin \in BOOLEAN
    BY <1>4 DEF Synchronized, States
<1>8. k \in Nat /\ Plus(b.receive_next, k) \in Number /\ b.received + DataLen(seg) \in 0 .. ReceiveLimit
    <2>1. k \in Nat /\ DataLen(seg) \in Nat /\ b.receive_next \in Nat /\ b.received \in Nat
        BY <1>5 DEF Connection, Number
    <2> HIDE DEF k
    <2>2. Plus(b.receive_next, k) \in Number
        BY <2>1 DEF Plus, Number
    <2> QED
        BY <2>1, <2>2
<1>9. /\ e \in Connection /\ e.receive_next = Plus(b.receive_next, k) /\ e.peer_closed = fin
      /\ e.state = s /\ e.own = n /\ e.peer = b.peer /\ e.send_next = b.send_next
      /\ e.outstanding = b.outstanding
    <2> HIDE DEF s, k, fin, e
    <2> QED
        BY <1>6, <1>7, <1>8 DEF Connection
<1>10. CASE seg.flags = {"ACK"} /\ seg.byte = 0
    <2>1. k = 0 /\ ~fin /\ s = b.state
        BY <1>4, <1>5, <1>10
    <2>2. Plus(b.receive_next, 0) = b.receive_next
        <3>1. b.receive_next \in 0 .. Modulus - 1
            BY DEF Connection, Number
        <3> QED
            BY <3>1 DEF Plus
    <2>3. ConnectionOK(p, d, e)
        <3> HIDE DEF e, s, k, fin
        <3> QED
            BY <1>9, <2>1, <2>2 DEF ConnectionOK
    <2>4. out.replies = {}
        BY <1>4, <1>5, <1>6, <1>10
    <2> QED
        BY <1>6, <1>9, <1>10, <2>1, <2>3, <2>4 DEF StayOutcome
<1>11. CASE seg.flags = {"ACK"} /\ seg.byte = r /\ r <= written[j]
    <2>1. k = 1 /\ ~fin /\ s = b.state /\ DataLen(seg) = 1
        BY <1>3, <1>4, <1>5, <1>11
    <2>2. Taken(b, e)
        <3> HIDE DEF e, s, k, fin
        <3> QED
            BY <1>7, <1>9, <2>1 DEF Taken, ConnectionOK
    <2>3. out.byte = Len(accepted[j]) + 1 /\ Len(accepted[j]) < written[j] /\ ~out.fin
        BY <1>3, <1>6, <1>11, <2>1
    <2>4. out.replies = {Segment(d, out.conn, {"ACK"}, 0)}
        BY <1>6, <2>1
    <2> QED
        BY <1>1, <1>3, <2>2, <2>3, <2>4 DEF TakeOutcome
<1>12. CASE seg.flags = {"ACK", "FIN"} /\ seg.byte = 0 /\ shut[j] /\ r = 1 + written[j]
    <2>1. k = 1 /\ fin /\ DataLen(seg) = 0
        BY <1>4, <1>5, <1>12
    <2>2. s \in {"CloseWait", "TimeWait", "FinWait"} /\ (s = "CloseWait" => b.state \in {"Established", "CloseWait"})
        <3>1. b.state \notin {"CloseWait", "LastAck", "TimeWait"}
            BY DEF ConnectionOK
        <3>2. b.state \in {"Established", "FinWait"}
            BY <3>1 DEF Synchronized
        <3> QED
            BY <2>1, <3>2
    <2>3. Taken(b, e)
        <3> HIDE DEF e, s, k, fin
        <3> QED
            BY <1>7, <1>9, <2>1, <2>2 DEF Taken, ConnectionOK
    <2>4. out.byte = 0 /\ out.fin /\ out.conn.peer_closed /\ Len(accepted[j]) = written[j]
        BY <1>3, <1>6, <1>9, <1>12, <2>1
    <2>5. out.replies = {Segment(d, out.conn, {"ACK"}, 0)}
        BY <1>6, <2>1
    <2> QED
        BY <1>1, <1>3, <1>12, <2>3, <2>4, <2>5 DEF TakeOutcome
<1> QED
    BY <1>1, <1>10, <1>11, <1>12

\* TcpConnection::receive as a whole.
LEMMA ReceiveOutcome ==
    ASSUME Types, NEW p \in [Stream -> Nat], Fits(p), NEW d \in Device,
           NEW c \in Connection, ConnectionOK(p, d, c),
           NEW seg \in SegmentType, SegmentOK(p, seg), seg.to = d,
           NEW out, out = ReceiveOn(d, c, seg)
    PROVE  StayOutcome(p, d, out) \/ OpenOutcome(d, c, seg, out) \/ TakeOutcome(p, d, c, out)
<1>1. ASSUME NEW b \in Connection, ConnectionOK(p, d, b), NEW replies \in SUBSET SegmentType,
             \A sg \in replies : SegmentOK(p, sg), out = Outcome(b, replies)
      PROVE  StayOutcome(p, d, out)
    BY <1>1 DEF StayOutcome, Outcome
<1>2. ASSUME NEW b \in Connection, ConnectionOK(p, d, b), out = Outcome(b, {})
      PROVE  StayOutcome(p, d, out)
    BY <1>2 DEF StayOutcome, Outcome
<1>3. ASSUME NEW b \in Connection, ConnectionOK(p, d, b), b.peer # 0, out = Outcome(b, Ack(d, b))
      PROVE  StayOutcome(p, d, out)
    <2>1. /\ \A flags, byte : AckOK(p, d, b.own, Segment(d, b, flags, byte))
          /\ SegmentOK(p, Segment(d, b, {"ACK"}, 0))
          /\ Segment(d, b, {"ACK"}, 0) \in SegmentType
        BY <1>3, AckFits
    <2> QED
        BY <1>3, <2>1 DEF StayOutcome, Outcome, Ack
<1>4. c.state \notin {"Closed", "SynSent"} => c.peer # 0
    BY DEF ConnectionOK
<1>5. CASE c.state = "Closed"
    BY <1>2, <1>5 DEF ReceiveOn
<1>6. CASE c.state # "Closed" /\ Has(seg, {"RST"})
    <2>1. out = OnReset(c, seg)
        BY <1>6 DEF ReceiveOn
    <2> DEFINE b == [c EXCEPT !.state = "Closed", !.outstanding = None]
    <2>2. /\ b \in Connection /\ b.state = "Closed" /\ b.outstanding = None
          /\ b.send_next = c.send_next /\ b.receive_next = c.receive_next
          /\ b.received = c.received /\ b.peer_closed = c.peer_closed /\ b.own = c.own /\ b.peer = c.peer
        BY DEF Connection, States
    <2>3. out = Outcome(b, {}) \/ out = Outcome(c, {})
        BY <2>1 DEF OnReset
    <2> HIDE DEF b
    <2>4. ConnectionOK(p, d, b)
        BY <2>2 DEF ConnectionOK, Synchronized
    <2> QED
        BY <1>2, <2>2, <2>3, <2>4
<1>7. CASE c.state = "TimeWait" /\ ~Has(seg, {"RST"})
    <2>1. out = Outcome(c, Ack(d, c)) \/ out = Outcome(c, {})
        BY <1>7 DEF ReceiveOn, OnTimeWait
    <2> QED
        BY <1>2, <1>3, <1>4, <1>7, <2>1
<1>8. CASE c.state = "SynSent" /\ ~Has(seg, {"RST"})
    <2>1. out = OnSynSent(d, c, seg)
        BY <1>8 DEF ReceiveOn
    <2>2. CASE Has(seg, {"SYN", "ACK"}) /\ seg.acknowledgment = c.send_next
        <3> DEFINE e == [c EXCEPT !.receive_next = Plus(seg.sequence, 1),
                                  !.peer_window = seg.window, !.outstanding = None,
                                  !.state = "Established", !.peer = seg.stream]
        <3>1. out = Outcome(e, Ack(d, e))
            BY <2>1, <2>2 DEF OnSynSent
        <3>2. /\ Plus(seg.sequence, 1) \in Number /\ seg.window \in 0 .. ReceiveLimit
              /\ seg.stream \in Nat /\ "Established" \in States
            BY DEF Plus, SegmentType, Number, States
        <3>3. /\ e \in Connection /\ e.own = c.own /\ e.send_next = c.send_next
              /\ e.receive_next = Plus(seg.sequence, 1) /\ e.outstanding = None
              /\ e.state = "Established" /\ e.peer = seg.stream
            BY <3>2 DEF Connection
        <3> HIDE DEF e
        <3>4. out.conn = e /\ out.byte = 0 /\ ~out.fin /\ out.replies = {Segment(d, e, {"ACK"}, 0)}
            BY <3>1 DEF Outcome, Ack
        <3>5. "RST" \notin seg.flags /\ {"SYN", "ACK"} \subseteq seg.flags
            BY <1>8, <2>2 DEF Has
        <3> QED
            BY <1>8, <2>2, <3>3, <3>4, <3>5 DEF OpenOutcome
    <2>3. CASE ~(Has(seg, {"SYN", "ACK"}) /\ seg.acknowledgment = c.send_next)
        <3>1. out = Outcome(c, {})
            BY <2>1, <2>3 DEF OnSynSent
        <3> QED
            BY <1>2, <3>1
    <2> QED
        BY <2>2, <2>3
<1> DEFINE again == /\ c.state = "SynReceived" /\ Has(seg, {"SYN"})
                    /\ Plus(seg.sequence, 1) = c.receive_next
           open == c.state \notin {"Closed", "TimeWait", "SynSent"} /\ ~Has(seg, {"RST"})
<1>9. CASE open /\ again
    <2>1. out = Outcome(c, {x.segment : x \in {c.outstanding} \ {None}})
        BY <1>9 DEF ReceiveOn
    <2>2. CASE c.outstanding = None
        <3>1. out = Outcome(c, {})
            BY <2>1, <2>2
        <3> QED
            BY <1>2, <3>1
    <2>3. CASE c.outstanding # None
        <3>1. {x.segment : x \in {c.outstanding} \ {None}} = {c.outstanding.segment}
            BY <2>3
        <3>2. c.outstanding.segment \in SegmentType /\ SegmentOK(p, c.outstanding.segment)
            BY <2>3 DEF ConnectionOK, Connection, Outstanding
        <3>3. out = Outcome(c, {c.outstanding.segment})
            BY <2>1, <3>1
        <3> QED
            BY <1>1, <3>2, <3>3
    <2> QED
        BY <2>2, <2>3
<1>10. CASE open /\ ~again /\ ~InOrder(c, seg)
    <2>1. out = Outcome(c, Ack(d, c))
        BY <1>10 DEF ReceiveOn
    <2> QED
        BY <1>3, <1>4, <1>10, <2>1
<1>11. CASE open /\ ~again /\ InOrder(c, seg) /\ ~Has(seg, {"ACK"})
    <2>1. out = Outcome(c, {})
        BY <1>11 DEF ReceiveOn
    <2> QED
        BY <1>2, <2>1
<1>12. CASE open /\ ~again /\ InOrder(c, seg) /\ Has(seg, {"ACK"})
    <2>1. out = OnInOrder(d, c, seg)
        BY <1>12 DEF ReceiveOn
    <2>2. PICK c1 : c1 = Acknowledged(c, seg)
        OBVIOUS
    <2>3. /\ c1 \in Connection /\ ConnectionOK(p, d, c1) /\ c1.peer # 0
          /\ c1.state \notin {"SynSent"}
          /\ c1.received = c.received /\ c1.receive_next = c.receive_next
          /\ c1.peer_closed = c.peer_closed /\ c1.own = c.own /\ c1.peer = c.peer
        <3>1. /\ c.state \notin {"Closed", "SynSent", "TimeWait"} /\ "RST" \notin seg.flags
              /\ "ACK" \in seg.flags /\ seg.sequence = c.receive_next
            BY <1>12 DEF Has, InOrder
        <3> QED
            BY <2>2, <3>1, AcknowledgedFits
    <2> DEFINE c2 == [c1 EXCEPT !.peer_window = seg.window]
    <2>4. /\ c2 \in Connection /\ c2.state = c1.state /\ c2.send_next = c1.send_next
          /\ c2.receive_next = c1.receive_next /\ c2.received = c1.received
          /\ c2.outstanding = c1.outstanding /\ c2.peer_closed = c1.peer_closed
          /\ c2.own = c1.own /\ c2.peer = c1.peer
        BY <2>3 DEF Connection, SegmentType
    <2>5. out = IF c1.state \in {"SynReceived", "Closed"} THEN Outcome(c1, {})
                ELSE IF c.peer_closed THEN Outcome(c2, {})
                ELSE IF ~HasRoom(c, seg) THEN Outcome(c2, Ack(d, c2))
                ELSE Absorbed(d, c2, seg)
        BY <2>1, <2>2 DEF OnInOrder
    <2> HIDE DEF c2
    <2>6. ConnectionOK(p, d, c2) /\ c2.peer # 0
        BY <2>3, <2>4 DEF ConnectionOK
    <2>7. CASE c1.state \in {"SynReceived", "Closed"}
        <3>1. out = Outcome(c1, {})
            BY <2>5, <2>7
        <3> QED
            BY <1>2, <2>3, <3>1
    <2>8. CASE c1.state \notin {"SynReceived", "Closed"} /\ c.peer_closed
        <3>1. out = Outcome(c2, {})
            BY <2>5, <2>8
        <3> QED
            BY <1>2, <2>4, <2>6, <3>1
    <2>9. CASE c1.state \notin {"SynReceived", "Closed"} /\ ~c.peer_closed /\ ~HasRoom(c, seg)
        <3>1. out = Outcome(c2, Ack(d, c2))
            BY <2>5, <2>9
        <3> QED
            BY <1>3, <2>4, <2>6, <3>1
    <2>10. CASE c1.state \notin {"SynReceived", "Closed"} /\ ~c.peer_closed /\ HasRoom(c, seg)
        <3>1. out = Absorbed(d, c2, seg)
            BY <2>5, <2>10
        <3>2. c2.state \in Synchronized
            BY <2>3, <2>4, <2>10 DEF Synchronized, Connection, States
        <3>3. ~c2.peer_closed /\ "RST" \notin seg.flags /\ seg.sequence = c2.receive_next
            BY <1>12, <2>3, <2>4, <2>10 DEF Has, InOrder
        <3>4. c2.received + DataLen(seg) <= ReceiveLimit
            BY <2>3, <2>4, <2>10 DEF HasRoom
        <3>5. StayOutcome(p, d, out) \/ TakeOutcome(p, d, c2, out)
            BY <2>4, <2>6, <3>1, <3>2, <3>3, <3>4, AbsorbedOutcome
        <3>6. TakeOutcome(p, d, c2, out) => TakeOutcome(p, d, c, out)
            BY <2>3, <2>4 DEF TakeOutcome
        <3> QED
            BY <3>5, <3>6
    <2> QED
        BY <2>7, <2>8, <2>9, <2>10
<1> QED
    BY <1>5, <1>6, <1>7, <1>8, <1>9, <1>10, <1>11, <1>12

\* What a segment for a connection does to it and to the streams.
LEMMA Receiving ==
    ASSUME Types, NEW d \in Device, NEW seg \in network, ReceiveConnection(d, seg),
           NEW p \in [Stream -> Nat], Fits(p)
    PROVE  \E c, out :
             /\ c \in Connection /\ c = conn[d] /\ ConnectionOK(p, d, c)
             /\ seg \in SegmentType /\ SegmentOK(p, seg) /\ seg.to = d
             /\ StayOutcome(p, d, out) \/ OpenOutcome(d, c, seg, out) \/ TakeOutcome(p, d, c, out)
             /\ conn' = [conn EXCEPT ![d] = out.conn] /\ Post(out.replies)
             /\ accepted' = IF out.byte = 0 THEN accepted
                            ELSE [accepted EXCEPT ![<<Other(d), c.peer>>] = Append(@, out.byte)]
             /\ eof' = IF out.fin THEN [eof EXCEPT ![<<Other(d), c.peer>>] = TRUE] ELSE eof
             /\ UNCHANGED <<bound, listening, opens, written, shut>>
<1>1. PICK c \in Connection : c = conn[d] /\ ConnectionOK(p, d, c)
    <2>1. conn[d] # NoConn
        BY DEF ReceiveConnection
    <2> QED
        BY <2>1, Current
<1>2. seg \in SegmentType /\ SegmentOK(p, seg) /\ seg.to = d
    BY DEF Types, Fits, ReceiveConnection, Deliver
<1>3. PICK out : out = ReceiveOn(d, c, seg)
    OBVIOUS
<1>4. StayOutcome(p, d, out) \/ OpenOutcome(d, c, seg, out) \/ TakeOutcome(p, d, c, out)
    BY <1>1, <1>2, <1>3, ReceiveOutcome
<1>5. /\ conn' = [conn EXCEPT ![d] = out.conn] /\ Post(out.replies)
      /\ accepted' = IF out.byte = 0 THEN accepted
                     ELSE [accepted EXCEPT ![<<Other(d), c.peer>>] = Append(@, out.byte)]
      /\ eof' = IF out.fin THEN [eof EXCEPT ![<<Other(d), c.peer>>] = TRUE] ELSE eof
      /\ UNCHANGED <<bound, listening, opens, written, shut>>
    BY <1>1, <1>3 DEF ReceiveConnection
<1> QED
    BY <1>1, <1>2, <1>4, <1>5

\* A connection takes a segment.
LEMMA ReceiveConnectionInv ==
    ASSUME TcpInv, NEW d \in Device, NEW seg \in network, ReceiveConnection(d, seg)
    PROVE  TcpInv'
<1>1. PICK p \in [Stream -> Nat] : Fits(p)
    BY DEF TcpInv
<1>2. Types
    BY DEF TcpInv
<1>3. PICK c, out :
        /\ c \in Connection /\ c = conn[d] /\ ConnectionOK(p, d, c)
        /\ seg \in SegmentType /\ SegmentOK(p, seg) /\ seg.to = d
        /\ StayOutcome(p, d, out) \/ OpenOutcome(d, c, seg, out) \/ TakeOutcome(p, d, c, out)
        /\ conn' = [conn EXCEPT ![d] = out.conn] /\ Post(out.replies)
        /\ accepted' = IF out.byte = 0 THEN accepted
                       ELSE [accepted EXCEPT ![<<Other(d), c.peer>>] = Append(@, out.byte)]
        /\ eof' = IF out.fin THEN [eof EXCEPT ![<<Other(d), c.peer>>] = TRUE] ELSE eof
        /\ UNCHANGED <<bound, listening, opens, written, shut>>
    BY <1>1, <1>2, Receiving
<1>4. PICK e : e = out.conn
    OBVIOUS
<1>5. PICK replies : replies = out.replies
    OBVIOUS
<1>6. conn' = [conn EXCEPT ![d] = e] /\ conn'[d] = e /\ conn'[Other(d)] = conn[Other(d)]
    BY <1>2, <1>3, <1>4, Others DEF Types
<1>7. network' \subseteq network \cup replies
    BY <1>3, <1>5, Posted
<1>8. ASSUME e \in Connection, replies \in SUBSET SegmentType,
             accepted' \in [Stream -> Seq(Nat)], eof' \in [Stream -> BOOLEAN]
      PROVE  Types'
    BY <1>2, <1>3, <1>6, <1>7, <1>8 DEF Types
<1>9. CASE StayOutcome(p, d, out)
    <2>1. e \in {NoConn} \cup Connection /\ ConnectionOK(p, d, e)
        BY <1>4, <1>9 DEF StayOutcome
    <2>2. replies \in SUBSET SegmentType /\ \A sg \in replies : SegmentOK(p, sg)
        BY <1>5, <1>9 DEF StayOutcome
    <2>3. UNCHANGED <<bound, opens, streams>> /\ listening' \in BOOLEAN
        BY <1>2, <1>3, <1>9 DEF StayOutcome, streams, Types
    <2> QED
        BY <1>1, <1>2, <1>6, <1>7, <2>1, <2>2, <2>3, Quiet
<1>10. CASE OpenOutcome(d, c, seg, out)
    <2>1. /\ c.state = "SynSent" /\ "RST" \notin seg.flags
          /\ {"SYN", "ACK"} \subseteq seg.flags /\ seg.acknowledgment = c.send_next
          /\ e \in Connection /\ e.own = c.own /\ e.send_next = c.send_next
          /\ e.receive_next = Plus(seg.sequence, 1) /\ e.outstanding = None
          /\ e.state = "Established" /\ e.peer = seg.stream
          /\ replies = {Segment(d, e, {"ACK"}, 0)}
        BY <1>4, <1>5, <1>10 DEF OpenOutcome
    <2>2. UNCHANGED <<bound, opens, streams>>
        BY <1>3, <1>10 DEF OpenOutcome, streams
    <2>3. Types'
        <3>1. Segment(d, e, {"ACK"}, 0) \in SegmentType
            BY <2>1, SegmentTyped DEF Flag
        <3> QED
            BY <1>2, <1>8, <2>1, <2>2, <3>1 DEF Types, streams
    <2>4. network' \subseteq network \cup {Segment(d, e, {"ACK"}, 0)}
        BY <1>7, <2>1
    <2> QED
        BY <1>1, <1>2, <1>3, <1>6, <2>1, <2>2, <2>3, <2>4, Establishing
<1>11. CASE TakeOutcome(p, d, c, out)
    <2>1. PICK j : j = <<Other(d), c.peer>>
        OBVIOUS
    <2>2. PICK b \in Connection : /\ ConnectionOK(p, d, b) /\ b.state \in Synchronized
                                  /\ b.own = c.own /\ b.peer = c.peer /\ Taken(b, e)
        BY <1>4, <1>11 DEF TakeOutcome
    <2>3. /\ c.peer # 0 /\ j \in Stream /\ ~eof[j] /\ replies = {Segment(d, e, {"ACK"}, 0)}
          /\ \/ out.byte = Len(accepted[j]) + 1 /\ Len(accepted[j]) < written[j] /\ ~out.fin
             \/ out.byte = 0 /\ out.fin /\ e.peer_closed /\ shut[j] /\ Len(accepted[j]) = written[j]
        BY <1>4, <1>5, <1>11, <2>1 DEF TakeOutcome
    <2>4. accepted[j] \in Seq(Nat) /\ Len(accepted[j]) \in Nat /\ written[j] \in Nat
        BY <1>2, <2>3 DEF Types
    <2>5. /\ accepted' \in [Stream -> Seq(Nat)] /\ eof' \in [Stream -> BOOLEAN]
          /\ \A k \in Stream : k # j => accepted'[k] = accepted[k] /\ eof'[k] = eof[k]
          /\ Got(j)' = Got(j) + 1 /\ Len(accepted'[j]) <= written[j]
          /\ eof'[j] => shut[j] /\ Len(accepted'[j]) = written[j] /\ e.peer_closed
        <3>1. CASE out.byte = Len(accepted[j]) + 1 /\ Len(accepted[j]) < written[j] /\ ~out.fin
            <4>1. accepted' = [accepted EXCEPT ![j] = Append(accepted[j], out.byte)] /\ eof' = eof
                BY <1>3, <2>1, <2>4, <3>1
            <4>2. /\ Append(accepted[j], out.byte) \in Seq(Nat)
                  /\ Len(Append(accepted[j], out.byte)) = Len(accepted[j]) + 1
                BY <2>4, <3>1
            <4>3. Len(accepted'[j]) = Len(accepted[j]) + 1 /\ ~eof'[j]
                BY <1>2, <2>3, <4>1, <4>2 DEF Types
            <4>4. accepted' \in [Stream -> Seq(Nat)] /\ \A k \in Stream : k # j => accepted'[k] = accepted[k]
                BY <1>2, <4>1, <4>2 DEF Types
            <4>5. Got(j)' = Got(j) + 1
                BY <2>3, <2>4, <4>3 DEF Got
            <4> QED
                BY <1>2, <2>4, <3>1, <4>1, <4>3, <4>4, <4>5 DEF Types
        <3>2. CASE out.byte = 0 /\ out.fin /\ e.peer_closed /\ shut[j] /\ Len(accepted[j]) = written[j]
            <4>1. accepted' = accepted /\ eof' = [eof EXCEPT ![j] = TRUE]
                BY <1>3, <2>1, <3>2
            <4>2. eof'[j] = TRUE /\ eof' \in [Stream -> BOOLEAN] /\ \A k \in Stream : k # j => eof'[k] = eof[k]
                BY <1>2, <2>3, <4>1 DEF Types
            <4>3. Got(j)' = Got(j) + 1
                BY <2>3, <2>4, <4>1, <4>2 DEF Got
            <4> QED
                BY <1>2, <2>4, <3>2, <4>1, <4>2, <4>3 DEF Types
        <3> QED
            BY <2>3, <3>1, <3>2
    <2>6. /\ e \in Connection /\ e.own = b.own /\ e.peer = b.peer /\ e.send_next = b.send_next
          /\ e.outstanding = b.outstanding /\ e.receive_next = Plus(b.receive_next, 1)
          /\ e.state \in Synchronized
          /\ e.state \in {"Established", "CloseWait"} => b.state \in {"Established", "CloseWait"}
          /\ e.state \in {"CloseWait", "LastAck", "TimeWait"} => e.peer_closed
        BY <2>2 DEF Taken
    <2>7. Types'
        <3>1. Segment(d, e, {"ACK"}, 0) \in SegmentType
            BY <2>6, SegmentTyped DEF Flag
        <3> QED
            BY <1>8, <2>3, <2>5, <2>6, <3>1
    <2>8. network' \subseteq network \cup {Segment(d, e, {"ACK"}, 0)}
        BY <1>7, <2>3
    <2>9. Mutual(p, d, b.own) /\ j = <<Other(d), b.peer>> /\ UNCHANGED <<bound, opens, written, shut>>
        BY <1>3, <2>1, <2>2 DEF ConnectionOK
    <2> QED
        <3>1. /\ \A k \in Stream : k # j => accepted'[k] = accepted[k] /\ eof'[k] = eof[k]
              /\ Got(j)' = Got(j) + 1 /\ Len(accepted'[j]) <= written[j]
              /\ eof'[j] => shut[j] /\ Len(accepted'[j]) = written[j]
              /\ eof'[j] => e.peer_closed
            BY <2>5
        <3>2. conn'[d] = e /\ conn'[Other(d)] = conn[Other(d)]
            BY <1>6
        <3>3. ConnectionOK(p, d, b) /\ b.state \in Synchronized
            BY <2>2
        <3> QED
            BY <1>1, <1>2, <2>6, <2>7, <2>8, <2>9, <3>1, <3>2, <3>3, Taking
<1> QED
    BY <1>3, <1>9, <1>10, <1>11

-----------------------------------------------------------------------------
(* Theorems *)

\* No incarnation, nothing sent: every function of no partners fits.
LEMMA InitInv ==
    ASSUME Init
    PROVE  TcpInv
<1> DEFINE p == [i \in Stream |-> 0]
<1>1. Types
    <2>1. <<>> \in Seq(Nat)
        OBVIOUS
    <2>2. bound.opens \in Nat /\ bound.accepts \in Nat
        BY TcpAssumption DEF Init, Bound
    <2>3. opens["client"] = 0 /\ opens["server"] = 0
        BY DEF Init, Device
    <2> QED
        BY <2>1, <2>2, <2>3 DEF Init, Types
<1>2. \A d \in Device : Used(d) = {} /\ conn[d] = NoConn
    BY DEF Init, Used
<1>3. Partners(p)
    BY <1>2 DEF Partners
<1>4. ASSUME NEW i \in Stream
      PROVE  StreamOK(p, i)
    <2>1. written[i] = 0 /\ ~shut[i] /\ accepted[i] = <<>> /\ ~eof[i] /\ bound.bytes \in Nat
        BY TcpAssumption DEF Init, Bound
    <2>2. Len(accepted[i]) = 0
        BY <2>1
    <2>3. SentTo(i) = 1 /\ Got(i) = 1
        BY <2>1, <2>2 DEF SentTo, Got
    <2> QED
        BY <2>1, <2>2, <2>3 DEF StreamOK
<1>5. Fits(p)
    BY <1>2, <1>3, <1>4 DEF Fits, Init
<1>6. p \in [Stream -> Nat]
    OBVIOUS
<1> QED
    BY <1>1, <1>5, <1>6 DEF TcpInv

\* Nothing changes.
LEMMA StutterInv ==
    ASSUME TcpInv, UNCHANGED vars
    PROVE  TcpInv'
<1>1. PICK p \in [Stream -> Nat] : Fits(p)
    BY DEF TcpInv
<1>2. Types /\ "client" \in Device
    BY DEF TcpInv, Device
<1> DEFINE none == {}
<1>3. conn' = [conn EXCEPT !["client"] = conn["client"]] /\ conn["client"] \in {NoConn} \cup Connection
    BY <1>2 DEF vars, Types
<1>4. /\ UNCHANGED <<bound, opens, streams>> /\ listening' \in BOOLEAN
      /\ network' \subseteq network \cup none
    BY <1>2 DEF vars, Types
<1>5. conn["client"] # NoConn => ConnectionOK(p, "client", conn["client"])
    BY <1>1, <1>2, Current
<1>6. none \in SUBSET SegmentType /\ \A seg \in none : SegmentOK(p, seg)
    OBVIOUS
<1> HIDE DEF none
<1> QED
    BY <1>1, <1>2, <1>3, <1>4, <1>5, <1>6, Quiet

\* The invariant is inductive.
LEMMA NextInv ==
    ASSUME TcpInv, [Next]_vars
    PROVE  TcpInv'
BY ListenInv, ConnectInv, SendInv, CloseInv, ReadInv, AbortInv, ExpireInv, RetransmitInv,
   GiveUpInv, ReceiveConnectionInv, ReceiveListenerInv, ReceiveUnknownInv, StutterInv DEF Next

\* The inductive invariant: every sequence number in a connection or in flight
\* is of a known incarnation and at an offset that its stream has reached.
THEOREM TcpInvariant == Spec => []TcpInv
<1>1. Init => TcpInv
    BY InitInv
<1>2. TcpInv /\ [Next]_vars => TcpInv'
    BY NextInv
<1> QED
    BY <1>1, <1>2, PTL DEF Spec

\* A sender with nothing outstanding has delivered every byte it was given
\* and, after tcp_close, the end of its stream.
THEOREM TcpAckedIsAccepted == Spec => []AckedIsAccepted
<1>1. TcpInv => AckedIsAccepted
    <2> SUFFICES ASSUME TcpInv, NEW d \in Device,
                        conn[d].state \in States \ {"Closed", "SynSent", "SynReceived"},
                        conn[d].outstanding = None
                 PROVE  /\ Len(accepted[<<d, conn[d].own>>]) = written[<<d, conn[d].own>>]
                        /\ eof[<<d, conn[d].own>>] = shut[<<d, conn[d].own>>]
        BY DEF AckedIsAccepted
    <2>1. PICK p \in [Stream -> Nat] : Fits(p)
        BY DEF TcpInv
    <2>2. Types
        BY DEF TcpInv
    <2>3. PICK c \in Connection : c = conn[d] /\ ConnectionOK(p, d, c)
        <3>1. conn[d] # NoConn
            BY DEF NoConn, States
        <3> QED
            BY <2>1, <2>2, <3>1, Current
    <2> DEFINE i == <<d, c.own>>
    <2>4. i \in Stream /\ Got(i) = SentTo(i)
        BY <2>2, <2>3, Incarnations DEF ConnectionOK, Synchronized, States
    <2>5. /\ Len(accepted[i]) <= written[i] /\ (eof[i] => shut[i] /\ Len(accepted[i]) = written[i])
          /\ written[i] \in Nat /\ Len(accepted[i]) \in Nat /\ eof[i] \in BOOLEAN /\ shut[i] \in BOOLEAN
        BY <2>1, <2>2, <2>4 DEF Fits, StreamOK, Types
    <2>6. 1 + Len(accepted[i]) + (IF eof[i] THEN 1 ELSE 0) = 1 + written[i] + (IF shut[i] THEN 1 ELSE 0)
        BY <2>4 DEF Got, SentTo
    <2> HIDE DEF i
    <2>7. Len(accepted[i]) = written[i] /\ eof[i] = shut[i]
        <3>1. CASE eof[i]
            BY <2>5, <3>1
        <3>2. CASE ~eof[i] /\ shut[i]
            BY <2>5, <2>6, <3>2
        <3>3. CASE ~eof[i] /\ ~shut[i]
            BY <2>5, <2>6, <3>3
        <3> QED
            BY <3>1, <3>2, <3>3
    <2> QED
        BY <2>3, <2>7 DEF i
<1> QED
    BY <1>1, TcpInvariant, PTL

\* An established client and the server entry that took its SYN talk to each
\* other.
THEOREM TcpPaired == Spec => []Paired
<1>1. TcpInv => Paired
    <2> SUFFICES ASSUME TcpInv,
                        conn["client"].state \in States \ {"Closed", "SynSent"},
                        conn["server"].state \in States \ {"Closed", "SynReceived"},
                        conn["server"].peer = conn["client"].own
                 PROVE  conn["client"].peer = conn["server"].own
        BY DEF Paired
    <2>1. PICK p \in [Stream -> Nat] : Fits(p)
        BY DEF TcpInv
    <2>2. Types /\ "client" \in Device /\ "server" \in Device
        BY DEF TcpInv, Device
    <2>3. conn["client"] # NoConn /\ conn["server"] # NoConn
        BY DEF NoConn, States
    <2>4. /\ conn["client"] \in Connection /\ ConnectionOK(p, "client", conn["client"])
          /\ conn["server"] \in Connection /\ ConnectionOK(p, "server", conn["server"])
        BY <2>1, <2>2, <2>3, Current
    <2>5. Mutual(p, "server", conn["server"].own)
        BY <2>4 DEF ConnectionOK, Synchronized, States
    <2> QED
        BY <2>4, <2>5 DEF ConnectionOK, Mutual, Other
<1> QED
    BY <1>1, TcpInvariant, PTL

\* The connections implement ByteStream: each direction of each incarnation
\* delivers its bytes in order, once, and its end after them.
THEOREM TcpImplements == Spec => Implements
<1>1. Init => Streams!Init
    BY DEF Init, Streams!Init
<1>2. ASSUME TcpInv, [Next]_vars
      PROVE  [Streams!Next]_(Streams!vars)
    <2>1. PICK p \in [Stream -> Nat] : Fits(p)
        BY <1>2 DEF TcpInv
    <2>2. Types
        BY <1>2 DEF TcpInv
    <2>3. UNCHANGED streams => UNCHANGED Streams!vars
        BY DEF streams, Streams!vars
    <2>4. ASSUME NEW d \in Device, MayClose(conn[d]) \/ Send(d)
          PROVE  <<d, conn[d].own>> \in Stream /\ ~shut[<<d, conn[d].own>>]
        <3>1. conn[d] # NoConn
            BY <2>4 DEF MayClose, Send, NoConn
        <3>2. conn[d] \in Connection /\ ConnectionOK(p, d, conn[d])
            BY <2>1, <2>2, <3>1, Current
        <3> QED
            BY <2>2, <2>4, <3>2, Incarnations DEF MayClose, Send, ConnectionOK
    <2>5. ASSUME NEW d \in Device, Send(d)
          PROVE  Streams!Next
        <3> DEFINE i == <<d, conn[d].own>>
        <3>1. i \in Stream /\ ~shut[i]
            BY <2>4, <2>5
        <3>2. written' = [written EXCEPT ![i] = @ + 1] /\ UNCHANGED <<shut, accepted, eof>>
            BY <2>5 DEF Send
        <3>3. written'[i] # written[i]
            BY <2>2, <3>1, <3>2 DEF Types
        <3>4. Streams!Write(i) /\ Streams!vars' # Streams!vars
            BY <3>1, <3>2, <3>3 DEF Streams!Write, Streams!vars
        <3> QED
            BY <3>1, <3>4 DEF Streams!Next
    <2>6. ASSUME NEW d \in Device, Close(d)
          PROVE  Streams!Next
        <3> DEFINE i == <<d, conn[d].own>>
        <3>1. i \in Stream /\ ~shut[i]
            BY <2>4, <2>6 DEF Close
        <3>2. shut' = [shut EXCEPT ![i] = TRUE] /\ UNCHANGED <<written, accepted, eof>>
            BY <2>6 DEF Close
        <3>3. shut'[i] # shut[i]
            BY <2>2, <3>1, <3>2 DEF Types
        <3>4. Streams!Shut(i) /\ Streams!vars' # Streams!vars
            BY <3>1, <3>2, <3>3 DEF Streams!Shut, Streams!vars
        <3> QED
            BY <3>1, <3>4 DEF Streams!Next
    <2>7. ASSUME NEW d \in Device, NEW seg \in network, ReceiveConnection(d, seg)
          PROVE  Streams!Next \/ UNCHANGED Streams!vars
        <3>1. PICK c, out :
                /\ c \in Connection /\ c = conn[d] /\ ConnectionOK(p, d, c)
                /\ seg \in SegmentType /\ SegmentOK(p, seg) /\ seg.to = d
                /\ StayOutcome(p, d, out) \/ OpenOutcome(d, c, seg, out) \/ TakeOutcome(p, d, c, out)
                /\ conn' = [conn EXCEPT ![d] = out.conn] /\ Post(out.replies)
                /\ accepted' = IF out.byte = 0 THEN accepted
                               ELSE [accepted EXCEPT ![<<Other(d), c.peer>>] = Append(@, out.byte)]
                /\ eof' = IF out.fin THEN [eof EXCEPT ![<<Other(d), c.peer>>] = TRUE] ELSE eof
                /\ UNCHANGED <<bound, listening, opens, written, shut>>
            BY <2>1, <2>2, <2>7, Receiving
        <3>2. CASE StayOutcome(p, d, out)
            BY <3>1, <3>2 DEF StayOutcome, Streams!vars
        <3>3. CASE OpenOutcome(d, c, seg, out)
            BY <3>1, <3>3 DEF OpenOutcome, Streams!vars
        <3>4. CASE TakeOutcome(p, d, c, out)
            <4> DEFINE j == <<Other(d), c.peer>>
            <4>1. /\ j \in Stream /\ ~eof[j]
                  /\ \/ out.byte = Len(accepted[j]) + 1 /\ Len(accepted[j]) < written[j] /\ ~out.fin
                     \/ out.byte = 0 /\ out.fin /\ shut[j] /\ Len(accepted[j]) = written[j]
                BY <3>4 DEF TakeOutcome
            <4>2. accepted[j] \in Seq(Nat) /\ Len(accepted[j]) \in Nat
                BY <2>2, <4>1 DEF Types
            <4>3. CASE out.byte = Len(accepted[j]) + 1 /\ Len(accepted[j]) < written[j] /\ ~out.fin
                <5>1. accepted' = [accepted EXCEPT ![j] = Append(@, Len(@) + 1)] /\ UNCHANGED <<written, shut, eof>>
                    BY <3>1, <4>2, <4>3
                <5>2. Len(accepted'[j]) # Len(accepted[j])
                    BY <2>2, <4>1, <4>2, <5>1 DEF Types
                <5>3. Streams!Accept(j) /\ Streams!vars' # Streams!vars
                    BY <4>1, <4>3, <5>1, <5>2 DEF Streams!Accept, Streams!vars
                <5> QED
                    BY <4>1, <5>3 DEF Streams!Next
            <4>4. CASE out.byte = 0 /\ out.fin /\ shut[j] /\ Len(accepted[j]) = written[j]
                <5>1. eof' = [eof EXCEPT ![j] = TRUE] /\ UNCHANGED <<written, shut, accepted>>
                    BY <3>1, <4>4
                <5>2. eof'[j] # eof[j]
                    BY <2>2, <4>1, <5>1 DEF Types
                <5>3. Streams!End(j) /\ Streams!vars' # Streams!vars
                    BY <4>1, <4>4, <5>1, <5>2 DEF Streams!End, Streams!vars
                <5> QED
                    BY <4>1, <5>3 DEF Streams!Next
            <4> QED
                BY <4>1, <4>3, <4>4
        <3> QED
            BY <3>1, <3>2, <3>3, <3>4
    <2>8. CASE Listen
        BY <2>3, <2>8 DEF Listen
    <2>9. CASE Connect
        BY <2>3, <2>9 DEF Connect
    <2>10. ASSUME NEW d \in Device, Read(d) \/ Abort(d) \/ Expire(d) \/ Retransmit(d) \/ GiveUp(d)
           PROVE  UNCHANGED Streams!vars
        BY <2>3, <2>10 DEF Read, Abort, Expire, Retransmit, GiveUp
    <2>11. ASSUME NEW d \in Device, NEW seg \in network, ReceiveListener(d, seg) \/ ReceiveUnknown(d, seg)
           PROVE  UNCHANGED Streams!vars
        BY <2>3, <2>11 DEF ReceiveListener, ReceiveUnknown
    <2>12. CASE UNCHANGED vars
        BY <2>3, <2>12 DEF vars
    <2> QED
        BY <1>2, <2>5, <2>6, <2>7, <2>8, <2>9, <2>10, <2>11, <2>12 DEF Next
<1> QED
    BY <1>1, <1>2, TcpInvariant, PTL DEF Spec, Implements, Streams!Spec

-----------------------------------------------------------------------------
(* Retransmissions, and the types *)

\* A segment that arrives drops what is outstanding or leaves it.
LEMMA OutstandingKept ==
    ASSUME NEW d, NEW c \in Connection, NEW seg
    PROVE  ReceiveOn(d, c, seg).conn.outstanding \in {None, c.outstanding}
<1>1. \A b, replies : Outcome(b, replies).conn = b
    BY DEF Outcome
<1>2. OnReset(c, seg).conn.outstanding \in {None, c.outstanding}
    <2>1. [c EXCEPT !.state = "Closed", !.outstanding = None].outstanding = None
        BY DEF Connection
    <2>2. OnReset(c, seg).conn \in {c, [c EXCEPT !.state = "Closed", !.outstanding = None]}
        BY <1>1 DEF OnReset
    <2> QED
        BY <2>1, <2>2
<1>3. OnTimeWait(d, c, seg).conn = c
    BY <1>1 DEF OnTimeWait
<1>4. OnSynSent(d, c, seg).conn.outstanding \in {None, c.outstanding}
    <2> DEFINE open == [c EXCEPT !.receive_next = Plus(seg.sequence, 1),
                                 !.peer_window = seg.window, !.outstanding = None,
                                 !.state = "Established", !.peer = seg.stream]
    <2>1. open.outstanding = None
        BY DEF Connection
    <2>2. OnSynSent(d, c, seg).conn \in {c, open}
        BY <1>1 DEF OnSynSent
    <2> HIDE DEF open
    <2> QED
        BY <2>1, <2>2
<1>5. PICK c1 : c1 = Acknowledged(c, seg)
    OBVIOUS
<1>6. /\ c1.outstanding \in {None, c.outstanding}
      /\ c1 = [f \in DOMAIN c1 |-> c1[f]] /\ DOMAIN c1 = DOMAIN c
    BY <1>5 DEF Acknowledged, Connection
<1>7. PICK c2 : c2 = [c1 EXCEPT !.peer_window = seg.window]
    OBVIOUS
<1>8. c2.outstanding = c1.outstanding /\ DOMAIN c2 = DOMAIN c /\ c2 = [f \in DOMAIN c2 |-> c2[f]]
    BY <1>6, <1>7
<1>9. Absorbed(d, c2, seg).conn.outstanding = c2.outstanding
    <2>1. PICK x, y, z, s :
            Absorbed(d, c2, seg).conn
              = [c2 EXCEPT !.receive_next = x, !.received = y, !.peer_closed = z, !.state = s]
        BY DEF Absorbed
    <2>2. "outstanding" \in DOMAIN c2
        BY <1>8 DEF Connection
    <2> QED
        BY <1>8, <2>1, <2>2
<1>10. OnInOrder(d, c, seg).conn.outstanding \in {None, c.outstanding}
    <2>1. OnInOrder(d, c, seg) \in {Outcome(c1, {}), Outcome(c2, {}), Outcome(c2, Ack(d, c2)), Absorbed(d, c2, seg)}
        BY <1>5, <1>7 DEF OnInOrder
    <2> QED
        BY <1>1, <1>6, <1>8, <1>9, <2>1
<1> QED
    BY <1>1, <1>2, <1>3, <1>4, <1>10 DEF ReceiveOn

\* No segment is retransmitted more often than the code allows.
Retries ==
    \A d \in Device : conn[d] # NoConn /\ conn[d].outstanding # None
        => conn[d].outstanding.retries <= bound.retries

\* A step of device d whose connection has at most the retries allowed.
LEMMA RetriesKept ==
    ASSUME Types, Retries, NEW d \in Device, NEW c, conn' = [conn EXCEPT ![d] = c], bound' = bound,
           c # NoConn /\ c.outstanding # None => c.outstanding.retries <= bound.retries
    PROVE  Retries'
BY DEF Types, Retries

\* What is sent for the first time has been retransmitted never.
LEMMA FirstTime ==
    ASSUME NEW d \in Device, NEW c \in Connection, NEW flags, NEW byte
    PROVE  \/ Sending(d, c, flags, byte).outstanding = c.outstanding
           \/ Sending(d, c, flags, byte).outstanding.retries = 0
<1> DEFINE seg == Segment(d, c, flags, byte)
           o == IF SequenceLen(seg) = 0 THEN c.outstanding ELSE [segment |-> seg, retries |-> 0]
           x == Plus(c.send_next, SequenceLen(seg))
<1>1. Sending(d, c, flags, byte) = [c EXCEPT !.send_next = x, !.outstanding = o]
    BY DEF Sending, Connection
<1>2. o = c.outstanding \/ o.retries = 0
    <2> HIDE DEF seg
    <2> QED
        OBVIOUS
<1> HIDE DEF x, o
<1>3. [c EXCEPT !.send_next = x, !.outstanding = o].outstanding = o
    BY DEF Connection
<1> QED
    BY <1>1, <1>2, <1>3

\* Retransmission is the only step that counts, and stops at the limit.
LEMMA RetriesNext ==
    ASSUME TcpInv, Retries, [Next]_vars
    PROVE  Retries'
<1>1. Types /\ bound.retries \in Nat
    BY TcpAssumption DEF TcpInv, Types, Bound
<1>2. ASSUME UNCHANGED <<bound, conn>>
      PROVE  Retries'
    BY <1>2 DEF Retries
<1>3. ASSUME NEW d \in Device, NEW c \in Connection, NEW flags, NEW byte, bound' = bound,
             conn' = [conn EXCEPT ![d] = Sending(d, c, flags, byte)],
             c.outstanding # None => c.outstanding.retries <= bound.retries
      PROVE  Retries'
    <2>1. PICK e : e = Sending(d, c, flags, byte)
        OBVIOUS
    <2>2. e.outstanding # None => e.outstanding.retries <= bound.retries
        BY <1>1, <1>3, <2>1, FirstTime
    <2> QED
        BY <1>1, <1>3, <2>1, <2>2, RetriesKept
<1>4. ASSUME NEW d \in Device, conn[d] # NoConn
      PROVE  /\ conn[d] \in Connection
             /\ conn[d].outstanding # None => conn[d].outstanding.retries <= bound.retries
    BY <1>1, <1>4 DEF Types, Retries
<1>5. ASSUME NEW n \in Nat
      PROVE  NewConnection(n) \in Connection /\ NewConnection(n).outstanding = None
    <2>1. InitialSequence(n) \in Number
        BY NumberedMod
    <2>2. 0 \in Number
        BY DEF Number
    <2> QED
        BY <2>1, <2>2 DEF NewConnection, Connection, States
<1>6. CASE Listen
    BY <1>2, <1>6 DEF Listen
<1>7. CASE Connect
    <2>1. PICK n \in Nat : n = opens'["client"]
        BY <1>1, <1>7 DEF Connect, Types, Device
    <2> DEFINE new == [NewConnection(n) EXCEPT !.state = "SynSent"]
    <2>2. new \in Connection /\ new.outstanding = None
        BY <1>5 DEF Connection, States
    <2>3. /\ conn' = [conn EXCEPT !["client"] = Sending("client", new, {"SYN"}, 0)]
          /\ bound' = bound /\ "client" \in Device
        BY <1>7, <2>1 DEF Connect, Device
    <2> HIDE DEF new
    <2> QED
        BY <1>3, <2>2, <2>3
<1>8. ASSUME NEW d \in Device, Send(d)
      PROVE  Retries'
    <2>1. conn[d] # NoConn
        BY <1>8 DEF Send, NoConn
    <2>2. PICK w : conn' = [conn EXCEPT ![d] = Sending(d, conn[d], {"ACK"}, w)] /\ bound' = bound
        BY <1>8 DEF Send
    <2> QED
        BY <1>3, <1>4, <2>1, <2>2
<1>9. ASSUME NEW d \in Device, Close(d)
      PROVE  Retries'
    <2>1. conn[d] # NoConn
        BY <1>9 DEF Close, MayClose, NoConn
    <2>2. PICK c : c = [conn[d] EXCEPT !.state = IF @ = "Established" THEN "FinWait" ELSE "LastAck"]
        OBVIOUS
    <2>3. c \in Connection /\ c.outstanding = conn[d].outstanding
        BY <1>4, <2>1, <2>2 DEF Connection, States
    <2>4. conn' = [conn EXCEPT ![d] = Sending(d, c, {"ACK", "FIN"}, 0)] /\ bound' = bound
        BY <1>9, <2>2 DEF Close
    <2> QED
        BY <1>3, <1>4, <2>1, <2>3, <2>4
<1>10. ASSUME NEW d \in Device, Read(d) \/ GiveUp(d)
       PROVE  Retries'
    <2>1. conn[d] # NoConn
        BY <1>10 DEF Read, GiveUp, Pending, NoConn
    <2>2. PICK c : c \in {[conn[d] EXCEPT !.received = 0], [conn[d] EXCEPT !.state = "Closed"]}
                   /\ conn' = [conn EXCEPT ![d] = c] /\ bound' = bound
        BY <1>10 DEF Read, GiveUp
    <2>3. c.outstanding = conn[d].outstanding
        BY <1>4, <2>1, <2>2 DEF Connection
    <2>4. c # NoConn /\ c.outstanding # None => c.outstanding.retries <= bound.retries
        BY <1>4, <2>1, <2>3
    <2> QED
        BY <1>1, <2>2, <2>4, RetriesKept
<1>11. ASSUME NEW d \in Device, Abort(d) \/ Expire(d)
       PROVE  Retries'
    <2>1. conn' = [conn EXCEPT ![d] = NoConn] /\ bound' = bound
        BY <1>11 DEF Abort, Expire
    <2> QED
        BY <1>1, <2>1, RetriesKept
<1>12. ASSUME NEW d \in Device, Retransmit(d)
       PROVE  Retries'
    <2>1. conn[d] # NoConn /\ conn[d].outstanding # None
        BY <1>12 DEF Retransmit, Pending, NoConn
    <2>2. conn[d].outstanding.retries \in Nat /\ conn[d].outstanding.retries < bound.retries
        BY <1>4, <1>12, <2>1 DEF Retransmit, Connection, Outstanding
    <2>3. PICK c : c = [conn[d] EXCEPT !.outstanding.retries = @ + 1]
        OBVIOUS
    <2>4. c.outstanding.retries = conn[d].outstanding.retries + 1
        BY <1>4, <2>1, <2>3 DEF Connection, Outstanding
    <2>5. conn' = [conn EXCEPT ![d] = c] /\ bound' = bound
        BY <1>1, <1>12, <2>3 DEF Retransmit, Types
    <2>6. c.outstanding.retries <= bound.retries
        BY <1>1, <2>2, <2>4
    <2> QED
        BY <1>1, <2>5, <2>6, RetriesKept
<1>13. ASSUME NEW d \in Device, NEW seg \in network, ReceiveConnection(d, seg)
       PROVE  Retries'
    <2>1. conn[d] # NoConn
        BY <1>13 DEF ReceiveConnection
    <2>2. PICK c : c = ReceiveOn(d, conn[d], seg).conn
        OBVIOUS
    <2>3. conn' = [conn EXCEPT ![d] = c] /\ bound' = bound
        BY <1>13, <2>2 DEF ReceiveConnection
    <2>4. c.outstanding \in {None, conn[d].outstanding}
        BY <1>4, <2>1, <2>2, OutstandingKept
    <2>5. c # NoConn /\ c.outstanding # None => c.outstanding.retries <= bound.retries
        BY <1>4, <2>1, <2>4
    <2> QED
        BY <1>1, <2>3, <2>5, RetriesKept
<1>14. ASSUME NEW d \in Device, NEW seg \in network, ReceiveListener(d, seg)
       PROVE  Retries'
    <2>1. PICK p \in [Stream -> Nat] : Fits(p)
        BY DEF TcpInv
    <2>2. seg \in SegmentType
        BY <1>1 DEF Types
    <2>3. PICK n \in Nat : n = opens'[d]
        BY <1>1, <1>14 DEF ReceiveListener, Types
    <2> DEFINE new == [NewConnection(n) EXCEPT
                         !.state = "SynReceived", !.receive_next = Plus(seg.sequence, 1),
                         !.peer_window = seg.window, !.peer = seg.stream]
    <2>4. Plus(seg.sequence, 1) \in Number
        BY <2>2 DEF Plus, SegmentType, Number
    <2>5. new \in Connection /\ new.outstanding = None
        BY <1>5, <2>2, <2>4, ZenonT(40) DEF Connection, States, SegmentType
    <2>6. conn' = [conn EXCEPT ![d] = Sending(d, new, {"SYN", "ACK"}, 0)] /\ bound' = bound
        BY <1>14, <2>3 DEF ReceiveListener
    <2> HIDE DEF new
    <2> QED
        BY <1>3, <2>5, <2>6
<1>15. ASSUME NEW d \in Device, NEW seg \in network, ReceiveUnknown(d, seg)
       PROVE  Retries'
    BY <1>2, <1>15 DEF ReceiveUnknown
<1>16. CASE UNCHANGED vars
    BY <1>2, <1>16 DEF vars
<1> QED
    BY <1>6, <1>7, <1>8, <1>9, <1>10, <1>11, <1>12, <1>13, <1>14, <1>15, <1>16 DEF Next

\* Sequence numbers are in range, the receive buffer never exceeds its limit,
\* so that the window announced by TcpConnection::segment is no underflow, and
\* no segment is sent again after the last retransmission.
THEOREM TcpTypeOK == Spec => []TypeOK
<1>1. Init => Retries
    BY DEF Init, Retries
<1>2. TcpInv /\ Retries /\ [Next]_vars => Retries'
    BY RetriesNext
<1>3. TcpInv /\ Retries => TypeOK
    <2> SUFFICES ASSUME TcpInv, Retries
                 PROVE  TypeOK
        OBVIOUS
    <2>1. Types /\ bound.retries \in Nat /\ bound.opens \in Nat /\ bound.accepts \in Nat
        BY TcpAssumption DEF TcpInv, Types, Bound
    <2>2. opens["client"] \in 0 .. bound.opens /\ opens["server"] \in 0 .. bound.accepts
        BY <2>1 DEF Types, Device
    <2>3. ASSUME NEW d \in Device, conn[d] # NoConn
          PROVE  /\ conn[d].state \in States
                 /\ {conn[d].send_next, conn[d].receive_next} \subseteq 0 .. Modulus - 1
                 /\ {conn[d].received, conn[d].peer_window} \subseteq 0 .. ReceiveLimit
                 /\ Pending(d) => conn[d].outstanding.retries \in 0 .. bound.retries
        <3>1. conn[d] \in Connection
            BY <2>1, <2>3 DEF Types
        <3>2. Pending(d) => conn[d].outstanding.retries \in 0 .. bound.retries
            BY <2>1, <2>3, <3>1 DEF Pending, Retries, Connection, Outstanding
        <3> QED
            BY <3>1, <3>2 DEF Connection, Number
    <2> QED
        BY <2>1, <2>2, <2>3 DEF TypeOK, Types
<1> QED
    BY <1>1, <1>2, <1>3, TcpInvariant, PTL DEF Spec

=============================================================================
