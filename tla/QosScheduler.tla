---------------------------- MODULE QosScheduler ----------------------------
(***************************************************************************)
(* The value of a QosScheduler<T> and of its token buckets                 *)
(* (crates/rios-simulator/src/qos/mod.rs and bucket.rs), with the          *)
(* operations as functions of that value.  A packet is its length and its  *)
(* finish tag.  Of the counters of a class only the bytes sent are kept.   *)
(***************************************************************************)
EXTENDS Integers, SequencesExt

CONSTANTS
    ByteCredits,  \* BYTE_CREDITS: credits that one byte costs
    TagScale      \* fixed-point scale of the finish tags (10^12)

ASSUME ScaleAssumption == {ByteCredits, TagScale} \subseteq Nat \ {0}

\* A class without the policer, shaper or priority in question.
NoLimit == [rate |-> 0, burst |-> 0]

\* What RateLimit::valid and QosScheduler::new let through.
Limits == {NoLimit} \cup [rate : Nat \ {0}, burst : Nat \ {0}]

QueueClassConfig ==
    [weight : Nat \ {0}, priority : Limits, police : Limits, shape : Limits]

CeilDiv(a, b) == (a + b - 1) \div b

-----------------------------------------------------------------------------
(* TokenBucket.  A class without a limit has a bucket that nothing reads. *)

NewBucket(limit, t) == [credit |-> limit.burst * ByteCredits, updated |-> t]

Refilled(b, limit, t) ==
    [credit |-> Min({b.credit + (t - b.updated) * limit.rate,
                     limit.burst * ByteCredits}),
     updated |-> t]

Available(b, limit, t, bytes) ==
    limit = NoLimit \/ Refilled(b, limit, t).credit >= bytes * ByteCredits

\* Mutant of Taken: the credit is looked at and not spent.
TakenFree(b, limit, t, bytes) == Refilled(b, limit, t)

\* The bucket after take, whether or not it grants the bytes.
Taken(b, limit, t, bytes) ==
    IF limit # NoLimit /\ Available(b, limit, t, bytes)
    THEN [Refilled(b, limit, t) EXCEPT !.credit = @ - bytes * ByteCredits]
    ELSE Refilled(b, limit, t)

ReadyAt(b, limit, t, bytes) ==
    IF Available(b, limit, t, bytes) THEN t
    ELSE t + CeilDiv(bytes * ByteCredits - Refilled(b, limit, t).credit, limit.rate)

-----------------------------------------------------------------------------
(* QosScheduler.  classes is the sequence of QueueClassConfig of the profile. *)

NewScheduler(classes, t) ==
    [virtual_time |-> 0,
     class |-> [k \in DOMAIN classes |->
                  [priority |-> NewBucket(classes[k].priority, t),
                   police |-> NewBucket(classes[k].police, t),
                   shape |-> NewBucket(classes[k].shape, t),
                   packets |-> <<>>, last_finish |-> 0, transmitted_bytes |-> 0]]]

Waiting(q) == {k \in DOMAIN q.class : q.class[k].packets # <<>>}

Length(q) == FoldSeq(LAMBDA c, n : n + Len(c.packets), 0, q.class)

\* Finish tags start over when the scheduler was empty.
Restarted(q) ==
    IF Waiting(q) # {} THEN q
    ELSE [virtual_time |-> 0,
          class |-> [k \in DOMAIN q.class |-> [q.class[k] EXCEPT !.last_finish = 0]]]

HasRoom(q, in_flight, capacity) == Length(q) + in_flight < capacity

\* Why enqueue refuses the packet, or "none".
Reject(q, classes, k, t, bytes, in_flight, capacity) ==
    LET c == q.class[k] config == classes[k] IN
    IF ~Available(c.police, config.police, t, bytes) THEN "policed"
    ELSE IF /\ ~Available(c.priority, config.priority, t, bytes)
            /\ Length(q) + in_flight > 0 THEN "priority"
    ELSE IF config.shape # NoLimit /\ bytes > config.shape.burst THEN "burst"
    ELSE IF ~HasRoom(q, in_flight, capacity) THEN "full"
    ELSE "none"

\* The policer spends its credit first, the priority bucket only for what the
\* policer lets pass; both keep what they spent when a later check refuses.
Conditioned(q, classes, k, t, bytes) ==
    LET c == q.class[k] config == classes[k]
        passes == Available(c.police, config.police, t, bytes)
    IN [q EXCEPT
          !.class[k].police = Taken(@, config.police, t, bytes),
          !.class[k].priority = IF passes THEN Taken(@, config.priority, t, bytes) ELSE @]

\* Mutant of FinishTag: a class that was idle is served for its idle time.
FinishTagOfIdle(q, weight, k, bytes) ==
    q.class[k].last_finish + CeilDiv(bytes * TagScale, weight)

FinishTag(q, weight, k, bytes) ==
    Max({q.class[k].last_finish, q.virtual_time}) + CeilDiv(bytes * TagScale, weight)

Enqueued(q, classes, k, bytes) ==
    LET finish == FinishTag(q, classes[k].weight, k, bytes) IN
    [q EXCEPT !.class[k].last_finish = finish,
              !.class[k].packets = Append(@, [bytes |-> bytes, finish |-> finish])]

HeadReadyAt(q, classes, k, t) ==
    ReadyAt(q.class[k].shape, classes[k].shape, t, Head(q.class[k].packets).bytes)

\* next_ready, for a scheduler that is not empty.
NextReady(q, classes, t) == Min({HeadReadyAt(q, classes, k, t) : k \in Waiting(q)})

Eligible(q, classes, t) ==
    {k \in Waiting(q) : HeadReadyAt(q, classes, k, t) <= t}

\* The class dequeue_ready serves: a priority class first, then the smallest
\* finish tag, then the order of configuration.
Selected(q, classes, t) ==
    LET e == Eligible(q, classes, t)
        urgent == {k \in e : classes[k].priority # NoLimit}
        tag(k) == Head(q.class[k].packets).finish
    IN IF urgent # {} THEN Min(urgent)
       ELSE Min({k \in e : \A j \in e : tag(k) <= tag(j)})

Dequeued(q, classes, k, t) ==
    LET packet == Head(q.class[k].packets) IN
    [q EXCEPT !.class[k].packets = Tail(@),
              !.class[k].shape = Taken(@, classes[k].shape, t, packet.bytes),
              !.class[k].transmitted_bytes = @ + packet.bytes,
              !.virtual_time = IF classes[k].priority # NoLimit THEN @
                               ELSE Max({@, packet.finish})]

=============================================================================
