------------------------------ MODULE QosPort -------------------------------
(***************************************************************************)
(* One output port with a service policy (crates/rios-topology/src/qos.rs) *)
(* on top of the cable's transmitter: frames wait in a QosScheduler, and   *)
(* the port wakes itself with QosTransmit events of the lab's event queue  *)
(* to hand the next frame to the cable.                                    *)
(*                                                                         *)
(* The port may be cut, restored and given another policy at any time; its *)
(* queue is then dropped, while its wake-ups stay in the event queue.  The *)
(* epoch orders the wake-ups of a time as their insertion sequence does.   *)
(***************************************************************************)
EXTENDS QosScheduler

CONSTANTS
    Policies,        \* the classes of each policy the port may be given
    Capacity,        \* LinkConfig::queue_packets
    Lengths,         \* frame lengths
    ByteTime,        \* serialization time of a byte
    MaxTime,         \* bound: the clock
    MaxFrames,       \* bound: frames offered to the port
    MaxGeneration    \* bound: carrier changes of the cable

ASSUME QosAssumption ==
    /\ {Capacity, ByteTime, MaxTime, MaxFrames, MaxGeneration} \subseteq Nat
    /\ Capacity > 0
    /\ Lengths \subseteq Nat \ {0}
    /\ "none" \notin DOMAIN Policies
    /\ \A p \in DOMAIN Policies : Policies[p] \in Seq(QueueClassConfig)

VARIABLES
    now,         \* the clock of the event queue
    events,      \* pending QosTransmit events: [time, epoch]
    epoch,       \* Lab::qos_epoch
    policy,      \* service_policy_output, a member of DOMAIN Policies or NoPolicy
    active,      \* the cable carries frames
    generation,  \* Link::generation
    finishes,    \* DirectionalLinkRuntime::finishes of this direction
    port,        \* the QosPortRuntime of the port, or NoPort
    frames,      \* frames offered so far
    log          \* auxiliary: departures of this runtime, [time, class, bytes, total]

vars == <<now, events, epoch, policy, active, generation, finishes, port, frames, log>>

NoPolicy == "none"

NoPort == [policy |-> NoPolicy]

Classes == Policies[policy]

Init ==
    /\ now = 0
    /\ events = {}
    /\ epoch = 0
    /\ policy = NoPolicy
    /\ active = TRUE
    /\ generation = 1
    /\ finishes = <<>>
    /\ port = NoPort
    /\ frames = 0
    /\ log = <<>>

-----------------------------------------------------------------------------
(* The cable's transmitter (see Cable) *)

Queued(f) == Len(SelectSeq(f, LAMBDA t : t > now))

AvailableAt(f) == IF f = <<>> THEN now ELSE Max({Last(f), now})

\* admit first takes the reservations that are over off the front.
Unfinished(f) ==
    LET n == CHOOSE i \in 0 .. Len(f) : /\ \A j \in 1 .. i : f[j] <= now
                                       /\ i < Len(f) => f[i + 1] > now
    IN SubSeq(f, n + 1, Len(f))

\* The reservations after a frame that the cable admits.
Admitted(f, bytes) == Append(Unfinished(f), AvailableAt(f) + bytes * ByteTime)

-----------------------------------------------------------------------------
(* Lab::service_qos, which ends with Lab::schedule_qos *)

\* Mutant of Suffices: any wake-up will do, however late.
SufficesAny(wakes, at) == wakes # {}

\* A wake-up no later than "at" looks at the queue again.
Suffices(wakes, at) == \E w \in wakes : w.time <= at

\* schedule_qos for the runtime r, the reservations f and the pending events.
ScheduleQos(r, f, pending) ==
    LET at == Max({NextReady(r.queue, Classes, now), AvailableAt(f)})
        wake == [time |-> at, epoch |-> epoch + 1]
    IN IF Waiting(r.queue) = {} \/ Suffices(r.wakes, at)
       THEN port' = r /\ events' = pending /\ epoch' = epoch
       ELSE /\ epoch' = epoch + 1
            /\ events' = pending \cup {wake}
            /\ port' = [r EXCEPT !.wakes = @ \cup {wake}]

\* At most one frame leaves.  It is checked once more on its way out, and
\* dropped when the VLAN or spanning-tree state of the port blocks it now.
ServiceQos(r, pending) ==
    IF AvailableAt(finishes) <= now /\ Eligible(r.queue, Classes, now) # {}
    THEN LET k == Selected(r.queue, Classes, now)
             bytes == Head(r.queue.class[k].packets).bytes
             after == [r EXCEPT !.queue = Dequeued(@, Classes, k, now)]
             total == after.queue.class[k].transmitted_bytes
         IN /\ log' = Append(log, [time |-> now, class |-> k, bytes |-> bytes, total |-> total])
            /\ \E blocked \in BOOLEAN :
                 /\ finishes' = IF blocked THEN finishes ELSE Admitted(finishes, bytes)
                 /\ ScheduleQos(after, finishes', pending)
    ELSE ScheduleQos(r, finishes, pending) /\ UNCHANGED <<finishes, log>>

-----------------------------------------------------------------------------
(* Frames *)

\* Lab::transmit of a frame on an active port with a policy: enqueue_qos.
Enqueue(k, bytes) ==
    LET new == [policy |-> policy, generation |-> generation,
                queue |-> NewScheduler(Classes, now), wakes |-> {}]
        r == IF port = NoPort THEN new ELSE port
        q == Restarted(r.queue)
        spent == Conditioned(q, Classes, k, now, bytes)
    IN
    /\ active /\ policy # NoPolicy
    /\ frames < MaxFrames
    /\ frames' = frames + 1
    /\ IF Reject(q, Classes, k, now, bytes, Queued(finishes), Capacity) # "none"
       THEN /\ port' = [r EXCEPT !.queue = spent]
            /\ UNCHANGED <<events, epoch, finishes, log>>
       ELSE ServiceQos([r EXCEPT !.queue = Enqueued(spent, Classes, k, bytes)], events)
    /\ UNCHANGED <<now, policy, active, generation>>

\* Lab::transmit without a policy goes straight to the cable.
Transmit(bytes) ==
    /\ active /\ policy = NoPolicy
    /\ frames < MaxFrames
    /\ frames' = frames + 1
    /\ Queued(finishes) < Capacity
    /\ finishes' = Admitted(finishes, bytes)
    /\ UNCHANGED <<now, events, epoch, policy, active, generation, port, log>>

\* qos_timer, for the next QosTransmit of the event queue.  The wake-up of a
\* queue that has been dropped is ignored.
QosTimer(wake) ==
    /\ wake \in events
    /\ wake.time = now
    /\ \A w \in events : w.time = now => wake.epoch <= w.epoch
    /\ IF port = NoPort \/ wake \notin port.wakes
       THEN /\ events' = events \ {wake}
            /\ UNCHANGED <<epoch, finishes, port, log>>
       ELSE ServiceQos([port EXCEPT !.wakes = @ \ {wake}], events \ {wake})
    /\ UNCHANGED <<now, policy, active, generation, frames>>

\* The clock moves, not past a pending wake-up (see EventQueue).
Advance(t) ==
    /\ t \in now + 1 .. MaxTime
    /\ \A w \in events : t <= w.time
    /\ now' = t
    /\ UNCHANGED <<events, epoch, policy, active, generation, finishes, port, frames, log>>

-----------------------------------------------------------------------------
(* What drops the queue.  Both end in Lab::refresh_qos, which compares the
   runtime with the cable and the policy there are now. *)

Stale(r, p, g) == r.policy # p \/ r.generation # g

RefreshQos ==
    IF port # NoPort /\ Stale(port, policy', generation')
    THEN port' = NoPort /\ log' = <<>>
    ELSE UNCHANGED <<port, log>>

\* refresh_carriers finds that the cable has gone up or down.
ChangeCarrier ==
    /\ generation < MaxGeneration
    /\ generation' = generation + 1
    /\ active' = ~active
    /\ finishes' = <<>>
    /\ UNCHANGED policy
    /\ RefreshQos
    /\ UNCHANGED <<now, events, epoch, frames>>

\* A configuration command changes or removes the service policy.
SetPolicy(p) ==
    /\ p # policy
    /\ policy' = p
    /\ UNCHANGED generation
    /\ RefreshQos
    /\ UNCHANGED <<now, events, epoch, active, finishes, frames>>

Next ==
    \/ policy # NoPolicy /\ \E k \in DOMAIN Classes, bytes \in Lengths : Enqueue(k, bytes)
    \/ \E bytes \in Lengths : Transmit(bytes)
    \/ \E wake \in events : QosTimer(wake)
    \/ \E t \in 0 .. MaxTime : Advance(t)
    \/ ChangeCarrier
    \/ \E p \in DOMAIN Policies \cup {NoPolicy} : SetPolicy(p)

Spec == Init /\ [][Next]_vars

-----------------------------------------------------------------------------
(* Properties *)

\* Every bucket of the port holds between nothing and its burst, and the port
\* has at most one wake-up per time, as the map of wake-ups requires.
TypeOK ==
    /\ now \in 0 .. MaxTime /\ generation \in 1 .. MaxGeneration
    /\ policy \in DOMAIN Policies \cup {NoPolicy}
    /\ \A w \in events : w.time >= now /\ w.epoch \in 1 .. epoch
    /\ port # NoPort =>
         /\ port.policy = policy
         /\ \A v, w \in port.wakes : v.time = w.time => v = w
         /\ \A k \in DOMAIN Classes, kind \in {"police", "priority", "shape"} :
              port.queue.class[k][kind].credit
                  \in 0 .. Classes[k][kind].burst * ByteCredits

\* No frame waits without a wake-up: a port with waiting frames has a
\* pending QosTransmit of its own, no later than the time at which the cable
\* is free and the first class may send.
WakeInTime ==
    port # NoPort /\ Waiting(port.queue) # {} =>
        \E w \in port.wakes \cap events :
            w.time <= Max({NextReady(port.queue, Classes, now), AvailableAt(finishes)})

\* Weighted fair service: a waiting frame of a class that neither a shaper
\* nor priority sets apart is never overtaken by the virtual time of the
\* scheduler, that is by a frame with a later finish tag.
NotOvertaken ==
    port # NoPort =>
        \A k \in Waiting(port.queue) :
            Classes[k].shape = NoLimit /\ Classes[k].priority = NoLimit =>
                Head(port.queue.class[k].packets).finish >= port.queue.virtual_time

\* Bytes of a class in its departures i to j, both included.
Sent(i, j) == log[j].total - log[i].total + log[i].bytes

\* A shaped class conforms to its rate: between any two of its departures it
\* has sent at most its burst and what the rate allows for the time between.
ShapeConforms ==
    port # NoPort =>
        \A i, j \in DOMAIN log :
            LET shape == Classes[log[i].class].shape IN
            i <= j /\ log[i].class = log[j].class /\ shape # NoLimit =>
                Sent(i, j) * ByteCredits
                    <= shape.burst * ByteCredits + (log[j].time - log[i].time) * shape.rate

=============================================================================
