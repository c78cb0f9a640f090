------------------------------ MODULE SimQueue ------------------------------
(***************************************************************************)
(* The value of an EventQueue<E> (crates/rios-simulator/src/queue.rs): the *)
(* virtual clock, the next insertion sequence and the pending events, with *)
(* the operations as functions of that value.  The component modules hold  *)
(* such a value in a variable, as Lab holds one in its field "events".     *)
(*                                                                         *)
(* The BinaryHeap is a set of events; what the code uses of the heap is    *)
(* the order in which it pops, which is Before.                            *)
(***************************************************************************)
EXTENDS Integers

CONSTANTS
    MaxTime,     \* last representable SimTime (u64::MAX microseconds)
    MaxSequence  \* last value of next_sequence (u64::MAX)

ASSUME MaxTimeAssumption == MaxTime \in Nat

ASSUME MaxSequenceAssumption == MaxSequence \in Nat

SimTime == 0 .. MaxTime

Sequence == 0 .. MaxSequence

EmptyQueue == [now |-> 0, next_sequence |-> 0, pending |-> {}]

\* The order of ScheduledEvent::cmp: time first, then insertion order.
Before(x, y) ==
    \/ x.time < y.time
    \/ x.time = y.time /\ x.sequence < y.sequence

\* Mutant of Schedulable: the overflow of the time is not checked.
SchedulableUnchecked(q, time) ==
    /\ time >= q.now
    /\ q.next_sequence < MaxSequence

\* schedule_at succeeds: not in the past, and next_sequence can be incremented.
Schedulable(q, time) ==
    /\ time \in SimTime
    /\ time >= q.now
    /\ q.next_sequence < MaxSequence

Scheduled(q, time, event) ==
    [q EXCEPT !.next_sequence = @ + 1,
              !.pending = @ \cup {[time |-> time,
                                   sequence |-> q.next_sequence,
                                   event |-> event]}]

\* Mutant of IsNext: events of the same time come out in any order.
IsNextByTime(q, x) ==
    /\ x \in q.pending
    /\ \A y \in q.pending \ {x} : x.time <= y.time

\* x is the event the heap pops next.
IsNext(q, x) ==
    /\ x \in q.pending
    /\ \A y \in q.pending \ {x} : Before(x, y)

Popped(q, x) == [q EXCEPT !.now = x.time, !.pending = @ \ {x}]

\* advance_to succeeds: not backwards, and no pending event would be skipped.
Idle(q, time) ==
    /\ time >= q.now
    /\ \A x \in q.pending : x.time > time

Advanced(q, time) == [q EXCEPT !.now = time]

=============================================================================
