----------------------------- MODULE EventQueue -----------------------------
(***************************************************************************)
(* EventQueue<E> of crates/rios-simulator/src/queue.rs on its own: any     *)
(* caller, any order of calls.  A call that fails (Past, Overflow,         *)
(* PendingEvent) changes nothing, so it is a stuttering step here.         *)
(***************************************************************************)
EXTENDS SimQueue

CONSTANT Event  \* payloads

VARIABLES
    queue,  \* the EventQueue value
    fired   \* auxiliary: the (time, sequence) key of the last event popped

vars == <<queue, fired>>

ScheduledEvent == [time : SimTime, sequence : Sequence, event : Event]

\* Microseconds in a millisecond of schedule_after.
Microseconds == 1000

NeverFired == [time |-> -1, sequence |-> -1]

Init ==
    /\ queue = EmptyQueue
    /\ fired = NeverFired

ScheduleAt(time, event) ==
    /\ Schedulable(queue, time)
    /\ queue' = Scheduled(queue, time, event)
    /\ UNCHANGED fired

ScheduleAfter(delay_ms, event) ==
    LET time == queue.now + delay_ms * Microseconds IN
    /\ Schedulable(queue, time)
    /\ queue' = Scheduled(queue, time, event)
    /\ UNCHANGED fired

Step ==
    \E x \in queue.pending :
        /\ IsNext(queue, x)
        /\ queue' = Popped(queue, x)
        /\ fired' = [time |-> x.time, sequence |-> x.sequence]

AdvanceTo(time) ==
    /\ Idle(queue, time)
    /\ queue' = Advanced(queue, time)
    /\ UNCHANGED fired

\* The event of a schedule_at is read off the queue it leaves: as a choice
\* from Event it would be enumerated for every step of what implements this.
Next ==
    \/ \E x \in queue'.pending :
          /\ x \in ScheduledEvent
          /\ \/ ScheduleAt(x.time, x.event)
             \/ \E delay_ms \in 0 .. (MaxTime \div Microseconds) :
                   ScheduleAfter(delay_ms, x.event)
    \/ Step
    \/ \E time \in SimTime : AdvanceTo(time)

Spec == Init /\ [][Next]_vars

-----------------------------------------------------------------------------
(* Properties *)

\* The clock, the sequence counter and the pending events have their types.
TypeOK ==
    /\ queue \in [now : SimTime, next_sequence : Sequence,
                  pending : SUBSET ScheduledEvent]
    /\ fired \in [time : SimTime \cup {-1}, sequence : Sequence \cup {-1}]

\* No interleaving of schedule_at, schedule_after, step and advance_to leaves
\* an event behind the clock: every pending event is still due (queue.rs,
\* "advancing would skip a pending event").
NothingSkipped == \A x \in queue.pending : x.time >= queue.now

\* What makes DispatchOrder inductive: the next event to be inserted gets a
\* sequence above every one used so far, and whatever is pending comes after
\* what has fired.
AfterFired ==
    /\ fired.time <= queue.now
    /\ fired.sequence < queue.next_sequence
    /\ \A x \in queue.pending :
          x.sequence < queue.next_sequence /\ Before(fired, x)

\* Events fire in one total order: each event popped comes strictly after
\* every event popped before it in (time, insertion sequence), whatever was
\* scheduled in between, zero-delay events included.
DispatchOrder == [][fired' # fired => Before(fired, fired')]_vars

=============================================================================
