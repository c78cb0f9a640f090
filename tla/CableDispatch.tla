---------------------------- MODULE CableDispatch ----------------------------
(***************************************************************************)
(* The lab's cables (Cable) use the event queue as its own specification   *)
(* says: whatever the commands and the frames do, Lab::events is a         *)
(* behaviour of EventQueue.  The history variable "fired", which           *)
(* EventQueue keeps and the lab does not, is added here.                   *)
(***************************************************************************)
EXTENDS Cable

VARIABLE fired  \* auxiliary: the (time, sequence) key of the last event popped

dispatchVars == <<vars, fired>>

LabEvent == FrameEvent \cup StateEvent \cup TimerEvent

Events == INSTANCE EventQueue WITH Event <- LabEvent, queue <- queue, fired <- fired

DispatchInit == Init /\ fired = Events!NeverFired

\* A step of the lab pops at most one event.
Fires ==
    IF queue.pending \subseteq queue'.pending THEN fired' = fired
    ELSE \E x \in queue.pending \ queue'.pending :
            fired' = [time |-> x.time, sequence |-> x.sequence]

DispatchNext == Next /\ Fires

DispatchSpec == DispatchInit /\ [][DispatchNext]_dispatchVars

\* Lab::events is an EventQueue: the steps of the lab, seen through the queue,
\* are calls of schedule_at, step and advance_to, and nothing else touches the
\* clock, the sequence counter or what is pending.
ImplementsEventQueue == Events!Spec

\* The events of the lab fire in one total order of time and insertion, over
\* outages, recabling and jitter (lab runs are replayable).
LabDispatchOrder == Events!DispatchOrder

=============================================================================
