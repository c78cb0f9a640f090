--------------------------- MODULE MCSpanningTree ---------------------------
(* The labs of SpanningTree that TLC checks. *)
EXTENDS SpanningTree

\* Three switches in a triangle.
Triangle == <<{1, 2}, {2, 3}, {1, 3}>>

\* Rapid switches, of which the cable to the root is cut or restored once.
RapidLab ==
    [end |-> Triangle, cost |-> <<1, 1, 1>>, rapid |-> {1, 2, 3},
     portfast |-> {}, rootguard |-> {}, bpduguard |-> {},
     cut |-> {3}, shut |-> {}, changes |-> 1]

\* A legacy switch among them, and one of two cables that changes.
MixedLab == [RapidLab EXCEPT !.rapid = {1, 3}, !.cut = {1, 3}]

\* The way of bridge 2 to the root is better through bridge 3, where Root
\* Guard forbids it.
GuardLab ==
    [RapidLab EXCEPT !.rapid = {}, !.cost = <<3, 1, 1>>, !.rootguard = {<<2, 2>>},
                     !.cut = {1}, !.changes = 2]

\* Two switches with two cables, one of which is taken for that of a host, and
\* a third switch on its own.
EdgeLab ==
    [RapidLab EXCEPT !.end = <<{1, 2}, {1, 2}, {3}>>, !.rapid = {1, 2},
                     !.portfast = {<<2, 2>>}, !.bpduguard = {<<2, 2>>},
                     !.cut = {1}, !.shut = {<<2, 2>>}, !.changes = 3]

MCLabs == {RapidLab, MixedLab, GuardLab, EdgeLab}

=============================================================================
