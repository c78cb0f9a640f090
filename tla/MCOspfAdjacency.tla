--------------------------- MODULE MCOspfAdjacency ---------------------------
(* The labs of OspfAdjacency that TLC checks. *)
EXTENDS OspfAdjacency

\* Two routers that have never met, and they with a third.
Strangers == <<<<1, 0, 0>>, <<0, 1, 0>>>>

Third == <<<<1, 0, 0>>, <<0, 1, 1>>>>

\* They have met: router 1 has an old instance of what is behind router 2.
Old == <<<<1, 1, 1>>, <<1, 1, 2>>>>

\* They have the same databases.
Same == <<<<1, 1, 1>>, <<1, 1, 1>>>>

Together == {AllTimers}

Apart == {AllTimers, {"hello"}, {"update"}, {"dd", "request"}}

\* Losses and a change of another link; neighbors that die and restart.
MCLabs ==
    {[known |-> Old, timers |-> Apart, busy |-> 1, losses |-> 2, faults |-> 0, changes |-> 1],
     [known |-> Third, timers |-> Apart, busy |-> 0, losses |-> 0, faults |-> 2, changes |-> 0]}

\* Another link changes while an exchange begins.
ChangeLab ==
    {[known |-> Same, timers |-> Together, busy |-> 0, losses |-> 0, faults |-> 0, changes |-> 1]}

\* One neighbor dies at one end only, or restarts.
FaultLab ==
    {[known |-> Third, timers |-> Together, busy |-> 0, losses |-> 0, faults |-> 1, changes |-> 0]}

\* The same, and a packet is lost.
LossyLab ==
    {[known |-> Strangers, timers |-> Together, busy |-> 0, losses |-> 1, faults |-> 1, changes |-> 0]}

=============================================================================
