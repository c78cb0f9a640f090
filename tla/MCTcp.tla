------------------------------- MODULE MCTcp --------------------------------
(* Two instances of Tcp: one connection with retransmissions, two bytes and a *)
(* listener that comes and goes, and two successive connections.              *)
EXTENDS Tcp

MCBounds ==
    {[opens |-> 1, accepts |-> 1, bytes |-> 2, retries |-> 1, relisten |-> TRUE],
     [opens |-> 2, accepts |-> 2, bytes |-> 1, retries |-> 0, relisten |-> FALSE]}

=============================================================================
