------------------------------- MODULE MCDhcp -------------------------------
(* Two labs of Dhcp: clients that contend for one address on a lossy segment, *)
(* and a client with two servers whose link and configuration change.         *)
EXTENDS Dhcp

CONSTANTS c1, c2, s1, s2

MCLabs ==
    {[clients |-> {c1, c2}, servers |-> {s1}, lossy |-> TRUE, time |-> 12, changes |-> 0],
     [clients |-> {c1}, servers |-> {s1, s2}, lossy |-> FALSE, time |-> 7, changes |-> 1]}

MCPool == [s \in {s1, s2} |-> IF s = s1 THEN {1} ELSE {2}]

=============================================================================
