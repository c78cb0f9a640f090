-------------------------------- MODULE MCNat --------------------------------
(* Flows and static rules of the instances of Nat that TLC checks. *)
EXTENDS Nat

Packet(protocol, local, port, outside, outside_port) ==
    [protocol |-> protocol, local |-> local, port |-> port,
     outside |-> outside, outside_port |-> outside_port]

\* Two hosts with the same port to the same service, and a third that speaks
\* two protocols from one port.
MCFlow ==
    {Packet("udp", 1, 5, 9, 7), Packet("udp", 2, 5, 9, 7),
     Packet("tcp", 3, 6, 9, 7), Packet("icmp", 3, 6, 9, 0)}

\* A port of the interface address forwarded to host 3, a host with an
\* address of the pool for itself, and a rule that contradicts it.
MCRules ==
    {[kind |-> "port", protocol |-> "tcp", local |-> 3, local_port |-> 6,
      global |-> 100, global_port |-> 20],
     [kind |-> "address", protocol |-> "any", local |-> 3, local_port |-> 0,
      global |-> 101, global_port |-> 0],
     [kind |-> "address", protocol |-> "any", local |-> 2, local_port |-> 0,
      global |-> 101, global_port |-> 0]}

=============================================================================
