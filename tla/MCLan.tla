------------------------------- MODULE MCLan -------------------------------
(* Router on a stick: hosts A in VLAN 1 and B in VLAN 2 on access ports, the
   router R with a subinterface in each on the trunk, and the switch S with an
   SVI in VLAN 1.  Port 4 is free.  R has a loopback x and no default route. *)
EXTENDS Lan

MCDeviceOf == [a |-> "A", b |-> "B", r1 |-> "R", r2 |-> "R", x |-> "R", s |-> "S"]

MCMacOf == [a |-> "ma", b |-> "mb", r1 |-> "mr", r2 |-> "mr", x |-> "mx", s |-> "ms"]

Net1 == {"a", "r1", "s"}

Net2 == {"b", "r2"}

MCSubnet == [a |-> Net1, r1 |-> Net1, s |-> Net1, b |-> Net2, r2 |-> Net2, x |-> {"x"}]

MCEncap == [a |-> Untagged, b |-> Untagged, r1 |-> 1, r2 |-> 2, x |-> Virtual, s |-> 1]

MCGateway == [A |-> "r1", B |-> "r2", R |-> None, S |-> "r1"]

Task(d, a, ttl) == [device |-> d, dst |-> a, ttl |-> ttl]

\* A ping with the loss of a frame, ageing or a change of a cable in its midst.
Faults ==
    [at |-> [A |-> 1, B |-> 2, R |-> 3], access_vlan |-> <<1, 2, 1, 1>>,
     tasks |-> {Task("A", "b", 3), Task("A", "b", 1), Task("S", "z", 3), Task("A", "x", 3)},
     pings |-> 1, flow |-> Task("A", "b", 3), packets |-> 0,
     faults |-> {"lose", "age", "link"}, budget |-> 1]

\* One ping after the other, whose answers may come late.
Late == [Faults EXCEPT !.tasks = {Task("A", "b", 3), Task("S", "b", 3)},
                       !.pings = 2, !.faults = {}]

\* Packets that wait for neighbors at A and at R, more than there is room for.
Traffic == [Faults EXCEPT !.tasks = {}, !.packets = 4, !.faults = {"lose", "age"}]

\* Both at once.
Mixed == [Faults EXCEPT !.tasks = {Task("A", "b", 3)}, !.packets = 2, !.faults = {"lose"}]

\* A host is moved to another port and the VLANs edited around a ping.
Changes ==
    [Faults EXCEPT !.tasks = {Task("A", "b", 3)},
                  !.faults = {"plug", "access", "trunk", "vlan"}, !.budget = 2]

\* The last live cable of VLAN 1 fails while the switch pings from its SVI.
Dark == [Faults EXCEPT !.at = [A |-> 0, B |-> 2, R |-> 3], !.tasks = {Task("S", "a", 3)},
                       !.faults = {"link"}]

MCPlans == {Faults, Late, Traffic, Mixed, Changes, Dark}

=============================================================================
