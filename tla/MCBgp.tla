-------------------------------- MODULE MCBgp -------------------------------
(***************************************************************************)
(* Bgp with two prefixes and a queue that takes one update at a time.      *)
(***************************************************************************)
EXTENDS Bgp

MCNumber == {1, 2}

MCPrefix == {1, 2}

B(first, a, b, f, e) == [first |-> first, networks |-> <<a, b>>, faults |-> f, edits |-> e]

MCBounds == {B({1,2},{1},{},1,0), B({1,2},{1,2},{1,2},0,0),B({1,2},{1,2},{},0,1)}

=============================================================================
