------------------------------- MODULE MCCable -------------------------------
(* The lab of the run: two devices with a port each, which can be recabled.  *)
EXTENDS CableDispatch, TLC

CONSTANTS d1, d2, p1, p2

MCPort == {p1, p2}

MCOwner == p1 :> d1 @@ p2 :> d2

=============================================================================
