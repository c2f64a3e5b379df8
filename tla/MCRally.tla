------------------------------ MODULE MCRally ------------------------------
(* Two courts for TLC: a small one, with the fastest ball that is           *)
(* SlowEnough for it, and that of the code in units of 1/2000, with a       *)
(* BallSpeed of 1.995, which is 133 of these units a tick.                  *)
EXTENDS Rally

SomeDirections == {[x |-> 0, y |-> 4], [x |-> 2, y |-> 3], [x |-> 3, y |-> 2]}
SomeTargets == {0, Middle, Court}

\* Straight, and at the 19 degrees at which RallyReset serves at most.
FastDirections == {[x |-> 0, y |-> 133], [x |-> 44, y |-> 125]}
StayThere == {Middle}

=============================================================================
