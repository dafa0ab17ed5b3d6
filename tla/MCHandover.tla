---------------------------- MODULE MCHandover ----------------------------
(* Instances of Handover for TLC. *)
EXTENDS Handover

CONSTANTS t1, v1, v2, r1, r2

step(r) == [tool |-> t1, target |-> v2, release |-> r]
OneStep == {<<step(r1)>>}
TwoSteps == {<<step(r1), step(r2)>>}

MCInstalled == {[r \in Releases |-> [version |-> v1, status |-> "deployed"]]}

MCKnown == {{<<t1, v2>>}}
===========================================================================
