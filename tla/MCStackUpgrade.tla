-------------------------- MODULE MCStackUpgrade --------------------------
(* Instances of StackUpgrade for TLC. *)
EXTENDS StackUpgrade

CONSTANTS t1, t2, v1, v2, r1, r2

stepA == [tool |-> t1, target |-> v2, release |-> r1]
stepB == [tool |-> t2, target |-> v2, release |-> r2]

\* One step, and the two-step plan that contains it.
MCToolLists == {<<stepA>>, <<stepB, stepA>>}
OneStep == {<<stepA>>}

\* Every tool known.
MCKnown == {{t1, t2} \X {v2}}
\* A build that lacks one tool, and one that has both.
MCKnownOrNot == {{<<t1, v2>>}, {t1, t2} \X {v2}}

Deployed == [version |-> v1, status |-> "deployed"]
Absent   == [version |-> v1, status |-> "absent"]
MCInstalled == {[r \in Releases |-> Deployed]}
MCInstalledOrNot == {[r \in Releases |-> Deployed],
                     [r \in Releases |-> IF r = r1 THEN Absent ELSE Deployed]}
=============================================================================
