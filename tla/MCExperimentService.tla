------------------------ MODULE MCExperimentService ------------------------
(* Small instances of ExperimentService for TLC. *)
EXTENDS ExperimentService, TLC

CONSTANTS r1, r2, r3, r4, k1, u1, u2, nobody

\* An even split; an empty share; a sum that is not 100; and three weights whose sum wraps to
\* 100, the second of which is too large for its column.
MCWeightLists == {<<50, 50>>, <<0, 100>>, <<30, 30>>, <<112, 506, 506>>}

\* The buckets at both sides of the middle, depending on the user and on the experiment.
MCHashToBucket ==
  [x \in (Users \cup Strangers) \X Requests |->
     IF (x[1] = u1) = (x[2] \in {r1, r2}) THEN 49 ELSE 50]
=============================================================================
