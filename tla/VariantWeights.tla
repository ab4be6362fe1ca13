--------------------------- MODULE VariantWeights ---------------------------
(***************************************************************************)
(* The pure part of the experiments service                                *)
(* (internal/experiments/service.go): which lists of variant weights are   *)
(* accepted, and which variant a bucket is assigned to.                    *)
(*                                                                         *)
(* A weight is a Go int, which wraps at IntModulus, and is stored in an    *)
(* INTEGER column, which refuses what is above ColumnMax.                  *)
(***************************************************************************)
EXTENDS Integers, Sequences, FiniteSets

CONSTANTS IntModulus, ColumnMax  \* 2^64 and 2^31 - 1 in the code

ASSUME WidthAssumption ==
  IntModulus \in Nat /\ ColumnMax \in Nat /\ 100 <= ColumnMax /\ 2 * ColumnMax < IntModulus

WeightSum == 100
Buckets == 0..99

\* An int after wrapping: the representative of n between the smallest and the largest int.
Wrap(n) ==
  LET m == n % IntModulus IN IF 2 * m >= IntModulus THEN m - IntModulus ELSE m

\* The sums of the first 0, 1, ... weights.
Cumulative(weights) ==
  LET cum[n \in 0..Len(weights)] == IF n = 0 THEN 0 ELSE cum[n - 1] + weights[n]
  IN  cum

Total(weights) == Cumulative(weights)[Len(weights)]

\* Mutant of ValidWeights: a smaller sum is accepted.
AtMostHundred(weights) ==
  /\ weights # <<>>
  /\ \A i \in DOMAIN weights : weights[i] >= 0
  /\ Wrap(Total(weights)) <= WeightSum

\* validateVariantWeights returns nil.
ValidWeights(weights) ==
  /\ weights # <<>>
  /\ \A i \in DOMAIN weights : weights[i] >= 0
  /\ Wrap(Total(weights)) = WeightSum

\* Mutant of AssignVariantByWeight: off by one at the bucket.
AssignInclusive(bucket, weights) ==
  LET reached == {i \in DOMAIN weights : bucket <= Cumulative(weights)[i]}
  IN  IF reached = {} THEN Len(weights) ELSE CHOOSE i \in reached : \A j \in reached : i <= j

\* assignVariantByWeight: the position of the variant whose range of buckets this one is in.
AssignVariantByWeight(bucket, weights) ==
  LET reached == {i \in DOMAIN weights : bucket < Cumulative(weights)[i]}
  IN  IF reached = {} THEN Len(weights) ELSE CHOOSE i \in reached : \A j \in reached : i <= j

=============================================================================
