----------------------------- MODULE MCBucketing -----------------------------
(***************************************************************************)
(* What the hash bucket of a user decides: whether a flag is on, by        *)
(* RuleEvaluation, or which variant of an experiment it is, by             *)
(* VariantWeights.  A state is one flag, or the weights that               *)
(* createExperiment is given: every short list of them.                    *)
(***************************************************************************)
EXTENDS MCRuleEvaluation, VariantWeights

CONSTANTS Weights, MaxVariants  \* the weights tried, and the length of a list

\* Weights at the limits of an int, of a column and of the sum; 511 + 511 + 101 + 1 wraps to 100.
MCWeights == {-1, 0, 1, 49, 50, 99, 100, 101, 255, 256, 511}

\* A list whose sum wraps to 100 holds a weight that its column refuses: the sum of MaxVariants
\* weights that can be stored does not reach IntModulus.
ASSUME BoundAssumption ==
  Weights \subseteq Int /\ MaxVariants \in Nat /\ MaxVariants * ColumnMax < IntModulus

VARIABLE weights  \* Nil in the states that are a flag

bvars == <<vars, weights>>

BInit ==
  \/ Init /\ weights = Nil
  \/ rules = <<>> /\ strategy = "none" /\ weights \in UNION {[1..n -> Weights] : n \in 0..MaxVariants}

BNext == (weights = Nil /\ Next /\ UNCHANGED weights) \/ (weights # Nil /\ UNCHANGED bvars)

BSpec == BInit /\ [][BNext]_bvars

\* The list is accepted and stored: the experiment exists.
Stored ==
  weights # Nil /\ ValidWeights(weights) /\ \A i \in DOMAIN weights : weights[i] \in 0..ColumnMax

\* The buckets from before the i-th variant up to it are its users: as many as its weight says,
\* one range after the other, and none for a weight of 0, also when it comes first or last
\* (assignVariantByWeight, service.go:259-273).
SharesAreExact ==
  Stored => \A i \in DOMAIN weights :
    {b \in Buckets : AssignVariantByWeight(b, weights) = i}
      = {b \in Buckets : Cumulative(weights)[i - 1] <= b /\ b < Cumulative(weights)[i]}

\* What is stored sums to 100 as integers, whatever the int of the check wraps to, and what
\* sums to 100 with no negative weight is accepted (validateVariantWeights).
StoredSumsTo100 ==
  weights # Nil =>
    (Stored <=> Total(weights) = 100 /\ \A i \in DOMAIN weights : weights[i] >= 0)

=============================================================================
