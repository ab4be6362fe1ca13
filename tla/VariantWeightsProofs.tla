------------------------ MODULE VariantWeightsProofs ------------------------
(***************************************************************************)
(* Proofs about VariantWeights, for lists of any length and any widths of  *)
(* integers: which buckets a variant gets, and what a stored sum is.       *)
(***************************************************************************)
EXTENDS VariantWeights, WellFoundedInduction, TLAPS

\* Every set of naturals that is not empty has a least member.
LEMMA Least ==
  ASSUME NEW T \in SUBSET Nat, T # {}
  PROVE  \E m \in T : \A n \in T : m <= n
  <1>1. PICK m \in T : \A y \in T : ~(<<y, m>> \in OpToRel(<, Nat))
    BY NatLessThanWellFounded, WFMin
  <1>2. \A n \in T : n < m => <<n, m>> \in OpToRel(<, Nat)  BY DEF OpToRel
  <1>3. \A n \in T : ~(n < m)  BY <1>1, <1>2, Zenon
  <1> QED  BY <1>3

\* The equation that defines Cumulative has a solution.
LEMMA SumsExist ==
  ASSUME NEW w \in Seq(Int)
  PROVE  \E f : f = [n \in 0..Len(w) |-> IF n = 0 THEN 0 ELSE f[n - 1] + w[n]]
  <1> DEFINE Good(k) == \E f \in [0..k -> Int] :
                          f = [n \in 0..k |-> IF n = 0 THEN 0 ELSE f[n - 1] + w[n]]
             Bad == {k \in 0..Len(w) : ~Good(k)}
  <1>0. Bad \in SUBSET Nat /\ Bad \subseteq 0..Len(w)  OBVIOUS
  <1>1. CASE Bad = {}
    <2>1. Good(Len(w))  BY <1>1
    <2> QED  BY <2>1
  <1>2. CASE Bad # {}
    <2> HIDE DEF Bad
    <2>1. PICK k \in Bad : \A j \in Bad : k <= j  BY <1>0, <1>2, Least
    <2>4. ~Good(k)  BY DEF Bad
    <2>5. k \in 0..Len(w)  BY <1>0
    <2>2. CASE k = 0
      <3> DEFINE z == [n \in 0..0 |-> 0]
      <3>1. z \in [0..0 -> Int]  OBVIOUS
      <3>2. z = [n \in 0..0 |-> IF n = 0 THEN 0 ELSE z[n - 1] + w[n]]  OBVIOUS
      <3> HIDE DEF z
      <3>3. Good(0)  BY <3>1, <3>2
      <3> QED  BY <2>2, <2>4, <3>3
    <2>3. CASE k # 0
      <3>1. Good(k - 1)
        <4>1. k - 1 \in 0..Len(w) /\ k - 1 \notin Bad  BY <2>1, <2>3, <2>5
        <4> HIDE DEF Good
        <4> QED  BY <4>1 DEF Bad
      <3>2. PICK f \in [0..(k - 1) -> Int] :
              f = [n \in 0..(k - 1) |-> IF n = 0 THEN 0 ELSE f[n - 1] + w[n]]
        BY <3>1
      <3> DEFINE g == [n \in 0..k |-> IF n = k THEN f[k - 1] + w[k] ELSE f[n]]
      <3>3. w[k] \in Int /\ k \in Nat /\ k - 1 \in 0..(k - 1)  BY <2>3, <2>5
      <3>4. g \in [0..k -> Int]  BY <2>3, <3>3
      <3>5. \A n \in 0..k : g[n] = IF n = 0 THEN 0 ELSE g[n - 1] + w[n]
        <4> TAKE n \in 0..k
        <4>1. CASE n = k  BY <2>3, <4>1
        <4>2. CASE n # k
          <5>1. n \in 0..(k - 1) /\ (n # 0 => n - 1 \in 0..(k - 1) /\ n - 1 # k)  BY <3>3, <4>2
          <5>2. f[n] = IF n = 0 THEN 0 ELSE f[n - 1] + w[n]  BY <3>2, <5>1
          <5>3. n # 0 => n - 1 \in 0..k /\ g[n - 1] = f[n - 1]  BY <3>3, <5>1
          <5> QED  BY <4>2, <5>1, <5>2, <5>3
        <4> QED  BY <4>1, <4>2
      <3>6. g = [n \in 0..k |-> IF n = 0 THEN 0 ELSE g[n - 1] + w[n]]  BY <3>5
      <3> HIDE DEF g
      <3>7. Good(k)  BY <3>4, <3>6
      <3> QED  BY <2>4, <3>7
    <2> QED  BY <2>2, <2>3
  <1> QED  BY <1>1, <1>2

\* What Cumulative is: the sums of the first 0, 1, ... weights.
LEMMA CumulativeSums ==
  ASSUME NEW w \in Seq(Int)
  PROVE  /\ Cumulative(w) \in [0..Len(w) -> Int]
         /\ Cumulative(w)[0] = 0
         /\ \A n \in 1..Len(w) : Cumulative(w)[n] = Cumulative(w)[n - 1] + w[n]
  <1> DEFINE c == Cumulative(w)
  <1>1. c = [n \in 0..Len(w) |-> IF n = 0 THEN 0 ELSE c[n - 1] + w[n]]
    BY SumsExist DEF Cumulative
  <1> HIDE DEF c
  <1>2. c[0] = 0 /\ \A n \in 1..Len(w) : c[n] = c[n - 1] + w[n]
    <2>1. \A n \in 0..Len(w) : c[n] = IF n = 0 THEN 0 ELSE c[n - 1] + w[n]  BY <1>1
    <2>2. 0 \in 0..Len(w) /\ \A n \in 1..Len(w) : n \in 0..Len(w) /\ n # 0  OBVIOUS
    <2> QED  BY <2>1, <2>2
  <1>3. \A n \in 0..Len(w) : c[n] \in Int
    <2> SUFFICES ASSUME {n \in 0..Len(w) : c[n] \notin Int} # {} PROVE FALSE
      OBVIOUS
    <2> DEFINE Bad == {n \in 0..Len(w) : c[n] \notin Int}
    <2>0. Bad \in SUBSET Nat  OBVIOUS
    <2>1. PICK k \in Bad : \A j \in Bad : k <= j  BY <2>0, Least
    <2>2. k # 0 /\ k - 1 \in 0..Len(w) /\ k - 1 \notin Bad  BY <1>2, <2>1
    <2>3. w[k] \in Int /\ c[k - 1] \in Int  BY <2>2
    <2> QED  BY <1>2, <2>2, <2>3
  <1>4. c \in [0..Len(w) -> Int]  BY <1>1, <1>3
  <1> QED  BY <1>2, <1>4 DEF c

\* Without a negative weight the sums never fall, and stay below the number of weights times
\* the largest of them.
LEMMA SumsGrow ==
  ASSUME NEW w \in Seq(Int), \A i \in DOMAIN w : w[i] >= 0,
         NEW i \in 0..Len(w), NEW j \in 0..Len(w), i <= j
  PROVE  0 <= Cumulative(w)[i] /\ Cumulative(w)[i] <= Cumulative(w)[j]
  <1> DEFINE c == Cumulative(w)
  <1>1. /\ c \in [0..Len(w) -> Int] /\ c[0] = 0
        /\ \A n \in 1..Len(w) : c[n] = c[n - 1] + w[n] /\ w[n] \in Int /\ w[n] >= 0
    BY CumulativeSums
  <1> HIDE DEF c
  <1>2. ASSUME NEW m \in 0..Len(w), NEW n \in 0..Len(w), m <= n PROVE c[m] <= c[n]
    <2> SUFFICES ASSUME {k \in m..Len(w) : ~(c[m] <= c[k])} # {} PROVE FALSE
      BY <1>2
    <2> DEFINE Bad == {k \in m..Len(w) : ~(c[m] <= c[k])}
    <2>0. Bad \in SUBSET Nat  OBVIOUS
    <2>1. PICK k \in Bad : \A q \in Bad : k <= q  BY <2>0, Least
    <2>2. k # m
      <3>1. c[m] \in Int  BY <1>1
      <3> QED  BY <3>1
    <2>3. k - 1 \in m..Len(w) /\ k - 1 \notin Bad /\ k \in 1..Len(w)  BY <2>1, <2>2
    <2>4. c[m] <= c[k - 1] /\ c[k] = c[k - 1] + w[k]  BY <1>1, <2>3
    <2>5. c[m] \in Int /\ c[k - 1] \in Int /\ w[k] \in Int /\ w[k] >= 0
      <3>1. k - 1 \in 0..Len(w)  BY <2>3
      <3> QED  BY <1>1, <2>3, <3>1
    <2>6. ~(c[m] <= c[k])  BY <2>1
    <2> HIDE DEF Bad
    <2> QED  BY <2>4, <2>5, <2>6
  <1>3. c[0] <= c[i] /\ c[i] <= c[j]  BY <1>2
  <1> QED  BY <1>1, <1>3 DEF c

\* A list that differs in one place only has a sum that differs as much.
LEMMA SumsChange ==
  ASSUME NEW w \in Seq(Int), NEW k \in 1..Len(w), NEW x \in Int,
         NEW v, v = [w EXCEPT ![k] = x]
  PROVE  Total(w) = Total(v) + w[k] - x
  <1>0. /\ v \in Seq(Int) /\ Len(v) = Len(w) /\ v[k] = x
        /\ \A i \in (1..Len(w)) \ {k} : v[i] = w[i]
    OBVIOUS
  <1> DEFINE c == Cumulative(v)
             d == Cumulative(w)
             change == w[k] - v[k]
  <1>1. /\ c \in [0..Len(w) -> Int] /\ c[0] = 0 /\ d \in [0..Len(w) -> Int] /\ d[0] = 0
        /\ \A n \in 1..Len(w) : c[n] = c[n - 1] + v[n] /\ d[n] = d[n - 1] + w[n]
    BY <1>0, CumulativeSums
  <1>2. change \in Int /\ change = w[k] - v[k] /\ Len(w) \in Nat
        /\ \A i \in 1..Len(w) : v[i] \in Int /\ w[i] \in Int
    BY <1>0
  <1> HIDE DEF c, d, change
  <1>3. \A n \in 0..Len(w) : d[n] = c[n] + IF n >= k THEN change ELSE 0
    <2> DEFINE Bad == {n \in 0..Len(w) : d[n] # c[n] + IF n >= k THEN change ELSE 0}
    <2> SUFFICES ASSUME Bad # {} PROVE FALSE
      OBVIOUS
    <2>0. Bad \in SUBSET Nat  OBVIOUS
    <2>1. PICK n \in Bad : \A q \in Bad : n <= q  BY <2>0, Least
    <2>2. n # 0  BY <1>1, <2>1
    <2>3. n - 1 \in 0..Len(w) /\ n - 1 \notin Bad /\ n \in 1..Len(w)  BY <2>1, <2>2
    <2>4. d[n - 1] = c[n - 1] + IF n - 1 >= k THEN change ELSE 0  BY <2>3
    <2>5. d[n] # c[n] + IF n >= k THEN change ELSE 0  BY <2>1
    <2>6. /\ d[n] = d[n - 1] + w[n] /\ c[n] = c[n - 1] + v[n] /\ d[n - 1] \in Int /\ c[n - 1] \in Int
          /\ v[n] \in Int /\ w[n] \in Int
      BY <1>1, <1>2, <2>3
    <2> HIDE DEF Bad
    <2>7. CASE n = k
      <3>1. d[n - 1] = c[n - 1]  BY <1>1, <1>2, <2>3, <2>4, <2>6, <2>7
      <3>2. d[n] = c[n] + change  BY <1>2, <2>6, <2>7, <3>1
      <3> QED  BY <1>2, <2>3, <2>5, <2>7, <3>2
    <2>8. CASE n # k
      <3>1. v[n] = w[n] /\ n \in Int /\ k \in Int  BY <1>0, <2>3, <2>8
      <3>2. n - 1 >= k <=> n >= k  BY <2>8, <3>1
      <3>3. CASE n >= k
        <4>1. d[n - 1] = c[n - 1] + change  BY <2>4, <3>2, <3>3
        <4>2. d[n] # c[n] + change  BY <2>5, <3>3
        <4>3. change \in Int  BY <1>2
        <4>4. d[n] = (c[n - 1] + change) + w[n] /\ c[n] = c[n - 1] + w[n]  BY <2>6, <3>1, <4>1
        <4>5. d[n] = c[n] + change  BY <2>6, <4>3, <4>4
        <4> QED  BY <4>2, <4>5
      <3>4. CASE ~(n >= k)
        <4>1. d[n - 1] = c[n - 1] + 0  BY <2>4, <3>2, <3>4
        <4>2. d[n] # c[n] + 0  BY <2>5, <3>4
        <4> QED  BY <2>6, <3>1, <4>1, <4>2
      <3> QED  BY <3>3, <3>4
    <2> QED  BY <2>7, <2>8
  <1>4. Len(w) \in 0..Len(w) /\ Len(w) >= k  BY <1>2
  <1> QED  BY <1>0, <1>1, <1>2, <1>3, <1>4 DEF Total, c, d

\* Nothing sums to nothing.
LEMMA NoSum ==
  ASSUME NEW w \in Seq(Int), \A i \in 1..Len(w) : w[i] = 0
  PROVE  Total(w) = 0
  <1> DEFINE c == Cumulative(w)
             Bad == {n \in 0..Len(w) : c[n] # 0}
  <1>1. /\ c \in [0..Len(w) -> Int] /\ c[0] = 0
        /\ \A n \in 1..Len(w) : c[n] = c[n - 1] + w[n]
    BY CumulativeSums
  <1> HIDE DEF c
  <1>2. CASE Bad # {}
    <2>0. Bad \in SUBSET Nat  OBVIOUS
    <2>1. PICK n \in Bad : \A q \in Bad : n <= q  BY <1>2, <2>0, Least
    <2>2. n # 0  BY <1>1, <2>1
    <2>3. n - 1 \in 0..Len(w) /\ n - 1 \notin Bad /\ n \in 1..Len(w)  BY <2>1, <2>2
    <2>4. c[n - 1] = 0 /\ w[n] = 0 /\ c[n] # 0  BY <2>1, <2>3
    <2> QED  BY <1>1, <2>3, <2>4
  <1>3. CASE Bad = {}
    <2>1. Len(w) \in 0..Len(w) /\ Len(w) \notin Bad  BY <1>3
    <2> QED  BY <2>1 DEF Total, c
  <1> QED  BY <1>2, <1>3

-----------------------------------------------------------------------------
\* The position is one of the list, and the first whose sum is above the bucket, if there is any.
LEMMA AssignFirst ==
  ASSUME NEW w \in Seq(Int), w # <<>>, NEW b \in Buckets, NEW k, k = AssignVariantByWeight(b, w)
  PROVE  /\ k \in DOMAIN w
         /\ (\E i \in DOMAIN w : b < Cumulative(w)[i]) =>
              b < Cumulative(w)[k] /\ \A i \in DOMAIN w : b < Cumulative(w)[i] => k <= i
  <1> DEFINE reached == {i \in DOMAIN w : b < Cumulative(w)[i]}
  <1>1. k = IF reached = {} THEN Len(w) ELSE CHOOSE i \in reached : \A j \in reached : i <= j
    BY DEF AssignVariantByWeight
  <1>2. DOMAIN w = 1..Len(w) /\ Len(w) \in Nat /\ Len(w) # 0  OBVIOUS
  <1>3. CASE reached = {}  BY <1>1, <1>2, <1>3
  <1>4. CASE reached # {}
    <2>1. reached \in SUBSET Nat  BY <1>2
    <2>2. \E m \in reached : \A n \in reached : m <= n  BY <1>4, <2>1, Least
    <2>3. k \in reached /\ \A n \in reached : k <= n  BY <1>1, <1>4, <2>2
    <2> QED  BY <2>3
  <1> QED  BY <1>3, <1>4

\* A sum that wraps to 100 is at least 100.
LEMMA ValidTotal ==
  ASSUME NEW w \in Seq(Int), ValidWeights(w)
  PROVE  Total(w) \in Int /\ Total(w) >= 100
  <1>1. Len(w) \in 0..Len(w) /\ 0 \in 0..Len(w)  OBVIOUS
  <1>2. Total(w) \in Int  BY <1>1, CumulativeSums DEF Total
  <1>3. Total(w) >= 0  BY <1>1, <1>2, SumsGrow DEF Total, ValidWeights
  <1>4. Wrap(Total(w)) = 100  BY DEF ValidWeights, WeightSum
  <1>5. Total(w) < 100 => Total(w) % IntModulus = Total(w)
    BY <1>2, <1>3, WidthAssumption
  <1> QED  BY <1>2, <1>3, <1>4, <1>5, WidthAssumption DEF Wrap

\* The variant of a bucket is the one whose range the bucket is in; each range is as wide as the
\* weight, so that a variant without weight is nobody's.
LEMMA AssignShare ==
  ASSUME NEW w \in Seq(Int), ValidWeights(w), NEW b \in Buckets, NEW i \in DOMAIN w
  PROVE  /\ AssignVariantByWeight(b, w) \in DOMAIN w
         /\ AssignVariantByWeight(b, w) = i
              <=> Cumulative(w)[i - 1] <= b /\ b < Cumulative(w)[i]
         /\ AssignVariantByWeight(b, w) = i => w[i] > 0
  <1> DEFINE c == Cumulative(w)
             k == AssignVariantByWeight(b, w)
  <1>0. w # <<>> /\ \A j \in DOMAIN w : w[j] >= 0  BY DEF ValidWeights
  <1>1. /\ DOMAIN w = 1..Len(w) /\ Len(w) \in DOMAIN w /\ b \in Int
        /\ c \in [0..Len(w) -> Int] /\ c[0] = 0
        /\ \A n \in 1..Len(w) : c[n] = c[n - 1] + w[n]
    BY <1>0, CumulativeSums DEF Buckets
  <1>2. b < c[Len(w)]
    <2>1. c[Len(w)] \in Int /\ c[Len(w)] >= 100  BY ValidTotal DEF Total
    <2> QED  BY <2>1 DEF Buckets
  <1>3. k \in DOMAIN w /\ b < c[k] /\ \A j \in DOMAIN w : b < c[j] => k <= j
    BY <1>0, <1>1, <1>2, AssignFirst
  <1>4. \A m, n \in 0..Len(w) : m <= n => c[m] <= c[n]  BY <1>0, SumsGrow
  <1> HIDE DEF c, k
  <1>5. c[k - 1] <= b
    <2>1. CASE k = 1  BY <1>1, <2>1 DEF Buckets
    <2>2. CASE k # 1
      <3>1. k - 1 \in DOMAIN w /\ k - 1 \in 0..Len(w) /\ ~(k <= k - 1)  BY <1>1, <1>3, <2>2
      <3>2. c[k - 1] \in Int /\ ~(b < c[k - 1])  BY <1>1, <1>3, <3>1
      <3> QED  BY <1>1, <3>2
    <2> QED  BY <2>1, <2>2
  <1>6. ASSUME c[i - 1] <= b, b < c[i] PROVE k = i
    <2>1. k <= i  BY <1>3, <1>6
    <2>2. ~(k <= i - 1)
      <3>1. ASSUME k <= i - 1 PROVE FALSE
        <4>1. k \in 0..Len(w) /\ i - 1 \in 0..Len(w)  BY <1>1, <1>3, <3>1
        <4>2. c[k] <= c[i - 1] /\ c[k] \in Int /\ c[i - 1] \in Int  BY <1>1, <1>4, <3>1, <4>1
        <4> QED  BY <1>1, <1>3, <1>6, <4>2
      <3> QED  BY <3>1
    <2> QED  BY <1>1, <1>3, <2>1, <2>2
  <1>7. k = i => w[i] > 0
    <2>1. i - 1 \in 0..Len(w) /\ c[i] = c[i - 1] + w[i]  BY <1>1
    <2>2. c[i - 1] \in Int /\ w[i] \in Int  BY <1>1, <2>1
    <2> QED  BY <1>1, <1>3, <1>5, <2>1, <2>2
  <1> QED  BY <1>3, <1>5, <1>6, <1>7 DEF c, k

-----------------------------------------------------------------------------
\* The sum of n weights that a column can hold is at most n times the largest of them.
LEMMA SumsBounded ==
  ASSUME NEW w \in Seq(Int), \A i \in DOMAIN w : w[i] \in 0..ColumnMax
  PROVE  Total(w) \in Int /\ 0 <= Total(w) /\ Total(w) <= Len(w) * ColumnMax
  <1> DEFINE c == Cumulative(w)
  <1>1. /\ DOMAIN w = 1..Len(w) /\ Len(w) \in Nat /\ ColumnMax \in Nat
        /\ c \in [0..Len(w) -> Int] /\ c[0] = 0
        /\ \A n \in 1..Len(w) : c[n] = c[n - 1] + w[n] /\ w[n] \in 0..ColumnMax
    BY CumulativeSums, WidthAssumption
  <1> HIDE DEF c
  <1>2. \A n \in 0..Len(w) : 0 <= c[n] /\ c[n] <= n * ColumnMax
    <2> SUFFICES ASSUME {n \in 0..Len(w) : ~(0 <= c[n] /\ c[n] <= n * ColumnMax)} # {} PROVE FALSE
      OBVIOUS
    <2> DEFINE Bad == {n \in 0..Len(w) : ~(0 <= c[n] /\ c[n] <= n * ColumnMax)}
    <2>0. Bad \in SUBSET Nat  OBVIOUS
    <2>1. PICK k \in Bad : \A q \in Bad : k <= q  BY <2>0, Least
    <2>2. k # 0  BY <1>1, <2>1
    <2>3. k - 1 \in 0..Len(w) /\ k - 1 \notin Bad /\ k \in 1..Len(w)  BY <2>1, <2>2
    <2>4. 0 <= c[k - 1] /\ c[k - 1] <= (k - 1) * ColumnMax  BY <2>3
    <2>5. c[k] = c[k - 1] + w[k] /\ w[k] \in 0..ColumnMax /\ c[k - 1] \in Int  BY <1>1, <2>3
    <2>6. (k - 1) * ColumnMax = k * ColumnMax - ColumnMax  BY <1>1, <2>3
    <2>7. k * ColumnMax \in Int  BY <1>1, <2>3
    <2> HIDE DEF Bad
    <2>8. 0 <= c[k] /\ c[k] <= k * ColumnMax  BY <1>1, <2>4, <2>5, <2>6, <2>7
    <2> QED  BY <2>1, <2>8 DEF Bad
  <1> QED  BY <1>1, <1>2 DEF Total, c

\* The column refuses what would make the check wrap: unless the list is so long that its sum
\* can reach IntModulus all the same, what is stored sums to 100.
LEMMA StoredTotal ==
  ASSUME NEW w \in Seq(Int), Len(w) * ColumnMax < IntModulus
  PROVE  (ValidWeights(w) /\ \A i \in DOMAIN w : w[i] \in 0..ColumnMax)
           <=> (Total(w) = 100 /\ \A i \in DOMAIN w : w[i] >= 0)
  <1>1. ASSUME ValidWeights(w), \A i \in DOMAIN w : w[i] \in 0..ColumnMax
        PROVE  Total(w) = 100 /\ \A i \in DOMAIN w : w[i] >= 0
    <2>1. Total(w) \in Int /\ 0 <= Total(w) /\ Total(w) <= Len(w) * ColumnMax
      BY <1>1, SumsBounded
    <2>2. Len(w) * ColumnMax \in Int  BY WidthAssumption
    <2>3. Total(w) < IntModulus /\ IntModulus \in Nat  BY <2>1, <2>2, WidthAssumption
    <2>4. \A t \in Nat, m \in Nat : t < m => t % m = t  OBVIOUS
    <2>6. Total(w) % IntModulus = Total(w)  BY <2>1, <2>3, <2>4
    <2>5. Wrap(Total(w)) = 100  BY <1>1 DEF ValidWeights, WeightSum
    <2> QED  BY <1>1, <2>1, <2>3, <2>5, <2>6, WidthAssumption DEF Wrap
  <1>2. ASSUME Total(w) = 100, \A i \in DOMAIN w : w[i] >= 0
        PROVE  ValidWeights(w) /\ \A i \in DOMAIN w : w[i] \in 0..ColumnMax
    <2>1. DOMAIN w = 1..Len(w) /\ Len(w) \in Nat  OBVIOUS
    <2>2. w # <<>>
      <3>1. Cumulative(w)[0] = 0  BY CumulativeSums
      <3> QED  BY <1>2, <2>1, <3>1 DEF Total
    <2>3. Wrap(Total(w)) = 100
      <3>1. 100 % IntModulus = 100  BY WidthAssumption
      <3> QED  BY <1>2, <3>1, WidthAssumption DEF Wrap
    <2>4. ASSUME NEW i \in DOMAIN w PROVE w[i] \in 0..ColumnMax
      <3>1. i - 1 \in 0..Len(w) /\ i \in 0..Len(w) /\ Len(w) \in 0..Len(w)  BY <2>1
      <3>2. 0 <= Cumulative(w)[i - 1] /\ Cumulative(w)[i] <= Cumulative(w)[Len(w)]
        BY <1>2, <3>1, SumsGrow
      <3>3. /\ Cumulative(w)[i] = Cumulative(w)[i - 1] + w[i]
        BY <2>1, CumulativeSums
      <3>4. Cumulative(w)[i - 1] \in Int /\ w[i] \in Int  BY <2>1, <3>1, CumulativeSums
      <3> QED  BY <1>2, <3>2, <3>3, <3>4, WidthAssumption DEF Total
    <2> QED  BY <1>2, <2>2, <2>3, <2>4 DEF ValidWeights, WeightSum
  <1> QED  BY <1>1, <1>2

=============================================================================
