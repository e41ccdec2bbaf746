------------------------- MODULE RoutingDataProofs -------------------------
(***************************************************************************)
(* Theorems about the operators of RoutingData, for all rows, labels,      *)
(* weights and sizes: what the splits, samples and mixtures keep, leave    *)
(* out and promise of each other, whatever the shuffles decide.            *)
(***************************************************************************)
EXTENDS RoutingData, Counting, TLAPS

-----------------------------------------------------------------------------
(* Arithmetic.                                                              *)

\* Division leaves a remainder below the divisor.
LEMMA Remainder ==
    ASSUME NEW a \in Nat, NEW b \in Nat \ {0}
    PROVE  /\ a \div b \in Nat /\ a % b \in 0 .. b - 1
           /\ a = b * (a \div b) + (a % b)
  OBVIOUS

\* What is rounded is off by at most a half.
LEMMA Rounded ==
    ASSUME NEW a \in Nat, NEW b \in Nat \ {0}
    PROVE  /\ RoundDiv(a, b) \in Nat
           /\ 2 * (b * RoundDiv(a, b)) <= 2 * a + b
           /\ 2 * a <= 2 * (b * RoundDiv(a, b)) + b
<1> DEFINE q == a \div b
           r == a % b
<1>1. q \in Nat /\ r \in 0 .. b - 1 /\ a = b * q + r
  BY Remainder
<1>2. b * (q + 1) = b * q + b /\ b * q \in Nat
  BY <1>1
<1>3. \/ RoundDiv(a, b) = q /\ 2 * r <= b
      \/ RoundDiv(a, b) = q + 1 /\ b <= 2 * r
  <2> HIDE DEF r
  <2> QED BY <1>1 DEF RoundDiv, r
<1> HIDE DEF q, r
<1>4. CASE RoundDiv(a, b) = q /\ 2 * r <= b
  BY <1>1, <1>2, <1>4
<1>5. CASE RoundDiv(a, b) = q + 1 /\ b <= 2 * r
  BY <1>1, <1>2, <1>5
<1> QED BY <1>3, <1>4, <1>5

\* Products keep the order of their factors.
LEMMA Products ==
    \A b \in Nat \ {0}, x, y \in Nat : (b * x <= b * y) <=> (x <= y)
  OBVIOUS

\* A bound on the exact quotient is one on the rounded one.
LEMMA RoundedBounds ==
    ASSUME NEW a \in Nat, NEW b \in Nat \ {0}, NEW c \in Nat
    PROVE  /\ a <= b * c => RoundDiv(a, b) <= c
           /\ b * c <= a => c <= RoundDiv(a, b)
<1> DEFINE q == RoundDiv(a, b)
<1>1. /\ q \in Nat /\ 2 * (b * q) <= 2 * a + b /\ 2 * a <= 2 * (b * q) + b
  BY Rounded
<1> HIDE DEF q
<1>2. b * c \in Nat /\ b * q \in Nat /\ b * (c + 1) = b * c + b /\ b * (q + 1) = b * q + b
  BY <1>1
<1>3. ASSUME a <= b * c, c + 1 <= q PROVE FALSE
  <2>1. b * (c + 1) <= b * q
    BY <1>1, <1>3, Products
  <2> QED BY <1>1, <1>2, <1>3, <2>1
<1>4. ASSUME b * c <= a, q + 1 <= c PROVE FALSE
  <2>1. b * (q + 1) <= b * c
    BY <1>1, <1>4, Products
  <2> QED BY <1>1, <1>2, <1>4, <2>1
<1> QED BY <1>1, <1>3, <1>4 DEF q

LEMMA RoundedExact ==
    ASSUME NEW a \in Nat, NEW b \in Nat \ {0} PROVE RoundDiv(a * b, b) = a
<1>1. a * b \in Nat /\ a * b = b * a
  OBVIOUS
<1>2. RoundDiv(a * b, b) <= a /\ a <= RoundDiv(a * b, b)
  BY <1>1, RoundedBounds
<1>3. RoundDiv(a * b, b) \in Nat
  BY <1>1, Rounded
<1> QED BY <1>2, <1>3

\* Ratios, here the rows of a source to its weight, have an order.
LEMMA RatiosOrdered ==
    ASSUME NEW a \in Nat, NEW b \in Nat, NEW c \in Nat,
           NEW u \in Nat \ {0}, NEW v \in Nat \ {0}, NEW w \in Nat \ {0},
           a * v <= b * u, b * w <= c * v
    PROVE  a * w <= c * u
<1>1. a * v \in Nat /\ b * u \in Nat /\ b * w \in Nat /\ c * v \in Nat /\ a * w \in Nat /\ c * u \in Nat
  OBVIOUS
<1>2. w * (a * v) <= w * (b * u) /\ u * (b * w) <= u * (c * v)
  BY <1>1, Products
<1>3. w * (a * v) = v * (a * w) /\ w * (b * u) = u * (b * w) /\ u * (c * v) = v * (c * u)
  OBVIOUS
<1>4. v * (a * w) <= v * (c * u)
  <2>1. v * (a * w) \in Nat /\ u * (b * w) \in Nat /\ v * (c * u) \in Nat
    BY <1>1
  <2> QED BY <1>2, <1>3, <2>1
<1> QED BY <1>1, <1>4, Products

-----------------------------------------------------------------------------
(* Rows, labels and what is taken of them.                                  *)

\* Rows that are taken are rows of the set.
LEMMA TakeIsSubset ==
    ASSUME NEW rows, NEW n, NEW S \in Take(rows, n) PROVE S \subseteq rows
BY DEF Take

\* As many are taken as asked for, where there are as many.
LEMMA TakeSize ==
    ASSUME NEW rows, IsFiniteSet(rows), NEW n \in Nat, NEW S \in Take(rows, n)
    PROVE  /\ S \subseteq rows /\ IsFiniteSet(S) /\ Cardinality(S) \in Nat
           /\ Cardinality(S) = Smaller(n, Cardinality(rows)) /\ Cardinality(S) <= n
           /\ n <= Cardinality(rows) => Cardinality(S) = n
           /\ n >= Cardinality(rows) => S = rows
<1>1. S \subseteq rows /\ Cardinality(S) = Smaller(n, Cardinality(rows))
  BY DEF Take
<1>2. IsFiniteSet(S) /\ Cardinality(S) \in Nat /\ Cardinality(rows) \in Nat
  BY <1>1, FS_Subset, FS_CardinalityType
<1>3. Cardinality(S) = Cardinality(rows) => S = rows
  BY <1>1, FS_Subset
<1> QED BY <1>1, <1>2, <1>3 DEF Smaller

\* What a part of a finite set leaves.
LEMMA RestSize ==
    ASSUME NEW S, IsFiniteSet(S), NEW T \in SUBSET S
    PROVE  IsFiniteSet(S \ T) /\ Cardinality(S \ T) = Cardinality(S) - Cardinality(T)
<1>1. Cardinality(S \ T) = Cardinality(S) - Cardinality(S \cap T)
  BY FS_Difference
<1>2. S \cap T = T
  OBVIOUS
<1>3. IsFiniteSet(S \ T)
  BY FS_Difference
<1> QED BY <1>1, <1>2, <1>3

LEMMA LabelsOfFinite ==
    ASSUME NEW rows, IsFiniteSet(rows)
    PROVE  /\ IsFiniteSet(Labels(rows)) /\ Cardinality(Labels(rows)) \in Nat
           /\ Cardinality(Labels(rows)) <= Cardinality(rows)
           /\ \A l : IsFiniteSet(OfLabel(rows, l)) /\ Cardinality(OfLabel(rows, l)) \in Nat
<1>1. PICK f : f = [r \in rows |-> LabelOf[r]]
  OBVIOUS
<1>2. f \in Surjection(rows, Labels(rows))
  BY <1>1 DEF Surjection, Labels
<1>3. IsFiniteSet(Labels(rows)) /\ Cardinality(Labels(rows)) <= Cardinality(rows)
  BY <1>2, FS_Surjection
<1>4. \A l : IsFiniteSet(OfLabel(rows, l))
  BY FS_Subset DEF OfLabel
<1> QED BY <1>3, <1>4, FS_CardinalityType

\* A label of the rows is one that a row of it has.
LEMMA LabelHasRows ==
    ASSUME NEW rows, NEW l
    PROVE  /\ l \in Labels(rows) <=> OfLabel(rows, l) # {}
           /\ \A r : r \in OfLabel(rows, l) <=> r \in rows /\ LabelOf[r] = l
  BY DEF Labels, OfLabel

\* Fewer rows than labels, at most one of each, leave a label out; so rows that have
\* at most one of each and leave one out are fewer than the labels.
LEMMA OneOfEach ==
    ASSUME NEW S, NEW L, IsFiniteSet(L), NEW l \in L,
           \A r \in S : LabelOf[r] \in L \ {l},
           \A r, s \in S : LabelOf[r] = LabelOf[s] => r = s
    PROVE  IsFiniteSet(S) /\ Cardinality(S) < Cardinality(L)
<1>1. PICK f : f = [r \in S |-> LabelOf[r]]
  OBVIOUS
<1>2. PICK M : M = L \ {l}
  OBVIOUS
<1>3. f \in Injection(S, M)
  BY <1>1, <1>2 DEF Injection, IsInjective
<1>4. IsFiniteSet(M) /\ Cardinality(M) = Cardinality(L) - 1
  BY <1>2, FS_RemoveElement
<1>5. IsFiniteSet(S) /\ Cardinality(S) <= Cardinality(M)
  BY <1>3, <1>4, FS_Injection
<1>6. Cardinality(S) \in Nat /\ Cardinality(L) \in Nat
  BY <1>5, FS_CardinalityType
<1> QED BY <1>4, <1>5, <1>6

-----------------------------------------------------------------------------
(* Splits.                                                                  *)

\* prepare_general_mixture.py, stratified_split: nothing is lost or used twice, and
\* every label keeps rows for each of training, validation and calibration.
THEOREM SplitsKeepLabels ==
    ASSUME NEW rows, IsFiniteSet(rows), NEW s \in StratifiedSplits(rows)
    PROVE  /\ s.train \cup s.val \cup s.calibration = rows
           /\ s.train \cap s.val = {} /\ s.train \cap s.calibration = {}
           /\ s.val \cap s.calibration = {}
           /\ \A l \in Labels(rows) :
                 LET n == Cardinality(OfLabel(rows, l)) IN
                 /\ Cardinality(OfLabel(s.val, l)) = NVal(n)
                 /\ Cardinality(OfLabel(s.calibration, l)) = NCal(n)
           /\ Labels(s.train) = Labels(rows)
           /\ Labels(s.val) = Labels(rows)
           /\ Labels(s.calibration) = Labels(rows)
<1>1. PICK v \in SUBSET rows, c \in SUBSET rows :
           s = [train |-> (rows \ v) \ c, val |-> v, calibration |-> c]
  BY DEF StratifiedSplits
<1>2. s.train = (rows \ v) \ c /\ s.val = v /\ s.calibration = c
  BY <1>1
<1>3. ASSUME NEW l \in Labels(rows)
      PROVE  /\ OfLabel(v, l) \cap OfLabel(c, l) = {}
             /\ Cardinality(OfLabel(v, l)) = NVal(Cardinality(OfLabel(rows, l)))
             /\ Cardinality(OfLabel(c, l)) = NCal(Cardinality(OfLabel(rows, l)))
             /\ l \in Labels(v) /\ l \in Labels(c) /\ l \in Labels((rows \ v) \ c)
  <2>1. PICK pool : pool = OfLabel(rows, l)
    OBVIOUS
  <2>2. PICK n : n = Cardinality(pool)
    OBVIOUS
  <2>3. PICK val : val = OfLabel(v, l)
    OBVIOUS
  <2>4. PICK cal : cal = OfLabel(c, l)
    OBVIOUS
  <2>5. /\ n > NVal(n) + NCal(n)
        /\ val \in Take(pool, NVal(n))
        /\ cal \in Take(pool \ val, NCal(n))
    BY <1>2, <2>1, <2>2, <2>3, <2>4 DEF StratifiedSplits
  <2>6. IsFiniteSet(pool) /\ n \in Nat
    BY <2>1, <2>2, LabelsOfFinite
  <2>7. NVal(n) \in Nat /\ NVal(n) >= 1 /\ NCal(n) \in Nat /\ NCal(n) >= 1
    <3>1. RoundDiv(n, 10) \in Nat /\ RoundDiv(n, 20) \in Nat
      BY <2>6, Rounded
    <3> QED BY <3>1 DEF NVal, NCal, Larger
  <2>8. val \subseteq pool /\ IsFiniteSet(val) /\ Cardinality(val) = NVal(n)
    BY <2>2, <2>5, <2>6, <2>7, TakeSize
  <2>9. PICK rest : rest = pool \ val
    OBVIOUS
  <2>10. IsFiniteSet(rest) /\ Cardinality(rest) = n - NVal(n)
    <3>1. IsFiniteSet(pool \ val) /\ Cardinality(pool \ val) = Cardinality(pool) - Cardinality(val)
      BY <2>6, <2>8, RestSize
    <3> QED BY <2>2, <2>8, <2>9, <3>1
  <2>11. cal \subseteq rest /\ IsFiniteSet(cal) /\ Cardinality(cal) = NCal(n)
    <3>1. NCal(n) <= Cardinality(rest)
      BY <2>5, <2>6, <2>7, <2>10
    <3> QED BY <2>5, <2>7, <2>9, <2>10, <3>1, TakeSize
  <2>12. rest \ cal # {}
    <3>1. IsFiniteSet(rest \ cal) /\ Cardinality(rest \ cal) = Cardinality(rest) - Cardinality(cal)
      BY <2>10, <2>11, RestSize
    <3>2. Cardinality(rest \ cal) = n - NVal(n) - NCal(n)
      BY <2>10, <2>11, <3>1
    <3>3. Cardinality(rest \ cal) # 0
      BY <2>5, <2>6, <2>7, <3>2
    <3> QED BY <3>1, <3>3, FS_EmptySet
  <2>13. val # {} /\ cal # {}
    BY <2>7, <2>8, <2>11, FS_EmptySet
  <2>14. l \in Labels(v) /\ l \in Labels(c)
    BY <2>3, <2>4, <2>13, LabelHasRows
  <2>15. l \in Labels((rows \ v) \ c)
    <3>1. PICK r : r \in rest \ cal
      BY <2>12
    <3>2. r \in (rows \ v) \ c /\ LabelOf[r] = l
      BY <2>1, <2>3, <2>4, <2>9, <3>1 DEF OfLabel
    <3> QED BY <3>2 DEF Labels
  <2> QED BY <2>1, <2>2, <2>3, <2>4, <2>8, <2>9, <2>11, <2>14, <2>15
<1>4. v \cap c = {}
  <2> SUFFICES ASSUME NEW r \in v \cap c PROVE FALSE
    OBVIOUS
  <2>1. LabelOf[r] \in Labels(rows)
    BY DEF Labels
  <2>2. r \in OfLabel(v, LabelOf[r]) \cap OfLabel(c, LabelOf[r])
    BY DEF OfLabel
  <2> QED BY <1>3, <2>1, <2>2
<1>5. \A part \in SUBSET rows : Labels(part) \subseteq Labels(rows)
  BY DEF Labels
<1>6. Labels(v) = Labels(rows) /\ Labels(c) = Labels(rows) /\ Labels((rows \ v) \ c) = Labels(rows)
  BY <1>3, <1>5
<1> QED BY <1>2, <1>3, <1>4, <1>6

-----------------------------------------------------------------------------
(* Samples.                                                                 *)

\* prepare_general_mixture.py, weighted_sample: the rows taken from the labels in turn
\* leave none of them out.
THEOREM SamplesKeepLabels ==
    ASSUME NEW rows, IsFiniteSet(rows), NEW count \in Nat, NEW S \in Samples(rows, count)
    PROVE  /\ S \subseteq rows /\ Labels(S) = Labels(rows)
           /\ Cardinality(S) = Smaller(count, Cardinality(rows))
<1>1. /\ IsFiniteSet(Labels(rows)) /\ Cardinality(Labels(rows)) \in Nat
      /\ Cardinality(Labels(rows)) <= Cardinality(rows)
      /\ Cardinality(rows) \in Nat
  BY LabelsOfFinite, FS_CardinalityType
<1>2. /\ Cardinality(Labels(rows)) <= count
      /\ S \in Take(rows, count)
      /\ \A l, m \in Labels(rows) :
            Cardinality(OfLabel(S, m)) > Cardinality(OfLabel(S, l)) + 1
                => OfLabel(S, l) = OfLabel(rows, l)
  BY <1>1 DEF Samples
<1>3. /\ S \subseteq rows /\ IsFiniteSet(S)
      /\ Cardinality(S) = Smaller(count, Cardinality(rows))
  BY <1>2, TakeSize
<1>4. ASSUME NEW l \in Labels(rows), OfLabel(S, l) = {} PROVE FALSE
  <2>1. Cardinality(OfLabel(S, l)) = 0 /\ OfLabel(rows, l) # {}
    BY <1>4, LabelHasRows, FS_EmptySet
  <2>2. \A m \in Labels(rows) : Cardinality(OfLabel(S, m)) <= 1
    <3>1. \A m \in Labels(rows) : ~ (Cardinality(OfLabel(S, m)) > 1)
      BY <1>2, <1>4, <2>1
    <3>2. \A m : Cardinality(OfLabel(S, m)) \in Nat
      BY <1>3, LabelsOfFinite
    <3> QED BY <3>1, <3>2
  <2>3. \A r \in S : LabelOf[r] \in Labels(rows) \ {l}
    BY <1>3, <1>4 DEF Labels, OfLabel
  <2>4. ASSUME NEW r \in S, NEW q \in S, LabelOf[r] = LabelOf[q] PROVE r = q
    <3>1. PICK m : m = LabelOf[r]
      OBVIOUS
    <3>2. m \in Labels(rows) /\ r \in OfLabel(S, m) /\ q \in OfLabel(S, m)
      BY <1>3, <2>4, <3>1 DEF Labels, OfLabel
    <3>3. /\ IsFiniteSet(OfLabel(S, m)) /\ Cardinality(OfLabel(S, m)) \in Nat
          /\ Cardinality(OfLabel(S, m)) <= 1
      BY <1>3, <2>2, <3>2, LabelsOfFinite
    <3>4. Cardinality(OfLabel(S, m)) # 0
      BY <3>2, <3>3, FS_EmptySet
    <3>5. Cardinality(OfLabel(S, m)) = 1
      BY <3>3, <3>4
    <3>6. \E x : OfLabel(S, m) = {x}
      BY <3>3, <3>5, FS_Singleton
    <3> QED BY <3>2, <3>6
  <2>5. Cardinality(S) < Cardinality(Labels(rows))
    BY <1>1, <2>3, <2>4, OneOfEach
  <2> QED BY <1>1, <1>2, <1>3, <2>5 DEF Smaller
<1>5. \A l \in Labels(rows) : l \in Labels(S)
  BY <1>4, LabelHasRows
<1>6. Labels(S) \subseteq Labels(rows)
  BY <1>3 DEF Labels
<1> QED BY <1>3, <1>5, <1>6

\* One source is the scarcest.
LEMMA ScarcestExists ==
    ASSUME NEW size \in [Sources -> Nat]
    PROVE  /\ Scarcest(size) \in Sources
           /\ \A s \in Sources :
                 size[Scarcest(size)] * Weight[s] <= size[s] * Weight[Scarcest(size)]
<1> DEFINE Le(s, t) == size[s] * Weight[t] <= size[t] * Weight[s]
<1>1. \A s \in Sources : size[s] \in Nat /\ Weight[s] \in Nat \ {0}
  BY DataAssumption
<1>2. \A s, t \in Sources : Le(s, t) \/ Le(t, s)
  <2> SUFFICES ASSUME NEW s \in Sources, NEW t \in Sources PROVE Le(s, t) \/ Le(t, s)
    OBVIOUS
  <2>1. size[s] * Weight[t] \in Nat /\ size[t] * Weight[s] \in Nat
    BY <1>1
  <2> QED BY <2>1
<1>3. \A s, t, u \in Sources : Le(s, t) /\ Le(t, u) => Le(s, u)
  BY <1>1, RatiosOrdered
<1> HIDE DEF Le
<1>4. \E m \in Sources : \A s \in Sources : Le(m, s)
  BY <1>2, <1>3 DEF Sources
<1>5. Scarcest(size) = CHOOSE m \in Sources : \A s \in Sources : Le(m, s)
  BY DEF Scarcest, Le
<1>6. Scarcest(size) \in Sources /\ \A s \in Sources : Le(Scarcest(size), s)
  BY <1>4, <1>5
<1> QED BY <1>6 DEF Le

\* prepare_general_mixture.py, weighted_sample, "Largest feasible mixture with the
\* requested relative counts": the scarcest source is used whole, no source runs short
\* of its share, and every share of more than a row is exact to half a row.
THEOREM SharesAreExact ==
    ASSUME NEW size \in [Sources -> Nat \ {0}]
    PROVE  LET m == Scarcest(size) IN
           /\ m \in Sources /\ SampleSize(size, m) = size[m]
           /\ \A s \in Sources :
                 /\ SampleSize(size, s) \in 1 .. size[s]
                 /\ SampleSize(size, s) = Larger(1, RoundDiv(size[m] * Weight[s], Weight[m]))
                 /\ SampleSize(size, s) > 1 =>
                       /\ 2 * (Weight[m] * SampleSize(size, s))
                             <= 2 * (size[m] * Weight[s]) + Weight[m]
                       /\ 2 * (size[m] * Weight[s])
                             <= 2 * (Weight[m] * SampleSize(size, s)) + Weight[m]
<1>1. PICK m : m = Scarcest(size)
  OBVIOUS
<1>2. size \in [Sources -> Nat] /\ \A s \in Sources : size[s] \in Nat \ {0} /\ Weight[s] \in Nat \ {0}
  BY DataAssumption
<1>3. m \in Sources /\ \A s \in Sources : size[m] * Weight[s] <= size[s] * Weight[m]
  BY <1>1, <1>2, ScarcestExists
<1>4. ASSUME NEW s \in Sources
      PROVE  /\ SampleSize(size, s) \in 1 .. size[s]
             /\ SampleSize(size, s) = Larger(1, RoundDiv(size[m] * Weight[s], Weight[m]))
             /\ SampleSize(size, s) > 1 =>
                   /\ 2 * (Weight[m] * SampleSize(size, s)) <= 2 * (size[m] * Weight[s]) + Weight[m]
                   /\ 2 * (size[m] * Weight[s]) <= 2 * (Weight[m] * SampleSize(size, s)) + Weight[m]
  <2>1. PICK a, b, n : a = size[m] * Weight[s] /\ b = Weight[m] /\ n = size[s]
    OBVIOUS
  <2>2. a \in Nat /\ b \in Nat \ {0} /\ n \in Nat \ {0} /\ a <= b * n
    <3>1. size[m] * Weight[s] \in Nat /\ size[s] * Weight[m] = Weight[m] * size[s]
      BY <1>2, <1>3
    <3> QED BY <1>2, <1>3, <2>1, <3>1
  <2>3. PICK q : q = RoundDiv(a, b)
    OBVIOUS
  <2>4. /\ q \in Nat /\ q <= n
        /\ 2 * (b * q) <= 2 * a + b /\ 2 * a <= 2 * (b * q) + b
    BY <2>2, <2>3, Rounded, RoundedBounds
  <2>5. SampleSize(size, s) = Smaller(n, Larger(1, q))
    BY <1>1, <2>1, <2>3 DEF SampleSize
  <2>6. SampleSize(size, s) = Larger(1, q) /\ SampleSize(size, s) \in 1 .. n
    BY <2>2, <2>4, <2>5 DEF Smaller, Larger
  <2>7. SampleSize(size, s) > 1 => SampleSize(size, s) = q
    BY <2>4, <2>6 DEF Larger
  <2> QED BY <2>1, <2>3, <2>4, <2>6, <2>7
<1>5. SampleSize(size, m) = size[m]
  <2>1. RoundDiv(size[m] * Weight[m], Weight[m]) = size[m]
    BY <1>2, <1>3, RoundedExact
  <2>2. SampleSize(size, m) = Larger(1, size[m])
    BY <1>3, <1>4, <2>1
  <2> QED BY <1>2, <1>3, <2>2 DEF Larger
<1> QED BY <1>1, <1>3, <1>4, <1>5

-----------------------------------------------------------------------------
(* The general mixture.                                                     *)

\* Every split of a source is a part of its rows.
LEMMA SourceSplitsWithin ==
    ASSUME NEW source, NEW rows, NEW s \in SourceSplits(source, rows)
    PROVE  s.train \subseteq rows /\ s.val \subseteq rows /\ s.calibration \subseteq rows
<1>1. CASE source = "typed_decisions"
  <2>1. s \in TypedSplits(rows)
    BY <1>1 DEF SourceSplits
  <2> DEFINE holdout == {r \in rows : StateOf[r] \notin Exposed}
  <2>2. PICK v \in Take(holdout, (Cardinality(holdout) + 1) \div 2) :
             s = [train |-> rows \ holdout, val |-> v, calibration |-> holdout \ v]
    BY <2>1 DEF TypedSplits
  <2>3. v \subseteq holdout
    BY <2>2, TakeIsSubset
  <2> QED BY <2>2, <2>3
<1>2. CASE source # "typed_decisions"
  <2>1. s \in StratifiedSplits(rows)
    BY <1>2 DEF SourceSplits
  <2>2. PICK v \in SUBSET rows, c \in SUBSET rows :
             s = [train |-> (rows \ v) \ c, val |-> v, calibration |-> c]
    BY <2>1 DEF StratifiedSplits
  <2> QED BY <2>2
<1> QED BY <1>1, <1>2

\* A mixture is made of the cleaned rows of each source and of their splits.
MadeOf(f, phone, kept, split) ==
    /\ \A s \in Sources : /\ kept[s] \in CleanPool(From(GeneralRow, s), Protected(phone))
                         /\ split[s] \in SourceSplits(s, kept[s])
    /\ f.train \in WeightedSamples(UNION {split[s].train : s \in Sources})
    /\ f.val = UNION {split[s].val : s \in Sources}
    /\ f.calibration = UNION {split[s].calibration : s \in Sources}

LEMMA MixtureParts ==
    ASSUME NEW phone, NEW f \in Mixtures(phone)
    PROVE  FinalChecks(f) /\ \E kept, split : MadeOf(f, phone, kept, split)
<1> DEFINE Split(s) == UNION {SourceSplits(s, kept) :
                              kept \in CleanPool(From(GeneralRow, s), Protected(phone))}
           Together(split) ==
            {[train |-> train,
              val |-> UNION {split[s].val : s \in Sources},
              calibration |-> UNION {split[s].calibration : s \in Sources}] :
                train \in WeightedSamples(UNION {split[s].train : s \in Sources})}
           Triples == {[typed_decisions |-> t, banking77 |-> b, clinc150 |-> c] :
                        t \in Split("typed_decisions"), b \in Split("banking77"),
                        c \in Split("clinc150")}
<1>1. f \in UNION {Together(split) : split \in Triples} /\ FinalChecks(f)
  <2>1. Mixtures(phone) = {g \in UNION {Together(split) : split \in Triples} : FinalChecks(g)}
    BY DEF Mixtures
  <2> HIDE DEF Split, Together, Triples
  <2> QED BY <2>1
<1>2. PICK split \in Triples : f \in Together(split)
  <2> HIDE DEF Together, Triples
  <2> QED BY <1>1
<1>3. PICK train \in WeightedSamples(UNION {split[s].train : s \in Sources}) :
           f = [train |-> train,
                val |-> UNION {split[s].val : s \in Sources},
                calibration |-> UNION {split[s].calibration : s \in Sources}]
  BY <1>2
<1>4. ASSUME NEW s \in Sources PROVE split[s] \in Split(s)
  <2> HIDE DEF Split
  <2>1. PICK t \in Split("typed_decisions"), b \in Split("banking77"), c \in Split("clinc150") :
             split = [typed_decisions |-> t, banking77 |-> b, clinc150 |-> c]
    BY <1>2
  <2>2. /\ split["typed_decisions"] = t /\ split["banking77"] = b /\ split["clinc150"] = c
    BY <2>1
  <2> QED BY <2>1, <2>2 DEF Sources
<1>5. \A s \in Sources : \E k \in CleanPool(From(GeneralRow, s), Protected(phone)) :
          split[s] \in SourceSplits(s, k)
  BY <1>4
<1> DEFINE kept == [s \in Sources |->
             CHOOSE k \in CleanPool(From(GeneralRow, s), Protected(phone)) :
                 split[s] \in SourceSplits(s, k)]
<1>6. \A s \in Sources : /\ kept[s] \in CleanPool(From(GeneralRow, s), Protected(phone))
                        /\ split[s] \in SourceSplits(s, kept[s])
  BY <1>5
<1>7. /\ f.train \in WeightedSamples(UNION {split[s].train : s \in Sources})
      /\ f.val = UNION {split[s].val : s \in Sources}
      /\ f.calibration = UNION {split[s].calibration : s \in Sources}
  BY <1>3
<1> HIDE DEF Split, Together, Triples, kept
<1>8. MadeOf(f, phone, kept, split)
  BY <1>6, <1>7 DEF MadeOf
<1> QED BY <1>1, <1>8

\* What a source has in a union of parts of the sources is its own part.
LEMMA OwnPart ==
    ASSUME NEW part, \A s \in Sources : part[s] \subseteq From(GeneralRow, s),
           NEW all, all = UNION {part[s] : s \in Sources}, NEW source \in Sources
    PROVE  From(all, source) = part[source]
<1>1. \A s \in Sources : \A r \in part[s] : SourceOf[r] = s
  BY DEF From
<1>2. ASSUME NEW r
      PROVE  r \in From(all, source) <=> r \in part[source]
  <2>1. r \in all <=> \E s \in Sources : r \in part[s]
    OBVIOUS
  <2> QED BY <1>1, <2>1 DEF From
<1> QED BY <1>2

LEMMA PartsWithin ==
    ASSUME NEW f, NEW phone, NEW kept, NEW split, MadeOf(f, phone, kept, split), NEW s \in Sources
    PROVE  /\ kept[s] \subseteq From(GeneralRow, s) /\ IsFiniteSet(kept[s])
           /\ States(kept[s]) \cap Protected(phone) = {}
           /\ split[s].train \subseteq kept[s] /\ split[s].val \subseteq kept[s]
           /\ split[s].calibration \subseteq kept[s]
<1>1. kept[s] \in CleanPool(From(GeneralRow, s), Protected(phone)) /\ split[s] \in SourceSplits(s, kept[s])
  BY DEF MadeOf
<1>2. kept[s] \subseteq From(GeneralRow, s) /\ States(kept[s]) \cap Protected(phone) = {}
  BY <1>1 DEF CleanPool
<1>3. kept[s] \subseteq Row
  BY <1>2 DEF From, Row
<1>4. IsFiniteSet(kept[s])
  BY <1>3, DataAssumption, FS_Subset
<1> QED BY <1>1, <1>2, <1>4, SourceSplitsWithin

\* What a source has in the splits of a mixture.
LEMMA HeldOfSource ==
    ASSUME NEW f, NEW phone, NEW kept, NEW split, MadeOf(f, phone, kept, split), NEW s \in Sources
    PROVE  From(f.val, s) = split[s].val /\ From(f.calibration, s) = split[s].calibration
<1>1. \A t \in Sources : split[t].val \subseteq From(GeneralRow, t)
                        /\ split[t].calibration \subseteq From(GeneralRow, t)
  BY PartsWithin
<1>2. PICK vals, cals : /\ vals = [t \in Sources |-> split[t].val]
                        /\ cals = [t \in Sources |-> split[t].calibration]
  OBVIOUS
<1>3. f.val = UNION {vals[t] : t \in Sources} /\ f.calibration = UNION {cals[t] : t \in Sources}
  BY <1>2 DEF MadeOf
<1>4. From(f.val, s) = vals[s] /\ From(f.calibration, s) = cals[s]
  BY <1>1, <1>2, <1>3, OwnPart
<1> QED BY <1>2, <1>4

LEMMA TrainOfSource ==
    ASSUME NEW f, NEW phone, NEW kept, NEW split, MadeOf(f, phone, kept, split), NEW s \in Sources
    PROVE  From(f.train, s) \in
              Samples(split[s].train, SampleSize([t \in Sources |-> Cardinality(split[t].train)], s))
<1>1. \A t \in Sources : split[t].train \subseteq From(GeneralRow, t)
  BY PartsWithin
<1>2. PICK trains : trains = [t \in Sources |-> split[t].train]
  OBVIOUS
<1>3. PICK all : all = UNION {split[t].train : t \in Sources}
  OBVIOUS
<1>4. all = UNION {trains[t] : t \in Sources} /\ f.train \in WeightedSamples(all)
  BY <1>2, <1>3 DEF MadeOf
<1>5. \A t \in Sources : From(all, t) = trains[t]
  BY <1>1, <1>2, <1>4, OwnPart
<1>6. \A t \in Sources : From(all, t) = split[t].train
  BY <1>2, <1>5
<1>7. [t \in Sources |-> Cardinality(From(all, t))] = [t \in Sources |-> Cardinality(split[t].train)]
  BY <1>6
<1>8. From(f.train, s) \in
         Samples(From(all, s), SampleSize([t \in Sources |-> Cardinality(From(all, t))], s))
  BY <1>4 DEF WeightedSamples
<1> QED BY <1>6, <1>7, <1>8

LEMMA SampleSizeType ==
    ASSUME NEW size \in [Sources -> Nat], NEW s \in Sources
    PROVE  SampleSize(size, s) \in Nat /\ SampleSize(size, s) <= size[s]
<1>1. PICK m : m = Scarcest(size)
  OBVIOUS
<1>2. m \in Sources /\ size[m] * Weight[s] \in Nat /\ Weight[m] \in Nat \ {0} /\ size[s] \in Nat
  <2>1. m \in Sources
    BY <1>1, ScarcestExists
  <2>2. size[m] \in Nat /\ Weight[s] \in Nat /\ Weight[m] \in Nat \ {0} /\ size[s] \in Nat
    BY <2>1, DataAssumption
  <2> QED BY <2>1, <2>2
<1>3. PICK q : q = RoundDiv(size[m] * Weight[s], Weight[m])
  OBVIOUS
<1>4. q \in Nat
  BY <1>2, <1>3, Rounded
<1>5. SampleSize(size, s) = Smaller(size[s], Larger(1, q))
  BY <1>1, <1>3 DEF SampleSize
<1> QED BY <1>2, <1>4, <1>5 DEF Smaller, Larger

\* prepare_general_mixture.py, main: of each of the two intent datasets the labels that
\* are trained, validated and calibrated are the same, all those of its cleaned rows.
THEOREM MixturesTeachWhatTheyTest ==
    ASSUME NEW phone, NEW f \in Mixtures(phone), NEW s \in Sources \ {"typed_decisions"}
    PROVE  \E kept \in CleanPool(From(GeneralRow, s), Protected(phone)) :
              /\ Labels(From(f.train, s)) = Labels(kept)
              /\ Labels(From(f.val, s)) = Labels(kept)
              /\ Labels(From(f.calibration, s)) = Labels(kept)
<1>1. PICK kept, split : MadeOf(f, phone, kept, split)
  BY MixtureParts
<1>2. split[s] \in StratifiedSplits(kept[s]) /\ kept[s] \in CleanPool(From(GeneralRow, s), Protected(phone))
  BY <1>1 DEF MadeOf, SourceSplits
<1>3. IsFiniteSet(kept[s]) /\ \A t \in Sources : split[t].train \subseteq kept[t] /\ IsFiniteSet(kept[t])
  BY <1>1, PartsWithin
<1>4. /\ Labels(split[s].train) = Labels(kept[s]) /\ Labels(split[s].val) = Labels(kept[s])
      /\ Labels(split[s].calibration) = Labels(kept[s])
  BY <1>2, <1>3, SplitsKeepLabels
<1>5. \A t \in Sources : IsFiniteSet(split[t].train) /\ Cardinality(split[t].train) \in Nat
  BY <1>3, FS_Subset, FS_CardinalityType
<1>6. PICK size : size = [t \in Sources |-> Cardinality(split[t].train)]
  OBVIOUS
<1>7. SampleSize(size, s) \in Nat
  <2>1. size \in [Sources -> Nat]
    BY <1>5, <1>6
  <2> QED BY <2>1, SampleSizeType
<1>8. From(f.train, s) \in Samples(split[s].train, SampleSize(size, s))
  BY <1>1, <1>6, TrainOfSource
<1>9. Labels(From(f.train, s)) = Labels(split[s].train)
  BY <1>5, <1>7, <1>8, SamplesKeepLabels
<1>10. From(f.val, s) = split[s].val /\ From(f.calibration, s) = split[s].calibration
  <2>1. s \in Sources
    OBVIOUS
  <2> QED BY <1>1, <2>1, HeldOfSource
<1> QED BY <1>2, <1>4, <1>9, <1>10

\* prepare_general_mixture.py, weighted_sample: in a mixture with rows of every source,
\* each has as many as its weight says, to the nearest row, relative to one of them.
THEOREM MixturesInProportion ==
    ASSUME NEW phone, NEW f \in Mixtures(phone), \A s \in Sources : From(f.train, s) # {}
    PROVE  \E m \in Sources : \A s \in Sources :
              Cardinality(From(f.train, s)) =
                  Larger(1, RoundDiv(Cardinality(From(f.train, m)) * Weight[s], Weight[m]))
<1>1. PICK kept, split : MadeOf(f, phone, kept, split)
  BY MixtureParts
<1>2. \A t \in Sources : IsFiniteSet(split[t].train) /\ Cardinality(split[t].train) \in Nat
  BY <1>1, PartsWithin, FS_Subset, FS_CardinalityType
<1>3. PICK size : size = [t \in Sources |-> Cardinality(split[t].train)]
  OBVIOUS
<1>4. size \in [Sources -> Nat]
  BY <1>2, <1>3
<1>5. ASSUME NEW s \in Sources
      PROVE  From(f.train, s) \subseteq split[s].train
             /\ Cardinality(From(f.train, s)) = SampleSize(size, s)
  <2>1. From(f.train, s) \in Samples(split[s].train, SampleSize(size, s))
    BY <1>1, <1>3, TrainOfSource
  <2>2. SampleSize(size, s) \in Nat /\ SampleSize(size, s) <= Cardinality(split[s].train)
    BY <1>3, <1>4, SampleSizeType
  <2> QED BY <1>2, <2>1, <2>2, SamplesKeepLabels DEF Smaller
<1>6. size \in [Sources -> Nat \ {0}]
  <2>1. ASSUME NEW s \in Sources PROVE size[s] # 0
    BY <1>2, <1>3, <1>5, FS_EmptySet
  <2> QED BY <1>4, <2>1
<1>7. PICK m : m = Scarcest(size)
  OBVIOUS
<1>8. /\ m \in Sources /\ SampleSize(size, m) = size[m]
      /\ \A s \in Sources : SampleSize(size, s) = Larger(1, RoundDiv(size[m] * Weight[s], Weight[m]))
  BY <1>6, <1>7, SharesAreExact
<1> QED BY <1>5, <1>8

\* What the freezing promises of a mixture: its splits have no state in common, and
\* none of its rows has a state of a test split or of the phone rows it was given.
LEMMA MixturesHeldOut ==
    ASSUME NEW rows, NEW f \in Mixtures(rows)
    PROVE  /\ f.train \subseteq GeneralRow /\ f.val \subseteq GeneralRow
           /\ f.calibration \subseteq GeneralRow
           /\ States(f.train) \cap States(f.val) = {}
           /\ States(f.train) \cap States(f.calibration) = {}
           /\ States(f.val) \cap States(f.calibration) = {}
           /\ States(f.train \cup f.val \cup f.calibration) \cap Protected(rows) = {}
<1> DEFINE Good == {r \in GeneralRow : StateOf[r] \notin Protected(rows)}
<1>1. PICK kept, split : MadeOf(f, rows, kept, split)
  BY MixtureParts
<1>2. ASSUME NEW s \in Sources
      PROVE  split[s].train \subseteq Good /\ split[s].val \subseteq Good
             /\ split[s].calibration \subseteq Good
  <2>1. kept[s] \subseteq Good
    BY <1>1, PartsWithin DEF From, States
  <2> HIDE DEF Good
  <2> QED BY <1>1, <2>1, PartsWithin
<1>3. f.train \subseteq UNION {split[s].train : s \in Sources}
  BY <1>1 DEF MadeOf, WeightedSamples
<1>4. f.train \subseteq Good /\ f.val \subseteq Good /\ f.calibration \subseteq Good
  <2> HIDE DEF Good
  <2> QED BY <1>1, <1>2, <1>3 DEF MadeOf
<1>5. ASSUME NEW S, S \subseteq Good
      PROVE  S \subseteq GeneralRow /\ States(S) \cap Protected(rows) = {}
  BY <1>5 DEF States
<1>6. States(f.train \cup f.val \cup f.calibration) \cap Protected(rows) = {}
  <2> HIDE DEF Good
  <2> QED BY <1>4, <1>5
<1> QED
  <2> HIDE DEF Good
  <2> QED BY <1>4, <1>5, <1>6, MixtureParts DEF FinalChecks

-----------------------------------------------------------------------------
(* The phone dataset.                                                       *)

\* The phone splits have no query twice and none that is excluded.
LEMMA SplitsDisjoint ==
    ASSUME NEW excluded, NEW s \in PhoneSplits(excluded)
    PROVE  /\ DOMAIN s = {"train", "calibration", "test"}
           /\ s.train \subseteq Clean(excluded) /\ s.calibration \subseteq Clean(excluded)
           /\ s.test \subseteq Clean(excluded)
           /\ s.train \cap s.calibration = {} /\ s.train \cap s.test = {}
           /\ s.calibration \cap s.test = {}
<1>1. s \in [train : SUBSET Clean(excluded), calibration : SUBSET Clean(excluded),
             test : SUBSET Clean(excluded)]
  BY DEF PhoneSplits
<1>2. ASSUME NEW q \in Clean(excluded)
      PROVE  /\ ~(q \in s.train /\ q \in s.calibration)
             /\ ~(q \in s.train /\ q \in s.test)
             /\ ~(q \in s.calibration /\ q \in s.test)
  <2> DEFINE l == LabelOf[q]
             pool == OfLabel(Clean(excluded), l)
             train == OfLabel(s.train, l)
             calibration == OfLabel(s.calibration, l)
  <2>1. l \in Labels(Query)
    BY DEF Labels, Clean
  <2>2. /\ calibration \in Take(pool \ train, NCalibration)
        /\ OfLabel(s.test, l) \in Take((pool \ train) \ calibration, NTest)
    BY <2>1 DEF PhoneSplits
  <2>3. calibration \subseteq pool \ train
    BY <2>2, TakeIsSubset
  <2>4. OfLabel(s.test, l) \subseteq (pool \ train) \ calibration
    BY <2>2, TakeIsSubset
  <2>5. /\ q \in s.train => q \in train
        /\ q \in s.calibration => q \in calibration
        /\ q \in s.test => q \in OfLabel(s.test, l)
    BY DEF OfLabel
  <2> QED BY <2>3, <2>4, <2>5
<1> QED BY <1>1, <1>2

\* So it is whether or not the builder finds the development cases.
LEMMA PlansDisjoint ==
    ASSUME NEW s \in BuilderPlans
    PROVE  /\ DOMAIN s = {"train", "calibration", "test"}
           /\ s.train \subseteq Query /\ s.calibration \subseteq Query /\ s.test \subseteq Query
           /\ s.train \cap s.calibration = {} /\ s.train \cap s.test = {}
           /\ s.calibration \cap s.test = {}
<1>1. \A excluded : Clean(excluded) \subseteq Query
  BY DEF Clean
<1>2. s \in PhoneSplits(Dev) \/ s \in PhoneSplits({})
  BY DEF BuilderPlans
<1> QED BY <1>1, <1>2, SplitsDisjoint

\* build_phone_routing_dataset.py: a route with enough clean queries fills every split,
\* one with fewer fills the train split first; nothing of it is in two splits,
\* whatever is excluded.
THEOREM RoutesFillSplits ==
    ASSUME NEW excluded, NEW s \in PhoneSplits(excluded), NEW l \in Labels(Query),
           IsFiniteSet(Query)
    PROVE  LET n == Cardinality(OfLabel(Clean(excluded), l)) IN
           /\ Cardinality(OfLabel(s.train, l)) = Smaller(NTrain, n)
           /\ n >= NTrain + NCalibration + NTest =>
                 /\ Cardinality(OfLabel(s.calibration, l)) = NCalibration
                 /\ Cardinality(OfLabel(s.test, l)) = NTest
           /\ n <= NTrain => OfLabel(s.calibration, l) = {} /\ OfLabel(s.test, l) = {}
           /\ s.train \cap s.calibration = {} /\ s.train \cap s.test = {}
           /\ s.calibration \cap s.test = {}
<1>1. PICK pool, train, cal, test, n :
         /\ pool = OfLabel(Clean(excluded), l) /\ n = Cardinality(pool)
         /\ train = OfLabel(s.train, l) /\ cal = OfLabel(s.calibration, l)
         /\ test = OfLabel(s.test, l)
  OBVIOUS
<1>2. /\ train \in Take(pool, NTrain)
      /\ cal \in Take(pool \ train, NCalibration)
      /\ test \in Take((pool \ train) \ cal, NTest)
  BY <1>1 DEF PhoneSplits
<1>3. NTrain \in Nat /\ NCalibration \in Nat /\ NTest \in Nat
  BY DataAssumption
<1>4. IsFiniteSet(pool) /\ n \in Nat
  BY <1>1, FS_Subset, FS_CardinalityType DEF Clean, OfLabel
<1>5. /\ train \subseteq pool /\ IsFiniteSet(train) /\ Cardinality(train) = Smaller(NTrain, n)
      /\ Cardinality(train) \in Nat
  BY <1>1, <1>2, <1>3, <1>4, TakeSize
<1>6. PICK rest : rest = pool \ train
  OBVIOUS
<1>7. IsFiniteSet(rest) /\ Cardinality(rest) = n - Cardinality(train) /\ Cardinality(rest) \in Nat
  BY <1>1, <1>4, <1>5, <1>6, RestSize, FS_CardinalityType
<1>8. /\ cal \subseteq rest /\ IsFiniteSet(cal) /\ Cardinality(cal) \in Nat
      /\ Cardinality(cal) = Smaller(NCalibration, Cardinality(rest))
  BY <1>2, <1>3, <1>6, <1>7, TakeSize
<1>9. PICK last : last = rest \ cal
  OBVIOUS
<1>10. IsFiniteSet(last) /\ Cardinality(last) = Cardinality(rest) - Cardinality(cal)
       /\ Cardinality(last) \in Nat
  BY <1>7, <1>8, <1>9, RestSize, FS_CardinalityType
<1>11. Cardinality(test) = Smaller(NTest, Cardinality(last)) /\ test \subseteq last
  BY <1>2, <1>3, <1>6, <1>9, <1>10, TakeSize
<1>12. n >= NTrain + NCalibration + NTest => Cardinality(cal) = NCalibration /\ Cardinality(test) = NTest
  BY <1>3, <1>4, <1>5, <1>7, <1>8, <1>10, <1>11 DEF Smaller
<1>13. n <= NTrain => cal = {} /\ test = {}
  <2> SUFFICES ASSUME n <= NTrain PROVE cal = {} /\ test = {}
    OBVIOUS
  <2>1. Cardinality(rest) = 0
    BY <1>3, <1>4, <1>5, <1>7 DEF Smaller
  <2>2. rest = {}
    BY <1>7, <2>1, FS_EmptySet
  <2> QED BY <1>8, <1>9, <1>11, <2>2
<1> QED BY <1>1, <1>5, <1>12, <1>13, SplitsDisjoint

-----------------------------------------------------------------------------
(* The trainers.                                                            *)

\* train_combined_routing.py, weighted_mix, "The larger source is kept in full; the
\* smaller is sampled": no weights make it sample.  A source is kept in full, or it is
\* left out because its weight leaves it less than a row.
THEOREM MixKeepsOrDrops ==
    ASSUME NEW phone, IsFiniteSet(phone), NEW general, IsFiniteSet(general),
           NEW pw \in Nat \X (Nat \ {0}), NEW gw \in Nat \X (Nat \ {0})
    PROVE  WeightedMix(phone, general, pw, gw) =
              { (IF RoundDiv(Cardinality(phone) * pw[1], pw[2]) = 0 THEN {} ELSE phone)
                \cup (IF RoundDiv(Cardinality(general) * gw[1], gw[2]) = 0 THEN {} ELSE general) }
<1>1. ASSUME NEW rows, IsFiniteSet(rows), NEW target \in Nat, NEW most \in Nat, target <= most
      PROVE  Kept(rows, target, most) = {IF target = 0 THEN {} ELSE rows}
  <2>1. PICK n : n = Cardinality(rows)
    OBVIOUS
  <2>2. n \in Nat
    BY <1>1, <2>1, FS_CardinalityType
  <2>3. Take(rows, 0) = {{}}
    <3>1. Smaller(0, n) = 0
      BY <2>2 DEF Smaller
    <3>2. \A S \in SUBSET rows : Cardinality(S) = 0 <=> S = {}
      BY <1>1, FS_Subset, FS_EmptySet
    <3> QED BY <2>1, <3>1, <3>2 DEF Take
  <2>4. Take(rows, n) = {rows}
    <3>1. Smaller(n, n) = n
      BY DEF Smaller
    <3>2. \A S \in SUBSET rows : Cardinality(S) = n <=> S = rows
      BY <1>1, <2>1, FS_Subset
    <3> QED BY <2>1, <3>1, <3>2 DEF Take
  <2>5. CASE target = 0
    BY <2>3, <2>5 DEF Kept
  <2>6. CASE target # 0
    <3>1. Smaller(most, target) = target
      BY <1>1 DEF Smaller
    <3>2. RoundDiv(n * target, target) = n
      BY <2>2, <2>6, RoundedExact
    <3>3. Smaller(n, n) = n
      BY DEF Smaller
    <3>4. Kept(rows, target, most) = Take(rows, n)
      BY <2>1, <2>6, <3>1, <3>2, <3>3 DEF Kept
    <3> QED BY <2>4, <2>6, <3>4
  <2> QED BY <2>5, <2>6
<1>2. PICK p, g, most :
         /\ p = RoundDiv(Cardinality(phone) * pw[1], pw[2])
         /\ g = RoundDiv(Cardinality(general) * gw[1], gw[2])
         /\ most = Larger(p, g)
  OBVIOUS
<1>3. p \in Nat /\ g \in Nat
  <2>1. ASSUME NEW rows, IsFiniteSet(rows), NEW w \in Nat \X (Nat \ {0})
        PROVE  RoundDiv(Cardinality(rows) * w[1], w[2]) \in Nat
    <3>1. Cardinality(rows) \in Nat /\ w[1] \in Nat /\ w[2] \in Nat \ {0}
      BY <2>1, FS_CardinalityType
    <3>2. Cardinality(rows) * w[1] \in Nat
      BY <3>1
    <3> QED BY <3>1, <3>2, Rounded
  <2> QED BY <1>2, <2>1
<1>4. most \in Nat /\ p <= most /\ g <= most
  BY <1>2, <1>3 DEF Larger
<1>5. /\ Kept(phone, p, most) = {IF p = 0 THEN {} ELSE phone}
      /\ Kept(general, g, most) = {IF g = 0 THEN {} ELSE general}
  BY <1>1, <1>3, <1>4
<1>6. WeightedMix(phone, general, pw, gw) =
         {a \cup b : a \in Kept(phone, p, most), b \in Kept(general, g, most)}
  BY <1>2 DEF WeightedMix
<1> QED BY <1>2, <1>5, <1>6

\* An even part of the rows: no more of a route than `each`, and as many where there are.
LEMMA EvenPart ==
    ASSUME NEW rows, IsFiniteSet(rows), NEW v \in SUBSET rows, NEW each \in Nat,
           \A l \in Labels(rows) : OfLabel(v, l) \in Take(OfLabel(rows, l), each)
    PROVE  /\ IsFiniteSet(v) /\ Cardinality(v) \in Nat
           /\ Cardinality(v) <= Cardinality(Labels(rows)) * each
           /\ (\A l \in Labels(rows) : Cardinality(OfLabel(rows, l)) >= each) =>
                 Cardinality(v) = Cardinality(Labels(rows)) * each
<1>1. IsFiniteSet(v) /\ Cardinality(v) \in Nat
  BY FS_Subset, FS_CardinalityType
<1>2. IsFiniteSet(Labels(rows)) /\ \A r \in v : LabelOf[r] \in Labels(rows)
  BY LabelsOfFinite DEF Labels
<1>3. \A l : ClassOf(v, LabelOf, l) = OfLabel(v, l)
  BY DEF ClassOf, OfLabel
<1>4. \A l \in Labels(rows) :
         /\ Cardinality(ClassOf(v, LabelOf, l)) <= each
         /\ each <= Cardinality(OfLabel(rows, l)) => Cardinality(ClassOf(v, LabelOf, l)) = each
  BY <1>3, LabelsOfFinite, TakeSize
<1>5. Cardinality(v) <= Cardinality(Labels(rows)) * each
  BY <1>1, <1>2, <1>4, ClassesOfSizeAtMost
<1>6. ASSUME \A l \in Labels(rows) : Cardinality(OfLabel(rows, l)) >= each
      PROVE  Cardinality(v) = Cardinality(Labels(rows)) * each
  <2>1. \A l \in Labels(rows) : each <= Cardinality(OfLabel(rows, l))
    BY <1>6, LabelsOfFinite
  <2>2. \A l \in Labels(rows) : Cardinality(ClassOf(v, LabelOf, l)) = each
    BY <1>4, <2>1
  <2> QED BY <1>1, <1>2, <2>2, ClassesOfOneSize
<1> QED BY <1>1, <1>5, <1>6

\* An even share of every route is within the whole.
LEMMA EvenShare ==
    ASSUME NEW rows, IsFiniteSet(rows), rows # {}, NEW size \in Nat,
           NEW k, k = Cardinality(Labels(rows)), NEW each, each = size \div k
    PROVE  /\ k \in Nat \ {0} /\ each \in Nat /\ k * each \in Nat
           /\ k * each <= size /\ size < k * each + k
<1>1. Labels(rows) # {}
  BY DEF Labels
<1>2. k \in Nat \ {0}
  BY <1>1, LabelsOfFinite, FS_EmptySet
<1>3. PICK r : r = size % k
  OBVIOUS
<1>4. each \in Nat /\ r \in 0 .. k - 1 /\ size = k * each + r
  BY <1>2, <1>3, Remainder
<1>5. k * each \in Nat
  BY <1>2, <1>4
<1> QED BY <1>2, <1>4, <1>5

\* train_phone_routing.py, carve_validation: the validation rows are never more than was
\* asked for, and exactly as many when every route can give its even share; then each
\* route has its share at least.
THEOREM CarvesExactly ==
    ASSUME NEW rows, IsFiniteSet(rows), rows # {}, NEW size \in Nat, NEW v \in CarvePhone(rows, size)
    PROVE  /\ v \subseteq rows /\ Cardinality(v) <= size
           /\ (/\ size <= Cardinality(rows)
               /\ \A l \in Labels(rows) :
                     Cardinality(OfLabel(rows, l)) >= size \div Cardinality(Labels(rows))) =>
                 /\ Cardinality(v) = size
                 /\ \A l \in Labels(rows) :
                       Cardinality(OfLabel(v, l)) >= size \div Cardinality(Labels(rows))
<1>1. PICK k, each : k = Cardinality(Labels(rows)) /\ each = size \div k
  OBVIOUS
<1>2. /\ k \in Nat \ {0} /\ each \in Nat /\ k * each \in Nat /\ k * each <= size
      /\ k * each = each * k
  BY <1>1, EvenShare
<1>3. PICK even \in SUBSET v :
         /\ \A l \in Labels(rows) : OfLabel(even, l) \in Take(OfLabel(rows, l), each)
         /\ v \ even \in Take(rows \ even, size - each * k)
  BY <1>1 DEF CarvePhone
<1>4. v \subseteq rows /\ even \subseteq rows
  BY DEF CarvePhone
<1>5. /\ IsFiniteSet(even) /\ Cardinality(even) \in Nat /\ Cardinality(even) <= k * each
      /\ (\A l \in Labels(rows) : Cardinality(OfLabel(rows, l)) >= each) => Cardinality(even) = k * each
  BY <1>1, <1>2, <1>3, <1>4, EvenPart
<1>6. IsFiniteSet(v) /\ Cardinality(v) \in Nat /\ Cardinality(rows) \in Nat
  BY <1>4, FS_Subset, FS_CardinalityType
<1>7. /\ IsFiniteSet(rows \ even) /\ Cardinality(rows \ even) = Cardinality(rows) - Cardinality(even)
      /\ Cardinality(rows \ even) \in Nat
  BY <1>4, RestSize, FS_CardinalityType
<1>8. Cardinality(v \ even) = Cardinality(v) - Cardinality(even)
  BY <1>6, RestSize
<1>9. PICK extra : extra = size - each * k
  OBVIOUS
<1>10. extra \in Nat
  BY <1>2, <1>9
<1>11. /\ Cardinality(v \ even) <= extra
       /\ extra <= Cardinality(rows \ even) => Cardinality(v \ even) = extra
  BY <1>3, <1>7, <1>9, <1>10, TakeSize
<1>12. Cardinality(v) <= size
  BY <1>2, <1>5, <1>6, <1>8, <1>9, <1>11
<1>13. ASSUME size <= Cardinality(rows), \A l \in Labels(rows) : Cardinality(OfLabel(rows, l)) >= each
       PROVE  /\ Cardinality(v) = size
              /\ \A l \in Labels(rows) : Cardinality(OfLabel(v, l)) >= each
  <2>1. Cardinality(even) = k * each
    BY <1>5, <1>13
  <2>2. Cardinality(v) = size
    BY <1>2, <1>6, <1>7, <1>8, <1>9, <1>11, <1>13, <2>1
  <2>3. ASSUME NEW l \in Labels(rows) PROVE Cardinality(OfLabel(v, l)) >= each
    <3>1. /\ IsFiniteSet(OfLabel(v, l)) /\ Cardinality(OfLabel(v, l)) \in Nat
          /\ IsFiniteSet(OfLabel(rows, l)) /\ Cardinality(OfLabel(rows, l)) \in Nat
      BY <1>6, LabelsOfFinite
    <3>2. OfLabel(even, l) \subseteq OfLabel(v, l)
      BY DEF OfLabel
    <3>3. each <= Cardinality(OfLabel(rows, l))
      BY <1>2, <1>13, <3>1
    <3>4. Cardinality(OfLabel(even, l)) = each
      BY <1>2, <1>3, <3>1, <3>3, TakeSize
    <3>5. Cardinality(OfLabel(even, l)) <= Cardinality(OfLabel(v, l))
      BY <3>1, <3>2, FS_Subset
    <3> QED BY <1>2, <3>1, <3>4, <3>5
  <2> QED BY <2>2, <2>3
<1> QED BY <1>1, <1>4, <1>12, <1>13

\* train_combined_routing.py, carve_validation: the rest of the division is not drawn;
\* the validation rows fall short of what was asked for by fewer than there are routes.
THEOREM CarvesEvenly ==
    ASSUME NEW rows, IsFiniteSet(rows), rows # {}, NEW size \in Nat, NEW v \in CarveEvenly(rows, size)
    PROVE  /\ v \subseteq rows /\ Cardinality(v) <= size
           /\ (\A l \in Labels(rows) :
                  Cardinality(OfLabel(rows, l)) >= size \div Cardinality(Labels(rows))) =>
                 size - Cardinality(v) \in 0 .. Cardinality(Labels(rows)) - 1
<1>1. PICK k, each : k = Cardinality(Labels(rows)) /\ each = size \div k
  OBVIOUS
<1>2. /\ k \in Nat \ {0} /\ k * each \in Nat /\ each \in Nat
      /\ k * each <= size /\ size < k * each + k
  BY <1>1, EvenShare
<1>3. v \in SUBSET rows /\ \A l \in Labels(rows) : OfLabel(v, l) \in Take(OfLabel(rows, l), each)
  BY <1>1 DEF CarveEvenly
<1>4. /\ Cardinality(v) \in Nat /\ Cardinality(v) <= k * each
      /\ (\A l \in Labels(rows) : Cardinality(OfLabel(rows, l)) >= each) => Cardinality(v) = k * each
  BY <1>1, <1>2, <1>3, EvenPart
<1> QED BY <1>1, <1>2, <1>3, <1>4
=============================================================================
