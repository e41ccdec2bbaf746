------------------------------ MODULE Counting ------------------------------
(***************************************************************************)
(* Lemmas about finite sets that the theorems of other modules count with. *)
(* Induction over data is an argument from the smallest counterexample:    *)
(* among finite sets one is smallest, among natural numbers one is least.  *)
(***************************************************************************)
EXTENDS Integers, FiniteSets, FiniteSetTheorems, WellFoundedInduction, TLAPS

\* Of finite sets, one contains no other.
LEMMA SmallestSet ==
    ASSUME NEW S, NEW F, F # {}, \A A \in F : A \in SUBSET S /\ IsFiniteSet(A)
    PROVE  \E A \in F : \A B \in F : B \subseteq A => B = A
<1>1. IsWellFoundedOn(StrictSubsetOrdering(S), FiniteSubsetsOf(S))
  BY FS_StrictSubsetOrderingWellFounded
<1>2. F \subseteq FiniteSubsetsOf(S)
  BY DEF FiniteSubsetsOf
<1>3. PICK A \in F : \A B \in F : ~ (<<B, A>> \in StrictSubsetOrdering(S))
  BY <1>1, <1>2, WFMin
<1>4. \A B \in F : B \subseteq A => B = A
  BY <1>3 DEF StrictSubsetOrdering
<1> QED BY <1>4

\* A set of natural numbers has a least member.
LEMMA LeastNatural ==
    ASSUME NEW T \in SUBSET Nat, T # {}
    PROVE  \E n \in T : \A m \in T : n <= m
<1> DEFINE F == {0 .. n : n \in T}
<1>1. F # {} /\ \A A \in F : A \in SUBSET Nat
  <2>1. \A n \in T : 0 .. n \in SUBSET Nat
    OBVIOUS
  <2>2. PICK n \in T : TRUE
    OBVIOUS
  <2>3. 0 .. n \in F
    OBVIOUS
  <2> QED BY <2>1, <2>3
<1>2. \A A \in F : IsFiniteSet(A)
  <2>1. \A n \in T : IsFiniteSet(0 .. n)
    BY FS_Interval
  <2> QED BY <2>1
<1>3. PICK A \in F : \A B \in F : B \subseteq A => B = A
  <2>1. \A A \in F : A \in SUBSET Nat /\ IsFiniteSet(A)
    BY <1>1, <1>2
  <2> HIDE DEF F
  <2> QED BY <1>1, <2>1, SmallestSet
<1>4. PICK n \in T : A = 0 .. n
  BY <1>3
<1>5. ASSUME NEW m \in T, ~ (n <= m) PROVE FALSE
  <2>1. 0 .. m \in F
    OBVIOUS
  <2>2. 0 .. m \subseteq 0 .. n /\ n \in 0 .. n /\ n \notin 0 .. m
    BY <1>5
  <2> QED BY <1>3, <1>4, <2>1, <2>2
<1> QED BY <1>5

-----------------------------------------------------------------------------
(* A finite set and its classes: c[x] is the class of x.                    *)

ClassOf(S, c, k) == {x \in S : c[x] = k}

\* As many places in each class as it has members.
Places(S, c, K) == {p \in K \X Nat : p[2] \in 1 .. Cardinality(ClassOf(S, c, p[1]))}

\* The place of a new member.
NextPlace(S, c, a) == <<c[a], Cardinality(ClassOf(S, c, c[a])) + 1>>

\* One member more fills one place more.
LEMMA OnePlaceMore ==
    ASSUME NEW S, IsFiniteSet(S), NEW c, NEW K, NEW a, a \notin S, c[a] \in K
    PROVE  /\ Places(S \cup {a}, c, K) = Places(S, c, K) \cup {NextPlace(S, c, a)}
           /\ NextPlace(S, c, a) \notin Places(S, c, K)
<1> DEFINE T == S \cup {a}
           n == Cardinality(ClassOf(S, c, c[a])) + 1
<1>1. \A k : IsFiniteSet(ClassOf(S, c, k)) /\ Cardinality(ClassOf(S, c, k)) \in Nat
  BY FS_Subset, FS_CardinalityType DEF ClassOf
<1>2. \A k : k # c[a] => ClassOf(T, c, k) = ClassOf(S, c, k)
  BY DEF ClassOf
<1>3. ClassOf(T, c, c[a]) = ClassOf(S, c, c[a]) \cup {a} /\ a \notin ClassOf(S, c, c[a])
  BY DEF ClassOf
<1>4. n \in Nat /\ Cardinality(ClassOf(T, c, c[a])) = n
  <2>1. Cardinality(ClassOf(S, c, c[a]) \cup {a}) = n
    BY <1>1, <1>3, FS_AddElement
  <2>2. n \in Nat
    BY <1>1
  <2> QED BY <1>3, <2>1, <2>2
<1>5. ASSUME NEW k, NEW m \in Nat
      PROVE  m \in 1 .. Cardinality(ClassOf(T, c, k)) <=>
                m \in 1 .. Cardinality(ClassOf(S, c, k)) \/ (k = c[a] /\ m = n)
  <2>1. CASE k = c[a]
    BY <1>1, <1>4, <2>1
  <2>2. CASE k # c[a]
    BY <1>2, <2>2
  <2> QED BY <2>1, <2>2
<1>6. Places(T, c, K) = Places(S, c, K) \cup {<<c[a], n>>}
  BY <1>4, <1>5 DEF Places
<1>7. <<c[a], n>> \notin Places(S, c, K)
  BY <1>1 DEF Places
<1> QED BY <1>6, <1>7 DEF NextPlace

\* There are as many places as members.
LEMMA PlacesAreMembers ==
    ASSUME NEW S, IsFiniteSet(S), NEW c, NEW K, \A x \in S : c[x] \in K
    PROVE  IsFiniteSet(Places(S, c, K)) /\ Cardinality(Places(S, c, K)) = Cardinality(S)
<1> DEFINE Agree(A) == IsFiniteSet(Places(A, c, K)) /\ Cardinality(Places(A, c, K)) = Cardinality(A)
           F == {A \in SUBSET S : ~Agree(A)}
<1>1. SUFFICES ASSUME F # {} PROVE FALSE
  OBVIOUS
<1>2. \A A \in F : A \in SUBSET S /\ IsFiniteSet(A)
  BY FS_Subset
<1>3. PICK A \in F : \A B \in F : B \subseteq A => B = A
  <2>1. F # {}
    BY <1>1
  <2> HIDE DEF F
  <2> QED BY <1>2, <2>1, SmallestSet
<1>4. A # {}
  <2>1. SUFFICES ASSUME A = {} PROVE FALSE
    OBVIOUS
  <2>2. \A k : ClassOf(A, c, k) = {}
    BY <2>1 DEF ClassOf
  <2>3. Places(A, c, K) = {}
    BY <2>2, FS_EmptySet DEF Places
  <2> QED BY <2>1, <2>3, FS_EmptySet
<1>5. PICK a \in A : TRUE
  BY <1>4
<1>6. PICK B \in SUBSET S :
        A = B \cup {a} /\ a \notin B /\ IsFiniteSet(B) /\ B \subseteq A /\ B # A
  <2> WITNESS A \ {a} \in SUBSET S
  <2> QED BY <1>2, <1>5, FS_RemoveElement
<1>7. Agree(B)
  BY <1>3, <1>6
<1> DEFINE new == NextPlace(B, c, a)
<1>8. Places(B \cup {a}, c, K) = Places(B, c, K) \cup {new} /\ new \notin Places(B, c, K)
  <2>1. c[a] \in K
    OBVIOUS
  <2> QED BY <1>6, <2>1, OnePlaceMore
<1>9. Agree(A)
  <2> HIDE DEF new
  <2>1. Cardinality(B \cup {a}) = Cardinality(B) + 1
    BY <1>6, FS_AddElement
  <2>2. /\ IsFiniteSet(Places(B, c, K) \cup {new})
        /\ Cardinality(Places(B, c, K) \cup {new}) = Cardinality(Places(B, c, K)) + 1
    BY <1>7, <1>8, FS_AddElement
  <2> QED BY <1>6, <1>7, <1>8, <2>1, <2>2
<1> QED BY <1>9

\* Classes of one size: the set has as many members as a rectangle of that size.
LEMMA ClassesOfOneSize ==
    ASSUME NEW S, IsFiniteSet(S), NEW c, NEW K, IsFiniteSet(K), NEW n \in Nat,
           \A x \in S : c[x] \in K,
           \A k \in K : Cardinality(ClassOf(S, c, k)) = n
    PROVE  Cardinality(S) = Cardinality(K) * n
<1>1. Places(S, c, K) = K \X (1 .. n)
  BY DEF Places
<1>2. IsFiniteSet(1 .. n) /\ Cardinality(1 .. n) = n
  BY FS_Interval
<1>3. Cardinality(K \X (1 .. n)) = Cardinality(K) * n
  BY <1>2, FS_Product
<1>4. Cardinality(Places(S, c, K)) = Cardinality(S)
  BY PlacesAreMembers
<1> QED BY <1>1, <1>3, <1>4

\* Classes of no more than some size: the set has no more members than the rectangle.
LEMMA ClassesOfSizeAtMost ==
    ASSUME NEW S, IsFiniteSet(S), NEW c, NEW K, IsFiniteSet(K), NEW n \in Nat,
           \A x \in S : c[x] \in K,
           \A k \in K : Cardinality(ClassOf(S, c, k)) <= n
    PROVE  Cardinality(S) <= Cardinality(K) * n
<1>1. \A k \in K : Cardinality(ClassOf(S, c, k)) \in Nat
  BY FS_Subset, FS_CardinalityType DEF ClassOf
<1>2. Places(S, c, K) \subseteq K \X (1 .. n)
  BY <1>1 DEF Places
<1>3. IsFiniteSet(1 .. n) /\ Cardinality(1 .. n) = n
  BY FS_Interval
<1>4. IsFiniteSet(K \X (1 .. n)) /\ Cardinality(K \X (1 .. n)) = Cardinality(K) * n
  BY <1>3, FS_Product
<1>5. Cardinality(Places(S, c, K)) <= Cardinality(K \X (1 .. n))
  BY <1>2, <1>4, FS_Subset
<1>6. Cardinality(Places(S, c, K)) = Cardinality(S)
  BY PlacesAreMembers
<1> QED BY <1>4, <1>5, <1>6
=============================================================================
