------------------------- MODULE LruSimulatorProofs -------------------------
(***************************************************************************)
(* Theorems about LruSimulator, for every set of experts, every capacity   *)
(* and every trace.                                                        *)
(*                                                                         *)
(* CacheInv, which is inductive, says of the cache of each capacity that   *)
(* the order is the one of the last uses, that the members are the ones    *)
(* used last, and that the cache is full unless it holds all that was      *)
(* used.  RecentInv, ScoresInv and RepeatsInv follow the predictors        *)
(* through a record.                                                       *)
(***************************************************************************)
EXTENDS LruSimulator, Counting, SequenceTheorems, TLAPS

-----------------------------------------------------------------------------
(* The slices of a tensor.                                                  *)

LEMMA Quotient ==
    ASSUME NEW x \in Nat, NEW e \in Nat \ {0}
    PROVE  /\ x \div e \in Nat /\ x % e \in 0 .. e - 1
           /\ x = e * (x \div e) + (x % e)
OBVIOUS

\* A factor that is not larger gives a product that is not larger.
LEMMA ProductGrows ==
    ASSUME NEW e \in Nat, NEW i \in Nat, NEW j \in Nat, i <= j PROVE e * i <= e * j
<1>1. PICK d \in Nat : j = i + d
  BY j - i \in Nat, j = i + (j - i)
<1>2. e * (i + d) = e * i + e * d /\ e * d \in Nat /\ e * i \in Nat
  OBVIOUS
<1> QED BY <1>1, <1>2

\* A tensor that divides is cut into slices that cover it once.
LEMMA DivisibleTiles ==
    ASSUME NEW t \in Tensor, Divisible(t)
    PROVE  Tiles(t, [id \in 0 .. NExpert - 1 |-> Slice(t, id)])
<1> DEFINE e == ExpertBytes(t)
           slices == [id \in 0 .. NExpert - 1 |-> Slice(t, id)]
<1>1. t.offset \in Nat /\ t.bytes \in Nat /\ NExpert \in Nat \ {0}
  BY NExpertAssumption DEF Tensor
<1>2. e \in Nat /\ t.bytes = NExpert * e
  <2>1. t.bytes % NExpert = 0
    BY DEF Divisible
  <2>2. t.bytes = NExpert * (t.bytes \div NExpert) + (t.bytes % NExpert)
        /\ t.bytes \div NExpert \in Nat
    BY <1>1, Quotient
  <2>3. NExpert * (t.bytes \div NExpert) \in Nat
    BY <1>1, <2>2
  <2> QED BY <2>1, <2>2, <2>3 DEF ExpertBytes
<1>3. \A id \in 0 .. NExpert - 1 :
         slices[id].offset = t.offset + id * e /\ slices[id].length = e
  BY DEF Slice
<1> HIDE DEF e
<1>4. \A id \in 0 .. NExpert - 1 : id * e = e * id /\ e * id \in Nat
  BY <1>1, <1>2
<1>5. ASSUME NEW b \in t.offset .. t.offset + t.bytes - 1
      PROVE  \E id \in 0 .. NExpert - 1 : InSlice(b, slices[id])
  <2> DEFINE x == b - t.offset
             q == x \div e
  <2>1. x \in Nat /\ b = t.offset + x /\ x < NExpert * e
    BY <1>1, <1>2
  <2>2. e # 0
    BY <1>1, <2>1
  <2>3. q \in Nat /\ x % e \in 0 .. e - 1 /\ x = e * q + (x % e)
    BY <1>2, <2>1, <2>2, Quotient
  <2> HIDE DEF x, q
  <2>4. q < NExpert
    <3> SUFFICES ASSUME NExpert <= q PROVE FALSE
      BY <1>1, <2>3
    <3>1. e * NExpert <= e * q
      BY <1>1, <1>2, <2>3, ProductGrows
    <3> DEFINE w == e * q
               a == NExpert * e
    <3>2. a <= w /\ w \in Nat /\ a \in Nat
      BY <1>1, <1>2, <2>3, <3>1
    <3>3. x < a /\ w <= x
      BY <2>1, <2>3, <3>2
    <3> HIDE DEF w, a
    <3> QED BY <2>1, <3>2, <3>3
  <2>5. q \in 0 .. NExpert - 1
    BY <1>1, <2>3, <2>4
  <2>6. slices[q].offset = t.offset + e * q /\ slices[q].length = e
    BY <1>3, <1>4, <2>5
  <2>7. InSlice(b, slices[q])
    BY <1>1, <1>2, <1>4, <2>1, <2>3, <2>5, <2>6 DEF InSlice
  <2> QED BY <2>5, <2>7
<1>6. ASSUME NEW id \in 0 .. NExpert - 1,
             NEW b \in slices[id].offset .. slices[id].offset + slices[id].length - 1
      PROVE  /\ InTensor(b, t)
             /\ \A other \in 0 .. NExpert - 1 : InSlice(b, slices[other]) => other = id
  <2> DEFINE p == e * id
  <2>1. p \in Nat /\ slices[id].offset = t.offset + p /\ slices[id].length = e
    BY <1>3, <1>4
  <2>2. b \in Int /\ t.offset + p <= b /\ b < t.offset + p + e
    BY <1>1, <1>2, <2>1
  <2>3. p + e <= NExpert * e
    <3>1. e * (id + 1) <= e * NExpert
      BY <1>1, <1>2, ProductGrows
    <3>2. e * (id + 1) = p + e /\ e * NExpert = NExpert * e
      BY <1>1, <1>2
    <3> QED BY <3>1, <3>2
  <2>4. InTensor(b, t)
    BY <1>1, <1>2, <2>1, <2>2, <2>3 DEF InTensor
  <2>5. ASSUME NEW other \in 0 .. NExpert - 1, InSlice(b, slices[other]) PROVE other = id
    <3> DEFINE o == e * other
    <3>1. /\ o \in Nat /\ slices[other].offset = t.offset + o /\ slices[other].length = e
          /\ t.offset + o <= b /\ b < t.offset + o + e
      BY <1>3, <1>4, <2>5 DEF InSlice
    <3>2. ~(other + 1 <= id)
      <4> SUFFICES ASSUME other + 1 <= id PROVE FALSE
        OBVIOUS
      <4>1. e * (other + 1) <= p
        BY <1>1, <1>2, ProductGrows
      <4>2. e * (other + 1) = o + e
        BY <1>1, <1>2
      <4> HIDE DEF p, o
      <4> QED BY <1>1, <1>2, <2>1, <2>2, <3>1, <4>1, <4>2
    <3>3. ~(id + 1 <= other)
      <4> SUFFICES ASSUME id + 1 <= other PROVE FALSE
        OBVIOUS
      <4>1. e * (id + 1) <= o
        BY <1>1, <1>2, ProductGrows
      <4>2. e * (id + 1) = p + e
        BY <1>1, <1>2
      <4> HIDE DEF p, o
      <4> QED BY <1>1, <1>2, <2>1, <2>2, <3>1, <4>1, <4>2
    <3> QED BY <1>1, <3>2, <3>3
  <2> QED BY <2>4, <2>5
<1>7. DOMAIN slices = 0 .. NExpert - 1
  OBVIOUS
<1> HIDE DEF slices
<1>8. Tiles(t, slices)
  BY <1>5, <1>6, <1>7 DEF Tiles
<1> QED BY <1>8 DEF slices

\* The index of a file cuts every tensor of it into disjoint slices that leave no
\* byte out, and a file that cannot be cut has no index.
THEOREM SlicesDoTile == SimSpec => []SlicesTile
<1> DEFINE Indexed == /\ file \in Files
                      /\ index = IF Refused(file) THEN << >> ELSE Extract(file)
<1>1. SimInit => Indexed
  BY DEF SimInit
<1>2. Indexed /\ [SimNext]_simVars => Indexed'
  BY DEF SimNext, NextRecord, LookUp, Score, simVars
<1>3. Indexed => SlicesTile
  <2> SUFFICES ASSUME Indexed, ~Refused(file), NEW t \in file PROVE Tiles(t, index[t])
    BY DEF SlicesTile
  <2>1. t \in Tensor /\ Divisible(t)
    BY SimulatorAssumption DEF Refused
  <2>2. index[t] = [id \in 0 .. NExpert - 1 |-> Slice(t, id)]
    BY DEF Extract
  <2> QED BY <2>1, <2>2, DivisibleTiles
<1> QED BY <1>1, <1>2, <1>3, PTL DEF SimSpec

-----------------------------------------------------------------------------
(* The caches.                                                              *)

\* The order has the place of the last use of every expert that was used.
LastUses(order) ==
    \A e \in Used : /\ order[e] \in DOMAIN trace /\ trace[order[e]] = e
                    /\ \A j \in DOMAIN trace : trace[j] = e => j <= order[e]

Members(S, order, c) ==
    /\ S \subseteq Used
    /\ \A e \in S, f \in Used : order[f] > order[e] => f \in S
    /\ Cardinality(S) <= c
    /\ S # Used => Cardinality(S) = c

CacheInv ==
    /\ trace \in Seq(Expert)
    /\ held \in [Capacities -> SUBSET Expert]
    /\ place \in [Capacities -> [Expert -> Nat]]
    /\ record = << >> \/ record \in Records
    /\ \A c \in Capacities :
          LastUses(place[c]) /\ Members(held[c], place[c], c)

LEMMA InitCache == SimInit => CacheInv
<1> SUFFICES ASSUME SimInit PROVE CacheInv
  OBVIOUS
<1>1. trace = << >> /\ record = << >> /\ held = [c \in Capacities |-> {}]
      /\ place = [c \in Capacities |-> [e \in Expert |-> 0]]
  BY DEF SimInit
<1>2. trace \in Seq(Expert) /\ DOMAIN trace = {}
  BY <1>1, EmptySeq
<1>3. Used = {}
  BY <1>2 DEF Used
<1>4. \A c \in Capacities : LastUses(place[c])
  BY <1>3 DEF LastUses
<1>5. \A c \in Capacities : Members(held[c], place[c], c)
  BY <1>1, <1>3, FS_EmptySet, SimulatorAssumption DEF Members
<1> QED BY <1>1, <1>2, <1>4, <1>5 DEF CacheInv

\* The trace and the orders after an access.
LEMMA AccessOrder ==
    ASSUME CacheInv, NEW x \in Expert, trace' = Append(trace, x), NEW c \in Capacities,
           place'[c] = [place[c] EXCEPT ![x] = Len(trace) + 1]
    PROVE  /\ Used' = Used \cup {x}
           /\ Len(trace) \in Nat /\ place'[c][x] = Len(trace) + 1
           /\ \A f \in Used : f # x => place'[c][f] = place[c][f] /\ place[c][f] <= Len(trace)
           /\ \A f \in Used : place[c][f] \in Nat
           /\ LastUses(place[c])'
<1> DEFINE n == Len(trace)
<1>1. /\ trace \in Seq(Expert) /\ n \in Nat /\ DOMAIN trace = 1 .. n
      /\ trace' \in Seq(Expert) /\ DOMAIN trace' = 1 .. n + 1 /\ trace'[n + 1] = x
      /\ \A j \in 1 .. n : trace'[j] = trace[j]
  BY LenProperties, AppendProperties DEF CacheInv
<1>2. Used' = Used \cup {x}
  BY <1>1 DEF Used
<1>3. Used \subseteq Expert
  BY <1>1, ElementOfSeq DEF Used
<1>4. place[c] \in [Expert -> Nat] /\ LastUses(place[c])
  BY DEF CacheInv
<1>5. \A f \in Expert : place'[c][f] = IF f = x THEN n + 1 ELSE place[c][f]
  BY <1>4
<1>6. \A f \in Used : place[c][f] \in 1 .. n
  BY <1>1, <1>4 DEF LastUses
<1>7. ASSUME NEW e \in Used'
      PROVE  /\ place'[c][e] \in DOMAIN trace' /\ trace'[place'[c][e]] = e
             /\ \A j \in DOMAIN trace' : trace'[j] = e => j <= place'[c][e]
  <2>1. CASE e = x
    BY <1>1, <1>5, <2>1
  <2>2. CASE e # x
    <3>1. e \in Used /\ place'[c][e] = place[c][e] /\ place[c][e] \in 1 .. n
      BY <1>2, <1>3, <1>5, <1>6, <2>2
    <3> QED BY <1>1, <1>4, <2>2, <3>1 DEF LastUses
  <2> QED BY <2>1, <2>2
<1>8. LastUses(place[c])'
  BY <1>7 DEF LastUses
<1> QED BY <1>1, <1>2, <1>3, <1>5, <1>6, <1>8

\* Of any experts with a place in the order, one was used first.
LEMMA UsedFirst ==
    ASSUME NEW T, NEW order, T # {}, \A f \in T : order[f] \in Nat
    PROVE  \E z \in T : \A f \in T : order[z] <= order[f]
<1> DEFINE P == {order[f] : f \in T}
<1>1. P \in SUBSET Nat /\ P # {}
  OBVIOUS
<1>2. PICK n \in P : \A m \in P : n <= m
  <2> HIDE DEF P
  <2> QED BY <1>1, LeastNatural
<1> QED BY <1>2

\* The members after an access.
LEMMA AccessMembers ==
    ASSUME CacheInv, NEW x \in Expert, trace' = Append(trace, x), NEW c \in Capacities,
           place'[c] = [place[c] EXCEPT ![x] = Len(trace) + 1],
           held'[c] = AfterAccess(held[c], x, place'[c], c)
    PROVE  Members(held[c], place[c], c)' /\ held'[c] \subseteq Expert
<1> DEFINE n == Len(trace)
           S == held[c]
           old == place[c]
           new == place'[c]
<1>1. /\ Used' = Used \cup {x} /\ n \in Nat /\ new[x] = n + 1
      /\ \A f \in Used : f # x => new[f] = old[f] /\ old[f] <= n
      /\ \A f \in Used : old[f] \in Nat
  BY AccessOrder
<1>2. /\ S \subseteq Used /\ S \subseteq Expert
      /\ \A e \in S, f \in Used : old[f] > old[e] => f \in S
      /\ Cardinality(S) <= c /\ (S # Used => Cardinality(S) = c)
  BY DEF CacheInv, Members
<1>3. c \in Nat /\ IsFiniteSet(S) /\ Cardinality(S) \in Nat
  BY <1>2, SimulatorAssumption, FS_Subset, FS_CardinalityType
<1>4. CASE x \in S
  <2>1. held'[c] = S /\ Used' = Used
    BY <1>1, <1>2, <1>4 DEF AfterAccess
  <2>2. ASSUME NEW e \in S, NEW f \in Used, new[f] > new[e] PROVE f \in S
    <3>1. CASE f = x
      BY <1>4, <3>1
    <3>2. CASE f # x /\ e = x
      BY <1>1, <2>2, <3>2
    <3>3. CASE f # x /\ e # x
      BY <1>1, <1>2, <2>2, <3>3
    <3> QED BY <3>1, <3>2, <3>3
  <2> QED BY <1>2, <2>1, <2>2 DEF Members
<1>5. CASE x \notin S
  <2> DEFINE T == S \cup {x}
  <2>1. IsFiniteSet(T) /\ Cardinality(T) = Cardinality(S) + 1
    BY <1>3, <1>5, FS_AddElement
  <2>2. CASE Cardinality(T) <= c
    <3>1. held'[c] = T
      BY <1>3, <1>5, <2>1, <2>2 DEF AfterAccess
    <3>2. T = Used'
      BY <1>1, <1>2, <1>3, <2>1, <2>2
    <3> QED BY <1>2, <2>2, <3>1, <3>2 DEF Members
  <2>3. CASE ~(Cardinality(T) <= c)
    <3> DEFINE y == First(T, new)
    <3>1. held'[c] = T \ {y} /\ Cardinality(S) = c
      BY <1>2, <1>3, <1>5, <2>1, <2>3 DEF AfterAccess
    <3>2. y \in T /\ \A f \in T : new[y] <= new[f]
      <4>1. T # {} /\ \A f \in T : new[f] \in Nat
        BY <1>1, <1>2
      <4>2. \E z \in T : \A f \in T : new[z] <= new[f]
        <5> HIDE DEF T, new
        <5> QED BY <4>1, UsedFirst
      <4> QED BY <4>2 DEF First
    <3> HIDE DEF y
    <3>3. Cardinality(T \ {y}) = c /\ T \ {y} \subseteq Used'
      <4>1. Cardinality(T \ {y}) = Cardinality(T) - 1
        BY <2>1, <3>2, FS_RemoveElement
      <4> QED BY <1>1, <1>2, <1>3, <2>1, <3>1, <4>1
    <3>4. ASSUME NEW e \in T \ {y}, NEW f \in Used', new[f] > new[e] PROVE f \in T \ {y}
      <4>1. new[e] \in Nat /\ new[f] \in Nat /\ new[y] \in Nat
        BY <1>1, <1>2, <3>2
      <4>2. f # y
        BY <3>2, <3>4, <4>1
      <4>3. f \in T
        <5>1. CASE f = x
          BY <5>1
        <5>2. CASE f # x /\ e = x
          BY <1>1, <3>4, <5>2
        <5>3. CASE f # x /\ e # x
          BY <1>1, <1>2, <3>4, <5>3
        <5> QED BY <5>1, <5>2, <5>3
      <4> QED BY <4>2, <4>3
    <3>5. T \ {y} \subseteq Expert
      BY <1>2
    <3>6. Cardinality(T \ {y}) <= c
      BY <1>3, <3>3
    <3> HIDE DEF T
    <3> QED BY <3>1, <3>3, <3>4, <3>5, <3>6 DEF Members
  <2> QED BY <2>2, <2>3
<1> QED BY <1>4, <1>5

LEMMA NextCache == ASSUME CacheInv, [SimNext]_simVars PROVE CacheInv'
<1>1. CASE UNCHANGED simVars \/ Score \/ NextRecord
  <2>1. trace' = trace /\ held' = held /\ place' = place
    BY <1>1 DEF simVars, Score, NextRecord
  <2>2. record' = << >> \/ record' \in Records
    BY <1>1 DEF CacheInv, simVars, Score, NextRecord
  <2>3. Used' = Used
    BY <2>1 DEF Used
  <2>4. ASSUME NEW c \in Capacities
        PROVE  LastUses(place[c])' /\ Members(held[c], place[c], c)'
    BY <2>1, <2>3 DEF CacheInv, LastUses, Members
  <2> QED BY <2>1, <2>2, <2>4 DEF CacheInv
<1>2. CASE LookUp
  <2>1. record[pos] \in Expert
    <3>1. pos \in DOMAIN record /\ (record = << >> \/ record \in Records)
      BY <1>2 DEF LookUp, CacheInv
    <3>2. CASE record = << >>
      <4>1. DOMAIN record = {}
        BY <3>2
      <4> QED BY <3>1, <4>1
    <3>3. CASE record \in Records
      BY <3>1, <3>3 DEF Records
    <3> QED BY <3>1, <3>2, <3>3
  <2>2. PICK x \in Expert : x = record[pos]
    BY <2>1
  <2>3. /\ trace' = Append(trace, x) /\ record' = record
        /\ place' = [c \in Capacities |-> [place[c] EXCEPT ![x] = Len(trace) + 1]]
        /\ held' = [c \in Capacities |-> AfterAccess(held[c], x, place'[c], c)]
    BY <1>2, <2>2 DEF LookUp, MoveToEnd
  <2>4. trace \in Seq(Expert) /\ Len(trace) \in Nat /\ trace' \in Seq(Expert)
    BY <2>3, LenProperties, AppendProperties DEF CacheInv
  <2>5. ASSUME NEW c \in Capacities
        PROVE  /\ LastUses(place[c])' /\ Members(held[c], place[c], c)'
               /\ held'[c] \subseteq Expert
    <3>1. /\ place'[c] = [place[c] EXCEPT ![x] = Len(trace) + 1]
          /\ held'[c] = AfterAccess(held[c], x, place'[c], c)
      BY <2>3
    <3> QED BY <2>3, <3>1, AccessOrder, AccessMembers
  <2>6. place' \in [Capacities -> [Expert -> Nat]]
    BY <2>3, <2>4 DEF CacheInv
  <2>7. held' \in [Capacities -> SUBSET Expert]
    BY <2>3, <2>5
  <2>8. record' = << >> \/ record' \in Records
    BY <2>3 DEF CacheInv
  <2> QED BY <2>4, <2>5, <2>6, <2>7, <2>8 DEF CacheInv
<1> QED BY <1>1, <1>2 DEF SimNext

\* The experts of a layer are finitely many, so the ones used are, and their
\* cardinalities compare.
LEMMA UsedFinite ==
    ASSUME CacheInv
    PROVE  \A S \in SUBSET Used : IsFiniteSet(S) /\ Cardinality(S) \in Nat
<1>1. Used \subseteq Expert
  BY ElementOfSeq DEF CacheInv, Used
<1> QED BY <1>1, SimulatorAssumption, FS_Subset, FS_CardinalityType

\* The order of a capacity is the one of the last uses.
LEMMA OrderIsLastUse ==
    ASSUME CacheInv, NEW c \in Capacities, NEW e \in Used
    PROVE  LastUse(e) = place[c][e] /\ place[c][e] \in Nat
<1>1. /\ DOMAIN trace \subseteq Nat
      /\ place[c][e] \in DOMAIN trace /\ trace[place[c][e]] = e
      /\ \A j \in DOMAIN trace : trace[j] = e => j <= place[c][e]
  BY LenProperties DEF CacheInv, LastUses
<1>2. ASSUME NEW i \in DOMAIN trace, trace[i] = e, \A j \in DOMAIN trace : trace[j] = e => j <= i
      PROVE  i = place[c][e]
  BY <1>1, <1>2
<1> QED BY <1>1, <1>2 DEF LastUse

\* What is held is what the stack distance says.
LEMMA HeldByDistance == CacheInv => MostRecentHeld
<1> SUFFICES ASSUME CacheInv, NEW c \in Capacities
             PROVE  held[c] = {e \in Used : Cardinality(UsedSince(e)) < c}
  BY DEF MostRecentHeld
<1> DEFINE S == held[c]
<1>1. /\ S \subseteq Used
      /\ \A e \in S, f \in Used : place[c][f] > place[c][e] => f \in S
      /\ Cardinality(S) <= c /\ (S # Used => Cardinality(S) = c)
  BY DEF CacheInv, Members
<1>2. c \in Nat /\ IsFiniteSet(S) /\ Cardinality(S) \in Nat
  BY <1>1, UsedFinite, SimulatorAssumption
<1>3. ASSUME NEW e \in Used
      PROVE  /\ UsedSince(e) = {f \in Used : place[c][f] > place[c][e]}
             /\ Cardinality(UsedSince(e)) \in Nat /\ IsFiniteSet(UsedSince(e))
  <2>1. UsedSince(e) = {f \in Used : place[c][f] > place[c][e]}
    BY OrderIsLastUse DEF UsedSince
  <2> QED BY <2>1, UsedFinite
<1>4. ASSUME NEW e \in S PROVE Cardinality(UsedSince(e)) < c
  <2>1. place[c][e] \in Nat
    BY <1>1, OrderIsLastUse
  <2>2. UsedSince(e) \subseteq S \ {e}
    BY <1>1, <1>3, <2>1
  <2>3. IsFiniteSet(S \ {e}) /\ Cardinality(S \ {e}) = Cardinality(S) - 1
    BY <1>2, FS_RemoveElement
  <2>4. Cardinality(UsedSince(e)) <= Cardinality(S \ {e})
    BY <2>2, <2>3, FS_Subset
  <2> QED BY <1>1, <1>2, <1>3, <2>3, <2>4
<1>5. ASSUME NEW e \in Used, e \notin S PROVE ~(Cardinality(UsedSince(e)) < c)
  <2>1. Cardinality(S) = c
    BY <1>1, <1>5
  <2>2. S \subseteq UsedSince(e)
    <3> SUFFICES ASSUME NEW f \in S PROVE f \in UsedSince(e)
      OBVIOUS
    <3>1. /\ place[c][e] \in DOMAIN trace /\ trace[place[c][e]] = e
          /\ place[c][f] \in DOMAIN trace /\ trace[place[c][f]] = f
      BY <1>1 DEF CacheInv, LastUses
    <3>2. place[c][e] # place[c][f]
      BY <1>5, <3>1
    <3>3. place[c][e] \in Nat /\ place[c][f] \in Nat
      BY <1>1, OrderIsLastUse
    <3>4. ~(place[c][e] > place[c][f])
      BY <1>1, <1>5
    <3> QED BY <1>1, <1>3, <3>2, <3>3, <3>4
  <2>3. Cardinality(S) <= Cardinality(UsedSince(e))
    BY <1>3, <2>2, FS_Subset
  <2> QED BY <1>2, <1>3, <2>1, <2>3
<1> QED BY <1>1, <1>4, <1>5

\* What a capacity holds, a larger one holds.
LEMMA HeldGrows ==
    ASSUME CacheInv, NEW c \in Capacities, NEW d \in Capacities, c <= d
    PROVE  held[c] \subseteq held[d]
<1> SUFFICES ASSUME NEW e \in held[c] PROVE e \in held[d]
  OBVIOUS
<1>1. e \in Used /\ Cardinality(UsedSince(e)) < c
  BY HeldByDistance DEF MostRecentHeld
<1>2. Cardinality(UsedSince(e)) \in Nat
  BY UsedFinite DEF UsedSince
<1>3. Cardinality(UsedSince(e)) < d
  BY <1>1, <1>2, SimulatorAssumption
<1> QED BY <1>1, <1>3, HeldByDistance DEF MostRecentHeld

-----------------------------------------------------------------------------
(* The counters.                                                            *)

HitsInv ==
    /\ hits \in [Capacities -> Nat]
    /\ \A c, d \in Capacities : c <= d => hits[c] <= hits[d]

CountsInv ==
    /\ window \in Windows
    /\ predictedHits \in [Predictor -> Nat]
    /\ totalSelections \in Nat

LEMMA InitCounts == SimInit => HitsInv /\ CountsInv
<1> SUFFICES ASSUME SimInit PROVE HitsInv /\ CountsInv
  OBVIOUS
<1>1. HitsInv
  BY DEF SimInit, HitsInv
<1>2. CountsInv
  BY DEF SimInit, CountsInv
<1> QED BY <1>1, <1>2

LEMMA NextHits == ASSUME CacheInv, HitsInv, [SimNext]_simVars PROVE HitsInv'
<1>1. CASE UNCHANGED simVars \/ Score \/ NextRecord
  <2>1. hits' = hits
    BY <1>1 DEF simVars, Score, NextRecord
  <2> QED BY <2>1 DEF HitsInv
<1>2. CASE LookUp
  <2>1. PICK x : x = record[pos]
    OBVIOUS
  <2>2. hits' = [c \in Capacities |-> IF x \in held[c] THEN hits[c] + 1 ELSE hits[c]]
    BY <1>2, <2>1 DEF LookUp
  <2>3. hits' \in [Capacities -> Nat]
    BY <2>2 DEF HitsInv
  <2>4. ASSUME NEW c \in Capacities, NEW d \in Capacities, c <= d PROVE hits'[c] <= hits'[d]
    <3>1. held[c] \subseteq held[d]
      BY <2>4, HeldGrows
    <3>2. hits[c] \in Nat /\ hits[d] \in Nat /\ hits[c] <= hits[d]
      BY <2>4 DEF HitsInv
    <3> QED BY <2>2, <3>1, <3>2
  <2> QED BY <2>3, <2>4 DEF HitsInv
<1> QED BY <1>1, <1>2 DEF SimNext

LEMMA NextCounts == ASSUME CacheInv, CountsInv, [SimNext]_simVars PROVE CountsInv'
<1>1. window' = window
  BY DEF simVars, SimNext, NextRecord, LookUp, Score
<1>2. totalSelections' \in Nat
  <2>1. totalSelections' = totalSelections \/ totalSelections' = totalSelections + Width
    BY DEF simVars, SimNext, NextRecord, LookUp, Score
  <2> QED BY <2>1, SimulatorAssumption DEF CountsInv
<1>3. predictedHits' \in [Predictor -> Nat]
  <2>1. CASE predictedHits' = predictedHits
    BY <2>1 DEF CountsInv
  <2>2. CASE Score /\ history # << >>
    <3> DEFINE actual == {record[i] : i \in DOMAIN record}
    <3>1. record \in [1 .. Width -> Expert]
      BY <2>2 DEF Score, CacheInv, Records
    <3>2. \A S : Cardinality(S \cap actual) \in Nat
      <4> TAKE S
      <4>1. S \cap actual \subseteq Expert
        BY <3>1
      <4> QED BY <4>1, SimulatorAssumption, FS_Subset, FS_CardinalityType
    <3> HIDE DEF actual
    <3>3. \E all, last :
             predictedHits' =
                [predictedHits EXCEPT
                   !["previous_token"] = @ + Cardinality(history[Len(history)] \cap actual),
                   !["frequency_all"] = @ + Cardinality(all \cap actual),
                   !["last_n"] = @ + Cardinality(last \cap actual)]
      BY <2>2 DEF Score, actual
    <3>4. \E m, n, o \in Nat :
             predictedHits' =
                [predictedHits EXCEPT !["previous_token"] = @ + m, !["frequency_all"] = @ + n,
                                      !["last_n"] = @ + o]
      BY <3>2, <3>3
    <3> QED BY <3>4 DEF CountsInv, Predictor
  <2> QED BY <2>1, <2>2 DEF simVars, SimNext, NextRecord, LookUp, Score
<1> QED BY <1>1, <1>2, <1>3 DEF CountsInv

LEMMA SimInvariant == SimSpec => [](CacheInv /\ HitsInv /\ CountsInv)
<1>1. SimInit => CacheInv /\ HitsInv /\ CountsInv
  BY InitCache, InitCounts
<1>2. CacheInv /\ HitsInv /\ CountsInv /\ [SimNext]_simVars => (CacheInv /\ HitsInv /\ CountsInv)'
  BY NextCache, NextHits, NextCounts
<1> QED BY <1>1, <1>2, PTL DEF SimSpec

\* The types of the simulator's state, and the bound of each dict: an eviction takes
\* what the insertion before it added, for every capacity, zero included.
THEOREM SimulatorTypes == SimSpec => []SimTypeOK
<1>1. CacheInv /\ HitsInv /\ CountsInv => SimTypeOK
  BY DEF CacheInv, HitsInv, CountsInv, SimTypeOK, Members
<1> QED BY <1>1, SimInvariant, PTL

\* Moving an entry to the end, adding at the end and evicting the first makes the dict
\* the LRU stack of its capacity.
THEOREM HeldAreMostRecent == SimSpec => []MostRecentHeld
<1> QED BY SimInvariant, HeldByDistance, PTL

\* On every trace a larger cache holds what a smaller one does, and has its hits.
THEOREM LargerIsNoWorse == SimSpec => []LargerHoldsSmaller
<1>1. CacheInv /\ HitsInv => LargerHoldsSmaller
  BY HeldGrows DEF HitsInv, LargerHoldsSmaller
<1> QED BY <1>1, SimInvariant, PTL

-----------------------------------------------------------------------------
(* The predictors.                                                          *)

\* What the record has asked for so far, and the experts of the token before it.
Asked == {record[i] : i \in {j \in DOMAIN record : j < pos}}
Prev == IF history = << >> THEN {} ELSE history[Len(history)]

\* The experts of S are the ones used last.
Latest(S, order) ==
    /\ S \subseteq Used
    /\ \A e \in S, f \in Used : order[f] > order[e] => f \in S

RecentInv ==
    /\ history \in Seq(SUBSET Expert)
    /\ pos \in Nat
    /\ Prev \subseteq Expert /\ Cardinality(Prev) <= Width
    /\ \A c \in Capacities : Latest(Asked, place[c]) /\ Latest(Prev \cup Asked, place[c])

\* A token is counted when its record begins, and scored when the record ends.
ScoresInv ==
    \A p \in Predictor :
        predictedHits[p] + (IF history = << >> THEN 0 ELSE Width)
            + (IF record = << >> THEN 0 ELSE Width) <= totalSelections

RepeatsInv ==
    \A c \in Capacities :
        c >= 2 * Width - 1 =>
            predictedHits["previous_token"] + Cardinality(Prev \cap Asked) <= hits[c]

\* A token selects at most Width experts.
LEMMA SelectionSize ==
    ASSUME NEW r \in Records
    PROVE  LET actual == {r[i] : i \in DOMAIN r} IN
           /\ actual \subseteq Expert
           /\ \A T \in SUBSET actual :
                 IsFiniteSet(T) /\ Cardinality(T) \in Nat /\ Cardinality(T) <= Width
<1> DEFINE actual == {r[i] : i \in DOMAIN r}
<1>1. r \in [1 .. Width -> Expert] /\ Width \in Nat
  BY SimulatorAssumption DEF Records
<1>2. actual \subseteq Expert
  BY <1>1
<1>3. IsFiniteSet(actual)
  BY <1>2, SimulatorAssumption, FS_Subset
<1>4. Cardinality(actual) <= Width
  <2>1. r \in Surjection(1 .. Width, actual)
    BY <1>1 DEF Surjection
  <2>2. ExistsSurjection(1 .. Width, actual)
    BY <2>1 DEF ExistsSurjection
  <2> QED BY <1>1, <2>2, FS_SurjCardinalityBound
<1>5. Cardinality(actual) \in Nat
  BY <1>3, FS_CardinalityType
<1>6. ASSUME NEW T \in SUBSET actual
      PROVE  IsFiniteSet(T) /\ Cardinality(T) \in Nat /\ Cardinality(T) <= Width
  <2>1. IsFiniteSet(T) /\ Cardinality(T) <= Cardinality(actual)
    <3> HIDE DEF actual
    <3> QED BY <1>3, FS_Subset
  <2>2. Cardinality(T) \in Nat
    BY <2>1, FS_CardinalityType
  <2> QED BY <1>1, <1>4, <1>5, <2>1, <2>2
<1> QED BY <1>2, <1>6

\* An expert that is asked for joins the ones used last.
LEMMA LatestGrows ==
    ASSUME CacheInv, NEW x \in Expert, trace' = Append(trace, x), NEW c \in Capacities,
           place'[c] = [place[c] EXCEPT ![x] = Len(trace) + 1],
           NEW S, Latest(S, place[c])
    PROVE  /\ S \cup {x} \subseteq Used'
           /\ \A e \in S \cup {x}, f \in Used' : place'[c][f] > place'[c][e] => f \in S \cup {x}
<1> DEFINE n == Len(trace)
           old == place[c]
           new == place'[c]
<1>1. /\ Used' = Used \cup {x} /\ n \in Nat /\ new[x] = n + 1
      /\ \A f \in Used : f # x => new[f] = old[f] /\ old[f] <= n
      /\ \A f \in Used : old[f] \in Nat
  BY AccessOrder
<1>2. S \subseteq Used /\ \A e \in S, f \in Used : old[f] > old[e] => f \in S
  BY DEF Latest
<1> HIDE DEF n, old, new
<1>3. ASSUME NEW e \in S \cup {x}, NEW f \in Used', new[f] > new[e] PROVE f \in S \cup {x}
  <2>1. CASE f = x
    BY <2>1
  <2>2. CASE f # x /\ e = x
    BY <1>1, <1>3, <2>2
  <2>3. CASE f # x /\ e # x
    BY <1>1, <1>2, <1>3, <2>3
  <2> QED BY <2>1, <2>2, <2>3
<1> QED BY <1>1, <1>2, <1>3 DEF new

\* An expert that the previous token used, and that the record has not asked for, is in
\* every cache with room for the other experts of both.
LEMMA PreviousIsHeld ==
    ASSUME CacheInv, RecentInv, record \in Records, pos \in DOMAIN record,
           record[pos] \in Prev, record[pos] \notin Asked,
           NEW c \in Capacities, c >= 2 * Width - 1
    PROVE  record[pos] \in held[c]
<1>1. PICK e : e = record[pos]
  OBVIOUS
<1> DEFINE others == (Prev \ {e}) \cup Asked
           actual == {record[i] : i \in DOMAIN record}
<1>2. e \in Used /\ e \in Prev /\ Latest(Prev \cup Asked, place[c])
  BY <1>1 DEF RecentInv, Latest
<1>3. UsedSince(e) \subseteq others
  <2>1. ASSUME NEW f \in UsedSince(e) PROVE f \in others
    <3>1. f \in Used /\ place[c][f] > place[c][e]
      BY <1>2, OrderIsLastUse DEF UsedSince
    <3>2. f \in Prev \cup Asked
      BY <1>2, <3>1 DEF Latest
    <3>3. f # e
      <4>1. place[c][e] \in Nat
        BY <1>2, OrderIsLastUse
      <4> QED BY <3>1, <4>1
    <3> QED BY <3>2, <3>3
  <2> QED BY <2>1
<1>4. /\ IsFiniteSet(Prev \ {e}) /\ Cardinality(Prev \ {e}) \in Nat
      /\ Cardinality(Prev \ {e}) + 1 <= Width
  <2>1. IsFiniteSet(Prev) /\ Cardinality(Prev) \in Nat /\ Cardinality(Prev) <= Width
    BY SimulatorAssumption, FS_Subset, FS_CardinalityType DEF RecentInv
  <2>2. IsFiniteSet(Prev \ {e}) /\ Cardinality(Prev \ {e}) = Cardinality(Prev) - 1
    BY <1>2, <2>1, FS_RemoveElement
  <2>3. Cardinality(Prev \ {e}) \in Nat
    BY <2>2, FS_CardinalityType
  <2> QED BY <2>1, <2>2, <2>3, SimulatorAssumption
<1>5. IsFiniteSet(Asked) /\ Cardinality(Asked) \in Nat /\ Cardinality(Asked) + 1 <= Width
  <2>1. Asked \cup {e} \subseteq actual
    BY <1>1 DEF Asked
  <2>2. \A T \in SUBSET actual :
           IsFiniteSet(T) /\ Cardinality(T) \in Nat /\ Cardinality(T) <= Width
    BY SelectionSize
  <2> HIDE DEF actual
  <2>3. Asked \in SUBSET actual /\ Asked \cup {e} \in SUBSET actual
    BY <2>1
  <2>4. IsFiniteSet(Asked) /\ Cardinality(Asked) \in Nat /\ Cardinality(Asked \cup {e}) <= Width
    BY <2>2, <2>3
  <2>5. Cardinality(Asked \cup {e}) = Cardinality(Asked) + 1
    BY <1>1, <2>4, FS_AddElement
  <2> QED BY <2>4, <2>5
<1>6. IsFiniteSet(others) /\ Cardinality(others) \in Nat /\ Cardinality(others) < c
  <2>1. /\ IsFiniteSet(others)
        /\ Cardinality(others)
              = Cardinality(Prev \ {e}) + Cardinality(Asked) - Cardinality((Prev \ {e}) \cap Asked)
    BY <1>4, <1>5, FS_Union
  <2>2. Cardinality((Prev \ {e}) \cap Asked) \in Nat
    BY <1>4, FS_Intersection, FS_CardinalityType
  <2>3. Cardinality(others) \in Nat
    BY <2>1, FS_CardinalityType
  <2>4. c \in Nat /\ Width \in Nat
    BY SimulatorAssumption
  <2> HIDE DEF others
  <2> QED BY <1>4, <1>5, <2>1, <2>2, <2>3, <2>4
<1>7. Cardinality(UsedSince(e)) <= Cardinality(others) /\ Cardinality(UsedSince(e)) \in Nat
  <2> HIDE DEF others
  <2> QED BY <1>3, <1>6, FS_Subset, FS_CardinalityType
<1>8. Cardinality(UsedSince(e)) < c
  <2> HIDE DEF others
  <2> QED BY <1>6, <1>7, SimulatorAssumption
<1>9. held[c] = {d \in Used : Cardinality(UsedSince(d)) < c}
  BY HeldByDistance DEF MostRecentHeld
<1> QED BY <1>1, <1>2, <1>8, <1>9

LEMMA InitRecall == SimInit => RecentInv /\ ScoresInv /\ RepeatsInv
<1> SUFFICES ASSUME SimInit PROVE RecentInv /\ ScoresInv /\ RepeatsInv
  OBVIOUS
<1>1. /\ trace = << >> /\ record = << >> /\ pos = 1 /\ history = << >>
      /\ hits = [c \in Capacities |-> 0] /\ predictedHits = [p \in Predictor |-> 0]
      /\ totalSelections = 0
  BY DEF SimInit
<1>2. DOMAIN record = {}
  BY <1>1
<1>3. Asked = {} /\ Prev = {}
  BY <1>1, <1>2 DEF Asked, Prev
<1>4. Cardinality({}) = 0
  BY FS_EmptySet
<1>5. RecentInv
  BY <1>1, <1>3, <1>4, EmptySeq, SimulatorAssumption DEF RecentInv, Latest
<1>6. ScoresInv
  BY <1>1 DEF ScoresInv
<1>7. RepeatsInv
  <2>1. Prev \cap Asked = {}
    BY <1>3
  <2>2. \A c \in Capacities : predictedHits["previous_token"] = 0 /\ hits[c] = 0
    BY <1>1 DEF Predictor
  <2>3. Cardinality(Prev \cap Asked) = 0
    BY <1>4, <2>1
  <2> QED BY <2>2, <2>3 DEF RepeatsInv
<1> QED BY <1>5, <1>6, <1>7

\* What an access adds to the experts that were asked for.
LEMMA AskedGrows ==
    ASSUME RecentInv, record \in Records, pos \in DOMAIN record, record' = record,
           pos' = pos + 1, history' = history
    PROVE  Asked' = Asked \cup {record[pos]} /\ Prev' = Prev
<1>1. DOMAIN record = 1 .. Width /\ Width \in Nat
  BY SimulatorAssumption DEF Records
<1>2. \A j \in DOMAIN record : j < pos + 1 <=> j < pos \/ j = pos
  BY <1>1 DEF RecentInv
<1>3. Asked' = Asked \cup {record[pos]}
  BY <1>2 DEF Asked
<1>4. Prev' = Prev
  BY DEF Prev
<1> QED BY <1>3, <1>4

\* A record that is through has asked for all its experts, and leaves them behind.
LEMMA RecordEnds ==
    ASSUME CacheInv, RecentInv, Score
    PROVE  /\ record \in Records
           /\ Asked = {record[i] : i \in DOMAIN record}
           /\ Prev' = Asked /\ Asked' = {} /\ history' # << >>
           /\ history' \in Seq(SUBSET Expert)
<1> DEFINE actual == {record[i] : i \in DOMAIN record}
<1>1. record \in Records /\ record \in [1 .. Width -> Expert] /\ Width \in Nat
  BY SimulatorAssumption DEF Score, CacheInv, Records
<1>2. Len(record) = Width
  <2>1. record \in Seq(Expert)
    BY <1>1
  <2> QED BY <1>1, <2>1, LenProperties
<1>3. \A j \in DOMAIN record : j < pos
  BY <1>1, <1>2 DEF Score, RecentInv
<1>4. Asked = actual
  BY <1>3 DEF Asked
<1>5. record' = << >> /\ history' = Append(history, actual)
  BY DEF Score
<1>6. actual \in SUBSET Expert
  BY <1>1
<1>7. history' \in Seq(SUBSET Expert) /\ Len(history') = Len(history) + 1
      /\ Len(history) \in Nat /\ history'[Len(history) + 1] = actual
  <2> HIDE DEF actual
  <2> QED BY <1>5, <1>6, AppendProperties, LenProperties DEF RecentInv
<1>8. history' # << >>
  <2>1. Len(<< >>) = 0
    OBVIOUS
  <2> QED BY <1>7, <2>1
<1>9. Prev' = Asked
  BY <1>4, <1>7, <1>8 DEF Prev
<1>10. Asked' = {}
  <2>1. DOMAIN record' = {}
    BY <1>5
  <2> QED BY <2>1 DEF Asked
<1> QED BY <1>1, <1>4, <1>7, <1>8, <1>9, <1>10

LEMMA NextRecent == ASSUME CacheInv, RecentInv, [SimNext]_simVars PROVE RecentInv'
<1>1. CASE UNCHANGED simVars
  <2>1. Used' = Used /\ Asked' = Asked /\ Prev' = Prev
    BY <1>1 DEF simVars, Used, Asked, Prev
  <2> QED BY <1>1, <2>1 DEF simVars, RecentInv, Latest
<1>2. CASE NextRecord
  <2>1. record = << >> /\ pos' = 1 /\ trace' = trace /\ place' = place /\ history' = history
        /\ record' \in Records
    BY <1>2 DEF NextRecord
  <2>2. Used' = Used /\ Prev' = Prev
    BY <2>1 DEF Used, Prev
  <2>3. Asked' = {}
    <3>1. \A j \in DOMAIN record' : ~(j < 1)
      BY <2>1, SimulatorAssumption DEF Records
    <3> QED BY <2>1, <3>1 DEF Asked
  <2>4. Asked = {}
    <3>1. DOMAIN record = {}
      BY <2>1
    <3> QED BY <3>1 DEF Asked
  <2>5. Prev' \cup Asked' = Prev \cup Asked
    BY <2>2, <2>3, <2>4
  <2>6. ASSUME NEW c \in Capacities
        PROVE  Latest(Asked, place[c])' /\ Latest(Prev \cup Asked, place[c])'
    <3>1. Latest(Prev \cup Asked, place[c])
      BY DEF RecentInv
    <3> QED BY <2>1, <2>2, <2>3, <2>5, <3>1 DEF Latest
  <2> QED BY <2>1, <2>2, <2>6 DEF RecentInv
<1>3. CASE LookUp
  <2>1. record \in Records /\ pos \in DOMAIN record
    <3>1. pos \in DOMAIN record /\ (record = << >> \/ record \in Records)
      BY <1>3 DEF LookUp, CacheInv
    <3>2. record # << >>
      <4>1. DOMAIN << >> = {}
        OBVIOUS
      <4> QED BY <3>1, <4>1
    <3> QED BY <3>1, <3>2
  <2>2. PICK x \in Expert : x = record[pos]
    BY <2>1 DEF Records
  <2>3. /\ trace' = Append(trace, x) /\ record' = record /\ pos' = pos + 1
        /\ history' = history
        /\ place' = [c \in Capacities |-> [place[c] EXCEPT ![x] = Len(trace) + 1]]
    BY <1>3, <2>2 DEF LookUp, MoveToEnd
  <2>4. Asked' = Asked \cup {x} /\ Prev' = Prev
    BY <2>1, <2>2, <2>3, AskedGrows
  <2>5. ASSUME NEW c \in Capacities
        PROVE  Latest(Asked, place[c])' /\ Latest(Prev \cup Asked, place[c])'
    <3>1. place'[c] = [place[c] EXCEPT ![x] = Len(trace) + 1]
      BY <2>3
    <3>2. Latest(Asked, place[c]) /\ Latest(Prev \cup Asked, place[c])
      BY DEF RecentInv
    <3>3. /\ Asked \cup {x} \subseteq Used'
          /\ \A e \in Asked \cup {x}, f \in Used' :
                place'[c][f] > place'[c][e] => f \in Asked \cup {x}
      BY <2>3, <3>1, <3>2, LatestGrows
    <3>4. PICK S : S = Prev \cup Asked
      OBVIOUS
    <3>5. /\ S \cup {x} \subseteq Used'
          /\ \A e \in S \cup {x}, f \in Used' :
                place'[c][f] > place'[c][e] => f \in S \cup {x}
      <4>1. Latest(S, place[c])
        BY <3>2, <3>4
      <4> QED BY <2>3, <3>1, <4>1, LatestGrows
    <3>6. Prev' \cup Asked' = S \cup {x}
      BY <2>4, <3>4
    <3>7. Latest(Asked, place[c])'
      BY <2>4, <3>3 DEF Latest
    <3>8. Latest(Prev \cup Asked, place[c])'
      BY <3>5, <3>6 DEF Latest
    <3> QED BY <3>7, <3>8
  <2>6. pos' \in Nat /\ history' \in Seq(SUBSET Expert)
    BY <2>3 DEF RecentInv
  <2>7. Prev' \subseteq Expert /\ Cardinality(Prev') <= Width
    BY <2>4 DEF RecentInv
  <2> QED BY <2>5, <2>6, <2>7 DEF RecentInv
<1>4. CASE Score
  <2>1. /\ record \in Records /\ Asked = {record[i] : i \in DOMAIN record}
        /\ Prev' = Asked /\ Asked' = {} /\ history' \in Seq(SUBSET Expert)
    BY <1>4, RecordEnds
  <2>2. pos' = 1 /\ trace' = trace /\ place' = place
    BY <1>4 DEF Score
  <2>3. Asked \subseteq Expert /\ Cardinality(Asked) <= Width
    BY <2>1, SelectionSize
  <2>4. Used' = Used
    BY <2>2 DEF Used
  <2>5. ASSUME NEW c \in Capacities
        PROVE  Latest(Asked, place[c])' /\ Latest(Prev \cup Asked, place[c])'
    <3>1. Latest(Asked, place[c])
      BY DEF RecentInv
    <3>2. Prev' \cup Asked' = Asked
      BY <2>1
    <3> QED BY <2>1, <2>2, <2>4, <3>1, <3>2 DEF Latest
  <2> QED BY <2>1, <2>2, <2>3, <2>5 DEF RecentInv
<1> QED BY <1>1, <1>2, <1>3, <1>4 DEF SimNext

\* What a scored record adds to a predictor's hits: nothing for the first token, and
\* otherwise what was predicted of it.
LEMMA ScoreAdds ==
    ASSUME CacheInv, CountsInv, RecentInv, Score
    PROVE  /\ \A p \in Predictor :
                 /\ predictedHits'[p] \in Nat
                 /\ predictedHits'[p] <= predictedHits[p] + (IF history = << >> THEN 0 ELSE Width)
           /\ predictedHits'["previous_token"]
                 = predictedHits["previous_token"] + Cardinality(Prev \cap Asked)
<1>1. record \in Records /\ Asked = {record[i] : i \in DOMAIN record}
  BY RecordEnds
<1>2. \A S : Cardinality(S \cap Asked) \in Nat /\ Cardinality(S \cap Asked) <= Width
  <2> TAKE S
  <2>1. \A T \in SUBSET Asked : Cardinality(T) \in Nat /\ Cardinality(T) <= Width
    BY <1>1, SelectionSize
  <2>2. S \cap Asked \in SUBSET Asked
    OBVIOUS
  <2> QED BY <2>1, <2>2
<1>3. predictedHits \in [Predictor -> Nat] /\ Width \in Nat
  BY SimulatorAssumption DEF CountsInv
<1>4. CASE history = << >>
  <2>1. predictedHits' = predictedHits
    BY <1>4 DEF Score
  <2>2. Prev \cap Asked = {}
    BY <1>4 DEF Prev
  <2>3. Cardinality(Prev \cap Asked) = 0
    BY <2>2, FS_EmptySet
  <2> QED BY <1>3, <1>4, <2>1, <2>3 DEF Predictor
<1>5. CASE history # << >>
  <2>1. Prev = history[Len(history)]
    BY <1>5 DEF Prev
  <2>2. \E all, last :
           predictedHits' =
              [predictedHits EXCEPT
                 !["previous_token"] = @ + Cardinality(Prev \cap Asked),
                 !["frequency_all"] = @ + Cardinality(all \cap Asked),
                 !["last_n"] = @ + Cardinality(last \cap Asked)]
    BY <1>1, <1>5, <2>1 DEF Score
  <2>3. PICK m \in Nat : m = Cardinality(Prev \cap Asked) /\ m <= Width
    BY <1>2
  <2>4. \E n, o \in Nat :
           /\ n <= Width /\ o <= Width
           /\ predictedHits' =
                [predictedHits EXCEPT !["previous_token"] = @ + m, !["frequency_all"] = @ + n,
                                      !["last_n"] = @ + o]
    BY <1>2, <2>2, <2>3
  <2> QED BY <1>3, <1>5, <2>3, <2>4 DEF Predictor
<1> QED BY <1>4, <1>5

LEMMA NextScores ==
    ASSUME CacheInv, CountsInv, RecentInv, ScoresInv, [SimNext]_simVars
    PROVE  ScoresInv'
<1>1. predictedHits \in [Predictor -> Nat] /\ totalSelections \in Nat /\ Width \in Nat
  BY SimulatorAssumption DEF CountsInv
<1>2. CASE UNCHANGED simVars \/ LookUp
  <2>1. UNCHANGED <<predictedHits, history, record, totalSelections>>
    BY <1>2 DEF simVars, LookUp
  <2> QED BY <2>1 DEF ScoresInv
<1>3. CASE NextRecord
  <2>1. /\ predictedHits' = predictedHits /\ history' = history /\ record = << >>
        /\ totalSelections' = totalSelections + Width
    BY <1>3 DEF NextRecord
  <2> QED BY <1>1, <2>1 DEF ScoresInv
<1>4. CASE Score
  <2>1. record # << >> /\ record' = << >> /\ totalSelections' = totalSelections
    BY <1>4 DEF Score
  <2>2. history' # << >>
    BY <1>4, RecordEnds
  <2>3. ASSUME NEW p \in Predictor PROVE predictedHits'[p] + Width <= totalSelections
    <3>1. /\ predictedHits'[p] \in Nat
          /\ predictedHits'[p] <= predictedHits[p] + (IF history = << >> THEN 0 ELSE Width)
      BY <1>4, ScoreAdds
    <3>2. predictedHits[p] + (IF history = << >> THEN 0 ELSE Width) + Width <= totalSelections
      BY <2>1 DEF ScoresInv
    <3>3. predictedHits[p] \in Nat
      BY <1>1
    <3> QED BY <1>1, <3>1, <3>2, <3>3
  <2>4. \A p \in Predictor : predictedHits'[p] \in Nat
    BY <1>4, ScoreAdds
  <2> QED BY <1>1, <2>1, <2>2, <2>3, <2>4 DEF ScoresInv
<1> QED BY <1>2, <1>3, <1>4 DEF SimNext

LEMMA NextRepeats ==
    ASSUME CacheInv, HitsInv, CountsInv, RecentInv, RepeatsInv, [SimNext]_simVars
    PROVE  RepeatsInv'
<1>1. predictedHits["previous_token"] \in Nat /\ Width \in Nat
  BY SimulatorAssumption DEF CountsInv, Predictor
<1>2. Cardinality({}) = 0
  BY FS_EmptySet
<1>3. CASE UNCHANGED simVars
  <2>1. Asked' = Asked /\ Prev' = Prev /\ hits' = hits /\ predictedHits' = predictedHits
    BY <1>3 DEF simVars, Asked, Prev
  <2> QED BY <2>1 DEF RepeatsInv
<1>4. CASE NextRecord
  <2>1. record = << >> /\ pos' = 1 /\ hits' = hits /\ predictedHits' = predictedHits
        /\ record' \in Records /\ history' = history
    BY <1>4 DEF NextRecord
  <2>2. Asked' = {} /\ Asked = {}
    <3>1. DOMAIN record = {} /\ \A j \in DOMAIN record' : ~(j < 1)
      BY <2>1, SimulatorAssumption DEF Records
    <3> QED BY <2>1, <3>1 DEF Asked
  <2>3. Prev' \cap Asked' = Prev \cap Asked
    BY <2>2
  <2> QED BY <2>1, <2>3 DEF RepeatsInv
<1>5. CASE Score
  <2>1. hits' = hits /\ Asked' = {}
    BY <1>5, RecordEnds DEF Score
  <2>2. predictedHits'["previous_token"]
           = predictedHits["previous_token"] + Cardinality(Prev \cap Asked)
    BY <1>5, ScoreAdds
  <2>3. Prev' \cap Asked' = {}
    BY <2>1
  <2>4. predictedHits'["previous_token"] \in Nat
    BY <1>5, ScoreAdds DEF Predictor
  <2>5. Cardinality(Prev' \cap Asked') = 0
    BY <1>2, <2>3
  <2>6. ASSUME NEW c \in Capacities, c >= 2 * Width - 1
        PROVE  predictedHits'["previous_token"] + Cardinality(Prev' \cap Asked') <= hits'[c]
    <3>1. predictedHits'["previous_token"] <= hits[c]
      BY <2>2, <2>6 DEF RepeatsInv
    <3>2. predictedHits'["previous_token"] + 0 <= hits'[c]
      BY <2>1, <2>4, <3>1
    <3> QED BY <2>5, <3>2
  <2> QED BY <2>6 DEF RepeatsInv
<1>6. CASE LookUp
  <2>1. record \in Records /\ pos \in DOMAIN record
    <3>1. pos \in DOMAIN record /\ (record = << >> \/ record \in Records)
      BY <1>6 DEF LookUp, CacheInv
    <3>2. record # << >>
      <4>1. DOMAIN << >> = {}
        OBVIOUS
      <4> QED BY <3>1, <4>1
    <3> QED BY <3>1, <3>2
  <2>2. PICK x \in Expert : x = record[pos]
    BY <2>1 DEF Records
  <2>3. /\ record' = record /\ pos' = pos + 1 /\ history' = history
        /\ predictedHits' = predictedHits
        /\ hits' = [c \in Capacities |-> IF x \in held[c] THEN hits[c] + 1 ELSE hits[c]]
    BY <1>6, <2>2 DEF LookUp
  <2>4. Asked' = Asked \cup {x} /\ Prev' = Prev
    BY <2>1, <2>2, <2>3, AskedGrows
  <2>5. IsFiniteSet(Prev \cap Asked) /\ Cardinality(Prev \cap Asked) \in Nat
    <3>1. Prev \cap Asked \subseteq Expert
      BY DEF RecentInv
    <3> QED BY <3>1, SimulatorAssumption, FS_Subset, FS_CardinalityType
  <2>6. SUFFICES ASSUME NEW c \in Capacities, c >= 2 * Width - 1
                 PROVE  predictedHits["previous_token"] + Cardinality(Prev' \cap Asked') <= hits'[c]
    BY <2>3 DEF RepeatsInv
  <2>7. predictedHits["previous_token"] + Cardinality(Prev \cap Asked) <= hits[c]
        /\ hits[c] \in Nat
    BY <2>6 DEF RepeatsInv, HitsInv
  <2>8. CASE x \in Prev /\ x \notin Asked
    <3>1. x \in held[c]
      BY <2>1, <2>2, <2>6, <2>8, PreviousIsHeld
    <3>2. Prev' \cap Asked' = (Prev \cap Asked) \cup {x} /\ x \notin Prev \cap Asked
      BY <2>4, <2>8
    <3>3. Cardinality((Prev \cap Asked) \cup {x}) = Cardinality(Prev \cap Asked) + 1
      BY <2>5, <3>2, FS_AddElement
    <3>4. Cardinality(Prev' \cap Asked') = Cardinality(Prev \cap Asked) + 1
      BY <3>2, <3>3
    <3>5. hits'[c] = hits[c] + 1
      BY <2>3, <3>1
    <3> QED BY <1>1, <2>5, <2>7, <3>4, <3>5
  <2>9. CASE ~(x \in Prev /\ x \notin Asked)
    <3>1. Prev' \cap Asked' = Prev \cap Asked
      BY <2>4, <2>9
    <3>2. hits'[c] = hits[c] \/ hits'[c] = hits[c] + 1
      BY <2>3
    <3>3. Cardinality(Prev' \cap Asked') = Cardinality(Prev \cap Asked)
      BY <3>1
    <3> QED BY <1>1, <2>5, <2>7, <3>2, <3>3
  <2> QED BY <2>8, <2>9
<1> QED BY <1>3, <1>4, <1>5, <1>6 DEF SimNext

\* No predictor is right about more selections than it was asked to predict, and a cache
\* with room for two tokens hits whatever the previous token would have predicted.
THEOREM RecallIsBounded == SimSpec => []RecallBounded
<1> DEFINE Inv == CacheInv /\ HitsInv /\ CountsInv
           RecallInv == RecentInv /\ ScoresInv /\ RepeatsInv
<1>1. SimInit => RecallInv
  BY InitRecall
<1>2. Inv /\ RecallInv /\ [SimNext]_simVars => RecallInv'
  BY NextRecent, NextScores, NextRepeats
<1>3. Inv /\ RecallInv => RecallBounded
  <2> SUFFICES ASSUME Inv, RecallInv PROVE RecallBounded
    OBVIOUS
  <2>1. ASSUME NEW p \in Predictor
        PROVE  predictedHits[p] + (IF history = << >> THEN 0 ELSE Width) <= totalSelections
    BY SimulatorAssumption DEF ScoresInv, CountsInv
  <2>2. ASSUME NEW c \in Capacities, c >= 2 * Width - 1
        PROVE  predictedHits["previous_token"] <= hits[c]
    <3>1. Prev \cap Asked \subseteq Expert
      BY DEF RecentInv
    <3>2. Cardinality(Prev \cap Asked) \in Nat
      BY <3>1, SimulatorAssumption, FS_Subset, FS_CardinalityType
    <3>3. predictedHits["previous_token"] + Cardinality(Prev \cap Asked) <= hits[c]
      BY <2>2 DEF RepeatsInv
    <3>4. predictedHits["previous_token"] \in Nat /\ hits[c] \in Nat
      BY DEF CountsInv, HitsInv, Predictor
    <3> QED BY <3>2, <3>3, <3>4
  <2> QED BY <2>1, <2>2 DEF RecallBounded
<1> QED BY <1>1, <1>2, <1>3, SimInvariant, PTL DEF SimSpec
=============================================================================
