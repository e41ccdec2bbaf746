---------------------------- MODULE RoutingData ----------------------------
(***************************************************************************)
(* The data of the routing models: how the phone dataset is split          *)
(* (tools/build_phone_routing_dataset.py), how the general mixture is      *)
(* cleaned, split and sampled (tools/prepare_general_mixture.py), how the  *)
(* trainers carve and mix (train_phone_routing.py, train_combined_routing  *)
(* .py) and what the evaluation asks (evaluate_phone_routing_model.py).    *)
(*                                                                         *)
(* A file is the set of its rows.  What a seeded shuffle decides is any    *)
(* choice: an operator that samples is the set of the results it may have. *)
(***************************************************************************)
EXTENDS Integers, FiniteSets

CONSTANTS
    Query,          \* QUERIES: the authored phone prompts
    GeneralRow,     \* the rows of the three sources' train splits
    TestRow,        \* the rows of their official test splits
    SourceOf,       \* of a general or test row
    LabelOf,        \* route__label
    StateOf,        \* the state, without case and punctuation
    TextOf,         \* the state, without case
    Dev,            \* the 50 development cases
    Exposed,        \* states reflex-1 was trained on
    NTrain, NCalibration, NTest,    \* rows of a route in each phone split
    Weight,         \* of a source in the mixture, in the smallest whole numbers
    PerClass        \* test rows of a label the evaluation asks, by source

Row == Query \cup GeneralRow \cup TestRow

Sources == {"typed_decisions", "banking77", "clinc150"}

ASSUME DataAssumption ==
    /\ IsFiniteSet(Row)
    /\ Query \cap GeneralRow = {} /\ Query \cap TestRow = {} /\ GeneralRow \cap TestRow = {}
    /\ SourceOf \in [GeneralRow \cup TestRow -> Sources]
    /\ DOMAIN LabelOf = Row /\ DOMAIN StateOf = Row /\ DOMAIN TextOf = Row
    /\ {NTrain, NCalibration, NTest} \subseteq Nat
    /\ Weight \in [Sources -> Nat \ {0}]
    /\ PerClass \in [Sources -> Nat]

States(rows) == {StateOf[r] : r \in rows}

Labels(rows) == {LabelOf[r] : r \in rows}

OfLabel(rows, l) == {r \in rows : LabelOf[r] = l}

From(rows, source) == {r \in rows : SourceOf[r] = source}

Smaller(a, b) == IF a <= b THEN a ELSE b
Larger(a, b) == IF a >= b THEN a ELSE b

\* round(a / b): a half goes to the even neighbour.
RoundDiv(a, b) ==
    LET q == a \div b
        r == a % b
    IN IF 2 * r < b \/ (2 * r = b /\ q % 2 = 0) THEN q ELSE q + 1

\* The subsets of `rows` with `n` rows, or all rows where there are fewer.
Take(rows, n) == {S \in SUBSET rows : Cardinality(S) = Smaller(n, Cardinality(rows))}

-----------------------------------------------------------------------------
(* The phone dataset.                                                       *)

\* The queries that are no case of `excluded`.
Clean(excluded) == {q \in Query : TextOf[q] \notin excluded}

\* Mutant: the test split starts where the calibration split does.
SplitsFrom(excluded) ==
    {s \in [train : SUBSET Query, calibration : SUBSET Query, test : SUBSET Query] :
        \A l \in Labels(Query) :
            LET pool == OfLabel(Clean(excluded), l)
                train == OfLabel(s.train, l)
            IN /\ train \in Take(pool, NTrain)
               /\ OfLabel(s.calibration, l) \in Take(pool \ train, NCalibration)
               /\ OfLabel(s.test, l) \in Take(pool \ train, NTest)}

\* The shuffled queries of a route fill the train split, then the calibration split,
\* then the test split; a route with too few is only warned about, and a query that is
\* written twice is two queries.
PhoneSplits(excluded) ==
    {s \in [train : SUBSET Clean(excluded), calibration : SUBSET Clean(excluded),
            test : SUBSET Clean(excluded)] :
        \A l \in Labels(Query) :
            LET pool == OfLabel(Clean(excluded), l)
                train == OfLabel(s.train, l)
                calibration == OfLabel(s.calibration, l)
            IN /\ train \in Take(pool, NTrain)
               /\ calibration \in Take(pool \ train, NCalibration)
               /\ OfLabel(s.test, l) \in Take((pool \ train) \ calibration, NTest)}

\* The development cases are excluded, or none when they cannot be imported.
BuilderPlans == PhoneSplits(Dev) \cup PhoneSplits({})

-----------------------------------------------------------------------------
(* The general mixture.                                                     *)

\* One row of every state that is not protected stays.
CleanPool(rows, protected) ==
    {S \in SUBSET rows :
        /\ States(S) = States(rows) \ protected
        /\ \A r, s \in S : StateOf[r] = StateOf[s] => r = s}

NVal(n) == Larger(1, RoundDiv(n, 10))
NCal(n) == Larger(1, RoundDiv(n, 20))

\* Every label gives a tenth of its rows to val and a twentieth to calibration, at
\* least one each; a label that would have none left for train refuses the source.
StratifiedSplits(rows) ==
    {s \in {[train |-> (rows \ v) \ c, val |-> v, calibration |-> c] : v, c \in SUBSET rows} :
        \A l \in Labels(rows) :
            LET pool == OfLabel(rows, l)
                n == Cardinality(pool)
                val == OfLabel(s.val, l)
            IN /\ n > NVal(n) + NCal(n)
               /\ val \in Take(pool, NVal(n))
               /\ OfLabel(s.calibration, l) \in Take(pool \ val, NCal(n))}

\* Cases reflex-1 has seen are for training; the others alternate between val and
\* calibration.
TypedSplits(rows) ==
    LET holdout == {r \in rows : StateOf[r] \notin Exposed} IN
    {[train |-> rows \ holdout, val |-> v, calibration |-> holdout \ v] :
        v \in Take(holdout, (Cardinality(holdout) + 1) \div 2)}

SourceSplits(source, rows) ==
    IF source = "typed_decisions" THEN TypedSplits(rows) ELSE StratifiedSplits(rows)

\* The source whose rows limit the mixture at the given weights.
Scarcest(size) ==
    CHOOSE m \in Sources : \A s \in Sources : size[m] * Weight[s] <= size[s] * Weight[m]

SampleSize(size, s) ==
    LET m == Scarcest(size) IN
    Smaller(size[s], Larger(1, RoundDiv(size[m] * Weight[s], Weight[m])))

\* A sample takes rows from the labels in turn; it must be large enough for all.
Samples(rows, count) ==
    IF count < Cardinality(Labels(rows)) THEN {}
    ELSE {S \in Take(rows, count) :
            \A l, m \in Labels(rows) :
                Cardinality(OfLabel(S, m)) > Cardinality(OfLabel(S, l)) + 1
                    => OfLabel(S, l) = OfLabel(rows, l)}

WeightedSamples(train) ==
    LET size == [s \in Sources |-> Cardinality(From(train, s))] IN
    {S \in SUBSET train :
        \A s \in Sources : From(S, s) \in Samples(From(train, s), SampleSize(size, s))}

\* Mutant: nothing compares the splits of different sources.
FinalChecksExposure(f) == States(f.val \cup f.calibration) \cap Exposed = {}

\* The last checks before anything is written.
FinalChecks(f) ==
    /\ States(f.train) \cap States(f.val) = {}
    /\ States(f.train) \cap States(f.calibration) = {}
    /\ States(f.val) \cap States(f.calibration) = {}
    /\ States(f.val \cup f.calibration) \cap Exposed = {}

\* Mutant: the phone files are not protected.
ProtectedTests(phone) == States(TestRow)

\* The states no general row may have: those of the official test splits and of the
\* phone files.
Protected(phone) == States(TestRow) \cup States(phone)

\* The mixtures that may be frozen when the rows `phone` are found in the phone
\* directory; none when a check refuses.
Mixtures(phone) ==
    LET Split(s) == UNION {SourceSplits(s, kept) :
                              kept \in CleanPool(From(GeneralRow, s), Protected(phone))}
        Together(split) ==
            {[train |-> train,
              val |-> UNION {split[s].val : s \in Sources},
              calibration |-> UNION {split[s].calibration : s \in Sources}] :
                train \in WeightedSamples(UNION {split[s].train : s \in Sources})}
        Splits == {[typed_decisions |-> t, banking77 |-> b, clinc150 |-> c] :
                     t \in Split("typed_decisions"), b \in Split("banking77"), c \in Split("clinc150")}
    IN {f \in UNION {Together(split) : split \in Splits} : FinalChecks(f)}

-----------------------------------------------------------------------------
(* The trainers.                                                            *)

\* train_phone_routing.py: as many rows of every route as go into `size` evenly,
\* and the rest from anywhere.
CarvePhone(rows, size) ==
    LET routes == Labels(rows)
        each == size \div Cardinality(routes)
    IN {v \in SUBSET rows :
          \E even \in SUBSET v :
             /\ \A l \in routes : OfLabel(even, l) \in Take(OfLabel(rows, l), each)
             /\ v \ even \in Take(rows \ even, size - each * Cardinality(routes))}

\* train_combined_routing.py: the same without the rest.
CarveEvenly(rows, size) ==
    LET routes == Labels(rows)
        each == size \div Cardinality(routes)
    IN {v \in SUBSET rows : \A l \in routes : OfLabel(v, l) \in Take(OfLabel(rows, l), each)}

\* The rows kept of a source whose scaled size is `target` when the larger of the two
\* is `most`: the scale is at least one, so that it keeps all or, at zero, none.
Kept(rows, target, most) ==
    Take(rows, IF target = 0 THEN 0
               ELSE Smaller(Cardinality(rows),
                            RoundDiv(Cardinality(rows) * Smaller(most, target), target)))

\* The weights are << numerator, denominator >>.
WeightedMix(phone, general, phoneWeight, generalWeight) ==
    LET phoneTarget == RoundDiv(Cardinality(phone) * phoneWeight[1], phoneWeight[2])
        generalTarget == RoundDiv(Cardinality(general) * generalWeight[1], generalWeight[2])
        most == Larger(phoneTarget, generalTarget)
    IN {p \cup g : p \in Kept(phone, phoneTarget, most), g \in Kept(general, generalTarget, most)}

\* Are there rows in both?  Rows are compared by their ids, which every row has; so two
\* copies of a query, one on either side, are no overlap.
Overlap(trained, held) == trained \cap held # {}

-----------------------------------------------------------------------------
(* The evaluation.                                                          *)

\* Some rows of every label, without those whose text is a typed training case.
BalancedIntents(source) ==
    LET training == {TextOf[r] : r \in From(GeneralRow, "typed_decisions")}
        rows == {r \in From(TestRow, source) : TextOf[r] \notin training}
    IN {S \in SUBSET rows :
          \A l \in Labels(rows) : OfLabel(S, l) \in Take(OfLabel(rows, l), PerClass[source])}
=============================================================================
