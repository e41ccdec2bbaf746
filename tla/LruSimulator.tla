---------------------------- MODULE LruSimulator ----------------------------
(***************************************************************************)
(* tools/expert_cache_simulator.py: the routing trace of one layer is      *)
(* replayed against a bounded LRU cache and three predictors.  The tool    *)
(* runs once per capacity; here the runs over one trace go side by side,   *)
(* so that they can be compared.                                           *)
(*                                                                         *)
(* The OrderedDict of a run is the set `held` and the place of each of its *)
(* members in the order; a new last place is one past every other.         *)
(***************************************************************************)
EXTENDS ExpertOffsets, Sequences, FiniteSets

CONSTANTS
    Expert,       \* the expert ids of the layer
    Capacities,   \* values of --cache-experts-per-layer
    Windows,      \* values of --predictor-history
    Width,        \* experts per token (n_expert_used)
    MaxTokens,    \* bound: records in the trace
    Files         \* GGUF files, each the set of its expert tensors

ASSUME SimulatorAssumption ==
    /\ IsFiniteSet(Expert)
    /\ Capacities \subseteq Nat
    /\ Windows \subseteq Nat \ {0}
    /\ Width \in Nat \ {0} /\ MaxTokens \in Nat
    /\ Files \subseteq SUBSET Tensor

Predictor == {"previous_token", "frequency_all", "last_n"}

VARIABLES
    file,       \* the model the trace was captured from
    index,      \* the offsets of its experts, or << >> when it is refused
    window,     \* predictor_n
    record,     \* the record being replayed, << >> between records
    pos,        \* the next of its experts to look up
    trace,      \* every access so far
    held, place, hits,      \* by capacity: the dict, its order, lru_hits
    history, predictedHits, totalSelections

simVars == <<file, index, window, record, pos, trace, held, place, hits,
             history, predictedHits, totalSelections>>

SimInit ==
    /\ file \in Files
    /\ index = IF Refused(file) THEN << >> ELSE Extract(file)
    /\ window \in Windows
    /\ record = << >> /\ pos = 1
    /\ trace = << >>
    /\ held = [c \in Capacities |-> {}]
    /\ place = [c \in Capacities |-> [e \in Expert |-> 0]]
    /\ hits = [c \in Capacities |-> 0]
    /\ history = << >>
    /\ predictedHits = [p \in Predictor |-> 0]
    /\ totalSelections = 0

\* The experts a token selects differ from each other: they are a top-k.
Records == {r \in [1 .. Width -> Expert] : \A i, j \in 1 .. Width : r[i] = r[j] => i = j}

NextRecord ==
    /\ record = << >>
    /\ Len(history) < MaxTokens
    /\ record' \in Records
    /\ pos' = 1
    /\ totalSelections' = totalSelections + Width
    /\ UNCHANGED <<file, index, window, trace, held, place, hits, history, predictedHits>>

\* Mutants.
NewestFirst(S, order) == CHOOSE e \in S : \A f \in S : order[e] >= order[f]
InsertOnly(order, S, e, n) == IF e \in S THEN order ELSE [order EXCEPT ![e] = n]

\* The member of S whose place is the first.
First(S, order) == CHOOSE e \in S : \A f \in S : order[e] <= order[f]

\* The order after an access to e, the n-th of all: a hit moves e to the end, a miss
\* puts it there.
MoveToEnd(order, S, e, n) == [order EXCEPT ![e] = n]

\* The members of the dict after an access to e, its place being the last.
AfterAccessLate(S, e, order, capacity) ==
    IF e \in S THEN S
    ELSE IF Cardinality(S) > capacity THEN (S \cup {e}) \ {First(S \cup {e}, order)}
         ELSE S \cup {e}

AfterAccess(S, e, order, capacity) ==
    IF e \in S THEN S
    ELSE IF Cardinality(S \cup {e}) > capacity
         THEN (S \cup {e}) \ {First(S \cup {e}, order)}
         ELSE S \cup {e}

LookUp ==
    /\ pos \in DOMAIN record
    /\ LET e == record[pos] IN
       /\ trace' = Append(trace, e)
       /\ place' = [c \in Capacities |-> MoveToEnd(place[c], held[c], e, Len(trace) + 1)]
       /\ held' = [c \in Capacities |-> AfterAccess(held[c], e, place'[c], c)]
       /\ hits' = [c \in Capacities |-> IF e \in held[c] THEN hits[c] + 1 ELSE hits[c]]
    /\ pos' = pos + 1
    /\ UNCHANGED <<file, index, window, record, history, predictedHits, totalSelections>>

Count(h, e) == Cardinality({i \in DOMAIN h : e \in h[i]})

\* What Counter.most_common(k) may return: ties are in the order of a hash table.
MostCommon(h, k) ==
    LET Counted == UNION {h[i] : i \in DOMAIN h} IN
    {S \in SUBSET Counted :
        /\ Cardinality(S) = (IF k <= Cardinality(Counted) THEN k ELSE Cardinality(Counted))
        /\ \A e \in S, f \in Counted \ S : Count(h, e) >= Count(h, f)}

LastN(h, n) == SubSeq(h, IF Len(h) > n THEN Len(h) - n + 1 ELSE 1, Len(h))

Score ==
    /\ record # << >> /\ pos > Len(record)
    /\ LET actual == {record[i] : i \in DOMAIN record} IN
       /\ IF history = << >> THEN predictedHits' = predictedHits
          ELSE \E all \in MostCommon(history, Width),
                  last \in MostCommon(LastN(history, window), Width) :
                 predictedHits' =
                    [predictedHits EXCEPT
                       !["previous_token"] = @ + Cardinality(history[Len(history)] \cap actual),
                       !["frequency_all"] = @ + Cardinality(all \cap actual),
                       !["last_n"] = @ + Cardinality(last \cap actual)]
       /\ history' = Append(history, actual)
    /\ record' = << >> /\ pos' = 1
    /\ UNCHANGED <<file, index, window, trace, held, place, hits, totalSelections>>

SimNext == NextRecord \/ LookUp \/ Score

SimSpec == SimInit /\ [][SimNext]_simVars

-----------------------------------------------------------------------------
(* The reference: an expert is held when fewer than `c` experts have been   *)
(* used since it was used last.                                             *)

Used == {trace[i] : i \in DOMAIN trace}

\* The place in the trace of the last use of a used expert.
LastUse(e) == CHOOSE i \in DOMAIN trace : trace[i] = e /\ \A j \in DOMAIN trace : trace[j] = e => j <= i

UsedSince(e) == {f \in Used : LastUse(f) > LastUse(e)}

\* Every field has a value of its kind, and a dict never exceeds its capacity.
SimTypeOK ==
    /\ window \in Windows
    /\ trace \in Seq(Expert)
    /\ held \in [Capacities -> SUBSET Expert]
    /\ \A c \in Capacities : Cardinality(held[c]) <= c
    /\ place \in [Capacities -> [Expert -> Nat]]
    /\ hits \in [Capacities -> Nat]
    /\ predictedHits \in [Predictor -> Nat]
    /\ totalSelections \in Nat

\* The dict holds exactly the experts within the stack distance of its capacity,
\* however hits, insertions and evictions were ordered.
MostRecentHeld ==
    \A c \in Capacities :
        held[c] = {e \in Used : Cardinality(UsedSince(e)) < c}

\* A larger cache never does worse on the same trace: what a smaller one holds it
\* holds too, and it has at least its hits.
LargerHoldsSmaller ==
    \A c, d \in Capacities :
        c <= d => held[c] \subseteq held[d] /\ hits[c] <= hits[d]

\* The first token is counted and never predicted, so no recall reaches one.  And a cache
\* with room for two tokens less one expert hits whatever the previous token predicts: of
\* the experts used since, there are at most the others of both tokens.
RecallBounded ==
    /\ \A p \in Predictor :
          predictedHits[p] + (IF history = << >> THEN 0 ELSE Width) <= totalSelections
    /\ \A c \in Capacities :
          c >= 2 * Width - 1 => predictedHits["previous_token"] <= hits[c]

\* The slices of the index cut each tensor into disjoint pieces that leave no byte
\* out; a file whose tensors do not divide has no index at all.
SlicesTile ==
    IF Refused(file) THEN index = << >>
    ELSE \A t \in file : Tiles(t, index[t])
=============================================================================
