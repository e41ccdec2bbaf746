-------------------------- MODULE MCTrainingRuns --------------------------
(***************************************************************************)
(* A route with four queries, one of them a development case and the       *)
(* others written alike, and one with a single query, too few for more     *)
(* than a train split.  The sources have rows that share a state with a    *)
(* query, with each other and with a row of another source, and a test row *)
(* with a typed row.                                                       *)
(***************************************************************************)
EXTENDS TrainingRuns, TLC

CONSTANTS a1, a2, a3, a4, b1,           \* queries
          t1, t2, t3, t4,               \* typed rows, t1 and t4 seen by reflex-1
          k1, k2, k3, k4,               \* banking rows
          c1, c2, c3,                   \* clinc rows
          tt, kt, ct                    \* a test row of each source

MCSourceOf ==
    [r \in GeneralRow \cup TestRow |->
        IF r \in {t1, t2, t3, t4, tt} THEN "typed_decisions"
        ELSE IF r \in {k1, k2, k3, k4, kt} THEN "banking77" ELSE "clinc150"]

MCLabelOf ==
    [r \in Row |-> IF r \in {a1, a2, a3, a4} THEN "answer"
                   ELSE IF r = b1 THEN "save_note"
                   ELSE MCSourceOf[r]]

\* A row has a state of its own, but for these.
MCStateOf ==
    [r \in Row |-> CASE r = k1 -> t2 [] r = t4 -> a1 [] r \in {k2, k4} -> "twice"
                     [] r = t3 -> ct [] r \in {a2, a3, a4} -> "haiku" [] OTHER -> r]

\* Two texts differ by punctuation at least, but for those of one query.
MCTextOf == [r \in Row |-> IF r \in {a2, a3, a4} THEN "haiku" ELSE r]

\* The states of t1, t3 and t4.
MCExposed == {t1, ct, a1}

MCWeight == [s \in Sources |-> IF s = "banking77" THEN 2 ELSE 1]

MCPerClass == [s \in Sources |-> 1]

MCWeights == {<<1, 1>>}
MCPhoneWeights == {<<0, 1>>, <<3, 2>>}

Interchangeable ==
    Permutations({a2, a3, a4}) \cup Permutations({c1, c2, c3})
        \cup Permutations({k2, k4})
=============================================================================
