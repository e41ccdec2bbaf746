---------------------------- MODULE BenchAnalysis ----------------------------
(***************************************************************************)
(* What tools/analyze_comparison.py and tools/analyze_thinking_comparison  *)
(* .py compute from the cases of a benchmark report.  A row has the case's *)
(* category, whether the model's own route was right (raw), whether the    *)
(* route that the relevance guard let through was right (guarded), and     *)
(* whether the thermal status read after the case is a number (known).     *)
(***************************************************************************)
EXTENDS Integers, Sequences, FiniteSets

CONSTANTS
    Categories,     \* CATEGORIES: the categories the tables have a line for
    None            \* null, or a field that is not there

HowMany(rows, P(_)) == Cardinality({i \in DOMAIN rows : P(rows[i])})

RawOk(r) == r.raw = TRUE
GuardOk(r) == r.guarded
\* Mutant.
Wrong(r) == ~r.guarded

Regression(r) == RawOk(r) /\ ~r.guarded
Rescue(r) == ~RawOk(r) /\ r.guarded

\* Both tools get through a report: without cases the one misses its figures and
\* the other divides by their number, and a null is not compared with 2.
Analyzed(rows) == rows # << >> /\ \A i \in DOMAIN rows : rows[i].known

Analyze(rows) ==
    IF Analyzed(rows)
    THEN [n |-> Len(rows),
          raw |-> HowMany(rows, RawOk),
          guarded |-> HowMany(rows, GuardOk),
          regressions |-> HowMany(rows, Regression),
          rescues |-> HowMany(rows, Rescue)]
    ELSE None

\* The entry of one category, counted in one pass over all rows.
Entry(rows, cat) ==
    [n |-> HowMany(rows, LAMBDA r : r.category = cat),
     raw |-> HowMany(rows, LAMBDA r : r.category = cat /\ RawOk(r)),
     guarded |-> HowMany(rows, LAMBDA r : r.category = cat /\ GuardOk(r)),
     regressions |-> HowMany(rows, LAMBDA r : r.category = cat /\ Regression(r)),
     rescues |-> HowMany(rows, LAMBDA r : r.category = cat /\ Rescue(r))]

CasesStats(rows) == [cat \in {rows[i].category : i \in DOMAIN rows} |-> Entry(rows, cat)]

\* The other tool collects the cases of a category, then counts right answers and cases.
PerCategory(rows) ==
    [cat \in {rows[i].category : i \in DOMAIN rows} |->
        LET cases == {i \in DOMAIN rows : rows[i].category = cat} IN
        <<Cardinality({i \in cases : RawOk(rows[i])}), Cardinality(cases)>>]

\* A line of the per-category table; a category nobody was asked about has no
\* figures.
TableLine(rows, cat) ==
    LET stats == CasesStats(rows) IN
    IF cat \in DOMAIN stats THEN stats[cat] ELSE Entry(<< >>, cat)

\* The figures of at most `most` analyzed rows agree with each other: the lines of the
\* table add up to the totals, the guard's total is the model's own plus the rescues
\* without the regressions, and the two tools agree.
FiguresAgree(rows, most) ==
    LET all == Analyze(rows)
        Total(f) == Cardinality({p \in Categories \X (1 .. most) :
                                    p[2] <= TableLine(rows, p[1])[f]})
    IN
    /\ \A f \in {"n", "raw", "guarded", "regressions", "rescues"} : Total(f) = all[f]
    /\ all.guarded = all.raw + all.rescues - all.regressions
    /\ \A cat \in DOMAIN PerCategory(rows) :
          LET line == TableLine(rows, cat) IN
          PerCategory(rows)[cat] = <<line.raw, line.n>>
=============================================================================
