------------------------- MODULE BenchHarnessProofs -------------------------
(***************************************************************************)
(* Theorems about BenchHarness, for every suite, every limit on the phone  *)
(* and any number of runs with the same --out.                             *)
(*                                                                         *)
(* BenchInv, which is inductive, relates the case the run is at, the rows  *)
(* in memory and the report on the disk.                                   *)
(***************************************************************************)
EXTENDS BenchHarness, Counting, SequenceTheorems, TLAPS

CoolReading(r) ==
    /\ r.temperatureC \in {t \in Temps : t <= 38}
    /\ r.thermalStatus \in {s \in Statuses : s <= 1}

\* Rows recorded in the order of the suite; of the benchmark, on a cool phone and of a
\* category.
InOrder(cases) ==
    /\ cases \in Seq(CaseRow)
    /\ \A k \in DOMAIN cases : cases[k].id = k
    /\ harness = "benchmark" =>
          \A k \in DOMAIN cases : CoolReading(cases[k].before) /\ cases[k].category \in Categories

RunPlace ==
    /\ harness \in Harness /\ limit \in {0, NCases}
    /\ harness # "benchmark" => limit = NCases
    /\ next \in Nat \ {0} /\ next <= limit + 1
    /\ phase \in {"gate", "after"} => harness = "benchmark"
    /\ phase \in {"gate", "ask", "after"} => next <= limit
    /\ phase \in {"final", "ended"} => next = limit + 1

RowPlace ==
    /\ before \in Reading
    /\ harness = "benchmark" /\ phase = "ask" => CoolReading(before)
    /\ phase = "after" => /\ row \in CaseRow /\ row.id = next
                          /\ CoolReading(row.before) /\ row.category \in Categories
    /\ InOrder(rows) /\ Len(rows) = next - 1

Disk ==
    /\ harness # "replay" =>
          \/ saved = Report(FALSE, rows)
          \/ phase = "ended" /\ rows # << >> /\ saved = Report(TRUE, rows)
    /\ harness = "replay" =>
          \/ saved \in {NoFile, Torn}
          \/ \E cases \in Seq(CaseRow) :
                /\ InOrder(cases) /\ cases # << >> /\ Len(cases) = limit
                /\ saved = Report(TRUE, cases)

BenchInv == RunPlace /\ RowPlace /\ Disk

-----------------------------------------------------------------------------

\* What the three programs record of a case are rows.
LEMMA RowsAreRows ==
    ASSUME NEW i \in 1 .. NCases, before \in Reading
    PROVE  /\ Failed(i) \in CaseRow /\ Failed(i).id = i /\ Failed(i).before = before
           /\ Failed(i).category \in Categories
           /\ \A chosen \in Routes, named \in BOOLEAN :
                 /\ Answered(i, chosen, named) \in CaseRow
                 /\ Answered(i, chosen, named).id = i
                 /\ Answered(i, chosen, named).before = before
                 /\ Answered(i, chosen, named).category \in Categories
<1>1. Category[i] \in Categories /\ i \in Nat
  BY HarnessAssumption
<1>2. Failed(i) \in CaseRow /\ Failed(i).id = i /\ Failed(i).before = before
      /\ Failed(i).category \in Categories
  BY <1>1 DEF Failed, CaseRow
<1>3. ASSUME NEW chosen \in Routes, NEW named \in BOOLEAN
      PROVE  /\ Answered(i, chosen, named) \in CaseRow
             /\ Answered(i, chosen, named).id = i
             /\ Answered(i, chosen, named).before = before
             /\ Answered(i, chosen, named).category \in Categories
  <2> DEFINE raw == chosen = Expected[i] /\ (named \/ chosen = "answer")
             guarded == /\ Guarded(i, chosen) = Expected[i]
                        /\ named \/ Guarded(i, chosen) = "answer"
  <2>1. raw \in BOOLEAN /\ guarded \in BOOLEAN
    OBVIOUS
  <2>2. Answered(i, chosen, named) =
           [id |-> i, category |-> Category[i], before |-> before, known |-> TRUE,
            failed |-> FALSE, raw |-> raw, guarded |-> guarded]
    BY DEF Answered
  <2> HIDE DEF raw, guarded
  <2> QED BY <1>1, <2>1, <2>2 DEF CaseRow
<1> QED BY <1>2, <1>3

\* A row may lose its raw route, or learn whether the status after it is known.
LEMMA RowsChange ==
    ASSUME NEW r \in CaseRow, NEW known \in BOOLEAN
    PROVE  /\ [r EXCEPT !.raw = None] \in CaseRow /\ [r EXCEPT !.raw = None].id = r.id
           /\ [r EXCEPT !.known = known] \in CaseRow /\ [r EXCEPT !.known = known].id = r.id
           /\ [r EXCEPT !.known = known].before = r.before
           /\ [r EXCEPT !.known = known].category = r.category
BY DEF CaseRow

LEMMA EvalRowsAreRows ==
    ASSUME NEW i \in 1 .. NCases, NEW failed \in BOOLEAN, NEW right \in BOOLEAN
    PROVE  EvalRow(i, failed, right) \in CaseRow /\ EvalRow(i, failed, right).id = i
<1>1. i \in Nat /\ NoReading \in Reading
  BY DEF NoReading, Reading
<1> QED BY <1>1 DEF EvalRow, CaseRow

LEMMA RecordKeepsInv ==
    ASSUME BenchInv, NEW r \in CaseRow, r.id = next, Record(r), phase \in {"ask", "after"},
           harness = "benchmark" => CoolReading(r.before) /\ r.category \in Categories
    PROVE  BenchInv'
<1>1. /\ rows' = Append(rows, r) /\ next' = next + 1
      /\ UNCHANGED <<harness, limit>> /\ before' = NoReading
      /\ phase' = IF next = limit THEN "final" ELSE FirstPhase(harness)
      /\ saved' = IF harness = "replay" THEN saved ELSE Report(FALSE, rows')
  BY DEF Record
<1>2. next \in Nat \ {0} /\ next <= limit /\ limit \in Nat
  BY HarnessAssumption DEF BenchInv, RunPlace
<1>3. RunPlace'
  BY <1>1, <1>2 DEF BenchInv, RunPlace, FirstPhase, Harness
<1>4. rows \in Seq(CaseRow) /\ Len(rows) = next - 1 /\ DOMAIN rows = 1 .. next - 1
  BY LenProperties DEF BenchInv, RowPlace, InOrder
<1>5. /\ rows' \in Seq(CaseRow) /\ Len(rows') = next /\ DOMAIN rows' = 1 .. next
      /\ rows'[next] = r /\ \A k \in 1 .. next - 1 : rows'[k] = rows[k]
  BY <1>1, <1>2, <1>4, AppendProperties, LenProperties
<1>6. InOrder(rows)'
  BY <1>1, <1>2, <1>4, <1>5 DEF BenchInv, RowPlace, InOrder, CoolReading
<1>7. before' \in Reading
  BY <1>1 DEF NoReading, Reading
<1>8. RowPlace'
  BY <1>1, <1>2, <1>5, <1>6, <1>7 DEF RowPlace, FirstPhase, BenchInv, RunPlace, Harness
<1>9. Disk'
  BY <1>1 DEF BenchInv, Disk, InOrder, CoolReading
<1> QED BY <1>3, <1>8, <1>9 DEF BenchInv

LEMMA EmptyInOrder == InOrder(<< >>) /\ Len(<< >>) = 0
<1>1. << >> \in Seq(CaseRow) /\ DOMAIN << >> = {} /\ Len(<< >>) = 0
  BY EmptySeq
<1> QED BY <1>1 DEF InOrder

LEMMA InitInv == BenchInit => BenchInv
<1> SUFFICES ASSUME BenchInit PROVE BenchInv
  OBVIOUS
<1>1. RunPlace
  BY HarnessAssumption DEF BenchInit, RunPlace, Limits, FirstPhase, Harness
<1>2. before \in Reading
  BY DEF BenchInit, NoReading, Reading
<1>3. RowPlace
  BY <1>2, EmptyInOrder DEF BenchInit, RowPlace, FirstPhase
<1>4. Disk
  BY DEF BenchInit, Disk
<1> QED BY <1>1, <1>3, <1>4 DEF BenchInv

\* A step that changes the place of the run and neither rows nor report.
LEMMA PlaceOnly ==
    ASSUME BenchInv, UNCHANGED <<harness, limit, next, row, rows, saved>>, before' \in Reading,
           phase # "ended", phase' \in {"gate", "ask", "aborted", "dead"},
           phase' = "gate" => phase = "gate",
           phase' = "ask" => phase = "gate" /\ CoolReading(before')
    PROVE  BenchInv'
<1>1. RunPlace'
  BY DEF BenchInv, RunPlace
<1>2. RowPlace'
  BY DEF BenchInv, RowPlace, InOrder, CoolReading
<1>3. Disk'
  BY DEF BenchInv, Disk, InOrder, CoolReading
<1> QED BY <1>1, <1>2, <1>3 DEF BenchInv

LEMMA AbortKeepsInv == ASSUME BenchInv, Abort, phase # "ended" PROVE BenchInv'
BY PlaceOnly DEF Abort, BenchInv, RowPlace

LEMMA GateKeepsInv == ASSUME BenchInv, Gate PROVE BenchInv'
<1>1. PICK r \in Reading :
        \/ Abort
        \/ /\ None \notin {r.temperatureC, r.thermalStatus} /\ Cool(r)
           /\ before' = r /\ phase' = "ask"
           /\ UNCHANGED <<harness, limit, next, waited, row, rows, saved, runs>>
        \/ UNCHANGED <<harness, limit, phase, next, before, row, rows, saved, runs>>
  BY DEF Gate
<1>2. phase = "gate"
  BY DEF Gate
<1>3. CASE Abort
  BY <1>2, <1>3, AbortKeepsInv
<1>4. CASE /\ None \notin {r.temperatureC, r.thermalStatus} /\ Cool(r)
           /\ before' = r /\ phase' = "ask"
           /\ UNCHANGED <<harness, limit, next, waited, row, rows, saved, runs>>
  <2>1. CoolReading(r)
    BY <1>4 DEF Cool, CoolReading, Reading
  <2>2. CoolReading(before') /\ before' \in Reading
    BY <1>4, <2>1 DEF CoolReading
  <2> QED BY <1>2, <1>4, <2>2, PlaceOnly
<1>5. CASE UNCHANGED <<harness, limit, phase, next, before, row, rows, saved, runs>>
  <2>1. before' \in Reading
    BY <1>5 DEF BenchInv, RowPlace
  <2> QED BY <1>2, <1>5, <2>1, PlaceOnly
<1> QED BY <1>1, <1>3, <1>4, <1>5

LEMMA AskKeepsInv == ASSUME BenchInv, Ask PROVE BenchInv'
<1>1. /\ harness = "benchmark" /\ phase = "ask" /\ phase' = "after"
      /\ UNCHANGED <<harness, limit, next, before, rows, saved>>
  BY DEF Ask
<1>2. next \in 1 .. NCases /\ before \in Reading /\ CoolReading(before)
  BY <1>1, HarnessAssumption DEF BenchInv, RunPlace, RowPlace
<1>3. row' \in CaseRow /\ row'.id = next /\ row'.before = before /\ row'.category \in Categories
  <2>1. CASE row' = Failed(next)
    BY <1>2, <2>1, RowsAreRows
  <2>2. CASE \E chosen \in Routes, named \in BOOLEAN : row' = Answered(next, chosen, named)
    <3>1. PICK chosen \in Routes, named \in BOOLEAN : row' = Answered(next, chosen, named)
      BY <2>2
    <3>2. /\ Answered(next, chosen, named) \in CaseRow
          /\ Answered(next, chosen, named).id = next
          /\ Answered(next, chosen, named).before = before
          /\ Answered(next, chosen, named).category \in Categories
      BY <1>2, RowsAreRows
    <3> QED BY <3>1, <3>2
  <2> QED BY <2>1, <2>2 DEF Ask
<1>4. RunPlace'
  BY <1>1 DEF BenchInv, RunPlace
<1>5. RowPlace'
  BY <1>1, <1>2, <1>3 DEF BenchInv, RowPlace, InOrder, CoolReading
<1>6. Disk'
  BY <1>1 DEF BenchInv, Disk
<1> QED BY <1>4, <1>5, <1>6 DEF BenchInv

LEMMA AfterKeepsInv == ASSUME BenchInv, After PROVE BenchInv'
<1>1. /\ phase = "after" /\ row \in CaseRow /\ row.id = next /\ CoolReading(row.before)
      /\ row.category \in Categories
  BY DEF After, BenchInv, RowPlace
<1>2. PICK known \in BOOLEAN : Record([row EXCEPT !.known = known])
  BY DEF After
<1>3. PICK x \in CaseRow : x = row
  BY <1>1
<1>4. /\ [x EXCEPT !.known = known] \in CaseRow /\ [x EXCEPT !.known = known].id = x.id
      /\ [x EXCEPT !.known = known].before = x.before
      /\ [x EXCEPT !.known = known].category = x.category
  BY RowsChange
<1>5. PICK r \in CaseRow : r = [x EXCEPT !.known = known]
  BY <1>4
<1>6. /\ r.id = next /\ r.category \in Categories /\ Record(r)
      /\ CoolReading(r.before)
  BY <1>1, <1>2, <1>3, <1>4, <1>5
<1> QED BY <1>1, <1>6, RecordKeepsInv

LEMMA UngatedKeepsInv == ASSUME BenchInv, EvalCase \/ ReplayCase PROVE BenchInv'
<1>1. harness # "benchmark" /\ phase = "ask"
  BY DEF EvalCase, ReplayCase
<1>2. next \in 1 .. NCases /\ before \in Reading
  BY <1>1, HarnessAssumption DEF BenchInv, RunPlace, RowPlace
<1>3. ASSUME NEW r \in CaseRow, r.id = next, Record(r) PROVE BenchInv'
  BY <1>1, <1>3, RecordKeepsInv
<1>4. ASSUME NEW failed \in BOOLEAN, NEW right \in BOOLEAN, Record(EvalRow(next, failed, right))
      PROVE  BenchInv'
  <2>1. PICK r \in CaseRow : r = EvalRow(next, failed, right) /\ r.id = next
    BY <1>2, EvalRowsAreRows
  <2> QED BY <1>3, <1>4, <2>1
<1>5. ASSUME NEW a \in CaseRow, a.id = next, Record([a EXCEPT !.raw = None]) PROVE BenchInv'
  <2>1. PICK r \in CaseRow : r = [a EXCEPT !.raw = None] /\ r.id = next
    BY <1>5, RowsChange
  <2> QED BY <1>3, <1>5, <2>1
<1>6. CASE EvalCase
  <2>1. CASE Record(EvalRow(next, TRUE, FALSE))
    BY <1>4, <2>1
  <2>2. ASSUME NEW chosen \in Routes, Record(EvalRow(next, FALSE, chosen = Expected[next]))
        PROVE  BenchInv'
    <3>1. PICK right \in BOOLEAN : right = (chosen = Expected[next])
      OBVIOUS
    <3> QED BY <1>4, <2>2, <3>1
  <2> QED BY <1>6, <2>1, <2>2 DEF EvalCase
<1>7. CASE ReplayCase
  <2>1. CASE Record([Failed(next) EXCEPT !.raw = None])
    <3>1. PICK a \in CaseRow : a = Failed(next) /\ a.id = next
      BY <1>2, RowsAreRows
    <3> QED BY <1>5, <2>1, <3>1
  <2>2. ASSUME NEW chosen \in Routes, NEW named \in BOOLEAN,
               Record([Answered(next, chosen, named) EXCEPT !.raw = None])
        PROVE  BenchInv'
    <3>1. PICK a \in CaseRow : a = Answered(next, chosen, named) /\ a.id = next
      BY <1>2, RowsAreRows
    <3> QED BY <1>5, <2>2, <3>1
  <2> QED BY <1>7, <2>1, <2>2 DEF ReplayCase
<1> QED BY <1>6, <1>7

LEMMA FinishKeepsInv == ASSUME BenchInv, Finish PROVE BenchInv'
<1>1. phase = "final"
  BY DEF Finish
<1>2. CASE rows = << >>
  BY <1>1, <1>2, AbortKeepsInv DEF Finish
<1>3. CASE rows # << >>
  <2>1. /\ saved' = Report(TRUE, rows) /\ phase' = "ended"
        /\ UNCHANGED <<harness, limit, next, before, row, rows>>
    BY <1>3 DEF Finish
  <2>2. /\ InOrder(rows) /\ rows \in Seq(CaseRow) /\ Len(rows) = limit
    BY <1>1, HarnessAssumption DEF BenchInv, RunPlace, RowPlace, InOrder
  <2>3. RunPlace'
    BY <1>1, <2>1 DEF BenchInv, RunPlace
  <2>4. RowPlace'
    BY <2>1 DEF BenchInv, RowPlace, InOrder, CoolReading
  <2>5. Disk'
    BY <1>3, <2>1, <2>2 DEF Disk, InOrder, CoolReading
  <2> QED BY <2>3, <2>4, <2>5 DEF BenchInv
<1> QED BY <1>2, <1>3

LEMMA KillKeepsInv == ASSUME BenchInv, Kill PROVE BenchInv'
<1>1. /\ phase \in Running /\ phase' = "dead"
      /\ UNCHANGED <<harness, limit, next, before, row, rows>>
      /\ saved' = saved \/ (harness = "replay" /\ saved' = Torn)
  BY DEF Kill
<1>2. CASE saved' = saved
  BY <1>1, <1>2, PlaceOnly DEF Running, BenchInv, RowPlace
<1>3. CASE harness = "replay" /\ saved' = Torn
  <2>1. RunPlace'
    BY <1>1 DEF BenchInv, RunPlace
  <2>2. RowPlace'
    BY <1>1 DEF BenchInv, RowPlace, InOrder, CoolReading
  <2>3. Disk'
    BY <1>1, <1>3 DEF Disk
  <2> QED BY <2>1, <2>2, <2>3 DEF BenchInv
<1> QED BY <1>1, <1>2, <1>3

LEMMA RepeatKeepsInv == ASSUME BenchInv, Repeat PROVE BenchInv'
<1>1. /\ harness' = harness /\ limit' = NCases /\ next' = 1 /\ before' = NoReading
      /\ rows' = << >> /\ row' = << >>
      /\ phase' = IF NCases = 0 THEN "final" ELSE FirstPhase(harness)
      /\ saved' = IF harness = "replay" THEN saved ELSE Report(FALSE, << >>)
  BY DEF Repeat, Begin
<1>2. RunPlace'
  BY <1>1, HarnessAssumption DEF BenchInv, RunPlace, FirstPhase, Harness
<1>3. before' \in Reading
  BY <1>1 DEF NoReading, Reading
<1>4. InOrder(rows)' /\ Len(rows') = 0
  BY <1>1, EmptyInOrder DEF InOrder, CoolReading
<1>5. RowPlace'
  BY <1>1, <1>3, <1>4 DEF RowPlace, FirstPhase
<1>6. Disk'
  <2>1. CASE harness = "replay"
    BY <1>1, <2>1 DEF BenchInv, RunPlace, Disk, InOrder, CoolReading
  <2>2. CASE harness # "replay"
    BY <1>1, <2>2 DEF Disk
  <2> QED BY <2>1, <2>2
<1> QED BY <1>2, <1>5, <1>6 DEF BenchInv

LEMMA NextKeepsInv == ASSUME BenchInv, [BenchNext]_benchVars PROVE BenchInv'
<1>1. CASE UNCHANGED benchVars
  BY <1>1 DEF benchVars, BenchInv, RunPlace, RowPlace, Disk, InOrder, CoolReading
<1>2. CASE GateFails \/ AfterFails \/ ReplayFails
  BY <1>2, AbortKeepsInv DEF GateFails, AfterFails, ReplayFails
<1> QED BY <1>1, <1>2, GateKeepsInv, AskKeepsInv, AfterKeepsInv, UngatedKeepsInv,
           FinishKeepsInv, KillKeepsInv, RepeatKeepsInv DEF BenchNext, Proceed

LEMMA BenchInvHolds == BenchSpec => []BenchInv
<1>1. BenchInit => BenchInv
  BY InitInv
<1>2. BenchInv /\ [BenchNext]_benchVars => BenchInv'
  BY NextKeepsInv
<1> QED BY <1>1, <1>2, PTL DEF BenchSpec

\* The report that is on the disk is of rows in order, and of all of them when it
\* says so.
LEMMA SavedCases ==
    ASSUME BenchInv, saved \notin {NoFile, Torn}
    PROVE  \E cases \in Seq(CaseRow) :
              /\ InOrder(cases) /\ Len(cases) <= NCases
              /\ \/ saved = Report(FALSE, cases)
                 \/ saved = Report(TRUE, cases) /\ Len(cases) = limit /\ limit > 0
<1>1. /\ rows \in Seq(CaseRow) /\ InOrder(rows) /\ Len(rows) = next - 1 /\ next \in Nat
      /\ Len(rows) <= NCases /\ limit <= NCases
  BY HarnessAssumption DEF BenchInv, RunPlace, RowPlace, InOrder
<1>2. \A cases \in Seq(CaseRow) : cases # << >> => Len(cases) > 0
  BY EmptySeq, LenProperties
<1>3. CASE harness = "replay"
  <2>1. PICK cases \in Seq(CaseRow) : /\ InOrder(cases) /\ cases # << >> /\ Len(cases) = limit
                                      /\ saved = Report(TRUE, cases)
    BY <1>3 DEF BenchInv, Disk
  <2>2. Len(cases) <= NCases /\ limit > 0
    BY <1>1, <1>2, <2>1
  <2> QED BY <2>1, <2>2
<1>4. CASE harness # "replay" /\ saved = Report(FALSE, rows)
  <2>1. PICK cases \in Seq(CaseRow) : cases = rows
    BY <1>1
  <2> QED BY <1>1, <1>4, <2>1
<1>5. CASE harness # "replay" /\ phase = "ended" /\ rows # << >> /\ saved = Report(TRUE, rows)
  <2>1. Len(rows) = limit
    BY <1>1, <1>5, HarnessAssumption DEF BenchInv, RunPlace
  <2>2. PICK cases \in Seq(CaseRow) : cases = rows
    BY <1>1
  <2> QED BY <1>1, <1>2, <1>5, <2>1, <2>2
<1> QED BY <1>3, <1>4, <1>5 DEF BenchInv, Disk

\* What --out holds is what happened, after any number of runs, failures and deaths.
THEOREM ReportIsHonest == BenchSpec => []ReportHonest
<1>1. ASSUME BenchInv PROVE ReportHonest
  <2> SUFFICES ASSUME saved \notin {NoFile, Torn}
               PROVE  /\ \A k \in DOMAIN saved.cases : saved.cases[k].id = k
                      /\ saved.complete =>
                           /\ Len(saved.cases) = limit
                           /\ saved.correct = Cardinality({k \in DOMAIN saved.cases : saved.cases[k].guarded})
                           /\ limit > 0
    BY DEF ReportHonest, IsReport
  <2>1. PICK cases \in Seq(CaseRow) :
              /\ InOrder(cases)
              /\ \/ saved = Report(FALSE, cases)
                 \/ saved = Report(TRUE, cases) /\ Len(cases) = limit /\ limit > 0
    BY <1>1, SavedCases
  <2>2. saved.cases = cases
    BY <2>1 DEF Report
  <2>3. \A k \in DOMAIN saved.cases : saved.cases[k].id = k
    BY <2>1, <2>2 DEF InOrder
  <2>4. HowMany(cases, GuardOk) = Cardinality({k \in DOMAIN cases : cases[k].guarded})
    BY DEF HowMany, GuardOk
  <2>5. CASE saved = Report(FALSE, cases)
    <3>1. saved.complete = FALSE
      BY <2>5 DEF Report
    <3> QED BY <2>3, <3>1
  <2>6. CASE saved = Report(TRUE, cases) /\ Len(cases) = limit /\ limit > 0
    <3>1. saved.correct = HowMany(cases, GuardOk)
      BY <2>6 DEF Report
    <3> QED BY <2>2, <2>3, <2>4, <2>6, <3>1
  <2> QED BY <2>1, <2>5, <2>6
<1> QED BY <1>1, BenchInvHolds, PTL

\* A run that is saved after every case loses no case but the one it was at.
THEOREM OneCaseIsLost == BenchSpec => []LosesOneCase
<1>1. ASSUME BenchInv PROVE LosesOneCase
  <2> SUFFICES ASSUME harness # "replay"
               PROVE  saved \notin {NoFile, Torn} /\ Len(saved.cases) >= next - 1
    BY DEF LosesOneCase, IsReport
  <2>1. PICK complete \in BOOLEAN : saved = Report(complete, rows)
    BY <1>1 DEF BenchInv, Disk
  <2>2. saved.cases = rows /\ Len(rows) = next - 1 /\ next \in Nat /\ rows \in Seq(CaseRow)
    BY <1>1, <2>1 DEF Report, BenchInv, RunPlace, RowPlace, InOrder
  <2>3. HowMany(rows, GuardOk) \in Nat
    <3>1. DOMAIN rows = 1 .. Len(rows)
      BY <2>2, LenProperties
    <3>2. IsFiniteSet(1 .. Len(rows))
      BY <2>2, LenProperties, FS_Interval
    <3>3. IsFiniteSet({i \in DOMAIN rows : GuardOk(rows[i])})
      BY <3>1, <3>2, FS_Subset
    <3> QED BY <3>3, FS_CardinalityType DEF HowMany
  <2>4. saved \in [complete : BOOLEAN, cases : Seq(CaseRow), correct : Nat]
    <3> DEFINE correct == IF complete THEN HowMany(rows, GuardOk) ELSE 0
    <3>1. correct \in Nat
      BY <2>3
    <3>2. saved = [complete |-> complete, cases |-> rows, correct |-> correct]
      BY <2>1 DEF Report
    <3> HIDE DEF correct
    <3> QED BY <2>2, <3>1, <3>2
  <2> QED BY <2>2, <2>4, MarkersAreNoReports
<1> QED BY <1>1, BenchInvHolds, PTL

\* No case of the benchmark was started on a phone that was too hot.
THEOREM CasesStartCool == BenchSpec => []MeasuredCool
<1>1. ASSUME BenchInv PROVE MeasuredCool
  <2> SUFFICES ASSUME harness = "benchmark", saved \notin {NoFile, Torn}
               PROVE  \A k \in DOMAIN saved.cases : CoolReading(saved.cases[k].before)
    BY DEF MeasuredCool, IsReport, CoolReading
  <2>1. PICK cases \in Seq(CaseRow) :
              InOrder(cases) /\ (saved = Report(FALSE, cases) \/ saved = Report(TRUE, cases))
    BY <1>1, SavedCases
  <2>2. saved.cases = cases
    BY <2>1 DEF Report
  <2> QED BY <2>1, <2>2 DEF InOrder
<1> QED BY <1>1, BenchInvHolds, PTL
-----------------------------------------------------------------------------
(* The analysis of a report.                                                *)

Figures == {"n", "raw", "guarded", "regressions", "rescues"}

\* The rows a figure counts.
Counted(cases, f) ==
    {i \in DOMAIN cases :
        CASE f = "n" -> TRUE
          [] f = "raw" -> RawOk(cases[i])
          [] f = "guarded" -> GuardOk(cases[i])
          [] f = "regressions" -> Regression(cases[i])
          [] f = "rescues" -> Rescue(cases[i])}

CategoryOf(cases) == [i \in DOMAIN cases |-> cases[i].category]

\* A line of the table counts the members of one class of the rows a figure counts.
LEMMA LineCounts ==
    ASSUME NEW cases \in Seq(CaseRow), NEW f \in Figures, NEW cat
    PROVE  TableLine(cases, cat)[f]
              = Cardinality(ClassOf(Counted(cases, f), CategoryOf(cases), cat))
<1> DEFINE K == ClassOf(Counted(cases, f), CategoryOf(cases), cat)
<1>1. Entry(cases, cat)[f] = Cardinality(K)
  <2>1. CASE f = "n"
    <3>1. K = {i \in DOMAIN cases : cases[i].category = cat}
      BY <2>1 DEF ClassOf, Counted, CategoryOf
    <3> QED BY <2>1, <3>1 DEF Entry, HowMany
  <2>2. CASE f = "raw"
    <3>1. K = {i \in DOMAIN cases : cases[i].category = cat /\ RawOk(cases[i])}
      BY <2>2 DEF ClassOf, Counted, CategoryOf
    <3> QED BY <2>2, <3>1 DEF Entry, HowMany
  <2>3. CASE f = "guarded"
    <3>1. K = {i \in DOMAIN cases : cases[i].category = cat /\ GuardOk(cases[i])}
      BY <2>3 DEF ClassOf, Counted, CategoryOf
    <3> QED BY <2>3, <3>1 DEF Entry, HowMany
  <2>4. CASE f = "regressions"
    <3>1. K = {i \in DOMAIN cases : cases[i].category = cat /\ Regression(cases[i])}
      BY <2>4 DEF ClassOf, Counted, CategoryOf
    <3> QED BY <2>4, <3>1 DEF Entry, HowMany
  <2>5. CASE f = "rescues"
    <3>1. K = {i \in DOMAIN cases : cases[i].category = cat /\ Rescue(cases[i])}
      BY <2>5 DEF ClassOf, Counted, CategoryOf
    <3> QED BY <2>5, <3>1 DEF Entry, HowMany
  <2> QED BY <2>1, <2>2, <2>3, <2>4, <2>5 DEF Figures
<1>2. CASE cat \in {cases[i].category : i \in DOMAIN cases}
  BY <1>1, <1>2 DEF TableLine, CasesStats
<1>3. CASE cat \notin {cases[i].category : i \in DOMAIN cases}
  <2>1. K = {}
    BY <1>3 DEF ClassOf, Counted, CategoryOf
  <2>2. DOMAIN << >> = {}
    BY EmptySeq
  <2>3. Entry(<< >>, cat)[f] = Cardinality({})
    BY <2>2 DEF Entry, HowMany, Figures
  <2> QED BY <1>3, <2>1, <2>3 DEF TableLine, CasesStats
<1> QED BY <1>2, <1>3

\* The figure of all rows counts them.
LEMMA TotalCounts ==
    ASSUME NEW cases \in Seq(CaseRow), NEW f \in Figures, Analyzed(cases)
    PROVE  Analyze(cases)[f] = Cardinality(Counted(cases, f))
<1> USE DEF Analyze
<1>1. DOMAIN cases = 1 .. Len(cases) /\ Len(cases) \in Nat
  BY LenProperties
<1>2. CASE f = "n"
  <2>1. Counted(cases, f) = 1 .. Len(cases)
    BY <1>1, <1>2 DEF Counted
  <2>2. Cardinality(1 .. Len(cases)) = Len(cases)
    BY <1>1, FS_Interval
  <2> QED BY <1>2, <2>1, <2>2 DEF Analyze
<1>3. CASE f = "raw"
  <2>1. Counted(cases, f) = {i \in DOMAIN cases : RawOk(cases[i])}
    BY <1>3 DEF Counted
  <2> QED BY <1>3, <2>1 DEF Analyze, HowMany
<1>4. CASE f = "guarded"
  <2>1. Counted(cases, f) = {i \in DOMAIN cases : GuardOk(cases[i])}
    BY <1>4 DEF Counted
  <2> QED BY <1>4, <2>1 DEF Analyze, HowMany
<1>5. CASE f = "regressions"
  <2>1. Counted(cases, f) = {i \in DOMAIN cases : Regression(cases[i])}
    BY <1>5 DEF Counted
  <2> QED BY <1>5, <2>1 DEF Analyze, HowMany
<1>6. CASE f = "rescues"
  <2>1. Counted(cases, f) = {i \in DOMAIN cases : Rescue(cases[i])}
    BY <1>6 DEF Counted
  <2> QED BY <1>6, <2>1 DEF Analyze, HowMany
<1> QED BY <1>2, <1>3, <1>4, <1>5, <1>6 DEF Figures

\* What is counted is finite.
LEMMA CountedIsFinite ==
    ASSUME NEW cases \in Seq(CaseRow), NEW f \in Figures
    PROVE  IsFiniteSet(Counted(cases, f)) /\ Cardinality(Counted(cases, f)) <= Len(cases)
<1>1. DOMAIN cases = 1 .. Len(cases) /\ Len(cases) \in Nat
  BY LenProperties
<1>2. IsFiniteSet(1 .. Len(cases)) /\ Cardinality(1 .. Len(cases)) = Len(cases)
  BY <1>1, FS_Interval
<1>3. Counted(cases, f) \in SUBSET (1 .. Len(cases))
  BY <1>1 DEF Counted
<1> QED BY <1>2, <1>3, FS_Subset

\* The lines of the table add up when every row is of one of its categories.
LEMMA LinesAddUp ==
    ASSUME NEW cases \in Seq(CaseRow), NEW most \in Nat, Len(cases) <= most, NEW f \in Figures,
           Analyzed(cases), \A i \in DOMAIN cases : cases[i].category \in Categories
    PROVE  Cardinality({p \in Categories \X (1 .. most) : p[2] <= TableLine(cases, p[1])[f]})
              = Analyze(cases)[f]
<1> DEFINE S == Counted(cases, f)
           c == CategoryOf(cases)
           Lines == {p \in Categories \X (1 .. most) : p[2] <= TableLine(cases, p[1])[f]}
<1>1. IsFiniteSet(S) /\ Cardinality(S) <= Len(cases) /\ Len(cases) \in Nat
  BY CountedIsFinite, LenProperties
<1>2. \A x \in S : c[x] \in Categories
  BY DEF Counted, CategoryOf
<1>3. ASSUME NEW k
      PROVE  Cardinality(ClassOf(S, c, k)) \in Nat /\ Cardinality(ClassOf(S, c, k)) <= most
  <2>1. ClassOf(S, c, k) \in SUBSET S
    BY DEF ClassOf
  <2>2. Cardinality(S) \in Nat
    BY <1>1, FS_CardinalityType
  <2>3. /\ IsFiniteSet(ClassOf(S, c, k))
        /\ Cardinality(ClassOf(S, c, k)) <= Cardinality(S)
    BY <1>1, <2>1, FS_Subset
  <2>4. Cardinality(ClassOf(S, c, k)) \in Nat
    BY <2>3, FS_CardinalityType
  <2> QED BY <1>1, <2>2, <2>3, <2>4
<1>4. Lines = Places(S, c, Categories)
  <2>1. ASSUME NEW k \in Categories, NEW m \in Nat
        PROVE  m \in 1 .. most /\ m <= TableLine(cases, k)[f]
                  <=> m \in 1 .. Cardinality(ClassOf(S, c, k))
    <3>1. TableLine(cases, k)[f] = Cardinality(ClassOf(S, c, k))
      BY LineCounts
    <3> HIDE DEF S, c
    <3> QED BY <1>3, <3>1
  <2> HIDE DEF S, c
  <2> QED BY <2>1 DEF Places
<1>5. Cardinality(Places(S, c, Categories)) = Cardinality(S)
  <2> HIDE DEF S, c
  <2> QED BY <1>1, <1>2, PlacesAreMembers
<1> QED BY <1>4, <1>5, TotalCounts

\* The guard adds its rescues to the right answers and takes its regressions away.
LEMMA GuardAddsUp ==
    ASSUME NEW cases \in Seq(CaseRow), Analyzed(cases)
    PROVE  LET all == Analyze(cases) IN
           all.guarded = all.raw + all.rescues - all.regressions
<1> DEFINE Raw == Counted(cases, "raw")
           Guard == Counted(cases, "guarded")
           Lost == Counted(cases, "regressions")
           Won == Counted(cases, "rescues")
<1>1. /\ IsFiniteSet(Raw) /\ IsFiniteSet(Guard) /\ IsFiniteSet(Lost) /\ IsFiniteSet(Won)
  BY CountedIsFinite DEF Figures
<1>2. Raw \cup Won = Guard \cup Lost /\ Raw \cap Won = {} /\ Guard \cap Lost = {}
  BY ElementOfSeq DEF Counted, RawOk, GuardOk, Regression, Rescue
<1>3. Cardinality(Raw \cup Won) = Cardinality(Guard \cup Lost)
  BY <1>2
<1>4. /\ Analyze(cases).raw = Cardinality(Raw) /\ Analyze(cases).guarded = Cardinality(Guard)
      /\ Analyze(cases).regressions = Cardinality(Lost) /\ Analyze(cases).rescues = Cardinality(Won)
  BY TotalCounts DEF Figures
<1> HIDE DEF Raw, Guard, Lost, Won
<1>5. /\ Cardinality(Raw) \in Nat /\ Cardinality(Guard) \in Nat
      /\ Cardinality(Lost) \in Nat /\ Cardinality(Won) \in Nat
  BY <1>1, FS_CardinalityType
<1>6. Cardinality(Raw \cup Won) = Cardinality(Raw) + Cardinality(Won) - Cardinality({})
  BY <1>1, <1>2, FS_Union
<1>7. Cardinality(Guard \cup Lost) = Cardinality(Guard) + Cardinality(Lost) - Cardinality({})
  BY <1>1, <1>2, FS_Union
<1>8. Cardinality({}) = 0
  BY FS_EmptySet
<1>9. Cardinality(Guard) = Cardinality(Raw) + Cardinality(Won) - Cardinality(Lost)
  <2>1. Cardinality(Raw \cup Won) = Cardinality(Raw) + Cardinality(Won)
    BY <1>5, <1>6, <1>8
  <2>2. Cardinality(Guard \cup Lost) = Cardinality(Guard) + Cardinality(Lost)
    BY <1>5, <1>7, <1>8
  <2>3. Cardinality(Raw) + Cardinality(Won) = Cardinality(Guard) + Cardinality(Lost)
    BY <1>3, <2>1, <2>2, Zenon
  <2> QED BY <1>5, <2>3
<1> QED BY <1>4, <1>9

\* Of any rows that the tools get through, each of one of the table's categories, the
\* figures agree with each other, whichever rows have a raw route.
THEOREM RowsAnalyze ==
    ASSUME NEW cases \in Seq(CaseRow), NEW most \in Nat, Len(cases) <= most,
           Analyzed(cases), \A i \in DOMAIN cases : cases[i].category \in Categories
    PROVE  FiguresAgree(cases, most)
<1>1. \A f \in Figures :
        Cardinality({p \in Categories \X (1 .. most) : p[2] <= TableLine(cases, p[1])[f]})
           = Analyze(cases)[f]
  BY LinesAddUp
<1>2. ASSUME NEW cat \in DOMAIN PerCategory(cases)
      PROVE  LET line == TableLine(cases, cat) IN
             PerCategory(cases)[cat] = <<line.raw, line.n>>
  <2>1. cat \in {cases[i].category : i \in DOMAIN cases}
    BY DEF PerCategory
  <2>2. TableLine(cases, cat) = Entry(cases, cat)
    BY <2>1 DEF TableLine, CasesStats
  <2>3. {i \in {j \in DOMAIN cases : cases[j].category = cat} : RawOk(cases[i])}
           = {i \in DOMAIN cases : cases[i].category = cat /\ RawOk(cases[i])}
    OBVIOUS
  <2>4. Entry(cases, cat).raw
           = Cardinality({i \in DOMAIN cases : cases[i].category = cat /\ RawOk(cases[i])})
    BY DEF Entry, HowMany
  <2>5. Entry(cases, cat).n = Cardinality({i \in DOMAIN cases : cases[i].category = cat})
    BY DEF Entry, HowMany
  <2>6. PerCategory(cases)[cat] = <<Entry(cases, cat).raw, Entry(cases, cat).n>>
    BY <2>1, <2>3, <2>4, <2>5 DEF PerCategory
  <2> QED BY <2>2, <2>6
<1> QED BY <1>1, <1>2, GuardAddsUp DEF FiguresAgree, Figures

\* A benchmark report that is on the disk analyses, at any moment and once the tools get
\* through it, to figures that agree; a complete one is refused for a null reading only.
THEOREM AnalysesAgree == BenchSpec => []AnalysisAgrees
<1>1. ASSUME BenchInv PROVE AnalysisAgrees
  <2> SUFFICES ASSUME saved \notin {NoFile, Torn}, harness = "benchmark"
               PROVE  IF Analyzed(saved.cases) THEN FiguresAgree(saved.cases, NCases)
                      ELSE saved.complete => \E k \in DOMAIN saved.cases : ~saved.cases[k].known
    BY DEF AnalysisAgrees, IsReport
  <2>1. PICK cases \in Seq(CaseRow) :
              /\ InOrder(cases) /\ Len(cases) <= NCases
              /\ \/ saved = Report(FALSE, cases)
                 \/ saved = Report(TRUE, cases) /\ Len(cases) = limit /\ limit > 0
    BY <1>1, SavedCases
  <2>2. saved.cases = cases
    BY <2>1 DEF Report
  <2>3. CASE Analyzed(cases)
    <3>1. \A i \in DOMAIN cases : cases[i].category \in Categories
      BY <2>1 DEF InOrder
    <3> QED BY <2>1, <2>2, <2>3, <3>1, RowsAnalyze, HarnessAssumption
  <2>4. CASE ~Analyzed(cases)
    <3>1. saved.complete => cases # << >>
      BY <2>1, EmptySeq DEF Report
    <3> QED BY <2>2, <2>4, <3>1 DEF Analyzed
  <2> QED BY <2>3, <2>4
<1> QED BY <1>1, BenchInvHolds, PTL
=============================================================================
