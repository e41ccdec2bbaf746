---------------------------- MODULE BenchHarness ----------------------------
(***************************************************************************)
(* The three programs that put routing cases to a model on a phone:        *)
(*   benchmark  tools/benchmark_decision_android.py (thermal gate, guard)  *)
(*   eval       tools/eval_phone_routing.py         (a split of the data)  *)
(*   replay     tools/replay_agent_pilot.py         (saves once, at the end)*)
(* One process goes through the cases in their order.  Readings of the     *)
(* phone, answers, failures and the death of the process come at any step; *)
(* a run may be repeated with the same --out.                              *)
(***************************************************************************)
EXTENDS BenchAnalysis

CONSTANTS
    NCases,         \* how many cases the suite has
    Category,       \* Category[i] of case i
    Expected,       \* Expected[i]: the route that is right
    Relevant,       \* Relevant[i]: the routes is_decision_relevant lets through
    Routes,         \* CRITERIA, "answer" among them
    Temps,          \* battery temperatures in degrees C
    Statuses,       \* thermal status numbers
    NoFile, Torn,   \* a file that does not exist, that a death cut short
    MaxWait,        \* bound: cooling polls before the 1800 s are over
    MaxRuns         \* bound: runs with the same --out

ASSUME HarnessAssumption ==
    /\ NCases \in Nat /\ MaxWait \in Nat /\ MaxRuns \in Nat \ {0}
    /\ Temps \subseteq Int /\ Statuses \subseteq Nat
    /\ "answer" \in Routes
    /\ Category \in [1 .. NCases -> Categories]
    /\ Expected \in [1 .. NCases -> Routes]
    /\ Relevant \in [1 .. NCases -> SUBSET Routes]

Harness == {"benchmark", "eval", "replay"}

VARIABLES
    harness, limit,     \* the program, and how many cases it was asked to run
    phase,
    next,               \* the case it is at
    waited,             \* cooling polls of this case
    before,             \* the reading the case started with
    row,                \* the case that has been answered but not recorded
    rows,               \* report["cases"] in memory
    saved,              \* what --out holds
    runs

benchVars == <<harness, limit, phase, next, waited, before, row, rows, saved, runs>>

Reading == [temperatureC : Temps \cup {None}, thermalStatus : Statuses \cup {None}]

Running == {"gate", "ask", "after", "final"}

NoReading == [temperatureC |-> None, thermalStatus |-> None]

\* The rows that are recorded; `guarded` is their field `correct`, None stands for a
\* field that a program does not write.
CaseRow == [id : Nat, category : Categories \cup {None}, before : Reading,
            known : BOOLEAN, failed : BOOLEAN, raw : BOOLEAN \cup {None}, guarded : BOOLEAN]

ASSUME MarkersAreNoReports ==
    {NoFile, Torn} \cap [complete : BOOLEAN, cases : Seq(CaseRow), correct : Nat] = {}

\* Mutant: the model's own answers are counted, not the guarded ones.
ReportRaw(complete, cases) ==
    [complete |-> complete, cases |-> cases,
     correct |-> IF complete THEN HowMany(cases, RawOk) ELSE 0]

Report(complete, cases) ==
    [complete |-> complete, cases |-> cases,
     correct |-> IF complete THEN HowMany(cases, GuardOk) ELSE 0]

\* The first case of a run.
FirstPhase(h) == IF h = "benchmark" THEN "gate" ELSE "ask"

\* A run begins: everything but the replay overwrites --out with an empty report.
\* --limit cuts the benchmark's suite, to nothing when it is zero.
Begin(h, l, disk) ==
    /\ harness' = h /\ limit' = l
    /\ next' = 1 /\ waited' = 0 /\ before' = NoReading /\ row' = << >> /\ rows' = << >>
    /\ phase' = IF l = 0 THEN "final" ELSE FirstPhase(h)
    /\ saved' = IF h = "replay" THEN disk ELSE Report(FALSE, << >>)

Limits(h) == IF h = "benchmark" THEN {0, NCases} ELSE {NCases}

BenchInit ==
    /\ harness \in Harness /\ limit \in Limits(harness)
    /\ next = 1 /\ waited = 0 /\ before = NoReading /\ row = << >> /\ rows = << >>
    /\ phase = IF limit = 0 THEN "final" ELSE FirstPhase(harness)
    /\ saved = IF harness = "replay" THEN NoFile ELSE Report(FALSE, << >>)
    /\ runs = 1

\* The same --out again, after the last run has ended one way or another.
Repeat ==
    /\ phase \notin Running /\ runs < MaxRuns
    /\ Begin(harness, NCases, saved)
    /\ runs' = runs + 1

Abort ==
    /\ phase' = "aborted"
    /\ UNCHANGED <<harness, limit, next, waited, before, row, rows, saved, runs>>

-----------------------------------------------------------------------------
(* benchmark_decision_android.py.                                           *)

\* Mutant.
CoolEither(r) == r.temperatureC <= 38 \/ r.thermalStatus <= 1

Cool(r) == r.temperatureC <= 38 /\ r.thermalStatus <= 1

\* Mutant: the clock wraps before the limit.
WaitedWrapping == (waited + 1) % MaxWait

\* The clock of the cooldown starts before the first poll.
Waited == waited + 1

\* A reading before the case: it opens the gate, makes the run wait for the next
\* poll, or ends it when a value is missing or the phone has been hot for too long.
Gate ==
    /\ phase = "gate"
    /\ \E r \in Reading :
          \/ /\ None \in {r.temperatureC, r.thermalStatus}
             /\ Abort
          \/ /\ None \notin {r.temperatureC, r.thermalStatus} /\ Cool(r)
             /\ before' = r /\ phase' = "ask"
             /\ UNCHANGED <<harness, limit, next, waited, row, rows, saved, runs>>
          \/ /\ None \notin {r.temperatureC, r.thermalStatus} /\ ~Cool(r)
             /\ IF waited >= MaxWait THEN Abort
                ELSE /\ waited' = Waited
                     /\ UNCHANGED <<harness, limit, phase, next, before, row, rows, saved, runs>>

\* adb does not answer.  Outside of the try block, the exception ends the run.
GateFails == phase = "gate" /\ Abort

\* The route a case ends with: the guard replaces an irrelevant tool by an answer.
Guarded(i, chosen) == IF chosen = "answer" \/ chosen \in Relevant[i] THEN chosen ELSE "answer"

\* The row of an answered case.  `named` says that the answer calls the chosen
\* route by its kind, tool or workflow, as the expected route does; an answer has
\* no kind.
Answered(i, chosen, named) ==
    [id |-> i, category |-> Category[i], before |-> before, known |-> TRUE, failed |-> FALSE,
     raw |-> chosen = Expected[i] /\ (named \/ chosen = "answer"),
     guarded |-> /\ Guarded(i, chosen) = Expected[i]
                 /\ named \/ Guarded(i, chosen) = "answer"]

\* A failed request, an unknown route, probabilities that do not add up, generated
\* tokens: the case counts as wrong.
Failed(i) ==
    [id |-> i, category |-> Category[i], before |-> before, known |-> TRUE, failed |-> TRUE,
     raw |-> FALSE, guarded |-> FALSE]

Ask ==
    /\ harness = "benchmark" /\ phase = "ask"
    /\ \/ \E chosen \in Routes, named \in BOOLEAN : row' = Answered(next, chosen, named)
       \/ row' = Failed(next)
    /\ phase' = "after"
    /\ UNCHANGED <<harness, limit, next, waited, before, rows, saved, runs>>

\* Mutant: the report is saved with the last case only.
RecordLate(r) ==
    /\ rows' = Append(rows, r)
    /\ saved' = IF next < limit THEN saved ELSE Report(FALSE, rows')
    /\ row' = << >> /\ before' = NoReading
    /\ next' = next + 1 /\ waited' = 0
    /\ phase' = IF next = limit THEN "final" ELSE FirstPhase(harness)
    /\ UNCHANGED <<harness, limit, runs>>

\* The case is recorded once the phone has been read again.
Record(r) ==
    /\ rows' = Append(rows, r)
    /\ saved' = IF harness = "replay" THEN saved ELSE Report(FALSE, rows')
    /\ row' = << >> /\ before' = NoReading
    /\ next' = next + 1 /\ waited' = 0
    /\ phase' = IF next = limit THEN "final" ELSE FirstPhase(harness)
    /\ UNCHANGED <<harness, limit, runs>>

\* The phone is read again; a thermal status that cannot be parsed is recorded as null.
After ==
    /\ phase = "after"
    /\ \E known \in BOOLEAN : Record([row EXCEPT !.known = known])

\* The second reading fails, outside of the try block: the answer is lost with the
\* run.
AfterFails == phase = "after" /\ Abort

-----------------------------------------------------------------------------
(* eval_phone_routing.py and replay_agent_pilot.py.                         *)

\* Without a guard a case is right or wrong as the model answered it.  The id names
\* no category, and the row has no raw route and no readings.
EvalRow(i, failed, right) ==
    [id |-> i, category |-> None, before |-> NoReading, known |-> TRUE, failed |-> failed,
     raw |-> None, guarded |-> right]

EvalCase ==
    /\ harness = "eval" /\ phase = "ask"
    /\ \/ \E chosen \in Routes : Record(EvalRow(next, FALSE, chosen = Expected[next]))
       \/ Record(EvalRow(next, TRUE, FALSE))

\* The replay guards as the benchmark does and keeps no raw route; an answer that
\* does not parse is the route "invalid".
ReplayCase ==
    /\ harness = "replay" /\ phase = "ask"
    /\ \/ \E chosen \in Routes, named \in BOOLEAN :
             Record([Answered(next, chosen, named) EXCEPT !.raw = None])
       \/ Record([Failed(next) EXCEPT !.raw = None])

\* The request itself is outside of its try block.
ReplayFails == harness = "replay" /\ phase = "ask" /\ Abort

-----------------------------------------------------------------------------

\* The last save.  The mean over no cases raises before `complete` is set.
Finish ==
    /\ phase = "final"
    /\ IF rows = << >> THEN Abort
       ELSE /\ saved' = Report(TRUE, rows)
            /\ phase' = "ended"
            /\ UNCHANGED <<harness, limit, next, waited, before, row, rows, runs>>

\* The process is killed.  The benchmark and the evaluation write beside --out and
\* rename; the replay writes into it.
Kill ==
    /\ phase \in Running
    /\ phase' = "dead"
    /\ saved' \in {saved} \cup (IF harness = "replay" /\ phase = "final" THEN {Torn} ELSE {})
    /\ UNCHANGED <<harness, limit, next, waited, before, row, rows, runs>>

Proceed ==
    \/ Gate \/ GateFails \/ Ask \/ After \/ AfterFails
    \/ EvalCase \/ ReplayCase \/ ReplayFails \/ Finish

BenchNext == Proceed \/ Kill \/ Repeat

BenchSpec == BenchInit /\ [][BenchNext]_benchVars

\* Every call a run makes has a timeout: it goes on until it ends.
BenchFairSpec == BenchSpec /\ WF_benchVars(Proceed)

-----------------------------------------------------------------------------

IsReport(r) == r \notin {NoFile, Torn}

\* What --out says is what happened: the cases in the order of the suite with none
\* twice and none left out, and `complete` only with all that were asked for and
\* with their count of right answers.
ReportHonest ==
    IsReport(saved) =>
        /\ \A k \in DOMAIN saved.cases : saved.cases[k].id = k
        /\ saved.complete =>
              /\ Len(saved.cases) = limit
              /\ saved.correct = Cardinality({k \in DOMAIN saved.cases : saved.cases[k].guarded})
              /\ limit > 0

\* A run of the benchmark or the evaluation that is killed, or that an unreadable
\* phone ends, loses no case but the one it was at.
LosesOneCase ==
    harness # "replay" =>
        /\ IsReport(saved)
        /\ Len(saved.cases) >= next - 1

\* Every case the benchmark records was started on a phone within the limits, after
\* however many polls.
MeasuredCool ==
    harness = "benchmark" /\ IsReport(saved) =>
        \A k \in DOMAIN saved.cases :
            /\ saved.cases[k].before.temperatureC \in {t \in Temps : t <= 38}
            /\ saved.cases[k].before.thermalStatus \in {s \in Statuses : s <= 1}

\* Read at any moment, a benchmark report that the tools get through analyses to
\* figures that agree with each other.  They do not get through all of them: the one
\* saved before the first case ends both with an exception, and a null thermal status
\* ends the comparison; but nothing else keeps a complete report from it.
AnalysisAgrees ==
    harness = "benchmark" /\ IsReport(saved) =>
        IF Analyzed(saved.cases) THEN FiguresAgree(saved.cases, NCases)
        ELSE saved.complete => \E k \in DOMAIN saved.cases : ~saved.cases[k].known

\* A run ends, also on a phone that never cools down.
RunEnds == (phase \in Running) ~> (phase \notin Running)
=============================================================================
