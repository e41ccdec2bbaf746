---------------------------- MODULE TrainingRuns ----------------------------
(***************************************************************************)
(* From the authored queries to an evaluated adapter: the programs         *)
(*   build      tools/build_phone_routing_dataset.py                       *)
(*   prepare    tools/prepare_general_mixture.py                           *)
(*   phone, general, combined   tools/train_*_routing.py                   *)
(*   evaluate   tools/evaluate_phone_routing_model.py                      *)
(* and the directories through which they hand each other data.  They are  *)
(* started by hand, one at a time, in any order and more than once; each   *)
(* goes through its steps in turn and may end at any of them, by an        *)
(* exception or killed.                                                    *)
(***************************************************************************)
EXTENDS RoutingData, Sequences

CONSTANTS
    ValSizes,           \* values of --val-split-size and --phone-val-split
    PhoneWeights, GeneralWeights,   \* of the mix, << numerator, denominator >>
    SmokeItems,         \* items a smoke run keeps
    NoFile, Torn,       \* no file, a file that cannot be parsed
    None,               \* no program is running
    MaxRuns             \* bound: programs started

ASSUME RunsAssumption ==
    /\ ValSizes \subseteq Nat
    /\ PhoneWeights \cup GeneralWeights \subseteq Nat \X (Nat \ {0})
    /\ SmokeItems \in Nat /\ MaxRuns \in Nat

Trainers == {"phone", "general", "combined"}

VARIABLES
    plan,       \* the splits that the builder's seed gives, in this checkout
    phone,      \* the phone data directory
    general,    \* the general data directory
    out,        \* of every trainer, the output directory: the run that wrote a file
    report,     \* the evaluation's --out
    tool, step, \* the program that runs and the step it comes to
    run,        \* its number
    mem,        \* the rows it holds
    alarm,      \* it ended in the check of the split isolation
    trained     \* of every trainer, the rows that the adapter in `out` was trained on

runVars == <<plan, phone, general, out, report, tool, step, run, mem, alarm, trained>>

files == <<phone, general, out, report, trained>>

Artifacts == {"val-manifest", "metrics_before_val", "metrics_after_val", "metrics_calib_pre",
              "calibration_config", "adapter", "run-manifest"}

Splits == {"train", "val", "calibration"}

\* `protected`: the phone files that a freeze protects, with the rows of each.
NoRows == [train |-> {}, val |-> {}, calibration |-> {}, protected |-> << >>]

-----------------------------------------------------------------------------
(* The steps of the programs.                                               *)

PhoneOrder == <<"inputs", "carve", "isolation", "items", "metrics_before_val", "train",
                "metrics_after_val", "metrics_calib_pre", "calibration_config", "adapter",
                "run-manifest">>

\* Mutant: the manifest is written with the metrics, before the adapter is saved.
GeneralOrderEarly == <<"inputs", "items", "metrics_before_val", "train", "metrics_after_val",
                       "metrics_calib_pre", "calibration_config", "run-manifest", "adapter">>

GeneralOrder == <<"inputs", "items", "metrics_before_val", "train", "metrics_after_val",
                  "metrics_calib_pre", "calibration_config", "adapter", "run-manifest">>

CombinedOrder == <<"inputs", "mix", "items", "metrics_before_val", "train",
                   "metrics_after_val", "metrics_calib_pre", "calibration_config", "adapter",
                   "run-manifest">>

Order(t) ==
    CASE t = "build"    -> <<"train", "calibration", "test", "manifest">>
      [] t = "prepare"  -> <<"freeze", "train", "val", "calibration", "split-manifest">>
      [] t = "phone"    -> PhoneOrder
      [] t = "general"  -> GeneralOrder
      [] t = "combined" -> CombinedOrder
      [] t = "evaluate" -> <<"benchmarks", "adapter", "report">>

Tools == Trainers \cup {"build", "prepare", "evaluate"}

ASSUME NoneIsNoTool == None \notin Tools

At(t, name) == tool = t /\ Order(t)[step] = name

\* The program goes on to its next step, with `m` in memory, or is through.
Advance(m) ==
    /\ IF step = Len(Order(tool)) THEN tool' = None /\ step' = 1 /\ mem' = NoRows
       ELSE tool' = tool /\ step' = step + 1 /\ mem' = m
    /\ UNCHANGED <<plan, run, alarm>>

Start ==
    /\ tool = None /\ run < MaxRuns
    /\ tool' \in Tools /\ step' = 1
    /\ run' = run + 1 /\ mem' = NoRows
    /\ alarm' = FALSE
    /\ UNCHANGED <<plan, files>>

-----------------------------------------------------------------------------
(* The data directories.                                                    *)

Readable(f) == f \notin {NoFile, Torn}

\* The builder writes over what is there.
Build ==
    /\ tool = "build"
    /\ LET f == Order("build")[step] IN
       phone' = [phone EXCEPT ![f] = IF f = "manifest" THEN {} ELSE plan[f]]
    /\ Advance(mem)
    /\ UNCHANGED <<general, out, report, trained>>

PhoneFiles == {f \in {"train", "calibration", "test"} : phone[f] # NoFile}

\* A directory that exists is refused.  The phone files that exist are protected,
\* be they all or none.
Freeze ==
    /\ At("prepare", "freeze")
    /\ general = NoFile
    /\ \A f \in PhoneFiles : phone[f] # Torn
    /\ \E m \in Mixtures(UNION {phone[f] : f \in PhoneFiles}) :
          Advance([train |-> m.train, val |-> m.val, calibration |-> m.calibration,
                   protected |-> [f \in PhoneFiles |-> phone[f]]])
    /\ general' = [f \in Splits \cup {"split-manifest"} |-> NoFile]
    /\ UNCHANGED <<phone, out, report, trained>>

FreezeWrite ==
    /\ tool = "prepare" /\ Order("prepare")[step] # "freeze"
    /\ LET f == Order("prepare")[step] IN
       general' = [general EXCEPT ![f] = IF f = "split-manifest" THEN mem.protected ELSE mem[f]]
    /\ Advance(mem)
    /\ UNCHANGED <<phone, out, report, trained>>

-----------------------------------------------------------------------------
(* The trainers.                                                            *)

\* All three files are hashed; the test split is not read.
PhoneInputs ==
    /\ At("phone", "inputs")
    /\ phone.test # NoFile /\ Readable(phone.train) /\ Readable(phone.calibration)
    /\ Advance([NoRows EXCEPT !.train = phone.train, !.calibration = phone.calibration])
    /\ UNCHANGED files

\* The validation rows are carved from the train split and written out.
PhoneCarve ==
    /\ At("phone", "carve")
    /\ mem.train # {}
    /\ \E size \in ValSizes : \E v \in CarvePhone(mem.train, size) :
          Advance([mem EXCEPT !.val = v, !.train = @ \ v])
    /\ out' = [out EXCEPT !["phone"]["val-manifest"] = run]
    /\ UNCHANGED <<phone, general, report, trained>>

\* The train split must have every route.  The check compares the validation rows with
\* the split as it was read, not with what the carve left of it.
PhoneIsolation ==
    /\ At("phone", "isolation")
    /\ Labels(mem.train \cup mem.val) = Labels(Query)
    /\ IF Overlap(mem.train \cup mem.val, mem.val)
       THEN /\ tool' = None /\ step' = 1 /\ alarm' = TRUE
            /\ UNCHANGED <<plan, run, mem>>
       ELSE Advance(mem)
    /\ UNCHANGED files

GeneralReadable == general # NoFile /\ \A s \in Splits : Readable(general[s])

\* The mixture is used as it was frozen.
GeneralInputs ==
    /\ At("general", "inputs")
    /\ GeneralReadable
    /\ Advance([NoRows EXCEPT !.train = general.train, !.val = general.val,
                              !.calibration = general.calibration])
    /\ UNCHANGED files

\* Both directories; the phone rows are carved first.
CombinedInputs ==
    /\ At("combined", "inputs")
    /\ phone.test # NoFile /\ Readable(phone.train) /\ Readable(phone.calibration)
    /\ GeneralReadable
    /\ phone.train # {}
    /\ \E size \in ValSizes : \E v \in CarveEvenly(phone.train, size) :
          Advance([NoRows EXCEPT !.train = (phone.train \ v) \cup general.train,
                                 !.val = v \cup general.val,
                                 !.calibration = phone.calibration \cup general.calibration])
    /\ UNCHANGED files

\* Both weights are options of the run.
CombinedMix ==
    /\ At("combined", "mix")
    /\ \E pw \in PhoneWeights, gw \in GeneralWeights :
          \E t \in WeightedMix(mem.train \cap Query, mem.train \ Query, pw, gw) :
              Advance([mem EXCEPT !.train = t])
    /\ out' = [out EXCEPT !["combined"]["val-manifest"] = run]
    /\ UNCHANGED <<phone, general, report, trained>>

InTrainer(name) == tool \in Trainers /\ Order(tool)[step] = name

\* No set is empty and no row was skipped.  A smoke run keeps a few of each.
Items ==
    /\ InTrainer("items")
    /\ \A s \in Splits : mem[s] # {}
    /\ tool = "combined" => mem.val \cap Query # {} /\ mem.val \ Query # {}
    /\ \/ Advance(mem)
       \/ \E t \in Take(mem.train, SmokeItems), v \in Take(mem.val, SmokeItems),
             c \in Take(mem.calibration, SmokeItems) :
             Advance([mem EXCEPT !.train = t, !.val = v, !.calibration = c])
    /\ UNCHANGED files

\* The model is trained in memory; a loss that is not finite ends the run.
Train == InTrainer("train") /\ Advance(mem) /\ UNCHANGED files

Writes(name) ==
    /\ InTrainer(name)
    /\ out' = [out EXCEPT ![tool][name] = run]
    /\ Advance(mem)
    /\ UNCHANGED <<phone, general, report>>

\* The validation split before and after training, the calibration split.
Evaluate ==
    /\ \E name \in {"metrics_before_val", "metrics_after_val", "metrics_calib_pre"} : Writes(name)
    /\ UNCHANGED trained

\* Without calibration, for want of the function or because it failed, the file says
\* so and the run goes on.
Calibrate == Writes("calibration_config") /\ UNCHANGED trained

SaveAdapter == Writes("adapter") /\ trained' = [trained EXCEPT ![tool] = mem.train]

WriteManifest == Writes("run-manifest") /\ UNCHANGED trained

-----------------------------------------------------------------------------
(* The evaluation of an adapter.                                            *)

\* The phone test and calibration splits, the typed test split and a balanced part of
\* each intent test split.
Benchmarks ==
    /\ At("evaluate", "benchmarks")
    /\ Readable(phone.test) /\ Readable(phone.calibration)
    /\ \E b \in BalancedIntents("banking77"), c \in BalancedIntents("clinc150") :
          Advance([NoRows EXCEPT
                     !.val = phone.test \cup From(TestRow, "typed_decisions") \cup b \cup c,
                     !.calibration = phone.calibration])
    /\ UNCHANGED files

\* Any adapter that loads is measured: calibrated or not, of a whole run or not.
Measure ==
    /\ At("evaluate", "adapter")
    /\ mem.val \cap Query # {} /\ mem.calibration # {}
    /\ \E t \in Trainers :
          /\ out[t]["adapter"] \notin {0, Torn}
          /\ Advance([mem EXCEPT !.train = trained[t]])
    /\ UNCHANGED files

Publish ==
    /\ At("evaluate", "report")
    /\ report' = [trained |-> mem.train, cases |-> mem.val]
    /\ Advance(mem)
    /\ UNCHANGED <<phone, general, out, trained>>

-----------------------------------------------------------------------------

\* What a file written in place holds when the write is cut off: nothing, some of
\* the lines, or a line that cannot be parsed.
Cut(content) == {Torn} \cup SUBSET content

\* What the trainer's directory holds when a step is cut off; the files that are
\* written beside and renamed stay as they were.  The adapter is several files: over
\* an earlier one, a part of it may be new.
CutOutput ==
    LET f == Order(tool)[step]
        CutAt(a) == out' = [out EXCEPT ![tool][a] = Torn] /\ trained' = trained
    IN \/ UNCHANGED <<out, trained>>
       \/ tool \in Trainers /\ f = "adapter" /\ CutAt("adapter")
       \/ tool \in Trainers /\ f \in {"carve", "mix"} /\ CutAt("val-manifest")
       \/ /\ tool \in Trainers /\ f = "adapter" /\ out[tool]["adapter"] # 0
          /\ out' = [out EXCEPT ![tool]["adapter"] = run]
          /\ trained' = [trained EXCEPT ![tool] = @ \cup mem.train]

\* The program ends before the step it comes to is done: an exception, or killed.
Stop ==
    /\ tool # None
    /\ tool' = None /\ step' = 1 /\ mem' = NoRows
    /\ LET f == Order(tool)[step] IN
       /\ phone' \in {phone} \cup
             (IF tool # "build" THEN {}
              ELSE {[phone EXCEPT ![f] = c] : c \in Cut(IF f = "manifest" THEN {} ELSE plan[f])})
       /\ general' \in {general} \cup
             (IF tool # "prepare" \/ f = "freeze" THEN {}
              ELSE {[general EXCEPT ![f] = c] :
                       c \in IF f = "split-manifest" THEN {Torn} ELSE Cut(mem[f])})
       /\ report' \in {report} \cup (IF tool = "evaluate" /\ f = "report" THEN {Torn} ELSE {})
    /\ CutOutput
    /\ UNCHANGED <<plan, run, alarm>>

\* The repository comes with the phone splits; the tools may also be pointed at a
\* directory without them.
RunsInit ==
    /\ plan \in BuilderPlans
    /\ phone \in {[train |-> plan.train, calibration |-> plan.calibration, test |-> plan.test,
                   manifest |-> {}],
                  [f \in {"train", "calibration", "test", "manifest"} |-> NoFile]}
    /\ general = NoFile
    /\ out = [t \in Trainers |-> [a \in Artifacts |-> 0]]
    /\ report = NoFile
    /\ tool = None /\ step = 1
    /\ run = 0 /\ mem = NoRows
    /\ alarm = FALSE
    /\ trained = [t \in Trainers |-> {}]

RunsNext ==
    \/ Start \/ Stop
    \/ Build \/ Freeze \/ FreezeWrite
    \/ PhoneInputs \/ PhoneCarve \/ PhoneIsolation
    \/ GeneralInputs \/ CombinedInputs \/ CombinedMix
    \/ Items \/ Train \/ Evaluate \/ Calibrate \/ SaveAdapter \/ WriteManifest
    \/ Benchmarks \/ Measure \/ Publish

RunsSpec == RunsInit /\ [][RunsNext]_runVars
-----------------------------------------------------------------------------

\* Every variable has a value of its kind, and no query is in two phone files, whichever
\* of them were built anew.
RunsTypeOK ==
    /\ DOMAIN plan = {"train", "calibration", "test"}
    /\ DOMAIN phone = {"train", "calibration", "test", "manifest"}
    /\ \A f \in DOMAIN phone : Readable(phone[f]) => phone[f] \subseteq Query
    /\ \A f, g \in DOMAIN phone :
          f # g /\ Readable(phone[f]) /\ Readable(phone[g]) => phone[f] \cap phone[g] = {}
    /\ general # NoFile => \A s \in Splits : Readable(general[s]) => general[s] \subseteq GeneralRow
    /\ out \in [Trainers -> [Artifacts -> (0 .. run) \cup {Torn}]]
    /\ trained \in [Trainers -> SUBSET (Query \cup GeneralRow)]
    /\ tool \in Tools \cup {None} /\ step \in Nat \ {0}
    /\ run \in 0 .. MaxRuns
    /\ \A s \in Splits : mem[s] \subseteq Row
    /\ alarm \in BOOLEAN

\* What the mixture's manifest says was protected of a phone file is what the file
\* holds now.
Protects(f) ==
    /\ general # NoFile
    /\ Readable(general["split-manifest"])
    /\ f \in DOMAIN general["split-manifest"]
    /\ general["split-manifest"][f] = phone[f]

\* No row is in both, and none of one has the state of one of the other; but for two
\* queries that the builder was given twice, which are two rows.
Separate(rows, others) ==
    \A r \in rows, s \in others : StateOf[r] = StateOf[s] => r # s /\ {r, s} \subseteq Query

\* No model is trained on a row that selects its checkpoint or calibrates it, nor on
\* another of the same state, in whichever order the directories were made and whatever
\* was cut off.  A query that is authored twice may be on both sides: the builder splits
\* the copies like any two queries.  The combined trainer compares no
\* protected_phone_hashes, so for it the mixture must have been frozen beside the phone
\* files it is mixed with.
TrainedApart ==
    \/ tool \notin {"general", "combined"}
    \/ Order(tool)[step] \in {"inputs", "mix", "items"}
    \/ tool = "combined" /\ ~(Protects("train") /\ Protects("calibration"))
    \/ /\ Separate(mem.train, mem.val)
       /\ Separate(mem.train, mem.calibration)
       /\ Separate(mem.val, mem.calibration)

\* A published figure is of cases the adapter was not trained on.  No general row has the
\* state of a test case of any source.  No phone row that was trained on is a phone test
\* case, at most the other copy of one; and where the mixture protects the phone test
\* split, no general row has the state of one.
TestsHeldOut ==
    report \notin {NoFile, Torn} =>
        /\ States(report.trained \cap GeneralRow)
               \cap States(report.cases \cap TestRow) = {}
        /\ report.trained \cap report.cases = {}
        /\ Protects("test") /\ report.cases \cap Query = phone.test =>
               Separate(report.trained, report.cases \cap Query)

\* A manifest with run_completed names the run that made everything beside it, until
\* another run is started with the same --output-dir.
ManifestLast ==
    \A t \in Trainers :
        out[t]["run-manifest"] # 0 =>
            \/ \E a \in Artifacts : out[t][a] = Torn \/ out[t][a] > out[t]["run-manifest"]
            \/ \A a \in Artifacts \ {"val-manifest"} : out[t][a] = out[t]["run-manifest"]

\* "This would leak validation data into training": the check of the split isolation
\* stops a run whose training rows are among its validation rows, and no other.
IsolationAlarmIsTrue == alarm => Overlap(mem.train, mem.val)
=============================================================================
