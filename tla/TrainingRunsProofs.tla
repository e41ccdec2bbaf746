------------------------- MODULE TrainingRunsProofs -------------------------
(***************************************************************************)
(* Theorems about TrainingRuns, for every set of queries and rows, every   *)
(* size of split and weight, and every number of programs started in any   *)
(* order and stopped at any step.                                          *)
(*                                                                         *)
(* Runs says where the running program is and which run made each output;  *)
(* Origin, which is inductive beside it, says where every row in memory,   *)
(* in a file or in an adapter came from.                                   *)
(***************************************************************************)
EXTENDS TrainingRuns, RoutingDataProofs

-----------------------------------------------------------------------------
(* The order of the steps.                                                  *)

LEMMA OrderOfSteps ==
    /\ \A t \in Tools : /\ Len(Order(t)) \in Nat \ {0}
                        /\ DOMAIN Order(t) = 1 .. Len(Order(t))
    /\ \A t \in Trainers : Order(t)[1] = "inputs"
    /\ Order("evaluate")[1] = "benchmarks" /\ Order("prepare")[1] = "freeze"
    /\ \A i \in 2 .. Len(Order("prepare")) :
          Order("prepare")[i] \in Splits \cup {"split-manifest"}
    /\ \A i \in 1 .. Len(Order("prepare")) - 1 : Order("prepare")[i] # "split-manifest"
    /\ \A i \in 1 .. Len(Order("build")) :
          Order("build")[i] \in {"train", "calibration", "test", "manifest"}
BY DEF Order, Tools, Trainers, Splits, PhoneOrder, GeneralOrder, CombinedOrder

\* A trainer writes everything but the validation manifest before its run manifest.
LEMMA ManifestIsLastStep ==
    ASSUME NEW t \in Trainers
    PROVE  /\ \A i \in 1 .. Len(Order(t)) :
                 (Order(t)[i] = "run-manifest") <=> (i = Len(Order(t)))
           /\ \A a \in Artifacts \ {"val-manifest", "run-manifest"} :
                 \E i \in 1 .. Len(Order(t)) - 1 : Order(t)[i] = a
<1>1. CASE t = "phone"
  <2>1. Order(t) = PhoneOrder
    BY <1>1 DEF Order
  <2> QED BY <2>1 DEF PhoneOrder, Artifacts
<1>2. CASE t = "general"
  <2>1. Order(t) = GeneralOrder
    BY <1>2 DEF Order
  <2> QED BY <2>1 DEF GeneralOrder, Artifacts
<1>3. CASE t = "combined"
  <2>1. Order(t) = CombinedOrder
    BY <1>3 DEF Order
  <2> QED BY <2>1 DEF CombinedOrder, Artifacts
<1> QED BY <1>1, <1>2, <1>3 DEF Trainers

-----------------------------------------------------------------------------
(* Where the program is, and which run wrote each output.                   *)

Place ==
    /\ tool \in Tools \cup {None}
    /\ step \in Nat \ {0}
    /\ tool \in Tools => step <= Len(Order(tool))
    /\ run \in 0 .. MaxRuns
    /\ alarm \in BOOLEAN

\* What the runs before have left, and what the running trainer has written so far.
Outputs ==
    /\ out \in [Trainers -> [Artifacts -> (0 .. run) \cup {Torn}]]
    /\ \A t \in Trainers : out[t]["run-manifest"] \in 0 .. run
    /\ tool \in Trainers =>
          /\ out[tool]["run-manifest"] < run
          /\ \A i \in 1 .. step - 1 :
                Order(tool)[i] \in Artifacts \ {"val-manifest"} => out[tool][Order(tool)[i]] = run

Runs == Place /\ Outputs /\ ManifestLast

\* The steps of a trainer that write no output, and those that write one.
TrainerReads ==
    \/ PhoneInputs \/ PhoneIsolation \/ GeneralInputs \/ CombinedInputs \/ Items \/ Train

TrainerCarves == PhoneCarve \/ CombinedMix

TrainerWrites == Evaluate \/ Calibrate \/ SaveAdapter \/ WriteManifest

Others == Build \/ Freeze \/ FreezeWrite \/ Benchmarks \/ Measure \/ Publish

LEMMA AdvanceKeepsPlace ==
    ASSUME Place, tool \in Tools, NEW m, Advance(m)
    PROVE  /\ Place'
           /\ \/ tool' = tool /\ step' = step + 1 /\ mem' = m
              \/ tool' = None /\ step' = 1 /\ mem' = NoRows /\ step = Len(Order(tool))
           /\ plan' = plan /\ run' = run
<1>1. Len(Order(tool)) \in Nat \ {0}
  BY OrderOfSteps
<1>2. plan' = plan /\ run' = run /\ alarm' = alarm
  BY DEF Advance
<1>3. alarm' \in BOOLEAN
  BY <1>2 DEF Place
<1>4. \/ tool' = tool /\ step' = step + 1 /\ mem' = m /\ step # Len(Order(tool))
      \/ tool' = None /\ step' = 1 /\ mem' = NoRows /\ step = Len(Order(tool))
  BY DEF Advance
<1>5. /\ tool' \in Tools \cup {None} /\ step' \in Nat \ {0} /\ run' \in 0 .. MaxRuns
      /\ tool' \in Tools => step' <= Len(Order(tool'))
  BY <1>1, <1>2, <1>4, NoneIsNoTool DEF Place
<1>6. Place'
  BY <1>3, <1>5 DEF Place
<1> QED BY <1>2, <1>4, <1>6

\* A step that leaves the outputs alone and is not the writing of one.
LEMMA ReadingKeepsOutputs ==
    ASSUME Runs, tool \in Tools, UNCHANGED <<out, run>>,
           (tool' = tool /\ step' = step + 1) \/ tool' = None,
           tool \in Trainers => Order(tool)[step] \notin Artifacts \ {"val-manifest"}
    PROVE  Outputs' /\ ManifestLast'
<1>1. ManifestLast'
  BY DEF Runs, ManifestLast
<1>2. CASE tool' = None
  BY <1>1, <1>2, NoneIsNoTool DEF Runs, Outputs, Tools
<1>3. CASE tool' = tool /\ step' = step + 1
  <2>1. ASSUME tool \in Trainers, NEW i \in 1 .. step,
               Order(tool)[i] \in Artifacts \ {"val-manifest"}
        PROVE  out[tool][Order(tool)[i]] = run
    <3>1. i # step
      BY <2>1
    <3>2. i \in 1 .. step - 1
      BY <3>1 DEF Runs, Place
    <3> QED BY <2>1, <3>2 DEF Runs, Outputs
  <2>2. step' - 1 = step
    BY <1>3 DEF Runs, Place
  <2>3. tool \in Trainers => out[tool]["run-manifest"] < run
    BY DEF Runs, Outputs
  <2> QED BY <1>1, <1>3, <2>1, <2>2, <2>3 DEF Runs, Outputs
<1> QED BY <1>2, <1>3

\* A step that writes or tears a file other than the run manifest.
LEMMA WritingKeepsOutputs ==
    ASSUME Runs, tool \in Trainers, run' = run,
           NEW a \in Artifacts \ {"run-manifest"}, NEW v \in {run, Torn},
           out' = [out EXCEPT ![tool][a] = v],
           \/ /\ tool' = tool /\ step' = step + 1 /\ v = run
              /\ Order(tool)[step] = a \/ Order(tool)[step] \notin Artifacts \ {"val-manifest"}
           \/ tool' = None
    PROVE  Outputs' /\ ManifestLast'
<1>1. out \in [Trainers -> [Artifacts -> (0 .. run) \cup {Torn}]]
  BY DEF Runs, Outputs
<1>2. run \in Nat
  BY DEF Runs, Place
<1>3. "run-manifest" \in Artifacts
  BY DEF Artifacts
<1>4. \A t \in Trainers, b \in Artifacts :
         out'[t][b] = IF t = tool /\ b = a THEN v ELSE out[t][b]
  BY <1>1
<1>5. out' \in [Trainers -> [Artifacts -> (0 .. run) \cup {Torn}]]
  BY <1>1, <1>2
<1>6. \A t \in Trainers : out'[t]["run-manifest"] = out[t]["run-manifest"]
  BY <1>3, <1>4
<1>7. ManifestLast'
  <2> SUFFICES ASSUME NEW t \in Trainers, out'[t]["run-manifest"] # 0
               PROVE  \/ \E b \in Artifacts : out'[t][b] = Torn \/ out'[t][b] > out'[t]["run-manifest"]
                      \/ \A b \in Artifacts \ {"val-manifest"} : out'[t][b] = out'[t]["run-manifest"]
    BY DEF ManifestLast
  <2>1. CASE t = tool
    <3>1. out'[t][a] = v
      BY <1>4, <2>1
    <3>2. v = Torn \/ v > out'[t]["run-manifest"]
      BY <1>2, <1>6, <2>1 DEF Runs, Outputs
    <3> QED BY <3>1, <3>2
  <2>2. CASE t # tool
    <3>1. \A b \in Artifacts : out'[t][b] = out[t][b]
      BY <1>4, <2>2
    <3> QED BY <1>3, <3>1 DEF Runs, ManifestLast
  <2> QED BY <2>1, <2>2
<1>8. CASE tool' = None
  BY <1>5, <1>6, <1>7, <1>8, NoneIsNoTool DEF Runs, Outputs, Tools
<1>9. CASE tool' = tool /\ step' = step + 1 /\ v = run
           /\ (Order(tool)[step] = a \/ Order(tool)[step] \notin Artifacts \ {"val-manifest"})
  <2>1. ASSUME NEW i \in 1 .. step, Order(tool)[i] \in Artifacts \ {"val-manifest"}
        PROVE  out'[tool][Order(tool)[i]] = run
    <3>1. CASE Order(tool)[i] = a
      BY <1>4, <1>9, <2>1, <3>1
    <3>2. CASE Order(tool)[i] # a
      <4>1. i # step
        BY <1>9, <2>1, <3>2
      <4>2. i \in 1 .. step - 1
        BY <4>1 DEF Runs, Place
      <4>3. out[tool][Order(tool)[i]] = run
        BY <2>1, <4>2 DEF Runs, Outputs
      <4> QED BY <1>4, <2>1, <3>2, <4>3
    <3> QED BY <3>1, <3>2
  <2>2. step' - 1 = step
    BY <1>9 DEF Runs, Place
  <2>3. out'[tool]["run-manifest"] < run
    BY <1>6 DEF Runs, Outputs
  <2> QED BY <1>5, <1>6, <1>7, <1>9, <2>1, <2>2, <2>3 DEF Runs, Outputs
<1> QED BY <1>7, <1>8, <1>9

\* The last step of a trainer.
LEMMA ManifestKeepsOutputs ==
    ASSUME Runs, tool \in Trainers, run' = run, step = Len(Order(tool)),
           out' = [out EXCEPT ![tool]["run-manifest"] = run], tool' = None
    PROVE  Outputs' /\ ManifestLast'
<1>1. out \in [Trainers -> [Artifacts -> (0 .. run) \cup {Torn}]]
  BY DEF Runs, Outputs
<1>2. run \in Nat /\ "run-manifest" \in Artifacts
  BY DEF Runs, Place, Artifacts
<1>3. \A t \in Trainers, b \in Artifacts :
         out'[t][b] = IF t = tool /\ b = "run-manifest" THEN run ELSE out[t][b]
  BY <1>1
<1>4. out' \in [Trainers -> [Artifacts -> (0 .. run) \cup {Torn}]]
  BY <1>1, <1>2
<1>5. \A t \in Trainers : out'[t]["run-manifest"] \in 0 .. run
  BY <1>2, <1>3 DEF Runs, Outputs
<1>6. \A b \in Artifacts \ {"val-manifest"} : out'[tool][b] = run
  <2> TAKE b \in Artifacts \ {"val-manifest"}
  <2>1. CASE b = "run-manifest"
    BY <1>3, <2>1
  <2>2. CASE b # "run-manifest"
    <3>1. PICK i \in 1 .. Len(Order(tool)) - 1 : Order(tool)[i] = b
      BY <2>2, ManifestIsLastStep
    <3>2. out[tool][b] = run
      BY <3>1 DEF Runs, Outputs
    <3> QED BY <1>3, <2>2, <3>2
  <2> QED BY <2>1, <2>2
<1>7. ManifestLast'
  <2> SUFFICES ASSUME NEW t \in Trainers, out'[t]["run-manifest"] # 0
               PROVE  \/ \E b \in Artifacts : out'[t][b] = Torn \/ out'[t][b] > out'[t]["run-manifest"]
                      \/ \A b \in Artifacts \ {"val-manifest"} : out'[t][b] = out'[t]["run-manifest"]
    BY DEF ManifestLast
  <2>1. CASE t = tool
    BY <1>2, <1>6, <2>1
  <2>2. CASE t # tool
    <3>1. \A b \in Artifacts : out'[t][b] = out[t][b]
      BY <1>3, <2>2
    <3> QED BY <1>2, <3>1 DEF Runs, ManifestLast
  <2> QED BY <2>1, <2>2
<1> QED BY <1>4, <1>5, <1>7, NoneIsNoTool DEF Outputs, Tools

LEMMA InitRuns == RunsInit => Runs
<1> SUFFICES ASSUME RunsInit PROVE Runs
  OBVIOUS
<1>1. tool = None /\ step = 1 /\ run = 0 /\ alarm = FALSE
      /\ out = [t \in Trainers |-> [a \in Artifacts |-> 0]]
  BY DEF RunsInit
<1>2. "run-manifest" \in Artifacts
  BY DEF Artifacts
<1>3. alarm \in BOOLEAN
  BY <1>1
<1>4. Place
  BY <1>1, <1>3, NoneIsNoTool, RunsAssumption DEF Place
<1>5. Outputs
  BY <1>1, <1>2, NoneIsNoTool DEF Outputs, Tools
<1>6. ManifestLast
  BY <1>1, <1>2 DEF ManifestLast
<1> QED BY <1>4, <1>5, <1>6 DEF Runs

LEMMA StartKeepsRuns == ASSUME Runs, Start PROVE Runs'
<1>1. /\ tool = None /\ run < MaxRuns /\ tool' \in Tools /\ step' = 1 /\ run' = run + 1
      /\ alarm' = FALSE /\ out' = out
  BY DEF Start, files
<1>2. run \in Nat /\ run' \in 0 .. MaxRuns
  BY <1>1, RunsAssumption DEF Runs, Place
<1>3. Len(Order(tool')) \in Nat \ {0}
  BY <1>1, OrderOfSteps
<1>4. alarm' \in BOOLEAN
  BY <1>1
<1>5. Place'
  BY <1>1, <1>2, <1>3, <1>4 DEF Place
<1>6. 0 .. run \subseteq 0 .. run'
  BY <1>1, <1>2
<1>7. out' \in [Trainers -> [Artifacts -> (0 .. run') \cup {Torn}]]
  <2>1. out \in [Trainers -> [Artifacts -> (0 .. run) \cup {Torn}]]
    BY DEF Runs, Outputs
  <2> QED BY <1>1, <1>6, <2>1
<1>8. \A t \in Trainers : out'[t]["run-manifest"] \in 0 .. run' /\ out'[t]["run-manifest"] < run'
  <2> TAKE t \in Trainers
  <2>1. out[t]["run-manifest"] \in 0 .. run
    BY DEF Runs, Outputs
  <2> QED BY <1>1, <1>2, <2>1
<1>9. 1 .. step' - 1 = {}
  BY <1>1
<1>10. Outputs'
  BY <1>7, <1>8, <1>9 DEF Outputs
<1>11. ManifestLast'
  BY <1>1 DEF Runs, ManifestLast
<1> QED BY <1>5, <1>10, <1>11 DEF Runs

LEMMA StopKeepsRuns == ASSUME Runs, Stop PROVE Runs'
<1>1. /\ tool # None /\ tool' = None /\ step' = 1 /\ run' = run /\ alarm' = alarm /\ CutOutput
  BY DEF Stop
<1>2. tool \in Tools
  BY <1>1 DEF Runs, Place
<1>3. alarm' \in BOOLEAN
  BY <1>1 DEF Runs, Place
<1>4. Place'
  BY <1>1, <1>3, NoneIsNoTool DEF Runs, Place
<1>5. ASSUME out' = out PROVE Outputs' /\ ManifestLast'
  BY <1>1, <1>2, <1>4, <1>5, ReadingKeepsOutputs, NoneIsNoTool DEF Runs, Outputs, ManifestLast, Tools
<1>6. ASSUME NEW a \in {"adapter", "val-manifest"}, NEW v \in {run, Torn}, tool \in Trainers,
             out' = [out EXCEPT ![tool][a] = v]
      PROVE  Outputs' /\ ManifestLast'
  <2>1. a \in Artifacts \ {"run-manifest"}
    BY DEF Artifacts
  <2> QED BY <1>1, <1>6, <2>1, WritingKeepsOutputs
<1>7. \/ out' = out
      \/ tool \in Trainers /\ out' = [out EXCEPT ![tool]["adapter"] = Torn]
      \/ tool \in Trainers /\ out' = [out EXCEPT ![tool]["val-manifest"] = Torn]
      \/ tool \in Trainers /\ out' = [out EXCEPT ![tool]["adapter"] = run]
  BY <1>1 DEF CutOutput
<1>8. Outputs' /\ ManifestLast'
  <2>1. CASE tool \in Trainers /\ out' = [out EXCEPT ![tool]["adapter"] = Torn]
    BY <1>6, <2>1
  <2>2. CASE tool \in Trainers /\ out' = [out EXCEPT ![tool]["val-manifest"] = Torn]
    BY <1>6, <2>2
  <2>3. CASE tool \in Trainers /\ out' = [out EXCEPT ![tool]["adapter"] = run]
    BY <1>6, <2>3
  <2> QED BY <1>5, <1>7, <2>1, <2>2, <2>3
<1> QED BY <1>4, <1>8 DEF Runs

LEMMA ReadsKeepRuns == ASSUME Runs, TrainerReads \/ Others PROVE Runs'
<1>1. CASE PhoneIsolation /\ tool' = None /\ step' = 1 /\ alarm' = TRUE /\ UNCHANGED <<plan, run, mem>>
  <2>1. tool = "phone" /\ out' = out
    BY <1>1 DEF PhoneIsolation, At, files
  <2>2. alarm' \in BOOLEAN
    BY <1>1
  <2>3. Place'
    BY <1>1, <2>2, NoneIsNoTool DEF Runs, Place
  <2>4. tool \in Tools /\ tool \in Trainers /\ Order(tool)[step] = "isolation"
    BY <1>1, <2>1 DEF Tools, Trainers, PhoneIsolation, At
  <2>5. Order(tool)[step] \notin Artifacts \ {"val-manifest"}
    BY <2>4 DEF Artifacts
  <2> QED BY <1>1, <2>1, <2>3, <2>4, <2>5, ReadingKeepsOutputs DEF Runs
<1>2. ASSUME NEW m, Advance(m), tool \in Tools, out' = out,
             tool \in Trainers => Order(tool)[step] \notin Artifacts \ {"val-manifest"}
      PROVE  Runs'
  <2>1. Place' /\ run' = run /\ ((tool' = tool /\ step' = step + 1) \/ tool' = None)
    BY <1>2, AdvanceKeepsPlace DEF Runs
  <2> QED BY <1>2, <2>1, ReadingKeepsOutputs DEF Runs
<1>3. CASE PhoneInputs \/ GeneralInputs \/ CombinedInputs
  <2>1. out' = out /\ tool \in Trainers /\ Order(tool)[step] = "inputs" /\ \E m : Advance(m)
    BY <1>3 DEF PhoneInputs, GeneralInputs, CombinedInputs, At, files, Trainers
  <2> QED BY <1>2, <2>1 DEF Artifacts, Tools
<1>4. CASE PhoneIsolation /\ Advance(mem)
  <2>1. out' = out /\ tool \in Trainers /\ Order(tool)[step] = "isolation"
    BY <1>4 DEF PhoneIsolation, At, files, Trainers
  <2> QED BY <1>2, <1>4, <2>1 DEF Artifacts, Tools
<1>5. CASE Items \/ Train
  <2>1. out' = out /\ tool \in Trainers /\ Order(tool)[step] \in {"items", "train"}
        /\ \E m : Advance(m)
    BY <1>5 DEF Items, Train, InTrainer, files
  <2> QED BY <1>2, <2>1 DEF Artifacts, Tools
<1>6. CASE Others
  <2>1. out' = out /\ tool \in {"build", "prepare", "evaluate"} /\ \E m : Advance(m)
    BY <1>6 DEF Others, Build, Freeze, FreezeWrite, Benchmarks, Measure, Publish, At, files
  <2> QED BY <1>2, <2>1 DEF Tools, Trainers
<1> QED BY <1>1, <1>3, <1>4, <1>5, <1>6 DEF TrainerReads, PhoneIsolation

LEMMA WritesKeepRuns == ASSUME Runs, TrainerCarves \/ TrainerWrites PROVE Runs'
<1>1. /\ tool \in Trainers /\ \E m : Advance(m)
      /\ \/ /\ Order(tool)[step] \in {"carve", "mix"}
            /\ out' = [out EXCEPT ![tool]["val-manifest"] = run]
         \/ /\ Order(tool)[step] \in Artifacts \ {"val-manifest"}
            /\ out' = [out EXCEPT ![tool][Order(tool)[step]] = run]
  BY DEF TrainerCarves, TrainerWrites, PhoneCarve, CombinedMix, Evaluate, Calibrate,
         SaveAdapter, WriteManifest, Writes, InTrainer, At, Trainers, Artifacts
<1>2. tool \in Tools
  BY <1>1 DEF Tools
<1>3. /\ Place' /\ run' = run /\ (tool' = tool \/ (tool' = None /\ step = Len(Order(tool))))
      /\ (tool' = tool /\ step' = step + 1) \/ tool' = None
  BY <1>1, <1>2, AdvanceKeepsPlace DEF Runs
<1>4. step \in 1 .. Len(Order(tool)) /\ Len(Order(tool)) \in Nat
  BY <1>2, OrderOfSteps DEF Runs, Place
<1>5. CASE Order(tool)[step] = "run-manifest"
  <2>1. step = Len(Order(tool))
    BY <1>1, <1>4, <1>5, ManifestIsLastStep
  <2>2. out' = [out EXCEPT ![tool]["run-manifest"] = run]
    BY <1>1, <1>5
  <2>3. tool' = None
    BY <1>1, <1>2, <2>1 DEF Advance
  <2> QED BY <1>1, <1>3, <2>1, <2>2, <2>3, ManifestKeepsOutputs DEF Runs
<1>6. CASE Order(tool)[step] # "run-manifest"
  <2>1. CASE out' = [out EXCEPT ![tool]["val-manifest"] = run]
             /\ Order(tool)[step] \in {"carve", "mix"}
    <3>1. "val-manifest" \in Artifacts \ {"run-manifest"}
          /\ Order(tool)[step] \notin Artifacts \ {"val-manifest"}
      BY <2>1 DEF Artifacts
    <3> QED BY <1>1, <1>3, <2>1, <3>1, WritingKeepsOutputs DEF Runs
  <2>2. CASE out' = [out EXCEPT ![tool][Order(tool)[step]] = run]
             /\ Order(tool)[step] \in Artifacts \ {"val-manifest"}
    <3>1. Order(tool)[step] \in Artifacts \ {"run-manifest"}
      BY <1>6, <2>2
    <3> QED BY <1>1, <1>3, <2>2, <3>1, WritingKeepsOutputs DEF Runs
  <2> QED BY <1>1, <2>1, <2>2
<1> QED BY <1>5, <1>6

LEMMA NextKeepsRuns == ASSUME Runs, [RunsNext]_runVars PROVE Runs'
<1>1. CASE UNCHANGED runVars
  <2>1. Place'
    BY <1>1 DEF runVars, Runs, Place
  <2>2. Outputs' /\ ManifestLast'
    BY <1>1 DEF runVars, Runs, Outputs, ManifestLast
  <2> QED BY <2>1, <2>2 DEF Runs
<1>2. CASE RunsNext
  BY <1>2, StartKeepsRuns, StopKeepsRuns, ReadsKeepRuns, WritesKeepRuns
     DEF RunsNext, TrainerReads, TrainerCarves, TrainerWrites, Others
<1> QED BY <1>1, <1>2

\* Wherever the programs are stopped and however often they are started with the same
\* output directory, a manifest that nothing beside it is newer than, or torn, was
\* written by the run that made everything beside it.
THEOREM ManifestIsLast == RunsSpec => []ManifestLast
<1>1. RunsInit => Runs
  BY InitRuns
<1>2. Runs /\ [RunsNext]_runVars => Runs'
  BY NextKeepsRuns
<1>3. Runs => ManifestLast
  BY DEF Runs
<1> QED BY <1>1, <1>2, <1>3, PTL DEF RunsSpec

-----------------------------------------------------------------------------
(* Where every row came from.                                               *)

Apart(a, b) == States(a) \cap States(b) = {}

\* The phone files are parts of the planned splits.
PhoneOrigin ==
    /\ plan \in BuilderPlans
    /\ phone = [f \in {"train", "calibration", "test", "manifest"} |-> phone[f]]
    /\ \A f \in {"train", "calibration", "test"} : Readable(phone[f]) => phone[f] \subseteq plan[f]
    /\ Readable(phone["manifest"]) => phone["manifest"] = {}

\* What a directory `g` must be for its splits to be held out, and for them to be
\* held out from the rows in `protected`.
SplitsHeldOut(g) ==
    /\ \A s \in Splits : Readable(g[s]) => g[s] \subseteq GeneralRow /\ Apart(g[s], TestRow)
    /\ \A s, u \in Splits : s # u /\ Readable(g[s]) /\ Readable(g[u]) => Apart(g[s], g[u])

Avoids(g, protected) ==
    \A f \in DOMAIN protected, s \in Splits : Readable(g[s]) => Apart(g[s], protected[f])

GeneralOrigin ==
    general # NoFile =>
        /\ SplitsHeldOut(general)
        /\ Readable(general["split-manifest"]) => Avoids(general, general["split-manifest"])

\* While a mixture is being written, its files are parts of what is in memory.
Freezing == tool = "prepare" /\ step > 1

FreezingOrigin ==
    Freezing =>
        /\ general = [f \in Splits \cup {"split-manifest"} |-> general[f]]
        /\ \A s \in Splits : Readable(general[s]) => general[s] \subseteq mem[s]
        /\ general["split-manifest"] = NoFile
        /\ \A s \in Splits : mem[s] \subseteq GeneralRow /\ Apart(mem[s], TestRow)
        /\ \A s, u \in Splits : s # u => Apart(mem[s], mem[u])
        /\ \A f \in DOMAIN mem.protected, s \in Splits : Apart(mem[s], mem.protected[f])

\* Rows that a model may be trained on: of the train files, which no one changes once
\* a mixture is there.
Grounded(rows) ==
    /\ rows \subseteq Query \cup GeneralRow
    /\ rows \cap Query \subseteq plan.train
    /\ rows \cap GeneralRow # {} =>
          /\ general # NoFile /\ ~Freezing
          /\ Readable(general["train"])
          /\ rows \cap GeneralRow \subseteq general["train"]

AdapterOrigin ==
    /\ trained = [t \in Trainers |-> trained[t]]
    /\ \A t \in Trainers : Grounded(trained[t])
    /\ report \notin {NoFile, Torn} =>
          Grounded(report.trained) /\ report.cases \subseteq plan.test \cup TestRow

MemoryShape ==
    /\ mem = [train |-> mem.train, val |-> mem.val, calibration |-> mem.calibration,
              protected |-> mem.protected]
    /\ \A s \in Splits : mem[s] \subseteq Row

\* What each program holds once it has read its inputs.
MixtureRead == general # NoFile /\ \A s \in Splits : Readable(general[s])

TrainerOrigin ==
    /\ tool = "phone" /\ step > 1 => mem.train \subseteq plan.train
    /\ tool = "general" /\ step > 1 =>
          MixtureRead /\ \A s \in Splits : mem[s] \subseteq general[s]
    /\ tool = "combined" /\ step > 1 =>
          /\ MixtureRead /\ \A s \in Splits : mem[s] \subseteq Query \cup general[s]
          /\ Readable(phone["train"]) /\ Readable(phone["calibration"])
          /\ mem.train \cap Query \subseteq phone["train"]
          /\ mem.val \cap Query \subseteq phone["train"]
          /\ mem.calibration \cap Query \subseteq phone["calibration"]
          /\ mem.train \cap mem.val \cap Query = {}
    /\ tool = "evaluate" /\ step > 1 =>
          Grounded(mem.train) /\ mem.val \subseteq plan.test \cup TestRow

FilesOrigin == PhoneOrigin /\ GeneralOrigin /\ AdapterOrigin

MemoryOrigin == MemoryShape /\ FreezingOrigin /\ TrainerOrigin

Origin == FilesOrigin /\ MemoryOrigin

LEMMA NothingGrounded == Grounded({})
BY DEF Grounded

\* What a trainer holds, it may be trained on.
LEMMA HeldIsGrounded ==
    ASSUME Origin, tool \in Trainers, step > 1
    PROVE  Grounded(mem.train)
<1>1. ~Freezing
  BY DEF Freezing, Trainers
<1>2. plan.train \subseteq Query
  BY PlansDisjoint DEF Origin, FilesOrigin, PhoneOrigin
<1>3. Query \cap GeneralRow = {}
  BY DataAssumption
<1>4. CASE tool = "phone"
  BY <1>2, <1>3, <1>4 DEF Origin, MemoryOrigin, TrainerOrigin, Grounded
<1>5. CASE tool = "general"
  <2>1. MixtureRead /\ mem.train \subseteq general["train"]
    BY <1>5 DEF Origin, MemoryOrigin, TrainerOrigin, Splits
  <2>2. general["train"] \subseteq GeneralRow
    BY <2>1 DEF Origin, FilesOrigin, GeneralOrigin, MixtureRead, SplitsHeldOut, Splits
  <2> QED BY <1>1, <1>3, <2>1, <2>2 DEF Grounded, MixtureRead, Splits
<1>6. CASE tool = "combined"
  <2>1. /\ MixtureRead /\ mem.train \subseteq Query \cup general["train"]
        /\ Readable(phone["train"]) /\ mem.train \cap Query \subseteq phone["train"]
    BY <1>6 DEF Origin, MemoryOrigin, TrainerOrigin, Splits
  <2>2. general["train"] \subseteq GeneralRow
    BY <2>1 DEF Origin, FilesOrigin, GeneralOrigin, MixtureRead, SplitsHeldOut, Splits
  <2>3. phone["train"] \subseteq plan.train
    BY <2>1 DEF Origin, FilesOrigin, PhoneOrigin
  <2> QED BY <1>1, <1>3, <2>1, <2>2, <2>3 DEF Grounded, MixtureRead, Splits
<1> QED BY <1>4, <1>5, <1>6 DEF Trainers

LEMMA FilesKept ==
    ASSUME Origin, UNCHANGED <<plan, phone, general, report, trained>>, Freezing' => Freezing
    PROVE  FilesOrigin'
<1>1. PhoneOrigin'
  BY DEF Origin, FilesOrigin, PhoneOrigin
<1>2. GeneralOrigin'
  BY DEF Origin, FilesOrigin, GeneralOrigin, SplitsHeldOut, Avoids
<1>3. AdapterOrigin'
  <2>1. \A t \in Trainers : Grounded(trained[t])'
    BY DEF Origin, FilesOrigin, AdapterOrigin, Grounded
  <2>2. report' \notin {NoFile, Torn} =>
           Grounded(report.trained)' /\ report'.cases \subseteq plan'.test \cup TestRow
    BY DEF Origin, FilesOrigin, AdapterOrigin, Grounded
  <2>3. trained' = [t \in Trainers |-> trained'[t]]
    BY DEF Origin, FilesOrigin, AdapterOrigin
  <2> QED BY <2>1, <2>2, <2>3 DEF AdapterOrigin
<1> QED BY <1>1, <1>2, <1>3 DEF FilesOrigin

\* A program that has ended holds nothing that matters.
LEMMA IdleMemory == ASSUME tool' \notin Tools \/ step' = 1, MemoryShape' PROVE MemoryOrigin'
<1>1. ~Freezing'
  BY DEF Freezing, Tools
<1>2. TrainerOrigin'
  BY DEF TrainerOrigin, Tools, Trainers
<1> QED BY <1>1, <1>2 DEF MemoryOrigin, FreezingOrigin

LEMMA NoRowsShape == ASSUME mem' = NoRows PROVE MemoryShape'
BY DEF MemoryShape, NoRows, Splits

\* A step of a trainer that keeps what it holds, or a part of it.
LEMMA ShrinkingKeepsMemory ==
    ASSUME Runs, Origin, tool \in Trainers, step > 1, NEW m, Advance(m),
           m = [train |-> m.train, val |-> m.val, calibration |-> m.calibration,
                protected |-> m.protected],
           \A s \in Splits : m[s] \subseteq mem[s],
           UNCHANGED <<phone, general>>
    PROVE  MemoryOrigin'
<1>1. tool \in Tools
  BY DEF Tools
<1>2. /\ \/ tool' = tool /\ step' = step + 1 /\ mem' = m
         \/ tool' = None /\ mem' = NoRows
      /\ plan' = plan
  BY <1>1, AdvanceKeepsPlace DEF Runs
<1>3. CASE tool' = None /\ mem' = NoRows
  BY <1>3, NoneIsNoTool, NoRowsShape, IdleMemory
<1>4. CASE tool' = tool /\ step' = step + 1 /\ mem' = m
  <2>1. MemoryShape'
    BY <1>4 DEF Origin, MemoryOrigin, MemoryShape
  <2>2. ~Freezing'
    BY <1>4 DEF Freezing, Trainers
  <2>3. /\ m.train \subseteq mem.train /\ m.val \subseteq mem.val
        /\ m.calibration \subseteq mem.calibration
    BY DEF Splits
  <2>4. TrainerOrigin
    BY DEF Origin, MemoryOrigin
  <2>5. MixtureRead' = MixtureRead
    BY DEF MixtureRead
  <2>6. CASE tool = "phone"
    <3>1. TrainerOrigin'
      BY <1>2, <1>4, <2>3, <2>4, <2>6 DEF TrainerOrigin
    <3> QED BY <2>1, <2>2, <3>1 DEF MemoryOrigin, FreezingOrigin
  <2>7. CASE tool = "general"
    <3>1. \A s \in Splits : m[s] \subseteq general[s]
      BY <2>4, <2>7 DEF TrainerOrigin
    <3> QED BY <1>4, <2>1, <2>2, <2>4, <2>5, <2>7, <3>1
            DEF TrainerOrigin, MemoryOrigin, FreezingOrigin
  <2>8. CASE tool = "combined"
    <3>1. \A s \in Splits : m[s] \subseteq Query \cup general[s]
      BY <2>4, <2>8 DEF TrainerOrigin
    <3>2. TrainerOrigin'
      BY <1>2, <1>4, <2>3, <2>4, <2>5, <2>8, <3>1 DEF TrainerOrigin
    <3> QED BY <2>1, <2>2, <3>2 DEF MemoryOrigin, FreezingOrigin
  <2> QED BY <2>6, <2>7, <2>8 DEF Trainers
<1> QED BY <1>2, <1>3, <1>4

LEMMA StepsAfterInputs ==
    ASSUME Place, tool \in Trainers, Order(tool)[step] # "inputs"
    PROVE  step > 1
BY OrderOfSteps DEF Place

\* The steps of a trainer after it has read its inputs and carved them.
LEMMA TrainingKeepsOrigin ==
    ASSUME Runs, Origin, CombinedMix \/ Items \/ Train \/ TrainerWrites
    PROVE  Origin'
<1>1. /\ tool \in Trainers /\ Order(tool)[step] # "inputs"
      /\ UNCHANGED <<phone, general, report>>
  BY DEF CombinedMix, Items, Train, TrainerWrites, Evaluate, Calibrate, SaveAdapter,
         WriteManifest, Writes, InTrainer, At, Trainers, files
<1>2. step > 1
  BY <1>1, StepsAfterInputs DEF Runs
<1>3. mem = [train |-> mem.train, val |-> mem.val, calibration |-> mem.calibration,
             protected |-> mem.protected]
  BY DEF Origin, MemoryOrigin, MemoryShape
<1> DEFINE Part(m) == /\ m = [train |-> m.train, val |-> m.val, calibration |-> m.calibration,
                              protected |-> m.protected]
                      /\ \A s \in Splits : m[s] \subseteq mem[s]
<1>4. PICK m : Advance(m) /\ Part(m)
  <2>1. CASE CombinedMix
    <3>1. PICK pw \in PhoneWeights, gw \in GeneralWeights :
               \E t \in WeightedMix(mem.train \cap Query, mem.train \ Query, pw, gw) :
                  Advance([mem EXCEPT !.train = t])
      BY <2>1 DEF CombinedMix
    <3>2. PICK t \in WeightedMix(mem.train \cap Query, mem.train \ Query, pw, gw) :
               Advance([mem EXCEPT !.train = t])
      BY <3>1
    <3>3. t \subseteq mem.train
      BY <3>2 DEF WeightedMix, Kept, Take
    <3>4. [mem EXCEPT !.train = t] = [train |-> t, val |-> mem.val,
             calibration |-> mem.calibration, protected |-> mem.protected]
      BY <1>3
    <3> QED BY <3>2, <3>3, <3>4 DEF Splits
  <2>2. ASSUME Advance(mem) PROVE \E m : Advance(m) /\ Part(m)
    BY <1>3, <2>2
  <2>3. CASE Items
    <3>1. CASE \E t \in Take(mem.train, SmokeItems), v \in Take(mem.val, SmokeItems),
                  c \in Take(mem.calibration, SmokeItems) :
                  Advance([mem EXCEPT !.train = t, !.val = v, !.calibration = c])
      <4>1. PICK t \in Take(mem.train, SmokeItems), v \in Take(mem.val, SmokeItems),
                  c \in Take(mem.calibration, SmokeItems) :
                  Advance([mem EXCEPT !.train = t, !.val = v, !.calibration = c])
        BY <3>1
      <4>2. t \subseteq mem.train /\ v \subseteq mem.val /\ c \subseteq mem.calibration
        BY DEF Take
      <4> DEFINE n == [mem EXCEPT !.train = t, !.val = v, !.calibration = c]
      <4>3. DOMAIN mem = {"train", "val", "calibration", "protected"}
        BY <1>3
      <4>4. n.train = t /\ n.val = v /\ n.calibration = c /\ n.protected = mem.protected
        BY <4>3
      <4>5. n = [f \in {"train", "val", "calibration", "protected"} |-> n[f]]
        BY <4>3
      <4>6. Advance(n)
        BY <4>1
      <4> HIDE DEF n
      <4>7. n = [train |-> n.train, val |-> n.val, calibration |-> n.calibration,
                 protected |-> n.protected]
        BY <4>5
      <4>8. \A s \in Splits : n[s] \subseteq mem[s]
        BY <4>2, <4>4 DEF Splits
      <4> QED BY <4>6, <4>7, <4>8
    <3> QED BY <2>2, <2>3, <3>1 DEF Items
  <2>4. CASE Train \/ TrainerWrites
    BY <2>2, <2>4 DEF Train, TrainerWrites, Evaluate, Calibrate, SaveAdapter, WriteManifest, Writes
  <2> QED BY <2>1, <2>3, <2>4
<1>5. MemoryOrigin'
  BY <1>1, <1>2, <1>4, ShrinkingKeepsMemory
<1>6. plan' = plan /\ ~Freezing'
  BY <1>1, <1>4, NoneIsNoTool DEF Advance, Freezing, Trainers
<1>7. CASE trained' = trained
  BY <1>1, <1>5, <1>6, <1>7, FilesKept DEF Origin
<1>8. CASE trained' = [trained EXCEPT ![tool] = mem.train]
  <2>1. Grounded(mem.train)
    BY <1>1, <1>2, HeldIsGrounded
  <2>2. PhoneOrigin' /\ GeneralOrigin'
    BY <1>1, <1>6 DEF Origin, FilesOrigin, PhoneOrigin, GeneralOrigin, SplitsHeldOut, Avoids
  <2>3. \A t \in Trainers : trained'[t] = IF t = tool THEN mem.train ELSE trained[t]
    BY <1>8 DEF Origin, FilesOrigin, AdapterOrigin
  <2>4. \A t \in Trainers : Grounded(trained[t])'
    BY <1>1, <1>6, <2>1, <2>3 DEF Origin, FilesOrigin, AdapterOrigin, Grounded
  <2>5. report' \notin {NoFile, Torn} =>
           Grounded(report.trained)' /\ report'.cases \subseteq plan'.test \cup TestRow
    BY <1>1, <1>6 DEF Origin, FilesOrigin, AdapterOrigin, Grounded
  <2>6. trained' = [t \in Trainers |-> trained'[t]]
    BY <1>8 DEF Origin, FilesOrigin, AdapterOrigin
  <2> QED BY <1>5, <2>2, <2>4, <2>5, <2>6 DEF Origin, FilesOrigin, AdapterOrigin
<1>9. trained' = trained \/ trained' = [trained EXCEPT ![tool] = mem.train]
  BY DEF CombinedMix, Items, Train, TrainerWrites, Evaluate, Calibrate, SaveAdapter,
         WriteManifest, Writes, files
<1> QED BY <1>7, <1>8, <1>9

LEMMA AdvanceOrEnd ==
    ASSUME Runs, tool \in Tools, NEW m, Advance(m)
    PROVE  /\ plan' = plan
           /\ MemoryOrigin' \/ (tool' = tool /\ step' = step + 1 /\ mem' = m)
           /\ tool' \in {tool, None}
<1>1. /\ \/ tool' = tool /\ step' = step + 1 /\ mem' = m
         \/ tool' = None /\ mem' = NoRows
      /\ plan' = plan
  BY AdvanceKeepsPlace DEF Runs
<1>2. CASE tool' = None /\ mem' = NoRows
  BY <1>1, <1>2, NoneIsNoTool, NoRowsShape, IdleMemory
<1> QED BY <1>1, <1>2

\* The rows of the phone files and of the mixture are rows.
LEMMA FilesAreRows ==
    ASSUME Origin
    PROVE  /\ \A f \in {"train", "calibration", "test"} :
                 Readable(phone[f]) => phone[f] \subseteq Query /\ phone[f] \subseteq Row
           /\ MixtureRead => \A s \in Splits : general[s] \subseteq GeneralRow /\ general[s] \subseteq Row
<1>1. plan.train \subseteq Query /\ plan.calibration \subseteq Query /\ plan.test \subseteq Query
  BY PlansDisjoint DEF Origin, FilesOrigin, PhoneOrigin
<1>2. \A f \in {"train", "calibration", "test"} : Readable(phone[f]) => phone[f] \subseteq Query
  BY <1>1 DEF Origin, FilesOrigin, PhoneOrigin
<1>3. MixtureRead => \A s \in Splits : general[s] \subseteq GeneralRow
  BY DEF Origin, FilesOrigin, GeneralOrigin, SplitsHeldOut, MixtureRead
<1> QED BY <1>2, <1>3 DEF Row

LEMMA PhoneTrainerKeepsOrigin ==
    ASSUME Runs, Origin, PhoneInputs \/ PhoneCarve \/ PhoneIsolation
    PROVE  Origin'
<1>1. /\ tool = "phone" /\ tool \in Tools /\ tool \in Trainers
      /\ UNCHANGED <<phone, general, report, trained>>
  BY DEF PhoneInputs, PhoneCarve, PhoneIsolation, At, files, Tools, Trainers
<1>2. ASSUME NEW m, Advance(m), MemoryOrigin'
      PROVE  Origin'
  <2>1. ~Freezing' /\ plan' = plan
    BY <1>1, <1>2, AdvanceOrEnd, NoneIsNoTool DEF Freezing, Tools
  <2> QED BY <1>1, <1>2, <2>1, FilesKept DEF Origin
<1>3. ASSUME NEW m, Advance(m),
             m = [train |-> m.train, val |-> m.val, calibration |-> m.calibration,
                  protected |-> m.protected],
             m.train \subseteq plan.train, \A s \in Splits : m[s] \subseteq Row
      PROVE  Origin'
  <2>1. CASE tool' = tool /\ step' = step + 1 /\ mem' = m
    <3>1. plan' = plan
      BY <1>1, <1>3, AdvanceOrEnd
    <3>2. MemoryShape' /\ TrainerOrigin' /\ ~Freezing'
      BY <1>1, <1>3, <2>1, <3>1 DEF MemoryShape, TrainerOrigin, Freezing
    <3>3. MemoryOrigin'
      BY <3>2 DEF MemoryOrigin, FreezingOrigin
    <3> QED BY <1>2, <1>3, <3>3
  <2> QED BY <1>1, <1>2, <1>3, <2>1, AdvanceOrEnd
<1>4. CASE PhoneInputs
  <2> DEFINE n == [NoRows EXCEPT !.train = phone.train, !.calibration = phone.calibration]
  <2>1. Advance(n) /\ Readable(phone.train) /\ Readable(phone.calibration)
    BY <1>4 DEF PhoneInputs
  <2>2. /\ n.train = phone.train /\ n.val = {} /\ n.calibration = phone.calibration
        /\ n = [f \in {"train", "val", "calibration", "protected"} |-> n[f]]
    BY DEF NoRows
  <2>3. phone.train \subseteq plan.train
    BY <2>1 DEF Origin, FilesOrigin, PhoneOrigin
  <2> HIDE DEF n
  <2>4. \A s \in Splits : n[s] \subseteq Row
    BY <2>1, <2>2, FilesAreRows DEF Splits
  <2>5. n = [train |-> n.train, val |-> n.val, calibration |-> n.calibration,
             protected |-> n.protected]
    BY <2>2
  <2>6. PICK m : m = n
    OBVIOUS
  <2> QED BY <1>3, <2>1, <2>2, <2>3, <2>4, <2>5, <2>6
<1>5. CASE PhoneCarve
  <2>a. PICK size \in ValSizes :
             \E v \in CarvePhone(mem.train, size) : Advance([mem EXCEPT !.val = v, !.train = @ \ v])
    BY <1>5 DEF PhoneCarve
  <2>1. PICK v \in CarvePhone(mem.train, size) : Advance([mem EXCEPT !.val = v, !.train = @ \ v])
    BY <2>a
  <2>2. v \subseteq mem.train
    BY <2>1 DEF CarvePhone
  <2> DEFINE n == [mem EXCEPT !.val = v, !.train = @ \ v]
  <2>3. DOMAIN mem = {"train", "val", "calibration", "protected"} /\ \A s \in Splits : mem[s] \subseteq Row
    BY DEF Origin, MemoryOrigin, MemoryShape
  <2>4. /\ n.train = mem.train \ v /\ n.val = v /\ n.calibration = mem.calibration
        /\ n = [f \in {"train", "val", "calibration", "protected"} |-> n[f]]
    BY <2>3
  <2>5. mem.train \subseteq plan.train
    <3>1. step > 1
      BY <1>1, <1>5, StepsAfterInputs DEF PhoneCarve, At, Runs
    <3> QED BY <1>1, <3>1 DEF Origin, MemoryOrigin, TrainerOrigin
  <2>6. Advance(n)
    BY <2>1
  <2> HIDE DEF n
  <2>7. \A s \in Splits : n[s] \subseteq Row
    BY <2>2, <2>3, <2>4 DEF Splits
  <2>8. n = [train |-> n.train, val |-> n.val, calibration |-> n.calibration,
             protected |-> n.protected]
    BY <2>4
  <2>9. PICK m : m = n
    OBVIOUS
  <2> QED BY <1>3, <2>4, <2>5, <2>6, <2>7, <2>8, <2>9
<1>6. CASE PhoneIsolation /\ Advance(mem)
  <2>1. step > 1
    BY <1>1, <1>6, StepsAfterInputs DEF PhoneIsolation, At, Runs
  <2>2. PICK m : m = mem
    OBVIOUS
  <2>3. mem = [train |-> mem.train, val |-> mem.val, calibration |-> mem.calibration,
               protected |-> mem.protected] /\ mem.train \subseteq plan.train
        /\ \A s \in Splits : mem[s] \subseteq Row
    BY <1>1, <2>1 DEF Origin, MemoryOrigin, TrainerOrigin, MemoryShape
  <2> QED BY <1>3, <1>6, <2>2, <2>3
<1>7. CASE tool' = None /\ step' = 1 /\ UNCHANGED <<plan, run, mem>>
  <2>1. MemoryShape'
    BY <1>7 DEF Origin, MemoryOrigin, MemoryShape
  <2>2. MemoryOrigin' /\ ~Freezing'
    BY <1>7, <2>1, IdleMemory DEF Freezing
  <2> QED BY <1>1, <1>7, <2>2, FilesKept DEF Origin
<1> QED BY <1>4, <1>5, <1>6, <1>7 DEF PhoneIsolation

LEMMA MixtureInputsKeepOrigin ==
    ASSUME Runs, Origin, GeneralInputs \/ CombinedInputs
    PROVE  Origin'
<1>1. /\ tool \in {"general", "combined"} /\ tool \in Tools
      /\ UNCHANGED <<phone, general, report, trained>>
      /\ MixtureRead /\ MixtureRead'
  BY DEF GeneralInputs, CombinedInputs, At, files, Tools, Trainers, GeneralReadable, MixtureRead
<1>2. ASSUME NEW m, Advance(m),
             m = [train |-> m.train, val |-> m.val, calibration |-> m.calibration,
                  protected |-> m.protected],
             \A s \in Splits : m[s] \subseteq Row,
             tool' = tool /\ step' = step + 1 /\ mem' = m => TrainerOrigin'
      PROVE  Origin'
  <2>1. ~Freezing' /\ plan' = plan
    BY <1>1, <1>2, AdvanceOrEnd, NoneIsNoTool DEF Freezing, Tools
  <2>2. MemoryOrigin'
    <3>1. CASE tool' = tool /\ step' = step + 1 /\ mem' = m
      BY <1>2, <2>1, <3>1 DEF MemoryOrigin, MemoryShape, FreezingOrigin
    <3> QED BY <1>1, <1>2, <3>1, AdvanceOrEnd
  <2> QED BY <1>1, <2>1, <2>2, FilesKept DEF Origin
<1>3. CASE GeneralInputs
  <2> DEFINE n == [NoRows EXCEPT !.train = general.train, !.val = general.val,
                                 !.calibration = general.calibration]
  <2>1. Advance(n) /\ tool = "general"
    BY <1>3 DEF GeneralInputs, At
  <2>2. /\ n.train = general["train"] /\ n.val = general["val"]
        /\ n.calibration = general["calibration"]
        /\ n = [f \in {"train", "val", "calibration", "protected"} |-> n[f]]
    BY DEF NoRows
  <2> HIDE DEF n
  <2>3. \A s \in Splits : n[s] = general[s]
    BY <2>2 DEF Splits
  <2>4. \A s \in Splits : n[s] \subseteq Row
    BY <1>1, <2>3, FilesAreRows
  <2>5. n = [train |-> n.train, val |-> n.val, calibration |-> n.calibration,
             protected |-> n.protected]
    BY <2>2
  <2>6. PICK m : m = n
    OBVIOUS
  <2>7. ASSUME tool' = tool, mem' = m PROVE TrainerOrigin'
    BY <1>1, <2>1, <2>3, <2>6, <2>7 DEF TrainerOrigin
  <2> QED BY <1>2, <2>1, <2>4, <2>5, <2>6, <2>7
<1>4. CASE CombinedInputs
  <2>1. PICK size \in ValSizes :
             \E v \in CarveEvenly(phone.train, size) :
                Advance([NoRows EXCEPT !.train = (phone.train \ v) \cup general.train,
                                       !.val = v \cup general.val,
                                       !.calibration = phone.calibration \cup general.calibration])
    BY <1>4 DEF CombinedInputs
  <2>2. PICK v \in CarveEvenly(phone.train, size) :
             Advance([NoRows EXCEPT !.train = (phone.train \ v) \cup general.train,
                                    !.val = v \cup general.val,
                                    !.calibration = phone.calibration \cup general.calibration])
    BY <2>1
  <2>3. v \subseteq phone.train
    BY <2>2 DEF CarveEvenly
  <2> DEFINE n == [NoRows EXCEPT !.train = (phone.train \ v) \cup general.train,
                                 !.val = v \cup general.val,
                                 !.calibration = phone.calibration \cup general.calibration]
  <2>4. Advance(n) /\ tool = "combined" /\ Readable(phone["train"]) /\ Readable(phone["calibration"])
    BY <1>4, <2>2 DEF CombinedInputs, At
  <2>5. /\ n.train = (phone["train"] \ v) \cup general["train"]
        /\ n.val = v \cup general["val"]
        /\ n.calibration = phone["calibration"] \cup general["calibration"]
        /\ n = [f \in {"train", "val", "calibration", "protected"} |-> n[f]]
    BY DEF NoRows
  <2> HIDE DEF n
  <2>6. /\ phone["train"] \subseteq Query /\ phone["calibration"] \subseteq Query
        /\ \A s \in Splits : general[s] \subseteq GeneralRow
    BY <1>1, <2>4, FilesAreRows
  <2>7. \A s \in Splits : n[s] \subseteq Query \cup general[s]
    BY <2>3, <2>5, <2>6 DEF Splits
  <2>8. \A s \in Splits : n[s] \subseteq Row
    BY <2>6, <2>7 DEF Row
  <2>9. n = [train |-> n.train, val |-> n.val, calibration |-> n.calibration,
             protected |-> n.protected]
    BY <2>5
  <2>10. /\ n.train \cap Query \subseteq phone["train"]
         /\ n.val \cap Query \subseteq phone["train"]
         /\ n.calibration \cap Query \subseteq phone["calibration"]
         /\ n.train \cap n.val \cap Query = {}
    BY <2>3, <2>5, <2>6, DataAssumption DEF Splits
  <2>11. PICK m : m = n
    OBVIOUS
  <2>12. ASSUME tool' = tool, mem' = m PROVE TrainerOrigin'
    BY <1>1, <2>4, <2>7, <2>10, <2>11, <2>12 DEF TrainerOrigin
  <2> QED BY <1>2, <2>4, <2>8, <2>9, <2>11, <2>12
<1> QED BY <1>3, <1>4

LEMMA EvaluationKeepsOrigin ==
    ASSUME Runs, Origin, Benchmarks \/ Measure \/ Publish
    PROVE  Origin'
<1>1. /\ tool = "evaluate" /\ tool \in Tools /\ tool \notin Trainers
      /\ UNCHANGED <<phone, general, trained>>
  BY DEF Benchmarks, Measure, Publish, At, files, Tools, Trainers
<1>2. ASSUME NEW m, Advance(m),
             m = [train |-> m.train, val |-> m.val, calibration |-> m.calibration,
                  protected |-> m.protected],
             \A s \in Splits : m[s] \subseteq Row,
             Grounded(m.train), m.val \subseteq plan.test \cup TestRow
      PROVE  MemoryOrigin' /\ plan' = plan /\ ~Freezing'
  <2>1. ~Freezing' /\ plan' = plan
    BY <1>1, <1>2, AdvanceOrEnd, NoneIsNoTool DEF Freezing, Tools
  <2>2. MemoryOrigin'
    <3>1. CASE tool' = tool /\ step' = step + 1 /\ mem' = m
      <4>1. Grounded(mem.train)'
        BY <1>1, <1>2, <2>1, <3>1 DEF Grounded
      <4>2. TrainerOrigin'
        BY <1>1, <1>2, <2>1, <3>1, <4>1 DEF TrainerOrigin
      <4> QED BY <1>2, <2>1, <3>1, <4>2 DEF MemoryOrigin, MemoryShape, FreezingOrigin
    <3> QED BY <1>1, <1>2, <3>1, AdvanceOrEnd
  <2> QED BY <2>1, <2>2
<1>3. CASE Benchmarks
  <2>1. PICK b \in BalancedIntents("banking77") :
             \E c \in BalancedIntents("clinc150") :
                Advance([NoRows EXCEPT
                     !.val = phone.test \cup From(TestRow, "typed_decisions") \cup b \cup c,
                     !.calibration = phone.calibration])
    BY <1>3 DEF Benchmarks
  <2>2. PICK c \in BalancedIntents("clinc150") :
                Advance([NoRows EXCEPT
                     !.val = phone.test \cup From(TestRow, "typed_decisions") \cup b \cup c,
                     !.calibration = phone.calibration])
    BY <2>1
  <2>3. b \subseteq TestRow /\ c \subseteq TestRow /\ From(TestRow, "typed_decisions") \subseteq TestRow
    BY DEF BalancedIntents, From
  <2> DEFINE n == [NoRows EXCEPT
                     !.val = phone.test \cup From(TestRow, "typed_decisions") \cup b \cup c,
                     !.calibration = phone.calibration]
  <2>4. Advance(n) /\ Readable(phone["test"]) /\ Readable(phone["calibration"])
    BY <1>3, <2>2 DEF Benchmarks
  <2>5. /\ n.train = {} /\ n.calibration = phone["calibration"]
        /\ n.val = phone["test"] \cup From(TestRow, "typed_decisions") \cup b \cup c
        /\ n = [f \in {"train", "val", "calibration", "protected"} |-> n[f]]
    BY DEF NoRows
  <2> HIDE DEF n
  <2>6. phone["test"] \subseteq plan.test
    BY <2>4 DEF Origin, FilesOrigin, PhoneOrigin
  <2>7. n.val \subseteq plan.test \cup TestRow /\ Grounded(n.train)
    BY <2>3, <2>5, <2>6, NothingGrounded
  <2>8. phone["test"] \subseteq Row /\ phone["calibration"] \subseteq Row
    BY <2>4, FilesAreRows
  <2>9. \A s \in Splits : n[s] \subseteq Row
    BY <2>3, <2>5, <2>8 DEF Splits, Row
  <2>10. n = [train |-> n.train, val |-> n.val, calibration |-> n.calibration,
              protected |-> n.protected]
    BY <2>5
  <2>11. PICK m : m = n
    OBVIOUS
  <2>12. MemoryOrigin' /\ plan' = plan /\ ~Freezing'
    BY <1>2, <2>4, <2>7, <2>9, <2>10, <2>11
  <2> QED BY <1>1, <1>3, <2>12, FilesKept DEF Origin, Benchmarks, files
<1>4. CASE Measure
  <2>1. PICK t \in Trainers : Advance([mem EXCEPT !.train = trained[t]])
    BY <1>4 DEF Measure
  <2> DEFINE n == [mem EXCEPT !.train = trained[t]]
  <2>2. DOMAIN mem = {"train", "val", "calibration", "protected"} /\ \A s \in Splits : mem[s] \subseteq Row
    BY DEF Origin, MemoryOrigin, MemoryShape
  <2>3. /\ n.train = trained[t] /\ n.val = mem.val /\ n.calibration = mem.calibration
        /\ n = [f \in {"train", "val", "calibration", "protected"} |-> n[f]]
    BY <2>2
  <2>4. Advance(n)
    BY <2>1
  <2> HIDE DEF n
  <2>5. Grounded(n.train)
    BY <2>3 DEF Origin, FilesOrigin, AdapterOrigin
  <2>6. step > 1
    <3>1. Order("evaluate")[1] # "adapter" /\ Order("evaluate")[step] = "adapter"
      BY <1>4, OrderOfSteps DEF Measure, At
    <3> QED BY <3>1 DEF Runs, Place
  <2>7. n.val \subseteq plan.test \cup TestRow
    BY <1>1, <2>3, <2>6 DEF Origin, MemoryOrigin, TrainerOrigin
  <2>8. \A s \in Splits : n[s] \subseteq Row
    BY <2>2, <2>3, <2>5 DEF Splits, Row, Grounded
  <2>9. n = [train |-> n.train, val |-> n.val, calibration |-> n.calibration,
             protected |-> n.protected]
    BY <2>3
  <2>10. PICK m : m = n
    OBVIOUS
  <2>11. MemoryOrigin' /\ plan' = plan /\ ~Freezing'
    BY <1>2, <2>4, <2>5, <2>7, <2>8, <2>9, <2>10
  <2> QED BY <1>1, <1>4, <2>11, FilesKept DEF Origin, Measure, files
<1>5. CASE Publish
  <2>1. step > 1
    <3>1. Order("evaluate")[1] # "report" /\ Order("evaluate")[step] = "report"
      BY <1>5, OrderOfSteps DEF Publish, At
    <3> QED BY <3>1 DEF Runs, Place
  <2>2. Grounded(mem.train) /\ mem.val \subseteq plan.test \cup TestRow
    BY <1>1, <2>1 DEF Origin, MemoryOrigin, TrainerOrigin
  <2>3. mem = [train |-> mem.train, val |-> mem.val, calibration |-> mem.calibration,
               protected |-> mem.protected] /\ \A s \in Splits : mem[s] \subseteq Row
    BY DEF Origin, MemoryOrigin, MemoryShape
  <2>4. PICK m : m = mem
    OBVIOUS
  <2>5. MemoryOrigin' /\ plan' = plan /\ ~Freezing'
    BY <1>2, <1>5, <2>2, <2>3, <2>4 DEF Publish
  <2>6. PhoneOrigin' /\ GeneralOrigin'
    BY <1>1, <2>5 DEF Origin, FilesOrigin, PhoneOrigin, GeneralOrigin, SplitsHeldOut, Avoids
  <2>7. \A t \in Trainers : Grounded(trained[t])'
    BY <1>1, <2>5 DEF Origin, FilesOrigin, AdapterOrigin, Grounded
  <2>8. report'.trained = mem.train /\ report'.cases = mem.val
    BY <1>5 DEF Publish
  <2>9. Grounded(report.trained)'
    BY <1>1, <2>2, <2>5, <2>8 DEF Grounded
  <2>10. AdapterOrigin'
    BY <1>1, <2>2, <2>5, <2>7, <2>8, <2>9 DEF Origin, FilesOrigin, AdapterOrigin
  <2> QED BY <2>5, <2>6, <2>10 DEF Origin, FilesOrigin
<1> QED BY <1>3, <1>4, <1>5

LEMMA BuildKeepsOrigin == ASSUME Runs, Origin, Build PROVE Origin'
<1> DEFINE f == Order("build")[step]
           content == IF f = "manifest" THEN {} ELSE plan[f]
<1>1. /\ tool = "build" /\ tool \in Tools /\ tool \notin Trainers /\ Advance(mem)
      /\ phone' = [phone EXCEPT ![f] = content]
      /\ UNCHANGED <<general, report, trained>>
  BY DEF Build, Tools, Trainers
<1>2. plan' = plan /\ ~Freezing /\ ~Freezing'
  <2>1. PICK m : m = mem
    OBVIOUS
  <2> QED BY <1>1, <2>1, AdvanceOrEnd, NoneIsNoTool DEF Freezing, Tools
<1>3. MemoryOrigin'
  <2>1. PICK m : m = mem
    OBVIOUS
  <2>2. CASE tool' = tool /\ step' = step + 1 /\ mem' = m
    <3>1. MemoryShape'
      BY <2>1, <2>2 DEF Origin, MemoryOrigin, MemoryShape
    <3>2. TrainerOrigin'
      BY <1>1, <2>2 DEF TrainerOrigin, Trainers
    <3> QED BY <1>2, <3>1, <3>2 DEF MemoryOrigin, FreezingOrigin
  <2> QED BY <1>1, <2>1, <2>2, AdvanceOrEnd
<1>4. PhoneOrigin'
  <2>1. f \in {"train", "calibration", "test", "manifest"}
    <3>1. step \in 1 .. Len(Order("build"))
      BY <1>1, OrderOfSteps DEF Runs, Place
    <3> QED BY <3>1, OrderOfSteps
  <2>2. PhoneOrigin
    BY DEF Origin, FilesOrigin
  <2> HIDE DEF f
  <2> QED BY <1>1, <1>2, <2>1, <2>2 DEF PhoneOrigin
<1>5. GeneralOrigin'
  BY <1>1 DEF Origin, FilesOrigin, GeneralOrigin, SplitsHeldOut, Avoids
<1>6. AdapterOrigin'
  <2>1. \A t \in Trainers : Grounded(trained[t])'
    BY <1>1, <1>2 DEF Origin, FilesOrigin, AdapterOrigin, Grounded
  <2>2. report' \notin {NoFile, Torn} =>
           Grounded(report.trained)' /\ report'.cases \subseteq plan'.test \cup TestRow
    BY <1>1, <1>2 DEF Origin, FilesOrigin, AdapterOrigin, Grounded
  <2> QED BY <1>1, <2>1, <2>2 DEF Origin, FilesOrigin, AdapterOrigin
<1> QED BY <1>3, <1>4, <1>5, <1>6 DEF Origin, FilesOrigin

\* With no mixture there, or one that is being written, no model has a general row.
LEMMA NothingMixedYet ==
    ASSUME AdapterOrigin, general = NoFile \/ Freezing, UNCHANGED <<plan, report, trained>>
    PROVE  AdapterOrigin'
<1>1. \A t \in Trainers : Grounded(trained[t])'
  BY DEF AdapterOrigin, Grounded
<1>2. report' \notin {NoFile, Torn} =>
         Grounded(report.trained)' /\ report'.cases \subseteq plan'.test \cup TestRow
  BY DEF AdapterOrigin, Grounded
<1> QED BY <1>1, <1>2 DEF AdapterOrigin

LEMMA FreezeKeepsOrigin == ASSUME Runs, Origin, Freeze PROVE Origin'
<1> DEFINE phoneRows == UNION {phone[f] : f \in PhoneFiles}
           protected == [f \in PhoneFiles |-> phone[f]]
<1>1. /\ tool = "prepare" /\ tool \in Tools /\ tool \notin Trainers /\ general = NoFile
      /\ general' = [f \in Splits \cup {"split-manifest"} |-> NoFile]
      /\ UNCHANGED <<phone, report, trained>>
  BY DEF Freeze, At, Tools, Trainers
<1>2. PICK x \in Mixtures(phoneRows) :
           Advance([train |-> x.train, val |-> x.val, calibration |-> x.calibration,
                    protected |-> protected])
  BY DEF Freeze
<1>3. PICK m : m = [train |-> x.train, val |-> x.val, calibration |-> x.calibration,
                    protected |-> protected]
  OBVIOUS
<1>4. /\ m.train \subseteq GeneralRow /\ m.val \subseteq GeneralRow /\ m.calibration \subseteq GeneralRow
      /\ Apart(m.train, m.val) /\ Apart(m.train, m.calibration) /\ Apart(m.val, m.calibration)
      /\ States(m.train \cup m.val \cup m.calibration) \cap Protected(phoneRows) = {}
  <2> HIDE DEF phoneRows
  <2> QED BY <1>3, MixturesHeldOut DEF Apart
<1>5. \A s \in Splits : m[s] \subseteq GeneralRow /\ States(m[s]) \cap Protected(phoneRows) = {}
  <2> HIDE DEF phoneRows
  <2> QED BY <1>4 DEF Splits, States
<1>6. \A s \in Splits : Apart(m[s], TestRow)
  BY <1>5 DEF Apart, Protected
<1>7. \A s, u \in Splits : s # u => Apart(m[s], m[u])
  BY <1>4 DEF Splits, Apart
<1>8. \A f \in PhoneFiles, s \in Splits : Apart(m[s], phone[f])
  <2> TAKE f \in PhoneFiles, s \in Splits
  <2>1. States(phone[f]) \subseteq States(phoneRows)
    BY DEF States
  <2>2. States(m[s]) \cap States(phoneRows) = {}
    BY <1>5 DEF Protected
  <2> QED BY <2>1, <2>2 DEF Apart
<1>9. Advance(m) /\ plan' = plan
  BY <1>2, <1>3 DEF Advance
<1>10. MemoryOrigin'
  <2>1. CASE tool' = tool /\ step' = step + 1 /\ mem' = m
    <3>1. mem' = [train |-> mem'.train, val |-> mem'.val, calibration |-> mem'.calibration,
                  protected |-> mem'.protected] /\ mem'.protected = protected
      BY <1>3, <2>1
    <3>2. MemoryShape'
      BY <1>5, <2>1, <3>1 DEF MemoryShape, Row
    <3>3. TrainerOrigin'
      BY <1>1, <2>1 DEF TrainerOrigin, Trainers
    <3>4. \A s \in Splits : general'[s] = NoFile
      BY <1>1
    <3>5. general'["split-manifest"] = NoFile
          /\ general' = [f \in Splits \cup {"split-manifest"} |-> general'[f]]
      BY <1>1
    <3>6. \A f \in DOMAIN mem'.protected, s \in Splits : Apart(mem'[s], mem'.protected[f])
      BY <1>8, <2>1, <3>1
    <3>7. \A f \in DOMAIN mem'.protected, s \in Splits : Apart(mem[s], mem.protected[f])'
      BY <3>6 DEF Apart, States
    <3>8. \A s, u \in Splits : s # u => Apart(mem[s], mem[u])'
      BY <1>7, <2>1 DEF Apart, States
    <3>9. \A s \in Splits : mem'[s] \subseteq GeneralRow /\ Apart(mem[s], TestRow)'
      BY <1>5, <1>6, <2>1 DEF Apart, States
    <3>10. FreezingOrigin'
      BY <3>4, <3>5, <3>7, <3>8, <3>9 DEF FreezingOrigin, Readable
    <3> QED BY <3>2, <3>3, <3>10 DEF MemoryOrigin
  <2> QED BY <1>1, <1>9, <2>1, AdvanceOrEnd
<1>11. PhoneOrigin'
  BY <1>1, <1>9 DEF Origin, FilesOrigin, PhoneOrigin
<1>12. GeneralOrigin'
  BY <1>1 DEF GeneralOrigin, SplitsHeldOut, Avoids, Readable
<1>13. AdapterOrigin'
  BY <1>1, <1>9, NothingMixedYet DEF Origin, FilesOrigin
<1> QED BY <1>10, <1>11, <1>12, <1>13 DEF Origin, FilesOrigin

\* A file of the mixture holds what is in memory for it, or a part, or is torn; the
\* manifest, once it can be read, says what was protected.
LEMMA WritingKeepsGeneral ==
    ASSUME FreezingOrigin, Freezing, NEW f \in Splits \cup {"split-manifest"}, NEW c,
           general' = [general EXCEPT ![f] = c],
           f \in Splits /\ Readable(c) => c \subseteq mem[f],
           f = "split-manifest" /\ Readable(c) => c = mem.protected
    PROVE  /\ GeneralOrigin'
           /\ general' = [g \in Splits \cup {"split-manifest"} |-> general'[g]]
           /\ \A s \in Splits : Readable(general'[s]) => general'[s] \subseteq mem[s]
           /\ f # "split-manifest" => general'["split-manifest"] = NoFile
<1>1. \A g \in Splits \cup {"split-manifest"} : general'[g] = IF g = f THEN c ELSE general[g]
  BY DEF FreezingOrigin
<1>2. "split-manifest" \notin Splits
  BY DEF Splits
<1>3. \A s \in Splits : Readable(general'[s]) => general'[s] \subseteq mem[s]
  BY <1>1, <1>2 DEF FreezingOrigin
<1>4. general' = [g \in Splits \cup {"split-manifest"} |-> general'[g]]
  BY DEF FreezingOrigin
<1>5. f # "split-manifest" => general'["split-manifest"] = NoFile
  BY <1>1 DEF FreezingOrigin
<1>6. \A s \in Splits : Readable(general'[s]) =>
         general'[s] \subseteq GeneralRow /\ Apart(general'[s], TestRow)
  BY <1>3 DEF FreezingOrigin, Apart, States
<1>7. \A s, u \in Splits : s # u /\ Readable(general'[s]) /\ Readable(general'[u]) =>
         Apart(general'[s], general'[u])
  BY <1>3 DEF FreezingOrigin, Apart, States
<1>8. SplitsHeldOut(general)'
  BY <1>6, <1>7 DEF SplitsHeldOut, Apart, States, Readable
<1>9. Readable(general'["split-manifest"]) => general'["split-manifest"] = mem.protected
  BY <1>1, <1>5 DEF Readable
<1>10. \A g \in DOMAIN mem.protected, s \in Splits :
          Readable(general'[s]) => Apart(general'[s], mem.protected[g])
  BY <1>3 DEF FreezingOrigin, Apart, States
<1>11. Readable(general'["split-manifest"]) =>
          \A g \in DOMAIN general'["split-manifest"], s \in Splits :
             Readable(general'[s]) => Apart(general'[s], general'["split-manifest"][g])
  BY <1>9, <1>10
<1>12. Readable(general'["split-manifest"]) => Avoids(general, general["split-manifest"])'
  BY <1>11 DEF Avoids, Apart, States, Readable
<1>13. GeneralOrigin'
  BY <1>8, <1>12 DEF GeneralOrigin, Readable
<1> QED BY <1>3, <1>4, <1>5, <1>13

LEMMA FreezeWriteKeepsOrigin == ASSUME Runs, Origin, FreezeWrite PROVE Origin'
<1> DEFINE f == Order("prepare")[step]
           content == IF f = "split-manifest" THEN mem.protected ELSE mem[f]
<1>1. /\ tool = "prepare" /\ tool \in Tools /\ tool \notin Trainers /\ f # "freeze" /\ Advance(mem)
      /\ general' = [general EXCEPT ![f] = content]
      /\ UNCHANGED <<phone, report, trained>>
  BY DEF FreezeWrite, Tools, Trainers
<1>2. Freezing
  BY <1>1, OrderOfSteps DEF Freezing, Runs, Place
<1>3. f \in Splits \cup {"split-manifest"}
  BY <1>1, <1>2, OrderOfSteps DEF Freezing, Runs, Place
<1>4. FreezingOrigin
  BY DEF Origin, MemoryOrigin
<1>5. f = "split-manifest" => step = Len(Order(tool))
  BY <1>1, OrderOfSteps DEF Runs, Place
<1>6. PICK c : c = content
  OBVIOUS
<1>7. PICK g : g = f
  OBVIOUS
<1>8. /\ g \in Splits \cup {"split-manifest"} /\ general' = [general EXCEPT ![g] = c]
      /\ (g \in Splits /\ Readable(c) => c \subseteq mem[g])
      /\ (g = "split-manifest" /\ Readable(c) => c = mem.protected)
  <2> HIDE DEF f
  <2> QED BY <1>1, <1>3, <1>6, <1>7 DEF Splits
<1>9. /\ GeneralOrigin'
      /\ general' = [h \in Splits \cup {"split-manifest"} |-> general'[h]]
      /\ \A s \in Splits : Readable(general'[s]) => general'[s] \subseteq mem[s]
      /\ g # "split-manifest" => general'["split-manifest"] = NoFile
  BY <1>2, <1>4, <1>8, WritingKeepsGeneral
<1>10. PICK m : m = mem
  OBVIOUS
<1>11. plan' = plan /\ (MemoryOrigin' \/ (tool' = tool /\ step' = step + 1 /\ mem' = mem))
  BY <1>1, <1>10, AdvanceOrEnd
<1>12. MemoryOrigin'
  <2>1. CASE tool' = tool /\ step' = step + 1 /\ mem' = mem
    <3>1. g # "split-manifest"
      BY <1>1, <1>5, <1>7, <2>1, NoneIsNoTool DEF Advance
    <3>2. MemoryShape'
      BY <2>1 DEF Origin, MemoryOrigin, MemoryShape
    <3>3. TrainerOrigin'
      BY <1>1, <2>1 DEF TrainerOrigin, Trainers
    <3>4. FreezingOrigin'
      BY <1>2, <1>4, <1>9, <2>1, <3>1 DEF FreezingOrigin, Apart, States, Readable
    <3> QED BY <3>2, <3>3, <3>4 DEF MemoryOrigin
  <2> QED BY <1>11, <2>1
<1>13. PhoneOrigin'
  BY <1>1, <1>11 DEF Origin, FilesOrigin, PhoneOrigin
<1>14. AdapterOrigin'
  BY <1>1, <1>2, <1>11, NothingMixedYet DEF Origin, FilesOrigin
<1> QED BY <1>9, <1>12, <1>13, <1>14 DEF Origin, FilesOrigin

LEMMA StopKeepsOrigin == ASSUME Runs, Origin, Stop PROVE Origin'
<1> DEFINE f == Order(tool)[step]
<1>1. /\ tool \in Tools /\ tool' = None /\ step' = 1 /\ mem' = NoRows /\ plan' = plan
  BY DEF Stop, Runs, Place
<1>2. MemoryOrigin'
  BY <1>1, NoRowsShape, IdleMemory
<1>3. ~Freezing'
  BY <1>1 DEF Freezing
<1>4. PhoneOrigin'
  <2>1. CASE phone' = phone
    BY <1>1, <2>1 DEF Origin, FilesOrigin, PhoneOrigin
  <2>2. CASE tool = "build" /\ phone' # phone
    <3>1. PICK c \in Cut(IF f = "manifest" THEN {} ELSE plan[f]) : phone' = [phone EXCEPT ![f] = c]
      BY <2>2 DEF Stop
    <3>2. f \in {"train", "calibration", "test", "manifest"}
      <4>1. step \in 1 .. Len(Order("build"))
        BY <2>2, OrderOfSteps DEF Runs, Place, Tools
      <4> QED BY <2>2, <4>1, OrderOfSteps
    <3>3. PhoneOrigin
      BY DEF Origin, FilesOrigin
    <3>4. Readable(c) => c \subseteq (IF f = "manifest" THEN {} ELSE plan[f])
      BY <3>1 DEF Cut, Readable
    <3> HIDE DEF f
    <3> QED BY <1>1, <3>1, <3>2, <3>3, <3>4 DEF PhoneOrigin, Readable
  <2>3. phone' = phone \/ tool = "build"
    BY DEF Stop
  <2> QED BY <2>1, <2>2, <2>3
<1>5. (general' = general \/ Freezing) /\ GeneralOrigin'
  <2>1. CASE general' = general
    BY <2>1 DEF Origin, FilesOrigin, GeneralOrigin, SplitsHeldOut, Avoids
  <2>2. CASE general' # general
    <3>1. tool = "prepare" /\ f # "freeze"
      BY <2>2 DEF Stop
    <3>2. Freezing /\ f \in Splits \cup {"split-manifest"}
      <4>1. step \in 1 .. Len(Order("prepare")) /\ step # 1
        BY <3>1, OrderOfSteps DEF Runs, Place, Tools
      <4> QED BY <3>1, <4>1, OrderOfSteps DEF Freezing
    <3>3. PICK c \in (IF f = "split-manifest" THEN {Torn} ELSE Cut(mem[f])) :
               general' = [general EXCEPT ![f] = c]
      BY <2>2, <3>1 DEF Stop
    <3>4. PICK g : g = f
      OBVIOUS
    <3>5. /\ g \in Splits \cup {"split-manifest"} /\ general' = [general EXCEPT ![g] = c]
          /\ (g \in Splits /\ Readable(c) => c \subseteq mem[g])
          /\ (g = "split-manifest" /\ Readable(c) => c = mem.protected)
      <4> HIDE DEF f
      <4> QED BY <3>2, <3>3, <3>4 DEF Cut, Readable, Splits
    <3> QED BY <3>2, <3>5, WritingKeepsGeneral DEF Origin, MemoryOrigin
  <2> QED BY <2>1, <2>2
<1>6. AdapterOrigin'
  <2>1. tool \in Trainers \/ trained' = trained
    BY DEF Stop, CutOutput
  <2>2. CASE trained' = trained
    <3>1. report' = report \/ report' = Torn
      BY DEF Stop
    <3>2. \A t \in Trainers : Grounded(trained[t])'
      BY <1>1, <1>3, <1>5, <2>2 DEF Origin, FilesOrigin, AdapterOrigin, Grounded
    <3>3. report' \notin {NoFile, Torn} =>
             Grounded(report.trained)' /\ report'.cases \subseteq plan'.test \cup TestRow
      BY <1>1, <1>3, <1>5, <3>1 DEF Origin, FilesOrigin, AdapterOrigin, Grounded
    <3> QED BY <2>2, <3>2, <3>3 DEF Origin, FilesOrigin, AdapterOrigin
  <2>3. CASE trained' # trained
    <3>1. /\ tool \in Trainers /\ f = "adapter"
          /\ trained' = [trained EXCEPT ![tool] = @ \cup mem.train]
      BY <2>3 DEF Stop, CutOutput
    <3>2. general' = general /\ report' = report
      BY <3>1 DEF Stop, Trainers
    <3>3. step > 1
      BY <3>1, StepsAfterInputs DEF Runs
    <3>4. Grounded(mem.train)
      BY <3>1, <3>3, HeldIsGrounded
    <3>5. \A t \in Trainers :
             trained'[t] = IF t = tool THEN trained[t] \cup mem.train ELSE trained[t]
      BY <3>1 DEF Origin, FilesOrigin, AdapterOrigin
    <3>6. \A t \in Trainers : Grounded(trained[t])'
      BY <1>1, <1>3, <3>2, <3>4, <3>5 DEF Origin, FilesOrigin, AdapterOrigin, Grounded
    <3>7. report' \notin {NoFile, Torn} =>
             Grounded(report.trained)' /\ report'.cases \subseteq plan'.test \cup TestRow
      BY <1>1, <1>3, <3>2 DEF Origin, FilesOrigin, AdapterOrigin, Grounded
    <3>8. trained' = [t \in Trainers |-> trained'[t]]
      BY <3>1 DEF Origin, FilesOrigin, AdapterOrigin
    <3> QED BY <3>6, <3>7, <3>8 DEF AdapterOrigin
  <2> QED BY <2>2, <2>3
<1> QED BY <1>2, <1>4, <1>5, <1>6 DEF Origin, FilesOrigin

LEMMA StartKeepsOrigin == ASSUME Runs, Origin, Start PROVE Origin'
<1>1. /\ step' = 1 /\ mem' = NoRows /\ UNCHANGED <<plan, phone, general, report, trained>>
  BY DEF Start, files
<1>2. MemoryOrigin' /\ ~Freezing'
  BY <1>1, NoRowsShape, IdleMemory DEF Freezing
<1> QED BY <1>1, <1>2, FilesKept DEF Origin

LEMMA InitOrigin == RunsInit => Origin
<1> SUFFICES ASSUME RunsInit PROVE Origin
  OBVIOUS
<1>1. plan \in BuilderPlans
  BY DEF RunsInit
<1>2. PhoneOrigin
  <2>1. CASE phone = [train |-> plan.train, calibration |-> plan.calibration, test |-> plan.test,
                      manifest |-> {}]
    BY <1>1, <2>1 DEF PhoneOrigin
  <2>2. CASE phone = [f \in {"train", "calibration", "test", "manifest"} |-> NoFile]
    BY <1>1, <2>2 DEF PhoneOrigin, Readable
  <2> QED BY <2>1, <2>2 DEF RunsInit
<1>3. GeneralOrigin
  BY DEF RunsInit, GeneralOrigin
<1>4. AdapterOrigin
  BY NothingGrounded DEF RunsInit, AdapterOrigin
<1>5. MemoryOrigin
  <2>1. mem = NoRows /\ step = 1
    BY DEF RunsInit
  <2>2. MemoryShape
    BY <2>1 DEF MemoryShape, NoRows, Splits
  <2> QED BY <2>1, <2>2 DEF MemoryOrigin, FreezingOrigin, Freezing, TrainerOrigin
<1> QED BY <1>2, <1>3, <1>4, <1>5 DEF Origin, FilesOrigin

LEMMA NextKeepsOrigin == ASSUME Runs, Origin, [RunsNext]_runVars PROVE Origin'
<1>1. CASE UNCHANGED runVars
  <2>1. FilesOrigin'
    BY <1>1, FilesKept DEF runVars, Freezing
  <2>2. MemoryOrigin'
    BY <1>1 DEF runVars, Origin, MemoryOrigin, MemoryShape, FreezingOrigin, Freezing,
       TrainerOrigin, MixtureRead, Grounded, Readable, Apart, States
  <2> QED BY <2>1, <2>2 DEF Origin
<1>2. CASE RunsNext
  BY <1>2, StartKeepsOrigin, StopKeepsOrigin, BuildKeepsOrigin, FreezeKeepsOrigin,
     FreezeWriteKeepsOrigin, PhoneTrainerKeepsOrigin, MixtureInputsKeepOrigin,
     TrainingKeepsOrigin, EvaluationKeepsOrigin DEF RunsNext, TrainerWrites
<1> QED BY <1>1, <1>2

-----------------------------------------------------------------------------
(* The theorems.                                                            *)

LEMMA InvariantHolds == RunsSpec => [](Runs /\ Origin)
<1>1. RunsInit => Runs /\ Origin
  BY InitRuns, InitOrigin
<1>2. Runs /\ Origin /\ [RunsNext]_runVars => (Runs /\ Origin)'
  BY NextKeepsRuns, NextKeepsOrigin
<1> QED BY <1>1, <1>2, PTL DEF RunsSpec

\* Type correctness, and a query in one phone file at most, whether the development cases
\* were excluded or could not be imported.
THEOREM TypesHold == RunsSpec => []RunsTypeOK
<1>1. Runs /\ Origin => RunsTypeOK
  <2> SUFFICES ASSUME Runs, Origin PROVE RunsTypeOK
    OBVIOUS
  <2>1. DOMAIN plan = {"train", "calibration", "test"}
        /\ plan.train \subseteq Query /\ plan.calibration \subseteq Query /\ plan.test \subseteq Query
        /\ plan.train \cap plan.calibration = {} /\ plan.train \cap plan.test = {}
        /\ plan.calibration \cap plan.test = {}
    BY PlansDisjoint DEF Origin, FilesOrigin, PhoneOrigin
  <2>2. DOMAIN phone = {"train", "calibration", "test", "manifest"}
    BY DEF Origin, FilesOrigin, PhoneOrigin
  <2>a. \A f \in DOMAIN phone : Readable(phone[f]) =>
           phone[f] \subseteq IF f = "manifest" THEN {} ELSE plan[f]
    BY <2>2 DEF Origin, FilesOrigin, PhoneOrigin, Readable
  <2>3. \A f \in DOMAIN phone : Readable(phone[f]) => phone[f] \subseteq Query
    BY <2>1, <2>2, <2>a
  <2>b. ASSUME NEW f \in DOMAIN phone, NEW g \in DOMAIN phone, f # g,
               Readable(phone[f]), Readable(phone[g])
        PROVE  phone[f] \cap phone[g] = {}
    BY <2>1, <2>2, <2>a, <2>b
  <2>4. general # NoFile => \A s \in Splits : Readable(general[s]) => general[s] \subseteq GeneralRow
    BY DEF Origin, FilesOrigin, GeneralOrigin, SplitsHeldOut
  <2>5. out \in [Trainers -> [Artifacts -> (0 .. run) \cup {Torn}]]
    BY DEF Runs, Outputs
  <2>6. trained \in [Trainers -> SUBSET (Query \cup GeneralRow)]
    BY DEF Origin, FilesOrigin, AdapterOrigin, Grounded
  <2>7. tool \in Tools \cup {None} /\ step \in Nat \ {0} /\ run \in 0 .. MaxRuns
    BY DEF Runs, Place
  <2>8. \A s \in Splits : mem[s] \subseteq Row
    BY DEF Origin, MemoryOrigin, MemoryShape
  <2>9. alarm \in BOOLEAN
    BY DEF Runs, Place
  <2> QED BY <2>1, <2>2, <2>3, <2>b, <2>4, <2>5, <2>6, <2>7, <2>8, <2>9 DEF RunsTypeOK
<1> QED BY <1>1, InvariantHolds, PTL

LEMMA ApartIsSeparate == ASSUME NEW a, NEW b, Apart(a, b) PROVE Separate(a, b)
BY DEF Apart, Separate, States

\* Two sets of queries need only have no row in common.
LEMMA QueriesSeparate ==
    ASSUME NEW a, NEW b, a \subseteq Query, b \subseteq Query, a \cap b = {}
    PROVE  Separate(a, b)
BY DEF Separate

LEMMA UnionSeparate ==
    ASSUME NEW a, NEW b, NEW c, NEW d,
           Separate(a, c), Separate(a, d), Separate(b, c), Separate(b, d)
    PROVE  Separate(a \cup b, c \cup d)
BY DEF Separate

LEMMA SubsetsApart ==
    ASSUME NEW a, NEW b, NEW c, NEW d, Apart(c, d), a \subseteq c, b \subseteq d
    PROVE  Apart(a, b)
BY DEF Apart, States

\* Whatever was stopped, rebuilt or frozen again, no model is trained on a row that selects
\* its checkpoint or calibrates it, or on another of the same state; two copies of an
\* authored query may be on both sides, as rows of their own, and what is mixed with other
\* phone files than it was frozen beside is out of the promise.
THEOREM TrainingIsApart == RunsSpec => []TrainedApart
<1>1. ASSUME Runs, Origin PROVE TrainedApart
  <2> SUFFICES ASSUME tool \in {"general", "combined"},
                      Order(tool)[step] \notin {"inputs", "mix", "items"},
                      tool = "combined" => Protects("train") /\ Protects("calibration")
               PROVE  /\ Separate(mem.train, mem.val)
                      /\ Separate(mem.train, mem.calibration)
                      /\ Separate(mem.val, mem.calibration)
    BY DEF TrainedApart
  <2>1. step > 1
    BY <1>1, StepsAfterInputs DEF Runs, Trainers
  <2>2. MixtureRead
    BY <1>1, <2>1 DEF Origin, MemoryOrigin, TrainerOrigin
  <2>3. /\ Apart(general["train"], general["val"])
        /\ Apart(general["train"], general["calibration"])
        /\ Apart(general["val"], general["calibration"])
        /\ Apart(general["val"], general["train"])
    BY <1>1, <2>2 DEF Origin, FilesOrigin, GeneralOrigin, SplitsHeldOut, MixtureRead, Splits
  <2>4. CASE tool = "general"
    <3>1. /\ mem.train \subseteq general["train"] /\ mem.val \subseteq general["val"]
          /\ mem.calibration \subseteq general["calibration"]
      BY <1>1, <2>1, <2>4 DEF Origin, MemoryOrigin, TrainerOrigin, Splits
    <3>2. /\ Apart(mem.train, mem.val) /\ Apart(mem.train, mem.calibration)
          /\ Apart(mem.val, mem.calibration)
      BY <2>3, <3>1, SubsetsApart
    <3> QED BY <3>2, ApartIsSeparate
  <2>5. CASE tool = "combined"
    <3> DEFINE P(s) == mem[s] \cap Query
               G(s) == mem[s] \cap general[s]
    <3>1. /\ \A s \in Splits : mem[s] \subseteq Query \cup general[s]
          /\ Readable(phone["train"]) /\ Readable(phone["calibration"])
          /\ P("train") \subseteq phone["train"] /\ P("val") \subseteq phone["train"]
          /\ P("calibration") \subseteq phone["calibration"]
          /\ P("train") \cap P("val") = {}
      BY <1>1, <2>1, <2>5 DEF Origin, MemoryOrigin, TrainerOrigin
    <3>2. phone["train"] \cap phone["calibration"] = {}
      BY <1>1, <3>1, PlansDisjoint DEF Origin, FilesOrigin, PhoneOrigin
    <3>3. /\ Separate(P("train"), P("val")) /\ Separate(P("train"), P("calibration"))
          /\ Separate(P("val"), P("calibration"))
      <4>1. \A u \in Splits : P(u) \subseteq Query
        OBVIOUS
      <4>2. P("train") \cap P("calibration") = {} /\ P("val") \cap P("calibration") = {}
        BY <3>1, <3>2
      <4> HIDE DEF P
      <4> QED BY <3>1, <4>1, <4>2, QueriesSeparate DEF Splits
    <3>4. /\ Separate(G("train"), G("val")) /\ Separate(G("train"), G("calibration"))
          /\ Separate(G("val"), G("calibration"))
      <4>1. /\ Apart(G("train"), G("val")) /\ Apart(G("train"), G("calibration"))
            /\ Apart(G("val"), G("calibration"))
        BY <2>3 DEF Apart, States
      <4> HIDE DEF G
      <4> QED BY <4>1, ApartIsSeparate
    <3>5. \A f \in {"train", "calibration"}, s \in Splits : Apart(general[s], phone[f])
      BY <1>1, <2>2, <2>5 DEF Origin, FilesOrigin, GeneralOrigin, Avoids, MixtureRead, Protects
    <3>6. \A s, u \in Splits : Apart(G(s), P(u)) /\ Apart(P(u), G(s))
      <4> TAKE s \in Splits, u \in Splits
      <4>1. P(u) \subseteq phone["train"] \/ P(u) \subseteq phone["calibration"]
        BY <3>1 DEF Splits
      <4> QED BY <3>5, <4>1 DEF Apart, States
    <3>7. \A s \in Splits : mem[s] = P(s) \cup G(s)
      BY <3>1
    <3>8. /\ mem.train = P("train") \cup G("train") /\ mem.val = P("val") \cup G("val")
          /\ mem.calibration = P("calibration") \cup G("calibration")
      BY <3>7 DEF Splits
    <3> HIDE DEF P, G
    <3>9. /\ Separate(P("train"), G("val")) /\ Separate(G("train"), P("val"))
          /\ Separate(P("train"), G("calibration")) /\ Separate(G("train"), P("calibration"))
          /\ Separate(P("val"), G("calibration")) /\ Separate(G("val"), P("calibration"))
      BY <3>6, ApartIsSeparate DEF Splits
    <3> QED BY <3>3, <3>4, <3>8, <3>9, UnionSeparate
  <2> QED BY <2>4, <2>5
<1> QED BY <1>1, InvariantHolds, PTL

\* No published figure is of a case that the adapter was trained on, nor, for the rows of
\* the mixture, of one with the state of a row that it was trained on.
THEOREM TestsAreHeldOut == RunsSpec => []TestsHeldOut
<1>1. ASSUME Runs, Origin PROVE TestsHeldOut
  <2> SUFFICES ASSUME report \notin {NoFile, Torn}
               PROVE  /\ Apart(report.trained \cap GeneralRow, report.cases \cap TestRow)
                      /\ report.trained \cap report.cases = {}
                      /\ Protects("test") /\ report.cases \cap Query = phone.test =>
                            Separate(report.trained, report.cases \cap Query)
    BY DEF TestsHeldOut, Apart
  <2>1. Grounded(report.trained) /\ report.cases \subseteq plan.test \cup TestRow
    BY <1>1 DEF Origin, FilesOrigin, AdapterOrigin
  <2>2. ASSUME report.trained \cap GeneralRow # {}
        PROVE  /\ general # NoFile /\ Readable(general["train"])
               /\ report.trained \cap GeneralRow \subseteq general["train"]
               /\ Apart(general["train"], TestRow)
    BY <1>1, <2>1, <2>2 DEF Grounded, Origin, FilesOrigin, GeneralOrigin, SplitsHeldOut, Splits
  <2>3. Apart(report.trained \cap GeneralRow, report.cases \cap TestRow)
    BY <2>2 DEF Apart, States
  <2>4. /\ plan.train \subseteq Query /\ plan.test \subseteq Query
        /\ plan.train \cap plan.test = {}
    BY <1>1, PlansDisjoint DEF Origin, FilesOrigin, PhoneOrigin
  <2>5. /\ report.cases \cap Query \subseteq plan.test
        /\ report.trained \cap Query \subseteq plan.train
        /\ report.trained \subseteq Query \cup GeneralRow
    BY <2>1, DataAssumption DEF Grounded
  <2>6. report.trained \cap report.cases = {}
    BY <2>1, <2>4, <2>5, DataAssumption
  <2>7. ASSUME Protects("test"), report.cases \cap Query = phone.test
        PROVE  Separate(report.trained, report.cases \cap Query)
    <3>1. Separate(report.trained \cap Query, report.cases \cap Query)
      BY <2>6, QueriesSeparate
    <3>2. Apart(report.trained \cap GeneralRow, report.cases \cap Query)
      <4>1. CASE report.trained \cap GeneralRow = {}
        BY <4>1 DEF Apart, States
      <4>2. CASE report.trained \cap GeneralRow # {}
        <5>1. Apart(general["train"], phone["test"])
          BY <1>1, <2>2, <2>7, <4>2
             DEF Origin, FilesOrigin, GeneralOrigin, Avoids, Protects, Splits
        <5> QED BY <2>2, <2>7, <4>2, <5>1 DEF Apart, States
      <4> QED BY <4>1, <4>2
    <3> QED BY <2>5, <3>1, <3>2, ApartIsSeparate DEF Separate
  <2> QED BY <2>3, <2>6, <2>7
<1> QED BY <1>1, InvariantHolds, PTL

-----------------------------------------------------------------------------
(* The check of the split isolation.                                        *)

\* The phone trainer gets past the check only when nothing was carved, and then finds
\* no validation row; so its alarm is false and its outputs stay as they were.
PhoneStuck ==
    /\ tool = "phone" =>
          /\ step \in 1 .. 4
          /\ step = 3 => mem.train \cap mem.val = {}
          /\ step = 4 => mem.val = {}
    /\ alarm => tool = None /\ mem.train \cap mem.val = {}
    /\ \A a \in Artifacts \ {"val-manifest"} : out["phone"][a] = 0

LEMMA PhoneSteps ==
    ASSUME tool = "phone", step \in 1 .. 4
    PROVE  /\ Order(tool)[step] = "inputs" => step = 1
           /\ Order(tool)[step] = "carve" => step = 2
           /\ Order(tool)[step] = "isolation" => step = 3
           /\ Order(tool)[step] = "items" => step = 4
           /\ Order(tool)[step] \in {"inputs", "carve", "isolation", "items"}
           /\ Len(Order(tool)) > 4
<1>1. Order(tool) = PhoneOrder
  BY DEF Order
<1>2. /\ PhoneOrder[1] = "inputs" /\ PhoneOrder[2] = "carve" /\ PhoneOrder[3] = "isolation"
      /\ PhoneOrder[4] = "items" /\ Len(PhoneOrder) = 11
  BY DEF PhoneOrder
<1>3. step = 1 \/ step = 2 \/ step = 3 \/ step = 4
  OBVIOUS
<1> QED BY <1>1, <1>2, <1>3

\* A step of another program leaves the phone trainer's outputs alone.
LEMMA OthersKeepStuck ==
    ASSUME PhoneStuck, tool # None, tool # "phone", tool' \in {tool, None}, alarm' = alarm,
           \A a \in Artifacts \ {"val-manifest"} : out'["phone"][a] = out["phone"][a]
    PROVE  PhoneStuck'
BY NoneIsNoTool DEF PhoneStuck, Tools, Trainers

\* A step of the phone trainer.
LEMMA PhoneKeepsStuck ==
    ASSUME Runs, Origin, PhoneStuck, tool = "phone",
           PhoneInputs \/ PhoneCarve \/ PhoneIsolation \/ Items
    PROVE  PhoneStuck'
<1>1. tool # None /\ ~alarm /\ step \in 1 .. 4
  BY NoneIsNoTool DEF PhoneStuck, Tools, Trainers
<1>2. \A a \in Artifacts \ {"val-manifest"} : out'["phone"][a] = out["phone"][a]
  <2>1. out \in [Trainers -> [Artifacts -> (0 .. run) \cup {Torn}]]
    BY DEF Runs, Outputs
  <2>2. CASE out' = out
    BY <2>2
  <2>3. CASE out' = [out EXCEPT !["phone"]["val-manifest"] = run]
    BY <2>1, <2>3 DEF Trainers
  <2>4. PhoneCarve => out' = [out EXCEPT !["phone"]["val-manifest"] = run]
    BY DEF PhoneCarve
  <2>5. PhoneInputs \/ PhoneIsolation \/ Items => out' = out
    BY DEF PhoneInputs, PhoneIsolation, Items, files
  <2> QED BY <2>2, <2>3, <2>4, <2>5
<1>3. \A a \in Artifacts \ {"val-manifest"} : out'["phone"][a] = 0
  BY <1>2 DEF PhoneStuck
<1>4. ASSUME NEW m, Advance(m) PROVE tool' = "phone" /\ step' = step + 1 /\ mem' = m /\ alarm' = alarm
  BY <1>1, <1>4, PhoneSteps DEF Advance
<1>5. CASE PhoneInputs
  <2>1. step = 1
    BY <1>1, <1>5, PhoneSteps DEF PhoneInputs, At
  <2>2. tool' = "phone" /\ step' = 2 /\ alarm' = alarm
    BY <1>4, <1>5, <2>1 DEF PhoneInputs
  <2> QED BY <1>1, <1>3, <2>2 DEF PhoneStuck
<1>6. CASE PhoneCarve
  <2>1. step = 2
    <3>1. Order(tool)[step] = "carve"
      BY <1>6 DEF PhoneCarve, At
    <3> QED BY <1>1, <3>1, PhoneSteps
  <2>a. PICK size \in ValSizes :
             \E v \in CarvePhone(mem.train, size) : Advance([mem EXCEPT !.val = v, !.train = @ \ v])
    BY <1>6 DEF PhoneCarve
  <2>2. PICK v \in CarvePhone(mem.train, size) : Advance([mem EXCEPT !.val = v, !.train = @ \ v])
    BY <2>a
  <2>3. tool' = "phone" /\ step' = 3 /\ alarm' = alarm
        /\ mem' = [mem EXCEPT !.val = v, !.train = @ \ v]
    BY <1>4, <2>1, <2>2
  <2>4. mem = [train |-> mem.train, val |-> mem.val, calibration |-> mem.calibration,
               protected |-> mem.protected]
    BY DEF Origin, MemoryOrigin, MemoryShape
  <2>5. mem'.val = v /\ mem'.train = mem.train \ v
    BY <2>3, <2>4
  <2>6. mem'.train \cap mem'.val = {}
    BY <2>5
  <2> QED BY <1>1, <1>3, <2>3, <2>6 DEF PhoneStuck
<1>7. CASE PhoneIsolation
  <2>1. step = 3 /\ mem.train \cap mem.val = {}
    BY <1>1, <1>7, PhoneSteps DEF PhoneIsolation, At, PhoneStuck
  <2>2. CASE Overlap(mem.train \cup mem.val, mem.val)
    <3>1. tool' = None /\ mem' = mem
      BY <1>7, <2>2 DEF PhoneIsolation
    <3>2. tool' # "phone"
      BY <3>1, NoneIsNoTool DEF Tools, Trainers
    <3> QED BY <1>3, <2>1, <3>1, <3>2 DEF PhoneStuck
  <2>3. CASE ~Overlap(mem.train \cup mem.val, mem.val)
    <3>1. mem.val = {}
      BY <2>3 DEF Overlap
    <3>2. tool' = "phone" /\ step' = 4 /\ mem' = mem /\ alarm' = alarm
      BY <1>4, <1>7, <2>1, <2>3 DEF PhoneIsolation
    <3> QED BY <1>1, <1>3, <3>1, <3>2 DEF PhoneStuck
  <2> QED BY <2>2, <2>3
<1>8. CASE Items
  <2>1. step = 4
    <3>1. Order(tool)[step] = "items"
      BY <1>8 DEF Items, InTrainer
    <3> QED BY <1>1, <3>1, PhoneSteps
  <2>2. mem["val"] = {}
    BY <2>1 DEF PhoneStuck
  <2>3. \A s \in Splits : mem[s] # {}
    BY <1>8 DEF Items
  <2> QED BY <2>2, <2>3 DEF Splits
<1> QED BY <1>5, <1>6, <1>7, <1>8

LEMMA NextKeepsStuck ==
    ASSUME Runs, Origin, PhoneStuck, [RunsNext]_runVars PROVE PhoneStuck'
<1>1. out \in [Trainers -> [Artifacts -> (0 .. run) \cup {Torn}]] /\ "phone" \in Trainers
  BY DEF Runs, Outputs, Trainers
<1>2. CASE UNCHANGED runVars
  BY <1>2 DEF PhoneStuck, runVars
<1>3. CASE Start
  <2>1. step' = 1 /\ alarm' = FALSE /\ out' = out
    BY <1>3 DEF Start, files
  <2> QED BY <2>1 DEF PhoneStuck
<1>4. CASE Stop
  <2>1. tool # None /\ tool' = None /\ alarm' = alarm /\ CutOutput
    BY <1>4 DEF Stop
  <2>2. tool' # "phone" /\ ~alarm'
    BY <2>1, NoneIsNoTool DEF PhoneStuck, Tools, Trainers
  <2>3. CASE tool = "phone"
    <3>1. Order(tool)[step] # "adapter"
      BY <2>3, PhoneSteps DEF PhoneStuck
    <3>2. out' = out \/ out' = [out EXCEPT !["phone"]["val-manifest"] = Torn]
      BY <2>1, <2>3, <3>1 DEF CutOutput
    <3>3. \A a \in Artifacts \ {"val-manifest"} : out'["phone"][a] = out["phone"][a]
      BY <1>1, <3>2
    <3> QED BY <2>2, <3>3 DEF PhoneStuck
  <2>4. CASE tool # "phone"
    <3>1. out' = out \/ \E a, v : out' = [out EXCEPT ![tool][a] = v]
      BY <2>1 DEF CutOutput
    <3>2. out'["phone"] = out["phone"]
      BY <1>1, <2>4, <3>1
    <3> QED BY <2>2, <3>2 DEF PhoneStuck
  <2> QED BY <2>3, <2>4
<1>5. CASE TrainerReads \/ Others \/ TrainerCarves \/ TrainerWrites
  <2>1. CASE tool = "phone"
    <3>1. Order(tool)[step] \in {"inputs", "carve", "isolation", "items"}
      BY <2>1, PhoneSteps DEF PhoneStuck
    <3>2. PhoneInputs \/ PhoneCarve \/ PhoneIsolation \/ Items
      BY <1>5, <2>1, <3>1
         DEF TrainerReads, Others, TrainerCarves, TrainerWrites, GeneralInputs, CombinedInputs,
             Train, CombinedMix, Evaluate, Calibrate, SaveAdapter, WriteManifest, Writes,
             InTrainer, Build, Freeze, FreezeWrite, Benchmarks, Measure, Publish, At
    <3> QED BY <2>1, <3>2, PhoneKeepsStuck
  <2>2. CASE tool # "phone"
    <3>1. /\ tool \in Tools /\ \E m : Advance(m)
          /\ \/ out' = out
             \/ out' = [out EXCEPT !["combined"]["val-manifest"] = run]
             \/ \E a : out' = [out EXCEPT ![tool][a] = run]
      <4>1. CASE TrainerReads
        <5>1. ~PhoneInputs /\ ~PhoneIsolation
          BY <2>2 DEF PhoneInputs, PhoneIsolation, At
        <5>2. GeneralInputs \/ CombinedInputs => tool \in Tools /\ out' = out /\ \E m : Advance(m)
          BY DEF GeneralInputs, CombinedInputs, At, files, Tools, Trainers
        <5>3. Items \/ Train => tool \in Tools /\ out' = out /\ \E m : Advance(m)
          BY DEF Items, Train, InTrainer, files, Tools
        <5> QED BY <4>1, <5>1, <5>2, <5>3 DEF TrainerReads
      <4>2. CASE Others
        BY <4>2 DEF Others, Build, Freeze, FreezeWrite, Benchmarks, Measure, Publish, At, files, Tools
      <4>3. CASE TrainerCarves
        <5>1. CombinedMix
          BY <2>2, <4>3 DEF TrainerCarves, PhoneCarve, At
        <5> QED BY <5>1 DEF CombinedMix, At, Tools, Trainers
      <4>4. CASE TrainerWrites
        <5>1. PICK name : Writes(name)
          BY <4>4 DEF TrainerWrites, Evaluate, Calibrate, SaveAdapter, WriteManifest
        <5> QED BY <5>1 DEF Writes, InTrainer, Tools
      <4> QED BY <1>5, <4>1, <4>2, <4>3, <4>4
    <3>2. tool # None /\ tool' \in {tool, None} /\ alarm' = alarm
      BY <3>1, NoneIsNoTool DEF Advance
    <3>3. out'["phone"] = out["phone"]
      BY <1>1, <2>2, <3>1
    <3> QED BY <2>2, <3>2, <3>3, OthersKeepStuck
  <2> QED BY <2>1, <2>2
<1> QED BY <1>2, <1>3, <1>4, <1>5
        DEF RunsNext, TrainerReads, Others, TrainerCarves, TrainerWrites

\* The check of the split isolation compares the ids of the validation rows with those of
\* the rows they were carved from: in every run that it stops, no row that would have been
\* trained on has the id of a validation row.  (Two copies of an authored query have two
\* ids; the check says nothing of them, and the alarm is not about them.)
THEOREM EveryAlarmIsFalse == RunsSpec => [](alarm => ~Overlap(mem.train, mem.val))
<1>1. RunsInit => PhoneStuck
  BY NoneIsNoTool DEF RunsInit, PhoneStuck, Tools, Trainers
<1>2. Runs /\ Origin /\ PhoneStuck /\ [RunsNext]_runVars => PhoneStuck'
  BY NextKeepsStuck
<1>3. PhoneStuck => (alarm => ~Overlap(mem.train, mem.val))
  BY DEF PhoneStuck, Overlap
<1> QED BY <1>1, <1>2, <1>3, InvariantHolds, PTL DEF RunsSpec

\* Without validation rows a run ends at the items, with some it ends at the check: no run
\* of the phone trainer comes to train, whatever the sizes, and none leaves metrics, an
\* adapter or a manifest.
THEOREM PhoneTrainerNeverTrains ==
    RunsSpec => [](/\ tool = "phone" => Order(tool)[step] # "train"
                   /\ \A a \in Artifacts \ {"val-manifest"} : out["phone"][a] = 0)
<1>1. RunsInit => PhoneStuck
  BY NoneIsNoTool DEF RunsInit, PhoneStuck, Tools, Trainers
<1>2. Runs /\ Origin /\ PhoneStuck /\ [RunsNext]_runVars => PhoneStuck'
  BY NextKeepsStuck
<1>3. PhoneStuck => /\ tool = "phone" => Order(tool)[step] # "train"
                    /\ \A a \in Artifacts \ {"val-manifest"} : out["phone"][a] = 0
  BY PhoneSteps DEF PhoneStuck
<1> QED BY <1>1, <1>2, <1>3, InvariantHolds, PTL DEF RunsSpec
=============================================================================
