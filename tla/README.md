# Pocket Agents Lab, specified

TLA+ models of the parts of Pocket Agents Lab whose correctness depends on the
order of events or on arithmetic that a test would hardly reach. On the phone: the
native expert cache with its prefetch thread, the engine that swaps a decision
server and a text model through one slot of memory, and the overnight evaluation
queue with its files. On the desk: the pipeline from authored queries to an
evaluated adapter, the benchmark harnesses and their analysis, the expert-cache
simulator and the offset extraction. TLC checks each on a small instance; TLAPS
proves the safety properties for every value of the constants. Paths below are
relative to `src/`; Kotlin files without a directory are in
`app/src/main/java/com/pocketagentslab/`.

## 1. The system

An Android application runs small language models on the phone as tool-calling
agents. A *decision model* (DistilBERT or T5 in a GGUF file) is served by a child
process, `libreflex-server.so`, over HTTP on 127.0.0.1:8092; a *text model* is
loaded into the application by the JNI engine `llama.android`. The activity owns
the conversation, the confirmation of actions, a wake-word listener and the
evaluation suite. Python programs under `tools/` make the training data, train and
evaluate the decision models, and measure the phone over adb.

| Component | State | Operations | Talks to |
|---|---|---|---|
| Expert cache, `expert_cache.cpp` | fd, budget, LRU list, hash map, resident bytes, request deque, stopping, active requests, page-warm flag, counters, one thread | open, close, clear, prefetch, load, set_page_warm, stats, wait_idle | shared mutex, `request_cv`, `idle_cv`, join; called by the routing callback and by JNI |
| Expert routing and JNI facade (`llama-android/src/main/cpp/CMakeLists.txt`, `ExpertCacheRuntime.kt`) | index, last experts, enabled flag | routing callback, configure, prefetch, wait | expert cache, expert index |
| Expert index, `expert_index.cpp` | none | parse | GGUF file |
| Reflex engine, `ReflexInferenceEngine.kt` | `decisionPath`, the preference `chat_model_path`, a coroutine mutex | loadModel, chooseTextModel, prepareRouting, select, sendUserPrompt, cleanUp, close | runtime, text engine, decision client |
| Reflex runtime, `ReflexRuntime.kt` | `process`, `modelPath` | start, stop | child process, TCP port, `/health` |
| Text engine, `llama.android` | its state flow and the weights in memory | loadModel, cleanUp, sendUserPrompt | a submodule outside this repository |
| Evaluation queue, `MainActivity.kt` 600-830 and 1990-2330 | models selected, results, `isAgentTestRunning`, files on disk | start, cancel, thermal wait, run a case, write artifacts | engine, backend, files |
| Agent session, `MainActivity.kt` | busy flags, pending proposal, wake listener | prompt, confirm, cancel, listen | backend, engine, actions |
| Agent backend, `AgentBackend.kt` | none between calls | select (route, validate, repair once), complete | engine |
| Private model store, `MainActivity.kt` | a copy of each model | copyModelToPrivateStorage | files |
| GGUF reader, HTTP client, notes, files, documents, clock, intents, media, wake phrase, telemetry, grammar | none or a file | parse, match, format | - |
| Phone dataset builder, `tools/build_phone_routing_dataset.py` | four files of the phone directory | split the queries, write in place | read by freezing, trainers, evaluation |
| Mixture freezing, `tools/prepare_general_mixture.py` | four files of the general directory | protect, clean, split, sample, check, write | reads the phone directory and the sources |
| Trainers, `tools/train_{phone,general,combined}_routing.py` | the output directory of each | read, carve, mix, check, train, write seven artifacts | both data directories |
| Adapter evaluation, `tools/evaluate_phone_routing_model.py` | its report | put benchmarks together, measure, publish | phone directory, an adapter |
| Benchmark harnesses, `tools/benchmark_decision_android.py`, `eval_phone_routing.py`, `replay_agent_pilot.py` | the report in memory and `--out` | thermal gate, ask, guard, read again, save | adb, a server |
| Report analysis, `tools/analyze_comparison.py`, `analyze_thinking_comparison.py` | none | count, tabulate | reports |
| Simulator and offsets, `tools/expert_cache_simulator.py`, `gguf_expert_offsets.py` | dict, history and counters of a layer; an index | replay a trace; extract slices | trace and model files |
| Runtime packaging, `tools/prepare_reflex_android_runtime.py` | files of the application | copy checked files | - |

### What is hard in it

- **Expert cache.** `load()` evicts and reads while it holds the mutex;
  `prefetch()`, `close()` and `open()` race with the thread that loads; `close()`
  releases the mutex twice and joins in between. Correct when the list, the map
  and the byte count agree at every moment, the budget is never exceeded, no
  buffer outlives its file, no notification is lost, `wait_idle()` means what it
  says and `close()` returns.
- **Reflex engine and runtime.** Every step may fail, time out, be cancelled, or
  find that the server has crashed; `cleanUp()` and `close()` run `stop()` without
  the mutex. Correct when there are never two models in memory, no server is out
  of the engine's reach, a prompt reaches only the right server, and every call
  returns.
- **Evaluation queue.** It runs for hours, so it is killed, cancelled, and runs
  out of storage; each report is rewritten after every case. Correct when the
  files on disk agree with one another whenever it is killed, complete results are
  never lost, and the queue ends.
- **Training pipeline.** Six programs hand each other directories, started by
  hand in any order, ended by an exception or a kill at any step, some writing in
  place and some not. Correct when no model is trained on what selects, calibrates
  or tests it, and a manifest is true of the files beside it.
- **Harnesses.** A run of hours over a phone that heats up, stops answering or is
  unplugged. Correct when what it saved is true, all but the current case,
  measured on a cool phone, and when it ends.
- **Simulator and offsets.** A wrong order of hit, insertion and eviction, or a
  rounded division, gives figures that look right. Correct when the dict is the
  LRU of the reference for every trace and the slices partition their tensor.
- **Agent session and backend.** Requests start from several callbacks and are
  guarded by flags read before a suspension. Not modelled (section 7).

The hazards, each at its line, are the list `hazards` in `PROJECT.json`.

## 2. The modules

| Module | What it is |
|---|---|
| `SliceBytes` | the bytes a set of slices occupies (the cardinality of the set of those bytes), and moving an element of a sequence to the front |
| `BoundedLru` | abstract: what a bounded LRU promises |
| `ExpertCache` | the expert cache with its mutex, condition variables and thread |
| `ModelSlot` | abstract: memory holds one model; swaps pass through empty memory |
| `ReflexEngine` | the engine, the runtime, the server processes, the port, the text engine |
| `EvalQueue` | the evaluation queue, its files, Cancel, temperature and death |
| `RoutingData` | pure: the splits, the cleaning, the samples, the carves and the mixes of the training data |
| `TrainingRuns` | builder, freezing, trainers and evaluation, and the files between them |
| `BenchAnalysis` | pure: the counts of a report |
| `BenchHarness` | the three harnesses over one suite, with the phone, adb and `--out` |
| `ExpertOffsets` | pure: the slices of an expert tensor |
| `LruSimulator` | the simulator at several capacities side by side, over one trace |
| `MC...` | instances and symmetry for TLC; `MCOfflineTools` runs a harness or the simulator |
| `Counting` | lemmas: the least of naturals, the smallest of finite sets, a set counted class by class |
| `...Proofs` | theorems about `ExpertCache`, `ReflexEngine`, `EvalQueue`, `RoutingData`, `TrainingRuns`, `BenchHarness` (and `BenchAnalysis`) and `LruSimulator` |

A definition that stands directly before another of nearly the same text and is
used nowhere is a mutated form of the one after it (a dropped guard, an
off-by-one, a missing reset). `PROJECT.json` pairs each property with a mutated
form that breaks it, so no property holds merely by the shape of the model.

### ExpertCache and expert_cache.cpp

Each variable is the field of `Impl` it names. A *slice* stands for a
`(layer, projection, expert, offset, length)` key; two keys are equal exactly when
offset and length are equal too, so the branch of `load()` that drops an item
whose length differs from its key's cannot be taken and is not an action. The
value of `index[s]` is the file the buffer was read from, which is what the
properties tell buffers apart by. A method that is one critical section is one
action guarded by a free mutex. `load()` holds the mutex over a loop: `BeginLoad`
(or `WorkerLoads`) enters it, `LoadEvicts` is one turn of the eviction loop and
exactly one of `LoadRejected`, `LoadWarmsPages`, `LoadHit`, `LoadTooBig`,
`LoadFails` and `LoadKeeps` leaves it. Since no other thread can take the mutex
meanwhile, observers see the whole of `load()` at once, but invariants are checked
inside it too. `BeginClose`, `NotifyWorker`, `JoinWorker` and `Release` are the
three parts of `close()` and its notification; `open()` is the same followed by
`OpenFile` or `OpenFails`. The prefetch thread has one action per critical section
and one for the notification it sends outside the mutex. `wait_idle()` is
`wait_for` with a predicate: `BeginWait`, `WakeUp` and `TimeOut` each evaluate it.

Assumed: one controller thread calls `open()` and `close()` (`joinable()` and
`join()` are outside the mutex). A condition variable does not wake spuriously.
A worker that did would sleep again, and a client that did would do what
`TimeOut` does when it finds the cache idle, and otherwise sleep again. Arithmetic on 64-bit counters is not taken to
overflow; the range test is written in the form the code uses to avoid it.
`clear()` and `close()` drop requests without notifying `idle_cv`; a waiter then
leaves at its timeout, which the model shows and no property forbids.

### ReflexEngine and ReflexInferenceEngine.kt, ReflexRuntime.kt

`loadModel`, `prepareRouting`, `select` and `sendUserPrompt` hold `mutex`, so one
set of locals (`op`, `pc`, `phase`, `target`, `owned`) is enough. `phase` says who
called `stop()`: the call itself, `start()`, or the catch of `start()`. `cleanUp`
and `close` take no mutex and have locals of their own (`uop`, `upc`, `uowned`).
`stop()` is three steps - read `process`, clear the fields, kill what was read -
because it runs on two threads without synchronization; the unlocked one clears
the two fields in two steps. The JVM promises less than interleaving for such
unsynchronized fields; the model shows only what interleaving alone does.

The system around the code is external: a server process lives or has ended and
binds the port or finds it taken; it may end by itself at any step; the text
engine has the states the code waits for. `KillMayStall` lets a process survive
`destroyForcibly()` for the three seconds `stop()` waits. `Unlocked` lets
`cleanUp` and `close` run beside a locked call. `StrangerMoves` lets
another application take or leave the port at any step. The code binds the port to
see that it is free and closes the socket before it spawns the server, so a stranger
may take it in between: the server then exits when it finds the port taken, but
`healthy()` may have had the stranger's answer before. `AttachesToItsOwn` states
that this does not happen, and `ReflexStranger` shows that it does (finding 6). What
the code does ensure is `OwnServerAsked`: none of the application's own servers, left
over from whatever call, answers in place of the right one.

`currentState`, which mirrors the states for the UI, `setSystemPrompt`, and
`destroy` are left out: no other state depends on them.

### EvalQueue and MainActivity.kt

The queue is one coroutine on the main thread, so Cancel can be pressed only
where it is suspended, and cancels what it waits for. `details` is how the cases
of the current model ended, `outcomes` what became of the models before it.
Writing a file is two steps, truncate and fill (`openFileOutput` and `write`), and
`pending` is the writes a step still has to do; no other step of the queue happens
until they are done. `Killed` is a native crash or the system killing the
application at any step. `WriteFails` is full storage. Loading a model and routing
a prompt are outcomes here: `ReflexEngine` says how they come about.

### RoutingData, TrainingRuns and the training tools

A file is the set of its rows; a row has a source, a label, a state (without case
and punctuation) and a text (without case), since the tools compare rows by all
four. What a seeded shuffle decides is any choice: `PhoneSplits`, `CleanPool`,
`StratifiedSplits`, `TypedSplits`, `WeightedSamples`, `CarvePhone`, `CarveEvenly`
and `WeightedMix` are the sets of the results that the code may produce, sizes and
roundings included (`RoundDiv` is Python's `round`, a half to the even neighbour).

`TrainingRuns` runs one program at a time: `Start` chooses it, `Order` lists its
steps, each step is one action from its reads and checks to its writes, and `Stop`
ends the program at any step, by an exception or a kill. What a stop leaves of a
file depends on how the tool writes it: in place (`Cut`: any part of the lines, or
a line that does not parse), beside and renamed (nothing changes), or, for the
adapter's several files, a mixture of old and new. `plan` is what the builder's
seed makes of the queries: a second build gives the same files. Whether the
development cases are excluded from them depends on an import that may fail; it
fails in every build of a checkout or in none, so `plan` is one of `BuilderPlans`,
with the cases excluded or with all queries. A query that is authored twice ("What
is a haiku?") is two rows of one state, which no tool removes, so the properties
claim disjoint states only where the code makes them so (`Separate`). `mem` is the rows
a program holds, `out` the run that wrote each artifact, `trained` the rows behind
each adapter, and `report` what the evaluation has published. An exception of a
check is `Stop`: the step it guards cannot be taken, and the program ends.

The model, its optimizer, the metrics and the choice of the best checkpoint are
one step without data; that calibration can be impossible or fail without ending
the run is kept.

### BenchHarness, BenchAnalysis and the measuring tools

The three harnesses share a process over the cases; `harness` says which one runs.
`Gate` is one poll of the phone with any reading it may give: in order, hot, or
not to be parsed. `Ask` has every outcome of a request, a failed one included,
`Guarded` is the relevance guard, `After` the reading after the case and `Record`
the row, the save and the next case. An exception inside the `try` block is a
failed case; outside of it, it ends the run (`GateFails`, `AfterFails`,
`ReplayFails`). `--limit 0` goes straight to the end, where the mean over no cases
raises. `Report` is what `--out` holds; the count is written with `complete` only.
Rows of the evaluation and of the replay have no route of the model alone, and
those of the evaluation name no category.
`Analyze`, `CasesStats` and `PerCategory` count as the two analysis tools do, where
they get through a report at all (`Analyzed`): without cases one misses its figures
and the other divides by zero, and a thermal status of null is compared with a
number. `Entry`
is what one pass over all rows makes of a category, `PerCategory` what the other
tool finds among the rows it has collected for one, and `TableLine` gives a
category without cases a line of zeros.

### LruSimulator, ExpertOffsets and their tools

The tool replays a trace once per capacity; the model replays it once for all of
them, which is how properties compare capacities. An `OrderedDict` is the set of
its keys and the place of each; `MoveToEnd`, insertion and eviction of the first
are in the order of the code, insertion before eviction. `Score` counts the three
predictors, with ties in `most_common` resolved either way; `RecallBounded` relates
their recall to the hits of a cache. `Extract` is the
table of slices of the offset tool, which refuses a file with a tensor that does
not divide.

## 3. The abstract specifications

`BoundedLru` has a byte bound, a sequence and the slice that is wanted. A slice
becomes wanted; if it is in the sequence it moves to the front, otherwise it is
added at the front once it fits, the last element is dropped while it does not,
or it is given up. Nothing is flushed and no bound changes while a slice is
wanted. `ExpertCache` implements it with `cached <- lru` and `wanted <- loading`
(`LruSpec`): no thread, failed read, mode switch or reopening makes the cache
evict from anywhere but the cold end, evict without need, or keep more than fits.

`ModelSlot` says in two actions what the comment of the engine promises: load into
empty memory, or unload everything. `ReflexEngine` implements it with `loaded` as
the set of living servers and the text weights (`SwapsThroughEmpty`), as long as
processes die when they are killed and `cleanUp` does not run beside other calls.

## 4. The runs

| Run | Instance | Shows |
|---|---|---|
| `ExpertCache` | 2 clients, a controller, the thread; 3 slices of 1, 2, 3 bytes; 2 files; budgets 2 and 3; deque of 2; 5 calls | types, `IndexMatchesLru`, `ResidentAccounting`, `WithinBudget`, `CachedFromOpenFile`, `ClosedHoldsNothing`, `ActiveMatchesWorker`, `TelemetryCoherent`, `DrainedMeansIdle`, that it implements `BoundedLru`, `QueueDrains` (no notification is lost) and `CloseReturns` (the join never waits for a sleeper) |
| `ReflexEngine` | 2 decision and 2 text models, 3 servers; `KillMayStall` and `Unlocked` false | `NeverTwoLoadedModels`, `NoOrphanServer`, `OwnServerAsked`, and that it implements `ModelSlot` |
| `ReflexBesideUi` | 2 decision models, 1 text model, 2 servers; both switches true | `RuntimeCacheFresh` survives the unsynchronized `stop()`; `CallsReturn` |
| `ReflexStall` | `KillMayStall` | `NeverTwoLoadedModels` fails (finding 1) |
| `ReflexOverlap` | `Unlocked` | `NoOrphanServer` fails (finding 2) |
| `ReflexStranger` | both switches false | `AttachesToItsOwn` fails (finding 6) |
| `EvalQueue` | 3 models, the third with the file stem of the first, 2 cases each | `ManifestHonest`, `TableFollowsReport`, `EndedManifestIsFinal`, `OnlyNamesakesOverwrite`, `CancelEndsQueue`, `CoolQueueEnds` |
| `EvalTimeout` | 2 models, 1 case | `OnlyUserCancels` fails (finding 3) |
| `EvalCancel` | 1 model, 2 cases | `NoMisleadingReport` fails (finding 4) |
| `TrainingRuns` | 5 queries of 2 routes, 11 general and 3 test rows; 3 programs, each stopped anywhere | `TrainedApart`, `TestsHeldOut`, `ManifestLast` |
| `TrainingIsolation` | the same, with carves of 2 and 3 | `IsolationAlarmIsTrue` fails (finding 5) |
| `OfflineTools` | a harness over 3 cases, 2 runs with one `--out`; or the simulator with 4 experts, capacities 0 to 3, 3 tokens, 2 files | `ReportHonest`, `LosesOneCase`, `MeasuredCool`, `AnalysisAgrees`, `RunEnds`; `MostRecentHeld`, `LargerHoldsSmaller`, `RecallBounded`, `SlicesTile` |

### Bounds

- `MaxCalls` (5) bounds the calls of clients and controller; the thread's steps
  are not counted. Five calls are open, three loads or prefetches that fill a
  budget and force an eviction, and a second open, a close or a wait that races
  with them. `QueueLimit` is 64 in the code; 2 is
  enough for a full deque and a refused request. Slices of 1, 2 and 3 bytes under
  budgets of 2 and 3 give a slice that is too big, one that evicts one item, one
  that evicts two, and a pair that fits exactly. The second file is too short for
  two of the slices. The theorems need none of these bounds.
- Two decision models tell a reused server from a restarted one. Three servers
  are needed by a step that must not reuse an identifier a `stop()` still holds.
  The number of calls is not bounded.
- Three models and two cases have a first, a middle and a last of each: a report is
  rewritten, the last case is followed by the completion, a model follows one that
  failed. The third model has the file stem of the first and writes over its
  files; the second has files of its own.
- `MaxRuns` 3 of `TrainingRuns` is a build, a freeze and a training; a freeze, a
  training and an evaluation over the files that come with the repository; or a
  training cut off and started again in the same directory. The rows are chosen
  for the collisions the checks are for: three queries that are written alike, a
  development case among the queries, a route with a single query, a typed row with
  the state of a query, another with the state of a clinc test row, a banking row
  with the state of a typed row and two of one state. `SmokeItems` 4 lets a smoke run
  keep every row of this instance.
- `MaxWait` 2 stands for the polls of 1800 seconds; 38 and 39 degrees and
  statuses 1 and 2 lie on either side of the two limits, so a phone can be within
  either limit alone. The cases are one the guard turns from right to wrong, one
  without a tool, and one where it stops the right tool and lets a wrong one
  through; a fourth category has no case. Three tokens of two experts fill and overflow each
  capacity; 0 is the capacity at which an insertion is evicted at once.

### Fairness

- `ExpertCache`: weak fairness on leaving `load()`, on the thread, on `close()`
  and `open()`, and on the timeout of each wait. Nobody is forced to call. A
  `std::mutex` promises no fairness, but the calls are finitely many and the
  thread takes the mutex finitely often for each, so weak fairness is enough.
- `ReflexEngine`: a call that has begun goes on. Every wait in the code has a
  timeout or can be cancelled; only the native load and generation have neither,
  and are assumed to return. No server, process or text engine need do anything.
- `EvalQueue`: the coroutine goes on. The phone may be hot for ever; then only
  Cancel ends the queue, and `CoolQueueEnds` is about a phone that cools down.
- `BenchHarness`: the run goes on. Each call to adb or the server has a timeout,
  and the clock of the cooldown ends the polling; the phone need never cool down.

### Deadlock

Checked where the system never stops (`ReflexEngine` and its variants). Off for
`ExpertCache` (the callers may stop calling; that nobody waits for ever is
`QueueDrains` and `CloseReturns`), `EvalQueue` (the queue ends), and the offline
tools (programs end, and the number of starts is bounded).

## 5. Findings

1. **A server that dies late is forgotten** (`ReflexRuntime.kt:69`). `stop()`
   clears `process` before it waits for it, and throws when it has not died in
   time. The next load starts a second model beside it, against "Never two loaded
   models." (`ReflexInferenceEngine.kt:22`).
2. **`cleanUp()` beside `start()` loses the new server**
   (`ReflexInferenceEngine.kt:150`). A `stop()` that read `process` as null before
   the spawn clears it afterwards; the server runs on and nothing refers to it.
3. **A timeout cancels the queue** (`MainActivity.kt:769`).
   `TimeoutCancellationException` is a `CancellationException`, so a slow start of
   one model's server ends the queue although the document says it "continues even
   if an individual model is unsupported or fails".
4. **Cancel in the last case leaves a complete report** (`MainActivity.kt:2090`).
   The interrupted case is recorded as failed and the report is written with
   `complete = true`.
5. **The isolation check stops isolated runs** (`tools/train_phone_routing.py:385`).
   It compares the validation rows with the train split as it was read, from which
   they were carved, not with what is left of it. Every run of the phone trainer
   with validation rows ends there; one without is refused at its items. Proved for
   all data and sizes: no alarm of the check is true (`EveryAlarmIsFalse`), and the
   phone trainer never trains (`PhoneTrainerNeverTrains`). The check compares ids, which
   every row has; of two copies of a query it says nothing.
6. **A stranger on the port is attached to** (`ReflexRuntime.kt:30`). The probe
   socket is closed before the server is spawned, and the answer of any listener to
   `/health` is taken for the server's (line 43), against "Never attaches to an
   unrelated server" (line 15) and "Refuse to attach to a server owned by another
   app or shell session" (line 29).

How far findings 3 and 4 reach is proved too. Timeouts are the only cause of the
first: where none strikes before Cancel is pressed, a queue that ends as cancelled
was cancelled (`OnlyTimeoutsCancel`). The last case is the only gap of the second:
where Cancel is not pressed in the last case of a model, no report is complete with
an interrupted case (`OnlyTheLastCaseMisleads`). Nor does the gap spread: an
interrupted case is the last of its report, no later model has a report
(`InterruptionsAreLast`), and the manifest never lists its model as completed
(`ManifestsAreHonest`).

Smaller things seen while modelling, which no run is about:

- `repairAttempted` is set only when `select()` returns (`MainActivity.kt:2077`),
  so a retry that was rejected is not counted as the
  attempt that `docs/tool-agent-evaluation.md:93` describes.
- The screen says that any action that changes or opens another app is shown for
  confirmation first (`MainActivity.kt:909`); a request that came by voice searches
  Spotify or YouTube, and sends media commands, without one (lines 529, 1454).
- `weighted_mix` (`tools/train_combined_routing.py:105`) never samples, although its
  docstring says "the smaller is sampled to match the desired ratio" (line 111):
  `MixKeepsOrDrops` proves that it keeps a source whole or, where the weight leaves
  it less than a row, drops it, so that weights do not change the ratio.
- `carve_validation` of the combined trainer drops the remainder that the phone
  trainer distributes, though its docstring says "same logic" (line 89).
  `CarvesExactly` and `CarvesEvenly` say what either carves of any rows.
- The phone trainer says of an uncalibrated checkpoint "Do not open the sealed
  test" (lines 489, 507, 577); the evaluation measures any adapter that loads,
  one of a smoke run included.
- Where the import of the development cases fails, the builder warns and excludes
  none (`tools/build_phone_routing_dataset.py:841`), and still writes
  `"dev_cases_excluded": True` into its manifest (line 900). With the queries of this
  checkout none of them is a development case, so the files are the same.
- Two models of a queue whose sanitized, truncated names are the same overwrite each
  other's reports (`MainActivity.kt:2304`), although
  `docs/tool-agent-evaluation.md:34` says that a sanitized model name prevents it;
  `OnlyNamesakesOverwrite` says that nothing else does.
- "What is a haiku?" is authored twice (lines 177 and 189 of the builder) and not
  deduplicated: its copies may fall on two sides of a split, though the committed
  files hold at most one.
- A freeze that is cut off leaves a directory that is refused ever after; a run
  into a used output directory leaves the earlier manifest beside newer
  artifacts, until it is through.
- The evaluation takes the newest revision of two sources unless told otherwise;
  the mixture pins all three.
- Both analysis tools raise on a report without cases, which is what a benchmark
  saves first (`analyze_comparison.py:136`, `analyze_thinking_comparison.py:99`), and
  `analyze_comparison.py:86` on a thermal status that could not be parsed;
  `AnalysisAgrees` names these and says that nothing else stops them at a complete
  report. `--limit 0` of the benchmark raises at the mean;
  `eval_phone_routing.py` has no thermal gate.

## 6. What is proved

Each theorem holds for every value of the constants that satisfies the named
assumptions. Every safety property that a passing run checks is the conclusion of
one. The other theorems are about pure operators, for every input, or say how far a
finding reaches.

| Module | Theorem | States |
|---|---|---|
| `ExpertCacheProofs` | `TypeCorrect` | `[]TypeOK` |
| | `CacheConsistent` | the list and the map name the same items, each once |
| | `KeptFromOpenFile` | every buffer is of the open file |
| | `ClosedIsEmpty` | a closed cache has no thread and no items |
| | `AccountingExact`, `CacheBounded` | the byte count is exact, and within the budget |
| | `ActiveCorrect` | `active_requests` is 1 exactly while a request is in hand |
| | `TelemetryCorrect` | the counters account for every item and every byte |
| | `DrainedCorrect` | `wait_idle()` returns true only when nothing is left |
| | `ImplementsLru` | the cache implements `BoundedLru` |
| `ReflexEngineProofs` | `EngineTypes`, `RuntimeCacheIsFresh` | types, and what a recorded path says, with both switches in any position |
| | `OneLoadedModel`, `NoServerIsLost`, `RightServerIsAsked` | the three invariants, of a calm system with a stranger on the port at any step |
| | `EngineIsASlot` | a calm system implements `ModelSlot` |
| `EvalQueueProofs` | `QueueTypes`, `ManifestsAreHonest`, `TablesFollow` | the files agree wherever a death or a full storage cuts the writes |
| | `EndedIsFinal` | what is over is not written again |
| | `CompleteStays` | what is complete is written again by a later namesake only, for any stems |
| | `InterruptionsAreLast` | an interrupted case ends its report and the results |
| | `OnlyTimeoutsCancel`, `OnlyTheLastCaseMisleads` | `OnlyUserCancels` without early timeouts, `NoMisleadingReport` without a Cancel in a last case |
| `RoutingDataProofs` | `SplitsKeepLabels`, `SamplesKeepLabels` | the stratified splits partition the rows; no split or sample loses a label |
| | `SharesAreExact` | the scarcest source is used whole and every share is exact to half a row |
| | `MixturesTeachWhatTheyTest`, `MixturesInProportion` | of a whole mixture: its labels and its proportions |
| | `RoutesFillSplits` | the sizes of the phone splits of each route |
| | `CarvesExactly`, `CarvesEvenly`, `MixKeepsOrDrops` | what the trainers carve and mix |
| `TrainingRunsProofs` | `TypesHold` | kinds of files, and no query in two phone files |
| | `TrainingIsApart`, `TestsAreHeldOut` | no row that trains selects, calibrates or tests, nor any of its state but a copy of the same query |
| | `ManifestIsLast` | a manifest names the run of all files beside it, or a later run was started |
| | `EveryAlarmIsFalse`, `PhoneTrainerNeverTrains` | finding 5, for all data and sizes |
| `BenchHarnessProofs` | `ReportIsHonest`, `OneCaseIsLost`, `CasesStartCool` | what `--out` holds, wherever a run ends |
| | `RowsAnalyze`, `AnalysesAgree` | the figures of any rows the tools get through, and so of every such report, agree with each other; what else stops the tools |
| `LruSimulatorProofs` | `SimulatorTypes`, `HeldAreMostRecent`, `LargerIsNoWorse` | the dict is the LRU stack of its capacity |
| | `RecallIsBounded` | the recall of each predictor, and of the previous token against the hits |
| | `SlicesDoTile` | the slices partition each tensor |

### Assumptions

On constants, named where they are declared: natural sizes and bounds, sentinel
values that are not members of the sets they extend (`NoneIsNoTool`,
`MarkersAreNoReports`, `MarkersAreNoArtifacts`, `ModelAssumption`), a queue whose
models have stems (`StemAssumption`), finite data (`DataAssumption`). TLC evaluates
all of them. Some theorems have hypotheses that are more than that, and state them:

- `StemsDiffer`, of `EvalQueueProofs`: two models of the queue have different
  stems. The code does not ensure it. `CompleteStays`, which is about stems that
  collide, does not assume it.
- `Calm`, of `ReflexEngineProofs`: killed processes die, and `cleanUp` and `close`
  do not run beside other calls. Both halves are needed by each of the three
  invariants: with `KillMayStall` alone, and with `Unlocked` alone, TLC finds each
  of them violated (`ReflexStall` and `ReflexOverlap` are two of these six).
- `[][TimesOut => cancelled]_vars` of `OnlyTimeoutsCancel` and `CancelsEarlier` of
  `OnlyTheLastCaseMisleads` exclude a step that findings 3 and 4 show to be harmful,
  and no other.
- The theorems about carves and proportions ask for what the code needs to be able
  to give it: routes with enough rows, sources that are not empty.

`TrainedApart` of the combined trainer, and what `TestsHeldOut` says of states shared
by general rows and phone cases, are conditional in themselves: the mixture must
have protected the phone files it is used with. No trainer compares them. That no
phone case is itself a training row holds without the condition. Both properties
except two copies of one query, which are two rows to every tool.

### The inductive invariants

None of the properties is inductive alone.

- `ExpertCache`: `Base /\ CacheInv`. That the buffers are of the open file needs
  to know that `close()` has emptied the cache by the time a file is opened; that
  needs the thread to be gone by then, and that `load()` is entered only by a
  thread that is not. That `resident_bytes` is exact needs the list and the map to
  agree (each item is subtracted once); that the budget holds when `open()`
  changes it needs the cache to be empty then. The lemmas about `SliceBytes` state
  what adding to and removing from a set does to its bytes.
- `ReflexEngine`: `Control` ties each step to the calls that reach it and the kind
  of model they are for; `Recorded` says that no path is recorded between the
  clearing and the answer. Beside `TypeOK` they carry what is unconditional. For
  a calm system, `CalmInv` adds `Reached` (a living server is the runtime's, or
  the one a `stop()` has read and not yet killed), `Emptied` (memory is empty where a
  call is about to fill it) and `Listening` (a server of the application that has the
  port is alive, and the process that is asked serves the target). The refinement sorts the steps by what they do to memory
  (`MemorySteps`), then maps each kind to a step of the slot or a stutter.
- `EvalQueue`: `QueueInv` follows a write through its two steps: what is pending
  (`Writing`), what is on disk once nothing is (`Settled`), what is not yet
  written (`Untouched`) and what no later step changes (`Done`, `Tables`,
  `OnManifest`). `Cut` follows an interrupted case: it is the last of its report,
  Cancel was pressed, and from then on the queue only ends; `DoneWhole` says
  that no completed model has one. `Blamed` and `Spared` do the same for the two
  conditional theorems.
- `TrainingRuns`: `Runs` places the running program in its order and relates the
  run numbers of the artifacts to it; `Origin` says where every row in memory, in a
  file, in an adapter and in a report came from. A file that was cut off is a
  subset of what was being written, which every disjointness survives.
  `MixturesHeldOut` states what the checks of a freeze promise. `PhoneStuck` is
  where the phone trainer may be: what it carved is disjoint from what is left, and
  past the check there is nothing carved.
- `BenchHarness`: `BenchInv` relates the case a run is at, the rows in memory and
  the report on disk, and carries the reading of a case from the gate to its row.
- `LruSimulator`: `CacheInv` says that the places are those of the last uses, that
  a member is more recent than any other used expert, and that the dict is full or
  holds all that was used. What is evicted is the first of its members
  (`UsedFirst`), which `LeastNatural` provides. For the recall, `RecentInv` says that the
  experts of the previous token and those already asked for are the ones used last, so
  that one of them which is asked for again has at most the others above it.

### Counting

What a rounded share, a split or a table adds up to is an induction over data, and
the induction theorems of the library cannot be instantiated here. `Counting` argues
from the smallest counterexample instead: `SmallestSet` is taken from the library's
theorem that the strict subset order of finite sets is well founded, and
`LeastNatural` from it. `OnePlaceMore` adds one member to a set whose members are
counted class by class (rows by label, cases by category). `PlacesAreMembers` follows:
a set has as many members as its classes have places, on which `AnalysisAgrees`
rests. `ClassesOfOneSize` and `ClassesOfSizeAtMost` are its forms for the carves.

### Only model-checked

Liveness (`QueueDrains`, `CloseReturns`, `CallsReturn`, `CancelEndsQueue`,
`CoolQueueEnds`, `RunEnds`), which rests on fairness; and that each finding's
property is violated, for which a proof has no use. Every invariant and action
property of a passing run is proved.

## 7. What is not modelled

- `AgentBackend.kt` (route, validate, one retry) and the agent session in
  `MainActivity.kt` (busy flags, proposals, the wake listener): the queue sees an
  outcome of them. Their hazards are listed without a property.
- The private model store: the temporary file and the length check that accepts a
  copy. Listed as a hazard.
- The routing callback, the grammar and the conversation reset are fragments that
  `llama-android/src/main/cpp/CMakeLists.txt` inserts into the sources of a
  submodule outside the repository. The hazards of their globals are listed.
- The GGUF parsers, the HTTP client, text matching, document retrieval and the
  clock parser are sequential functions of their input. What another component
  sees of them is an outcome there.
- Intents, media control and telemetry are calls into Android and keep no state.
- The text engine is external: its states are modelled from how they are used.
- Training itself, metrics and probabilities; the latency, memory and temperature
  statistics of the reports; the wording of queries and reports. The queries of
  `phone_routing_extra_queries.py` are the constant `Query`.
- `prepare_reflex_android_runtime.py` copies checked files into the application;
  killed in between, it leaves files of two versions, which its next run repairs.

## 8. Plan

*Done*: `ExpertCache` over `BoundedLru`; `ReflexEngine` over `ModelSlot`;
`EvalQueue`; `RoutingData` and `TrainingRuns`; `BenchAnalysis` and `BenchHarness`;
`ExpertOffsets` and `LruSimulator`; a module of theorems for each state machine and
for `RoutingData`.

What a continuation would take up, in this order:

1. `AgentBackend`: select and complete over an abstract generator: at most one
   retry, no action that was not validated.
2. `AgentSession`: busy flags, proposals, confirmations, the wake listener and the
   requests that start beside them; at most one request in flight, a confirmation
   acts on the proposal that was shown.
3. `ModelStore`: the private copy of a model and a crash between its steps.
4. `ExpertRouting`: the callback's globals, composed with `ExpertCache`.
5. The index arithmetic of `expert_index.cpp`, against a reference over bounded
   headers.
