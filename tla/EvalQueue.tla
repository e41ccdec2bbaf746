------------------------------ MODULE EvalQueue ------------------------------
(***************************************************************************)
(* The overnight evaluation queue of MainActivity.kt: "Run Agent Test"     *)
(* runs every case on every selected model and keeps a manifest of the     *)
(* queue and a JSON report and a CSV table per model on disk.              *)
(*                                                                         *)
(* The queue is one coroutine of the main thread.  Cancel is pressed on    *)
(* the same thread, so it falls only where the coroutine is suspended, and *)
(* cancels what it is waiting for.  A file is written by truncating it and *)
(* then filling it; the application may be killed at any moment, between   *)
(* those two as well.                                                      *)
(*                                                                         *)
(* A definition that stands directly before another and is used nowhere is *)
(* a mutated form of it, which the properties must tell from the original. *)
(***************************************************************************)
EXTENDS Naturals, Sequences, SequencesExt

CONSTANTS
    Queue,      \* the selected models, in order
    Stem,       \* Stem[m]: what safeFileStem makes of the name m
    NCases,     \* the number of cases in the suite
    Absent,     \* no file
    Torn        \* a file that was truncated and not filled

ASSUME QueueAssumption == Queue # <<>> /\ NCases \in Nat \ {0}

Named == {Queue[i] : i \in 1 .. Len(Queue)}
Stems == {Stem[m] : m \in Named}

ASSUME StemAssumption == Queue \in Seq(DOMAIN Stem)

\* How a case ended: an answer was accepted, the first or the one retry's; none was,
\* the generation failed or took longer than 600 seconds; or Cancel ended it.
Results == {"accepted", "failed", "interrupted"}

VARIABLES
    pc,
    current,    \* the index in Queue of the model under test
    outcomes,   \* what became of the models before it
    details,    \* how the cases of the current model ended
    pending,    \* the file writes under way
    disk,       \* the contents of each file
    cancelled,  \* has Cancel been pressed?
    hot         \* is the phone too hot to start?

vars == <<pc, current, outcomes, details, pending, disk, cancelled, hot>>

Manifest == <<"manifest">>
JsonOfFirst(m) == <<"json", Stem[Queue[1]]>>
Json(m) == <<"json", Stem[m]>>
Csv(m) == <<"csv", Stem[m]>>
Files == {Manifest} \cup ({"json", "csv"} \X Stems)

Init ==
    /\ pc = "idle" /\ current = 1 /\ outcomes = <<>> /\ details = <<>>
    /\ pending = <<>>
    /\ disk = [f \in Files |-> Absent]
    /\ cancelled = FALSE
    /\ hot \in BOOLEAN

Model == Queue[current]
Tried == current > Len(Queue)
Ended == pc \in {"ended", "killed"}

-----------------------------------------------------------------------------
(* Files.                                                                   *)

Write(f, c) == [file |-> f, content |-> c]

QueueManifest(state, os) == <<Write(Manifest, [state |-> state, outcomes |-> os])>>

CsvFirst(m, d, complete) ==
    << Write(Csv(m), d),
       Write(Json(m), [complete |-> complete, details |-> d]) >>
Artifacts(m, d, complete) ==
    << Write(Json(m), [complete |-> complete, details |-> d]),
       Write(Csv(m), d) >>

Quiet == pending = <<>>

\* openFileOutput() truncates the file...
FileOpens ==
    /\ ~Quiet /\ disk[pending[1].file] # Torn
    /\ disk' = [disk EXCEPT ![pending[1].file] = Torn]
    /\ UNCHANGED <<pc, current, outcomes, details, pending, cancelled, hot>>

\* ...and write() fills it.
FileFills ==
    /\ ~Quiet /\ disk[pending[1].file] = Torn
    /\ disk' = [disk EXCEPT ![pending[1].file] = pending[1].content]
    /\ pending' = Tail(pending)
    /\ UNCHANGED <<pc, current, outcomes, details, cancelled, hot>>

-----------------------------------------------------------------------------
(* The queue.                                                               *)

\* isAgentTestRunning becomes true and the manifest is written.
Start ==
    /\ pc = "idle"
    /\ pc' = "cool"
    /\ pending' = QueueManifest("running", <<>>)
    /\ UNCHANGED <<current, outcomes, details, disk, cancelled, hot>>

\* The current model is done with, one way or the other.
ModelEnds(status) ==
    /\ outcomes' = Append(outcomes, [model |-> Model, status |-> status])
    /\ pending' = QueueManifest("running", outcomes')
    /\ current' = current + 1 /\ details' = <<>>
    /\ pc' = "cool"
    /\ UNCHANGED <<disk, cancelled, hot>>

QueueStopsOnDiskOnly ==
    /\ pending' = QueueManifest("cancelled", outcomes)
    /\ pc' = "cool"
    /\ UNCHANGED <<current, outcomes, details, disk, cancelled, hot>>
\* A CancellationException ends the queue, whatever raised it.
QueueStops ==
    /\ pending' = QueueManifest("cancelled", outcomes)
    /\ pc' = "end"
    /\ UNCHANGED <<current, outcomes, details, disk, cancelled, hot>>

\* A step that a pressed Cancel does not let happen.
Goes(step) ==
    /\ Quiet /\ ~cancelled
    /\ pc' = step
    /\ UNCHANGED <<current, outcomes, disk, cancelled, hot>>

\* awaitThermalCooldown(), before each model and before each case.
CoolsOnceMore ==
    /\ ~hot
    /\ \/ pc = "cool" /\ ~Tried /\ Goes("load") /\ UNCHANGED <<details, pending>>
       \/ pc = "case" /\ Len(details) <= NCases /\ Goes("fresh")
             /\ UNCHANGED <<details, pending>>
Cools ==
    /\ ~hot
    /\ \/ pc = "cool" /\ ~Tried /\ Goes("load") /\ UNCHANGED <<details, pending>>
       \/ pc = "case" /\ Len(details) < NCases /\ Goes("fresh")
             /\ UNCHANGED <<details, pending>>

\* The model is copied and loaded.  If that did not heat the phone too much the
\* suite begins with empty artifacts.
Loads ==
    /\ pc = "load" /\ ~hot
    /\ Goes("case")
    /\ details' = <<>>
    /\ pending' = Artifacts(Model, <<>>, FALSE)

\* prepareFreshAgent(), before a case.
Freshens ==
    /\ pc = "fresh"
    /\ Goes("select")
    /\ UNCHANGED <<details, pending>>

\* backend.select() under withTimeout: what it throws is recorded as a failed
\* case, and so is the CancellationException of a pressed Cancel.
Selects ==
    /\ Quiet /\ pc = "select"
    /\ \E r \in Results :
          /\ r = "interrupted" => cancelled
          /\ details' = Append(details, r)
    /\ pending' = Artifacts(Model, details', FALSE)
    /\ pc' = "case"
    /\ UNCHANGED <<current, outcomes, disk, cancelled, hot>>

\* The suite is through: nothing is awaited between the last case and this.
Completes ==
    /\ Quiet /\ pc = "case" /\ Len(details) = NCases
    /\ pending' = Artifacts(Model, details, TRUE)
    /\ pc' = "finish"
    /\ UNCHANGED <<current, outcomes, details, disk, cancelled, hot>>

\* prepareFreshAgent(), after the last case.
ModelCompletes ==
    /\ Quiet /\ pc = "finish" /\ ~cancelled
    /\ ModelEnds("completed")

\* Copying, loading, the temperature check or prepareFreshAgent() throws.
ModelFailsSilently ==
    /\ Quiet /\ pc \in {"load", "fresh", "finish"}
    /\ ModelEnds("completed")
ModelRetried ==
    /\ Quiet /\ pc \in {"load", "fresh", "finish"}
    /\ pc' = "cool"
    /\ UNCHANGED <<current, outcomes, details, pending, disk, cancelled, hot>>
ModelFails ==
    /\ Quiet /\ pc \in {"load", "fresh", "finish"}
    /\ ModelEnds("failed")

\* withTimeout() expires in loading a decision model or preparing its server.
TimesOut ==
    /\ Quiet /\ pc \in {"load", "fresh", "finish"}
    /\ QueueStops

AwaitingCool ==
    \/ pc = "cool" /\ ~Tried
    \/ pc = "case" /\ Len(details) < NCases

\* What is awaited is cancelled; a hot phone is asked about every 30 seconds.
CancelTakesHoldWhenCool ==
    /\ Quiet /\ cancelled
    /\ pc \in {"load", "fresh", "finish"} \/ (AwaitingCool /\ ~hot)
    /\ QueueStops
CancelTakesHold ==
    /\ Quiet /\ cancelled
    /\ pc \in {"load", "fresh", "finish"} \/ AwaitingCool
    /\ QueueStops

QueueCompletes ==
    /\ Quiet /\ pc = "cool" /\ Tried
    /\ pending' = QueueManifest("completed", outcomes)
    /\ pc' = "end"
    /\ UNCHANGED <<current, outcomes, details, disk, cancelled, hot>>

\* The finally block: isAgentTestRunning becomes false.
Ends ==
    /\ Quiet /\ pc = "end"
    /\ pc' = "ended"
    /\ UNCHANGED <<current, outcomes, details, pending, disk, cancelled, hot>>

\* A write that fails (storage is full) leaves the file truncated.  It fails the
\* model when it is one of its artifacts; nothing catches it when it is the
\* manifest, and the application dies.
WriteFails ==
    /\ ~Quiet /\ disk[pending[1].file] = Torn
    /\ IF pending[1].file = Manifest
       THEN /\ pc' = "killed" /\ pending' = <<>>
            /\ UNCHANGED <<current, outcomes, details, disk, cancelled, hot>>
       ELSE ModelEnds("failed")

-----------------------------------------------------------------------------
(* The user, the phone and the operating system.                            *)

Cancel ==
    /\ Quiet /\ ~cancelled
    /\ pc \in {"load", "fresh", "select", "finish"} \/ AwaitingCool
    /\ cancelled' = TRUE
    /\ UNCHANGED <<pc, current, outcomes, details, pending, disk, hot>>

TemperatureChanges ==
    /\ ~Ended
    /\ hot' = ~hot
    /\ UNCHANGED <<pc, current, outcomes, details, pending, disk, cancelled>>

\* A native crash, or Android kills the application: what is on disk stays.
Killed ==
    /\ ~Ended /\ pc # "idle"
    /\ pc' = "killed" /\ pending' = <<>>
    /\ UNCHANGED <<current, outcomes, details, disk, cancelled, hot>>

Step ==
    \/ FileOpens \/ FileFills \/ WriteFails
    \/ Cools \/ Loads \/ Freshens \/ Selects \/ Completes
    \/ ModelCompletes \/ ModelFails \/ TimesOut \/ CancelTakesHold
    \/ QueueCompletes \/ Ends

Next == Start \/ Step \/ Cancel \/ TemperatureChanges \/ Killed

Spec == Init /\ [][Next]_vars

\* The coroutine runs on.  A phone that cools down for good lets it pass, but
\* one that is hot every time it is asked does not.
FairSpec == Spec /\ WF_vars(Step)

-----------------------------------------------------------------------------
(* Properties.                                                              *)

CaseResults == BoundedSeq(Results, NCases)
Report == [complete : BOOLEAN, details : CaseResults]
Outcome == [model : Named, status : {"completed", "failed"}]

ASSUME MarkersAreNoArtifacts == {Absent, Torn} \cap (Report \cup CaseResults) = {}

\* The position in the queue and every file on disk have the form their writers
\* give them.
TypeOK ==
    /\ pc \in {"idle", "cool", "load", "case", "fresh", "select", "finish", "end",
               "ended", "killed"}
    /\ current \in 1 .. Len(Queue) + 1
    /\ outcomes \in Seq(Outcome) /\ Len(outcomes) = current - 1
    /\ details \in CaseResults
    /\ \A i \in 1 .. Len(pending) : pending[i].file \in Files
    /\ DOMAIN disk = Files
    /\ disk[Manifest] \in {Absent, Torn} \/
          /\ disk[Manifest].state \in {"running", "completed", "cancelled"}
          /\ disk[Manifest].outcomes \in Seq(Outcome)
    /\ \A m \in Named :
          /\ disk[Json(m)] \in {Absent, Torn} \cup Report
          /\ disk[Csv(m)] \in {Absent, Torn} \cup CaseResults
    /\ cancelled \in BOOLEAN /\ hot \in BOOLEAN

Written(f) == disk[f] \notin {Absent, Torn}

Uninterrupted(d) == \A k \in 1 .. Len(d) : d[k] # "interrupted"

\* No other model of the queue has the artifact files of the i-th.
Alone(i) == \A k \in 1 .. Len(Queue) : Stem[Queue[k]] = Stem[Queue[i]] => k = i

\* The two kinds of file agree (docs/tool-agent-evaluation.md, "Overnight
\* multi-model queue"): whatever moment the application is killed at, a model
\* that the manifest lists as completed, and that shares its files with no other,
\* has a report that is complete and covers every case, none of which Cancel
\* interrupted, and a table of the same cases; and a queue that is listed as
\* completed has tried every model.
ManifestHonest ==
    Written(Manifest) =>
        /\ disk[Manifest].state = "completed" =>
              Len(disk[Manifest].outcomes) = Len(Queue)
        /\ \A i \in 1 .. Len(disk[Manifest].outcomes) :
            LET o == disk[Manifest].outcomes[i] IN
            /\ o.model = Queue[i]
            /\ o.status = "completed" /\ Alone(i) =>
                  /\ Written(Json(o.model)) /\ disk[Json(o.model)].complete
                  /\ Len(disk[Json(o.model)].details) = NCases
                  /\ Uninterrupted(disk[Json(o.model)].details)
                  /\ disk[Csv(o.model)] = disk[Json(o.model)].details

\* The table is never ahead of the report: a row of it is a case of the report,
\* unless the report is being rewritten or another model has the same files.
TableFollowsReport ==
    \A i \in 1 .. Len(Queue) :
        LET m == Queue[i] IN
        Alone(i) /\ Written(Json(m)) /\ Written(Csv(m)) =>
            IsPrefix(disk[Csv(m)], disk[Json(m)].details)

\* A manifest that says "completed" or "cancelled" is the last thing written: who
\* collects the results of a queue that says it has ended finds them settled,
\* whether it ended by itself, by Cancel or by a timeout.
EndedManifestIsFinal ==
    [][Written(Manifest) /\ disk[Manifest].state # "running" => disk' = disk]_vars

\* Complete results are lost to a namesake only: the step that truncates or
\* rewrites a report which was complete is one of a later model of the queue
\* whose name has the same stem.  safeFileStem (MainActivity.kt:2304) lets two
\* names have one, so docs/tool-agent-evaluation.md:34 ("preventing later models
\* from overwriting earlier results") promises more than the code ensures.
OnlyNamesakesOverwrite ==
    [][\A m \in Named :
          Written(Json(m)) /\ disk[Json(m)].complete /\ disk'[Json(m)] # disk[Json(m)]
             => /\ ~Tried /\ Stem[Model] = Stem[m]
                /\ \E k \in 1 .. current - 1 : Stem[Queue[k]] = Stem[m]]_vars

\* Cancel ends the queue, even on a phone that stays hot.
CancelEndsQueue == cancelled ~> Ended

\* A queue on a phone that cools down for good comes to its end.
CoolQueueEnds == <>[]~hot => (pc = "cool" ~> Ended)

\* "continues even if an individual model is unsupported or fails"
\* (docs/tool-agent-evaluation.md:32): only the user cancels the queue.
OnlyUserCancels ==
    Written(Manifest) /\ disk[Manifest].state = "cancelled" => cancelled

\* "does not save a misleading partial report" (docs/tool-agent-evaluation.md:21):
\* a report that says it is complete has no case that Cancel interrupted.
NoMisleadingReport ==
    \A m \in Named : Written(Json(m)) /\ disk[Json(m)].complete =>
        Uninterrupted(disk[Json(m)].details)
=============================================================================
