-------------------------- MODULE MCOfflineTools --------------------------
(***************************************************************************)
(* The measuring tools: a harness over a suite of three cases, or the      *)
(* cache simulator over the expert index of a file.  One of them runs.     *)
(***************************************************************************)
EXTENDS BenchHarness, LruSimulator

CONSTANTS e1, e2, e3, e4

\* "How many gigabytes can I still save?" has no keyword of any route, "Tell me a joke."
\* neither; "Are storage and battery temperature okay?" has one of the storage tool.
MCCategory == <<"storage", "answer", "health">>
MCExpected == <<"get_storage_info", "answer", "phone_health_check">>
MCRelevant == <<{}, {}, {"get_storage_info"}>>

\* Two tensors in a row; a file with one that three experts do not divide.
MCFiles == {{[offset |-> 3, bytes |-> 6], [offset |-> 9, bytes |-> 3]},
            {[offset |-> 0, bytes |-> 6], [offset |-> 6, bytes |-> 4]}}

VARIABLE measuring      \* the harness runs, not the simulator

\* A replay whose first request failed.
HarnessIdle ==
    /\ harness = "replay" /\ limit = NCases /\ phase = "aborted"
    /\ next = 1 /\ waited = 0 /\ before = NoReading /\ row = << >> /\ rows = << >>
    /\ saved = NoFile /\ runs = MaxRuns

ToolsInit ==
    /\ SimInit
    /\ \/ measuring = TRUE /\ BenchInit /\ window = 1
       \/ measuring = FALSE /\ HarnessIdle

ToolsNext ==
    \/ measuring /\ BenchNext /\ UNCHANGED <<simVars, measuring>>
    \/ ~measuring /\ SimNext /\ UNCHANGED <<benchVars, measuring>>

ToolsSpec ==
    /\ ToolsInit
    /\ [][ToolsNext]_<<benchVars, simVars, measuring>>
    /\ WF_benchVars(measuring /\ Proceed /\ UNCHANGED <<simVars, measuring>>)

=============================================================================
