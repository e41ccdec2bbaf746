-------------------------- MODULE ReflexEngineProofs --------------------------
(***************************************************************************)
(* Theorems about ReflexEngine, for any models and any number of server    *)
(* processes and calls.  What the recorded model path says of the process  *)
(* holds whatever the processes do and whoever runs beside whom; the rest  *)
(* holds of a calm system (Calm), and the runs ReflexStall and             *)
(* ReflexOverlap show that it needs to be.                                 *)
(***************************************************************************)
EXTENDS ReflexEngine, TLAPS

-----------------------------------------------------------------------------
(* The inductive invariant.                                                 *)

Serving == {"loadDecision", "prepare", "select"}

\* Which call may be at which step, and for which model.
Control ==
    /\ op \in Serving => target \in DecisionModels
    /\ op = "loadText" => target \in TextModels
    /\ op = "prompt" /\ pc \notin {"prompt", "generate"} => target \in TextModels
    /\ pc \in {"start", "bind", "spawn", "poll", "settle", "ask"} \/ phase # "call"
          => op \in Serving
    /\ pc \in {"read", "clear", "kill"} /\ phase = "call"
          => op \in {"loadDecision", "loadText", "prompt"}
    /\ pc = "unload" => op \in Serving \cup {"loadText", "prompt"}
    /\ pc \in {"forget", "architecture"} => op \in {"loadDecision", "loadText"}
    /\ pc = "adopt" => op = "loadDecision"
    /\ pc \in {"loadText", "textLoading"} => op \in {"loadText", "prompt"}
    /\ pc \in {"swap", "prompt", "generate"} => op = "prompt"
    /\ pc \in {"bind", "spawn", "poll", "settle"} => phase = "start"
    /\ phase # "call" => pc \in {"read", "clear", "kill", "bind", "spawn", "poll", "settle"}

\* No path is recorded from the moment start() has cleared it until the server answers,
\* and what answers serves the target.
Recorded ==
    /\ pc \in {"kill", "bind", "spawn", "poll", "settle"} => modelPath = None
    /\ pc \in {"poll", "settle"} /\ process \in Alive => serves[process] = target
    /\ RuntimeCacheFresh

Calm == ~KillMayStall /\ ~Unlocked

\* A living server is the runtime's, or the one a stop() has taken and not yet killed.
Reached ==
    /\ pc = "idle" \/ upc = "idle"
    /\ pc = "clear" => owned = process
    /\ upc = "clear" => uowned = process
    /\ pc = "kill" => Alive \subseteq {owned} /\ process = None
    /\ upc \in {"clearPath", "kill"} => Alive \subseteq {uowned} /\ process = None
    /\ pc # "kill" /\ upc \notin {"clearPath", "kill"} => Alive \subseteq {process}

\* Memory is empty where a call is about to fill it.
Emptied ==
    /\ \/ pc \in {"bind", "spawn", "forget", "architecture", "adopt", "swap", "loadText",
                  "textLoading"}
       \/ pc = "unload" /\ op \notin {"prepare", "select"}
       => Alive = {}
    /\ text \in {"Initializing", "Initialized"} => textModel = None
    /\ pc \in {"forget", "architecture", "adopt", "start", "ask"} \/ phase # "call"
          => textModel = None
    /\ Alive # {} => textModel = None

\* Only a living server of this app listens, and a living process that is asked serves
\* the target.
Listening ==
    /\ port \in Servers => port \in Alive
    /\ pc = "ask" /\ process \in Alive => serves[process] = target

CalmInv == Reached /\ Emptied /\ Listening

\* Every step keeps the types.
LEMMA NextTypes == ASSUME TypeOK, Control, [Next]_vars PROVE TypeOK'
<1> USE DEF runtimeVars, engineVars, systemVars, textVars, lockedVars, unlockedVars
<1>1. CASE StopReads \/ StopClears \/ StopKills \/ StopGivesUp
  BY <1>1 DEF StopReads, StopClears, StopKills, Killed, Dies, Abort, Goto, GotoPhase,
         AfterStop, StopGivesUp, TypeOK, Ops, Steps, Phases
<1>2. CASE UnloadText \/ UnloadTimesOut \/ Forget \/ ReadArchitecture \/ AdoptDecisionModel
  BY <1>2 DEF UnloadText, Goto, GotoPhase, AfterUnload, TextCleanUp, UnloadTimesOut,
         Abort, Forget, ReadArchitecture, AdoptDecisionModel, TypeOK, Control, Ops,
         Steps, TextStates, Serving
<1>3. CASE StartReuses \/ StartStops \/ BindChecks \/ StartFails
  BY <1>3 DEF StartReuses, AfterStart, Goto, GotoPhase, StartStops, BindChecks,
         StartFails, Abort, TypeOK, Ops, Steps, Phases
<1>4. CASE StartSpawns
  BY <1>4 DEF StartSpawns, Goto, GotoPhase, TypeOK, Control, Steps
<1>5. CASE PollSucceeds \/ PollFails \/ Settle \/ Ask
  BY <1>5 DEF PollSucceeds, Goto, GotoPhase, PollFails, Settle, Abort, AfterStart, Ask,
         TypeOK, Control, Ops, Steps, Phases
<1>6. CASE SwapToText \/ LoadText \/ TextLoaded \/ TextLoadFails
  BY <1>6 DEF SwapToText, Goto, GotoPhase, LoadText, Abort, TextLoaded, TextLoadFails,
         TypeOK, Control, Ops, Steps, TextStates
<1>7. CASE SendPrompt \/ Generated
  BY <1>7 DEF SendPrompt, Goto, GotoPhase, Generated, TypeOK, Control, Ops, Steps,
         TextStates
<1>8. CASE UnlockedReads \/ UnlockedClears \/ UnlockedClearsPath \/ UnlockedKills \/
            UnlockedGivesUp
  BY <1>8 DEF UnlockedReads, UnlockedClears, UGoto, UnlockedClearsPath, UnlockedKills,
         Killed, Dies, UnlockedGivesUp, TypeOK, UnlockedSteps
<1>9. CASE UnlockedForgets \/ UnlockedCleansText
  BY <1>9 DEF UnlockedForgets, UGoto, UnlockedCleansText, TextCleanUp, TypeOK,
         UnlockedSteps, TextStates
<1>10. CASE ServerEnds \/ ServerListens \/ StrangerMoves \/ TextEngineStarts
  BY <1>10 DEF ServerEnds, Dies, Alive, ServerListens, StrangerMoves, TextEngineStarts,
         TypeOK, TextStates
<1>11. CASE BeginLoad \/ BeginRouting \/ BeginPrompt \/ BeginUnlocked \/ ChooseTextModel
  BY <1>11 DEF BeginLoad, Begin, BeginRouting, BeginPrompt, BeginUnlocked,
         ChooseTextModel, TypeOK, Control, Models, Ops, Steps, UnlockedSteps
<1>12. CASE UNCHANGED vars
  BY <1>12 DEF vars, TypeOK
<1> QED BY <1>1, <1>2, <1>3, <1>4, <1>5, <1>6, <1>7, <1>8, <1>9, <1>10, <1>11, <1>12 DEF
         Next, LockedStep, UnlockedStep, SystemStep, Call

\* Every step leaves a call at a step, and with a model, that the call may have there.
LEMMA NextControl == ASSUME TypeOK, Control, [Next]_vars PROVE Control'
<1> USE DEF runtimeVars, engineVars, systemVars, textVars, lockedVars, unlockedVars
<1>1. CASE StopReads \/ StopClears \/ StopKills \/ StopGivesUp
  <2>1. CASE StopKills
    <3>1. CASE phase = "catch"
      BY <2>1, <3>1 DEF StopKills, Abort, GotoPhase, Control, Serving
    <3>2. CASE phase = "start"
      <4>1. AfterStop = "bind"
        BY <3>2 DEF AfterStop
      <4>2. pc' = "bind" /\ op' = op /\ target' = target /\ phase' = phase
        BY <2>1, <3>2, <4>1 DEF StopKills, Goto, GotoPhase
      <4> QED BY <2>1, <3>2, <4>2 DEF StopKills, Control, Serving
    <3>3. CASE phase = "call"
      <4>1. AfterStop = IF op = "prompt" THEN "swap" ELSE "unload"
        BY <3>3 DEF AfterStop
      <4>2. pc' = AfterStop /\ op' = op /\ target' = target /\ phase' = phase
        BY <2>1, <3>3, <4>1 DEF StopKills, Goto, GotoPhase
      <4> QED BY <2>1, <3>3, <4>1, <4>2 DEF StopKills, Control, Serving
    <3> QED BY <3>1, <3>2, <3>3 DEF TypeOK, Phases
  <2>2. CASE StopReads \/ StopClears \/ StopGivesUp
    BY <2>2 DEF StopReads, StopClears, StopGivesUp, Abort, GotoPhase, Control, Serving
  <2> QED BY <1>1, <2>1, <2>2
<1>2. CASE UnloadText \/ UnloadTimesOut \/ Forget \/ ReadArchitecture \/ AdoptDecisionModel
  BY <1>2 DEF UnloadText, Goto, GotoPhase, AfterUnload, UnloadTimesOut, Abort, Forget,
         ReadArchitecture, AdoptDecisionModel, Control, Serving
<1>3. CASE StartReuses \/ StartStops \/ BindChecks \/ StartFails
  BY <1>3 DEF StartReuses, AfterStart, Goto, GotoPhase, StartStops, BindChecks,
         StartFails, Abort, Control, Serving
<1>4. CASE StartSpawns
  BY <1>4 DEF StartSpawns, Goto, GotoPhase, Control
<1>5. CASE PollSucceeds \/ PollFails \/ Settle \/ Ask
  BY <1>5 DEF PollSucceeds, Goto, GotoPhase, PollFails, Settle, Abort, AfterStart, Ask,
         Control, Serving
<1>6. CASE SwapToText \/ LoadText \/ TextLoaded \/ TextLoadFails
  BY <1>6 DEF SwapToText, Goto, GotoPhase, LoadText, Abort, TextLoaded, TextLoadFails,
         Control, Serving
<1>7. CASE SendPrompt \/ Generated
  BY <1>7 DEF SendPrompt, Goto, GotoPhase, Generated, Control, Serving
<1>8. CASE UnlockedReads \/ UnlockedClears \/ UnlockedClearsPath \/ UnlockedKills \/
            UnlockedGivesUp
  BY <1>8 DEF UnlockedReads, UnlockedClears, UnlockedClearsPath, UnlockedKills,
         UnlockedGivesUp, Control
<1>9. CASE UnlockedForgets \/ UnlockedCleansText
  BY <1>9 DEF UnlockedForgets, UnlockedCleansText, Control
<1>10. CASE ServerEnds \/ ServerListens \/ StrangerMoves \/ TextEngineStarts
  BY <1>10 DEF ServerEnds, ServerListens, StrangerMoves, TextEngineStarts, Control
<1>11. CASE BeginLoad \/ BeginRouting \/ BeginPrompt \/ BeginUnlocked \/ ChooseTextModel
  BY <1>11 DEF BeginLoad, Begin, BeginRouting, BeginPrompt, BeginUnlocked,
         ChooseTextModel, Control, TypeOK, Serving
<1>12. CASE UNCHANGED vars
  BY <1>12 DEF vars, Control
<1> QED BY <1>1, <1>2, <1>3, <1>4, <1>5, <1>6, <1>7, <1>8, <1>9, <1>10, <1>11, <1>12 DEF
         Next, LockedStep, UnlockedStep, SystemStep, Call

\* No step records a path that the living process does not serve.
LEMMA NextRecorded == ASSUME TypeOK, Control, Recorded, [Next]_vars PROVE Recorded'
<1> USE DEF runtimeVars, engineVars, systemVars, textVars, lockedVars, unlockedVars
<1>1. CASE StopReads \/ StopClears \/ StopKills \/ StopGivesUp
  BY <1>1 DEF StopReads, StopClears, StopKills, Alive, Abort, Goto, GotoPhase,
         AfterStop, StopGivesUp, Recorded, RuntimeCacheFresh
<1>2. CASE UnloadText \/ UnloadTimesOut \/ Forget \/ ReadArchitecture \/ AdoptDecisionModel
  BY <1>2 DEF UnloadText, Goto, GotoPhase, AfterUnload, UnloadTimesOut, Abort, Forget,
         ReadArchitecture, AdoptDecisionModel, Recorded, RuntimeCacheFresh, Alive
<1>3. CASE StartReuses \/ StartStops \/ BindChecks \/ StartFails
  BY <1>3 DEF StartReuses, AfterStart, Goto, GotoPhase, StartStops, BindChecks,
         StartFails, Abort, Recorded, RuntimeCacheFresh, Alive
<1>4. CASE StartSpawns
  BY <1>4 DEF StartSpawns, Goto, GotoPhase, Alive, Recorded, RuntimeCacheFresh
<1>5. CASE PollSucceeds \/ PollFails \/ Settle \/ Ask
  BY <1>5 DEF PollSucceeds, Goto, GotoPhase, PollFails, Settle, Abort, AfterStart, Ask,
         Recorded, RuntimeCacheFresh, Alive
<1>6. CASE SwapToText \/ LoadText \/ TextLoaded \/ TextLoadFails
  BY <1>6 DEF SwapToText, Goto, GotoPhase, LoadText, Abort, TextLoaded, TextLoadFails,
         Recorded, RuntimeCacheFresh, Alive
<1>7. CASE SendPrompt \/ Generated
  BY <1>7 DEF SendPrompt, Goto, GotoPhase, Generated, Recorded, RuntimeCacheFresh, Alive
<1>8. CASE UnlockedReads \/ UnlockedClears \/ UnlockedClearsPath \/ UnlockedKills \/
            UnlockedGivesUp
  BY <1>8, ServerAssumption DEF UnlockedReads, UnlockedClears, UnlockedClearsPath,
         UnlockedKills, Killed, Dies, Alive, UnlockedGivesUp, Recorded,
         RuntimeCacheFresh, TypeOK
<1>9. CASE UnlockedForgets \/ UnlockedCleansText
  BY <1>9 DEF UnlockedForgets, UnlockedCleansText, Recorded, RuntimeCacheFresh, Alive
<1>10. CASE ServerEnds \/ ServerListens \/ StrangerMoves \/ TextEngineStarts
  BY <1>10 DEF ServerEnds, Dies, Alive, ServerListens, StrangerMoves, TextEngineStarts,
         Recorded, RuntimeCacheFresh, TypeOK
<1>11. CASE BeginLoad \/ BeginRouting \/ BeginPrompt \/ BeginUnlocked \/ ChooseTextModel
  BY <1>11 DEF BeginLoad, Begin, BeginRouting, BeginPrompt, BeginUnlocked,
         ChooseTextModel, Recorded, RuntimeCacheFresh, Alive
<1>12. CASE UNCHANGED vars
  BY <1>12 DEF vars, Recorded, RuntimeCacheFresh, Alive
<1> QED BY <1>1, <1>2, <1>3, <1>4, <1>5, <1>6, <1>7, <1>8, <1>9, <1>10, <1>11, <1>12 DEF
         Next, LockedStep, UnlockedStep, SystemStep, Call

\* In a calm system no step leaves a living server that no stop() can reach.
LEMMA NextReached == ASSUME Calm, TypeOK, Control, Recorded, CalmInv, [Next]_vars PROVE Reached'
<1> USE DEF runtimeVars, engineVars, systemVars, textVars, lockedVars, unlockedVars
<1>1. CASE StopReads \/ StopClears
  BY <1>1 DEF StopReads, StopClears, CalmInv, Reached, Alive
<1>2. CASE StopKills
  BY <1>2 DEF StopKills, Killed, Dies, Alive, Abort, Goto, GotoPhase, CalmInv, Reached,
         TypeOK
<1>3. CASE StopGivesUp
  BY <1>3 DEF StopGivesUp, Calm
<1>4. CASE UnloadText \/ UnloadTimesOut \/ Forget \/ ReadArchitecture \/ AdoptDecisionModel
  BY <1>4 DEF UnloadText, Goto, GotoPhase, AfterUnload, UnloadTimesOut, Abort, Forget,
         ReadArchitecture, AdoptDecisionModel, CalmInv, Reached, Alive
<1>5. CASE StartReuses \/ StartStops \/ BindChecks \/ StartFails
  BY <1>5 DEF StartReuses, AfterStart, Goto, GotoPhase, StartStops, BindChecks,
         StartFails, Abort, CalmInv, Reached, Alive
<1>6. CASE StartSpawns
  BY <1>6 DEF StartSpawns, Goto, GotoPhase, Alive, CalmInv, Reached, Emptied
<1>7. CASE PollSucceeds \/ PollFails \/ Settle \/ Ask
  BY <1>7 DEF PollSucceeds, Goto, GotoPhase, PollFails, Settle, Abort, AfterStart, Ask,
         CalmInv, Reached, Alive
<1>8. CASE SwapToText \/ LoadText \/ TextLoaded \/ TextLoadFails
  BY <1>8 DEF SwapToText, Goto, GotoPhase, LoadText, Abort, TextLoaded, TextLoadFails,
         CalmInv, Reached, Alive
<1>9. CASE SendPrompt \/ Generated
  BY <1>9 DEF SendPrompt, Goto, GotoPhase, Generated, CalmInv, Reached, Alive
<1>10. CASE UnlockedReads \/ UnlockedClears \/ UnlockedClearsPath
  BY <1>10 DEF UnlockedReads, UnlockedClears, UGoto, UnlockedClearsPath, CalmInv,
         Reached, Alive
<1>11. CASE UnlockedKills \/ UnlockedGivesUp
  BY <1>11 DEF UnlockedKills, UGoto, Killed, Dies, Alive, UnlockedGivesUp, CalmInv,
         Reached, Calm, TypeOK
<1>12. CASE UnlockedForgets \/ UnlockedCleansText
  BY <1>12 DEF UnlockedForgets, UGoto, UnlockedCleansText, CalmInv, Reached, Alive
<1>13. CASE ServerEnds \/ ServerListens \/ StrangerMoves \/ TextEngineStarts
  BY <1>13 DEF ServerEnds, Dies, Alive, ServerListens, StrangerMoves, TextEngineStarts,
         CalmInv, Reached, TypeOK
<1>14. CASE BeginLoad \/ BeginRouting \/ BeginPrompt \/ BeginUnlocked \/ ChooseTextModel
  BY <1>14 DEF BeginLoad, Begin, BeginRouting, BeginPrompt, BeginUnlocked,
         ChooseTextModel, CalmInv, Reached, Calm, Alive
<1>15. CASE UNCHANGED vars
  BY <1>15 DEF vars, CalmInv, Reached, Alive
<1> QED BY <1>1, <1>2, <1>3, <1>4, <1>5, <1>6, <1>7, <1>8, <1>9, <1>10, <1>11, <1>12, <1>13,
         <1>14, <1>15 DEF Next, LockedStep, UnlockedStep, SystemStep, Call

\* In a calm system no step fills the memory that a call has emptied for its own model.
LEMMA NextEmptied == ASSUME Calm, TypeOK, Control, Recorded, CalmInv, [Next]_vars PROVE Emptied'
<1> USE DEF runtimeVars, engineVars, systemVars, textVars, lockedVars, unlockedVars
<1>1. CASE StopReads \/ StopClears
  BY <1>1 DEF StopReads, StopClears, CalmInv, Emptied, Alive
<1>2. CASE StopKills
  BY <1>2 DEF StopKills, Killed, Dies, Alive, Goto, GotoPhase, AfterStop, CalmInv,
         Reached, Emptied, TypeOK
<1>3. CASE StopGivesUp
  BY <1>3 DEF StopGivesUp, Calm
<1>4. CASE UnloadText \/ UnloadTimesOut \/ Forget \/ ReadArchitecture \/ AdoptDecisionModel
  BY <1>4 DEF UnloadText, Goto, GotoPhase, AfterUnload, TextCleanUp, UnloadTimesOut,
         Abort, Forget, ReadArchitecture, AdoptDecisionModel, CalmInv, Emptied, Alive
<1>5. CASE StartReuses \/ StartStops \/ BindChecks \/ StartFails
  BY <1>5 DEF StartReuses, AfterStart, Goto, GotoPhase, StartStops, BindChecks,
         StartFails, Abort, CalmInv, Emptied, Alive
<1>6. CASE StartSpawns
  BY <1>6 DEF StartSpawns, Goto, GotoPhase, CalmInv, Emptied, Control
<1>7. CASE PollSucceeds \/ PollFails \/ Settle \/ Ask
  BY <1>7 DEF PollSucceeds, Goto, GotoPhase, PollFails, Settle, Abort, AfterStart, Ask,
         CalmInv, Emptied, Control
<1>8. CASE SwapToText \/ LoadText \/ TextLoaded \/ TextLoadFails
  BY <1>8 DEF SwapToText, Goto, GotoPhase, LoadText, Abort, TextLoaded, TextLoadFails,
         CalmInv, Emptied, Alive, Control
<1>9. CASE SendPrompt \/ Generated
  BY <1>9 DEF SendPrompt, Goto, GotoPhase, Generated, CalmInv, Emptied, Alive
<1>10. CASE UnlockedReads \/ UnlockedClears \/ UnlockedClearsPath
  BY <1>10 DEF UnlockedReads, UnlockedClears, UnlockedClearsPath, CalmInv, Emptied,
         Alive
<1>11. CASE UnlockedKills \/ UnlockedGivesUp
  BY <1>11 DEF UnlockedKills, Killed, Alive, UnlockedGivesUp, CalmInv, Emptied
<1>12. CASE UnlockedForgets \/ UnlockedCleansText
  BY <1>12 DEF UnlockedForgets, UnlockedCleansText, TextCleanUp, CalmInv, Emptied, Alive
<1>13. CASE ServerEnds \/ ServerListens \/ StrangerMoves \/ TextEngineStarts
  BY <1>13 DEF ServerEnds, Alive, ServerListens, StrangerMoves, TextEngineStarts,
         CalmInv, Emptied
<1>14. CASE BeginLoad \/ BeginRouting \/ BeginPrompt \/ BeginUnlocked \/ ChooseTextModel
  BY <1>14 DEF BeginLoad, Begin, BeginRouting, BeginPrompt, BeginUnlocked,
         ChooseTextModel, CalmInv, Emptied, Alive
<1>15. CASE UNCHANGED vars
  BY <1>15 DEF vars, CalmInv, Emptied, Alive
<1> QED BY <1>1, <1>2, <1>3, <1>4, <1>5, <1>6, <1>7, <1>8, <1>9, <1>10, <1>11, <1>12, <1>13,
         <1>14, <1>15 DEF Next, LockedStep, UnlockedStep, SystemStep, Call

\* In a calm system no step leaves a dead server on the port, or asks a server for a
\* model it does not serve.
LEMMA NextListening == ASSUME Calm, TypeOK, Control, Recorded, CalmInv, [Next]_vars PROVE Listening'
<1> USE ServerAssumption DEF runtimeVars, engineVars, systemVars, textVars, lockedVars, unlockedVars
<1>1. CASE StopReads \/ StopClears
  BY <1>1 DEF StopReads, StopClears, CalmInv, Listening, Alive
<1>2. CASE StopKills
  BY <1>2 DEF StopKills, Killed, Dies, Alive, Abort, Goto, GotoPhase, AfterStop,
         CalmInv, Listening, TypeOK
<1>3. CASE StopGivesUp
  BY <1>3 DEF StopGivesUp, Calm
<1>4. CASE UnloadText \/ UnloadTimesOut \/ Forget \/ ReadArchitecture \/ AdoptDecisionModel
  BY <1>4 DEF UnloadText, Goto, GotoPhase, AfterUnload, UnloadTimesOut, Abort, Forget,
         ReadArchitecture, AdoptDecisionModel, CalmInv, Listening, Alive
<1>5. CASE StartReuses \/ StartStops \/ BindChecks \/ StartFails
  <2>1. CASE StartReuses
    <3>1. op \in Serving /\ target \in DecisionModels /\ modelPath = target
      BY <2>1 DEF StartReuses, AlreadyServing, Control
    <3>2. process \in Alive /\ serves[process] = target
      BY <2>1, <3>1, ModelAssumption DEF StartReuses, AlreadyServing, Recorded,
             RuntimeCacheFresh, CalmInv, Listening, Models
    <3>3. /\ UNCHANGED <<process, modelPath, serves, port>>
          /\ pc' = "idle" \/ (pc' = "ask" /\ target' = target)
      BY <2>1 DEF StartReuses, Goto, GotoPhase, AfterStart
    <3> QED BY <3>2, <3>3 DEF CalmInv, Listening, Alive
  <2>2. CASE StartStops
    BY <2>2 DEF StartStops, GotoPhase, CalmInv, Listening, Alive
  <2>3. CASE BindChecks
    BY <2>3 DEF BindChecks, Goto, GotoPhase, CalmInv, Listening, Alive
  <2>4. CASE StartFails
    BY <2>4 DEF StartFails, Abort, GotoPhase, CalmInv, Listening, Alive
  <2> QED BY <1>5, <2>1, <2>2, <2>3, <2>4
<1>6. CASE StartSpawns
  BY <1>6 DEF StartSpawns, Goto, GotoPhase, CalmInv, Listening, Alive, TypeOK
<1>7. CASE PollSucceeds \/ PollFails \/ Settle \/ Ask
  BY <1>7 DEF PollSucceeds, Goto, GotoPhase, PollFails, Settle, Abort, AfterStart, Ask,
         CalmInv, Listening, Recorded, Alive
<1>8. CASE SwapToText \/ LoadText \/ TextLoaded \/ TextLoadFails
  BY <1>8 DEF SwapToText, Goto, GotoPhase, LoadText, Abort, TextLoaded, TextLoadFails,
         CalmInv, Listening, Alive
<1>9. CASE SendPrompt \/ Generated
  BY <1>9 DEF SendPrompt, Goto, GotoPhase, Generated, CalmInv, Listening, Alive
<1>10. CASE UnlockedReads \/ UnlockedClears \/ UnlockedClearsPath
  BY <1>10 DEF UnlockedReads, UnlockedClears, UnlockedClearsPath, CalmInv, Reached,
         Listening, Alive
<1>11. CASE UnlockedKills \/ UnlockedGivesUp
  BY <1>11 DEF UnlockedKills, Killed, Dies, Alive, UnlockedGivesUp, CalmInv, Listening,
         TypeOK
<1>12. CASE UnlockedForgets \/ UnlockedCleansText
  BY <1>12 DEF UnlockedForgets, UnlockedCleansText, CalmInv, Listening, Alive
<1>13. CASE ServerEnds \/ ServerListens \/ StrangerMoves \/ TextEngineStarts
  BY <1>13 DEF ServerEnds, Dies, Alive, ServerListens, StrangerMoves,
         TextEngineStarts, CalmInv, Reached, Emptied, Listening, TypeOK
<1>14. CASE BeginLoad \/ BeginRouting \/ BeginPrompt \/ BeginUnlocked \/ ChooseTextModel
  BY <1>14 DEF BeginLoad, Begin, BeginRouting, BeginPrompt, BeginUnlocked,
         ChooseTextModel, CalmInv, Listening, Alive
<1>15. CASE UNCHANGED vars
  BY <1>15 DEF vars, CalmInv, Listening, Alive
<1> QED BY <1>1, <1>2, <1>3, <1>4, <1>5, <1>6, <1>7, <1>8, <1>9, <1>10, <1>11, <1>12, <1>13,
         <1>14, <1>15 DEF Next, LockedStep, UnlockedStep, SystemStep, Call

-----------------------------------------------------------------------------
(* Invariants of every run, and of every run of a calm system.              *)

\* The initial state has what holds of every system.
LEMMA InitRuns == ASSUME Init PROVE TypeOK /\ Control /\ Recorded
BY ModelAssumption, ServerAssumption DEF Init, TypeOK, Control, Recorded, RuntimeCacheFresh,
   Alive, Models, Ops, Steps, Phases, UnlockedSteps, TextStates, Serving

\* The initial state has what holds of a calm system.
LEMMA InitCalm == ASSUME Init PROVE CalmInv
BY ServerAssumption DEF Init, CalmInv, Reached, Emptied, Listening, Alive

\* Types, control and the recorded path hold of every system.
LEMMA Runs == Spec => [](TypeOK /\ Control /\ Recorded)
<1>1. Init => TypeOK /\ Control /\ Recorded
  BY InitRuns
<1>2. TypeOK /\ Control /\ Recorded /\ [Next]_vars => (TypeOK /\ Control /\ Recorded)'
  BY NextTypes, NextControl, NextRecorded
<1> QED BY <1>1, <1>2, PTL DEF Spec

\* Of a calm system the whole inductive invariant holds.
LEMMA CalmRuns == ASSUME Calm PROVE Spec => []CalmInv
<1>1. Init => CalmInv
  BY InitCalm
<1>2. TypeOK /\ Control /\ Recorded /\ CalmInv /\ [Next]_vars => CalmInv'
  BY NextReached, NextEmptied, NextListening DEF CalmInv
<1> QED BY <1>1, <1>2, Runs, PTL DEF Spec

-----------------------------------------------------------------------------
(* The theorems.                                                            *)

\* The fields, the process table and the place of both calls keep their types, for
\* whatever way cleanUp() and close() run beside the calls that hold the mutex.
THEOREM EngineTypes == Spec => []TypeOK
BY Runs, PTL

\* ReflexRuntime may trust its pair of fields: a living process with a recorded path
\* serves that path, because start() clears the path through stop() before it spawns
\* and records it only after the health poll.  This holds with stalling kills and with
\* cleanUp() and close() beside the call.
THEOREM RuntimeCacheIsFresh == Spec => []RuntimeCacheFresh
<1>1. Recorded => RuntimeCacheFresh
  BY DEF Recorded
<1> QED BY <1>1, Runs, PTL

\* "Never two loaded models", when every kill takes effect and cleanUp() and close() run
\* alone.
THEOREM OneLoadedModel == ASSUME Calm PROVE Spec => []NeverTwoLoadedModels
<1>1. CalmInv => NeverTwoLoadedModels
  BY DEF CalmInv, Reached, Emptied, NeverTwoLoadedModels
<1> QED BY <1>1, CalmRuns, PTL

\* Between calls of a calm system, a server that lives is the one the runtime refers to.
THEOREM NoServerIsLost == ASSUME Calm PROVE Spec => []NoOrphanServer
<1>1. CalmInv => NoOrphanServer
  BY DEF CalmInv, Reached, NoOrphanServer, Quiet
<1> QED BY <1>1, CalmRuns, PTL

\* In a calm system, whichever server of this app listens when select() sends its prompt
\* is the process of the runtime and serves the model that was asked for.  (A server of
\* another app may have taken the port: the run ReflexStranger shows how.)
THEOREM RightServerIsAsked == ASSUME Calm PROVE Spec => []OwnServerAsked
<1>1. TypeOK /\ CalmInv => OwnServerAsked
  BY DEF TypeOK, CalmInv, Reached, Listening, OwnServerAsked
<1> QED BY <1>1, Runs, CalmRuns, PTL

-----------------------------------------------------------------------------
(* A calm system implements ModelSlot.                                      *)

Held == IF textModel = None THEN {} ELSE {<<"text", textModel>>}
Loaded == {<<s, serves[s]>> : s \in Alive} \cup Held

\* What a step does to memory: nothing, a server's end, a server's start, the loading of
\* a text model or its release.
ServerGone == \E s \in Alive :
                 serves' = [serves EXCEPT ![s] = None] /\ UNCHANGED textModel
ServerUp == /\ Alive = {} /\ textModel = None /\ target # None /\ UNCHANGED textModel
            /\ \E s \in Servers : serves' = [serves EXCEPT ![s] = target]
TextUp == /\ Alive = {} /\ textModel = None /\ textModel' \in TextModels
          /\ UNCHANGED serves
TextGone == textModel' = None /\ UNCHANGED serves
SameMemory == UNCHANGED <<serves, textModel>>

\* A step of a calm system does one thing to memory at most, and fills it only when empty.
LEMMA MemorySteps == ASSUME TypeOK, Control, CalmInv, [Next]_vars
                     PROVE SameMemory \/ ServerGone \/ ServerUp \/ TextUp \/ TextGone
<1> USE DEF runtimeVars, engineVars, systemVars, textVars, lockedVars, unlockedVars
<1>1. CASE StopKills \/ UnlockedKills \/ ServerEnds \/ ServerListens
  BY <1>1 DEF StopKills, UnlockedKills, ServerEnds, ServerListens, Killed, Dies,
         SameMemory, ServerGone
<1>2. CASE UnloadText \/ UnlockedCleansText \/ TextLoadFails
  BY <1>2 DEF UnloadText, UnlockedCleansText, TextLoadFails, TextCleanUp, SameMemory,
         TextGone
<1>3. CASE StartSpawns
  <2>1. target # None /\ textModel = None /\ Alive = {}
    BY <1>3, ModelAssumption DEF StartSpawns, Control, Serving, CalmInv, Emptied, Models
  <2> QED BY <1>3, <2>1 DEF StartSpawns, ServerUp
<1>4. CASE LoadText
  <2>1. Alive = {} /\ target \in TextModels
    BY <1>4, ModelAssumption DEF LoadText, Control, CalmInv, Emptied, Models
  <2> QED BY <1>4, <2>1 DEF LoadText, CalmInv, Emptied, TextUp, SameMemory
<1>5. CASE StopReads \/ StopClears \/ StopGivesUp \/ UnloadTimesOut \/ Forget
           \/ ReadArchitecture \/ AdoptDecisionModel \/ StartReuses \/ StartStops
           \/ BindChecks \/ StartFails \/ PollSucceeds \/ PollFails \/ Settle \/ Ask
           \/ SwapToText \/ TextLoaded \/ SendPrompt \/ Generated
  BY <1>5 DEF StopReads, StopClears, StopGivesUp, UnloadTimesOut, Forget,
         ReadArchitecture, AdoptDecisionModel, StartReuses, StartStops, BindChecks,
         StartFails, PollSucceeds, PollFails, Settle, Ask, SwapToText, TextLoaded,
         SendPrompt, Generated, SameMemory
<1>6. CASE UnlockedReads \/ UnlockedClears \/ UnlockedClearsPath \/ UnlockedGivesUp
           \/ UnlockedForgets \/ StrangerMoves \/ TextEngineStarts \/ BeginLoad
           \/ BeginRouting \/ BeginPrompt \/ BeginUnlocked \/ ChooseTextModel
  BY <1>6 DEF UnlockedReads, UnlockedClears, UnlockedClearsPath, UnlockedGivesUp,
         UnlockedForgets, StrangerMoves, TextEngineStarts, BeginLoad, Begin,
         BeginRouting, BeginPrompt, BeginUnlocked, ChooseTextModel, SameMemory
<1>7. CASE UNCHANGED vars
  BY <1>7 DEF vars, SameMemory
<1> QED BY <1>1, <1>2, <1>3, <1>4, <1>5, <1>6, <1>7 DEF Next, LockedStep, UnlockedStep,
         SystemStep, Call

\* Every step of a calm system is a step of the slot, or leaves it as it is.
LEMMA SlotSteps == ASSUME TypeOK, Control, CalmInv, [Next]_vars
                   PROVE [Slot!Next]_Loaded
<1>1. \A s, t \in Alive : s = t
  BY DEF CalmInv, Reached
<1>2. Alive # {} => textModel = None
  BY DEF CalmInv, Emptied
<1>3. CASE SameMemory
  BY <1>3 DEF SameMemory, Loaded, Held, Alive
<1>4. CASE ServerGone
  <2>1. Alive' = {} /\ Alive # {} /\ textModel = None /\ textModel' = None
    BY <1>1, <1>2, <1>4 DEF ServerGone, Alive, TypeOK
  <2>2. Loaded # {} /\ Loaded' = {}
    BY <2>1 DEF Loaded, Held
  <2> QED BY <2>2 DEF Loaded, Held, Slot!Next, Slot!Unload
<1>5. CASE ServerUp
  <2>1. PICK s \in Servers : serves' = [serves EXCEPT ![s] = target]
    BY <1>5 DEF ServerUp
  <2>2. Alive' = {s} /\ serves'[s] = target
    BY <1>5, <2>1 DEF ServerUp, Alive, TypeOK
  <2>3. Loaded = {} /\ Loaded' = {<<s, target>>}
    BY <1>5, <2>2 DEF ServerUp, Loaded, Held
  <2> QED BY <2>3 DEF Loaded, Held, Slot!Next, Slot!Load
<1>6. CASE TextUp
  <2>1. Loaded = {} /\ Loaded' = {<<"text", textModel'>>}
    BY <1>6, ModelAssumption DEF TextUp, Loaded, Held, Alive, Models
  <2> QED BY <2>1 DEF Loaded, Held, Slot!Next, Slot!Load
<1>7. CASE TextGone
  <2>1. CASE textModel = None
    BY <1>7, <2>1 DEF TextGone, Loaded, Held, Alive
  <2>2. CASE textModel # None
    <3>1. Loaded # {} /\ Loaded' = {}
      BY <1>2, <1>7, <2>2 DEF TextGone, Loaded, Held, Alive
    <3> QED BY <3>1 DEF Loaded, Held, Slot!Next, Slot!Unload
  <2> QED BY <2>1, <2>2
<1> QED BY <1>3, <1>4, <1>5, <1>6, <1>7, MemorySteps

\* A calm system is a slot that holds one model at most and is empty between two models:
\* the engine implements ModelSlot.
THEOREM EngineIsASlot == ASSUME Calm PROVE Spec => SwapsThroughEmpty
<1>1. Init => Slot!Init
  BY DEF Init, Slot!Init, Alive
<1>2. TypeOK /\ Control /\ CalmInv /\ [Next]_vars => [Slot!Next]_Loaded
  BY SlotSteps
<1> QED BY <1>1, <1>2, Runs, CalmRuns, PTL DEF Spec, SwapsThroughEmpty, Slot!Spec, Loaded, Held
=============================================================================
