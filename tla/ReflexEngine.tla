---------------------------- MODULE ReflexEngine ----------------------------
(***************************************************************************)
(* Sequential swapping between the decision server and the text model:     *)
(* ReflexInferenceEngine.kt and the process it owns, ReflexRuntime.kt.     *)
(*                                                                         *)
(* The calls loadModel, prepareRouting, select and sendUserPrompt hold the *)
(* engine's mutex, so one of them runs at a time: op, pc, phase, target    *)
(* and owned are that call's.  cleanUp and close take no mutex: uop, upc   *)
(* and uowned are theirs.  Both kinds of call run ReflexRuntime.stop(),    *)
(* which reads `process`, clears it and then kills what it read, without   *)
(* synchronization; each access to the shared fields is a step.            *)
(*                                                                         *)
(* External, modelled from how this code uses them: the operating system's *)
(* processes and TCP port, and the JNI text engine.                        *)
(*                                                                         *)
(* A definition that stands directly before another and is used nowhere is *)
(* a mutated form of it, which the properties must tell from the original. *)
(***************************************************************************)
EXTENDS Integers, FiniteSets

CONSTANTS
    DecisionModels, TextModels,
    Servers,        \* identifiers of server processes
    None,
    Stranger,       \* a server of another app
    KillMayStall,   \* may a process outlive destroyForcibly() by 3 seconds?
    Unlocked        \* do cleanUp and close run beside the other calls?

Models == DecisionModels \cup TextModels

ASSUME ModelAssumption == DecisionModels \cap TextModels = {} /\ None \notin Models
ASSUME ServerAssumption ==
    None \notin Servers /\ Stranger \notin Servers /\ Stranger # None
ASSUME SwitchAssumption == {KillMayStall, Unlocked} \subseteq BOOLEAN

VARIABLES
    process,        \* ReflexRuntime.process
    modelPath,      \* ReflexRuntime.modelPath
    decisionPath,   \* ReflexInferenceEngine.decisionPath
    chatPath,       \* the preference chat_model_path
    serves,         \* serves[s]: the model the living process s has, or None
    port,           \* who listens on port 8092
    text,           \* the state of the text engine
    textModel,      \* the model whose weights the text engine holds
    op, pc, phase, target, owned,   \* the call that holds the mutex
    uop, upc, uowned                \* cleanUp or close

runtimeVars == <<process, modelPath>>
engineVars == <<decisionPath, chatPath>>
systemVars == <<serves, port>>
textVars == <<text, textModel>>
lockedVars == <<op, pc, phase, target, owned>>
unlockedVars == <<uop, upc, uowned>>
vars == <<runtimeVars, engineVars, systemVars, textVars, lockedVars, unlockedVars>>

Ops == {"none", "loadDecision", "loadText", "prepare", "select", "prompt"}
Steps == {"idle", "read", "clear", "kill", "unload", "forget", "architecture", "adopt",
          "start", "bind", "spawn", "poll", "settle", "ask", "swap", "loadText",
          "textLoading", "prompt", "generate"}
\* Where stop() was called from: the call itself, start(), or start()'s catch.
Phases == {"call", "start", "catch"}
UnlockedSteps == {"idle", "read", "clear", "clearPath", "kill", "forget", "cleanText"}
TextStates == {"Initializing", "Initialized", "LoadingModel", "ModelReady", "Generating",
               "Error"}

Init ==
    /\ process = None /\ modelPath = None
    /\ decisionPath = None /\ chatPath \in TextModels \cup {None}
    /\ serves = [s \in Servers |-> None]
    /\ port \in {None, Stranger}
    /\ text = "Initializing" /\ textModel = None
    /\ op = "none" /\ pc = "idle" /\ phase = "call" /\ target = None /\ owned = None
    /\ uop = "none" /\ upc = "idle" /\ uowned = None

Alive == {s \in Servers : serves[s] # None}

-----------------------------------------------------------------------------
(* Processes, the port and the text engine.                                 *)

\* Process s ends; its listening socket closes with it.
Dies(s) ==
    /\ serves' = [serves EXCEPT ![s] = None]
    /\ port' = IF port = s THEN None ELSE port

\* A server ends by itself: it crashes, is killed by the system, or a pending
\* destroy() takes effect late.
ServerEnds ==
    /\ \E s \in Alive : Dies(s)
    /\ UNCHANGED <<runtimeVars, engineVars, textVars, lockedVars, unlockedVars>>

\* A server binds the port, or finds it taken and exits.
ServerListens ==
    /\ \E s \in Alive :
          \/ port = None /\ port' = s /\ UNCHANGED serves
          \/ port \notin {None, s} /\ Dies(s)
    /\ UNCHANGED <<runtimeVars, engineVars, textVars, lockedVars, unlockedVars>>

\* Another app's server comes or goes, at any step of any call.
StrangerMoves ==
    /\ \/ port = None /\ port' = Stranger
       \/ port = Stranger /\ port' = None
    /\ UNCHANGED <<runtimeVars, engineVars, serves, textVars, lockedVars, unlockedVars>>

TextEngineStarts ==
    /\ text = "Initializing"
    /\ text' = "Initialized"
    /\ UNCHANGED <<runtimeVars, engineVars, systemVars, textModel, lockedVars,
                   unlockedVars>>

\* textEngine.cleanUp(): the weights are freed.
TextCleanUp == text' = "Initialized" /\ textModel' = None

-----------------------------------------------------------------------------
(* Control of the call that holds the mutex.                                *)

\* The call goes on, or returns and leaves its locals behind.
GotoPhase(step, p) ==
    /\ pc' = step
    /\ phase' = IF step = "idle" THEN "call" ELSE p
    /\ op' = IF step = "idle" THEN "none" ELSE op
    /\ target' = IF step = "idle" THEN None ELSE target
    /\ owned' = None

Goto(step) == GotoPhase(step, phase)

InStart == phase # "call" \/ pc = "start"

\* The call fails or is cancelled.  loadModel sets decisionPath before it calls
\* start() and takes it back when start() throws; no other call touches it.
Abort ==
    /\ GotoPhase("idle", "call")
    /\ decisionPath' = IF op = "loadDecision" /\ InStart THEN None ELSE decisionPath

Begin(o, m, first) ==
    /\ pc = "idle" /\ (Unlocked \/ upc = "idle")
    /\ op' = o /\ target' = m /\ pc' = first /\ phase' = "call" /\ owned' = None
    /\ UNCHANGED <<runtimeVars, engineVars, systemVars, textVars, unlockedVars>>

BeginLoad ==
    \/ \E m \in DecisionModels : Begin("loadDecision", m, "read")
    \/ \E m \in TextModels : Begin("loadText", m, "read")

\* prepareRouting() and select() do something only for a decision model.
BeginRouting ==
    /\ decisionPath # None
    /\ \E o \in {"prepare", "select"} : Begin(o, decisionPath, "unload")

\* A prompt for a decision model needs a chosen text model.
BeginPrompt ==
    \/ decisionPath = None /\ Begin("prompt", None, "prompt")
    \/ decisionPath # None /\ chatPath # None /\ Begin("prompt", chatPath, "read")

\* chooseTextModel() writes the preference without the mutex.
ChooseTextModel ==
    /\ chatPath' \in TextModels
    /\ UNCHANGED <<runtimeVars, decisionPath, systemVars, textVars, lockedVars,
                   unlockedVars>>

-----------------------------------------------------------------------------
(* stop(), in the call that holds the mutex.                                *)

StopReadsTooLate ==
    /\ pc = "read"
    /\ owned' = None /\ pc' = "clear"
    /\ UNCHANGED <<op, phase, target, runtimeVars, engineVars, systemVars, textVars,
                   unlockedVars>>
StopReads ==
    /\ pc = "read"
    /\ owned' = process /\ pc' = "clear"
    /\ UNCHANGED <<op, phase, target, runtimeVars, engineVars, systemVars, textVars,
                   unlockedVars>>

StopKeepsPath ==
    /\ pc = "clear"
    /\ process' = None
    /\ pc' = "kill" /\ UNCHANGED <<op, phase, target, owned>>
    /\ UNCHANGED <<modelPath, engineVars, systemVars, textVars, unlockedVars>>
StopClears ==
    /\ pc = "clear"
    /\ process' = None /\ modelPath' = None
    /\ pc' = "kill" /\ UNCHANGED <<op, phase, target, owned>>
    /\ UNCHANGED <<engineVars, systemVars, textVars, unlockedVars>>

AfterStop ==
    CASE phase = "start" -> "bind"
      [] phase = "call" /\ op = "prompt" -> "swap"
      [] OTHER -> "unload"

\* destroy(), waitFor and destroyForcibly() have the intended effect on s, the
\* process stop() read, or there was none.
KilledAtOnce(s) == UNCHANGED systemVars
Killed(s) == IF s \in Alive THEN Dies(s) ELSE UNCHANGED systemVars

StopKills ==
    /\ pc = "kill"
    /\ Killed(owned)
    /\ IF phase = "catch" THEN Abort ELSE Goto(AfterStop) /\ UNCHANGED decisionPath
    /\ UNCHANGED <<runtimeVars, chatPath, textVars, unlockedVars>>

\* waitFor times out twice: stop() throws, and nothing refers to the process.
StopGivesUp ==
    /\ pc = "kill"
    /\ KillMayStall /\ owned \in Alive
    /\ Abort
    /\ UNCHANGED <<runtimeVars, chatPath, systemVars, textVars, unlockedVars>>

-----------------------------------------------------------------------------
(* loadModel(), after stop().                                               *)

AfterUnload ==
    CASE op \in {"loadDecision", "loadText"} -> "forget"
      [] op = "prompt" -> "loadText"
      [] OTHER -> "start"

\* unloadText(): waits until the text engine is at rest, then frees its model.
UnloadSkipsError ==
    /\ pc = "unload"
    /\ text \in {"Initialized", "ModelReady", "Error"}
    /\ IF text = "ModelReady" THEN TextCleanUp ELSE UNCHANGED textVars
    /\ Goto(AfterUnload)
    /\ UNCHANGED <<runtimeVars, engineVars, systemVars, unlockedVars>>
UnloadText ==
    /\ pc = "unload"
    /\ text \in {"Initialized", "ModelReady", "Error"}
    /\ IF text = "Initialized" THEN UNCHANGED textVars ELSE TextCleanUp
    /\ Goto(AfterUnload)
    /\ UNCHANGED <<runtimeVars, engineVars, systemVars, unlockedVars>>

\* withTimeout(30_000) expires, or the caller is cancelled.
UnloadWaitsForever ==
    /\ pc = "unload"
    /\ text \in {"Initialized", "ModelReady", "Error"}
    /\ Abort
    /\ UNCHANGED <<runtimeVars, chatPath, systemVars, textVars, unlockedVars>>
UnloadTimesOut ==
    /\ pc = "unload"
    /\ Abort
    /\ UNCHANGED <<runtimeVars, chatPath, systemVars, textVars, unlockedVars>>

Forget ==
    /\ pc = "forget"
    /\ decisionPath' = None
    /\ Goto("architecture")
    /\ UNCHANGED <<runtimeVars, chatPath, systemVars, textVars, unlockedVars>>

\* GgufArchitecture.read tells the kinds apart, or throws.
ReadArchitectureMixed ==
    /\ pc = "architecture"
    /\ \/ Goto("adopt") /\ UNCHANGED decisionPath
       \/ Abort
    /\ UNCHANGED <<runtimeVars, chatPath, systemVars, textVars, unlockedVars>>
ReadArchitecture ==
    /\ pc = "architecture"
    /\ \/ Goto(IF op = "loadDecision" THEN "adopt" ELSE "loadText")
          /\ UNCHANGED decisionPath
       \/ Abort
    /\ UNCHANGED <<runtimeVars, chatPath, systemVars, textVars, unlockedVars>>

\* Without a chat model, the model selected before becomes the chat model.
AdoptDecisionModel ==
    /\ pc = "adopt"
    /\ decisionPath' = target
    /\ IF chatPath = None THEN chatPath' \in TextModels \cup {None}
                          ELSE UNCHANGED chatPath
    /\ Goto("start")
    /\ UNCHANGED <<runtimeVars, systemVars, textVars, unlockedVars>>

-----------------------------------------------------------------------------
(* ReflexRuntime.start().                                                   *)

AfterStart == IF op = "select" THEN "ask" ELSE "idle"

AlreadyServing == modelPath = target /\ process \in Alive

StartReuses ==
    /\ pc = "start"
    /\ AlreadyServing
    /\ Goto(AfterStart)
    /\ UNCHANGED <<runtimeVars, engineVars, systemVars, textVars, unlockedVars>>

StartStops ==
    /\ pc = "start"
    /\ ~AlreadyServing
    /\ GotoPhase("read", "start")
    /\ UNCHANGED <<runtimeVars, engineVars, systemVars, textVars, unlockedVars>>

\* Binding the port shows that nobody listens on it; the socket is closed again.
BindChecks ==
    /\ pc = "bind"
    /\ port = None
    /\ Goto("spawn")
    /\ UNCHANGED <<runtimeVars, engineVars, systemVars, textVars, unlockedVars>>

\* The caller is cancelled, the port is taken, the executable is missing, or the
\* process cannot start.
StartFails ==
    /\ pc \in {"start", "bind", "spawn"}
    /\ Abort
    /\ UNCHANGED <<runtimeVars, chatPath, systemVars, textVars, unlockedVars>>

StartSpawns ==
    /\ pc = "spawn"
    /\ \E s \in Servers \ (Alive \cup {process, owned, uowned}) :
          /\ serves' = [serves EXCEPT ![s] = target]
          /\ process' = s
    /\ Goto("poll")
    /\ UNCHANGED <<modelPath, engineVars, port, textVars, unlockedVars>>

\* GET /health answers 200: somebody listens on the port.
PollSucceeds ==
    /\ pc = "poll"
    /\ process \in Alive
    /\ port # None
    /\ Goto("settle")
    /\ UNCHANGED <<runtimeVars, engineVars, systemVars, textVars, unlockedVars>>

\* The process is gone, 90 seconds passed, or the caller was cancelled.
PollFails ==
    /\ pc = "poll"
    /\ GotoPhase("read", "catch")
    /\ UNCHANGED <<runtimeVars, engineVars, systemVars, textVars, unlockedVars>>

\* A caller cancelled by now is told so although the server is up.
Settle ==
    /\ pc = "settle"
    /\ modelPath' = target
    /\ \/ GotoPhase(AfterStart, "call") /\ UNCHANGED decisionPath
       \/ Abort
    /\ UNCHANGED <<process, chatPath, systemVars, textVars, unlockedVars>>

\* client.select(prompt): an answer or an error, the mutex is released.
Ask ==
    /\ pc = "ask"
    /\ Goto("idle")
    /\ UNCHANGED <<runtimeVars, engineVars, systemVars, textVars, unlockedVars>>

-----------------------------------------------------------------------------
(* The text engine, used by loadModel() and sendUserPrompt().               *)

\* A resident text model is used as it is.
SwapToText ==
    /\ pc = "swap"
    /\ Goto(IF text = "ModelReady" THEN "prompt" ELSE "unload")
    /\ UNCHANGED <<runtimeVars, engineVars, systemVars, textVars, unlockedVars>>

LoadText ==
    /\ pc = "loadText"
    /\ \/ /\ text = "Initialized"
          /\ text' = "LoadingModel" /\ textModel' = target
          /\ Goto("textLoading") /\ UNCHANGED decisionPath
       \/ /\ text # "Initialized"
          /\ Abort /\ UNCHANGED textVars
    /\ UNCHANGED <<runtimeVars, chatPath, systemVars, unlockedVars>>

\* loadModel stores the text model it loaded as the chat model.
TextLoaded ==
    /\ pc = "textLoading"
    /\ text' = "ModelReady"
    /\ chatPath' = IF op = "loadText" THEN target ELSE chatPath
    /\ Goto(IF op = "prompt" THEN "prompt" ELSE "idle")
    /\ UNCHANGED <<runtimeVars, decisionPath, systemVars, textModel, unlockedVars>>

\* The load or setSystemPrompt() fails, or the caller was cancelled meanwhile.
TextLoadFails ==
    /\ pc = "textLoading"
    /\ \/ text' = "ModelReady" /\ UNCHANGED textModel
       \/ text' = "Error" /\ textModel' \in {textModel, None}
    /\ Abort
    /\ UNCHANGED <<runtimeVars, chatPath, systemVars, unlockedVars>>

SendPrompt ==
    /\ pc = "prompt"
    /\ IF text = "ModelReady" THEN text' = "Generating" /\ Goto("generate")
                              ELSE UNCHANGED text /\ Goto("idle")
    /\ UNCHANGED <<runtimeVars, engineVars, systemVars, textModel, unlockedVars>>

Generated ==
    /\ pc = "generate"
    /\ text' \in {"ModelReady", "Error"}
    /\ Goto("idle")
    /\ UNCHANGED <<runtimeVars, engineVars, systemVars, textModel, unlockedVars>>

-----------------------------------------------------------------------------
(* cleanUp() and close(), which take no mutex.                              *)

UGoto(step) ==
    /\ upc' = step
    /\ uop' = IF step = "idle" THEN "none" ELSE uop
    /\ uowned' = IF step \in {"clearPath", "kill"} THEN uowned ELSE None

BeginUnlocked ==
    /\ upc = "idle" /\ (Unlocked \/ pc = "idle")
    /\ uop' \in {"cleanUp", "close"} /\ upc' = "read" /\ uowned' = None
    /\ UNCHANGED <<runtimeVars, engineVars, systemVars, textVars, lockedVars>>

UnlockedReads ==
    /\ upc = "read"
    /\ uowned' = process /\ upc' = "clear"
    /\ UNCHANGED <<uop, runtimeVars, engineVars, systemVars, textVars, lockedVars>>

UnlockedClears ==
    /\ upc = "clear"
    /\ process' = None
    /\ UGoto("clearPath")
    /\ UNCHANGED <<modelPath, engineVars, systemVars, textVars, lockedVars>>

UnlockedClearsPath ==
    /\ upc = "clearPath"
    /\ modelPath' = None
    /\ UGoto("kill")
    /\ UNCHANGED <<process, engineVars, systemVars, textVars, lockedVars>>

UnlockedKills ==
    /\ upc = "kill"
    /\ Killed(uowned)
    /\ UGoto(IF uop = "cleanUp" THEN "forget" ELSE "idle")
    /\ UNCHANGED <<runtimeVars, engineVars, textVars, lockedVars>>

UnlockedGivesUp ==
    /\ upc = "kill"
    /\ KillMayStall /\ uowned \in Alive
    /\ UGoto("idle")
    /\ UNCHANGED <<runtimeVars, engineVars, systemVars, textVars, lockedVars>>

UnlockedForgets ==
    /\ upc = "forget"
    /\ decisionPath' = None
    /\ UGoto("cleanText")
    /\ UNCHANGED <<runtimeVars, chatPath, systemVars, textVars, lockedVars>>

UnlockedCleansText ==
    /\ upc = "cleanText"
    /\ IF text \in {"ModelReady", "Error"} THEN TextCleanUp ELSE UNCHANGED textVars
    /\ UGoto("idle")
    /\ UNCHANGED <<runtimeVars, engineVars, systemVars, lockedVars>>

-----------------------------------------------------------------------------
LockedStep ==
    \/ StopReads \/ StopClears \/ StopKills \/ StopGivesUp
    \/ UnloadText \/ UnloadTimesOut \/ Forget \/ ReadArchitecture
    \/ AdoptDecisionModel
    \/ StartReuses \/ StartStops \/ BindChecks \/ StartFails \/ StartSpawns
    \/ PollSucceeds \/ PollFails \/ Settle \/ Ask
    \/ SwapToText \/ LoadText \/ TextLoaded \/ TextLoadFails
    \/ SendPrompt \/ Generated

UnlockedStep ==
    \/ UnlockedReads \/ UnlockedClears \/ UnlockedClearsPath
    \/ UnlockedKills \/ UnlockedGivesUp \/ UnlockedForgets \/ UnlockedCleansText

SystemStep == ServerEnds \/ ServerListens \/ StrangerMoves \/ TextEngineStarts

Call == BeginLoad \/ BeginRouting \/ BeginPrompt \/ BeginUnlocked \/ ChooseTextModel

Next == LockedStep \/ UnlockedStep \/ SystemStep \/ Call

Spec == Init /\ [][Next]_vars

\* A call that has begun runs on: every wait in it has a timeout, but for the
\* native load and generation, which are assumed to return.  The text engine
\* need never come up, no server need ever answer, and nobody need call.
FairSpec == Spec /\ WF_vars(LockedStep) /\ WF_vars(UnlockedStep)

-----------------------------------------------------------------------------
(* Properties.                                                              *)

\* Every variable has the type of the field, process table or position it
\* stands for, and only a chosen decision model is served.
TypeOK ==
    /\ process \in Servers \cup {None}
    /\ modelPath \in DecisionModels \cup {None}
    /\ decisionPath \in DecisionModels \cup {None}
    /\ chatPath \in TextModels \cup {None}
    /\ serves \in [Servers -> DecisionModels \cup {None}]
    /\ port \in Servers \cup {None, Stranger}
    /\ text \in TextStates
    /\ textModel \in TextModels \cup {None}
    /\ op \in Ops /\ pc \in Steps /\ phase \in Phases
    /\ target \in Models \cup {None}
    /\ owned \in Servers \cup {None}
    /\ uop \in {"none", "cleanUp", "close"} /\ upc \in UnlockedSteps
    /\ uowned \in Servers \cup {None}

Quiet == pc = "idle" /\ upc = "idle"

\* "Never two loaded models" (ReflexInferenceEngine.kt:22): no server process
\* lives beside another one or beside the weights of a text model, whatever
\* fails, times out or is cancelled on the way from one model to the next.
NeverTwoLoadedModels ==
    /\ \A s, t \in Alive : s = t
    /\ Alive # {} => textModel = None

\* "One app-owned process" (ReflexRuntime.kt:15): when no call is under way, a
\* server that lives is the one ReflexRuntime refers to, so that the next
\* stop() reaches it.
NoOrphanServer == Quiet => Alive \subseteq {process}

\* Among the servers of this app, only the right one is asked: if one of them
\* listens on the port when select() sends its prompt, it is the process the
\* runtime owns and serves the model asked for.  No server left over from a
\* failed, cancelled or crashed call can answer in its place.
OwnServerAsked ==
    pc = "ask" /\ port \in Servers => port = process /\ serves[port] = target

\* "Never attaches to an unrelated server" (ReflexRuntime.kt:15) and "Refuse to
\* attach to a server owned by another app or shell session" (:29): whoever
\* answers /health, and so ends the wait for the server, is the process.  The
\* code does not ensure it: the probe socket of :30 is closed before the
\* process is spawned, and :43 takes any listener's answer for the process's.
AttachesToItsOwn == [][pc = "poll" /\ pc' = "settle" => port = process]_vars

\* The pair start() trusts when it returns early is right: if the runtime's
\* process lives and a model path is recorded, the process serves that model.
RuntimeCacheFresh ==
    process \in Alive /\ modelPath # None => serves[process] = modelPath

\* Memory holds one model at a time, and a swap passes through empty memory.
Slot == INSTANCE ModelSlot WITH
    loaded <- {<<s, serves[s]>> : s \in Alive}
              \cup (IF textModel = None THEN {} ELSE {<<"text", textModel>>})
SwapsThroughEmpty == Slot!Spec

\* A call gives the mutex back, even when the text engine never comes up, the
\* server never answers or cleanUp and close run beside it; and cleanUp and
\* close return.
CallsReturn == (pc # "idle" ~> pc = "idle") /\ (upc # "idle" ~> upc = "idle")
=============================================================================
