------------------------------ MODULE ModelSlot ------------------------------
(***************************************************************************)
(* What sequential swapping promises: memory holds at most one model, and  *)
(* one model makes room before the next one is loaded                      *)
(* (ReflexInferenceEngine.kt:22).                                          *)
(***************************************************************************)
VARIABLE loaded     \* the models in memory, each with its holder

Init == loaded = {}

Load ==
    /\ loaded = {}
    /\ \E m \in loaded' : loaded' = {m}

Unload ==
    /\ loaded # {}
    /\ loaded' = {}

Next == Load \/ Unload

Spec == Init /\ [][Next]_loaded
=============================================================================
