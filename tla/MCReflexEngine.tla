--------------------------- MODULE MCReflexEngine ---------------------------
(***************************************************************************)
(* Instances of ReflexEngine.  Model and server names are interchangeable. *)
(***************************************************************************)
EXTENDS ReflexEngine, TLC

Names == Permutations(DecisionModels) \cup Permutations(TextModels)
             \cup Permutations(Servers)
=============================================================================
