----------------------------- MODULE MCEvalQueue -----------------------------
(***************************************************************************)
(* Instances of EvalQueue: two models whose artifacts have names of their  *)
(* own, and a queue whose third model has the file stem of the first.      *)
(***************************************************************************)
EXTENDS EvalQueue

CONSTANTS m1, m2, m3

TwoModels == <<m1, m2>>
OneModel == <<m1>>
ThreeModels == <<m1, m2, m3>>
OwnStem == [m \in {m1, m2} |-> m]
Namesakes == [m \in {m1, m2, m3} |-> IF m = m3 THEN m1 ELSE m]
=============================================================================
