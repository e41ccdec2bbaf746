\* A timeout while a model is loaded or prepared.
SPECIFICATION Spec
CONSTANTS
    m1 = m1
    m2 = m2
    m3 = m3
    Queue <- TwoModels
    Stem <- OwnStem
    NCases = 1
    Absent = Absent
    Torn = Torn
INVARIANTS
    OnlyUserCancels
\* The queue ends, and a killed application stays dead.
CHECK_DEADLOCK FALSE
