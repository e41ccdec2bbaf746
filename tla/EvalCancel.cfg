\* Cancel during the last case of a model.
SPECIFICATION Spec
CONSTANTS
    m1 = m1
    m2 = m2
    m3 = m3
    Queue <- OneModel
    Stem <- OwnStem
    NCases = 2
    Absent = Absent
    Torn = Torn
INVARIANTS
    NoMisleadingReport
\* The queue ends, and a killed application stays dead.
CHECK_DEADLOCK FALSE
