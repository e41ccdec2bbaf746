\* Three models, the third a namesake of the first, two cases each; Cancel, failures,
\* heat and death at any step.
SPECIFICATION FairSpec
CONSTANTS
    m1 = m1
    m2 = m2
    m3 = m3
    Queue <- ThreeModels
    Stem <- Namesakes
    NCases = 2
    Absent = Absent
    Torn = Torn
INVARIANTS
    TypeOK
    ManifestHonest
    TableFollowsReport
PROPERTIES
    EndedManifestIsFinal
    OnlyNamesakesOverwrite
    CancelEndsQueue
    CoolQueueEnds
\* The queue ends, and a killed application stays dead.
CHECK_DEADLOCK FALSE
