\* Every call, server crash, cancellation and timeout, with processes that die
\* when they are killed and cleanUp() only between the other calls.
SPECIFICATION Spec
CONSTANTS
    d1 = d1
    d2 = d2
    t1 = t1
    t2 = t2
    s1 = s1
    s2 = s2
    s3 = s3
    DecisionModels = {d1, d2}
    TextModels = {t1, t2}
    Servers = {s1, s2, s3}
    None = None
    Stranger = Stranger
    KillMayStall = FALSE
    Unlocked = FALSE
SYMMETRY Names
INVARIANTS
    TypeOK
    NeverTwoLoadedModels
    NoOrphanServer
    OwnServerAsked
PROPERTIES
    SwapsThroughEmpty
