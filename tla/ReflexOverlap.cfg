\* cleanUp() or close() beside a call that starts a server.
SPECIFICATION Spec
CONSTANTS
    d1 = d1
    t1 = t1
    s1 = s1
    s2 = s2
    DecisionModels = {d1}
    TextModels = {t1}
    Servers = {s1, s2}
    None = None
    Stranger = Stranger
    KillMayStall = FALSE
    Unlocked = TRUE
SYMMETRY Names
INVARIANTS
    NoOrphanServer
