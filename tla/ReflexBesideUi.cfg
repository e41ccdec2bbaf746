\* cleanUp() and close() at any step of the other calls, and processes that
\* survive being killed: what still holds, and that every call returns although
\* nothing it waits for need happen.
SPECIFICATION FairSpec
CONSTANTS
    d1 = d1
    d2 = d2
    t1 = t1
    s1 = s1
    s2 = s2
    DecisionModels = {d1, d2}
    TextModels = {t1}
    Servers = {s1, s2}
    None = None
    Stranger = Stranger
    KillMayStall = TRUE
    Unlocked = TRUE
INVARIANTS
    RuntimeCacheFresh
PROPERTIES
    CallsReturn
