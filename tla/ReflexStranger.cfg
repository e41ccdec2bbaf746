\* Another app takes the port between the probe and the server's own bind.
SPECIFICATION Spec
CONSTANTS
    d1 = d1
    t1 = t1
    s1 = s1
    s2 = s2
    DecisionModels = {d1}
    TextModels = {t1}
    Servers = {s1, s2}
    None = None
    Stranger = Stranger
    KillMayStall = FALSE
    Unlocked = FALSE
SYMMETRY Names
PROPERTIES
    AttachesToItsOwn
