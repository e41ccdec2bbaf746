\* Two callers and a controller against the prefetch thread: what always holds, and what
\* must eventually happen.
CONSTANTS
    a = a  b = b  d = d
    fileA = fileA  fileB = fileB
    c1 = c1  c2 = c2
    Slices = {a, b, d}
    Offset <- MCOffset
    Length <- MCLength
    Files = {fileA, fileB}
    FileSize <- MCFileSize
    Budgets = {2, 3}
    QueueLimit = 2
    Clients = {c1, c2}
    Worker = Worker
    Nobody = Nobody
    NoSlice = NoSlice
    NoFile = NoFile
    MaxCalls = 5
SPECIFICATION FairSpec
INVARIANTS
    TypeOK
    IndexMatchesLru
    ResidentAccounting
    WithinBudget
    CachedFromOpenFile
    ClosedHoldsNothing
    ActiveMatchesWorker
    TelemetryCoherent
PROPERTIES
    DrainedMeansIdle
    LruSpec
    QueueDrains
    CloseReturns
\* The callers may stop calling.
CHECK_DEADLOCK FALSE
