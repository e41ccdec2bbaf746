SPECIFICATION RunsSpec
CONSTANTS
    a1 = a1  a2 = a2  a3 = a3  a4 = a4  b1 = b1
    t1 = t1  t2 = t2  t3 = t3  t4 = t4
    k1 = k1  k2 = k2  k3 = k3  k4 = k4
    c1 = c1  c2 = c2  c3 = c3
    tt = tt  kt = kt  ct = ct
    Query = {a1, a2, a3, a4, b1}
    GeneralRow = {t1, t2, t3, t4, k1, k2, k3, k4, c1, c2, c3}
    TestRow = {tt, kt, ct}
    SourceOf <- MCSourceOf
    LabelOf <- MCLabelOf
    StateOf <- MCStateOf
    TextOf <- MCTextOf
    Dev = {a1}
    Exposed <- MCExposed
    NTrain = 2  NCalibration = 1  NTest = 1
    Weight <- MCWeight
    PerClass <- MCPerClass
    ValSizes = {2, 3}
    PhoneWeights <- MCPhoneWeights
    GeneralWeights <- MCWeights
    SmokeItems = 4
    NoFile = NoFile  Torn = Torn  None = None
    MaxRuns = 3
INVARIANT IsolationAlarmIsTrue
SYMMETRY Interchangeable
CHECK_DEADLOCK FALSE
