SPECIFICATION ToolsSpec
CONSTANTS
    NCases = 3
    Categories = {"storage", "answer", "health", "battery"}
    Category <- MCCategory
    Expected <- MCExpected
    Relevant <- MCRelevant
    Routes = {"answer", "get_storage_info", "phone_health_check"}
    Temps = {38, 39}
    Statuses = {1, 2}
    None = None  NoFile = NoFile  Torn = Torn
    MaxWait = 2
    MaxRuns = 2
    e1 = e1  e2 = e2  e3 = e3  e4 = e4
    Expert = {e1, e2, e3, e4}
    Capacities = {0, 1, 2, 3}
    Windows = {1, 2}
    Width = 2
    MaxTokens = 3
    Files <- MCFiles
    NExpert = 3
INVARIANTS ReportHonest LosesOneCase MeasuredCool AnalysisAgrees
           SimTypeOK MostRecentHeld LargerHoldsSmaller RecallBounded SlicesTile
PROPERTY RunEnds
CHECK_DEADLOCK FALSE
