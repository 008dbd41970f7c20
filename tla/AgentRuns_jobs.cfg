CONSTANTS
    r1 = r1
    r2 = r2
    x1 = x1
    x2 = x2
    Runs = {r1, r2}
    Background = {r1, r2}
    Resumers = {}
    Nodes = {"start", "retrieve", "critic", "memory"}
    Workers = 1
    Limit = 2
    MaxEdits = 0
    MaxCrashes = 2
    MaxLost = 2
SPECIFICATION FairSpec
CHECK_DEADLOCK FALSE
INVARIANTS
    CompletedJobHasTurn
    AdmissionsBalance
PROPERTIES
    JobsEnd
