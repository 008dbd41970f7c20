CONSTANTS
    r1 = r1
    r2 = r2
    x1 = x1
    x2 = x2
    Runs = {r1}
    Background = {}
    Resumers = {x1, x2}
    Nodes = {"start", "retrieve", "facts", "evidence", "critic", "memory"}
    Workers = 1
    Limit = 2
    MaxEdits = 1
    MaxCrashes = 2
    MaxLost = 1
SPECIFICATION FairSpec
CHECK_DEADLOCK FALSE
INVARIANTS
    OneExecutor
    TurnIsTheAnswer
    EarlierEditIsNoticed
PROPERTIES
    RunsEnd
