CONSTANTS
    a1 = a1
    n1 = n1
    None = None
    Cases = {a1}
    Names = {n1}
    SameParty <- SameName
    PartyLists <- OneClient
    Actors = {"b1"}
    Local = FALSE
    Requests = {"q1"}
    MaxChecks = 2
SPECIFICATION ConflictSpec
CHECK_DEADLOCK FALSE
INVARIANTS
    EveryChangeIsChecked
