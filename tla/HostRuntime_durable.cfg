CONSTANTS
    q1 = q1
    q2 = q2
    d1 = d1
    d2 = d2
    None = None
    Requests = {q1, q2}
    Approval = {q1}
    Drivers = {d1}
    Nodes = {"step", "audit"}
    Slots = 1
    Limit = 1
    MaxDrives <- MostlyOne
    MaxFaults = 2
SPECIFICATION FairSpec
CHECK_DEADLOCK FALSE
INVARIANTS
    CalledOnce
    SuccessIsComplete
    ProjectionIsCurrent
    StateIsPurged
PROPERTIES
    EffectsKept
    DrivesEnd
