CONSTANTS
    c1 = c1
    c2 = c2
    r1 = r1
    r2 = r2
    r3 = r3
    t1 = t1
    u1 = u1
    None = None
    Cases = {c1, c2}
    Reports = {r1, r3}
    CaseOf <- TwoCases
    Templates = {}
    Users = {u1}
    Exports = {"x1"}
    Previews = {"p1"}
    MaxEdits = 0
    MaxStates = 3
    MaxAttempts = 2
SPECIFICATION FairSpec
CHECK_DEADLOCK FALSE
INVARIANTS
PROPERTIES
    WriterLockReleased
    ExportsEnd
