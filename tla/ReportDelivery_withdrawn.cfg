CONSTANTS
    c1 = c1
    c2 = c2
    r1 = r1
    r2 = r2
    r3 = r3
    t1 = t1
    u1 = u1
    None = None
    Cases = {c1}
    Reports = {r1}
    CaseOf <- SameCase
    Templates = {}
    Users = {u1}
    Exports = {"x1"}
    Previews = {}
    MaxEdits = 1
    MaxStates = 3
    MaxAttempts = 1
SPECIFICATION Spec
CHECK_DEADLOCK FALSE
INVARIANTS
    WithdrawnOperatorIsRefused
