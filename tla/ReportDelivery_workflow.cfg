CONSTANTS
    c1 = c1
    c2 = c2
    r1 = r1
    r2 = r2
    r3 = r3
    t1 = t1
    u1 = u1
    None = None
    Cases = {c1}
    Reports = {r1, r2}
    CaseOf <- SameCase
    Templates = {t1}
    Users = {u1}
    Exports = {"x1"}
    Previews = {}
    MaxEdits = 1
    MaxStates = 3
    MaxAttempts = 2
SPECIFICATION Spec
CHECK_DEADLOCK FALSE
SYMMETRY ReportSymmetry
INVARIANTS
    OneApprovedPerCase
    VersionIsOneSnapshot
    FrozenRowsHaveFiles
    ReviewBoundToFrozenBody
    DeliveryMatchesLiveCase
    DeliveryIsLatestApproval
PROPERTIES
    ApprovalIsFinal
