CONSTANTS
    f1 = f1
    f2 = f2
    w1 = w1
    w2 = w2
    bytes = bytes
    other = other
    Reconciler = Reconciler
    NoOne = NoOne
    Files = {f1, f2}
    Content <- DistinctContent
    Workers = {w1, w2}
    Concurrency = 2
    MaxFaults = 2
SPECIFICATION FairSpec
INVARIANTS
    OneWorkerAtATime
    AcceptedKeepsInputs
    OutcomeIsTrue
PROPERTIES
    EndIsFinal
    ManifestLeadsToEnd
