CONSTANTS
    f1 = f1
    f2 = f2
    w1 = w1
    w2 = w2
    bytes = bytes
    other = other
    Reconciler = Reconciler
    NoOne = NoOne
    Files = {f1}
    Content <- SingleContent
    Workers = {w1}
    Concurrency = 2
    MaxFaults = 0
SPECIFICATION Spec
INVARIANTS
    WorkerKeepsInputs
