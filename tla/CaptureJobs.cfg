CONSTANTS
    p0 = p0
    p1 = p1
    p2 = p2
    Sources = {s1}
    Retries = {k1, k2}
    Workers = {w1, w2}
    Payloads = {p0, p1, p2}
    Count <- MCCount
    MaxCandidates = 2
    MaxAttempts = 2
    None = None
SPECIFICATION Spec
INVARIANTS
    TypeOK
    OneWorkerPerJob
    DraftsComeFromOneRun
PROPERTIES
    OwnerDecisionsStand
    ImplementsContract
SYMMETRY Symmetry
CHECK_DEADLOCK FALSE
