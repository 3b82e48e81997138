CONSTANTS
    Records = {c1, c2}
    Sources = {s1, s2}
    Evolving = {s1}
    s1 = s1
    s2 = s2
    k1 = k1
    k2 = k2
    Batches = {k1, k2}
    RowsOf <- MCRowsOf
    Reasons = {"anomaly"}
    Sessions = {t1, t2}
    None = None
    MaxRevision = 2
SPECIFICATION Spec
INVARIANTS
    CompletedBatchIsDecided
    ItemsAreTied
    OneFactPerSource
PROPERTIES
    EvidenceSurvives
CONSTRAINT Bounds
SYMMETRY Symmetry
CHECK_DEADLOCK FALSE
