CONSTANTS
    p0 = p0
    p1 = p1
    p2 = p2
    Sources = {s1}
    Retries = {k1, k2}
    Workers = {w1}
    Payloads = {p1}
    Count <- MCCount
    MaxCandidates = 2
    MaxAttempts = 1
    None = None
SPECIFICATION Spec
PROPERTIES
    RetryNeedsFailure

CHECK_DEADLOCK FALSE
