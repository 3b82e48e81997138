CONSTANTS
    p0 = p0
    p1 = p1
    p2 = p2
    Sources = {s1}
    Retries = {}
    Workers = {w1}
    Payloads = {p1, p2}
    Count <- MCCount
    MaxCandidates = 2
    MaxAttempts = 1
    None = None
SPECIFICATION Spec
INVARIANTS
    AllCandidatesOrNone

CHECK_DEADLOCK FALSE
