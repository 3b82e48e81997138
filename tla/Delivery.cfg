CONSTANTS
    p1 = p1
    p2 = p2
    Sources = {s1}
    Retries = {k1}
    Workers = {w1, w2}
    Payloads = {p1, p2}
    Count <- MCCount
    MaxCandidates = 1
    MaxAttempts = 1
    None = None
SPECIFICATION DeliverySpec
INVARIANT DeliveredIsReferenced
PROPERTIES
    SourcesSettle
    AssetsAreReferenced
CHECK_DEADLOCK FALSE
