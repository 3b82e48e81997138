CONSTANTS
    Ids = {1, 2}
    Names = {n1}
    Holders = {h1}
    Rules = {r1, r2}
    Items = {x1, x2}
    Sessions = {t1, t2}
    None = None
    MaxEvidence = 2
SPECIFICATION Spec
INVARIANT EvidenceIsDistinct
SYMMETRY Symmetry
CHECK_DEADLOCK FALSE
