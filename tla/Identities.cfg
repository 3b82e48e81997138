CONSTANTS
    Ids = {1, 2, 3}
    Names = {n1, n2}
    Holders = {h1}
    Rules = {r1, r2}
    Items = {x1, x2}
    Sessions = {t1, t2}
    None = None
    MaxEvidence = 2
SPECIFICATION Spec
INVARIANTS
    FamilyHasActiveRoot
    OneRulePerName
    MergesGoOn
PROPERTIES
    FamiliesOnlyGrow
    SuggestionsAreDecidedOnce
CONSTRAINT Bounds
SYMMETRY Symmetry
CHECK_DEADLOCK FALSE
