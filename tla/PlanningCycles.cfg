CONSTANTS
    Commitments = {m1}
    Intents = {i1}
    Cycles = {y1}
    Budgets = {b1, b2}
    Months = {o1, o2}
    Records = {c1, c2}
    Keys = {k1}
    Sessions = {t1, t2}
    None = None
    Last = 2
    Lead = 1
    MaxRevision = 4
SPECIFICATION Spec
PROPERTY CycleEditsCount
CONSTRAINT Bounds
SYMMETRY Symmetry
CHECK_DEADLOCK FALSE
