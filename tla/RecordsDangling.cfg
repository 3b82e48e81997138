CONSTANTS
    Records = {c1, c2}
    Keys = {k1, k2}
    Agents = {a1}
    Owner = owner
    Types = {"expense", "refund"}
    Currencies = {"CNY"}
    Amounts = {m1, m2}
    Uris = {u1}
    Sessions = {t1, t2}
    None = None
    MaxRevision = 3
SPECIFICATION Spec
INVARIANT ReferencesHaveRecords
SYMMETRY Symmetry
CONSTRAINT Themes
CHECK_DEADLOCK FALSE
