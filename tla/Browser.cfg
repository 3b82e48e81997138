CONSTANTS
    Owners = {o1, o2}
    Logins = {x1, x2}
    Codes = {c1, c2}
    Handles = {h1, h2}
    Callbacks = {q1, q2}
    Tabs = {t1, t2}
    Drafts = {1, 2, 3}
    QueueLimit = 2
    None = None
SPECIFICATION Spec
INVARIANTS
    TypeOK
    OneSessionPerLogin
PROPERTIES
    QueuedDraftSurvives
CONSTRAINT Bounds
SYMMETRY Symmetry
CHECK_DEADLOCK FALSE
