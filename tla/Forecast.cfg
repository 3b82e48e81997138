CONSTANTS
    Records = {1, 2, 3, 4, 5}
    Bought <- MCBought
    Dues = {10, 11}
    PastCycles <- MCPastCycles
    Decisions = {"dismissed", "snoozed"}
    Sessions = {t1, t2}
    None = None
    FirstDay = 10
    LastDay = 11
    Horizon = 3
    MaxRuns = 2
    MaxRevision = 2
SPECIFICATION Spec
INVARIANTS
    RepeatIsNextInterval
    DecisionOutlivesRun
PROPERTIES
    DecisionReplacesSeen
CONSTRAINT Bounds
SYMMETRY Symmetry
CHECK_DEADLOCK FALSE
