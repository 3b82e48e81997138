CONSTANTS
    a1 = a1
    Agents = {a1}
    Records = {c1}
    Requests = {r1}
    Sessions = {t1, t2}
    Bodies = {b1}
    References = {}
    AuthorOf <- MCAuthorOf
    AgentOf <- MCAgentOf
    None = None
    MaxRevision = 1
    MaxVersion = 1
SPECIFICATION Spec
INVARIANTS
    EffectIsAuthorised
SYMMETRY Symmetry
CHECK_DEADLOCK FALSE
