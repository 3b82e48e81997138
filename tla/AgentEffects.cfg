CONSTANTS
    a1 = a1
    Agents = {a1}
    Records = {c1}
    Requests = {r1, r2}
    Sessions = {t1, t2}
    Bodies = {b1, b2}
    References = {}
    AuthorOf <- MCAuthorOf
    AgentOf <- MCAgentOf
    None = None
    MaxRevision = 2
    MaxVersion = 1
SPECIFICATION Spec
INVARIANTS
    TypeOK
    EffectIsAtomic
    BrowserEffectIsAuthorised
    OneEffectPerRecord
    ConfirmedIsAnnouncedOnce
PROPERTIES
    EffectIsWhatWasShown
    ExecutedIsFinal
    ConfirmationIsReviewed
    ImplementsContract
SYMMETRY Symmetry
CONSTRAINT Themes
CHECK_DEADLOCK FALSE
