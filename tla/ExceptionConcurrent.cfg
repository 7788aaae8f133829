SPECIFICATION Spec
CONSTANTS
    Ids = {e1}
    Workers = {w1, w2}
    Mailed = {e1}
    NoId = NoId
    NoTime = NoTime
    Deadlines = {0}
    PolicyHours = {1, 2}
    ExtendHours = {1, 2}
    Grace = 1
    MaxTime = 3
    MaxDeadline = 4
SYMMETRY Symmetry
INVARIANTS
    TypeOK
    DecidedOnlyAfterExplanation
    ExpiredOnlyAfterExpiresAt
    RequestsJustified
    AuditExplainsStatus
    PurgedLeavesNothing
    DecisionMatchesStatus
PROPERTIES
    ShownExpiredIsClosed
    DecisionsAreFinal
    PurgedOnlyPastGrace
    DeadlineMovesForward
    ImplementsLifecycle
