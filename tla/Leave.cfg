SPECIFICATION LeaveSpec
CONSTANTS
    Employees = {e1}
    Workers = {w1}
    Quota = 2
    PAST_GRACE_DAYS = 1
    LastDay = 3
    MaxRequests = 2
    None = None
SYMMETRY Symmetry
INVARIANTS
    NoDayTwice
    ToldWhatStands
    BalanceCountsDays
CHECK_DEADLOCK FALSE
