SPECIFICATION Spec
CONSTANTS
    Dates = {d1, d2}
    Workers = {w1, w2}
    Null = Null
    Overtimes = {40}
    Minutes = {50}
    MinimumMinutes = 30
    Mailed = TRUE
SYMMETRY Symmetry
INVARIANTS
    TypeOK
    PaidMinutesAreAudited
    PendingIsUndecided
    OvertimeHasCheckout
