SPECIFICATION SheetSpec
CONSTANTS
    Employees = {e1}
    Workers = {}
    Quota = 2
    PAST_GRACE_DAYS = 1
    LastDay = 2
    MaxRequests = 0
    None = None
    DayLength = 6
    Cutoff = 1
    FullDay = 2
    Grace = 0
    Threshold = 1
    Shifts <- DayAndNight
    InTimes = {2, 5}
    OutTimes = {4, 6}
    Decided = {1}
    Weekend = {}
    SystemTypes = {"MISSED_CHECKOUT", "AUTO_CLOSED"}
    Reviewed = {1}
    Festive = {}
INVARIANTS
    MinutesAreSplit
    WorkedAgrees
    InventedIsPending
CHECK_DEADLOCK FALSE
