SPECIFICATION SheetSpec
CONSTANTS
    Employees = {e1}
    Workers = {}
    Quota = 2
    PAST_GRACE_DAYS = 1
    LastDay = 2
    MaxRequests = 1
    None = None
    DayLength = 6
    Cutoff = 1
    FullDay = 2
    Grace = 0
    Threshold = 1
    Shifts <- DayAndNight
    InTimes = {2}
    OutTimes = {4, 6}
    Decided = {1}
    Weekend = {2}
    SystemTypes = {}
    Reviewed = {}
    Festive = {1}
INVARIANTS
    
    AbsenceAgrees
CHECK_DEADLOCK FALSE
