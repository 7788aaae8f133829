SPECIFICATION FairSpec
CONSTANTS
    e1 = e1
    e2 = e2
    Employees = {e1, e2}
    ShiftOf <- DayAndLate
    DayLength = 6
    Cutoff = 1
    Window = 3
    Poll = 1
    Slack = 1
    MaxTime = 7
    MaxStops = 2
INVARIANT OneReminderALife
PROPERTY DayShiftReminded
CHECK_DEADLOCK FALSE
