SPECIFICATION Spec
CONSTANTS
    Dates = {d1}
    Workers = {w1}
    Null = Null
    Overtimes = {40}
    Minutes = {50}
    MinimumMinutes = 30
    Mailed = FALSE
INVARIANT AskedOvertimeIsRecorded
