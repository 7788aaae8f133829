SPECIFICATION FairSpec
CONSTANTS
    Workers = {w1, w2}
    NoOne = NoOne
    DayLength = 3
    Days = 2
    Rules <- OneRule
    EditTimes = {}
    DefaultCutoff = 1
    Outcomes <- RangeOutcomes
    AdminTimes = {5}
    Reviewed = {}
    SystemTypes = {}
    Patience = 1
    MayFail = FALSE
PROPERTIES
    SuspectIsFlagged
    PrecedenceKept
