SPECIFICATION Spec
CONSTANTS
    Workers = {w1, w2}
    NoOne = NoOne
    DayLength = 2
    Days = 3
    Rules <- ShortDays
    EditTimes = {2, 4}
    DefaultCutoff = 1
    Outcomes <- NoOutcomes
    AdminTimes = {}
    Reviewed = {}
    SystemTypes = {}
    Patience = 1
    MayFail = TRUE
SYMMETRY Symmetry
INVARIANTS
    AtMostOneOpenSession
    SessionsDisjoint
    RealOutBeforeCutoff
    StatusTellsTheTruth
    SecondOpenAfterClosing
