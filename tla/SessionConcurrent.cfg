SPECIFICATION Spec
CONSTANTS
    Workers = {w1, w2}
    NoOne = NoOne
    DayLength = 3
    Days = 2
    Rules <- OneRule
    EditTimes = {}
    DefaultCutoff = 1
    Outcomes <- NoOutcomes
    AdminTimes = {5}
    Reviewed = {0}
    SystemTypes = {"MISSED_CHECKOUT"}
    Patience = 1
    MayFail = FALSE
SYMMETRY Symmetry
INVARIANTS
    OutAfterIn
    AutoClosedIsReported
