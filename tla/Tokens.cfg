SPECIFICATION TokensSpec
CONSTANTS
    Users = {u1}
    Workers = {w1}
    RefreshLives = {1}
    LinkLife = 2
    Retention = 1
    MaxTime = 2
    MaxTokens = 3
    MaxLinks = 2
    None = None
SYMMETRY Symmetry
INVARIANTS
    OneTokenPerSession
    LastLinkWorks
CHECK_DEADLOCK FALSE
