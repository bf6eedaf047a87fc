SPECIFICATION FairSpec
CONSTANTS
    Numbers = {1, 2, 3}
    Collected <- MCCollected
    Viewed = {1}
    Requests = {r1}
    Nightly = nightly
    Estados = {ea, eb}
    Pages <- MCPages
    None = None
    Day = 2
    RunAfter = 1
    RefreshAfter = 1
    RetryAfter = 0
    ManualEvery = 1
    SkipWithin = 1
    BadgeFor = 1
    Limit = 2
    StopAfter = 2
    MaxTime = 3
    MaxFaults = 1
INVARIANTS
    RunsAreTrue
    BadgeHasItsChange
PROPERTIES
    EstadoKept
    PassesGoOn
CHECK_DEADLOCK FALSE
