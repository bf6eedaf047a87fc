\* One staging process; job 1 is refused by the guard.
CONSTANTS
    Jobs = {1, 2}
    Procs = {s1}
    StagingProcs = {s1}
    WorkerIds <- MCSharedIds
    WorkerId <- MCSharedId
    Refused = {1}
    Retriers = {r1}
    CanCrash = {}
    SlowWorkers = {}
    DefaultMaxAttempts = 3
    RetryBound = 4
    ClaimBound = 6
SPECIFICATION Spec
INVARIANT StagingNeverRunsRefused
CHECK_DEADLOCK FALSE
