\* Two workers that may outlive their leases.
CONSTANTS
    Jobs = {1}
    Procs = {w1, w2}
    StagingProcs = {}
    WorkerIds <- MCOwnIds
    WorkerId <- MCOwnId
    Refused = {}
    Retriers = {r1}
    CanCrash = {}
    SlowWorkers = {w1, w2}
    DefaultMaxAttempts = 3
    RetryBound = 3
    ClaimBound = 6
SPECIFICATION Spec
PROPERTY SucceededIsFinal
CHECK_DEADLOCK FALSE
