\* Standalone workers that finish within their lease, one of which may die; two
\* versions of a sheet of three rows and two PMFs.
SPECIFICATION WorkersReadersSpec
CONSTANTS
    Jobs = {1, 2}
    Procs = {w1, w2}
    StagingProcs = {}
    WorkerIds <- MCOwnIds
    WorkerId <- MCOwnId
    Refused = {}
    Retriers = {r1}
    CanCrash = {w1}
    SlowWorkers = {}
    DefaultMaxAttempts = 3
    RetryBound = 4
    ClaimBound = 6
    None = None
    Labels <- MCLabels
    Spelling <- MCSpelling
    Holidays = {2}
    LastDay = 18
    PLAZO_HABILES = 4
    POR_VENCER_UMBRAL = 1
    Sheets <- MCSheets
    Edits <- MCEdits
    Filters <- MCFilters
    Found <- MCFound
    Uploads <- MCUploads
    PageSize = 1
    FirstDay = 7
    MaxEdits = 2
    MaxEvents = 2
    MaxDay = 9
INVARIANTS
    OneWorkerPerJob
    BoundedFailures
    AttemptLedger
    ArtifactPerAttempt
    ViewsAgree
    ReadersAnswered
PROPERTIES
    LifecycleSpec
    TermsOnlyAge
CHECK_DEADLOCK FALSE
