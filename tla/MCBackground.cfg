\* A staging process that may die and its successor; three notes and one caller.
CONSTANTS
    Jobs = {1, 2}
    Procs = {s1, s2}
    StagingProcs = {s1, s2}
    WorkerIds <- MCSharedIds
    WorkerId <- MCSharedId
    Refused = {1}
    Retriers = {r1}
    CanCrash = {s1}
    SlowWorkers = {}
    DefaultMaxAttempts = 2
    RetryBound = 3
    ClaimBound = 6
    Notes = {n1, n2, n3}
    Callers = {c1}
    BadRows = {n2}
    MaxBuffered = 2
    MaxRefused = 2
    MaxMinute = 1
    w = w
    z = z
    y = y
    k = k
    o = o
    b = b
    v = v
    t1 = t1
    t2 = t2
    t3 = t3
    Docs = {w, z, y, k, o, b, v}
    Traits <- MCTraits
    Pinned = z
    Tasks = {t1, t2, t3}
    Casts <- MCCasts
    MaxFaults = 1
    MaxCrashes = 1
    MaxChanges = 1
    Unset = Unset
SPECIFICATION BackgroundSpec
INVARIANTS
    
    NotesAccounted
PROPERTIES
    RefusalsReachTable
    EveryJobSettles
    EveryTaskEnds
CHECK_DEADLOCK FALSE
