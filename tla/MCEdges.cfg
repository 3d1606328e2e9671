CONSTANTS
    Parts = {"delivery", "targets", "rollout", "cursor", "observer", "files", "planner"}
    Cap = 2
    Heights = {1, 2}
    MaxKeys = 2
    MaxHuman = 3
    MaxPid = 3
    Exes = {"claude", "pi"}
    Far = 2
    Grace = 0
    MaxFirst = 1
    MaxSpawn = 2
    MaxTime = 1
    MaxWatchers = 2
    MaxUpsets = 1
    Turns = {"t1", "t2"}
    TailLen = 4
    MaxRecords = 5
    MaxRead = 2
    MaxRecord = 2
    MaxBatch = 1
    MaxIds = 4
    MaxSize = 3
    MaxCells = 9
    MaxLogs = 2
    MaxRows = 3
    Bottom = 2
    MaxChanges = 1
    MaxPens = 4
    MaxKept = 2
    MaxLines = 4
    MaxJobs = 2
    Callers = {1, 2, 3}
    Events = {"e1", "e2"}
    MaxPerEvent = 1
    MaxPerDay = 2
    MaxConcurrent = 1
    SecondOpinion = TRUE
    AllowUnknown = FALSE
SPECIFICATION EdgesSpec
INVARIANTS
    EdgesTypeOK
    NoBlindInput
    OutcomeIsTrue
    SeenIsOfTarget
    TerminatedIsGone
    ReexecKeepsAgent
    OneWatcherPerProcess
    CapacityIsLatest
    RecordsInOrder
    ResumeIsBacked
    MenuKeysSelectWait
    MarkerIsFound
    RewriteKeeps
    CallsAreBudgeted
CHECK_DEADLOCK FALSE
