SPECIFICATION Spec
CONSTANTS
    t1 = t1
    t2 = t2
    Tasks = {t1, t2}
    w1 = w1
    w2 = w2
    Workers = {w1, w2}
    NoTask = NoTask
    NoWorker = NoWorker
    TaskType <- BrowseThenReply
    MaxAttempts = 1
    FailureLimit = 2
    TotalLimit <- ShrinkingTotal
    CategoryLimit <- ShrinkingCategory
    MaxVersion = 2
    MaxDay = 2
    MaxClaims = 1
    MaxCrashes = 1
    LateLeases = TRUE
    LateDispatches = FALSE
SYMMETRY WorkerSymmetry
INVARIANTS OneOpenTask UnknownOutcomeHalts UsageIsExact
PROPERTIES NoActionWhileUnresolved
CHECK_DEADLOCK FALSE
