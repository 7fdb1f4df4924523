SPECIFICATION FairSpec
CONSTANTS
    t1 = t1
    t2 = t2
    Tasks = {t1}
    w1 = w1
    w2 = w2
    Workers = {w1, w2}
    NoTask = NoTask
    NoWorker = NoWorker
    TaskType <- ReplyTask
    MaxAttempts = 2
    FailureLimit = 2
    TotalLimit <- ShrinkingTotal
    CategoryLimit <- ShrinkingCategory
    MaxVersion = 2
    MaxDay = 1
    MaxClaims = 4
    MaxCrashes = 1
    LateLeases = TRUE
    LateDispatches = TRUE
INVARIANTS AtMostOneInvocation OutcomeIsTruthful PermitStaysAuthorised
PROPERTIES ActsOnce DispatchSettles OpenTaskResolves
CHECK_DEADLOCK FALSE
