SPECIFICATION Spec
CONSTANTS
    publish = publish
    delete = delete
    Ops = {publish, delete}
    ReplaySafe = {delete}
    Creates = {publish}
    Needs <- MCNeeds
    w1 = w1
    w2 = w2
    Workers = {w1, w2}
    NoOp = NoOp
    MaxAttempts = 2
    ServerErrors = TRUE
    Overrun = TRUE
    MaxCrashes = 1
SYMMETRY WorkerSymmetry
INVARIANTS CompletedIsTruthful UsesRealIds
PROPERTIES ClosedStaysClosed
CHECK_DEADLOCK FALSE
