SPECIFICATION FairSpec
CONSTANTS
    publish = publish
    delete = delete
    Ops = {publish, delete}
    ReplaySafe = {delete}
    Creates = {publish}
    Needs <- MCNeeds
    w1 = w1
    w2 = w2
    Workers = {w1, w2}
    NoOp = NoOp
    MaxAttempts = 2
    ServerErrors = FALSE
    Overrun = FALSE
    MaxCrashes = 1
INVARIANTS CreatedOnce
PROPERTIES RowSettles
CHECK_DEADLOCK FALSE
