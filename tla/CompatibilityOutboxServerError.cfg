SPECIFICATION Spec
CONSTANTS
    publish = publish
    delete = delete
    Ops = {publish, delete}
    ReplaySafe = {delete}
    Creates = {publish}
    Needs <- MCNeeds
    w1 = w1
    w2 = w2
    Workers = {w1, w2}
    NoOp = NoOp
    MaxAttempts = 2
    ServerErrors = TRUE
    Overrun = FALSE
    MaxCrashes = 0

INVARIANTS CreatedOnce
CHECK_DEADLOCK FALSE
