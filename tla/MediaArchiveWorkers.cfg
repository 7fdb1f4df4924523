SPECIFICATION FairSpec
CONSTANTS
    f1 = f1
    w1 = w1
    w2 = w2
    Files = {f1}
    Workers = {w1, w2}
    NoFile = NoFile
    MaxAttempts = 2
    MaxExtra = 2
    Limit = 1
    MaxFaults = 1
INVARIANTS LedgerIsExact CompletedHasCopy OneListedCopy
PROPERTIES CompletedIsFinal RowSettles
CHECK_DEADLOCK FALSE
