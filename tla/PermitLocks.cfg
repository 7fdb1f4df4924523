SPECIFICATION Spec
CONSTANTS
    a = a
    b = b
    Others <- TwoSessions
INVARIANTS KnownDeadlocksOnly RightsStandDuringCall
PROPERTIES EveryTransactionEnds
CHECK_DEADLOCK FALSE
