SPECIFICATION Spec
CONSTANTS
    u1 = u1
    u2 = u2
    op = op
    Users = {u1, u2}
    Retried <- RetriedOps
    NewId = NewId
    Imported <- ReportedRows
INVARIANTS BlockSeparates FriendshipIsMutual LastWordCounts BlockIsHonoured
PROPERTIES FriendshipNeedsConsent
