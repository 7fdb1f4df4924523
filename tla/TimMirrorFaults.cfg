SPECIFICATION FairSpec
CONSTANTS
    m1 = m1
    Messages = {m1}
    w1 = w1
    w2 = w2
    Workers = {w1, w2}
    NoDelivery = NoDelivery
    MaxAttempts = 2
    MayFail = {"crash", "lost answer"}
INVARIANTS DeliveredIsTruthful WritesOwnClaim RevokedIsCompensated
PROPERTIES DeliverySettles
CHECK_DEADLOCK FALSE
