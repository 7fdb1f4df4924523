SPECIFICATION Spec
CONSTANTS
    s1 = s1
    s2 = s2
    u1 = u1
    u2 = u2
    p1 = p1
    p2 = p2
    r1 = r1
    r2 = r2
    Sids = {s1, s2}
    Phones = {p1, p2}
    Uids = {u1, u2}
    NoUid = NoUid
    Invites = {code}
    NoInvite = NoInvite
    MaxUses <- OneUse
    Requests = {r1, r2}
    NoSid = NoSid
SYMMETRY Symmetries
INVARIANTS InviteUsesAreExact RevocationIsComplete CancelledStaysOut
CHECK_DEADLOCK FALSE
