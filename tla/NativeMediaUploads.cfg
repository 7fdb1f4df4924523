SPECIFICATION Spec
CONSTANTS
    u1 = u1
    u2 = u2
    a1 = a1
    alice = alice
    bob = bob
    r1 = r1
    r2 = r2
    Uploads = {u1, u2}
    Archives = {a1}
    Users = {alice, bob}
    System = System
    Owner <- MCOwner
    Limit <- MCLimit
    Slots = {avatar}
    SlotOwner <- MCSlotOwner
    Requests = {r1, r2}
    NoUpload = NoUpload
    MaxFaults = 1
SYMMETRY RequestSymmetry
INVARIANTS LedgerIsExact NoObjectIsForgotten UsedHasObject
PROPERTIES ShownOnce ReservationsFit
CHECK_DEADLOCK FALSE
