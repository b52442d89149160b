\* Pairing, updates and retention with two transactions at a time; the limiter
\* over four windows.  Both may run out of things to do.
SPECIFICATION FrontDoorSpec
CONSTANTS
    h1 = h1
    h2 = h2
    a1 = a1
    u1 = u1
    u2 = u2
    u3 = u3
    Humans <- TwoHumans
    Codes = {c1, c2}
    Accounts <- OneAccount
    Installations = {i1, i2}
    Transactions = {t1, t2}
    Updates <- ThreeUpdates
    Inboxes <- TwoInboxes
    None = None
    Absent = Absent
    Requests = {r1, r2}
    Limit = 2
    Seconds = 2
    Unused = 5
    MaxClock = 6
    MaxSteps = 1
SYMMETRY Symmetry
INVARIANTS
    Rightful
    AppliedOnce
    NoCircularWait
    WithinQuota
CHECK_DEADLOCK FALSE
