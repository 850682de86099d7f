SPECIFICATION Spec
CONSTANTS
    Workers = {r1, r2}
    r1 = r1
    r2 = r2
    admin = admin
    guest = guest
    Emails = {admin, guest}
    Seeded = {admin}
    Groups = {"operator"}
    States = {"s1", "s2"}
    NoRole = NoRole
    NoState = NoState
    MaxAttempts = 2
    Lockout = 0
    Grace = 0
    MaxTime = 1
SYMMETRY Symmetry
INVARIANTS
    OvershootIsBounded
    LockedMeansReported
    StateSignsInOnce
CHECK_DEADLOCK FALSE
