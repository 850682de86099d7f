SPECIFICATION Spec
CONSTANTS
    Agents = {a1, a2}
    Seeded = {a1}
    Configs = {c1, c2}
    DefaultConfig = c1
    Requests = {r1, r2}
    NoRow = NoRow
    Idle = Idle
    NoSnap = NoSnap
    MaxChanges = 1
    MaxSelects = 0
    MaxRestarts = 0
INVARIANTS
    RevocationIsReversible
CHECK_DEADLOCK FALSE
