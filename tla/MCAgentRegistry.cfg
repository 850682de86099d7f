SPECIFICATION Spec
CONSTANTS
    Agents = {a1, a2}
    Seeded = {a1}
    Configs = {c1, c2}
    DefaultConfig = c1
    Requests = {r1, r2}
    NoRow = NoRow
    Idle = Idle
    NoSnap = NoSnap
    MaxChanges = 3
    MaxSelects = 1
    MaxRestarts = 1
INVARIANTS
    SnapshotsWereStates
    RowIsInHistory
PROPERTIES
    RestoreReactivates
CHECK_DEADLOCK FALSE
