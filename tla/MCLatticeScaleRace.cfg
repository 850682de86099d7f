SPECIFICATION LatticeSpec
CONSTANTS
    j1 = j1
    j2 = j2
    Jobs = {j1, j2}
    Hash <- MCHash
    DefaultWorkers = 2
    MaxWorkers = 2
    Sizes = {0, 3}
    NoRow = NoRow
    Free = Free
    MaxScales = 1
    MaxFaults = 0
    MaxRestarts = 0
INVARIANTS
    QueuedJobsAreHeld
CHECK_DEADLOCK FALSE
