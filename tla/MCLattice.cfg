SPECIFICATION LatticeFairSpec
CONSTANTS
    j1 = j1
    j2 = j2
    Jobs = {j1, j2}
    Hash <- MCHash
    DefaultWorkers = 2
    MaxWorkers = 2
    Sizes = {0, 3}
    NoRow = NoRow
    Free = Free
    MaxScales = 1
    MaxFaults = 1
    MaxRestarts = 1
INVARIANTS
    LatticeTypeOK
    WorkerRowsAreTrue
    StatusMissesNoJob
PROPERTIES
    AcceptedJobsFinish
CHECK_DEADLOCK FALSE
