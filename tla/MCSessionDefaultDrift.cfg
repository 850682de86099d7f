SPECIFICATION Spec
CONSTANTS
    Tools <- MCDriftTools
    Permission <- MCDriftPermission
    Registry <- MCDriftTools
    Unlimited = Unlimited
    NoTool = NoTool
    FileWriteTools = {}
    CodeExecTools <- MCShell
    WebTools <- MCWeb
    AllowFileWrite = FALSE
    AllowCodeExecution = FALSE
    DomainsDeclared = TRUE
    AutoApproveThreshold = 85
    AlignmentThreshold = 55
    MaxConsecutiveLow = 3
    PauseOnAmbiguous = TRUE
    Tasks = {k1, k2}
    PipeCapacity = 5
    MaxOverlap = 1
    MaxCalls = 3
    MaxChunks = 0
    MaxStarts = 0
    MaxEnds = 0
INVARIANTS
    DriftPauses
CHECK_DEADLOCK FALSE
