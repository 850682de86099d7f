SPECIFICATION FairSpec
CONSTANTS
    Tools <- MCTools
    Permission <- MCPermission
    Registry <- MCRegistry
    Unlimited = Unlimited
    NoTool = NoTool
    FileWriteTools = {}
    CodeExecTools <- MCShell
    WebTools <- MCWeb
    AllowFileWrite = FALSE
    AllowCodeExecution = FALSE
    DomainsDeclared = TRUE
    AutoApproveThreshold = 95
    AlignmentThreshold = 75
    MaxConsecutiveLow = 2
    PauseOnAmbiguous = TRUE
    Tasks = {k1, k2}
    PipeCapacity = 1
    MaxOverlap = 0
    MaxCalls = 3
    MaxChunks = 1
    MaxStarts = 1
    MaxEnds = 1
INVARIANTS
    OnlyGrantedToolsRun
    AccountsMatchLog
    EveryCompletionApproved
    ContextIsRecorded
PROPERTIES
    SuspensionIsFinal
    GateRefined
    CallsReturn
CHECK_DEADLOCK FALSE
