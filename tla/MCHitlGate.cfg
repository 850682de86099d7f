SPECIFICATION FairSpec
CONSTANTS
    Sessions = {s1, s2}
    Prefix <- MCPrefix
    Tools = {"send_email"}
    Operators = {o1}
    Modes <- MCModes
    NoRow = NoRow
    NoCall = NoCall
    Idle = Idle
    MaxSteps = 1
    MaxDecisions = 1
    MaxResets = 1
INVARIANTS
    TypeOK
    OutcomesWereDecided
    ListShowsTheSession
PROPERTIES
    SessionsFinish
CHECK_DEADLOCK FALSE
