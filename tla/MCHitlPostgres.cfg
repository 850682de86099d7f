SPECIFICATION Spec
CONSTANTS
    Sessions = {s1}
    Prefix <- MCPrefix
    Tools = {"send_email"}
    Operators = {o1}
    Modes <- MCScaledOnly
    NoRow = NoRow
    NoCall = NoCall
    Idle = Idle
    MaxSteps = 1
    MaxDecisions = 1
    MaxResets = 0
PROPERTIES
    DecisionTakesEffect
CHECK_DEADLOCK FALSE
