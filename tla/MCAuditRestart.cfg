SPECIFICATION AuditSpec
CONSTANTS
    Writers = {w1, w2}
    Payloads = {started, ended}
    NoSecret = NoSecret
    Blank = Blank
    MaxEntries = 2
    MaxDamage = 0
INVARIANTS
    UntouchedLogVerifies
CHECK_DEADLOCK FALSE
