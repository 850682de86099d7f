SPECIFICATION AuditSpec
CONSTANTS
    Writers = {w1, w2}
    Payloads = {started, ended}
    NoSecret = NoSecret
    Blank = Blank
    MaxEntries = 3
    MaxDamage = 2
INVARIANTS
    AuthenticLogIsClean
    CleanPrefixIsAuthentic
    VerifiedLineWasWritten
CHECK_DEADLOCK FALSE
