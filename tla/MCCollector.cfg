SPECIFICATION CollectorSpec
CONSTANTS
    t1 = t1
    t2 = t2
    s1 = s1
    s2 = s2
    Threads = {t1, t2}
    Sessions = {s1, s2}
    NoSession = NoSession
    Kinds = {"key_up"}
    BufferSize = 2
    AutoEmit = TRUE
    MaxEvents = 5
SYMMETRY Symmetry
INVARIANTS
    KeysAreCountedOnce
    SessionsAreFramed
    EventsLeaveOnce
CHECK_DEADLOCK FALSE
