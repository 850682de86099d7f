SPECIFICATION Spec
CONSTANTS
    Requests = {r1, r2}
    r1 = r1
    r2 = r2
    seed = seed
    p1 = p1
    p2 = p2
    d1 = d1
    c1 = c1
    c2 = c2
    Seeds = {seed}
    Fresh = {p1, p2}
    SeedRow <- ShellRow
    Mandates <- Lists
    Patches <- NewRules
    Calls <- ShellCalls
    Docs = {d1}
    Uploads <- Documents
    CardIds = {c1, c2}
    NoRow = NoRow
    NoCard = NoCard
    MaxChanges = 3
    MaxBackups = 1
SYMMETRY Symmetry
INVARIANTS
    BackupsAreOfOneMoment
CHECK_DEADLOCK FALSE
