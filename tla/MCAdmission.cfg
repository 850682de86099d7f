SPECIFICATION Spec
CONSTANTS
    Agents = {a1, a2}
    Seeded = {a1}
    p1 = p1
    p2 = p2
    Profiles = {p1, p2}
    Matches <- OwnProfile
    PipelineProfile = p1
    Requests = {r1, r2}
    NoAgent = NoAgent
    NoOperator = NoOperator
    Tasks = 2
    MaxCalls = 1
    MaxEnrolls = 2
    MaxCerts = 2
    MaxChanges = 2
SYMMETRY Symmetry
INVARIANTS
    VerifiedBySample
    SessionsAreAdmitted
    SuspendedRunNothing
CHECK_DEADLOCK FALSE
