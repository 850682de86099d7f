SPECIFICATION Spec
CONSTANTS
    Requests = {r1, r2, r3}
    threat = threat
    travel = travel
    malware = malware
    other = other
    ana = ana
    bob = bob
    h1 = h1
    NoHost = NoHost
    Events = {threat, travel, malware, other}
    ActorOf <- Actor
    TimeOf <- Time
    KindsOf <- Kind
    DeviceOf <- Device
    SourceOf <- Source
    Sources = {"sonar", "okta", "falcon"}
    Hosts = {h1}
    CorrelateWindow = 1
    RelatedLimit = 2
    Rules <- SonarRules
    Plans <- EveryPlan
    Configured = {"crowdstrike", "webhook"}
    RequireLive = TRUE
    None = None
    MaxCases = 2
SYMMETRY Symmetry
INVARIANTS
    TypeOK
    NoMissedCorrelation
    OneCasePerStory
    DoneMeansDone
    CasesStayWithTheirActor
CHECK_DEADLOCK FALSE
