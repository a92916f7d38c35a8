SPECIFICATION GatewaySpec
CONSTANTS
    user = user
    key = key
    absent = absent
    row = row
    none = none
    r1 = r1
    r2 = r2
    r3 = r3
    Users = {user}
    Requests = {r1, r2, r3}
    SeedJobs = {}
    Owner <- MCOwner
    Plan <- MCPlan
    ConcurrencyLimits <- MCConcurrencyLimits
    InitialCredits <- MCInitialCredits
    SeedStatus <- NoSeed
    EnvSecrets <- Configured
    FaultKinds = {"database", "network", "crash"}
    MaxFaults = 1
    NoRequest = none
    Keys = {key}
    KeyChoices <- MCKeyChoices
    LongKeys = {}
    SeedKeys = {}
    SeedExpired = {}
    SeedRow = row
    SeedBody <- NoSeedBody
    Body <- MCBody
    NoKey = absent
    Overlap = {TRUE, FALSE}
    MaxExpiries = 1
INVARIANTS
    RetriesCostFaults
    AnswersMatchCharges
    RowHoldersGoOn
    EveryoneIsServedAtRest
PROPERTIES
    ImplementsIdempotency
SYMMETRY Twins
