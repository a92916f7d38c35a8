SPECIFICATION FairSpec
CONSTANTS
    basic = basic
    pro = pro
    r1 = r1
    r2 = r2
    r3 = r3
    seededActive = seededActive
    seededDone = seededDone
    none = none
    Users = {basic, pro}
    Requests = {r1, r2}
    SeedJobs <- MCSeedJobs
    Owner <- PairOwner
    Plan <- MCPlan
    ConcurrencyLimits <- MCConcurrencyLimits
    InitialCredits <- MCInitialCredits
    SeedStatus <- MCSeedStatus
    EnvSecrets <- NotConfigured
    FaultKinds = {"database", "network", "crash"}
    MaxFaults = 0
    NoRequest = none
PROPERTIES
    JobsSettle
