SPECIFICATION FairPoolSpec
CONSTANTS
    basic = basic
    pro = pro
    r1 = r1
    r2 = r2
    r3 = r3
    seededActive = seededActive
    seededDone = seededDone
    none = none
    Users = {basic, pro}
    Requests = {r1, r2, r3}
    SeedJobs <- MCSeedJobs
    Owner <- MCOwner
    Plan <- MCPlan
    ConcurrencyLimits <- MCConcurrencyLimits
    InitialCredits <- MCInitialCredits
    SeedStatus <- MCSeedStatus
    EnvSecrets <- Configured
    FaultKinds = {"database", "network", "crash"}
    MaxFaults = 1
    NoRequest = none
    PoolSize = 2
INVARIANTS
    PoolTypeOK
    ConnectionsAreOwned
    PoolNeverWedges
PROPERTIES
    RequestsTerminate
    JobsSettle
    FailedDispatchesAreUndone
    LifecycleStaysFair
