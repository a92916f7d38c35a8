SPECIFICATION Spec
CONSTANTS
    basic = basic
    pro = pro
    r1 = r1
    r2 = r2
    r3 = r3
    seededActive = seededActive
    seededDone = seededDone
    none = none
    Users = {basic, pro}
    Requests = {r1, r2, r3}
    SeedJobs <- MCSeedJobs
    Owner <- MCOwner
    Plan <- MCPlan
    ConcurrencyLimits <- MCConcurrencyLimits
    InitialCredits <- MCInitialCredits
    SeedStatus <- MCSeedStatus
    EnvSecrets <- Either
    FaultKinds = {"database", "network", "crash"}
    MaxFaults = 2
    NoRequest = none
INVARIANTS
    TypeOK
    WithinConcurrencyLimit
    CreditsBalance
    RefundedJobsNeverRun
    ResponsesAreTruthful
    WebhookReflectsRow
    RefusedCallbacksChangeNothing
    NothingIsOwedAtRest
PROPERTIES
    TerminalRowsAreFinal
    ImplementsLedger
