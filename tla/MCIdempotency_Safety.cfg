SPECIFICATION Spec
CONSTANTS
    key = key
    long = long
    seeded = seeded
    stale = stale
    absent = absent
    r1 = r1
    r2 = r2
    r3 = r3
    r4 = r4
    r5 = r5
    r6 = r6
    none = none
    row = row
    Keys = {key, long, seeded, stale}
    Requests = {r1, r2, r3, r4, r5, r6}
    KeyChoices <- MCKeyChoices
    LongKeys = {long}
    SeedKeys = {seeded}
    SeedExpired = {stale}
    SeedRow = row
    SeedBody <- MCSeedBody
    Body <- MCBody
    Refusals = {400, 429}
    NoKey = absent
    NoRequest = none
    Overlap = {TRUE, FALSE}
    MaxFaults = 1
    MaxExpiries = 1
INVARIANTS
    TypeOK
    RepliesAreFaithful
    ReplaysAgree
    SequentialClientsAreSafe
    FewJobsAreTold
PROPERTIES
    ImplementsService
SYMMETRY Twins
