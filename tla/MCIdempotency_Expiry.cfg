SPECIFICATION Spec
CONSTANTS
    key = key
    long = long
    seeded = seeded
    stale = stale
    absent = absent
    r1 = r1
    r2 = r2
    r3 = r3
    r4 = r4
    r5 = r5
    r6 = r6
    none = none
    row = row
    Keys = {key}
    Requests = {r1, r2}
    KeyChoices <- PairKeys
    LongKeys = {}
    SeedKeys = {}
    SeedExpired = {}
    SeedRow = row
    SeedBody <- MCSeedBody
    Body <- SameBody
    Refusals = {400}
    NoKey = absent
    NoRequest = none
    Overlap = {FALSE}
    MaxFaults = 0
    MaxExpiries = 1
INVARIANTS
    AcceptedAreStored
