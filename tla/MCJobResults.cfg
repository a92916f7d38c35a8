SPECIFICATION Spec
CONSTANTS
    alice = alice
    bob = bob
    open = open
    over = over
    unknown = unknown
    k1 = k1
    kb = kb
    none = none
    c1 = c1
    c2 = c2
    c3 = c3
    c4 = c4
    c5 = c5
    c6 = c6
    c7 = c7
    g1 = g1
    seed = seed
    Jobs = {open, over}
    Owner <- MCOwner
    InitialRow <- MCInitialRow
    Keys = {k1, kb}
    KeyUser <- MCKeyUser
    Secretless = {kb}
    NoKey = none
    Callbacks = {c1, c2, c3, c4, c5, c6, c7}
    Body <- MCBody
    Unknown = unknown
    Reads = {g1}
    MaxCalls = 3
    MaxKeyChanges = 1
    MaxFaults = 1
INVARIANTS
    TypeOK
    ViewsAreReported
    DuplicatesAreHarmless
    UnsignedOnlyWithoutKeys
SYMMETRY Twins
