SPECIFICATION Spec
CONSTANTS
    MaxRetries = 3
    BaseDelay = 1
    Timeout = 10
INVARIANTS
    TypeOK
    ReportIsAccurate
    SignatureStaysFresh
