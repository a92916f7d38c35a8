SPECIFICATION Spec
CONSTANTS
    ip6 = ip6
    nothing = nothing
    Octets1 <- MCOctets1
    Octets2 <- MCOctets2
    IPv6 = ip6
    NoAddress = nothing
INVARIANTS
    TypeOK
    JobsNeedPublicHosts
    PublicHostsAreAccepted
PROPERTIES
    ValidationEnds
