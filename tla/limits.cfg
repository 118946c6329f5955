SPECIFICATION Spec
CONSTANTS
    Address = {a1, a2, a3}
    Email = {e1}
    Request = {q1, q2}
    MaxKeys = 2
    IdleTTL = 3
    IPPeriod = 2
    IPBurst = 1
    EmailPeriod = 3
    EmailBurst = 1
    RegisterPeriod = 2
    RegisterBurst = 1
    MaxClock = 5
    MaxRequests = 4
    None = none
INVARIANTS
    TypeOK
    MapsBounded
    GrantsBounded
PROPERTY EvictionUnseen
SYMMETRY Symmetry
CHECK_DEADLOCK FALSE
