SPECIFICATION RestartedSpec
CONSTANTS
    Reg = {r1, r2}
    Msg = {r1, r2}
    Email = {e1, e2}
    AccountType = {seller, shopper}
    PayloadType = {seller, shopper, invalid}
    ValidType = {seller, shopper}
    InvalidType = invalid
    Relay = {p1, p2}
    BatchSize = 2
    Consumers = {c1}
    Prefetch = 2
    QueueDeclared = TRUE
    MaxFailures = 1
    MaxDrops = 1
    MaxSetbacks = 1
    None = none
    Nobody = none
INVARIANTS
    TypeOK
    NoEventLost
    ProfileMatchesAccount
    DuplicatesNeedFailures
CHECK_DEADLOCK FALSE
