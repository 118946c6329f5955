SPECIFICATION FairSpec
CONSTANTS
    Reg = {r1}
    Msg = {r1}
    Email = {e1}
    AccountType = {seller}
    PayloadType = {seller, invalid}
    ValidType = {seller}
    InvalidType = invalid
    Relay = {p1}
    BatchSize = 1
    Consumers = {c1}
    Prefetch = 1
    QueueDeclared = FALSE
    MaxFailures = 0
    MaxDrops = 0
    MaxSetbacks = 0
    None = none
    Nobody = none
INVARIANT DeliveredAtLeastOnce
CHECK_DEADLOCK FALSE
