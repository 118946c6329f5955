SPECIFICATION FairSpec
CONSTANTS
    Reg = {r1}
    Msg = {r1}
    Email = {e1}
    AccountType = {seller}
    PayloadType = {seller, invalid}
    ValidType = {seller}
    InvalidType = invalid
    Relay = {p1}
    BatchSize = 1
    Consumers = {c1}
    Prefetch = 1
    QueueDeclared = TRUE
    MaxFailures = 0
    MaxDrops = 1
    MaxSetbacks = 0
    None = none
    Nobody = none
PROPERTY EveryEventPublished
CHECK_DEADLOCK FALSE
