SPECIFICATION RestartedSpec
CONSTANTS
    Reg = {r1, r2}
    Msg = {r1, r2, stray}
    Email = {e1, e2}
    AccountType = {seller}
    PayloadType = {seller, invalid}
    ValidType = {seller}
    InvalidType = invalid
    Relay = {p1}
    BatchSize = 2
    Consumers = {c1}
    Prefetch = 2
    QueueDeclared = TRUE
    MaxFailures = 1
    MaxDrops = 1
    MaxSetbacks = 1
    None = none
    Nobody = none
PROPERTIES
    RegistrationPromise
    Quiesces
CHECK_DEADLOCK FALSE
