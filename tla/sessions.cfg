SPECIFICATION FairSpec
CONSTANTS
    Session = {s1, s2, s3}
    Request = {q1, q2}
    Account = {a1}
    MaxConns = 4
    MaxFailures = 1
    None = none
INVARIANTS
    TypeOK
    OneLivePerSignIn
    ExchangedOnce
    RevocationNeedsReuse
    BanStopsNextRefresh
PROPERTIES
    RequestsEnd
    RevokedHasNoHeir
