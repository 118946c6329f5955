SPECIFICATION FairSpec
CONSTANTS
    Link = {l1, l2, l3}
    Account = {a1, a2}
    Request = {q1, q2}
    MaxFailures = 1
    None = none
INVARIANTS
    TypeOK
    VerifyIsAtomic
    WorksOnce
    MailedLinksAreStored
PROPERTIES
    NewLinkReplacesOld
    RequestsEnd
CHECK_DEADLOCK FALSE
