SPECIFICATION FairSpec
CONSTANTS
    Session = {s1, s2, s3, s4}
    Request = {q1, q2, q3}
    Account = {a1}
    MaxConns = 2
    MaxFailures = 0
    None = none
PROPERTY ReuseIsAnswered
