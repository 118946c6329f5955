SPECIFICATION Spec
CONSTANTS
    Session = {s1, s2, s3}
    Request = {q1, q2}
    Account = {a1}
    MaxConns = 4
    MaxFailures = 0
    None = none
PROPERTY ReuseStopsSuccessors
