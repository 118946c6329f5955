SPECIFICATION Spec
CONSTANTS
    Link = {l1, l2, l3}
    Account = {a1}
    Request = {q1, q2}
    MaxFailures = 0
    None = none
INVARIANT OnlyNewestLinkValid
