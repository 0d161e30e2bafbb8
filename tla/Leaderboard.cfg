\* Five users compete for three rows: users are evicted, return and are evicted
\* again, with ties for the least.
SPECIFICATION Spec
CONSTANTS
    a = a
    b = b
    c = c
    d = d
    e = e
    Users = {a, b, c, d, e}
    MaxTrackedUsers = 3
    MaxRecords = 11
SYMMETRY UserSymmetry
\* The calls are bounded.
CHECK_DEADLOCK FALSE
INVARIANTS
    TypeOK
    NeverUndercounts
    ErrorWithinLeast
    CountsAddUp
    ActiveUsersTracked
