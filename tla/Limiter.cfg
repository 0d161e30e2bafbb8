\* Three users, room for two: the map is full and a call by the third evicts.
\* One token per window, so that a bucket is spent, refilled in halves, swept
\* and evicted; the sweep runs less often than a window passes. The observer
\* restarts at any instant.
SPECIFICATION AuditSpec
CONSTANTS
    Keys = {u1, u2, u3}
    Limit = 1
    Window = 2
    PruneInterval = 3
    MaxKeys = 2
    MaxClock = 5
    MaxAudited = 3
    NoAnswer = NoAnswer
SYMMETRY KeySymmetry
INVARIANTS
    TypeOK
    TrackedBound
    RateBound
PROPERTIES
    ImplementsTokenBucket
    SweepBound
    ForgetsLeastActive
