\* Two requests of one user, who has one token per tick, and one of another;
\* two requests fit the semaphore; the cycle of the two providers has three
\* entries, so the three requests can walk all of it.
SPECIFICATION FairSpec
CONSTANTS
    u1 = u1
    u2 = u2
    r1 = r1
    r2 = r2
    r3 = r3
    Users = {u1, u2}
    Requests = {r1, r2, r3}
    UserOf <- MCUserOf
    Weights <- MCWeights
    Backend <- MCBackend
    Algorithm = "round_robin"
    Resolution = 1
    MaxConcurrent = 2
    Limit = 1
    Window = 1
    PruneInterval = 1
    MaxKeys = 2
    MaxClock = 1
\* Every request may have returned and the clock stopped at its bound.
CHECK_DEADLOCK FALSE
INVARIANTS
    SlotAccounting
    GaugeWithinSlots
    TextUnlessAllFailed
    FallbackLedger
    RoundRobinShare
PROPERTIES
    EveryRequestReturns
