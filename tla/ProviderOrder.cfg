\* Every list of up to three weights of up to three under every algorithm, with
\* two cycles of requests; and a family of files for each other part.
SPECIFICATION StartSpec
CONSTANTS
    MaxProviders = 3
    MaxWeight = 3
    Cycles = 2
    MaxRoundRobinWeight = 8
    DefaultLimit = 5
    Omitted = Omitted
    Refused = Refused
    Unread = Unread
    Inputs <- MCInputs
\* The cursor stops at its bound, and a refused file is the end.
CHECK_DEADLOCK FALSE
INVARIANTS
    OrdersNameEveryProviderOnce
    WeightsDecidePrimaries
    PicksFollowWeights
    AcceptedIsUsable
