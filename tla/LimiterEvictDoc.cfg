\* Two users, room for two: the distinct keys never exceed MaxKeys.
SPECIFICATION Spec
CONSTANTS
    Keys = {u1, u2}
    Limit = 2
    Window = 2
    PruneInterval = 3
    MaxKeys = 2
    MaxClock = 3
PROPERTIES
    EvictsOnlyOverMaxKeys
