\* Three processes in a row on one file, each of which may fail or die at any
\* step, and up to three events.
SPECIFICATION FairSpec
CONSTANTS
    MaxEvents = 3
    MaxStarts = 3
\* The last process has ended.
CHECK_DEADLOCK FALSE
INVARIANTS
    PathWhole
    
PROPERTIES
    ImplementsAtomicSave
    SavedNeverShrinks
    ShutdownEnds
