\* The file is saved once, cannot be read at the next start, and is saved over.
SPECIFICATION Spec
CONSTANTS
    MaxEvents = 2
    MaxStarts = 2
CHECK_DEADLOCK FALSE
PROPERTIES
    SavedStaysSaved
