CONSTANTS
    BufferSize = 2
    MaxReconnects = 1
    OneShot = FALSE
    MaxTasks = 2
    MaxLinks = 3
    MaxMessages = 3
    MaxBreaks = 2
SPECIFICATION HandleSpec
INVARIANTS
    StopIsFinal
CHECK_DEADLOCK FALSE
