SPECIFICATION Spec
CONSTANTS
    MaxId = 3
    QueueSize = 1
    BatchSize = 2
    Page = 1
    MaxFaults = 3
INVARIANTS TypeOK GapsAreNamed
PROPERTIES StreamCatchesUp
CHECK_DEADLOCK FALSE
