SPECIFICATION Spec
CONSTANTS
    Gates = {g1}
    Passes = {p1}
    TooLong = TooLong
    MaxTooLong = 1
    Guests = 1
    Scans <- MCScans
    Batch = 2
    MaxFaults = 1
INVARIANT VerifiedOnce
CHECK_DEADLOCK FALSE
