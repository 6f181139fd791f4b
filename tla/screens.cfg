SPECIFICATION Spec
CONSTANTS
    Components <- MCScreens
    Budgets <- MCBudgets
INVARIANTS TypeOK OwnWriteShown OfferedIsAccepted StaleWriteIsOffered RepeatedOnce ChangesAreFollowed RefusedLeavesScreen AtRestAgrees
PROPERTIES CatchesUp
CHECK_DEADLOCK FALSE
