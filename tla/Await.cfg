SPECIFICATION Spec
CONSTANTS
    NumWorkers = 4
    Settings <- MCSettings
CHECK_DEADLOCK FALSE
INVARIANTS EachItemOnce SlotsAreUsed AnswersAreTrue NobodyWaitsForever
