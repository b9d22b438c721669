SPECIFICATION Spec
CONSTANTS
    NumSpawners = 3
    NumFutures = 2
    Spawners <- MCSpawners
    Futures <- MCFutures
    Names = {9}
    Settings <- MCSettings
    NoLimit = 99
    MaxUint = 3
CHECK_DEADLOCK FALSE
INVARIANTS SlotsAreUsed OutcomesAreSeen
PROPERTIES AnswersAreTrue WaitsEnd
