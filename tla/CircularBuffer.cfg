SPECIFICATION Spec
CONSTANTS
    Items = {a, b}
    Junk = Junk
    Count = 1
    min_size <- MCMinSize
    MaxCapacity = 8
    AllocMayFail = TRUE
VIEW buffer
INVARIANTS CapacityIsPowerOf2
PROPERTIES ImplementsQueue
