SPECIFICATION FairSpec
CONSTANTS
    MaxWorkers = 6
    Workers <- MCWorkers
    worker_count = 2
    Tasks = {1, 2}
    queue_size = 1
    coroutine_mode = TRUE
    concurrency = 2
    Callers = {1, 2}
    MayCancel = {2}
    BootFails = {1}
CHECK_DEADLOCK FALSE
INVARIANTS RotationIsExact
PROPERTIES EveryTaskSettles ReloadReturns
