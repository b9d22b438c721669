SPECIFICATION FairSpec
CONSTANTS
    Coroutines = {c1, c2, c3}
    Futures = {f1}
    capacity = 0
    MaxSends = 2
    no_producer_timeout = TRUE
    no_consumer_timeout = TRUE
    hard_timeouts = FALSE
    Tokens = FALSE
    SendAsync = TRUE
    DropFutures = FALSE
INVARIANTS SendIsHonest TimerIsRight
PROPERTIES EveryWaitEnds
