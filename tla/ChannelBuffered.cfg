SPECIFICATION Spec
CONSTANTS
    Coroutines = {c1, c2, c3}
    Futures = {f1}
    capacity = 2
    MaxSends = 3
    no_producer_timeout = TRUE
    no_consumer_timeout = TRUE
    hard_timeouts = FALSE
    Tokens = TRUE
    SendAsync = TRUE
    DropFutures = TRUE
SYMMETRY Perms
INVARIANTS ReservationsFit NobodyWaitsBesideAPlace NothingIsLost
