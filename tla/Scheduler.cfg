SPECIFICATION FairSpec
CONSTANTS
    Coroutines = {m, c1, c2}
    Main = m
    NoCoroutine = none
    Safely = TRUE
    MaxProtect = 1
    First = c1
    MainCalls = {"spawn", "timeout", "cancel"}
    FirstCalls = {"protect", "await", "delay", "graceful_shutdown"}
    OtherCalls = {"suspend", "await", "cancel_scope", "throw"}
    Calls <- MCCalls
CHECK_DEADLOCK FALSE
INVARIANTS WakeupsAreExact
PROPERTIES AwaitReturnsTheEnd CancelsAreHonoured EveryoneEnds
