SPECIFICATION FairSpec
CONSTANTS
    Callers = {p1, p2, p3}
    Senders = {p1, p3}
    Receivers = {p2, p3}
    Tokens = {p3}
    capacity = 1
    Ops <- MCOps
INVARIANTS TriggersAreAlive NoLostWakeup
PROPERTIES CloseEndsCalls
