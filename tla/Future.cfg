SPECIFICATION Spec
CONSTANTS
    t1 = t1
    t2 = t2
    s1 = s1
    Tasks = {t1, t2}
    States = {s1}
    None = None
    NumDerived = 3
    NumStrands = 5
    Plans <- MCPlans
CHECK_DEADLOCK FALSE
INVARIANTS NothingDangles NothingIsLost ChainsSettle ErrorsAreSeen
