SPECIFICATION Spec
CONSTANTS
    Coroutines = {c1, c2, c3, c4}
    MaxResources = 5
    Resources <- MCResources
    min_size = 1
    max_size = 2
    Setups <- MCSetups
SYMMETRY Symmetry
INVARIANTS CountsAreExact WaitersComeFirst EveryAcquireEnds
