SPECIFICATION Spec
CONSTANTS
    NumScopes = 3
    NumCoroutines = 3
    Keys = {k}
    Settings <- MCSettings
CHECK_DEADLOCK FALSE
INVARIANTS TreeIsSound NobodyIsForgotten
PROPERTIES CompletionIsTrue CancelReachesAll
