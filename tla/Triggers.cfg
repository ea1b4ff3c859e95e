SPECIFICATION FairSpec
CONSTANTS
    None = None
    Events <- ThreeEvents
    Window <- OpenTwice
    MaxTime = 4
    Tokens <- SomeTokens
    Backends <- Stores
    MaxAttempts = 2
    MaxTrouble = 1
INVARIANTS
    OneReviewPerTarget
    NothingForgotten
    HandedOverOnce
CHECK_DEADLOCK FALSE
PROPERTY
    TargetReviewed
