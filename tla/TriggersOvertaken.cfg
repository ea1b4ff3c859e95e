SPECIFICATION Spec
CONSTANTS
    None = None
    Events <- ThreeEvents
    Window <- OpenTwice
    MaxTime = 4
    Tokens <- SomeTokens
    Backends <- Stores
    MaxAttempts = 2
    MaxTrouble = 0
PROPERTY
    NewerReplacesOlder
CHECK_DEADLOCK FALSE
