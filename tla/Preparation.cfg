SPECIFICATION FairPreparation
CONSTANTS
    None = None
    p1 = p1
    p2 = p2
    Preparers <- TwoPreparers
    Worlds <- AllWorlds
    MaxTime = 2
    MaxMembers = 3
    MaxMerge = 2
    ReceiptPage = 2
    PageSize = 2
    MaxPages = 1
    MaxAttempts = 2
    MaxTrouble = 1
INVARIANTS
    CoveredIsExpanded
    BatchesAreCoherent
PROPERTIES
    CutsAreSound
    CommitsSettle
CHECK_DEADLOCK FALSE
