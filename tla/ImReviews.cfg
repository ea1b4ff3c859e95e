SPECIFICATION FairSpec
CONSTANTS
    None = None
    s1 = s1  s2 = s2  x1 = x1
    Strategies <- AllStrategies
    Requests <- Two
    Deliveries <- TypedAndPressed
    Presses <- Buttons
    Answerable <- Second
    Cancellable <- First
    Claimants <- Processes
    Slots <- TwoSlots
    Senders <- OneSender
    MaxAttempts = 2
    MaxReplies = 2
    MaxTrouble = 1
INVARIANTS
    OneReviewForAll
    WrittenOnce
    ReanalysisIsSafe
    ToldOnce
PROPERTIES
    OutcomeIsFinal
    RequestsSettle
CHECK_DEADLOCK FALSE
