CONSTANTS
    c1 = c1  c2 = c2  c3 = c3  c4 = c4  w1 = w1  w2 = w2
    Callers = {c1, c2, c3, c4}
    Workspaces = {w1, w2}
    CallerWorkspace <- ThreeAndOne
    Limits <- ChangingLimits
    MaxChanges = 1
SPECIFICATION FairPoolSpec
INVARIANTS
    CountersMatchHolders
    NobodyWaitsForNothing
PROPERTIES
    NobodyPasses
    WaitersAreServed
