CONSTANTS
    j1 = j1  j2 = j2  s1 = s1  s2 = s2  o1 = o1  w1 = w1
    None = None
    Jobs = {j1}
    Workspaces = {w1}
    JobWorkspace <- OneWorkspace
    Backends = {"sqlite", "memory"}
    MaxAttempts = 2
    MaxExpiries = 1
    MaxRevivals = 2
    Callers = {s1, s2, o1}
    CallerWorkspace <- CallersOfOne
    Limits <- OneOrTwo
    MaxChanges = 0
    Slots = {s1, s2}
    MaxFaults = 1
SPECIFICATION FairWorkerSpec
INVARIANTS
    OneExecutionPerJob
    OutcomesAreTrue
    DrainedMeansIdle
PROPERTIES
    KeepsPromise
    JobsSettle
