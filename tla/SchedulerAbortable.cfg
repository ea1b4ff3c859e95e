CONSTANTS
    b1 = b1  b2 = b2  m1 = m1  m2 = m2  s1 = s1  s2 = s2  w1 = w1
    k1 = k1  k2 = k2  t1 = t1  t2 = t2  t3 = t3  t4 = t4  t5 = t5  o1 = o1
    None = None
    Batches = {b1}
    Members = {m1}
    Streams = {s1}
    Owners = {o1}
    Tokens = {t1, t2, t3, t4, t5}
    Tasks = {k1, k2}
    ConsumerId = o1
    Home <- OneHome
    StreamOf <- OneStream
    WorkspaceOf <- OneWorkspace
    MaxAttempts = 1
    GlobalLimit = 2
    WorkspaceLimit = 2
    LeaseTtl = 2
    ClaimTtl = 1
    MaxDelay = 1
    MemberDelay = 0
    QueueTimeout = 1
    MaxAge = 2
    MaxFaults = 2
    MaxCommands = 2
SPECIFICATION AbortableSpec
INVARIANTS
    ShutdownReachesAll
    ControllersAreAlive
    CancelledStaysCancelled
PROPERTIES
    LostExecutionsEnd
    ShutdownEnds
