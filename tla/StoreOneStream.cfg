CONSTANTS
    b1 = b1  b2 = b2  m1 = m1  m2 = m2  s1 = s1  s2 = s2  w1 = w1  t1 = t1  t2 = t2  t3 = t3  o1 = o1
    None = None
    Batches = {b1, b2}
    Members = {m1, m2}
    Streams = {s1}
    Owners = {o1}
    Tokens = {t1, t2, t3}
    StreamOf <- OneStream
    WorkspaceOf <- OneWorkspace
    MaxAttempts = 2
    GlobalLimit = 2
    WorkspaceLimit = 1
    LeaseTtl = 1
    ClaimTtl = 1
    MaxDelay = 1
    MemberDelay = 1
    QueueTimeout = 1
    MaxAge = 2
SPECIFICATION BudgetSpec
SYMMETRY SymmetryOneStream
INVARIANTS
    TypeOK
    OneOpenBatchPerStream
    OutboxOffersWaiting
    LeaseCoversUndispatched
    MembersFollowBatch
    ExecutionsBounded
PROPERTIES
    NeverRegrouped
    SettledStaysSettled
