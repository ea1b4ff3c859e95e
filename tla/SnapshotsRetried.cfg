SPECIFICATION Spec
CONSTANTS
    None = None
    i1 = i1  i2 = i2  w1 = w1  j1 = j1  a1 = a1  a2 = a2  c1 = c1
    Revisions <- TwoRevisions
    Instances <- TwoInstances
    Receipts <- OneReceipt
    Jobs <- OneJob
    Tasks <- ThreeTasks
    Requests <- BothRequests
    Home <- Homes
    MaxLost = 0
INVARIANT NoDanglingReference
CHECK_DEADLOCK FALSE
