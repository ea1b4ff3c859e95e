-------------------------- MODULE MCSnapshotRetention --------------------------
\* Two revisions and two instances; one of them also collects.
EXTENDS SnapshotRetention

CONSTANTS i1, i2, w1, j1, a1, a2, c1

TwoRevisions == 1..2
TwoInstances == {i1, i2}
OneReceipt == {w1}
OneJob == {j1}
BothRequests == {a1, a2}
ThreeTasks == {a1, a2, c1}
Homes == [t \in Tasks |-> IF t = a2 THEN i2 ELSE i1]
===============================================================================
