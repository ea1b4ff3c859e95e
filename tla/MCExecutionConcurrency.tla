------------------------ MODULE MCExecutionConcurrency ------------------------
(* Small instances of ExecutionConcurrency for TLC. *)
EXTENDS ExecutionConcurrency, TLC

CONSTANTS c1, c2, c3, c4, w1, w2

ThreeAndOne == [c \in Callers |-> IF c = c4 THEN w2 ELSE w1]
ChangingLimits == {[global |-> g, workspace |-> w] : g \in 1..3, w \in 1..2}
=============================================================================
