---------------------------- MODULE MCQueueWorker ----------------------------
(* Small instances of QueueWorker for TLC. *)
EXTENDS QueueWorker, TLC

CONSTANTS j1, j2, s1, s2, o1, w1

OneWorkspace == [j \in Jobs |-> w1]
CallersOfOne == [c \in Callers |-> w1]
OneOrTwo == {[global |-> 2, workspace |-> 1], [global |-> 2, workspace |-> 2]}
=============================================================================
