------------------------ MODULE MCAutoCommitScheduler ------------------------
(* Small instances of AutoCommitScheduler for TLC. *)
EXTENDS AutoCommitScheduler, TLC

CONSTANTS b1, b2, m1, m2, s1, s2, w1, k1, k2, t1, t2, t3, t4, t5, o1

OneHome == b1 :> s1
OneStream == m1 :> s1
TwoHomes == (b1 :> s1) @@ (b2 :> s2)
TwoStreams == (m1 :> s1) @@ (m2 :> s2)
OneWorkspace == [s \in Streams |-> w1]
=============================================================================
