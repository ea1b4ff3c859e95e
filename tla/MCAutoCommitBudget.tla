-------------------------- MODULE MCAutoCommitBudget --------------------------
(* Small instances of the store and its execution counts for TLC. *)
EXTENDS AutoCommitBudget, TLC

CONSTANTS b1, b2, m1, m2, s1, s2, w1, t1, t2, t3, o1

OneStream == [m \in Members |-> s1]
OneStreamEach == (m1 :> s1) @@ (m2 :> s2)
OneWorkspace == [s \in Streams |-> w1]

SymmetryTokens == Permutations(Tokens)
SymmetryOneStream == Permutations(Batches) \cup Permutations(Members) \cup Permutations(Tokens)
=============================================================================
