------------------------------ MODULE CommitCuts ------------------------------
(***************************************************************************)
(* How pending commits are cut into batches                                *)
(* (cutAutoCommitBatches of packages/core/src/auto-commit-assembly.ts),    *)
(* as far as the scheduler uses the result: the first cut that is ready,   *)
(* and the commits that block.  V is the set of verified candidates, at    *)
(* the instant the assembly counts eligibility from.                       *)
(*                                                                         *)
(* Commits are named by their order keys, so the tests of parent linkage   *)
(* inside a push and between pushes (lines 242-244 and 264-266) and the    *)
(* commits of a forced push that take an order key again (git.ts:1176-1180)*)
(* are not represented: order keys stand for the history.                  *)
(***************************************************************************)
EXTENDS CommitReceipts

CONSTANTS MaxMembers,   \* AUTO_COMMIT_BATCH_LIMITS.maxMembersPerBatch
          MaxMerge      \* AUTO_COMMIT_MAX_BATCH_MEMBERS

ASSUME CutAssumption == MaxMembers \in Nat \ {0} /\ MaxMerge \in 1..MaxMembers

Cover(c) == commits[c].cover
Pin(c) == world.pin[Cover(c)]
Author(c) == world.author[c]
Between(V, c, d) == {e \in V : c <= e /\ e <= d}
EligibleAt(S, at) == \A c \in S : commits[c].eligible <= at
FirstOf(n, S) == {c \in S : Cardinality({d \in S : d <= c}) <= n}

\* A push unit: neighbouring candidates under one receipt.
Unit(V, c) == {d \in V : \A e \in Between(V, c, d) \cup Between(V, d, c) : Cover(e) = Cover(c)}
Units(V) == {Unit(V, c) : c \in V}
Rewrites(U) == \E c \in U : Cover(c) \in world.rewrites

Blocks(V, U) ==
    \/ Cardinality(U) > MaxMembers
    \/ \E c \in U : \E d \in V \ U : Cover(d) = Cover(c)
    \/ ~Rewrites(U) /\ ~Interval(U)

Blocked(V) == {c \in V : Blocks(V, Unit(V, c))}

\* Only uniform pushes are merged with others.
Uniform(U) == ~Rewrites(U) /\ U \cap world.merges = {} /\ \A c, d \in U : Author(c) = Author(d)

\* The commits of several pushes that one batch may have.
Merges(S) == /\ \A c, d \in S : Author(c) = Author(d) /\ Pin(c) = Pin(d)
             /\ Interval(S) /\ Cardinality(S) <= MaxMerge

\* cutPushUnits: from the first push that is ready on, as many as may be merged.
Ready(V, at) == {c \in V \ Blocked(V) : EligibleAt(Unit(V, c), at)}

PushesFrom(V, ready) ==
    LET first == Unit(V, Min(ready))
        upTo(U) == Between(V, Min(first), Max(U))
        joined(S) == S \subseteq ready /\ Merges(S) /\ \A c \in S : Uniform(Unit(V, c))
    IN  UNION ({first} \cup {S \in {upTo(U) : U \in Units(V)} : first \subseteq S /\ joined(S)})

PushCut(V, at) == UNION {PushesFrom(V, ready) : ready \in {Ready(V, at)} \ {{}}}

\* Faulty: a run goes on over a change of the configuration.
RunAnyPin(V, c) ==
    {d \in V : LET S == Between(V, c, d) \cup Between(V, d, c)
               IN  Interval(S) /\ \A e \in S : Author(e) = Author(c)}

\* P4 and SVN: runs of consecutive commits of one author under one configuration.
\* A run that begins where the configuration changes is taken whole or not at all.
Run(V, c) ==
    {d \in V : LET S == Between(V, c, d) \cup Between(V, d, c)
               IN  Interval(S) /\ \A e \in S : Author(e) = Author(c) /\ Pin(e) = Pin(c)}

AfterBoundary(V, R) ==
    LET before == {c \in V : c < Min(R)} IN before # {} /\ Pin(Max(before)) # Pin(Min(R))

RunSlice(V, R, at) ==
    LET slice == FirstOf(MaxMerge, R)
    IN  IF EligibleAt(slice, at) THEN slice
        ELSE IF AfterBoundary(V, R) THEN {}
        ELSE {c \in slice : EligibleAt(Between(slice, Min(slice), c), at)}

RunCut(V, at) ==
    LET ready == {c \in V : RunSlice(V, Run(V, c), at) # {}}
    IN  IF ready = {} THEN {} ELSE RunSlice(V, Run(V, Min(ready)), at)
===============================================================================
