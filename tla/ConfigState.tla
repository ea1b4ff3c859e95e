------------------------------ MODULE ConfigState ------------------------------
(***************************************************************************)
(* The tables of the configuration store (packages/core/src/sqlite-config- *)
(* store.ts) that decide which runtime snapshots exist: the head, the      *)
(* snapshots, one for each revision, and config_runtime_state, a table of  *)
(* versioned rows that refer to snapshots: admission pins, the versions of *)
(* queue jobs and the activation records of the server instances.          *)
(*                                                                         *)
(* Every operator is one transaction.  Time is not counted: a row or a     *)
(* snapshot remembers the tasks under way when it was written, and has     *)
(* reached the age of 300 s once they have all ended; so no single task    *)
(* takes as long as that.                                                  *)
(***************************************************************************)
EXTENDS Naturals, FiniteSets

CONSTANTS Revisions,  \* 1..n
          Instances,  \* server instances, each with an id of its own
          Receipts,   \* work accepted under an admission pin; also names the pin
          Jobs,       \* ids of queue jobs
          Tasks,      \* the asynchronous tasks of the instances
          None

ASSUME ConfigAssumption ==
    /\ Revisions = 1..Cardinality(Revisions) /\ IsFiniteSet(Revisions) /\ 1 \in Revisions
    /\ Receipts \cap Jobs = {} /\ Receipts \cap Instances = {} /\ Jobs \cap Instances = {}
    /\ None \notin Revisions \cup Receipts \cup Jobs \cup Instances \cup Tasks

VARIABLES head,       \* config_heads.active_revision
          snapshots,  \* config_runtime_snapshots: revision -> is there, written during
          states      \* config_runtime_state: key -> row

configVars == <<head, snapshots, states>>

Keys == Receipts \cup Jobs \cup Instances

NoSnapshot == [there |-> FALSE, during |-> {}]
NoRow == [ver |-> 0, rev |-> None, value |-> "none", of |-> None, by |-> None, during |-> {}]

\* One revision is active and every instance has adopted it.
ConfigInit ==
    /\ head = 1
    /\ snapshots = [r \in Revisions |-> [NoSnapshot EXCEPT !.there = (r = 1)]]
    /\ states = [k \in Keys |-> IF k \in Instances
                                THEN [NoRow EXCEPT !.ver = 1, !.rev = 1, !.value = "alive", !.by = k] ELSE NoRow]

There(r) == snapshots[r].there
Referenced(r) == \E k \in Keys : states[k].rev = r

\* Faulty: the cutoff is left out.
AgedAtOnce(item) == TRUE

Aged(item) == item.during = {}

\* commitChangeset: a compare-and-set on the head.
CommitChangeset(base) ==
    /\ base = head /\ head + 1 \in Revisions
    /\ head' = head + 1
    /\ UNCHANGED <<snapshots, states>>

\* writeSnapshot: a row that is there is kept.
WriteSnapshot(r, during) ==
    /\ snapshots' = IF There(r) THEN snapshots ELSE [snapshots EXCEPT ![r] = [there |-> TRUE, during |-> during]]
    /\ UNCHANGED <<head, states>>

\* writeRuntimeState: refused unless the version is the expected one; a row may
\* only refer to a snapshot that is there.
Accepts(k, expected) == states[k].ver = expected
MayRefer(rev) == rev = None \/ There(rev)
WriteState(k, row, during) ==
    /\ states' = [states EXCEPT ![k] = [row EXCEPT !.ver = @ + 1, !.during = during]]
    /\ UNCHANGED <<head, snapshots>>

\* deleteRuntimeState
DeleteState(k, expected) ==
    /\ states' = IF states[k].ver = expected THEN [states EXCEPT ![k] = NoRow] ELSE states
    /\ UNCHANGED <<head, snapshots>>

\* listUnreferencedSnapshots: old enough, and no row refers to them.
Unreferenced == {r \in Revisions : There(r) /\ Aged(snapshots[r]) /\ ~Referenced(r)}

\* deleteSnapshot: one conditional delete.
DeleteSnapshot(r) ==
    /\ snapshots' = IF Referenced(r) THEN snapshots ELSE [snapshots EXCEPT ![r] = NoSnapshot]
    /\ UNCHANGED <<head, states>>

\* What is left of the age of rows and snapshots when tasks end.
WithoutTasks(ended) ==
    /\ snapshots' = [r \in Revisions |-> [snapshots[r] EXCEPT !.during = @ \ ended]]
    /\ states' = [k \in Keys |-> [states[k] EXCEPT !.during = @ \ ended]]
    /\ UNCHANGED head
===============================================================================
