----------------------------- MODULE SqliteQueue -----------------------------
(***************************************************************************)
(* The durable review queue (packages/core/src/sqlite-queue.ts): rows of   *)
(* one table, each statement atomic.  A row has no owner token: complete   *)
(* and fail act on whatever execution of the job is running, and the lock  *)
(* (started_at) is never renewed.                                          *)
(***************************************************************************)
EXTENDS QueueTable

\* Faulty: the cutoff is compared the wrong way round.
ReclaimedFresh(t) ==
    [j \in Jobs |-> IF t[j].status = "running" /\ ~t[j].old
                    THEN [t[j] EXCEPT !.status = "queued", !.old = FALSE] ELSE t[j]]

\* maybeReclaim: running rows whose lock is too old are queued again, whoever
\* works on them and however many attempts they have used.
ReclaimedOld(t) ==
    [j \in Jobs |-> IF t[j].status = "running" /\ t[j].old
                    THEN [t[j] EXCEPT !.status = "queued", !.old = FALSE] ELSE t[j]]

\* dequeue: the reclaim when its interval has passed, then the claim of at most
\* one job, the first by seq, which is the result.
SqliteDequeue(excluded, claim) ==
    LET table == IF reclaimDue THEN ReclaimedOld(rows) ELSE rows
    IN  /\ claim = FirstOf(Eligible(table, excluded))
        /\ rows' = [j \in Jobs |-> IF j \in claim THEN Claimed(table[j]) ELSE table[j]]
        /\ reclaimDue' = FALSE
        /\ UNCHANGED <<backend, order, expiries, revivals>>

\* fail: nothing unless the job is running; queued behind a backoff, at its
\* place, while attempts remain, else dead.
SqliteFail(j) ==
    /\ rows' = IF rows[j].status # "running" THEN rows
               ELSE IF rows[j].attempt < MaxAttempts
               THEN [rows EXCEPT ![j].status = "queued", ![j].waits = TRUE, ![j].old = FALSE]
               ELSE [rows EXCEPT ![j].status = "dead", ![j].old = FALSE]
    /\ UNCHANGED <<backend, order, reclaimDue, expiries, revivals>>

SqliteRequeueDead(j) ==
    /\ revivals < MaxRevivals /\ revivals' = revivals + 1
    /\ rows[j].status = "dead"
    /\ rows' = [rows EXCEPT ![j] = QueuedRow]
    /\ UNCHANGED <<backend, order, reclaimDue, expiries>>

\* purgeDead: all dead rows, or those enqueued before an age.
SqlitePurgeDead(gone) ==
    /\ revivals < MaxRevivals /\ revivals' = revivals + 1
    /\ gone # {} /\ gone \subseteq Rows("dead")
    /\ rows' = [j \in Jobs |-> IF j \in gone THEN NoRow ELSE rows[j]]
    /\ order' = SelectSeq(order, LAMBDA j : j \notin gone)
    /\ UNCHANGED <<backend, reclaimDue, expiries>>

-----------------------------------------------------------------------------
(* Time. *)

LockAges(j) ==
    /\ backend = "sqlite"
    /\ rows[j].status = "running" /\ ~rows[j].old
    /\ rows' = [rows EXCEPT ![j].old = TRUE]
    /\ UNCHANGED <<backend, order, reclaimDue, revivals>>

ReclaimIntervalPasses ==
    /\ backend = "sqlite" /\ ~reclaimDue /\ reclaimDue' = TRUE
    /\ UNCHANGED <<backend, rows, order, expiries, revivals>>
=============================================================================
