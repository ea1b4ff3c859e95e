----------------------------- MODULE MemoryQueue -----------------------------
(***************************************************************************)
(* The default review queue (createInMemoryQueue in                        *)
(* packages/core/src/queue.ts): a map of jobs beside a list of the pending *)
(* ids, both of which every operation has to change together.  Unlike the  *)
(* durable queue it puts a retried job behind all the others, and never    *)
(* takes a running job from its worker.                                    *)
(***************************************************************************)
EXTENDS QueueTable

\* dequeue: the first pending job that may run leaves the list.
MemoryDequeue(excluded, claim) ==
    /\ claim = FirstOf(Eligible(rows, excluded))
    /\ rows' = [j \in Jobs |-> IF j \in claim THEN Claimed(rows[j]) ELSE rows[j]]
    /\ order' = SelectSeq(order, LAMBDA j : j \notin claim)
    /\ UNCHANGED <<backend, reclaimDue, expiries, revivals>>

\* Faulty: the job is retried but never pending again.
MemoryFailStranded(j) ==
    /\ rows' = IF rows[j].status # "running" THEN rows
               ELSE IF rows[j].attempt < MaxAttempts
               THEN [rows EXCEPT ![j].status = "queued", ![j].waits = TRUE]
               ELSE [rows EXCEPT ![j].status = "dead"]
    /\ UNCHANGED <<backend, order, reclaimDue, expiries, revivals>>

MemoryFail(j) ==
    /\ IF rows[j].status = "running" /\ rows[j].attempt < MaxAttempts
       THEN /\ rows' = [rows EXCEPT ![j].status = "queued", ![j].waits = TRUE]
            /\ order' = Append(order, j)
       ELSE /\ rows' = IF rows[j].status = "running"
                       THEN [rows EXCEPT ![j].status = "dead"] ELSE rows
            /\ UNCHANGED order
    /\ UNCHANGED <<backend, reclaimDue, expiries, revivals>>

MemoryRequeueDead(j) ==
    /\ revivals < MaxRevivals /\ revivals' = revivals + 1
    /\ rows[j].status = "dead"
    /\ rows' = [rows EXCEPT ![j] = QueuedRow]
    /\ order' = Append(order, j)
    /\ UNCHANGED <<backend, reclaimDue, expiries>>

MemoryPurgeDead(gone) ==
    /\ revivals < MaxRevivals /\ revivals' = revivals + 1
    /\ gone # {} /\ gone \subseteq Rows("dead")
    /\ rows' = [j \in Jobs |-> IF j \in gone THEN NoRow ELSE rows[j]]
    /\ UNCHANGED <<backend, order, reclaimDue, expiries>>

\* The process that held the map is gone.
MemoryLost ==
    /\ rows' = [j \in Jobs |-> NoRow] /\ order' = <<>>
    /\ UNCHANGED <<backend, reclaimDue, expiries, revivals>>
=============================================================================
