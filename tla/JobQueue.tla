------------------------------ MODULE JobQueue ------------------------------
(***************************************************************************)
(* What every review queue promises its callers                            *)
(* (the ReviewQueue interface of packages/core/src/queue.ts): the life of  *)
(* a job under a given id, without order, delays, locks or storage.        *)
(* SqliteQueue and MemoryQueue implement it.                               *)
(***************************************************************************)
EXTENDS Integers

CONSTANTS Jobs,          \* explicit job ids
          MaxAttempts    \* options.maxAttempts

VARIABLES durable,   \* jobs outlive the process, and silent workers lose them
          status, attempt

jobVars == <<durable, status, attempt>>

JobInit ==
    /\ durable \in BOOLEAN
    /\ status = [j \in Jobs |-> "absent"] /\ attempt = [j \in Jobs |-> 0]

Becomes(j, s) == status' = [status EXCEPT ![j] = s] /\ UNCHANGED durable

\* enqueue: an id that exists is never enqueued again.
Enqueued(j) == status[j] = "absent" /\ Becomes(j, "queued") /\ UNCHANGED attempt

\* dequeue: one job becomes running and uses an attempt.
Claimed(j) ==
    /\ status[j] = "queued" /\ Becomes(j, "running")
    /\ attempt' = [attempt EXCEPT ![j] = @ + 1]

Completed(j) == status[j] = "running" /\ Becomes(j, "completed") /\ UNCHANGED attempt

\* fail: another attempt, or the dead letters when there is none left.
Retried(j) ==
    /\ status[j] = "running" /\ attempt[j] < MaxAttempts
    /\ Becomes(j, "queued") /\ UNCHANGED attempt

Buried(j) ==
    /\ status[j] = "running" /\ attempt[j] >= MaxAttempts
    /\ Becomes(j, "dead") /\ UNCHANGED attempt

\* requeueDead starts the attempts again, purgeDead forgets the job.
Revived(j) ==
    /\ status[j] = "dead" /\ Becomes(j, "queued")
    /\ attempt' = [attempt EXCEPT ![j] = 0]

Purged(gone) ==
    /\ UNCHANGED durable
    /\ \A j \in gone : status[j] = "dead"
    /\ status' = [j \in Jobs |-> IF j \in gone THEN "absent" ELSE status[j]]
    /\ attempt' = [j \in Jobs |-> IF j \in gone THEN 0 ELSE attempt[j]]

\* The locks of some running jobs are too old; one dequeue takes them back and
\* claims a job.
Reclaimed(lost, claim) ==
    /\ durable /\ UNCHANGED durable
    /\ \A j \in lost : status[j] = "running"
    /\ \A j \in claim : status[j] = "queued" \/ j \in lost
    /\ status' = [j \in Jobs |-> IF j \in claim THEN "running"
                                 ELSE IF j \in lost THEN "queued" ELSE status[j]]
    /\ attempt' = [j \in Jobs |-> IF j \in claim THEN attempt[j] + 1 ELSE attempt[j]]

\* A queue in memory ends with its process.
Forgotten ==
    /\ ~durable /\ UNCHANGED durable
    /\ status' = [j \in Jobs |-> "absent"] /\ attempt' = [j \in Jobs |-> 0]

JobNext ==
    \/ Forgotten
    \/ \E j \in Jobs : \/ Enqueued(j) \/ Claimed(j) \/ Completed(j) \/ Retried(j)
                       \/ Buried(j) \/ Revived(j)
    \/ \E gone \in SUBSET Jobs : Purged(gone)
    \/ \E lost, claim \in SUBSET Jobs :
          (\A i, j \in claim : i = j) /\ Reclaimed(lost, claim)

JobSpec == JobInit /\ [][JobNext]_jobVars
=============================================================================
