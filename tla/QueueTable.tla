------------------------------ MODULE QueueTable ------------------------------
(***************************************************************************)
(* What the queues of the repository keep of a job                         *)
(* (packages/core/src/queue.ts and sqlite-queue.ts).  One deployment uses  *)
(* one backend; both have the same operations under the same interface, in *)
(* the modules SqliteQueue and MemoryQueue, so that the worker can be      *)
(* checked over either.                                                    *)
(*                                                                         *)
(* Time is abstract: the backoff of a job ends, the lock of a running row  *)
(* becomes older than the time to live, and the interval of the reclaim    *)
(* passes, each as a step of its own.  Every job is enqueued under an      *)
(* explicit id, as the runtime queue does.                                 *)
(***************************************************************************)
EXTENDS Integers, Sequences, FiniteSets, SequencesExt

CONSTANTS Jobs, JobWorkspace,
          MaxAttempts,
          Backends,     \* which backends an instance considers
          MaxExpiries,  \* bound on locks that become too old under a handler
          MaxRevivals   \* bound on requeueDead and purgeDead

ASSUME QueueAssumption ==
    /\ DOMAIN JobWorkspace = Jobs
    /\ Backends \subseteq {"sqlite", "memory"}
    /\ MaxAttempts \in Nat \ {0} /\ MaxExpiries \in Nat /\ MaxRevivals \in Nat

VARIABLES backend,     \* which queue this deployment uses
          rows,        \* job -> its row, or its entry in the map
          order,       \* sqlite: the jobs that have a row, by seq; memory: pending
          reclaimDue,  \* sqlite: the reclaim interval has passed
          expiries, revivals

queueVars == <<backend, rows, order, reclaimDue, expiries, revivals>>

NoRow == [status |-> "absent", attempt |-> 0, waits |-> FALSE, old |-> FALSE]
QueuedRow == [NoRow EXCEPT !.status = "queued"]

QueueInit ==
    /\ backend \in Backends
    /\ rows = [j \in Jobs |-> NoRow]
    /\ order = <<>>
    /\ reclaimDue = (backend = "sqlite")
    /\ expiries = 0 /\ revivals = 0

Rows(s) == {j \in Jobs : rows[j].status = s}

\* Faulty: an id that was completed may be enqueued again.
EnqueueAgain(j) ==
    /\ rows[j].status \in {"absent", "completed"}
    /\ rows' = [rows EXCEPT ![j] = QueuedRow]
    /\ order' = Append(SelectSeq(order, LAMBDA i : i # j), j)
    /\ UNCHANGED <<backend, reclaimDue, expiries, revivals>>

\* enqueue: an existing id is returned as it is, whatever its status.
Enqueue(j) ==
    /\ rows[j].status = "absent"
    /\ rows' = [rows EXCEPT ![j] = QueuedRow]
    /\ order' = Append(order, j)
    /\ UNCHANGED <<backend, reclaimDue, expiries, revivals>>

\* The first of the jobs s in the order of the backend; empty when there is none.
FirstOf(s) ==
    {order[i] : i \in {i \in 1..Len(order) :
                         order[i] \in s /\ \A k \in 1..(i - 1) : order[k] \notin s}}

\* What dequeue may claim from a table t.
Eligible(t, excluded) ==
    {j \in Jobs : t[j].status = "queued" /\ ~t[j].waits /\ JobWorkspace[j] \notin excluded}

\* The row of a claimed job.
Claimed(row) == [row EXCEPT !.status = "running", !.attempt = @ + 1]

\* complete: nothing unless the job is running.
Complete(j) ==
    /\ rows' = IF rows[j].status = "running"
               THEN [rows EXCEPT ![j].status = "completed", ![j].old = FALSE] ELSE rows
    /\ UNCHANGED <<backend, order, reclaimDue, expiries, revivals>>

BackoffEnds(j) ==
    /\ rows[j].waits
    /\ rows' = [rows EXCEPT ![j].waits = FALSE]
    /\ UNCHANGED <<backend, order, reclaimDue, expiries, revivals>>

QueueTypeOK ==
    /\ backend \in Backends
    /\ rows \in [Jobs -> [status : {"absent", "queued", "running", "completed", "dead"},
                          attempt : Nat, waits : BOOLEAN, old : BOOLEAN]]
    /\ order \in Seq(Jobs)
    /\ reclaimDue \in BOOLEAN
    /\ expiries \in 0..MaxExpiries /\ revivals \in 0..MaxRevivals

Promise == INSTANCE JobQueue WITH
    durable <- (backend = "sqlite"),
    status <- [j \in Jobs |-> rows[j].status],
    attempt <- [j \in Jobs |-> rows[j].attempt]

\* Either queue keeps the promise of the interface.
KeepsPromise == Promise!JobSpec
=============================================================================
