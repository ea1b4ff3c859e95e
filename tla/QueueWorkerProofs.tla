-------------------------- MODULE QueueWorkerProofs --------------------------
(***************************************************************************)
(* Proofs about the queue worker over either review queue, for any number  *)
(* of jobs, workspaces, slots and faults.  The rows carry no owner, so that*)
(* one execution per job and true outcomes rest on who is using a job; the *)
(* pool of permits matters to neither.                                     *)
(***************************************************************************)
EXTENDS QueueWorker, FiniteSetTheorems, TLAPS

JobStatus == {"absent", "queued", "running", "completed", "dead"}
\* A row as the queues write it: no attempt is counted before the first claim.
Row == {r \in [status : JobStatus, attempt : Nat, waits : BOOLEAN, old : BOOLEAN] :
           r.status = "absent" => r.attempt = 0}
Slot == [job : Jobs \cup {None},
         phase : {"free", "working", "completing", "failing"}]

Types == /\ backend \in {"sqlite", "memory"} /\ rows \in [Jobs -> Row]
         /\ slots \in [Slots -> Slot] /\ claimed \in Jobs \cup {None}
         /\ expiries \in Nat /\ faults \in Nat /\ running \in BOOLEAN

\* Only a running row of the durable queue has a lock that can be old.
LocksOK == \A j \in Jobs : rows[j].old => rows[j].status = "running" /\ backend = "sqlite"

SlotsOK == /\ \A s \in Slots : slots[s].phase = "free" <=> slots[s].job = None
           /\ poll = "claimed" <=> claimed # None

DrainOK == /\ drain # "no" => ~running
           /\ drain = "drained" => Busy = {} /\ poll = "stopped"

\* Slot s, or the poll, has job j.
Has(s, j) == slots[s].job = j
Fresh(j) == rows[j].status = "running" /\ ~rows[j].old

\* Until a lock becomes too old under its user, a job has one user, and its row
\* is running under a fresh lock.
UsersOK ==
    expiries = 0 => \A j \in Jobs :
       /\ \A s \in Slots : Has(s, j) => Fresh(j) /\ claimed # j
       /\ \A s, q \in Slots : Has(s, j) /\ Has(q, j) => s = q
       /\ claimed = j => Fresh(j)

\* What succeeded says of the slots and the rows.
SuccessOK ==
    /\ \A s \in Slots : slots[s].phase = "completing" => slots[s].job \in succeeded
    /\ \A j \in Jobs : rows[j].status = "completed" => j \in succeeded

\* A job that was handled is completed, or its user is about to complete it.
HandledOK ==
    expiries = 0 /\ faults = 0 => \A j \in Jobs \cap succeeded :
       \/ rows[j].status = "completed"
       \/ \E s \in Slots : Has(s, j) /\ slots[s].phase = "completing"

WInv == Types /\ LocksOK /\ SlotsOK /\ DrainOK /\ UsersOK /\ SuccessOK /\ HandledOK

LEMMA Apart == None \notin Jobs
BY WorkerAssumption

-----------------------------------------------------------------------------
(* The queue: the rows its operations write. *)

LEMMA RowsWritten ==
    /\ NoRow \in Row /\ NoRow.status = "absent" /\ NoRow.attempt = 0 /\ ~NoRow.old
    /\ QueuedRow \in Row /\ QueuedRow.status = "queued" /\ QueuedRow.attempt = 0
    /\ ~QueuedRow.old
    /\ \A r \in Row : /\ Claimed(r) \in Row /\ Claimed(r).status = "running"
                      /\ Claimed(r).attempt = r.attempt + 1 /\ Claimed(r).old = r.old
<1>1. /\ NoRow \in Row /\ NoRow.status = "absent" /\ NoRow.attempt = 0 /\ ~NoRow.old
  BY DEF NoRow, Row, JobStatus
<1>2. /\ QueuedRow \in Row /\ QueuedRow.status = "queued" /\ QueuedRow.attempt = 0
      /\ ~QueuedRow.old
  BY DEF QueuedRow, NoRow, Row, JobStatus
<1>3. ASSUME NEW r \in Row
      PROVE  /\ Claimed(r) \in Row /\ Claimed(r).status = "running"
             /\ Claimed(r).attempt = r.attempt + 1 /\ Claimed(r).old = r.old
  <2>1. r.attempt \in Nat /\ r.attempt + 1 \in Nat
    BY DEF Row
  <2> QED BY <2>1 DEF Claimed, Row, JobStatus
<1> QED BY <1>1, <1>2, <1>3

\* The row of j after the locks of some jobs were taken back.
Back(j, lost) == IF j \in lost THEN [rows[j] EXCEPT !.status = "queued", !.old = FALSE]
                 ELSE rows[j]

\* The first of a set of jobs is one of them, or there is none.
LEMMA FirstIsOne ==
    ASSUME NEW s
    PROVE  FirstOf(s) \subseteq s /\ \A i, j \in FirstOf(s) : i = j
<1> SUFFICES ASSUME NEW i \in FirstOf(s), NEW j \in FirstOf(s) PROVE i \in s /\ i = j
  OBVIOUS
<1>1. PICK a \in 1..Len(order) : /\ i = order[a] /\ order[a] \in s
                                 /\ \A k \in 1..(a - 1) : order[k] \notin s
  BY DEF FirstOf
<1>2. PICK b \in 1..Len(order) : /\ j = order[b] /\ order[b] \in s
                                 /\ \A k \in 1..(b - 1) : order[k] \notin s
  BY DEF FirstOf
<1>3. a \in Int /\ b \in Int /\ 1 <= a /\ 1 <= b
  OBVIOUS
<1>4. ~(a < b) /\ ~(b < a)
  BY <1>1, <1>2, <1>3
<1>5. a = b
  BY <1>3, <1>4
<1> QED BY <1>1, <1>2, <1>5

\* What a dequeue does to the rows: it may take back old locks, and claims at
\* most one queued job.
LEMMA DequeueRows ==
    ASSUME Types, LocksOK, NEW excluded, NEW claim \in SUBSET Jobs, Dequeue(excluded, claim)
    PROVE  /\ UNCHANGED <<backend, expiries, revivals>>
           /\ \A i, j \in claim : i = j
           /\ \E lost \in SUBSET Jobs :
                 /\ lost # {} => backend = "sqlite"
                 /\ \A j \in lost : rows[j].status = "running" /\ rows[j].old
                 /\ \A j \in claim : rows[j].status = "queued" \/ j \in lost
                 /\ rows' = [j \in Jobs |-> IF j \in claim THEN Claimed(Back(j, lost))
                                            ELSE Back(j, lost)]
<1>1. CASE backend = "sqlite"
  <2> DEFINE lost == IF reclaimDue
                     THEN {j \in Jobs : rows[j].status = "running" /\ rows[j].old} ELSE {}
             table == IF reclaimDue THEN ReclaimedOld(rows) ELSE rows
  <2>1. SqliteDequeue(excluded, claim)
    BY <1>1 DEF Dequeue
  <2>2. \A j \in Jobs : table[j] = Back(j, lost)
    BY DEF ReclaimedOld, Back
  <2>3. claim = FirstOf(Eligible(table, excluded))
        /\ rows' = [j \in Jobs |-> IF j \in claim THEN Claimed(table[j]) ELSE table[j]]
    BY <2>1 DEF SqliteDequeue
  <2>4. \A j \in claim : j \in Jobs /\ table[j].status = "queued"
    BY <2>3, FirstIsOne DEF Eligible
  <2>5. \A j \in claim : rows[j].status = "queued" \/ j \in lost
    BY <2>2, <2>4 DEF Back
  <2>6. rows' = [j \in Jobs |-> IF j \in claim THEN Claimed(Back(j, lost))
                                ELSE Back(j, lost)]
    BY <2>2, <2>3
  <2>7. UNCHANGED <<backend, expiries, revivals>> /\ \A i, j \in claim : i = j
    BY <2>1, <2>3, FirstIsOne DEF SqliteDequeue
  <2>8. lost \in SUBSET Jobs /\ \A j \in lost : rows[j].status = "running" /\ rows[j].old
    OBVIOUS
  <2> QED BY <1>1, <2>5, <2>6, <2>7, <2>8
<1>2. CASE backend = "memory"
  <2>1. MemoryDequeue(excluded, claim)
    BY <1>2 DEF Dequeue
  <2>2. \A j \in claim : rows[j].status = "queued"
    BY <2>1, FirstIsOne DEF MemoryDequeue, Eligible
  <2>3. \A i, j \in claim : i = j
    BY <2>1, FirstIsOne DEF MemoryDequeue
  <2>4. /\ rows' = [j \in Jobs |-> IF j \in claim THEN Claimed(rows[j]) ELSE rows[j]]
        /\ UNCHANGED <<backend, expiries, revivals>>
    BY <2>1 DEF MemoryDequeue
  <2> DEFINE lost == {}
  <2>5. \A j \in Jobs : Back(j, lost) = rows[j]
    BY DEF Back
  <2>6. /\ lost \in SUBSET Jobs
        /\ lost # {} => backend = "sqlite"
        /\ \A j \in lost : rows[j].status = "running" /\ rows[j].old
        /\ \A j \in claim : rows[j].status = "queued" \/ j \in lost
        /\ rows' = [j \in Jobs |-> IF j \in claim THEN Claimed(Back(j, lost))
                                   ELSE Back(j, lost)]
    BY <2>2, <2>4, <2>5
  <2> HIDE DEF lost
  <2> QED BY <2>3, <2>4, <2>6
<1> QED BY <1>1, <1>2 DEF Types

\* complete changes a running row only.
LEMMA CompleteRows ==
    ASSUME Types, NEW j \in Jobs, Complete(j)
    PROVE  /\ UNCHANGED <<backend, expiries, revivals>> /\ rows' \in [Jobs -> Row]
           /\ rows[j].status # "running" => rows' = rows
           /\ rows[j].status = "running" =>
                 /\ rows'[j].status = "completed" /\ ~rows'[j].old
                 /\ rows'[j].attempt = rows[j].attempt
           /\ \A i \in Jobs \ {j} : rows'[i] = rows[i]
<1>1. UNCHANGED <<backend, expiries, revivals>>
  BY DEF Complete
<1>2. CASE rows[j].status # "running"
  BY <1>1, <1>2 DEF Complete, Types
<1>3. CASE rows[j].status = "running"
  <2>1. rows' = [rows EXCEPT ![j] = [@ EXCEPT !.status = "completed", !.old = FALSE]]
    BY <1>3 DEF Complete
  <2>2. [rows[j] EXCEPT !.status = "completed", !.old = FALSE] \in Row
    BY DEF Types, Row, JobStatus
  <2> QED BY <1>1, <1>3, <2>1, <2>2 DEF Types, Row
<1> QED BY <1>2, <1>3

\* fail, of either queue, changes a running row only: back in the queue while
\* attempts remain, else dead.
LEMMA FailRows ==
    ASSUME Types, LocksOK, NEW j \in Jobs, Fail(j)
    PROVE  /\ UNCHANGED <<backend, expiries, revivals>> /\ rows' \in [Jobs -> Row]
           /\ rows[j].status # "running" => rows' = rows
           /\ rows[j].status = "running" =>
                 /\ rows'[j].status = IF rows[j].attempt < MaxAttempts THEN "queued" ELSE "dead"
                 /\ ~rows'[j].old /\ rows'[j].attempt = rows[j].attempt
           /\ \A i \in Jobs \ {j} : rows'[i] = rows[i]
<1>1. UNCHANGED <<backend, expiries, revivals>>
  BY DEF Fail, SqliteFail, MemoryFail
<1>2. CASE rows[j].status # "running"
  BY <1>1, <1>2 DEF Fail, SqliteFail, MemoryFail, Types
<1>3. CASE rows[j].status = "running"
  <2> DEFINE again(old) == [rows[j] EXCEPT !.status = "queued", !.waits = TRUE, !.old = old]
             dead(old) == [rows[j] EXCEPT !.status = "dead", !.old = old]
  <2>1. rows[j] \in Row
    BY DEF Types
  <2>2. /\ again(FALSE) \in Row /\ again(FALSE).status = "queued" /\ ~again(FALSE).old
        /\ again(FALSE).attempt = rows[j].attempt
        /\ dead(FALSE) \in Row /\ dead(FALSE).status = "dead" /\ ~dead(FALSE).old
        /\ dead(FALSE).attempt = rows[j].attempt
    BY <2>1 DEF Row, JobStatus
  <2>3. rows' = [rows EXCEPT ![j] = IF rows[j].attempt < MaxAttempts THEN again(FALSE)
                                    ELSE dead(FALSE)]
    <3>1. CASE backend = "sqlite"
      BY <1>3, <2>1, <3>1 DEF Fail, SqliteFail, Types
    <3>2. CASE backend = "memory"
      <4>1. rows[j].old = FALSE
        BY <2>1, <3>2 DEF LocksOK, Row
      <4>2. rows' = [rows EXCEPT ![j] = IF rows[j].attempt < MaxAttempts
                        THEN [@ EXCEPT !.status = "queued", !.waits = TRUE]
                        ELSE [@ EXCEPT !.status = "dead"]]
        BY <1>3, <3>2 DEF Fail, MemoryFail
      <4>3. /\ again(FALSE) = [rows[j] EXCEPT !.status = "queued", !.waits = TRUE]
            /\ dead(FALSE) = [rows[j] EXCEPT !.status = "dead"]
        BY <2>1, <4>1 DEF Row
      <4> QED BY <4>2, <4>3
    <3> QED BY <3>1, <3>2 DEF Types
  <2> HIDE DEF again, dead
  <2> QED BY <1>1, <1>3, <2>2, <2>3 DEF Types
<1> QED BY <1>2, <1>3

-----------------------------------------------------------------------------
(* Steps that change no user of a job. *)

Used(j) == claimed = j \/ \E s \in Slots : Has(s, j)

\* The rows change under the worker: jobs nobody uses, or an old lock.
LEMMA RowsOnly ==
    ASSUME WInv, UNCHANGED <<backend, workerVars>>, rows' \in [Jobs -> Row],
           expiries' \in Nat, expiries' = 0 => expiries = 0,
           \A j \in Jobs :
              /\ rows'[j].old => rows'[j].status = "running" /\ backend = "sqlite"
              /\ rows'[j].status = "completed" <=> rows[j].status = "completed"
              /\ expiries' = 0 /\ Used(j) /\ Fresh(j) => Fresh(j)'
    PROVE  WInv'
<1>1. Types' /\ LocksOK' /\ SlotsOK' /\ DrainOK'
  BY DEF WInv, Types, LocksOK, SlotsOK, DrainOK, Busy, workerVars
<1>2. UsersOK'
  BY DEF WInv, UsersOK, Has, Used, workerVars
<1>3. SuccessOK' /\ HandledOK'
  BY DEF WInv, SuccessOK, HandledOK, Has, workerVars
<1> QED BY <1>1, <1>2, <1>3 DEF WInv

\* The worker moves on, and neither a row nor a user of a job changes.
LEMMA UsersKept ==
    ASSUME WInv, UNCHANGED <<backend, rows, expiries, claimed, slots, succeeded>>,
           faults' \in Nat, faults' = 0 => faults = 0, running' \in BOOLEAN,
           poll' = "claimed" <=> poll = "claimed", DrainOK'
    PROVE  WInv'
<1>1. Types' /\ LocksOK' /\ SlotsOK'
  BY DEF WInv, Types, LocksOK, SlotsOK
<1>2. UsersOK' /\ SuccessOK' /\ HandledOK'
  BY DEF WInv, UsersOK, Has, Fresh, SuccessOK, HandledOK
<1> QED BY <1>1, <1>2 DEF WInv

LEMMA QueueStep ==
    ASSUME WInv,
           \/ \E j \in Jobs : EnqueueJob(j) \/ Revive(j) \/ LockExpires(j) \/ DelayPasses(j)
           \/ Purge
    PROVE  WInv'
<1>0. /\ Types /\ LocksOK /\ UsersOK /\ \A j \in Jobs : rows[j] \in Row
      /\ \A j \in Jobs : expiries = 0 /\ Used(j) => Fresh(j)
  BY DEF WInv, Types, UsersOK, Used
<1>1. ASSUME NEW j \in Jobs, EnqueueJob(j) \/ Revive(j) PROVE WInv'
  <2>1. /\ rows[j].status \in {"absent", "dead"}
        /\ rows' = [rows EXCEPT ![j] = QueuedRow]
        /\ UNCHANGED <<backend, expiries, workerVars>>
    BY <1>1 DEF EnqueueJob, Enqueue, Revive, RequeueDead, SqliteRequeueDead, MemoryRequeueDead
  <2>2. rows'[j] = QueuedRow /\ \A i \in Jobs \ {j} : rows'[i] = rows[i]
    BY <1>0, <2>1 DEF Types
  <2>3. rows' \in [Jobs -> Row]
    BY <1>0, <2>1, RowsWritten DEF Types
  <2>4. expiries' \in Nat /\ (expiries' = 0 => expiries = 0)
    BY <1>0, <2>1 DEF Types
  <2>5. ASSUME NEW i \in Jobs
        PROVE  /\ rows'[i].old => rows'[i].status = "running" /\ backend = "sqlite"
               /\ rows'[i].status = "completed" <=> rows[i].status = "completed"
               /\ expiries' = 0 /\ Used(i) /\ Fresh(i) => Fresh(i)'
    BY <1>0, <2>1, <2>2, RowsWritten DEF LocksOK, Fresh
  <2> QED BY <2>1, <2>3, <2>4, <2>5, RowsOnly
<1>2. CASE Purge
  <2>1. PICK gone \in SUBSET Rows("dead") :
           /\ rows' = [j \in Jobs |-> IF j \in gone THEN NoRow ELSE rows[j]]
           /\ UNCHANGED <<backend, expiries, workerVars>>
    BY <1>2 DEF Purge, PurgeDead, SqlitePurgeDead, MemoryPurgeDead
  <2>2. \A j \in gone : rows[j].status = "dead"
    BY DEF Rows
  <2>3. rows' \in [Jobs -> Row]
    BY <1>0, <2>1, RowsWritten
  <2>4. expiries' \in Nat /\ (expiries' = 0 => expiries = 0)
    BY <1>0, <2>1 DEF Types
  <2>5. ASSUME NEW i \in Jobs
        PROVE  /\ rows'[i].old => rows'[i].status = "running" /\ backend = "sqlite"
               /\ rows'[i].status = "completed" <=> rows[i].status = "completed"
               /\ expiries' = 0 /\ Used(i) /\ Fresh(i) => Fresh(i)'
    BY <1>0, <2>1, <2>2, RowsWritten DEF LocksOK, Fresh
  <2> QED BY <2>1, <2>3, <2>4, <2>5, RowsOnly
<1>3. ASSUME NEW j \in Jobs, LockExpires(j) PROVE WInv'
  <2>1. /\ backend = "sqlite" /\ rows[j].status = "running"
        /\ rows' = [rows EXCEPT ![j] = [@ EXCEPT !.old = TRUE]]
        /\ UNCHANGED <<backend, workerVars>>
        /\ IF WorksOn(j) = {} /\ claimed # j THEN UNCHANGED expiries
           ELSE expiries' = expiries + 1
    BY <1>3 DEF LockExpires, LockAges
  <2>2. /\ rows' \in [Jobs -> Row] /\ rows'[j].status = "running"
        /\ \A i \in Jobs \ {j} : rows'[i] = rows[i]
    <3>1. /\ [rows[j] EXCEPT !.old = TRUE] \in Row
          /\ [rows[j] EXCEPT !.old = TRUE].status = "running"
      BY <1>0, <2>1 DEF Row
    <3> QED BY <1>0, <2>1, <3>1 DEF Types
  <2>3. expiries' \in Nat /\ (expiries' = 0 => expiries = 0 /\ ~Used(j))
    BY <1>0, <2>1 DEF Types, Used, WorksOn, Has
  <2>4. ASSUME NEW i \in Jobs
        PROVE  /\ rows'[i].old => rows'[i].status = "running" /\ backend = "sqlite"
               /\ rows'[i].status = "completed" <=> rows[i].status = "completed"
               /\ expiries' = 0 /\ Used(i) /\ Fresh(i) => Fresh(i)'
    BY <1>0, <2>1, <2>2, <2>3 DEF LocksOK, Fresh
  <2> QED BY <2>1, <2>2, <2>3, <2>4, RowsOnly
<1>4. ASSUME NEW j \in Jobs, DelayPasses(j) PROVE WInv'
  <2>1. /\ rows' = [rows EXCEPT ![j] = [@ EXCEPT !.waits = FALSE]]
        /\ UNCHANGED <<backend, expiries, workerVars>>
    BY <1>4 DEF DelayPasses, BackoffEnds
  <2>2. /\ rows' \in [Jobs -> Row]
        /\ \A i \in Jobs : rows'[i].status = rows[i].status /\ rows'[i].old = rows[i].old
    <3>1. /\ [rows[j] EXCEPT !.waits = FALSE] \in Row
          /\ [rows[j] EXCEPT !.waits = FALSE].status = rows[j].status
          /\ [rows[j] EXCEPT !.waits = FALSE].old = rows[j].old
      BY <1>0 DEF Row
    <3> QED BY <1>0, <2>1, <3>1 DEF Types
  <2>3. expiries' \in Nat /\ (expiries' = 0 => expiries = 0)
    BY <1>0, <2>1 DEF Types
  <2>4. ASSUME NEW i \in Jobs
        PROVE  /\ rows'[i].old => rows'[i].status = "running" /\ backend = "sqlite"
               /\ rows'[i].status = "completed" <=> rows[i].status = "completed"
               /\ expiries' = 0 /\ Used(i) /\ Fresh(i) => Fresh(i)'
    BY <1>0, <2>2 DEF LocksOK, Fresh
  <2> QED BY <2>1, <2>2, <2>3, <2>4, RowsOnly
<1> QED BY <1>1, <1>2, <1>3, <1>4

\* The poll loop and stop(), apart from the claim and its delivery; the pool.
LEMMA QuietStep ==
    ASSUME WInv,
           \/ StartWorker \/ PollTimer \/ BeforePoll \/ IntervalPasses \/ StopWorker \/ Drained
           \/ Others \/ PoolTimer \/ \E s \in Slots : Continue(s)
    PROVE  WInv'
<1>0. Types /\ SlotsOK /\ DrainOK
  BY DEF WInv
<1>1. ASSUME UNCHANGED <<backend, rows, expiries, workerVars>> PROVE WInv'
  <2>1. DrainOK' /\ faults' \in Nat /\ running' \in BOOLEAN
    BY <1>0, <1>1 DEF DrainOK, Busy, workerVars, Types
  <2> QED BY <1>1, <2>1, UsersKept DEF workerVars
<1>2. CASE StartWorker
  <2>1. /\ UNCHANGED <<backend, rows, expiries, claimed, slots, succeeded, drain, faults>>
        /\ running' = TRUE /\ poll' = "before" /\ poll = "stopped" /\ drain = "no"
    BY <1>2 DEF StartWorker, queueVars
  <2>2. DrainOK' /\ faults' \in Nat
    BY <1>0, <2>1 DEF DrainOK, Types
  <2> QED BY <2>1, <2>2, UsersKept
<1>3. CASE PollTimer
  <2>1. /\ UNCHANGED <<backend, rows, expiries, claimed, slots, succeeded, drain, faults, running>>
        /\ poll' = "before" /\ poll = "idle"
    BY <1>3 DEF PollTimer, queueVars
  <2>2. DrainOK' /\ faults' \in Nat /\ running' \in BOOLEAN
    BY <1>0, <2>1 DEF DrainOK, Types
  <2> QED BY <2>1, <2>2, UsersKept
<1>4. CASE BeforePoll
  <2>1. /\ UNCHANGED <<backend, rows, expiries, claimed, slots, succeeded, drain, running>>
        /\ poll = "before" /\ poll' \in {"loop", "idle", "stopped"}
        /\ faults' = faults \/ faults' = faults + 1
    BY <1>4 DEF BeforePoll, EndPoll, Fault, queueVars
  <2>2. DrainOK' /\ faults' \in Nat /\ running' \in BOOLEAN /\ (faults' = 0 => faults = 0)
    BY <1>0, <2>1 DEF DrainOK, Types
  <2> QED BY <2>1, <2>2, UsersKept
<1>5. CASE StopWorker
  <2>1. /\ UNCHANGED <<backend, rows, expiries, claimed, slots, succeeded, faults>>
        /\ running' = FALSE /\ drain' = "waiting"
        /\ poll' = IF poll = "idle" THEN "stopped" ELSE poll
    BY <1>5 DEF StopWorker, queueVars
  <2>2. DrainOK' /\ faults' \in Nat /\ (poll' = "claimed" <=> poll = "claimed")
    BY <1>0, <2>1 DEF DrainOK, Types
  <2> QED BY <2>1, <2>2, UsersKept
<1>6. CASE Drained
  <2>1. /\ UNCHANGED <<backend, rows, expiries, claimed, slots, succeeded, faults, running, poll>>
        /\ drain = "waiting" /\ Busy = {} /\ poll = "stopped"
    BY <1>6 DEF Drained, queueVars
  <2>2. DrainOK' /\ faults' \in Nat /\ running' \in BOOLEAN
    BY <1>0, <2>1 DEF DrainOK, Types, Busy
  <2> QED BY <2>1, <2>2, UsersKept
<1>7. CASE IntervalPasses
  BY <1>1, <1>7 DEF IntervalPasses, ReclaimIntervalPasses
<1>8. CASE Others
  BY <1>1, <1>8 DEF Others, queueVars
<1>9. CASE PoolTimer
  BY <1>1, <1>9 DEF PoolTimer, queueVars
<1>10. ASSUME NEW s \in Slots, Continue(s) PROVE WInv'
  BY <1>1, <1>10 DEF Continue, queueVars
<1> QED BY <1>2, <1>3, <1>4, <1>5, <1>6, <1>7, <1>8, <1>9, <1>10

-----------------------------------------------------------------------------
(* Steps that give a job its user or take it away. *)

LEMMA ClaimStep ==
    ASSUME WInv, Claim
    PROVE  WInv'
<1>0. /\ Types /\ LocksOK /\ SlotsOK /\ DrainOK /\ UsersOK /\ SuccessOK /\ HandledOK
      /\ poll = "loop" /\ claimed = None
      /\ UNCHANGED <<running, slots, drain, succeeded, faults>>
  BY DEF WInv, SlotsOK, Claim
<1>1. CASE ~MayClaim
  <2>1. UNCHANGED <<backend, rows, expiries, claimed>> /\ poll' \in {"idle", "stopped"}
    BY <1>1 DEF Claim, EndPoll, queueVars
  <2>2. DrainOK' /\ faults' \in Nat /\ running' \in BOOLEAN
    BY <1>0, <2>1 DEF DrainOK, Types
  <2> QED BY <1>0, <2>1, <2>2, UsersKept
<1>2. CASE MayClaim
  <2>1. PICK claim \in SUBSET Jobs :
           /\ Dequeue(Blocked, claim)
           /\ IF claim = {} THEN EndPoll /\ UNCHANGED claimed
              ELSE poll' = "claimed" /\ claimed' = CHOOSE j \in claim : TRUE
    BY <1>2 DEF Claim
  <2>2. UNCHANGED <<backend, expiries>> /\ \A i, j \in claim : i = j
    BY <1>0, <2>1, DequeueRows
  <2>3. PICK lost \in SUBSET Jobs :
           /\ \A j \in lost : rows[j].status = "running" /\ rows[j].old
           /\ \A j \in claim : rows[j].status = "queued" \/ j \in lost
           /\ rows' = [j \in Jobs |-> IF j \in claim THEN Claimed(Back(j, lost))
                                      ELSE Back(j, lost)]
    BY <1>0, <2>1, DequeueRows
  <2>4. ASSUME NEW j \in Jobs
        PROVE  /\ rows[j] \in Row /\ Back(j, lost) \in Row /\ rows'[j] \in Row
               /\ j \in lost \ claim => rows'[j].status = "queued" /\ ~rows'[j].old
               /\ j \in claim => rows'[j].status = "running" /\ ~rows'[j].old
               /\ j \notin lost \cup claim => rows'[j] = rows[j]
    <3>1. rows[j] \in Row
      BY <1>0 DEF Types
    <3>2. /\ Back(j, lost) \in Row
          /\ j \in lost => Back(j, lost).status = "queued" /\ ~Back(j, lost).old
          /\ j \notin lost => Back(j, lost) = rows[j]
      BY <3>1 DEF Back, Row, JobStatus
    <3>3. j \in claim => ~Back(j, lost).old
      BY <1>0, <2>3, <3>2 DEF LocksOK
    <3> QED BY <2>3, <3>1, <3>2, <3>3, RowsWritten
  <2>5. rows' \in [Jobs -> Row]
    BY <2>3, <2>4
  <2>6. ASSUME expiries = 0, NEW j \in Jobs, NEW s \in Slots, Has(s, j)
        PROVE  j \notin claim \cup lost
    BY <1>0, <2>3, <2>6 DEF UsersOK, Fresh
  <2>7. claimed' \in claim \cup {None} /\ (claimed' # None => claimed' \in claim)
        /\ (poll' = "claimed" <=> claimed' # None) /\ poll' \in {"claimed", "idle", "stopped"}
    BY <1>0, <2>1, Apart DEF EndPoll
  <2>8. Types'
    BY <1>0, <2>2, <2>5, <2>7 DEF Types
  <2>9. LocksOK'
    BY <1>0, <2>2, <2>4 DEF LocksOK
  <2>10. SlotsOK' /\ DrainOK'
    BY <1>0, <2>7 DEF SlotsOK, DrainOK
  <2>11. UsersOK'
    <3>1. ASSUME expiries = 0, NEW j \in Jobs
          PROVE  /\ \A s \in Slots : Has(s, j) => Fresh(j)' /\ claimed' # j
                 /\ \A s, q \in Slots : Has(s, j) /\ Has(q, j) => s = q
                 /\ claimed' = j => Fresh(j)'
      <4>1. ASSUME NEW s \in Slots, Has(s, j) PROVE Fresh(j)' /\ claimed' # j
        <5>1. rows'[j] = rows[j] /\ Fresh(j) /\ j \notin claim
          BY <1>0, <2>4, <2>6, <3>1, <4>1 DEF UsersOK
        <5> QED BY <2>7, <5>1, Apart DEF Fresh
      <4>2. claimed' = j => Fresh(j)'
        BY <2>4, <2>7, Apart DEF Fresh
      <4> QED BY <1>0, <3>1, <4>1, <4>2 DEF UsersOK
    <3> QED BY <1>0, <2>2, <3>1 DEF UsersOK, Has
  <2>12. \A j \in Jobs : rows'[j].status = "completed" <=> rows[j].status = "completed"
    BY <2>3, <2>4
  <2>13. SuccessOK' /\ HandledOK'
    BY <1>0, <2>2, <2>12 DEF SuccessOK, HandledOK, Has
  <2> QED BY <2>8, <2>9, <2>10, <2>11, <2>13 DEF WInv
<1> QED BY <1>1, <1>2

LEMMA DeliverStep ==
    ASSUME WInv, Deliver
    PROVE  WInv'
<1>0. /\ Types /\ LocksOK /\ SlotsOK /\ DrainOK /\ UsersOK /\ SuccessOK /\ HandledOK
      /\ poll = "claimed" /\ claimed \in Jobs /\ claimed' = None
      /\ UNCHANGED <<backend, rows, expiries, running, drain, succeeded>>
      /\ poll' \in {"loop", "idle", "stopped"} /\ drain # "drained"
  BY Apart DEF WInv, SlotsOK, DrainOK, Types, Deliver, EndPoll, queueVars
<1>1. /\ claimed' \in Jobs \cup {None} /\ LocksOK' /\ DrainOK'
      /\ poll' = "claimed" <=> claimed' # None
  BY <1>0 DEF LocksOK, DrainOK
<1>2. CASE UNCHANGED slots /\ Fault
  <2>1. faults' \in Nat /\ faults' # 0
    BY <1>0, <1>2 DEF Types, Fault
  <2>2. Types' /\ SlotsOK'
    BY <1>0, <1>1, <1>2, <2>1 DEF Types, SlotsOK
  <2>3. UsersOK' /\ SuccessOK' /\ HandledOK'
    BY <1>0, <1>2, <2>1, Apart DEF UsersOK, Has, Fresh, SuccessOK, HandledOK
  <2> QED BY <1>1, <2>2, <2>3 DEF WInv
<1>3. ASSUME NEW s \in FreeSlots(claimed), UNCHANGED faults,
             slots' = [slots EXCEPT ![s] = [job |-> claimed, phase |-> "working"]]
      PROVE  WInv'
  <2>1. s \in Slots /\ slots[s].phase = "free" /\ slots[s].job = None
    BY <1>0 DEF FreeSlots, Busy, SlotsOK
  <2>2. /\ slots' \in [Slots -> Slot] /\ slots'[s].job = claimed /\ slots'[s].phase = "working"
        /\ \A q \in Slots \ {s} : slots'[q] = slots[q]
    BY <1>0, <1>3, <2>1 DEF Types, Slot
  <2>3. Types' /\ SlotsOK'
    BY <1>0, <1>1, <1>3, <2>2, Apart DEF Types, SlotsOK
  <2>4. UsersOK'
    <3>1. ASSUME expiries = 0, NEW j \in Jobs
          PROVE  /\ \A q \in Slots : Has(q, j)' => Fresh(j)
                 /\ \A q, r \in Slots : Has(q, j)' /\ Has(r, j)' => q = r
      BY <1>0, <2>2, <3>1 DEF UsersOK, Has
    <3> QED BY <1>0, <3>1, Apart DEF UsersOK, Fresh
  <2>5. SuccessOK'
    BY <1>0, <2>2 DEF SuccessOK
  <2>6. HandledOK'
    BY <1>0, <1>3, <2>1, <2>2, Apart DEF HandledOK, Has
  <2> QED BY <1>1, <2>3, <2>4, <2>5, <2>6 DEF WInv
<1> QED BY <1>2, <1>3 DEF Deliver

LEMMA HandlerStep ==
    ASSUME WInv, NEW s \in Slots, HandlerEnds(s)
    PROVE  WInv'
<1>0. /\ Types /\ LocksOK /\ SlotsOK /\ DrainOK /\ UsersOK /\ SuccessOK /\ HandledOK
      /\ UNCHANGED <<backend, rows, expiries, claimed, poll, running, drain, faults>>
      /\ slots[s].phase = "working" /\ slots[s].job \in Jobs
  BY DEF WInv, HandlerEnds, queueVars, SlotsOK, Types, Slot
<1>1. PICK p \in {"completing", "failing"} :
         /\ slots' = [slots EXCEPT ![s] = [@ EXCEPT !.phase = p]]
         /\ succeeded' = IF p = "completing" THEN succeeded \cup {slots[s].job} ELSE succeeded
  BY DEF HandlerEnds
<1>2. /\ slots' \in [Slots -> Slot] /\ slots'[s].job = slots[s].job /\ slots'[s].phase = p
      /\ \A q \in Slots \ {s} : slots'[q] = slots[q]
  BY <1>0, <1>1 DEF Types, Slot
<1>3. \A q \in Slots : slots'[q].job = slots[q].job
  BY <1>2
<1>4. Types' /\ LocksOK'
  BY <1>0, <1>2 DEF Types, LocksOK
<1>5. SlotsOK' /\ DrainOK'
  <2>1. s \in Busy
    BY <1>0 DEF Busy
  <2> QED BY <1>0, <1>2, <1>3, <2>1, Apart DEF SlotsOK, DrainOK
<1>6. UsersOK'
  BY <1>0, <1>3 DEF UsersOK, Has, Fresh
<1>7. SuccessOK'
  BY <1>0, <1>1, <1>2 DEF SuccessOK
<1>8. HandledOK'
  <2>1. ASSUME expiries = 0, faults = 0, NEW j \in Jobs, j \in succeeded'
        PROVE  \/ rows[j].status = "completed"
               \/ \E q \in Slots : slots'[q].job = j /\ slots'[q].phase = "completing"
    <3>1. CASE j \notin succeeded
      BY <1>1, <1>2, <2>1, <3>1
    <3>2. CASE j \in succeeded
      <4>1. CASE rows[j].status = "completed"
        BY <4>1
      <4>2. CASE \E q \in Slots : Has(q, j) /\ slots[q].phase = "completing"
        BY <1>0, <1>2, <4>2 DEF Has
      <4> QED BY <1>0, <2>1, <3>2, <4>1, <4>2 DEF HandledOK
    <3> QED BY <3>1, <3>2
  <2> QED BY <1>0, <2>1 DEF HandledOK, Has
<1> QED BY <1>4, <1>5, <1>6, <1>7, <1>8 DEF WInv

\* The queue call failed: the slot goes to another phase, or is given up.
LEMMA FaultySlot ==
    ASSUME WInv, NEW s \in Slots, NEW v \in {NoSlot, [slots[s] EXCEPT !.phase = "failing"]},
           slots[s].phase \in {"completing", "failing"}, slots' = [slots EXCEPT ![s] = v],
           Fault, UNCHANGED <<backend, rows, expiries, claimed, poll, running, drain, succeeded>>
    PROVE  WInv'
<1>0. /\ Types /\ LocksOK /\ SlotsOK /\ DrainOK /\ UsersOK /\ SuccessOK /\ HandledOK
      /\ slots[s] \in Slot /\ slots[s].job \in Jobs
  BY DEF WInv, SlotsOK, Types, Slot
<1>1. /\ slots' \in [Slots -> Slot] /\ slots'[s] = v
      /\ \A q \in Slots \ {s} : slots'[q] = slots[q]
  BY <1>0 DEF Types, Slot, NoSlot
<1>2. \/ v.job = None /\ v.phase = "free"
      \/ v.job = slots[s].job /\ v.phase = "failing"
  BY <1>0 DEF NoSlot, Slot
<1>3. faults' \in Nat /\ faults' # 0
  BY <1>0 DEF Types, Fault
<1>4. Types' /\ LocksOK'
  BY <1>0, <1>1, <1>3 DEF Types, LocksOK
<1>5. SlotsOK'
  BY <1>0, <1>1, <1>2, Apart DEF SlotsOK
<1>6. DrainOK'
  <2>1. s \in Busy
    BY DEF Busy
  <2> QED BY <1>0, <2>1 DEF DrainOK
<1>7. \A q \in Slots, j \in Jobs : Has(q, j)' => Has(q, j)
  BY <1>1, <1>2, Apart DEF Has
<1>8. UsersOK'
  BY <1>0, <1>7 DEF UsersOK, Fresh
<1>9. SuccessOK' /\ HandledOK'
  BY <1>0, <1>1, <1>2, <1>3 DEF SuccessOK, HandledOK
<1> QED BY <1>4, <1>5, <1>6, <1>8, <1>9 DEF WInv

\* The queue call was made: the slot is free and the row of its job has changed.
LEMMA FreedSlot ==
    ASSUME WInv, NEW s \in Slots, slots[s].phase # "free",
           slots' = [slots EXCEPT ![s] = NoSlot], rows' \in [Jobs -> Row],
           UNCHANGED <<backend, expiries, claimed, poll, running, drain, succeeded, faults>>,
           \A j \in Jobs \ {slots[s].job} : rows'[j] = rows[j],
           rows[slots[s].job].status # "running" => rows' = rows,
           rows[slots[s].job].status = "running" =>
              /\ ~rows'[slots[s].job].old
              /\ \/ /\ slots[s].phase = "completing"
                    /\ rows'[slots[s].job].status = "completed"
                 \/ /\ slots[s].phase = "failing"
                    /\ rows'[slots[s].job].status \in {"queued", "dead"}
    PROVE  WInv'
<1> DEFINE job == slots[s].job
<1>0. /\ Types /\ LocksOK /\ SlotsOK /\ DrainOK /\ UsersOK /\ SuccessOK /\ HandledOK
      /\ slots[s] \in Slot /\ job \in Jobs
  BY DEF WInv, SlotsOK, Types, Slot
<1>1. /\ slots' \in [Slots -> Slot] /\ slots'[s].job = None /\ slots'[s].phase = "free"
      /\ \A q \in Slots \ {s} : slots'[q] = slots[q]
  BY <1>0 DEF Types, Slot, NoSlot
<1> HIDE DEF job
<1>2. Types' /\ LocksOK'
  BY <1>0, <1>1 DEF Types, LocksOK, job
<1>3. SlotsOK'
  BY <1>0, <1>1 DEF SlotsOK
<1>4. DrainOK'
  <2>1. s \in Busy
    BY DEF Busy
  <2> QED BY <1>0, <2>1 DEF DrainOK
<1>5. \A q \in Slots, j \in Jobs : Has(q, j)' => Has(q, j) /\ q # s
  BY <1>1, Apart DEF Has
<1>6. UsersOK'
  <2>1. ASSUME expiries = 0, NEW j \in Jobs
        PROVE  /\ \A q \in Slots : Has(q, j)' => Fresh(j)' /\ claimed # j
               /\ \A q, r \in Slots : Has(q, j)' /\ Has(r, j)' => q = r
               /\ claimed = j => Fresh(j)'
    <3>1. CASE j = job
      BY <1>0, <1>5, <2>1, <3>1 DEF UsersOK, Has, job
    <3>2. CASE j # job
      BY <1>0, <1>5, <2>1, <3>2 DEF UsersOK, Fresh, job
    <3> QED BY <3>1, <3>2
  <2> QED BY <1>0, <2>1 DEF UsersOK
<1>7. SuccessOK'
  <2>1. \A q \in Slots : slots'[q].phase = "completing" => slots'[q].job \in succeeded
    BY <1>0, <1>1 DEF SuccessOK
  <2>2. ASSUME NEW j \in Jobs, rows'[j].status = "completed" PROVE j \in succeeded
    <3>1. CASE rows[j].status = "completed"
      BY <1>0, <3>1 DEF SuccessOK
    <3>2. CASE rows[j].status # "completed"
      <4>1. j = job /\ slots[s].phase = "completing"
        BY <2>2, <3>2 DEF job
      <4> QED BY <1>0, <4>1 DEF SuccessOK, job
    <3> QED BY <3>1, <3>2
  <2> QED BY <2>1, <2>2 DEF SuccessOK
<1>8. HandledOK'
  <2>1. ASSUME expiries = 0, faults = 0, NEW j \in Jobs, j \in succeeded
        PROVE  \/ rows'[j].status = "completed"
               \/ \E q \in Slots : slots'[q].job = j /\ slots'[q].phase = "completing"
    <3>1. CASE rows[j].status = "completed"
      BY <3>1, <1>0 DEF job
    <3>2. CASE \E q \in Slots : Has(q, j) /\ slots[q].phase = "completing"
      <4>1. PICK q \in Slots : Has(q, j) /\ slots[q].phase = "completing"
        BY <3>2
      <4>2. rows[j].status = "running"
        BY <1>0, <2>1, <4>1 DEF UsersOK, Fresh
      <4>3. CASE q = s
        BY <4>1, <4>2, <4>3 DEF Has
      <4>4. CASE q # s
        BY <1>1, <4>1, <4>4 DEF Has
      <4> QED BY <4>3, <4>4
    <3> QED BY <1>0, <2>1, <3>1, <3>2 DEF HandledOK
  <2> QED BY <2>1 DEF HandledOK, Has
<1> QED BY <1>2, <1>3, <1>4, <1>6, <1>7, <1>8 DEF WInv

LEMMA SettleStep ==
    ASSUME WInv, NEW s \in Slots, CompleteJob(s) \/ FailJob(s)
    PROVE  WInv'
<1>0. /\ Types /\ LocksOK /\ SlotsOK /\ slots[s] \in Slot
      /\ slots[s].phase \in {"completing", "failing"}
      /\ UNCHANGED <<claimed, poll, running, drain, succeeded>>
  BY DEF WInv, Types, CompleteJob, FailJob
<1>1. slots[s].job \in Jobs
  BY <1>0 DEF SlotsOK, Slot
<1>2. ASSUME Fault, UNCHANGED queueVars, CompleteJob(s) PROVE WInv'
  <2>1. slots' = [slots EXCEPT ![s] = NoSlot]
        \/ slots' = [slots EXCEPT ![s] = [@ EXCEPT !.phase = "failing"]]
    BY <1>2 DEF CompleteJob
  <2> QED BY <1>0, <1>2, <2>1, FaultySlot DEF queueVars
<1>3. ASSUME Fault, UNCHANGED queueVars, FailJob(s) PROVE WInv'
  <2>1. slots' = [slots EXCEPT ![s] = NoSlot]
    BY <1>3 DEF FailJob
  <2> QED BY <1>0, <1>3, <2>1, FaultySlot DEF queueVars
<1>4. ASSUME slots[s].phase = "completing", Complete(slots[s].job), UNCHANGED faults,
             slots' = [slots EXCEPT ![s] = NoSlot]
      PROVE  WInv'
  BY <1>0, <1>1, <1>4, CompleteRows, FreedSlot
<1>5. ASSUME slots[s].phase = "failing", Fail(slots[s].job), UNCHANGED faults,
             slots' = [slots EXCEPT ![s] = NoSlot]
      PROVE  WInv'
  BY <1>0, <1>1, <1>5, FailRows, FreedSlot
<1>6. CASE CompleteJob(s)
  BY <1>2, <1>4, <1>6 DEF CompleteJob
<1>7. CASE FailJob(s)
  BY <1>3, <1>5, <1>7 DEF FailJob
<1> QED BY <1>6, <1>7

\* A lost process leaves every job without a user.
LEMMA CrashStep ==
    ASSUME WInv, Crash
    PROVE  WInv'
<1>0. /\ Types /\ LocksOK /\ SuccessOK
      /\ running' = FALSE /\ poll' = "stopped" /\ claimed' = None /\ drain' = "no"
      /\ slots' = [q \in Slots |-> NoSlot] /\ UNCHANGED succeeded
      /\ UNCHANGED <<backend, expiries>>
      /\ rows' = rows \/ rows' = [j \in Jobs |-> NoRow]
  BY DEF WInv, Crash, MemoryLost, queueVars
<1>1. faults' \in Nat /\ faults' # 0
  BY <1>0 DEF Crash, Fault, Types
<1>2. /\ slots' \in [Slots -> Slot]
      /\ \A s \in Slots : slots'[s].job = None /\ slots'[s].phase = "free"
  BY <1>0 DEF NoSlot, Slot
<1>3. Types' /\ LocksOK'
  <2>1. rows' \in [Jobs -> Row]
    BY <1>0, RowsWritten DEF Types
  <2>2. \A j \in Jobs : rows'[j] = rows[j] \/ rows'[j] = NoRow
    BY <1>0
  <2>3. LocksOK'
    BY <1>0, <2>2, RowsWritten DEF LocksOK
  <2> QED BY <1>0, <1>1, <1>2, <2>1, <2>3 DEF Types
<1>4. SlotsOK' /\ DrainOK'
  BY <1>0, <1>2 DEF SlotsOK, DrainOK
<1>5. UsersOK' /\ HandledOK'
  BY <1>0, <1>1, <1>2, Apart DEF UsersOK, Has, HandledOK
<1>6. SuccessOK'
  BY <1>0, <1>2, RowsWritten DEF SuccessOK
<1> QED BY <1>3, <1>4, <1>5, <1>6 DEF WInv

LEMMA InitWInv == WorkerInit => WInv
<1> SUFFICES ASSUME WorkerInit PROVE WInv
  OBVIOUS
<1>1. /\ backend \in {"sqlite", "memory"} /\ rows = [j \in Jobs |-> NoRow] /\ expiries = 0
      /\ running = FALSE /\ poll = "stopped" /\ claimed = None
      /\ slots = [s \in Slots |-> NoSlot] /\ drain = "no" /\ succeeded = {} /\ faults = 0
  BY QueueAssumption DEF WorkerInit, QueueInit
<1>2. /\ slots \in [Slots -> Slot]
      /\ \A s \in Slots : slots[s].job = None /\ slots[s].phase = "free"
  BY <1>1 DEF NoSlot, Slot
<1>3. Types /\ LocksOK /\ SuccessOK
  BY <1>1, <1>2, RowsWritten DEF Types, LocksOK, SuccessOK
<1>4. SlotsOK /\ DrainOK
  BY <1>1, <1>2 DEF SlotsOK, DrainOK
<1>5. UsersOK /\ HandledOK
  BY <1>1, <1>2, Apart DEF UsersOK, Has, HandledOK
<1> QED BY <1>3, <1>4, <1>5 DEF WInv

LEMMA StepWInv == WInv /\ [WorkerNext]_allVars => WInv'
<1> SUFFICES ASSUME WInv, [WorkerNext]_allVars PROVE WInv'
  OBVIOUS
<1>1. CASE UNCHANGED allVars
  <2>1. /\ UNCHANGED <<backend, rows, expiries, claimed, slots, succeeded, faults, running, poll>>
        /\ DrainOK' /\ faults \in Nat /\ running \in BOOLEAN
    BY <1>1 DEF allVars, queueVars, workerVars, WInv, DrainOK, Busy, Types
  <2> QED BY <2>1, UsersKept
<1> QED BY <1>1, QueueStep, QuietStep, ClaimStep, DeliverStep, HandlerStep, SettleStep,
           CrashStep DEF WorkerNext

-----------------------------------------------------------------------------
(* The theorems about executions and their outcomes. *)

LEMMA WorkerInvariant == WorkerSpec => []WInv
BY InitWInv, StepWInv, PTL DEF WorkerSpec

\* As long as no lock becomes too old under a handler, a job has one execution
\* at most and its row is running during it: whatever is claimed, reclaimed,
\* retried, revived or lost by a crash.
THEOREM OneExecution == WorkerSpec => []OneExecutionPerJob
<1>1. WInv => OneExecutionPerJob
  <2> SUFFICES ASSUME WInv, expiries = 0, NEW j \in Jobs
               PROVE  LET users == Cardinality(WorksOn(j)) + (IF claimed = j THEN 1 ELSE 0)
                      IN  users <= 1 /\ (users = 1 => rows[j].status = "running")
    BY DEF OneExecutionPerJob
  <2>1. /\ \A s \in WorksOn(j) : rows[j].status = "running" /\ claimed # j
        /\ \A s, q \in WorksOn(j) : s = q
        /\ claimed = j => rows[j].status = "running"
    BY DEF WInv, UsersOK, WorksOn, Has, Fresh
  <2>2. CASE WorksOn(j) = {}
    <3>1. Cardinality(WorksOn(j)) = 0
      BY <2>2, FS_EmptySet
    <3> QED BY <2>1, <3>1
  <2>3. CASE WorksOn(j) # {}
    <3>1. PICK s : WorksOn(j) = {s}
      BY <2>1, <2>3
    <3>2. Cardinality(WorksOn(j)) = 1
      BY <3>1, FS_Singleton
    <3> QED BY <2>1, <3>1, <3>2
  <2> QED BY <2>2, <2>3
<1> QED BY <1>1, WorkerInvariant, PTL

\* A completed job was handled, however its executions overlap, and without
\* faults a handled one is never among the dead.
THEOREM TrueOutcomes == WorkerSpec => []OutcomesAreTrue
<1>1. WInv => OutcomesAreTrue
  <2> SUFFICES ASSUME WInv PROVE OutcomesAreTrue
    OBVIOUS
  <2>1. \A j \in Rows("completed") : j \in succeeded
    BY DEF WInv, SuccessOK, Rows
  <2>2. ASSUME expiries = 0, faults = 0, NEW j \in Rows("dead"), j \in succeeded PROVE FALSE
    <3>1. j \in Jobs /\ rows[j].status = "dead"
      BY DEF Rows
    <3>2. PICK s \in Slots : Has(s, j)
      BY <2>2, <3>1 DEF WInv, HandledOK
    <3> QED BY <2>2, <3>1, <3>2 DEF WInv, UsersOK, Fresh
  <2> QED BY <2>1, <2>2 DEF OutcomesAreTrue
<1> QED BY <1>1, WorkerInvariant, PTL

\* Once stop() has returned nothing of the worker is under way.
THEOREM DrainedIsIdle == WorkerSpec => []DrainedMeansIdle
<1>1. WInv => DrainedMeansIdle
  BY DEF WInv, DrainOK, SlotsOK, DrainedMeansIdle
<1> QED BY <1>1, WorkerInvariant, PTL

-----------------------------------------------------------------------------
(* The refinement: every step of the worker over either queue is a step of *)
(* the life of one job, a reclaim, a purge or the end of a queue in memory,*)
(* or changes nothing the interface promises.                              *)

Statuses == [j \in Jobs |-> rows[j].status]
Attempts == [j \in Jobs |-> rows[j].attempt]

PromiseStep == Promise!JobNext \/ UNCHANGED <<backend = "sqlite", Statuses, Attempts>>

\* Only the row of job j changes, as the abstract action allows it.
LEMMA OneRow ==
    ASSUME Types, NEW j \in Jobs, NEW r \in Row, rows' = [rows EXCEPT ![j] = r],
           UNCHANGED backend
    PROVE  /\ Statuses' = [Statuses EXCEPT ![j] = r.status]
           /\ Attempts' = [Attempts EXCEPT ![j] = r.attempt]
           /\ Statuses[j] = rows[j].status /\ Attempts[j] = rows[j].attempt
BY DEF Types, Statuses, Attempts

LEMMA SameRows ==
    ASSUME UNCHANGED <<backend, rows>>
    PROVE  PromiseStep
BY DEF PromiseStep, Statuses, Attempts

\* The actions of the interface over the rows.
LEMMA Meaning ==
    /\ \A j \in Jobs :
          /\ Statuses[j] = "absent" /\ Statuses' = [Statuses EXCEPT ![j] = "queued"]
                /\ UNCHANGED <<backend, Attempts>> => PromiseStep
          /\ Statuses[j] = "queued" /\ Statuses' = [Statuses EXCEPT ![j] = "running"]
                /\ Attempts' = [Attempts EXCEPT ![j] = @ + 1] /\ UNCHANGED backend
                => PromiseStep
          /\ Statuses[j] = "running" /\ Statuses' = [Statuses EXCEPT ![j] = "completed"]
                /\ UNCHANGED <<backend, Attempts>> => PromiseStep
          /\ Statuses[j] = "running" /\ Attempts[j] < MaxAttempts
                /\ Statuses' = [Statuses EXCEPT ![j] = "queued"]
                /\ UNCHANGED <<backend, Attempts>> => PromiseStep
          /\ Statuses[j] = "running" /\ Attempts[j] >= MaxAttempts
                /\ Statuses' = [Statuses EXCEPT ![j] = "dead"]
                /\ UNCHANGED <<backend, Attempts>> => PromiseStep
          /\ Statuses[j] = "dead" /\ Statuses' = [Statuses EXCEPT ![j] = "queued"]
                /\ Attempts' = [Attempts EXCEPT ![j] = 0] /\ UNCHANGED backend
                => PromiseStep
BY DEF PromiseStep, Statuses, Attempts, Promise!JobNext, Promise!Enqueued, Promise!Claimed,
       Promise!Completed, Promise!Retried, Promise!Buried, Promise!Revived, Promise!Becomes

LEMMA QueuePromise ==
    ASSUME WInv,
           \/ \E j \in Jobs : EnqueueJob(j) \/ Revive(j) \/ LockExpires(j) \/ DelayPasses(j)
           \/ Purge
    PROVE  PromiseStep
<1>0. Types /\ \A j \in Jobs : rows[j] \in Row
  BY DEF WInv, Types
<1>1. ASSUME NEW j \in Jobs, EnqueueJob(j) PROVE PromiseStep
  <2>1. rows[j].status = "absent" /\ rows' = [rows EXCEPT ![j] = QueuedRow]
        /\ UNCHANGED backend
    BY <1>1 DEF EnqueueJob, Enqueue
  <2>2. /\ Statuses' = [Statuses EXCEPT ![j] = "queued"] /\ Statuses[j] = "absent"
        /\ Attempts' = [Attempts EXCEPT ![j] = 0] /\ Attempts[j] = 0
    <3>1. /\ Statuses' = [Statuses EXCEPT ![j] = QueuedRow.status]
          /\ Attempts' = [Attempts EXCEPT ![j] = QueuedRow.attempt]
          /\ Statuses[j] = rows[j].status /\ Attempts[j] = rows[j].attempt
      BY <1>0, <2>1, OneRow, RowsWritten
    <3> QED BY <1>0, <2>1, <3>1, RowsWritten DEF Row
  <2>3. UNCHANGED Attempts
    BY <2>2 DEF Attempts
  <2> QED BY <2>1, <2>2, <2>3, Meaning
<1>2. ASSUME NEW j \in Jobs, Revive(j) PROVE PromiseStep
  <2>1. rows[j].status = "dead" /\ rows' = [rows EXCEPT ![j] = QueuedRow] /\ UNCHANGED backend
    BY <1>2 DEF Revive, RequeueDead, SqliteRequeueDead, MemoryRequeueDead
  <2>2. /\ Statuses' = [Statuses EXCEPT ![j] = "queued"] /\ Statuses[j] = "dead"
        /\ Attempts' = [Attempts EXCEPT ![j] = 0]
    <3>1. /\ Statuses' = [Statuses EXCEPT ![j] = QueuedRow.status]
          /\ Attempts' = [Attempts EXCEPT ![j] = QueuedRow.attempt]
          /\ Statuses[j] = rows[j].status
      BY <1>0, <2>1, OneRow, RowsWritten
    <3> QED BY <2>1, <3>1, RowsWritten
  <2> QED BY <2>1, <2>2, Meaning
<1>3. CASE Purge
  <2>1. PICK gone \in SUBSET Rows("dead") :
           /\ rows' = [j \in Jobs |-> IF j \in gone THEN NoRow ELSE rows[j]]
           /\ UNCHANGED backend
    BY <1>3 DEF Purge, PurgeDead, SqlitePurgeDead, MemoryPurgeDead
  <2>2. gone \in SUBSET Jobs /\ \A j \in gone : Statuses[j] = "dead"
    BY DEF Rows, Statuses
  <2>3. /\ Statuses' = [j \in Jobs |-> IF j \in gone THEN "absent" ELSE Statuses[j]]
        /\ Attempts' = [j \in Jobs |-> IF j \in gone THEN 0 ELSE Attempts[j]]
    BY <2>1, RowsWritten DEF Statuses, Attempts
  <2>4. Promise!Purged(gone)
    BY <2>1, <2>2, <2>3 DEF Promise!Purged, Statuses, Attempts
  <2> QED BY <2>2, <2>4 DEF PromiseStep, Promise!JobNext
<1>4. ASSUME NEW j \in Jobs, LockExpires(j) \/ DelayPasses(j) PROVE PromiseStep
  <2>1. PICK r \in {[rows[j] EXCEPT !.old = TRUE], [rows[j] EXCEPT !.waits = FALSE]} :
           rows' = [rows EXCEPT ![j] = r] /\ UNCHANGED backend
    BY <1>4 DEF LockExpires, LockAges, DelayPasses, BackoffEnds
  <2>2. r \in Row /\ r.status = rows[j].status /\ r.attempt = rows[j].attempt
    BY <1>0 DEF Row
  <2>3. \A i \in Jobs : rows'[i].status = rows[i].status /\ rows'[i].attempt = rows[i].attempt
    BY <1>0, <2>1, <2>2 DEF Types
  <2>4. UNCHANGED <<Statuses, Attempts>>
    BY <2>3 DEF Statuses, Attempts
  <2> QED BY <2>1, <2>4 DEF PromiseStep
<1> QED BY <1>1, <1>2, <1>3, <1>4

LEMMA ClaimPromise ==
    ASSUME WInv, Claim
    PROVE  PromiseStep
<1>0. Types /\ LocksOK /\ \A j \in Jobs : rows[j] \in Row
  BY DEF WInv, Types
<1>1. CASE ~MayClaim
  <2>1. UNCHANGED <<backend, rows>>
    BY <1>1 DEF Claim, queueVars
  <2> QED BY <2>1, SameRows
<1>2. CASE MayClaim
  <2>1. PICK claim \in SUBSET Jobs : Dequeue(Blocked, claim)
    BY <1>2 DEF Claim
  <2>2. UNCHANGED backend /\ \A i, j \in claim : i = j
    BY <1>0, <2>1, DequeueRows
  <2>3. PICK lost \in SUBSET Jobs :
           /\ lost # {} => backend = "sqlite"
           /\ \A j \in lost : rows[j].status = "running" /\ rows[j].old
           /\ \A j \in claim : rows[j].status = "queued" \/ j \in lost
           /\ rows' = [j \in Jobs |-> IF j \in claim THEN Claimed(Back(j, lost))
                                      ELSE Back(j, lost)]
    BY <1>0, <2>1, DequeueRows
  <2>4. \A j \in Jobs : /\ Back(j, lost) \in Row
                        /\ Back(j, lost).attempt = rows[j].attempt
                        /\ Back(j, lost).status = IF j \in lost THEN "queued" ELSE rows[j].status
    BY <1>0 DEF Back, Row, JobStatus
  <2>5. /\ Statuses' = [j \in Jobs |-> IF j \in claim THEN "running"
                                       ELSE IF j \in lost THEN "queued" ELSE Statuses[j]]
        /\ Attempts' = [j \in Jobs |-> IF j \in claim THEN Attempts[j] + 1 ELSE Attempts[j]]
    BY <2>3, <2>4, RowsWritten DEF Statuses, Attempts
  <2>6. CASE backend = "sqlite"
    <3>1. Promise!Reclaimed(lost, claim)
      BY <2>2, <2>3, <2>5, <2>6 DEF Promise!Reclaimed, Statuses, Attempts
    <3> QED BY <2>2, <3>1 DEF PromiseStep, Promise!JobNext
  <2>7. CASE lost = {} /\ claim = {}
    <3>1. UNCHANGED <<Statuses, Attempts>>
      BY <2>5, <2>7 DEF Statuses, Attempts
    <3> QED BY <2>2, <3>1 DEF PromiseStep
  <2>8. CASE lost = {} /\ claim # {}
    <3>1. PICK j \in Jobs : claim = {j}
      BY <2>2, <2>8
    <3>2. /\ Statuses[j] = "queued" /\ Statuses' = [Statuses EXCEPT ![j] = "running"]
          /\ Attempts' = [Attempts EXCEPT ![j] = @ + 1]
      BY <2>3, <2>5, <2>8, <3>1 DEF Statuses, Attempts
    <3> QED BY <2>2, <3>2, Meaning
  <2> QED BY <2>3, <2>6, <2>7, <2>8
<1> QED BY <1>1, <1>2

LEMMA SettlePromise ==
    ASSUME WInv, NEW s \in Slots, CompleteJob(s) \/ FailJob(s)
    PROVE  PromiseStep
<1> DEFINE j == slots[s].job
<1>0. Types /\ LocksOK /\ slots[s].phase \in {"completing", "failing"} /\ slots[s] \in Slot
  BY DEF WInv, Types, CompleteJob, FailJob
<1>1. j \in Jobs
  BY <1>0 DEF WInv, SlotsOK, Slot
<1> HIDE DEF j
<1>2. ASSUME rows' \in [Jobs -> Row], UNCHANGED backend, rows[j].status = "running",
             rows'[j].attempt = rows[j].attempt, \A i \in Jobs \ {j} : rows'[i] = rows[i],
             \/ rows'[j].status = "completed"
             \/ rows'[j].status = IF rows[j].attempt < MaxAttempts THEN "queued" ELSE "dead"
      PROVE  PromiseStep
  <2>1. /\ Statuses' = [Statuses EXCEPT ![j] = rows'[j].status] /\ UNCHANGED Attempts
        /\ Statuses[j] = "running" /\ Attempts[j] = rows[j].attempt
    BY <1>1, <1>2 DEF Statuses, Attempts
  <2>2. rows[j].attempt \in Nat /\ MaxAttempts \in Nat
    BY <1>0, <1>1, QueueAssumption DEF Types, Row
  <2>3. CASE rows'[j].status = "completed"
    BY <1>1, <1>2, <2>1, <2>3, Meaning
  <2>4. CASE rows'[j].status = IF rows[j].attempt < MaxAttempts THEN "queued" ELSE "dead"
    <3>1. CASE rows[j].attempt < MaxAttempts
      BY <1>1, <1>2, <2>1, <2>4, <3>1, Meaning
    <3>2. CASE rows[j].attempt >= MaxAttempts
      <4>1. rows'[j].status = "dead"
        BY <2>2, <2>4, <3>2
      <4> QED BY <1>1, <1>2, <2>1, <3>2, <4>1, Meaning
    <3> QED BY <2>2, <3>1, <3>2
  <2> QED BY <1>2, <2>3, <2>4
<1>3. CASE Complete(j)
  BY <1>0, <1>1, <1>2, <1>3, CompleteRows, SameRows
<1>4. CASE Fail(j)
  BY <1>0, <1>1, <1>2, <1>4, FailRows, SameRows
<1>5. CASE UNCHANGED queueVars
  BY <1>5, SameRows DEF queueVars
<1> QED BY <1>3, <1>4, <1>5 DEF CompleteJob, FailJob, j

LEMMA CrashPromise ==
    ASSUME WInv, Crash
    PROVE  PromiseStep
<1>1. CASE backend = "sqlite"
  BY <1>1, SameRows DEF Crash, queueVars
<1>2. CASE backend # "sqlite"
  <2>1. rows' = [j \in Jobs |-> NoRow] /\ UNCHANGED backend
    BY <1>2 DEF Crash, MemoryLost
  <2>2. Statuses' = [j \in Jobs |-> "absent"] /\ Attempts' = [j \in Jobs |-> 0]
    BY <2>1, RowsWritten DEF Statuses, Attempts
  <2>3. Promise!Forgotten
    BY <1>2, <2>1, <2>2 DEF Promise!Forgotten, Statuses, Attempts
  <2> QED BY <2>3 DEF PromiseStep, Promise!JobNext
<1> QED BY <1>1, <1>2

\* Every step of the worker is one the interface of the queue allows.
LEMMA StepPromise == WInv /\ [WorkerNext]_allVars => [Promise!JobNext]_(Promise!jobVars)
<1>1. ASSUME WInv, [WorkerNext]_allVars PROVE PromiseStep
  <2>1. CASE \/ StartWorker \/ PollTimer \/ BeforePoll \/ IntervalPasses \/ StopWorker
             \/ Drained \/ Others \/ PoolTimer \/ \E s \in Slots : Continue(s)
    <3>1. UNCHANGED <<backend, rows>>
      BY <2>1 DEF StartWorker, PollTimer, BeforePoll, IntervalPasses, StopWorker, Drained,
                  Others, PoolTimer, Continue, ReclaimIntervalPasses, queueVars
    <3> QED BY <3>1, SameRows
  <2>2. CASE Deliver \/ \E s \in Slots : HandlerEnds(s)
    <3>1. UNCHANGED <<backend, rows>>
      BY <2>2 DEF Deliver, HandlerEnds, queueVars
    <3> QED BY <3>1, SameRows
  <2>3. CASE UNCHANGED allVars
    BY <2>3, SameRows DEF allVars, queueVars
  <2> QED BY <1>1, <2>1, <2>2, <2>3, QueuePromise, ClaimPromise, SettlePromise, CrashPromise
          DEF WorkerNext
<1>2. PromiseStep => [Promise!JobNext]_(Promise!jobVars)
  BY DEF PromiseStep, Promise!jobVars, Statuses, Attempts
<1> QED BY <1>1, <1>2

\* The worker over either queue implements the interface of the queue: no order
\* of claims, reclaims, retries, operator commands, failing calls and crashes
\* takes a job through a life the interface does not allow.
THEOREM QueuesKeepPromise == WorkerSpec => KeepsPromise
<1>1. WorkerInit => Promise!JobInit
  <2> SUFFICES ASSUME WorkerInit PROVE Promise!JobInit
    OBVIOUS
  <2>1. rows = [j \in Jobs |-> NoRow]
    BY DEF WorkerInit, QueueInit
  <2> QED BY <2>1, RowsWritten DEF Promise!JobInit
<1> QED BY <1>1, StepPromise, WorkerInvariant, PTL DEF WorkerSpec, KeepsPromise, Promise!JobSpec

=============================================================================
