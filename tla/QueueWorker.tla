----------------------------- MODULE QueueWorker -----------------------------
(***************************************************************************)
(* The queue worker (packages/core/src/queue-worker.ts) over either review *)
(* queue and the shared pool of permits: the poll loop, the jobs it starts *)
(* and does not wait for, stop and drain, and the loss of the process.     *)
(*                                                                         *)
(* The callers of the pool are the worker's jobs in flight (Slots) and     *)
(* whoever else asks for permits.  A slot's workspace is that of the jobs  *)
(* it may hold.  An action is what the worker does between two awaits; an  *)
(* execution whose lock became too old goes on while its job is queued and *)
(* claimed again.  The rate limiter and the handler's work are left out.   *)
(***************************************************************************)
EXTENDS SqliteQueue, MemoryQueue, ExecutionConcurrency

CONSTANTS Slots,         \* jobs the worker can have in flight
          MaxFaults,     \* bound on crashes and failing queue calls
          None

ASSUME WorkerAssumption ==
    /\ Slots \subseteq Callers
    /\ \A j \in Jobs : \E s \in Slots : CallerWorkspace[s] = JobWorkspace[j]
    /\ MaxFaults \in Nat /\ None \notin Jobs

VARIABLES running,   \* the flag of start() and stop()
          poll,      \* stopped, idle (timer armed), before, loop, claimed
          claimed,   \* the job dequeue has claimed and not yet delivered
          slots,     \* what every slot works on
          drain,     \* stop(): no, waiting, drained
          succeeded, \* history: jobs whose handler has returned once
          faults

workerVars == <<running, poll, claimed, slots, drain, succeeded, faults>>
allVars == <<queueVars, poolVars, workerVars>>

NoSlot == [job |-> None, phase |-> "free"]
Busy == {s \in Slots : slots[s].phase # "free"}
WorksOn(j) == {s \in Slots : slots[s].job = j}
BusyIn(w) == {s \in Busy : JobWorkspace[slots[s].job] = w}

WorkerInit ==
    /\ QueueInit /\ PoolInit
    /\ running = FALSE /\ poll = "stopped" /\ claimed = None
    /\ slots = [s \in Slots |-> NoSlot]
    /\ drain = "no" /\ succeeded = {} /\ faults = 0

Fault == faults < MaxFaults /\ faults' = faults + 1

-----------------------------------------------------------------------------
(* The queue the deployment uses. *)

Dequeue(excluded, claim) == IF backend = "sqlite" THEN SqliteDequeue(excluded, claim)
                                                  ELSE MemoryDequeue(excluded, claim)
Fail(j) == IF backend = "sqlite" THEN SqliteFail(j) ELSE MemoryFail(j)
RequeueDead(j) == IF backend = "sqlite" THEN SqliteRequeueDead(j) ELSE MemoryRequeueDead(j)
PurgeDead(gone) == IF backend = "sqlite" THEN SqlitePurgeDead(gone) ELSE MemoryPurgeDead(gone)

-----------------------------------------------------------------------------
(* The producers and the operator. *)

EnqueueJob(j) ==
    /\ Enqueue(j)
    /\ UNCHANGED <<poolVars, workerVars>>

Revive(j) ==
    /\ RequeueDead(j)
    /\ UNCHANGED <<poolVars, workerVars>>

Purge ==
    /\ \E gone \in SUBSET Rows("dead") : PurgeDead(gone)
    /\ UNCHANGED <<poolVars, workerVars>>

-----------------------------------------------------------------------------
(* The poll loop. *)

\* start(): the server starts one worker, once.
StartWorker ==
    /\ ~running /\ drain = "no" /\ poll = "stopped"
    /\ running' = TRUE /\ poll' = "before"
    /\ UNCHANGED <<queueVars, poolVars, claimed, slots, drain, succeeded, faults>>

PollTimer ==
    /\ poll = "idle" /\ poll' = "before"
    /\ UNCHANGED <<queueVars, poolVars, running, claimed, slots, drain, succeeded, faults>>

\* The end of poll(): the timer is armed unless the worker was stopped.
EndPoll == poll' = IF running THEN "idle" ELSE "stopped"

\* beforePoll (the admission of the configuration) returned or failed.
BeforePoll ==
    /\ poll = "before"
    /\ \/ poll' = "loop" /\ UNCHANGED faults
       \/ EndPoll /\ Fault
    /\ UNCHANGED <<queueVars, poolVars, running, claimed, slots, drain, succeeded>>

\* The condition of the loop.
MayClaim ==
    /\ Cardinality(Busy) < limits.global
    /\ running
    /\ permits.active < limits.global

\* getBlockedWorkspaceIds: by the worker's own jobs or by the pool.
Blocked == {w \in Workspaces : \/ Cardinality(BusyIn(w)) >= limits.workspace
                               \/ permits.workspaces[w] >= limits.workspace}

\* One turn of the loop up to the await of dequeue.
Claim ==
    /\ poll = "loop"
    /\ IF ~MayClaim
       THEN EndPoll /\ UNCHANGED <<queueVars, claimed>>
       ELSE \E claim \in SUBSET Jobs :
              /\ Dequeue(Blocked, claim)
              /\ IF claim = {} THEN EndPoll /\ UNCHANGED claimed
                 ELSE poll' = "claimed" /\ claimed' = CHOOSE j \in claim : TRUE
    /\ UNCHANGED <<poolVars, running, slots, drain, succeeded, faults>>

FreeSlots(j) == {s \in Slots \ Busy : CallerWorkspace[s] = JobWorkspace[j]}

\* dequeue returned: the job is counted, asks the pool for a permit and the loop
\* goes on.  Reading its configuration version may fail after the claim: the
\* poll ends and nobody works on the row.
Deliver ==
    /\ poll = "claimed"
    /\ \/ /\ \E s \in FreeSlots(claimed) :
                /\ Run(s)
                /\ slots' = [slots EXCEPT ![s] = [job |-> claimed, phase |-> "working"]]
          /\ poll' = "loop" /\ UNCHANGED faults
       \/ EndPoll /\ Fault /\ UNCHANGED <<poolVars, slots>>
    /\ claimed' = None
    /\ UNCHANGED <<queueVars, running, drain, succeeded>>

-----------------------------------------------------------------------------
(* processJob, after its permit. *)

Continue(s) ==
    /\ slots[s].phase = "working" /\ Proceed(s)
    /\ UNCHANGED <<queueVars, workerVars>>

\* Faulty: an error of the handler does not reach the queue.
HandlerSwallows(s) ==
    /\ slots[s].phase = "working" /\ Finish(s)
    /\ slots' = [slots EXCEPT ![s].phase = "completing"]
    /\ \/ succeeded' = succeeded \cup {slots[s].job}
       \/ UNCHANGED succeeded
    /\ UNCHANGED <<queueVars, running, poll, claimed, drain, faults>>

\* The handler returned or threw; run() gives the permit back first.
HandlerEnds(s) ==
    /\ slots[s].phase = "working" /\ Finish(s)
    /\ \/ /\ slots' = [slots EXCEPT ![s].phase = "completing"]
          /\ succeeded' = succeeded \cup {slots[s].job}
       \/ /\ slots' = [slots EXCEPT ![s].phase = "failing"]
          /\ UNCHANGED succeeded
    /\ UNCHANGED <<queueVars, running, poll, claimed, drain, faults>>

\* queue.complete; when it throws the job fails although it was handled.
CompleteJob(s) ==
    /\ slots[s].phase = "completing"
    /\ \/ /\ Complete(slots[s].job)
          /\ slots' = [slots EXCEPT ![s] = NoSlot]
          /\ UNCHANGED faults
       \/ /\ Fault
          /\ slots' = [slots EXCEPT ![s].phase = "failing"]
          /\ UNCHANGED queueVars
    /\ UNCHANGED <<poolVars, running, poll, claimed, drain, succeeded>>

\* queue.fail; when it throws too the row stays running and its lock ages.
FailJob(s) ==
    /\ slots[s].phase = "failing"
    /\ \/ Fail(slots[s].job) /\ UNCHANGED faults
       \/ Fault /\ UNCHANGED queueVars
    /\ slots' = [slots EXCEPT ![s] = NoSlot]
    /\ UNCHANGED <<poolVars, running, poll, claimed, drain, succeeded>>

-----------------------------------------------------------------------------
(* The rest of the process, time, and its end. *)

\* Other entry points use the same pool.
Others ==
    /\ \E c \in Callers \ Slots : Run(c) \/ TryAcquire(c) \/ Proceed(c) \/ Finish(c) \/ Abort(c)
    /\ UNCHANGED <<queueVars, workerVars>>

PoolTimer == RefreshTimer /\ UNCHANGED <<queueVars, workerVars>>

\* The lock of a job nobody works on becomes too old; that of a job in flight
\* does when the handler, or the wait for its permit, takes too long.
LockExpires(j) ==
    /\ LockAges(j)
    /\ IF WorksOn(j) = {} /\ claimed # j THEN UNCHANGED expiries
       ELSE /\ expiries < MaxExpiries /\ expiries' = expiries + 1
    /\ UNCHANGED <<poolVars, workerVars>>

DelayPasses(j) == BackoffEnds(j) /\ UNCHANGED <<poolVars, workerVars>>

IntervalPasses == ReclaimIntervalPasses /\ UNCHANGED <<poolVars, workerVars>>

\* stop(): the flag and the timer; it then waits for the jobs and the poll.
StopWorker ==
    /\ running /\ running' = FALSE
    /\ poll' = IF poll = "idle" THEN "stopped" ELSE poll
    /\ drain' = "waiting"
    /\ UNCHANGED <<queueVars, poolVars, claimed, slots, succeeded, faults>>

\* Faulty: stop() waits for the jobs only.
DrainedJobsOnly ==
    /\ drain = "waiting" /\ Busy = {}
    /\ drain' = "drained"
    /\ UNCHANGED <<queueVars, poolVars, running, poll, claimed, slots, succeeded, faults>>

\* stop() returns: no job is active and no poll is under way.  After 30 seconds
\* it throws instead, which leaves everything as it is.
Drained ==
    /\ drain = "waiting" /\ Busy = {} /\ poll = "stopped"
    /\ drain' = "drained"
    /\ UNCHANGED <<queueVars, poolVars, running, poll, claimed, slots, succeeded, faults>>

\* The process is lost, or exits after stop(); the table of the durable queue
\* stays.
Crash ==
    /\ Fault
    /\ running' = FALSE /\ poll' = "stopped" /\ claimed' = None
    /\ slots' = [s \in Slots |-> NoSlot] /\ drain' = "no"
    /\ permits' = [active |-> 0, workspaces |-> [w \in Workspaces |-> 0]]
    /\ waiting' = <<>> /\ caller' = [c \in Callers |-> "idle"] /\ aborted' = {}
    /\ unread' = FALSE
    /\ IF backend = "sqlite" THEN UNCHANGED queueVars ELSE MemoryLost
    /\ UNCHANGED <<limits, changes, succeeded>>

WorkerNext ==
    \/ \E j \in Jobs : EnqueueJob(j) \/ Revive(j) \/ LockExpires(j) \/ DelayPasses(j)
    \/ Purge \/ StartWorker \/ PollTimer \/ BeforePoll \/ Claim \/ Deliver
    \/ \E s \in Slots : Continue(s) \/ HandlerEnds(s) \/ CompleteJob(s) \/ FailJob(s)
    \/ Others \/ PoolTimer \/ IntervalPasses \/ StopWorker \/ Drained \/ Crash

WorkerSpec == WorkerInit /\ [][WorkerNext]_allVars

\* The worker's own steps, the end of handlers and of the other users' tasks,
\* and the passage of time.  Nobody has to enqueue, revive or stop.
WorkerFairness ==
    /\ WF_allVars(StartWorker) /\ WF_allVars(PollTimer) /\ WF_allVars(BeforePoll)
    /\ WF_allVars(Claim) /\ WF_allVars(Deliver)
    /\ \A s \in Slots : /\ WF_allVars(Continue(s)) /\ WF_allVars(HandlerEnds(s))
                        /\ WF_allVars(CompleteJob(s)) /\ WF_allVars(FailJob(s))
    /\ \A c \in Callers \ Slots :
          WF_allVars((Proceed(c) \/ Finish(c)) /\ UNCHANGED <<queueVars, workerVars>>)
    /\ \A j \in Jobs : WF_allVars(LockExpires(j)) /\ WF_allVars(DelayPasses(j))
    /\ WF_allVars(IntervalPasses) /\ WF_allVars(Drained)

FairWorkerSpec == WorkerSpec /\ WorkerFairness

-----------------------------------------------------------------------------
\* As long as no lock becomes too old under a handler, a job is worked on by one
\* slot at most, and its row is running as long as it is.
OneExecutionPerJob ==
    expiries = 0 => \A j \in Jobs :
       LET users == Cardinality(WorksOn(j)) + (IF claimed = j THEN 1 ELSE 0)
       IN  users <= 1 /\ (users = 1 => rows[j].status = "running")

\* A job becomes completed only after its handler returned, however many
\* executions of it overlap, and one that was handled is never left dead unless
\* a queue call failed or a lock became too old.
OutcomesAreTrue ==
    /\ \A j \in Rows("completed") : j \in succeeded
    /\ expiries = 0 /\ faults = 0 => \A j \in Rows("dead") : j \notin succeeded

\* Once stop() has returned the queue may be closed: no job is in flight, no
\* claim is under way and none follows.
DrainedMeansIdle == drain = "drained" => Busy = {} /\ poll = "stopped" /\ claimed = None

\* The other users leave the worker a permit.  It only polls the pool and never
\* waits in its list, so they could take every permit that becomes free.
OthersLeaveRoom ==
    Cardinality(Holders \ Slots) < limits.workspace /\ Cardinality(Holders \ Slots) < limits.global

\* Every job that is enqueued is handled or ends among the dead, although the
\* process crashes, locks become too old and queue calls fail, unless the worker
\* is stopped or the others never leave it a permit.  The queue in memory keeps
\* this promise only without faults: a crash empties it, and a job whose
\* configuration version cannot be read after its claim stays running.
JobsSettle ==
    <>[]OthersLeaveRoom =>
       \A j \in Jobs :
          rows[j].status \in {"queued", "running"}
             ~> \/ rows[j].status \in {"completed", "dead"} \/ drain # "no"
                \/ backend = "memory" /\ faults > 0
=============================================================================
