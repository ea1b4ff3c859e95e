------------------------- MODULE AutoCommitScheduler -------------------------
(***************************************************************************)
(* The scheduler process over the durable store: boot recovery, the        *)
(* dispatch loop, the executions it starts and does not wait for, lease    *)
(* renewal, cancellation and shutdown                                      *)
(* (packages/server/src/auto-commit-scheduler.ts), with the operator       *)
(* commands that reach into a running execution (review-cancellation.ts,   *)
(* observability-api.ts).                                                  *)
(*                                                                         *)
(* An action is what the process does between two awaits; every store call *)
(* is one action of AutoCommitStore, or nothing when its guard refuses.    *)
(* Batches are sealed already.  One process runs at a time, under one      *)
(* consumer id; a crash loses all it holds in memory.  Routing, receipt    *)
(* expansion, assembly and hooks are left out.                             *)
(***************************************************************************)
EXTENDS AutoCommitStore

CONSTANTS Tasks,        \* dispatchOne calls in flight
          ConsumerId,   \* options.consumerId, kept across restarts
          Home,         \* the stream of each batch
          MaxFaults,    \* bound on crashes, shutdowns and failing store calls
          MaxCommands   \* bound on operator commands

ASSUME SchedulerAssumption ==
    /\ ConsumerId \in Owners
    /\ Home \in [Batches -> Streams]
    /\ \A b, c \in Batches : Home[b] = Home[c] => b = c
    /\ \A b \in Batches : \E m \in Members : StreamOf[m] = Home[b]
    /\ \A m \in Members : \E b \in Batches : StreamOf[m] = Home[b]
    /\ None \notin Tasks \cup {"abort", "cancel"}
    /\ MaxFaults \in Nat /\ MaxCommands \in Nat

VARIABLES mode,         \* the life of the process
          tasks,        \* dispatchOne calls, with their local variables
          cancelAborts, \* batch -> the task whose controller is registered
          cancelling,   \* batches cancelled in the store, not yet aborted
          cancelled,    \* history: batches an operator cancelled and did not retry
          faults, commands

process == <<mode, tasks, cancelAborts, cancelling>>
bounds == <<faults, commands, cancelled>>
schedulerVars == <<vars, process, bounds>>

\* The phases between the registration of the controller and its removal.
Working == {"executing", "completing", "skipping", "failing", "ending"}

NoTask == [phase |-> "free", batch |-> None, token |-> None, seen |-> None,
           abort |-> None]
NoAborts == [b \in Batches |-> None]

SchedulerInit ==
    /\ \E old \in SUBSET Batches :
          /\ batches = [b \in Batches |->
                IF b \in old THEN DeadBatch(Home[b])
                ELSE [NoBatch EXCEPT !.status = "dispatch_pending", !.stream = Home[b]]]
          /\ outbox = [b \in Batches |-> IF b \in old THEN NoEntry ELSE PendingEntry(0)]
          /\ members = [m \in Members |->
                LET b == CHOOSE c \in Batches : Home[c] = StreamOf[m]
                IN  [NoMember EXCEPT !.batch = b,
                       !.status = IF b \in old THEN "dead" ELSE "batched"]]
          /\ heads = [s \in Streams |-> [FreeHead EXCEPT !.active =
                IF \E b \in Batches : Home[b] = s
                THEN CHOOSE b \in Batches : Home[b] = s ELSE None]]
    /\ mode = "down" /\ tasks = [k \in Tasks |-> NoTask]
    /\ cancelAborts = NoAborts /\ cancelling = {}
    /\ faults = 0 /\ commands = 0 /\ cancelled = {}

-----------------------------------------------------------------------------
In(k, phase) == tasks[k].phase = phase
Goto(k, phase) == tasks' = [tasks EXCEPT ![k].phase = phase]
Leave(k) == tasks' = [tasks EXCEPT ![k] = NoTask]
Holding(k) == Leased(tasks[k].batch, tasks[k].token)
\* AbortController.abort: the first reason stays.
Aborted(task, reason) == IF task.abort = None THEN [task EXCEPT !.abort = reason] ELSE task

\* A new UUID; Tokens is large enough that there always is one.
NewTokens == Tokens \ (HeldTokens \cup {tasks[k].token : k \in Tasks})
NewToken == CHOOSE t \in NewTokens : TRUE

\* ExecutionConcurrency: a task holds its permit until it has ended.
Admitted == {k \in Tasks : tasks[k].phase \notin {"free", "offered"}}
AdmittedIn(w) ==
    {k \in Admitted : WorkspaceOf[batches[tasks[k].batch].stream] = w}
PermitFor(b) ==
    /\ Cardinality(Admitted) < GlobalLimit
    /\ Cardinality(AdmittedIn(WorkspaceOf[batches[b].stream])) < WorkspaceLimit

Fault == faults < MaxFaults /\ faults' = faults + 1 /\ UNCHANGED <<commands, cancelled>>
Command == commands < MaxCommands /\ commands' = commands + 1 /\ UNCHANGED faults

-----------------------------------------------------------------------------
(* Start: the timeout guard, then the leases of the previous process, then  *)
(* the dead batches; kick() does nothing before that.                       *)

Overdue(statuses) == {b \in Batches : batches[b].status \in statuses /\ Stale(batches[b].age)}

Start ==
    /\ mode = "down"
    /\ mode' = "boot_timeout"
    /\ UNCHANGED <<vars, tasks, cancelAborts, cancelling, bounds>>

\* Only batches leased by this consumer or not leased at all: there is one.
BootTimeout ==
    /\ mode = "boot_timeout"
    /\ LET stale == Overdue({"running", "queued", "dead"})
       IN  IF stale = {} THEN UNCHANGED vars ELSE CancelQueuedBatches(stale)
    /\ mode' = "boot_reclaim"
    /\ UNCHANGED <<tasks, cancelAborts, cancelling, bounds>>

BootReclaim ==
    /\ mode = "boot_reclaim"
    /\ ReclaimBatchesByOwner(ConsumerId)
    /\ mode' = "boot_recover"
    /\ UNCHANGED <<tasks, cancelAborts, cancelling, bounds>>

BootRecover ==
    /\ mode = "boot_recover"
    /\ \E B \in SUBSET Batches : RecoverDeadBatches(B)
    /\ mode' = "up"
    /\ UNCHANGED <<tasks, cancelAborts, cancelling, bounds>>

\* A boot step that throws ends the recovery; the scheduler runs all the same.
BootFails ==
    /\ mode \in {"boot_timeout", "boot_reclaim", "boot_recover"}
    /\ Fault
    /\ mode' = "up"
    /\ UNCHANGED <<vars, tasks, cancelAborts, cancelling>>

Crash ==
    /\ mode # "down"
    /\ Fault
    /\ mode' = "down" /\ tasks' = [k \in Tasks |-> NoTask]
    /\ cancelAborts' = NoAborts /\ cancelling' = {}
    /\ UNCHANGED vars

\* Faulty: running executions are not aborted.
StopWithoutAbort ==
    /\ mode = "up"
    /\ Fault
    /\ mode' = "stopping"
    /\ UNCHANGED <<vars, tasks, cancelAborts, cancelling>>

\* stop(): the shared signal aborts every execution that listens to it.
Stop ==
    /\ mode = "up"
    /\ Fault
    /\ mode' = "stopping"
    /\ tasks' = [k \in Tasks |-> IF In(k, "executing") THEN Aborted(tasks[k], "abort")
                                 ELSE tasks[k]]
    /\ UNCHANGED <<vars, cancelAborts, cancelling>>

\* stopAndDrain(): the process exits when every task has ended.
Drained ==
    /\ mode = "stopping"
    /\ \A k \in Tasks : In(k, "free")
    /\ mode' = "down" /\ cancelling' = {}
    /\ UNCHANGED <<vars, tasks, cancelAborts, bounds>>

-----------------------------------------------------------------------------
(* A tick: stale work, expired leases, then dispatchDue claims one batch    *)
(* after the other.                                                         *)

Offering == \E k \in Tasks : In(k, "offered")

\* A tick that is under way when stop() runs still finishes these two calls.
Ticking == mode \in {"up", "stopping"}

\* A running batch is spared while its execution or its lease is alive.
SkipStale(b) ==
    /\ Ticking
    /\ b \in Overdue({"running", "queued"})
    /\ batches[b].status = "running" => cancelAborts[b] = None /\ ~Live(batches[b].expiry)
    /\ CancelQueuedBatches({b})
    /\ UNCHANGED <<process, bounds>>

ReclaimExpired ==
    LET B == {b \in Batches : /\ batches[b].status \in {"queued", "running"}
                              /\ batches[b].expiry = 0}
    IN  /\ Ticking
        /\ ReclaimExpiredBatchLeases(B)
        /\ UNCHANGED <<process, bounds>>

Claim(k, b) ==
    /\ mode = "up" /\ ~Offering /\ In(k, "free")
    /\ PermitFor(b) /\ NewTokens # {}
    /\ ClaimDispatch(b, NewToken)
    /\ tasks' = [tasks EXCEPT ![k] = [NoTask EXCEPT !.phase = "offered", !.batch = b,
                                        !.token = NewToken, !.seen = batches[b].status]]
    /\ UNCHANGED <<mode, cancelAborts, cancelling, bounds>>

\* The claim is undone if it still is the task's.
GiveBack(k, delay) ==
    LET b == tasks[k].batch
    IN  /\ IF outbox[b].token = tasks[k].token
           THEN AbortDispatch(b, tasks[k].token, delay) ELSE UNCHANGED vars
        /\ Leave(k)
        /\ UNCHANGED <<mode, cancelAborts, cancelling, bounds>>

\* Shutting down, or another kind of work took the permit meanwhile.
Refuse(k) == In(k, "offered") /\ GiveBack(k, 0)

AdmittedNow(k) ==
    In(k, "offered") /\ mode = "up" /\ PermitFor(tasks[k].batch)

Expel(k) ==
    LET b == tasks[k].batch
    IN  /\ AdmittedNow(k) /\ Stale(batches[b].age)
        /\ IF batches[b].status = tasks[k].seen
           THEN CancelQueuedBatches({b}) ELSE UNCHANGED vars
        /\ Leave(k)
        /\ UNCHANGED <<mode, cancelAborts, cancelling, bounds>>

\* No policy, or outside the execution window.
Postpone(k, delay) ==
    /\ AdmittedNow(k) /\ ~Stale(batches[tasks[k].batch].age)
    /\ GiveBack(k, delay)

\* The claim may be gone by now: then the call does nothing.
Confirm(k) ==
    LET b == tasks[k].batch
    IN  /\ AdmittedNow(k) /\ ~Stale(batches[b].age)
        /\ IF outbox[b].token = tasks[k].token
           THEN ConfirmDispatch(b, tasks[k].token, ClaimTtl) ELSE UNCHANGED vars
        /\ tasks' = [tasks EXCEPT ![k] = [NoTask EXCEPT !.phase = "confirmed", !.batch = b]]
        /\ UNCHANGED <<mode, cancelAborts, cancelling, bounds>>

-----------------------------------------------------------------------------
(* One execution. *)

Lease(k) ==
    LET b == tasks[k].batch
    IN  /\ In(k, "confirmed") /\ NewTokens # {}
        /\ StartBatchExecution(b, ConsumerId, NewToken, LeaseTtl)
        /\ tasks' = [tasks EXCEPT ![k] = [@ EXCEPT !.phase = "leased", !.token = NewToken]]
        /\ UNCHANGED <<mode, cancelAborts, cancelling, bounds>>

\* startBatchExecution returned null.
NotLeased(k) ==
    LET b == tasks[k].batch
    IN  /\ In(k, "confirmed")
        /\ ~ /\ batches[b].status = "queued"
             /\ ~ (batches[b].token # None /\ Live(batches[b].expiry))
             /\ Room(b)
        /\ Goto(k, "refused")
        /\ UNCHANGED <<vars, mode, cancelAborts, cancelling, bounds>>

Defer(k, delay) ==
    LET b == tasks[k].batch
    IN  /\ In(k, "refused")
        /\ IF batches[b].status = "queued" THEN DeferBatchExecution(b, delay)
           ELSE UNCHANGED vars
        /\ Leave(k)
        /\ UNCHANGED <<mode, cancelAborts, cancelling, bounds>>

\* readBatch: somebody else's lease, or none, ends the task.
ReadBack(k) ==
    /\ In(k, "leased")
    /\ IF batches[tasks[k].batch].token = tasks[k].token THEN Goto(k, "loading") ELSE Leave(k)
    /\ UNCHANGED <<vars, mode, cancelAborts, cancelling, bounds>>

\* The receipt or a member is missing; no controller is registered yet.
Unreadable(k) ==
    LET b == tasks[k].batch
    IN  /\ In(k, "loading")
        /\ Fault
        /\ IF Holding(k) THEN FailBatch(b, tasks[k].token, TRUE, 0) ELSE UNCHANGED vars
        /\ Leave(k)
        /\ UNCHANGED <<mode, cancelAborts, cancelling>>

\* Faulty: a shutdown before the registration is not noticed.
RegisterUnchecked(k) ==
    /\ In(k, "loading")
    /\ Goto(k, "executing")
    /\ cancelAborts' = [cancelAborts EXCEPT ![tasks[k].batch] = k]
    /\ UNCHANGED <<vars, mode, cancelling, bounds>>

Register(k) ==
    /\ In(k, "loading")
    /\ tasks' = [tasks EXCEPT ![k] = [@ EXCEPT !.phase = "executing",
                     !.abort = IF mode = "stopping" THEN "abort" ELSE None]]
    /\ cancelAborts' = [cancelAborts EXCEPT ![tasks[k].batch] = k]
    /\ UNCHANGED <<vars, mode, cancelling, bounds>>

Renew(k) ==
    /\ In(k, "executing") /\ Holding(k)
    /\ RenewBatchLease(tasks[k].batch, tasks[k].token)
    /\ UNCHANGED <<process, bounds>>

\* Faulty: the answer of the renewal is ignored.
RenewalFailsUnnoticed(k) ==
    /\ In(k, "executing") /\ ~Holding(k)
    /\ UNCHANGED schedulerVars

\* The renewal timer finds the lease lost.
RenewalFails(k) ==
    /\ In(k, "executing") /\ ~Holding(k)
    /\ tasks' = [tasks EXCEPT ![k] = Aborted(@, "abort")]
    /\ UNCHANGED <<vars, mode, cancelAborts, cancelling, bounds>>

\* The executor returns: a cancelled run is skipped, a run aborted for another
\* reason is left to its lease, any other is complete.
Return(k) ==
    /\ In(k, "executing")
    /\ Goto(k, CASE tasks[k].abort = None -> "completing"
                 [] tasks[k].abort = "cancel" -> "skipping"
                 [] tasks[k].abort = "abort" -> "ending")
    /\ UNCHANGED <<vars, mode, cancelAborts, cancelling, bounds>>

Throw(k) ==
    /\ In(k, "executing")
    /\ Goto(k, IF tasks[k].abort = "cancel" THEN "skipping" ELSE "failing")
    /\ UNCHANGED <<vars, mode, cancelAborts, cancelling, bounds>>

\* The outcome is written; the store refuses it without a live lease.
Settle(k, outcome) ==
    /\ In(k, IF outcome = "completed" THEN "completing" ELSE "skipping")
    /\ IF Holding(k) THEN CompleteBatch(tasks[k].batch, tasks[k].token, outcome)
       ELSE UNCHANGED vars
    /\ Goto(k, "ending")
    /\ UNCHANGED <<mode, cancelAborts, cancelling, bounds>>

SettleFailure(k, permanent, delay) ==
    /\ In(k, "failing")
    /\ IF Holding(k) THEN FailBatch(tasks[k].batch, tasks[k].token, permanent, delay)
       ELSE UNCHANGED vars
    /\ Goto(k, "ending")
    /\ UNCHANGED <<mode, cancelAborts, cancelling, bounds>>

\* Faulty: the controller is not removed.
EndRegistered(k) ==
    /\ In(k, "ending")
    /\ Leave(k)
    /\ UNCHANGED <<vars, mode, cancelAborts, cancelling, bounds>>

\* finally: the controller registered for the batch is removed, whosever it is.
End(k) ==
    /\ In(k, "ending")
    /\ Leave(k)
    /\ cancelAborts' = [cancelAborts EXCEPT ![tasks[k].batch] = None]
    /\ UNCHANGED <<vars, mode, cancelling, bounds>>

\* A store call throws: before the registration the task ends and leaves the
\* batch to its lease; after it the failure is settled, or the task ends.
StoreFails(k) ==
    /\ Fault
    /\ \/ /\ tasks[k].phase \in {"offered", "confirmed", "refused", "leased", "loading"}
          /\ Leave(k)
       \/ In(k, "completing") /\ Goto(k, IF tasks[k].abort = "cancel" THEN "skipping"
                                         ELSE "failing")
       \/ tasks[k].phase \in {"skipping", "failing"} /\ Goto(k, "ending")
       \/ /\ In(k, "executing")
          /\ tasks' = [tasks EXCEPT ![k] = Aborted(@, "abort")]
    /\ UNCHANGED <<vars, mode, cancelAborts, cancelling>>

-----------------------------------------------------------------------------
(* Operator commands, served by the same process. *)

\* Faulty: the running execution first, which writes the cancellation itself.
CancelBatchInMemory(b) ==
    /\ mode # "down"
    /\ Open(b)
    /\ Command /\ cancelled' = cancelled \cup {b}
    /\ cancelling' = cancelling \cup {b}
    /\ UNCHANGED <<vars, mode, tasks, cancelAborts>>

\* cancelBatch: the store first, the running execution after.
CancelBatch(b) ==
    /\ mode # "down"
    /\ Open(b)
    /\ Command /\ cancelled' = cancelled \cup {b}
    /\ CancelQueuedBatches({b})
    /\ cancelling' = cancelling \cup {b}
    /\ UNCHANGED <<mode, tasks, cancelAborts>>

CancelRunningBatch(b) ==
    /\ b \in cancelling
    /\ cancelling' = cancelling \ {b}
    /\ tasks' = [k \in Tasks |-> IF k = cancelAborts[b] THEN Aborted(tasks[k], "cancel")
                                 ELSE tasks[k]]
    /\ UNCHANGED <<vars, mode, cancelAborts, bounds>>

RetryBatch(b) ==
    /\ mode # "down"
    /\ Command /\ cancelled' = cancelled \ {b}
    /\ RequeueBatchForRecovery(b)
    /\ UNCHANGED process

RequeueBatch(b) ==
    /\ mode # "down"
    /\ Command /\ UNCHANGED cancelled
    /\ RequeueStalledBatch(b)
    /\ UNCHANGED process

TimePasses == Tick /\ UNCHANGED <<process, bounds>>

-----------------------------------------------------------------------------
LifeNext == Start \/ BootTimeout \/ BootReclaim \/ BootRecover \/ BootFails
            \/ Crash \/ Stop \/ Drained

Offer(k) == \/ Refuse(k) \/ Expel(k) \/ Confirm(k)
            \/ \E delay \in 0..MaxDelay : Postpone(k, delay)

Prepare(k) == \/ Lease(k) \/ NotLeased(k) \/ ReadBack(k) \/ Unreadable(k) \/ Register(k)
              \/ \E delay \in 0..MaxDelay : Defer(k, delay)

Finish(k) == \/ \E outcome \in {"completed", "skipped"} : Settle(k, outcome)
             \/ \E permanent \in BOOLEAN, delay \in 0..MaxDelay :
                   SettleFailure(k, permanent, delay)
             \/ End(k)

TaskNext(k) == \/ Offer(k) \/ Prepare(k) \/ Finish(k)
               \/ Renew(k) \/ RenewalFails(k) \/ Return(k) \/ Throw(k) \/ StoreFails(k)

SchedulerNext ==
    \/ LifeNext
    \/ ReclaimExpired
    \/ \E k \in Tasks, b \in Batches : Claim(k, b)
    \/ \E k \in Tasks : TaskNext(k)
    \/ \E b \in Batches : SkipStale(b) \/ CancelBatch(b) \/ CancelRunningBatch(b)
                          \/ RetryBatch(b) \/ RequeueBatch(b)
    \/ TimePasses

SchedulerSpec == SchedulerInit /\ [][SchedulerNext]_schedulerVars

-----------------------------------------------------------------------------
(* Fairness.  A process that is down is started again; timers fire; store   *)
(* calls return; an aborted execution ends.  A claim, an admission and a    *)
(* lease are only taken now and then, since others compete for the batch,   *)
(* the permits and the window: they need strong fairness.  Crashes,         *)
(* shutdowns, failing calls and commands get none.                          *)

ProcessFairness ==
    /\ WF_schedulerVars(Start \/ BootTimeout \/ BootReclaim \/ BootRecover \/ Drained)
    /\ WF_schedulerVars(TimePasses)
    /\ WF_schedulerVars(mode = "up" /\ ReclaimExpired)
    /\ \A b \in Batches : WF_schedulerVars(CancelRunningBatch(b))
    /\ \A k \in Tasks :
          /\ WF_schedulerVars(Offer(k))
          /\ WF_schedulerVars(Prepare(k))
          /\ WF_schedulerVars(Finish(k))
          /\ WF_schedulerVars(RenewalFails(k))
          /\ WF_schedulerVars(tasks[k].abort # None /\ (Return(k) \/ Throw(k)))

AdmissionFairness ==
    \A k \in Tasks :
       /\ \A b \in Batches : SF_schedulerVars(Claim(k, b))
       /\ SF_schedulerVars(Confirm(k) \/ Expel(k))
       /\ SF_schedulerVars(Lease(k))

\* Reviews end by themselves.
ReviewFairness == \A k \in Tasks : WF_schedulerVars(Return(k) \/ Throw(k))

AbortableSpec == SchedulerSpec /\ ProcessFairness
FairSpec == SchedulerSpec /\ ProcessFairness /\ AdmissionFairness /\ ReviewFairness

-----------------------------------------------------------------------------
(* Properties. *)

Task == [phase : {"free", "offered", "confirmed", "refused", "leased", "loading",
                  "executing", "completing", "skipping", "failing", "ending"},
         batch : Batches \cup {None}, token : Tokens \cup {None},
         seen : {"dispatch_pending", "retry_wait", None},
         abort : {None, "abort", "cancel"}]

ProcessTypeOK ==
    /\ mode \in {"down", "boot_timeout", "boot_reclaim", "boot_recover", "up", "stopping"}
    /\ tasks \in [Tasks -> Task]
    /\ cancelAborts \in [Batches -> Tasks \cup {None}]
    /\ cancelling \in SUBSET Batches

BoundsOK == /\ cancelled \in SUBSET Batches
            /\ faults \in 0..MaxFaults /\ commands \in 0..MaxCommands

SchedulerTypeOK == TypeOK /\ ProcessTypeOK /\ BoundsOK

\* No execution escapes a shutdown, whatever it was waiting for when stop() ran:
\* stopAndDrain() never waits for a review that nobody has told to end.
ShutdownReachesAll ==
    mode = "stopping" => \A k \in Tasks : In(k, "executing") => tasks[k].abort # None

\* A registered controller belongs to a task that still works on that batch: the
\* timeout guard never spares a batch for an execution that is gone.
ControllersAreAlive ==
    \A b \in Batches : cancelAborts[b] # None =>
       /\ tasks[cancelAborts[b]].batch = b
       /\ tasks[cancelAborts[b]].phase \in Working

\* A cancellation an operator was told of is final until the operator retries
\* the batch: no crash, restart, running execution, late settlement or recovery
\* undoes it.
CancelledStaysCancelled == \A b \in cancelled : batches[b].status = "skipped"

\* Every open batch is settled, through failing reviews, lost leases, crashes,
\* shutdowns, failing store calls and operator commands, as long as those end.
BatchesSettle == \A b \in Batches : Open(b) ~> ~Open(b)

\* An execution whose lease is lost ends, even one that would run for ever.
LostExecutionsEnd ==
    \A k \in Tasks : In(k, "executing") /\ ~Holding(k) ~> ~In(k, "executing")

\* A shutdown ends, even when an analysis would not.
ShutdownEnds == mode = "stopping" ~> mode # "stopping"
=============================================================================
