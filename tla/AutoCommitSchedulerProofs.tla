---------------------- MODULE AutoCommitSchedulerProofs ----------------------
(***************************************************************************)
(* The scheduler process takes no step but steps of the store, so what is  *)
(* proved of the store holds under every scheduler; and the promises of    *)
(* the process itself: a shutdown reaches every execution, a registered    *)
(* controller belongs to a working task, a cancellation is final.          *)
(***************************************************************************)
EXTENDS AutoCommitScheduler, AutoCommitStoreProofs

\* What a phase says of the task's local variables.
TaskOK(task) ==
    /\ task \in Task
    /\ task.phase # "free" => task.batch \in Batches
    /\ task.phase \notin {"free", "confirmed", "refused"} => task.token \in Tokens

TasksOK == \A k \in Tasks : TaskOK(tasks[k])

ProcessOK == ProcessTypeOK /\ TasksOK /\ ShutdownReachesAll /\ ControllersAreAlive

SInv == IInv /\ ProcessOK /\ BoundsOK /\ CancelledStaysCancelled

-----------------------------------------------------------------------------
(* The store operations a scheduler and its operators use, but for the retry: *)
(* none of them opens a skipped batch.                                        *)

StaysSkipped == \A b \in Batches : batches[b].status = "skipped"
                                   => batches'[b].status = "skipped"

Quiet == \/ DispatchNext \/ ExecuteNext \/ Tick \/ UNCHANGED vars
         \/ \E B \in SUBSET Batches : RecoverDeadBatches(B) \/ CancelQueuedBatches(B)

LEMMA QuietIsStoreStep == Quiet => [Next]_vars
BY DEF Quiet, Next, OperateNext, SweepNext

LEMMA DispatchKeepsSkipped == IInv /\ DispatchNext => StaysSkipped
<1> SUFFICES ASSUME IInv, DispatchNext PROVE StaysSkipped
  OBVIOUS
<1>0. batches \in [Batches -> Batch] /\ outbox \in [Batches -> Entry]
  BY DEF IInv, TypeOK
<1>1. CASE \E b \in Batches, t \in Tokens \ HeldTokens : ClaimDispatch(b, t)
  BY <1>1 DEF ClaimDispatch, StaysSkipped
<1>2. ASSUME NEW b \in Batches, NEW t \in Tokens, NEW left \in 0..ClaimTtl,
             ConfirmDispatch(b, t, left)
      PROVE  StaysSkipped
  <2>1. RowOK(batches[b], outbox[b]) /\ outbox[b].token # None
    BY <1>2, NoneApart DEF ConfirmDispatch, IInv, RowsOK
  <2>2. batches[b].status # "skipped"
    BY <2>1 DEF RowOK
  <2> QED BY <1>0, <1>2, <2>2 DEF ConfirmDispatch, StaysSkipped
<1>3. CASE \E b \in Batches, t \in Tokens, delay \in 0..MaxDelay : AbortDispatch(b, t, delay)
  BY <1>3 DEF AbortDispatch, StaysSkipped
<1>4. CASE \E b \in Batches, delay \in 0..MaxDelay : DeferBatchExecution(b, delay)
  BY <1>0, <1>4 DEF DeferBatchExecution, StaysSkipped
<1>5. CASE \E b \in Batches : RequeueStalledBatch(b)
  BY <1>0, <1>5 DEF RequeueStalledBatch, StaysSkipped, Queued
<1> QED BY <1>1, <1>2, <1>3, <1>4, <1>5 DEF DispatchNext

LEMMA ExecuteKeepsSkipped == IInv /\ ExecuteNext => StaysSkipped
<1> SUFFICES ASSUME IInv, ExecuteNext PROVE StaysSkipped
  OBVIOUS
<1>0. batches \in [Batches -> Batch]
  BY DEF IInv, TypeOK
<1>1. CASE \E b \in Batches, owner \in Owners, t \in Tokens \ HeldTokens, left \in 0..LeaseTtl :
              StartBatchExecution(b, owner, t, left)
  BY <1>0, <1>1 DEF StartBatchExecution, StaysSkipped
<1>2. CASE \E b \in Batches, t \in Tokens : RenewBatchLease(b, t)
  BY <1>0, <1>2 DEF RenewBatchLease, Leased, StaysSkipped
<1>3. CASE \E b \in Batches, t \in Tokens, outcome \in {"completed", "skipped"} :
              CompleteBatch(b, t, outcome)
  BY <1>0, <1>3 DEF CompleteBatch, Leased, StaysSkipped
<1>4. CASE \E b \in Batches, t \in Tokens, dead \in BOOLEAN, delay \in 0..MaxDelay :
              FailBatch(b, t, dead, delay)
  BY <1>0, <1>4 DEF FailBatch, Leased, StaysSkipped
<1>5. ASSUME NEW B \in SUBSET Batches, Reclaim(B),
             \A b \in B : batches[b].status # "skipped"
      PROVE  StaysSkipped
  BY <1>0, <1>5 DEF Reclaim, StaysSkipped
<1>6. CASE \E B \in SUBSET Batches : ReclaimExpiredBatchLeases(B)
  BY <1>5, <1>6 DEF ReclaimExpiredBatchLeases
<1>7. CASE \E owner \in Owners : ReclaimBatchesByOwner(owner)
  BY <1>5, <1>7 DEF ReclaimBatchesByOwner
<1> QED BY <1>1, <1>2, <1>3, <1>4, <1>6, <1>7 DEF ExecuteNext

LEMMA QuietKeepsSkipped == IInv /\ Quiet => StaysSkipped
<1> SUFFICES ASSUME IInv, Quiet PROVE StaysSkipped
  OBVIOUS
<1>0. batches \in [Batches -> Batch]
  BY DEF IInv, TypeOK
<1>1. CASE Tick
  BY <1>0, <1>1 DEF Tick, StaysSkipped, Batch
<1>2. CASE UNCHANGED vars
  BY <1>2 DEF vars, StaysSkipped
<1>3. ASSUME NEW B \in SUBSET Batches, RecoverDeadBatches(B) PROVE StaysSkipped
  BY <1>0, <1>3 DEF RecoverDeadBatches, StaysSkipped
<1>4. ASSUME NEW B \in SUBSET Batches, CancelQueuedBatches(B) PROVE StaysSkipped
  BY <1>0, <1>4 DEF CancelQueuedBatches, TerminalSkip, Unleased, StaysSkipped, Batch
<1> QED BY <1>1, <1>2, <1>3, <1>4, DispatchKeepsSkipped, ExecuteKeepsSkipped DEF Quiet

-----------------------------------------------------------------------------
(* How a step may change the process. *)

Still == UNCHANGED <<mode, cancelAborts, cancelling>>

\* One task moves on: it stays registered while it works.
LEMMA TaskMoves ==
    ASSUME ProcessOK, NEW k \in Tasks, NEW task, TaskOK(task), Still,
           tasks' = [tasks EXCEPT ![k] = task],
           task.phase = "executing" /\ mode = "stopping" => task.abort # None,
           tasks[k].phase \in Working => task.phase \in Working /\ task.batch = tasks[k].batch
    PROVE  ProcessOK'
<1>1. \A j \in Tasks : tasks'[j] = IF j = k THEN task ELSE tasks[j]
  BY DEF ProcessOK, ProcessTypeOK
<1>2. ProcessTypeOK'
  BY DEF ProcessOK, ProcessTypeOK, Still, TaskOK
<1>3. TasksOK'
  BY <1>1 DEF ProcessOK, TasksOK, TaskOK
<1>4. ShutdownReachesAll'
  BY <1>1 DEF ProcessOK, ShutdownReachesAll, In, Still
<1>5. ControllersAreAlive'
  <2>1. SUFFICES ASSUME NEW b \in Batches, cancelAborts[b] # None
                 PROVE  /\ tasks'[cancelAborts[b]].batch = b
                        /\ tasks'[cancelAborts[b]].phase \in Working
    BY DEF ControllersAreAlive, Still
  <2>2. cancelAborts[b] \in Tasks
    BY <2>1 DEF ProcessOK, ProcessTypeOK
  <2>3. tasks[cancelAborts[b]].batch = b /\ tasks[cancelAborts[b]].phase \in Working
    BY <2>1 DEF ProcessOK, ControllersAreAlive
  <2> QED BY <1>1, <2>2, <2>3
<1> QED BY <1>2, <1>3, <1>4, <1>5 DEF ProcessOK

LEMMA GotoMoves ==
    ASSUME ProcessOK, NEW k \in Tasks, NEW phase, Goto(k, phase), Still,
           phase \in {"refused", "loading"} \cup (Working \ {"executing"}),
           tasks[k].phase # "free",
           phase # "refused" => tasks[k].token \in Tokens,
           tasks[k].phase \in Working => phase \in Working
    PROVE  ProcessOK'
<1>1. TaskOK(tasks[k])
  BY DEF ProcessOK, TasksOK
<1> DEFINE task == [tasks[k] EXCEPT !.phase = phase]
<1>2. TaskOK(task) /\ task.batch = tasks[k].batch /\ task.phase = phase
  BY <1>1 DEF TaskOK, Task, Working
<1>3. tasks' = [tasks EXCEPT ![k] = task]
  BY DEF Goto
<1> HIDE DEF task
<1> QED BY <1>2, <1>3, TaskMoves DEF Working

LEMMA LeaveMoves ==
    ASSUME ProcessOK, NEW k \in Tasks, Leave(k), Still, tasks[k].phase \notin Working
    PROVE  ProcessOK'
<1>1. TaskOK(NoTask) /\ NoTask.phase = "free"
  BY DEF TaskOK, Task, NoTask
<1> QED BY <1>1, TaskMoves DEF Leave

LEMMA AbortMoves ==
    ASSUME ProcessOK, NEW k \in Tasks, Still, tasks[k].phase = "executing",
           tasks' = [tasks EXCEPT ![k] = Aborted(@, "abort")]
    PROVE  ProcessOK'
<1>1. TaskOK(tasks[k])
  BY DEF ProcessOK, TasksOK
<1> DEFINE task == Aborted(tasks[k], "abort")
<1>2. TaskOK(task) /\ task.batch = tasks[k].batch /\ task.phase = "executing"
      /\ task.abort # None
  BY <1>1, SchedulerAssumption DEF TaskOK, Task, Aborted
<1>3. tasks' = [tasks EXCEPT ![k] = task]
  OBVIOUS
<1> HIDE DEF task
<1> QED BY <1>2, <1>3, TaskMoves DEF Working

-----------------------------------------------------------------------------
(* Every action but the commands: a quiet step of the store, a sound step of *)
(* the process, and at most one fault more.                                  *)

Bounded == UNCHANGED bounds \/ Fault
Sound == Quiet /\ ProcessOK' /\ Bounded

\* The argument a task or the process passes to the store is one of the store's.
LEMMA Durations == /\ ClaimTtl \in 0..ClaimTtl /\ LeaseTtl \in 0..LeaseTtl
                   /\ 0 \in 0..MaxDelay /\ ConsumerId \in Owners
BY ConstantsAssumption, SchedulerAssumption

LEMMA NewTokenIsNew == NewTokens # {} => NewToken \in Tokens \ HeldTokens
BY DEF NewToken, NewTokens

LEMMA LifeSound == SInv /\ LifeNext => Sound
<1> SUFFICES ASSUME SInv, LifeNext PROVE Sound
  OBVIOUS
<1>0. ProcessOK /\ ProcessTypeOK /\ TasksOK
  BY DEF SInv, ProcessOK
<1>1. ASSUME UNCHANGED <<tasks, cancelAborts, cancelling>>,
             mode' \in {"down", "boot_timeout", "boot_reclaim", "boot_recover", "up"}
      PROVE  ProcessOK'
  <2>1. ProcessTypeOK' /\ TasksOK'
    BY <1>0, <1>1 DEF ProcessTypeOK, TasksOK
  <2>2. ShutdownReachesAll' /\ ControllersAreAlive'
    BY <1>0, <1>1 DEF ProcessOK, ShutdownReachesAll, ControllersAreAlive
  <2> QED BY <2>1, <2>2 DEF ProcessOK
<1>2. CASE Start
  BY <1>1, <1>2 DEF Start, Sound, Quiet, Bounded
<1>3. CASE BootTimeout
  <2>1. Quiet
    BY <1>3 DEF BootTimeout, Quiet, Overdue
  <2> QED BY <1>1, <1>3, <2>1 DEF BootTimeout, Sound, Bounded
<1>4. CASE BootReclaim
  <2>1. Quiet
    BY <1>4, Durations DEF BootReclaim, Quiet, ExecuteNext
  <2> QED BY <1>1, <1>4, <2>1 DEF BootReclaim, Sound, Bounded
<1>5. CASE BootRecover
  BY <1>1, <1>5 DEF BootRecover, Sound, Quiet, Bounded
<1>6. CASE BootFails
  BY <1>1, <1>6 DEF BootFails, Sound, Quiet, Bounded
<1>7. CASE Crash
  <2>1. NoTask \in Task /\ TaskOK(NoTask)
    BY DEF TaskOK, Task, NoTask
  <2>2. ProcessTypeOK' /\ TasksOK'
    BY <1>7, <2>1 DEF Crash, ProcessTypeOK, TasksOK, NoAborts
  <2>3. ShutdownReachesAll' /\ ControllersAreAlive'
    BY <1>7 DEF Crash, ShutdownReachesAll, ControllersAreAlive, NoAborts
  <2> QED BY <1>7, <2>2, <2>3 DEF Crash, Sound, Quiet, Bounded, ProcessOK
<1>8. CASE Stop
  <2>1. ASSUME NEW k \in Tasks
        PROVE  /\ TaskOK(tasks'[k])
               /\ tasks'[k].phase = tasks[k].phase /\ tasks'[k].batch = tasks[k].batch
               /\ tasks[k].phase = "executing" => tasks'[k].abort # None
    <3>1. TaskOK(tasks[k])
      BY <1>0 DEF TasksOK
    <3>2. tasks'[k] = IF In(k, "executing") THEN Aborted(tasks[k], "abort") ELSE tasks[k]
      BY <1>8 DEF Stop
    <3> QED BY <3>1, <3>2, SchedulerAssumption DEF TaskOK, Task, Aborted, In
  <2>2. ProcessTypeOK' /\ TasksOK'
    BY <1>0, <1>8, <2>1 DEF Stop, ProcessTypeOK, TasksOK, TaskOK
  <2>3. ShutdownReachesAll'
    BY <1>8, <2>1 DEF Stop, ShutdownReachesAll, In
  <2>4. ControllersAreAlive'
    <3>1. ASSUME NEW b \in Batches, cancelAborts[b] # None
          PROVE  cancelAborts[b] \in Tasks
      BY <1>0, <3>1 DEF ProcessTypeOK
    <3> QED BY <1>0, <1>8, <2>1, <3>1 DEF Stop, ProcessOK, ControllersAreAlive
  <2> QED BY <1>8, <2>2, <2>3, <2>4 DEF Stop, Sound, Quiet, Bounded, ProcessOK
<1>9. CASE Drained
  <2>1. ProcessTypeOK' /\ TasksOK'
    BY <1>0, <1>9 DEF Drained, ProcessTypeOK, TasksOK
  <2>2. ShutdownReachesAll' /\ ControllersAreAlive'
    BY <1>0, <1>9 DEF Drained, ProcessOK, ShutdownReachesAll, ControllersAreAlive
  <2> QED BY <1>9, <2>1, <2>2 DEF Drained, Sound, Quiet, Bounded, ProcessOK
<1> QED BY <1>2, <1>3, <1>4, <1>5, <1>6, <1>7, <1>8, <1>9 DEF LifeNext

\* The process stays as it is.
LEMMA ProcessStays == ProcessOK /\ UNCHANGED process => ProcessOK'
BY DEF ProcessOK, ProcessTypeOK, TasksOK, ShutdownReachesAll, ControllersAreAlive, In,
       process

LEMMA SkipStaleSound == \A b \in Batches : SInv /\ SkipStale(b) => Sound
BY ProcessStays DEF SkipStale, SInv, Sound, Quiet, Bounded

LEMMA ReclaimSound == SInv /\ ReclaimExpired => Sound
<1> SUFFICES ASSUME SInv, ReclaimExpired PROVE Sound
  OBVIOUS
<1>1. \E B \in SUBSET Batches : ReclaimExpiredBatchLeases(B)
  BY DEF ReclaimExpired
<1>2. Quiet
  BY <1>1 DEF Quiet, ExecuteNext
<1> QED BY <1>2, ProcessStays DEF ReclaimExpired, SInv, Sound, Bounded

LEMMA ClaimSound ==
    ASSUME SInv, NEW k \in Tasks, NEW b \in Batches, Claim(k, b) PROVE Sound
<1>1. Quiet
  BY NewTokenIsNew DEF Claim, Quiet, DispatchNext
<1>2. RowOK(batches[b], outbox[b]) /\ outbox[b].status = "pending"
  BY DEF SInv, IInv, RowsOK, Claim, ClaimDispatch
<1>3. batches[b].status \in {"dispatch_pending", "retry_wait"}
  BY <1>2 DEF RowOK
<1> DEFINE task == [NoTask EXCEPT !.phase = "offered", !.batch = b, !.token = NewToken,
                                  !.seen = batches[b].status]
<1>4. NewToken \in Tokens
  BY NewTokenIsNew DEF Claim
<1>5. TaskOK(task) /\ task.phase = "offered"
  BY <1>3, <1>4 DEF TaskOK, Task, NoTask
<1>6. tasks' = [tasks EXCEPT ![k] = task] /\ Still /\ tasks[k].phase = "free"
  BY DEF Claim, Still, In
<1> HIDE DEF task
<1>7. ProcessOK'
  BY <1>5, <1>6, TaskMoves DEF SInv, Working
<1> QED BY <1>1, <1>7 DEF Claim, Sound, Bounded

\* What is known of a task that is in one of its phases.
LEMMA TaskFacts ==
    ASSUME SInv, NEW k \in Tasks, tasks[k].phase # "free"
    PROVE  /\ TaskOK(tasks[k]) /\ tasks[k].batch \in Batches
           /\ tasks[k].phase \notin {"confirmed", "refused"} => tasks[k].token \in Tokens
BY DEF SInv, ProcessOK, TasksOK, TaskOK

LEMMA OfferSound == ASSUME SInv, NEW k \in Tasks, Offer(k) PROVE Sound
<1>0. In(k, "offered") /\ tasks[k].phase = "offered" /\ ProcessOK
  BY DEF Offer, Refuse, Expel, Confirm, Postpone, AdmittedNow, In, SInv
<1>1. tasks[k].batch \in Batches /\ tasks[k].token \in Tokens
  BY <1>0, TaskFacts
<1>2. ASSUME NEW delay \in 0..MaxDelay, GiveBack(k, delay) PROVE Sound
  <2>1. Quiet
    BY <1>1, <1>2 DEF GiveBack, Quiet, DispatchNext
  <2>2. ProcessOK'
    BY <1>0, <1>2, LeaveMoves DEF GiveBack, Still, Working
  <2> QED BY <1>2, <2>1, <2>2 DEF GiveBack, Sound, Bounded
<1>3. CASE Refuse(k)
  BY <1>2, <1>3, Durations DEF Refuse
<1>4. CASE \E delay \in 0..MaxDelay : Postpone(k, delay)
  BY <1>2, <1>4 DEF Postpone
<1>5. CASE Expel(k)
  <2>1. Quiet
    BY <1>1, <1>5 DEF Expel, Quiet
  <2>2. ProcessOK'
    BY <1>0, <1>5, LeaveMoves DEF Expel, Still, Working
  <2> QED BY <1>5, <2>1, <2>2 DEF Expel, Sound, Bounded
<1>6. CASE Confirm(k)
  <2>1. Quiet
    BY <1>1, <1>6, Durations DEF Confirm, Quiet, DispatchNext
  <2> DEFINE task == [NoTask EXCEPT !.phase = "confirmed", !.batch = tasks[k].batch]
  <2>2. TaskOK(task) /\ task.phase = "confirmed"
    BY <1>1 DEF TaskOK, Task, NoTask
  <2>3. tasks' = [tasks EXCEPT ![k] = task] /\ Still
    BY <1>6 DEF Confirm, Still
  <2> HIDE DEF task
  <2>4. ProcessOK'
    BY <1>0, <2>2, <2>3, TaskMoves DEF Working
  <2> QED BY <1>6, <2>1, <2>4 DEF Confirm, Sound, Bounded
<1> QED BY <1>3, <1>4, <1>5, <1>6 DEF Offer

LEMMA PrepareSound == ASSUME SInv, NEW k \in Tasks, Prepare(k) PROVE Sound
<1>0. tasks[k].phase \in {"confirmed", "refused", "leased", "loading"} /\ ProcessOK
  BY DEF Prepare, Lease, NotLeased, ReadBack, Unreadable, Register, Defer, In, SInv
<1>1. /\ TaskOK(tasks[k]) /\ tasks[k].batch \in Batches
      /\ tasks[k].phase \notin {"confirmed", "refused"} => tasks[k].token \in Tokens
  BY <1>0, TaskFacts
<1>2. CASE Lease(k)
  <2>1. Quiet /\ NewToken \in Tokens
    BY <1>1, <1>2, Durations, NewTokenIsNew DEF Lease, Quiet, ExecuteNext
  <2> DEFINE task == [tasks[k] EXCEPT !.phase = "leased", !.token = NewToken]
  <2>2. TaskOK(task) /\ task.phase = "leased"
    BY <1>1, <2>1 DEF TaskOK, Task
  <2>3. tasks' = [tasks EXCEPT ![k] = task] /\ Still
    BY <1>2 DEF Lease, Still
  <2> HIDE DEF task
  <2>4. ProcessOK'
    BY <1>0, <2>2, <2>3, TaskMoves DEF Working
  <2> QED BY <1>2, <2>1, <2>4 DEF Lease, Sound, Bounded
<1>3. CASE NotLeased(k)
  BY <1>0, <1>3, GotoMoves DEF NotLeased, Still, Working, Sound, Quiet, Bounded
<1>4. ASSUME NEW delay \in 0..MaxDelay, Defer(k, delay) PROVE Sound
  <2>1. Quiet
    BY <1>1, <1>4 DEF Defer, Quiet, DispatchNext
  <2>2. ProcessOK'
    BY <1>0, <1>4, LeaveMoves DEF Defer, Still, Working
  <2> QED BY <1>4, <2>1, <2>2 DEF Defer, Sound, Bounded
<1>5. CASE ReadBack(k)
  <2>1. Still /\ tasks[k].phase = "leased"
    BY <1>5 DEF ReadBack, Still, In
  <2>2. CASE Goto(k, "loading")
    BY <1>0, <1>1, <1>5, <2>1, <2>2, GotoMoves
    DEF ReadBack, Working, Sound, Quiet, Bounded
  <2>3. CASE Leave(k)
    BY <1>0, <1>5, <2>1, <2>3, LeaveMoves DEF ReadBack, Working, Sound, Quiet, Bounded
  <2> QED BY <1>5, <2>2, <2>3 DEF ReadBack
<1>6. CASE Unreadable(k)
  <2>0. In(k, "loading") /\ tasks[k].phase = "loading"
    BY <1>6 DEF Unreadable, In
  <2>1. Quiet
    BY <1>1, <1>6, <2>0, Durations DEF Unreadable, Quiet, ExecuteNext
  <2>2. ProcessOK'
    BY <1>0, <1>6, LeaveMoves DEF Unreadable, Still, Working
  <2> QED BY <1>6, <2>1, <2>2 DEF Unreadable, Sound, Bounded
<1>7. CASE Register(k)
  <2> DEFINE task == [tasks[k] EXCEPT !.phase = "executing",
                        !.abort = IF mode = "stopping" THEN "abort" ELSE None]
  <2>0. tasks[k].phase = "loading" /\ tasks' = [tasks EXCEPT ![k] = task]
        /\ UNCHANGED <<mode, cancelling>>
        /\ cancelAborts' = [cancelAborts EXCEPT ![tasks[k].batch] = k]
    BY <1>7 DEF Register, In
  <2>1. /\ TaskOK(task) /\ task.batch = tasks[k].batch /\ task.phase = "executing"
        /\ mode = "stopping" => task.abort # None
    BY <1>1, <2>0, SchedulerAssumption DEF TaskOK, Task
  <2> HIDE DEF task
  <2>2. \A j \in Tasks : tasks'[j] = IF j = k THEN task ELSE tasks[j]
    BY <1>0, <2>0 DEF ProcessOK, ProcessTypeOK
  <2>3. ProcessTypeOK' /\ TasksOK'
    BY <1>0, <1>1, <2>0, <2>1, <2>2 DEF ProcessOK, ProcessTypeOK, TasksOK, TaskOK
  <2>4. ShutdownReachesAll'
    BY <1>0, <2>0, <2>1, <2>2 DEF ProcessOK, ShutdownReachesAll, In
  <2>5. ControllersAreAlive'
    <3>1. SUFFICES ASSUME NEW b \in Batches, cancelAborts'[b] # None
                   PROVE  /\ tasks'[cancelAborts'[b]].batch = b
                          /\ tasks'[cancelAborts'[b]].phase \in Working
      BY DEF ControllersAreAlive
    <3>2. CASE b = tasks[k].batch
      <4>1. cancelAborts'[b] = k
        BY <1>0, <2>0, <3>2 DEF ProcessOK, ProcessTypeOK
      <4> QED BY <2>1, <2>2, <3>2, <4>1 DEF Working
    <3>3. CASE b # tasks[k].batch
      <4>1. cancelAborts'[b] = cancelAborts[b] /\ cancelAborts[b] \in Tasks
        BY <1>0, <2>0, <3>1, <3>3 DEF ProcessOK, ProcessTypeOK
      <4>2. tasks[cancelAborts[b]].batch = b /\ tasks[cancelAborts[b]].phase \in Working
        BY <1>0, <3>1, <4>1 DEF ProcessOK, ControllersAreAlive
      <4>3. cancelAborts[b] # k
        BY <2>0, <4>2 DEF Working
      <4> QED BY <2>2, <4>1, <4>2, <4>3
    <3> QED BY <3>2, <3>3
  <2>6. ProcessOK'
    BY <2>3, <2>4, <2>5 DEF ProcessOK
  <2> QED BY <1>7, <2>6 DEF Register, Sound, Quiet, Bounded
<1> QED BY <1>2, <1>3, <1>4, <1>5, <1>6, <1>7 DEF Prepare

LEMMA ExecuteSound ==
    ASSUME SInv, NEW k \in Tasks, Renew(k) \/ RenewalFails(k) \/ Return(k) \/ Throw(k)
    PROVE  Sound
<1>0. tasks[k].phase = "executing" /\ ProcessOK
  BY DEF Renew, RenewalFails, Return, Throw, In, SInv
<1>1. tasks[k].batch \in Batches /\ tasks[k].token \in Tokens
      /\ tasks[k].abort \in {None, "abort", "cancel"}
  BY <1>0, TaskFacts DEF TaskOK, Task
<1>2. CASE Renew(k)
  <2>1. Quiet
    BY <1>1, <1>2 DEF Renew, Quiet, ExecuteNext
  <2> QED BY <1>0, <1>2, <2>1, ProcessStays DEF Renew, Sound, Bounded
<1>3. CASE RenewalFails(k)
  BY <1>0, <1>3, AbortMoves DEF RenewalFails, Still, Sound, Quiet, Bounded
<1>4. ASSUME NEW phase \in {"completing", "skipping", "failing", "ending"}, Goto(k, phase), Still
      PROVE  ProcessOK'
  BY <1>0, <1>1, <1>4, GotoMoves DEF Working
<1>5. CASE Return(k)
  BY <1>1, <1>4, <1>5 DEF Return, Still, Sound, Quiet, Bounded
<1>6. CASE Throw(k)
  BY <1>4, <1>6 DEF Throw, Still, Sound, Quiet, Bounded
<1> QED BY <1>2, <1>3, <1>5, <1>6

LEMMA FinishSound == ASSUME SInv, NEW k \in Tasks, Finish(k) PROVE Sound
<1>0. tasks[k].phase \in Working \ {"executing"} /\ ProcessOK
  BY DEF Finish, Settle, SettleFailure, End, In, Working, SInv
<1>1. tasks[k].batch \in Batches /\ tasks[k].token \in Tokens
  BY <1>0, TaskFacts DEF Working
<1>2. ASSUME Goto(k, "ending"), Still PROVE ProcessOK'
  BY <1>0, <1>1, <1>2, GotoMoves DEF Working
<1>3. ASSUME NEW outcome \in {"completed", "skipped"}, Settle(k, outcome) PROVE Sound
  <2>1. Quiet
    BY <1>1, <1>3 DEF Settle, Quiet, ExecuteNext
  <2> QED BY <1>2, <1>3, <2>1 DEF Settle, Still, Sound, Bounded
<1>4. ASSUME NEW permanent \in BOOLEAN, NEW delay \in 0..MaxDelay,
             SettleFailure(k, permanent, delay)
      PROVE  Sound
  <2>1. Quiet
    BY <1>1, <1>4 DEF SettleFailure, Quiet, ExecuteNext
  <2> QED BY <1>2, <1>4, <2>1 DEF SettleFailure, Still, Sound, Bounded
<1>5. CASE End(k)
  <2>0. /\ tasks' = [tasks EXCEPT ![k] = NoTask] /\ UNCHANGED <<mode, cancelling>>
        /\ cancelAborts' = [cancelAborts EXCEPT ![tasks[k].batch] = None]
    BY <1>5 DEF End, Leave
  <2>1. TaskOK(NoTask) /\ NoTask.phase = "free"
    BY DEF TaskOK, Task, NoTask
  <2>2. \A j \in Tasks : tasks'[j] = IF j = k THEN NoTask ELSE tasks[j]
    BY <1>0, <2>0 DEF ProcessOK, ProcessTypeOK
  <2>3. ProcessTypeOK' /\ TasksOK'
    BY <1>0, <2>0, <2>1, <2>2 DEF ProcessOK, ProcessTypeOK, TasksOK, TaskOK
  <2>4. ShutdownReachesAll'
    BY <1>0, <2>0, <2>1, <2>2 DEF ProcessOK, ShutdownReachesAll, In
  <2>5. ControllersAreAlive'
    <3>1. SUFFICES ASSUME NEW b \in Batches, cancelAborts'[b] # None
                   PROVE  /\ tasks'[cancelAborts'[b]].batch = b
                          /\ tasks'[cancelAborts'[b]].phase \in Working
      BY DEF ControllersAreAlive
    <3>2. b # tasks[k].batch /\ cancelAborts'[b] = cancelAborts[b] /\ cancelAborts[b] \in Tasks
      BY <1>0, <2>0, <3>1 DEF ProcessOK, ProcessTypeOK
    <3>3. tasks[cancelAborts[b]].batch = b /\ tasks[cancelAborts[b]].phase \in Working
      BY <1>0, <3>1, <3>2 DEF ProcessOK, ControllersAreAlive
    <3>4. cancelAborts[b] # k
      BY <3>2, <3>3
    <3> QED BY <2>2, <3>2, <3>3, <3>4
  <2>6. ProcessOK'
    BY <2>3, <2>4, <2>5 DEF ProcessOK
  <2> QED BY <1>5, <2>6 DEF End, Sound, Quiet, Bounded
<1> QED BY <1>3, <1>4, <1>5 DEF Finish

LEMMA FailSound == ASSUME SInv, NEW k \in Tasks, StoreFails(k) PROVE Sound
<1>0. tasks[k].phase # "free" /\ ProcessOK /\ Still /\ Quiet /\ Bounded
  BY DEF StoreFails, In, SInv, Still, Quiet, Bounded
<1>1. tasks[k].phase \notin {"confirmed", "refused"} => tasks[k].token \in Tokens
  BY <1>0, TaskFacts
<1>2. CASE /\ tasks[k].phase \in {"offered", "confirmed", "refused", "leased", "loading"}
           /\ Leave(k)
  BY <1>0, <1>2, LeaveMoves DEF Working, Sound
<1>3. ASSUME NEW phase \in {"skipping", "failing", "ending"}, Goto(k, phase),
             tasks[k].phase \in {"completing", "skipping", "failing"}
      PROVE  Sound
  BY <1>0, <1>1, <1>3, GotoMoves DEF Working, Sound
<1>4. CASE /\ In(k, "executing")
           /\ tasks' = [tasks EXCEPT ![k] = Aborted(@, "abort")]
  BY <1>0, <1>4, AbortMoves DEF In, Sound
<1> QED BY <1>2, <1>3, <1>4 DEF StoreFails, In

LEMMA CancelRunningSound == ASSUME SInv, NEW b \in Batches, CancelRunningBatch(b) PROVE Sound
<1>0. ProcessOK /\ ProcessTypeOK /\ TasksOK
  BY DEF SInv, ProcessOK
<1>1. ASSUME NEW k \in Tasks
      PROVE  /\ TaskOK(tasks'[k])
             /\ tasks'[k].phase = tasks[k].phase /\ tasks'[k].batch = tasks[k].batch
             /\ tasks[k].abort # None => tasks'[k].abort # None
  <2>1. TaskOK(tasks[k])
    BY <1>0 DEF TasksOK
  <2>2. tasks'[k] = IF k = cancelAborts[b] THEN Aborted(tasks[k], "cancel") ELSE tasks[k]
    BY DEF CancelRunningBatch
  <2> QED BY <2>1, <2>2, SchedulerAssumption DEF TaskOK, Task, Aborted
<1>2. ProcessTypeOK' /\ TasksOK'
  BY <1>0, <1>1 DEF CancelRunningBatch, ProcessTypeOK, TasksOK, TaskOK
<1>3. ShutdownReachesAll'
  BY <1>0, <1>1 DEF CancelRunningBatch, ProcessOK, ShutdownReachesAll, In
<1>4. ControllersAreAlive'
  <2>1. ASSUME NEW c \in Batches, cancelAborts[c] # None PROVE cancelAborts[c] \in Tasks
    BY <1>0, <2>1 DEF ProcessTypeOK
  <2> QED BY <1>0, <1>1, <2>1 DEF CancelRunningBatch, ProcessOK, ControllersAreAlive
<1>5. ProcessOK'
  BY <1>2, <1>3, <1>4 DEF ProcessOK
<1> QED BY <1>5 DEF CancelRunningBatch, Sound, Quiet, Bounded

-----------------------------------------------------------------------------
(* The steps and the theorems. *)

\* A sound step keeps the invariant.
LEMMA SoundStep == SInv /\ Sound => [Next]_vars /\ SInv'
<1> SUFFICES ASSUME SInv, Sound PROVE [Next]_vars /\ SInv'
  OBVIOUS
<1>1. [Next]_vars /\ IInv'
  BY QuietIsStoreStep, StepIInv DEF Sound, SInv
<1>2. BoundsOK'
  BY SchedulerAssumption DEF SInv, Sound, Bounded, BoundsOK, Fault, bounds
<1>3. cancelled' = cancelled
  BY DEF Sound, Bounded, Fault, bounds
<1>4. StaysSkipped
  BY QuietKeepsSkipped DEF Sound, SInv
<1>5. CancelledStaysCancelled'
  BY <1>3, <1>4 DEF SInv, BoundsOK, CancelledStaysCancelled, StaysSkipped
<1> QED BY <1>1, <1>2, <1>5 DEF SInv, Sound

LEMMA CommandStep ==
    ASSUME SInv, NEW b \in Batches, CancelBatch(b) \/ RetryBatch(b) \/ RequeueBatch(b)
    PROVE  [Next]_vars /\ SInv'
<1>0. IInv /\ ProcessOK /\ BoundsOK /\ CancelledStaysCancelled /\ batches \in [Batches -> Batch]
  BY DEF SInv, IInv, TypeOK
<1>1. BoundsOK'
  BY <1>0, SchedulerAssumption DEF CancelBatch, RetryBatch, RequeueBatch, Command, BoundsOK
<1>2. CASE CancelBatch(b)
  <2>1. Quiet
    BY <1>2 DEF CancelBatch, Quiet
  <2>2. [Next]_vars /\ IInv' /\ StaysSkipped
    BY <1>0, <2>1, QuietIsStoreStep, QuietKeepsSkipped, StepIInv
  <2>3. ProcessOK'
    <3>1. ProcessTypeOK' /\ TasksOK'
      BY <1>0, <1>2 DEF CancelBatch, ProcessOK, ProcessTypeOK, TasksOK
    <3> QED BY <1>0, <1>2, <3>1
        DEF CancelBatch, ProcessOK, ShutdownReachesAll, ControllersAreAlive, In
  <2>4. batches'[b].status = "skipped"
    BY <1>0, <1>2 DEF CancelBatch, CancelQueuedBatches, TerminalSkip, Unleased, Batch
  <2>5. CancelledStaysCancelled'
    BY <1>0, <1>2, <2>2, <2>4 DEF CancelBatch, CancelledStaysCancelled, StaysSkipped, BoundsOK
  <2> QED BY <1>1, <2>2, <2>3, <2>5 DEF SInv
<1>3. CASE RetryBatch(b)
  <2>1. [Next]_vars
    BY <1>3 DEF RetryBatch, Next, OperateNext, RetryNext
  <2>2. IInv' /\ ProcessOK'
    BY <1>0, <1>3, <2>1, StepIInv, ProcessStays DEF RetryBatch
  <2>3. \A c \in Batches : c # b => batches'[c] = batches[c]
    BY <1>0, <1>3 DEF RetryBatch, RequeueBatchForRecovery
  <2>4. CancelledStaysCancelled'
    BY <1>0, <1>3, <2>3 DEF RetryBatch, CancelledStaysCancelled, BoundsOK
  <2> QED BY <1>1, <2>1, <2>2, <2>4 DEF SInv
<1>4. CASE RequeueBatch(b)
  <2>1. Quiet
    BY <1>4 DEF RequeueBatch, Quiet, DispatchNext
  <2>2. [Next]_vars /\ IInv' /\ StaysSkipped
    BY <1>0, <2>1, QuietIsStoreStep, QuietKeepsSkipped, StepIInv
  <2>3. ProcessOK' /\ cancelled' = cancelled
    BY <1>0, <1>4, ProcessStays DEF RequeueBatch, Command
  <2>4. CancelledStaysCancelled'
    BY <1>0, <2>2, <2>3 DEF CancelledStaysCancelled, StaysSkipped, BoundsOK
  <2> QED BY <1>1, <2>2, <2>3, <2>4 DEF SInv
<1> QED BY <1>2, <1>3, <1>4

LEMMA SchedulerStep ==
    SInv /\ [SchedulerNext]_schedulerVars => [Next]_vars /\ SInv'
<1> SUFFICES ASSUME SInv, [SchedulerNext]_schedulerVars PROVE [Next]_vars /\ SInv'
  OBVIOUS
<1>1. CASE UNCHANGED schedulerVars
  <2>1. Sound
    BY <1>1, ProcessStays DEF schedulerVars, SInv, Sound, Quiet, Bounded
  <2> QED BY <2>1, SoundStep
<1>2. CASE LifeNext \/ ReclaimExpired
  BY <1>2, LifeSound, ReclaimSound, SoundStep
<1>3. CASE \E k \in Tasks, b \in Batches : Claim(k, b)
  BY <1>3, ClaimSound, SoundStep
<1>4. ASSUME NEW k \in Tasks, TaskNext(k) PROVE [Next]_vars /\ SInv'
  <2>1. Sound
    BY <1>4, OfferSound, PrepareSound, FinishSound, ExecuteSound, FailSound DEF TaskNext
  <2> QED BY <2>1, SoundStep
<1>5. ASSUME NEW b \in Batches, SkipStale(b) \/ CancelRunningBatch(b)
      PROVE  [Next]_vars /\ SInv'
  BY <1>5, SkipStaleSound, CancelRunningSound, SoundStep
<1>6. ASSUME NEW b \in Batches, CancelBatch(b) \/ RetryBatch(b) \/ RequeueBatch(b)
      PROVE  [Next]_vars /\ SInv'
  BY <1>6, CommandStep
<1>7. CASE TimePasses
  <2>1. Sound
    BY <1>7, ProcessStays DEF TimePasses, SInv, Sound, Quiet, Bounded
  <2> QED BY <2>1, SoundStep
<1> QED BY <1>1, <1>2, <1>3, <1>4, <1>5, <1>6, <1>7 DEF SchedulerNext

\* What a process finds when it starts: the batch of a stream occupies it and is
\* either waiting for its first dispatch or dead.
LEMMA SchedulerInitInv == SchedulerInit => SInv
<1> SUFFICES ASSUME SchedulerInit PROVE SInv
  OBVIOUS
<1> DEFINE Waiting(b) == [NoBatch EXCEPT !.status = "dispatch_pending", !.stream = Home[b]]
<1>1. PICK old \in SUBSET Batches :
         /\ batches = [b \in Batches |-> IF b \in old THEN DeadBatch(Home[b]) ELSE Waiting(b)]
         /\ outbox = [b \in Batches |-> IF b \in old THEN NoEntry ELSE PendingEntry(0)]
         /\ members = [m \in Members |->
               LET b == CHOOSE c \in Batches : Home[c] = StreamOf[m]
               IN  [NoMember EXCEPT !.batch = b,
                      !.status = IF b \in old THEN "dead" ELSE "batched"]]
  BY DEF SchedulerInit
<1>2. heads = [s \in Streams |-> [FreeHead EXCEPT !.active =
                 IF \E b \in Batches : Home[b] = s
                 THEN CHOOSE b \in Batches : Home[b] = s ELSE None]]
  BY DEF SchedulerInit
<1>3. ASSUME NEW b \in Batches
      PROVE  /\ Home[b] \in Streams
             /\ DeadBatch(Home[b]) \in Batch /\ Waiting(b) \in Batch
             /\ DeadBatch(Home[b]).stream = Home[b] /\ DeadBatch(Home[b]).status = "dead"
             /\ Waiting(b).stream = Home[b] /\ Waiting(b).status = "dispatch_pending"
             /\ RowOK(DeadBatch(Home[b]), NoEntry) /\ RowOK(Waiting(b), PendingEntry(0))
  <2>1. Home[b] \in Streams
    BY SchedulerAssumption
  <2>2. MaxAttempts \in Nat /\ MaxAge \in Nat
    BY ConstantsAssumption
  <2>3. DeadBatch(Home[b]) \in Batch /\ Waiting(b) \in Batch
    <3>1. NoBatch \in Batch
      BY <2>2 DEF NoBatch, Batch, BatchStatus, Queued, Terminal, Ages
    <3> QED BY <2>1, <2>2, <3>1 DEF DeadBatch, Batch, BatchStatus, Queued, Terminal
  <2>4. RowOK(DeadBatch(Home[b]), NoEntry) /\ RowOK(Waiting(b), PendingEntry(0))
    BY DEF RowOK, DeadBatch, NoBatch, NoEntry, PendingEntry
  <2> QED BY <2>1, <2>3, <2>4 DEF DeadBatch, NoBatch
<1> HIDE DEF Waiting
<1>4. TypeOK
  <2>1. batches \in [Batches -> Batch]
    BY <1>1, <1>3
  <2>2. NoEntry \in Entry /\ PendingEntry(0) \in Entry
    BY DEF NoEntry, PendingEntry, Entry
  <2>3. outbox \in [Batches -> Entry]
    BY <1>1, <2>2
  <2>4. ASSUME NEW s \in Streams PROVE heads[s] \in Head
    BY <1>2 DEF FreeHead, Head
  <2>5. ASSUME NEW m \in Members PROVE members[m] \in Member
    <3> DEFINE b == CHOOSE c \in Batches : Home[c] = StreamOf[m]
    <3>1. b \in Batches
      BY SchedulerAssumption
    <3>2. members[m] = [NoMember EXCEPT !.batch = b,
                          !.status = IF b \in old THEN "dead" ELSE "batched"]
      BY <1>1
    <3>3. NoMember \in Member
      BY ConstantsAssumption DEF NoMember, Member, MemberStatus, Ages
    <3> HIDE DEF b
    <3> QED BY <3>1, <3>2, <3>3 DEF Member, MemberStatus
  <2> QED BY <1>1, <1>2, <2>1, <2>3, <2>4, <2>5 DEF TypeOK
<1>5. OneOpenBatchPerStream
  <2>1. ASSUME NEW b \in Batches
        PROVE  /\ batches[b].stream = Home[b] /\ Home[b] \in Streams
               /\ batches[b].status \in {"dead", "dispatch_pending"}
               /\ heads[Home[b]].active = b
    <3>1. (CHOOSE c \in Batches : Home[c] = Home[b]) = b
      BY SchedulerAssumption
    <3> QED BY <1>1, <1>2, <1>3, <3>1 DEF FreeHead
  <2>2. ASSUME NEW s \in Streams, heads[s].active # None
        PROVE  heads[s].active \in Batches /\ Home[heads[s].active] = s
    BY <1>2, <2>2 DEF FreeHead
  <2> QED BY <2>1, <2>2, NoneApart DEF OneOpenBatchPerStream, Open, Queued
<1>6. RowsOK
  BY <1>1, <1>3 DEF RowsOK
<1>7. ProcessOK
  <2>1. NoTask \in Task /\ TaskOK(NoTask)
    BY DEF TaskOK, Task, NoTask
  <2> QED BY <2>1 DEF SchedulerInit, ProcessOK, ProcessTypeOK, TasksOK, ShutdownReachesAll,
                      ControllersAreAlive, NoAborts
<1>8. BoundsOK /\ CancelledStaysCancelled
  <2>1. faults = 0 /\ commands = 0 /\ cancelled = {}
    BY DEF SchedulerInit
  <2> QED BY <2>1, SchedulerAssumption DEF BoundsOK, CancelledStaysCancelled
<1> QED BY <1>4, <1>5, <1>6, <1>7, <1>8 DEF SInv, IInv

\* The inductive invariant of the scheduler over the store holds in every
\* reachable state.
THEOREM SchedulerInvariant == SchedulerSpec => []SInv
<1>1. SInv /\ [SchedulerNext]_schedulerVars => SInv'
  BY SchedulerStep
<1> QED BY <1>1, SchedulerInitInv, PTL DEF SchedulerSpec

\* The scheduler, its crashes and its operators touch the store by the store's
\* own transactions only, each alone, so every step property of the store holds
\* of them too.
THEOREM SchedulerStepsAreStoreSteps == SchedulerSpec => [][Next]_vars
<1>1. SInv /\ [SchedulerNext]_schedulerVars => [Next]_vars
  BY SchedulerStep
<1> QED BY <1>1, SchedulerInvariant, PTL DEF SchedulerSpec

\* Every variable of the store, the process and the bounds keeps its type.
THEOREM SchedulerTypeCorrect == SchedulerSpec => []SchedulerTypeOK
<1>1. SInv => SchedulerTypeOK
  BY DEF SInv, IInv, ProcessOK, SchedulerTypeOK
<1> QED BY <1>1, SchedulerInvariant, PTL

\* stop() aborts the executions that run and the start of an execution looks at
\* stop() again, so none escapes between the two.
THEOREM ShutdownIsHeard == SchedulerSpec => []ShutdownReachesAll
<1>1. SInv => ShutdownReachesAll
  BY DEF SInv, ProcessOK
<1> QED BY <1>1, SchedulerInvariant, PTL

\* The controllers that cancelRunningBatch and the timeout guard look up belong
\* to tasks that still work on the batch.
THEOREM ControllersAlive == SchedulerSpec => []ControllersAreAlive
<1>1. SInv => ControllersAreAlive
  BY DEF SInv, ProcessOK
<1> QED BY <1>1, SchedulerInvariant, PTL

\* Whatever runs, crashes, restarts or settles late: a batch the operator was
\* told is cancelled stays skipped until the operator retries it.
THEOREM CancellationIsFinal == SchedulerSpec => []CancelledStaysCancelled
<1>1. SInv => CancelledStaysCancelled
  BY DEF SInv
<1> QED BY <1>1, SchedulerInvariant, PTL
=============================================================================
