# A TLA+ verification project for AICodeReviewer

AICodeReviewer is a TypeScript service that receives webhooks and commit feeds
from version-control systems, groups and schedules the commits to review, runs
review agents on them, and publishes the findings. This directory holds TLA+
models of the parts whose correctness depends on the order of events, the TLC
configurations that check them, and proofs of the theorems that matter most.
Paths below are relative to the repository root (`src/` here).

## 1. Inventory

The repository is a pnpm monorepo; `packages/*/src` is the program. Tests,
`docs/site`, the dashboard client, `unsloth_compiled_cache`, deployment files
and lock files are left aside.

### 1.1 Commit scheduling (auto-commit), `packages/core`, `packages/server`

| Part | State it keeps | Operations | Hard behaviour |
| --- | --- | --- | --- |
| Store (`sqlite-`, `memory-`, `redis-auto-commit-store.ts`) | receipts, members, batches with leases, dispatch outbox, stream heads, skip ledger | one transaction per operation: intake, seal, claim / confirm / abort dispatch, start / renew / complete / fail, reclaim, recover, requeue, time out, cancel, prune | every caller's view is stale when it calls; tokens and leases decide who may act; a row left behind by one operation is acted on by another |
| Scheduler (`auto-commit-scheduler.ts`) | consumer id, `running` executions, `cancelAborts`, kick timer, tick flags | boot, tick (reclaim, recover, expand, assemble, dispatch), dispatchOne, cancelRunningBatch, stop | fire-and-forget executions across many awaits; timer renewal against expiry; cancellation races the execution; restart under the same owner id |
| Receipt expansion and assembly (the first half of a tick; `auto-commit-assembly.ts`, `-policy.ts`, `-identity.ts`, `-exclusion.ts`) | receipts with page cursor and retry gate, commits with verdicts, the coverage cursor, the frontier, the reservation and the wake of a stream | reserve, fix the frontier, read and apply metadata pages, decide exclusions, cross receipts, cut, seal | a dozen awaits under a reservation that can run out; deliveries overlap; policies change between expansion and cut; a wake that is too late, or a cursor that is too far, loses work |
| Runtime and cancellation (`auto-commit-runtime.ts`, `review-cancellation.ts`) | none of its own | preparation, execution, cancel batch / run / request, requeue | two stores and a live process are updated one after the other |

Correct when: the reviews of a stream never overlap and follow its order; a
delivery is expanded completely or given up visibly, and a push is reviewed whole;
no sealed commit is lost, regrouped or reviewed again after its batch completed;
attempts are bounded; a crash at any point strands nothing.

### 1.2 Review triggers, `packages/server`

| Part | State | Operations | Hard behaviour |
| --- | --- | --- | --- |
| Webhook routes (`webhook-common.ts`, `*-webhook.ts`, `webhook-events.ts`) | delivery log | receive, authenticate, dispatch | duplicated deliveries, answers before the work is done |
| `review-deduplicator.ts` | running keys, the pending target per key | trySchedule, setPending, markCompleted | a newer event while a review runs; only the newest may follow |
| `deferral-manager.ts` + `store/review-deferrals.ts` | timers, deadlines, generations, memory fallback, `review_deferrals` rows | defer, cancel, cancelPending, recover, resume, settle / fail handoff, drain | continuations that outlive a newer defer; crash between claim and handoff; store failures |
| `review-orchestrator.ts`, `live-runs.ts` | the run row, live-run registry | prepare, analyse, publish, settle | a 4 000-line pipeline with a cancel signal at every await |
| `review-cancellation.ts` | none of its own | cancelByFilter, cancelBatch, cancelRun | see above |
| `problem-resolution.ts`, `issue-triage.ts` | problem rows | resolve, triage | publication after a newer run |

### 1.3 Queue and admission, `packages/core`

| Part | State | Operations | Hard behaviour |
| --- | --- | --- | --- |
| `queue.ts`, `sqlite-queue.ts`, `redis-queue.ts` | jobs | enqueue, dequeue, complete, fail, requeueDead, purgeDead, stale-lock reclaim | a job reclaimed while its worker still runs |
| `queue-worker.ts` | active jobs per workspace | poll, processJob, stop | two limits and a shared permit |
| `execution-concurrency.ts` | permits, waiting list | tryAcquire, run, refresh | wake-up order, abort while waiting |
| `rate-limiter.ts`, `io-retry.ts` | token buckets | acquire, retry | timers, back-off |

### 1.4 Configuration, `packages/core`, `packages/server`

`config-store.ts` and its three backends hold revisions, snapshots and runtime
state; `config-publish.ts` publishes a draft with compare-and-set;
`runtime-config.ts` holds the live generation and swaps it; `runtime-queue.ts`
pins the generation of a queued job; `config-snapshot-retention.ts` collects
snapshots nobody references; `migration-runner.ts` migrates under a lock. Hard:
a reference taken while the collector looks, a publish against a stale draft.

### 1.5 Instant messaging, `packages/server/src/im`, `packages/store`

`im-store.ts` keeps inbound events, review requests with execution leases, and
replies; `manual-review-service.ts`, `review-execution.ts`, `reply-service.ts`,
`command-service.ts` drive them; `slack-socket-mode.ts`,
`wecom-long-connection.ts`, `feishu-long-connection.ts` keep connections. Hard:
redelivered messages, lease loss during a review, reconnects.

### 1.6 Agents, sandbox, models, VCS, outputs, store, CLI

`packages/agents` (adapters that build a command line and a bundle),
`packages/sandbox` (process and container life cycle), `packages/llm` (gateway
with fall-back and retry, compression, catalog), `packages/vcs` (git, p4 and svn
clients), `packages/outputs` (publication journal, IM and PR publication,
templates), `packages/mcp-output` (the MCP server agents report through),
`packages/store` (SQL access, migrations, statistics), `packages/cli`,
`packages/eval`. Mostly transformation and I/O; the publication journal and the
LLM gateway hold the interesting state.

## 2. Plan

What was built, in this order; each step stands on the ones before it.

1. The store's scheduling state (`AutoCommitStore`) with its type invariant and
   the joint inductive invariant of its safety properties; how often automation
   executes a batch (`AutoCommitBudget`); lease limits and the commits of a batch.
2. The scheduler process over that store (`AutoCommitScheduler`), with crash,
   restart, lost leases, cancellation, shutdown and liveness.
3. The review queue and its worker: an abstract specification of the interface
   (`JobQueue`), two backends that implement it, the worker that uses either,
   over the pool of permits (`ExecutionConcurrency`).
4. Review triggers: deferrals (`ReviewDeferrals`) and the scheduling of the
   events of a target over them (`TriggerScheduling`).
5. Configuration: revisions, snapshots, admission, retention
   (`SnapshotRetention` and the three modules under it).
6. Chat reviews from the command to the reply (`ImReviews`), with the journal of
   remote writes.
7. The other half of the scheduler's tick: expansion of deliveries into commits and
   their assembly into batches (`CommitPreparation`).

Still worth doing: the auto-commit runtime between lease and settlement; the
phases of `review-orchestrator.ts` over the publication journal with several
writes per channel; an abstract specification of one stream (seal, run, settle)
and its refinement by the store; an inductive invariant for `NothingForgotten` when
several store calls fail in one life of the process.

## 3. The modules

| Module | Content |
| --- | --- |
| `AutoCommitStore` | the store of commit scheduling, its properties |
| `AutoCommitBudget` | the store with a count of executions |
| `AutoCommitStoreProofs` | proofs about both |
| `AutoCommitScheduler`, `AutoCommitSchedulerProofs` | the scheduler process and operator commands over the store; proofs |
| `CommitReceipts`, `CommitCuts`, `CommitPreparation`, `CommitPreparationProofs` | the intake side of the store; how pending commits are cut; the schedulers that expand and seal; proofs |
| `ExecutionConcurrency`, `ExecutionConcurrencyProofs` | the pool of permits; proofs |
| `JobQueue` | what a review queue promises: the abstract specification |
| `QueueTable`, `SqliteQueue`, `MemoryQueue` | the rows of a queue, and the two backends over them |
| `QueueWorker`, `QueueWorkerProofs` | the worker over either backend and the pool; proofs, among them the refinement |
| `ReviewDeferrals` | the deferral manager with its two stores, for one key |
| `TriggerScheduling`, `TriggerSchedulingProofs` | admission, deduplication, attempts and retries of the events of one target, over the deferrals; proofs |
| `ConfigState`, `RuntimeConfig`, `RuntimeQueue`, `SnapshotRetention`, `SnapshotRetentionProofs` | stored configuration; a running instance; the ledger of queue jobs; all of them together with publication and loss; proofs |
| `ImRequests`, `PublicationJournal`, `ManualReview`, `ImReplies`, `ImReviews` | the tables of chat requests; the journal of one remote write; the drive of a request; the senders of replies; their composition |
| `ImReviewsProofs` | proofs about it |
| `MC...` | instances for TLC: constants as model values, symmetry sets |

An operator marked *Faulty* is not used by any specification: it is a plausible
mistake in the code, kept next to the definition it would replace, and the
property that catches it is named in `PROJECT.json` ("mutants").

### 3.1 `AutoCommitStore`

One action per store operation; each operation is one SQLite transaction
(`runImmediate`), so each is atomic. Variables are the four tables: `batches`
(`auto_commit_batches`), `outbox` (`auto_commit_outbox`), `heads`
(`auto_commit_stream_heads`), `members` (`auto_commit_members`). A row field is
kept when a guard of some operation reads it. Arguments come from the caller and
are unconstrained (any batch, any token, any owner): the callers' own guards are
not assumed, so every scheduler, every operator command and every restart is
covered.

Timestamps are kept as the time left (`expiry`, `delay`) or passed (`age`), and
`Tick` moves them; a caller that computed `now` before it called gives less than
the whole duration (`left`). Ages beyond `MaxAge` are not told apart. A token is
a fresh UUID: it differs from every token the store holds. The identity of a
sealed batch is derived from its contents and is never used twice; an unused
element of `Batches` stands for it.

`Init` covers the empty database and a database of an older version that holds
dead batches, possibly still occupying their stream.

### 3.2 `AutoCommitBudget`

The store with two history variables: `starts`, the executions of a batch since
it was sealed or last retried by an operator, and `retried`. Every operation of
the store but the retry is conjoined with the count; the retry resets it.
`ExecutionsBounded` bounds automation and the operator's retry apart: a batch that was
never retried runs at most `MaxAttempts` times and then `Rearms` times after its one
recovery, a retried batch at most `MaxAttempts` times, the budget the
interface promises; that the code grants less is no part of it (see 4.2).

### 3.3 `AutoCommitScheduler`

EXTENDS the store. Variables of the process: `mode` (down, the three boot steps,
up, stopping), `tasks` (the `dispatchOne` calls in flight with their phase and
local variables), `cancelAborts` (the map of that name), `cancelling` (the
continuation of `cancelBatch` between its store write and the abort). An action
is what runs between two awaits: a store call, with the code that follows up to
the next await. A store call that its transaction refuses changes nothing, and
the action then only moves the task.

| `dispatchOne` | Phase left | Actions |
| --- | --- | --- |
| `claimDispatch` returned, no permit yet | `offered` | `Refuse`, `Expel`, `Postpone`, `Confirm` |
| confirmed, before `startBatchExecution` | `confirmed` | `Lease`, `NotLeased` |
| no lease | `refused` | `Defer` |
| leased, before `readBatch` | `leased` | `ReadBack` |
| members and receipt being read | `loading` | `Unreadable`, `Register` |
| `executeBatch` | `executing` | `Renew`, `RenewalFails`, `Return`, `Throw` |
| settling | `completing`, `skipping`, `failing` | `Settle`, `SettleFailure` |
| `finally` | `ending` | `End` |

`StoreFails` is a store call that throws. `Crash` drops the process and all its
memory at any point; `Start` is the next process under the same consumer id.
Operator commands (`CancelBatch`, `RetryBatch`, `RequeueBatch`) run in the same
process at any time. `faults` and `commands` bound crashes, shutdowns and failing
calls, and commands; `cancelled` is a history variable.

Left out: a `stop()` during the boot steps (the boot task is awaited and does
nothing new), routing, expansion and assembly (batches are sealed already),
hooks, several schedulers on one store (the code requires distinct consumer ids
for that; the store model covers them).

### 3.4 Expansion and assembly

`CommitReceipts` is the part of the store that `AutoCommitStore` takes as given, for
one stream: `receipts` (`auto_commit_receipts`), `commits` (`auto_commit_members`),
`of` (`auto_commit_receipt_members`) and `stream` (the row of
`auto_commit_stream_heads`). Each operator is one transaction. What does not change
in a behaviour is a *world*: the history, which commits each delivery covers, their
authors, delays and configurations, what each version of the policy excludes or
cannot judge, and when work is allowed. Receipts are numbered by sequence and
commits by order key, so a delivery covers an interval. `Due` derives the wake of the
stream from its terms, as `recomputeStreamNotBefore` does at the end of each
transaction.

`CommitCuts` is `cutAutoCommitBatches` as far as the scheduler uses it, the first cut
and the blocked pushes, stated with sets and intervals where the code scans a list.
Commits are named by their order keys. The tests of parent linkage
(`auto-commit-assembly.ts:242-244`, `:264-266`) and commits of a forced push that take an
order key again (`git.ts:1176-1180`) are therefore not represented. For P4 and SVN the
code reads at most 512 pending commits (`auto-commit-scheduler.ts:1221`); a world has
fewer.

`CommitPreparation` runs it: `prep` is the `processStream` call in progress of each
scheduler, with the rows it has read, and an action is the stretch up to the next
write.

| Code | Actions |
| --- | --- |
| `prepareWorkspace`, `processStream` | `Wake`, `Acquire`, `Frontier`, `ClearFrontier`, `Release`, `Throws` |
| `expandStream` | `Frontier` (the list), `NextReceipt`, `Cross` |
| `expandReceipt`, `applyMetadataRecords` | `ReadPage`, `ApplyPage`, `DecidePage`, `SetPage`, `FailReceipt` |
| `noteExpansionFailure` | `CountFailure`, `NoteFailure`, `FailReceipt` |
| `assembleStream`, `sealCut` | `Caught`, `Resolve`, `CutPending`, `DoomReceipt`, `SealCut` |
| timers, `stop()`, process | `Lapse`, `Interrupt`, `Crash` |

The version of the stream head is not kept: a write that was checked against it may be
refused whenever another writer can have come between (`WriteHead`, at the cost of
one trouble). A preparer learns that its reservation is lost only when its renewal
has failed, so `Caught` may go on without it; `sealBatch` checks it, the other writes
do not.

### 3.5 The review queue and its worker

`QueueTable` holds what both queues keep of a job (`status`, `attempt`, whether it
`waits` out a backoff, whether its lock is `old`) and the order in which jobs are
offered. `SqliteQueue` and `MemoryQueue` have the same operators under the names of
the interface; they differ where the code does: a retried job keeps its place or
goes to the end, a lock that became too old is taken from a running worker or
does not exist, and a restart keeps or loses the rows. `JobQueue` is the interface
without order, delay, lock or storage; `KeepsPromise` (in `QueueTable`) says that
either backend, under the worker, implements it.

`QueueWorker` composes a backend with `ExecutionConcurrency`: the worker's jobs in
flight (`Slots`) are callers of the pool, beside other users of it (`Others`). Its
poll loop is cut at the awaits: `BeforePoll`, `Claim` (limits read, permit asked for,
dequeue sent), `Deliver` (the job is handed to an execution nobody waits for),
and back. `StopWorker` and `Drained` are `stop()`. A handler that returned can fail to
be recorded (`CompleteJob` with a fault), a lock can become too old under it
(`LockExpires`), and the process can be lost (`Crash`).

`ExecutionConcurrency` keeps the counters beside the phase of each caller, so that
they could disagree; `refresh()` is the fold over the waiting list which the code
runs inside a release, an abort, a timer and a listener.

### 3.6 Review triggers

`ReviewDeferrals` is one key of the deferral manager: its row, its timer, the
generation, the event kept in memory after a failed write, the queue `ops` of store
work whose head is under way, and the handoffs that are not settled. The two
stores differ in when a write takes effect (at once, or in turn in the queue); the
two modes (`durable`) in what a failed write does. `TriggerScheduling` adds
`scheduleTriggerProcessing`: an event is admitted, supersedes or is superseded,
waits for its window, runs, is retried, and on completion the pending event of the
key takes its place. Restart and recovery are in it. `owed` is a history variable: the
newest event that is not yet reviewed, withdrawn or knowingly given up.

Assumed: one key; a step of the clock is longer than the queries of recovery and
the store calls of a handoff (`Quiet` and the guard of `Tick`); with SQLite a store
call ends before another task runs; events get their configuration in the order of
their arrival; a second invocation of an event that is in flight already (it can
only come from a failed write, see 4.2) is not followed further; at most
`MaxTrouble` troubles in a behaviour.

### 3.7 Configuration in a running system

`ConfigState` is the store: the head, the snapshots, and the versioned rows of
runtime state with compare-and-set, which refuse a row whose snapshot is missing.
`RuntimeConfig` is an instance: admission (read the head, ensure the snapshot,
adopt), pins of accepted work, activation records, and the collection of
snapshots, a loop over awaits that remembers what it has read. `RuntimeQueue` adds
the ledger in which the configuration of a queue job is reserved before and
confirmed after the enqueue. `SnapshotRetention` lets instances publish, refresh,
accept, enqueue, collect and be lost, and operators re-arm settled work
(`RetryReceipt`). Re-armed work is `Pending` like accepted work, and the code does not
tell the two apart; the model keeps the difference as a mark, because the claims differ.
`LiveWorkKeepsSnapshot` is about work accepted under a pin, `NoDanglingReference` about
all of it.

Age is not a number. The code deletes nothing younger than 300 s; the model lets a
row or snapshot count as old once every task that was under way when it was
written has ended. That is the assumption that no single task of this code takes
300 s, and it gives the collector at least the deletions the code allows. A live
instance renews its activation record in time, so the refused heartbeat of an instance
whose record another one retired (`runtime-config.ts:207-211`) does not occur. A request is one call; a queue
does not forget jobs. Left out: caches and their leases, `legacy_import`, revision 0
of a file-only deployment, secrets, catalog rows, the limit of 100 rows per pass.

### 3.8 Chat reviews

`ImRequests` has one operator per transaction of `im-store.ts`: delivery and
acceptance (created, merged into an active request, replayed, or the second press of
a button), claim, the fenced writes, the two ways to end, expiry of leases.
Fences only grow and are compared for equality, so a row keeps in `by` who holds
the current fence. `ManualReview` is the drive: one action per step between two
awaits (`Validate`, `Resolve`, `Execute`, `Start`, `Analyse`, `Publish`, `Send`, `Answered`,
`FinishReview`), every one of which may also find its fence gone, its signal
aborted, or throw. `PublicationJournal` says what a publication does with a write
that is absent, unknown, rejected or confirmed, for each of the four strategies by
which an outcome can be settled. A review that has nothing to publish succeeds without
a journal entry, in `Analyse` (no changed files) or in `Publish` (`NothingPublished`, what
`classifyImReviewResult` makes of an empty dispatch result); a checkpoint that cannot be read
ends a recovered request as `publication_unknown` (`RecoverInterrupted`). `ImReplies` is the pass of a sender. `ImReviews`
composes them with cancellation, stalls, stop, loss and restart.

Abstractions: one revision, hence one active target; one attempts counter (the
code has one per phase, and a phase is never entered again); the dispatch sequence
and the wake-up job are a permission to run at any time; `succeeded` and `partial`
are one outcome; one report and one output channel per review; a message sent with
a Feishu uuid is not repeated after the provider's hour. Left out: oversized
checkpoints, inbox rows that are only noted, expired actions, rate limits, notices
that a request was created. A row that ended forgets its attempts, and its operation unless it succeeded.

## 4. Runs

| Run | Shows | Bounds |
| --- | --- | --- |
| `store_one_stream` | every safety and action property of the store but the lease limits, and the bound on executions, with two batches competing for one stream | 2 batches, 2 commits, 3 tokens, 2 attempts, queue timeout 1 |
| `scheduler_abortable` | the promises of cancellation, shutdown and boot; lost executions and shutdowns end, even if no review ends by itself | 1 batch, 2 tasks, 1 attempt, lease of 2 ticks, 2 faults, 2 commands, queue timeout 1 |
| `scheduler_settles` | two batches that share one lease are settled, within the limits | 2 batches, 2 tasks, 1 attempt, workspace limit 1, 2 faults |
| `preparation` | what is cut is coherent, due and takes pushes whole; the batches of one process stay coherent; nothing is left behind the cursor; every commit ends | 5 worlds of 4 commits and up to 3 deliveries, 3 instants, pages of 2, 2 attempts, 1 trouble |
| `pushes_split` | violated: a push is sealed without its last commit | 1 world of 5 commits and 3 pushes, 2 policies, no trouble |
| `pool` | permits, the waiting list and live limits | 4 callers, 2 workspaces, 1 change of the limits |
| `worker` | the worker over both queues; both implement the interface | 1 job, 2 slots and another user, 2 attempts, 1 expired lock, 2 revivals, 1 fault |
| `triggers` | the newest state of a target is reviewed, one review at a time | 3 events, 4 instants, 2 attempts, 1 trouble |
| `triggers_overtaken` | violated: an older event replaces a newer one | as above, without trouble |
| `im_reviews` | one review, at most one message, one answer per request; success rests on a known write or on none begun; requests settle | 2 requests, 3 deliveries (two of one button), 2 drives, 1 sender, 1 trouble, all strategies |
| `snapshots` | accepted work keeps its configuration, also while operators re-arm settled work; an active instance can accept | 2 revisions, 2 instances, 1 receipt, 1 job, 2 calls and a collector, 1 loss |
| `snapshots_retried` | violated: re-armed work loses its configuration | as above, no loss |

Why the bounds are enough. Two batches are enough for every conflict over a
stream; a third token lets a reservation, a claim and a lease be held at once.
The scheduler's conflicts are between two executions of one batch, which takes
two tasks and a lost lease; two faults let a crash follow a failing call or
another crash, two commands let a retry follow a cancellation. A duration of one
tick makes the live, the expired and the missing lease occur; where a renewal
must be told from a lease that only runs out (`scheduler_abortable`) it is two.
Only `store_one_stream` uses symmetry; no run with a liveness property does.

The worlds of `preparation` are chosen for what can happen in them, and their
comments in `MCCommitPreparation` say what that is: a push above the merge limit and
a calendar that closes in the middle; deliveries that overlap under a policy that
changes; a rewrite; P4 or SVN; two processes. A page of two commits and one page
per pass make every push of three stop in the middle. `MaxMembers` is 3 and
`MaxMerge` 2 (4096 and 50 in the code), so that both limits bind.

In `pool`, three callers of one workspace and one of the other are the least with
which one waits behind two of its own while another workspace is idle. In
`worker` one job with two slots gives the overlap that matters, two executions of
one job; that jobs do not disturb each other is what `QueueWorkerProofs` proves for
any number of them. Three events are one running, one pending and one that
replaces it; of the instants 0 to 4 the window is closed at 0 and 3, so that an attempt
can start after its window closed and is deferred to the next. In `im_reviews` three deliveries give a merge, a replay and the
second press; two drives give the stale and the current claimant of one request.
Two revisions, two instances and a collector are what the retention argument is
about: somebody refers to the old one while another adopts the new one and the
third looks. `MaxTrouble` is one because two troubles of one behaviour hardly
interact before the first has been recovered from, and the runs with two exceed
what the tool does in minutes.

### 4.1 Fairness

`ProcessFairness`: a process that is down is started again (the supervisor), its
boot steps and its tick run (the safety poll re-arms the timer after every tick,
also after one that failed), time passes, an await of a store call returns, the
renewal timer fires, and an execution whose signal is aborted ends. It does not
say that a review ends: `LostExecutionsEnd` and `ShutdownEnds` are checked with
it alone (`AbortableSpec`).

`AdmissionFairness` is strong: a batch competes for permits, claims and lease
room with others, so each is possible now and then, and the poll tries again each
time (`dispatchDue` is run by every tick and after every release). The claim
takes the batches in the order of their due time, which is what justifies it for
each batch. `ReviewFairness`: the executor returns or throws (its own time limits
end it). Crashes, shutdowns, failing calls and commands have no fairness and are
bounded in number: `BatchesSettle` says what happens once they end.

`PoolFairness`: a task that has its permit starts and ends, and the timer of the
waiting list fires. `WaitersAreServed` needs no more, not even fairness among
waiters, because the list is first-in first-out inside a workspace.

`WorkerFairness`: the poll timer and every continuation run, handlers end,
backoffs pass, the process is started again. The worker only asks for a permit when it polls and never joins
the waiting list, so other users could take each one that is released:
`JobsSettle` assumes `OthersLeaveRoom`. A claimed job whose configuration version
cannot be read is not completed: with the queue in memory it stays running until
the restart, which the property allows.

Triggers: weak fairness of `Work` (timers, store work, admissions, reviews) and of
`Tick`. `TargetReviewed` is asserted of behaviours without a stop, a fault or a
withdrawal; the troubles are covered by `NothingForgotten`, which is an invariant.

Preparation: weak fairness of `Wake` (the timer that follows the wake bound), of the
next step of a preparer, of the expiry of a reservation whose holder is gone, of
the clock, and of the end of the active batch, which the other half of the model
shows (`BatchesSettle`). `CommitsSettle` needs no fairness of deliveries or
policies: they are finitely many.

Chat reviews: weak fairness of `Server` (drives, senders, restart) and of `Time`
(leases lapse, retries come due). Nothing is assumed of a cancellation, of a
stall, or of the window. The retention of snapshots has no liveness property: when
a collection runs is an operator's choice.

### 4.2 What the runs found

Three runs are expected to be violated; `PROJECT.json` has the finding with its
lines.

- `pushes_split`: when a new policy cannot judge the last commits of two pushes,
  `assembleStream` reads only the receipt of the first undecided commit again
  (`auto-commit-scheduler.ts:1087`). If that receipt is given up in this pass, the
  pass continues with what is allowed, and the second push is sealed without its
  undecided last commit, although a push is to be reviewed whole or not at all
  (`docs/ai/architecture.md:122-126`). A gap inside a push would be noticed
  (`Blocks`); a missing end is not.
- `triggers_overtaken`: an event accepted inside the window whose attempt starts
  after the window closed defers itself over a newer event deferred meanwhile
  (`index.ts:1961`). The newest state of the target is not the one reviewed.
- `snapshots_retried`: the retry route gives a batch the configuration of its
  process without an admission pin (`observability-api.ts:387`), and a collection
  under way in another instance deletes it. The passing run has the same actions; its
  `LiveWorkKeepsSnapshot` excepts the re-armed work, which `NoDanglingReference` includes.

Observations made on the way, which no run has as its property:

- The `finally` of `dispatchOne` removes the controller registered for its batch,
  whosever it is (`auto-commit-scheduler.ts:1571`). After a lost lease the batch can
  be dispatched again by the same process while the first execution is still ending;
  its end then removes the successor's controller, and `cancelRunningBatch` answers
  false for a live execution (the comment at :1601-1602 says otherwise). The store
  write of the cancellation still stands (`CancelledStaysCancelled` holds): the
  successor's lease is gone, and the next renewal aborts it (`LostExecutionsEnd`).
  `ControllersAreAlive` only says that a registered controller belongs to a working task;
  it does not exclude this.
- The writes of an expansion (pages, verdicts, failures, cursors) do not check the
  reservation (`sqlite-auto-commit-store.ts:1003`), and the seal does not check that a
  commit is still under the receipt it was cut with (:1286). With three troubles, a
  preparer that is suspended past its reservation can bring back a commit of a push
  that another one is about to seal, or leave a commit of it behind, so that a push
  does not stay whole in world `Shared`. With two, if one failure is enough to give a
  receipt up, its late page can move a commit that is cut but not sealed to the
  receipt given up, which was accepted under another configuration. What is cut is
  sound nevertheless (`CutsAreSound`, proved for any number of processes), and with
  one process so is the batch (`BatchesAreCoherent`).
- A manual retry re-arms a batch with one attempt already spent
  (`sqlite-auto-commit-store.ts:1788`), so it gets one execution less than the budget (and
  one if the budget is one), while the interface promises "a fresh full
  attempt budget" (`auto-commit-store.ts:840-841`, repeated at
  `observability-api.ts:361-362`). `ExecutionsBounded` does not settle this: its bound for
  a retried batch is the promised budget, which the code stays within.
- A shutdown during the last attempt of a recovered batch skips the batch, while
  `docs/ai/architecture.md:133-134` says interrupted batches are queued again.
- Withdrawal: with PostgreSQL, a withdrawal that listed an older event clears the
  generation of a newer defer whose write still waits; its row has no timer until the
  next restart.
- Recovery that overlaps the handoff of a resumed event can lose that event when
  events are not stored durably; a write that fails after the event was kept in
  memory can hand the event over twice; an event whose configuration cannot be
  read when its turn comes is dropped, and its pin stays.
- A claim over a publication that fails before the executor runs ends as `failed`
  (`manual-review-service.ts:380-386`) though its message may be at the provider; the
  comment at :418-419 says that what is unprovable stays unknown. `WrittenOnce` holds:
  no second message follows.
- An enqueue that reuses the reservation of a dead instance can have the row
  retired between enqueue and confirmation: the call is refused while the job stays
  queued without a configuration. A retired row refuses the id for ever. A pin that a
  live instance leaks keeps its snapshot until that instance ends. So
  `LiveWorkKeepsSnapshot` speaks of jobs whose version an enqueue has confirmed.

## 5. Proofs

From `ConstantsAssumption`: finite or infinite sets of batches, commits, streams,
owners and tokens, any durations and limits. The proofs about the scheduler also
use `SchedulerAssumption`: every batch has a stream of its own and some commits,
and task names are not `None`.

- `AutoCommitStoreProofs`, in four parts. The types (`TypeCorrect`): the row
  constructors are typed by `RowTypes`; each group of actions has its lemma. The safety
  of a stream: `StoreInvariant`, from which `OneReviewPerStream`,
  `OutboxConsistent` and `LeaseConsistent` follow. The inductive invariant is
  `IInv == TypeOK /\ OneOpenBatchPerStream /\ RowsOK`, and none of its parts is
  inductive alone. `confirmDispatch` rewrites the status of a batch whatever it
  was, and looks at nothing but the claim on the outbox row: that the batch is
  still open follows from the outbox being consistent (`RowOK`). `completeBatch`
  and `failBatch` look at nothing but the lease, and leave or remove the outbox
  row accordingly: that this keeps the outbox consistent follows from a lease
  meaning a running batch. `SlotKept`, `SlotReleased` and `SlotTaken` are the three
  things a transaction does to the slot of a stream; every action is one of them.
  The ledgers: `LimitsHold`, the lease limits per process and workspace.
  `startBatchExecution` counts the live leases before it grants one; the rest is that
  no other transaction makes a lease live (`NoLeaseAdded`). And `CommitsFollowBatch`,
  whose inductive invariant adds `MembersOK` to `IInv`: the status of a commit agrees
  with that of the batch it names, and a batch that exists has commits. A transaction
  leaves the commits alone (`Unmoved`) or moves all commits of some batches with them
  (`Moved`).
  `CommitsStayWithBatch` (`NeverRegrouped`) goes action by action from `KeepBatch`: an
  operation that moves commits moves them without a new batch, and the sealing, the only
  one that names a batch, takes commits that have none. `SettledIsFinal`
  (`SettledStaysSettled`): a transaction either settles (`Settling`) or re-arms
  (`Rearming`) or touches no settled batch. That a confirmed dispatch does not reopen one
  needs `RowOK`, and that a commit leaves its batch only when the batch had settled
  without it, or all of them do, needs `MembersOK`.
  The executions: `ExecutionsAreBounded`, with separate bounds for automation and for an
  operator's retry, and `AttemptsAreWithinBudget`.
  The inductive invariant adds to `IInv` an account per batch, relating the count
  of executions to the attempt column and the recovery flag; `Moves` is what an
  action may do to a row as far as the account is concerned.
- `AutoCommitSchedulerProofs`: `SchedulerInvariant` and
  `SchedulerStepsAreStoreSteps`. The inductive invariant is
  `SInv == IInv /\ ProcessOK /\ BoundsOK /\ CancelledStaysCancelled`. The store's
  `IInv` is there because a task acts on the batch it remembers from an earlier
  step: that a late settlement, a give-back or a requeue cannot open a cancelled
  batch follows from the store refusing or ignoring it (`QuietKeepsSkipped`).
  `TaskOK` says which local variables a phase has, which is what makes a task's
  argument one the store accepts. Every action but three commands is `Sound`:
  a `Quiet` step of the store (one that opens no skipped batch) that keeps
  `ProcessOK`; `TaskMoves` is the common argument for a task that changes its
  phase. From it: `SchedulerTypeCorrect`, `ShutdownIsHeard`, `ControllersAlive`, `CancellationIsFinal`.
- `CommitPreparationProofs`: `NothingLeftBehind`, from `ReceiptAssumption`,
  `CutAssumption` and `PreparationAssumption`, for any number of schedulers,
  deliveries and troubles. A preparer goes on with a row, a page or a number of
  failures it read before others wrote, and its cursor is not checked against its
  reservation. The inductive invariant therefore says what each preparer remembers
  (`Truthful` rows, a page of which nothing is skipped, a list behind which all is
  done), all of it in terms that only grow (`Grows`): the commits stored for a receipt,
  its attempts, the receipts accepted. `OthersKept` is that argument; the last failure
  may be counted too late, never too early (`NoteFailureKeeps`).
  `EveryCutIsSound` (`CutsAreSound`) is about the two algorithms of `CommitCuts`, for any
  history and any deliveries. Pushes that are merged form one interval from the first push
  to the end of another (`PushesFromIs`); it takes each of them whole because a push that
  is not blocked is one unit and no unit reaches over the ends (`JoinedIsWhole`). A slice
  of a P4 or SVN run is the beginning of an interval of one author and configuration
  (`RunIs`, `RunSliceIs`). That only the assembly leads to a seal needs the invariant of
  the expansion (`OnlyAssemblySeals`). `OneProcessKeepsBatches` (`BatchesAreCoherent`) adds
  that between the cut and the end of the batch no commit changes its receipt
  (`BatchInv`): a commit does so only while it is pending, by a page, and the one process
  is not reading pages while it seals.
- `QueueWorkerProofs`: `OneExecution`, `TrueOutcomes`, `DrainedIsIdle` and
  `QueuesKeepPromise`, the refinement, for any number of jobs, slots and callers.
  The inductive invariant relates each slot to the row of its job: a slot that
  works on a job whose lock never expired finds it running, and the claim of the
  poll is one of them. It needs nothing about the pool's counters.
- `ExecutionConcurrencyProofs`: `PermitsAreCounted`, `NoLostWakeUp` and
  `FirstComeFirstServed`, from `ConcurrencyAssumption` alone: the callers may be
  infinitely many, the limits may change any number of times. The inductive invariant
  is `PoolInvariant`: types, finitely many holders, and the two invariants of the run,
  because a permit is granted by looking at counters and released by waking whoever fits.
  One pass of `refresh` over the waiting list is a recursive function; `ScanOK` is its
  loop invariant (the counters count the holders and those started, nobody started
  twice, those kept are in their old order, and none of those kept fits). That the function is what its equation
  says is proved by taking the least index at which it is not. `NobodyPasses` is an
  action property: `InTurn` says of each step that it starts nobody behind a caller
  of the same workspace that stays in the list.
- `SnapshotRetentionProofs`: `LiveWorkIsKept` and `ActiveHeadIsThere`, from
  `RetentionInvariant`, for any number of instances, revisions, receipts, jobs and
  losses. The collector decides by what it read some awaits ago, so the invariant
  says for each piece of work what still protects its version at each stage: the head
  that an admission read and the pin it wrote (`Pins`), the rows of versions adopted or
  reserved (`Rows`, `LedgerKept`), and that whatever appears after the collector looked was
  admitted from a head that its list does not contain (`Heads`). The newest revision is
  in no such list, and the name of a pin is never used twice. Re-armed work is in the
  behaviours and in the collector's references, without a claim of its own
  (`RetryReceiptKeeps`): `LiveWorkIsKept` is about work accepted under a pin.
- `TriggerSchedulingProofs`: `OneReviewAlways`, `HandedOverOnceAlways` and
  `NothingForgottenUnfailed`, from
  `DeferralAssumption` and `TriggerAssumption`, for any number of events, attempts,
  troubles and instants, any window and both stores. The inductive invariant
  `TriggerInv` has two halves. `InvocationsOK`: the phase of an event, the running and the
  pending mark, its pin and its write in the queue agree, event by event (`Agree`), and
  one event is active. It holds whatever fails. `Unfailed`, while no store call and no
  admission has failed: a row that can be claimed belongs to an event that is not in
  flight, unless its write is at the head of the queue and has yet to settle
  (`RowFree`), and a target taken from the row is not in flight and does not wait there any
  more (`TakenFree`). After a restart a claimed row is set back: that no event of the row
  is in flight by then needs that no timer of the new process fires before
  (`Resetting`). A failed write ends this half, because the event kept in memory is
  handed over without a claim, and `HandedOverOnce` excepts it.
  `NothingForgottenUnfailed` proves `NothingForgotten` where no call has failed, with any
  restarts, withdrawals and shutdowns. Its second invariant, `Kept`, follows the owed event
  through the places it is deferred in: no resume of the current generation waits in the
  queue in front of a write (`QueueOK`), so what it takes is the last word; an event on its
  way from the row to its admission leaves the row claimed, and no write is queued that
  would erase or replace that row (`LiveOK`, `SettlingOK`, `TakenOK`); a stored deferral that
  has not settled is still the row (`StoredOK`); until a recovery ends no timer is due
  (`CalmOK`). It needs that a new generation is unlike those in use, hence
  `EnoughTokens`: the code makes a new `Symbol()` each time. TLC's instance has eight
  tokens and never runs out of them (`Min` of no token would stop it). The last
  conjunct of `DeferralAssumption` says that "no row" and "no time" are told apart from
  every row and time, as `undefined` is in the code.
- `ImReviewsProofs`: `OneReview`, `OneMessage`, `SafeReanalysis`, `OneAnswer`,
  `OutcomesStay`, from `ImAssumption`, `OutcomeAssumption`, `ReviewAssumption` and
  `ReplyAssumption`, for any number of requests, drives, senders, troubles and
  attempts and for all strategies. The inductive invariant `SafeInv` says of every
  drive, claimant of its row or not, what it may still do (`ReviewOK`): a drive
  that lost its fence may yet send one message, so the row's operation must by
  then be unknown, and every other drive is bound by it. That a success rests on a write
  that is known, or on none begun, is a part of it (`RestsOn`): a drive that ends without
  the journal holds a row whose operation is `none`, and its fence keeps others from
  starting one. `ReplyOK` says the same
  of the senders.

Only model-checked: the other regime of `NothingForgotten`, calls that fail in a process that
never restarts and withdraws nothing. There the timer of a deferral may fire while its write
is still queued, and the write arms it again when it settles: two resumes of one
generation, of which either may answer for the event, depending on which writes failed.
No inductive invariant was found. TLC checks that regime in the run `triggers`, with one
failure. And liveness, which is out of the prover's reach
(`BatchesSettle`, `LostExecutionsEnd`, `ShutdownEnds`, `WaitersAreServed`, `JobsSettle`,
`TargetReviewed`, `RequestsSettle`, `CommitsSettle`). TLC checks `TypeOK` and the parts of `IInv`
first, in `store_one_stream`, and the properties of every other proof in the run of
its module.

## 6. Not modelled

`PROJECT.json` lists every component with its status.

- The auto-commit runtime, and the operator commands other than cancel, retry and
  requeue: see the plan. Of expansion and assembly: the queue timeout of receipts,
  conflicting source evidence, receipts that still look for their workspace, the
  order in which workspaces are scanned, and how schedules and exclusion rules are
  compiled (a world says at which instants work is allowed and what a policy
  excludes).
- `review-orchestrator.ts` and `live-runs.ts`: a pipeline of some four thousand
  lines over VCS, model and output calls. Its order-dependent core, the journal of
  remote writes, is in `PublicationJournal`; the rest is data flow of one run.
- Problem resolution and issue triage: short flows around one model call.
- Configuration language, agents, model gateway, renderers, MCP output server,
  observability queries, CLI and evaluation, dashboard: they transform data and keep
  no state that events can disorder.
- Sandbox and VCS clients, IM connections: what matters is decided by external
  programs and protocols.
- Migrations: run once under a lock before anything else starts.
- The memory and Redis backends of the commit store make the transitions of the
  SQLite backend and were not compared line by line; the Redis review queue forwards
  to BullMQ.
