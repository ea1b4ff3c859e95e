--------------------------- MODULE ReviewDeferrals ---------------------------
(***************************************************************************)
(* The deferral of reviews outside the execution window                    *)
(* (packages/server/src/deferral-manager.ts over the review_deferrals      *)
(* table of packages/store/src/review-deferrals.ts), for one review target.*)
(* The events of the target are 1, 2, ... in the order of their arrival.   *)
(*                                                                         *)
(* A key has one row, at most one timer, and a generation that every defer *)
(* replaces; asynchronous work remembers the generation it started under   *)
(* and drops its result when that is no longer current.  Store work goes   *)
(* through one queue, ops, whose head is under way.  With PostgreSQL the   *)
(* writes of defer and cancel wait in that queue; with SQLite they happen  *)
(* at once and only what follows them waits.                               *)
(*                                                                         *)
(* The operators without a guard are the synchronous parts of calls; the   *)
(* module TriggerScheduling makes actions of them.                         *)
(***************************************************************************)
EXTENDS Integers, Sequences, FiniteSets, SequencesExt, FiniteSetsExt

CONSTANTS Events,      \* 1..n, newer is larger
          Window,      \* the instants at which reviews may start
          MaxTime,     \* the clock stops here
          Tokens,      \* generation symbols
          Backends,    \* kinds of the observability store
          None

ASSUME DeferralAssumption ==
    /\ MaxTime \in Nat \ {0}
    /\ Events = 1..Cardinality(Events) /\ IsFiniteSet(Events)
    /\ Window \subseteq 0..MaxTime /\ MaxTime \in Window
    /\ Tokens \subseteq Nat /\ Backends \subseteq {"sqlite", "postgres"}
    /\ None \notin Nat \cup [event : Nat, notBefore : Nat, status : {"pending", "claimed"}]

VARIABLES now,
          backend,     \* the kind of the store
          durable,     \* a defer that cannot be stored is refused (database mode)
          row,         \* the row of the key
          memory,      \* memoryTargets: the event kept after a failed write
          deadline,    \* deadlines, 0 for none
          generation,  \* the current symbol, None for none
          timer,       \* the instant the armed timer fires
          ops,         \* storeQueue
          handoffs,    \* event -> the handoff of it that is not yet settled
          stopped

deferralVars == <<now, backend, durable, row, memory, deadline, generation, timer,
                  ops, handoffs, stopped>>

\* A short delay, up to the end of the model's time.
Later(t) == IF t < MaxTime THEN t + 1 ELSE MaxTime
NextAllowed(t) == Min({w \in Window : w >= t})

NoHandoff == [gen |-> None, step |-> "none"]
Pending(e, at) == [event |-> e, notBefore |-> at, status |-> "pending"]
StatusIs(s) == row # None /\ row.status = s

DeferralInit ==
    /\ now = 0 /\ backend \in Backends /\ durable \in BOOLEAN
    /\ row = None /\ memory = None /\ deadline = 0 /\ generation = None /\ timer = None
    /\ ops = <<>> /\ handoffs = [e \in Events |-> NoHandoff] /\ stopped = FALSE

\* A symbol no asynchronous work remembers.
Fresh ==
    LET used == {generation} \cup {ops[i].gen : i \in DOMAIN ops} \cup {handoffs[e].gen : e \in Events}
    IN  Min(Tokens \ used)

Current(gen) == gen # None /\ generation = gen

Op(kind, step, gen, event, at) ==
    [kind |-> kind, step |-> step, gen |-> gen, event |-> event, at |-> at]

-----------------------------------------------------------------------------
(* The public calls. *)

\* upsertReviewDeferral: the newest envelope, never an earlier instant.
Upsert(e, at) ==
    Pending(e, IF row = None THEN at ELSE Max({at, row.notBefore}))

Instant(at) == Max({at, deadline})

\* defer(): the new generation and deadline hold at once.  With SQLite the row
\* is written here (ok), with PostgreSQL at the head of the queue.
Defer(e, at, ok) ==
    LET instant == Instant(at)
        stored == Upsert(e, instant)
    IN  /\ generation' = Fresh
        /\ deadline' = instant
        /\ IF backend = "postgres"
           THEN /\ ops' = Append(ops, Op("defer", "write", Fresh, e, instant))
                /\ UNCHANGED row
           ELSE /\ row' = IF ok THEN stored ELSE row
                /\ ops' = Append(ops, IF ok THEN Op("defer", "stored", Fresh, e, stored.notBefore)
                                            ELSE Op("defer", "unstored", Fresh, e, instant))
        /\ UNCHANGED <<memory, timer>>

\* cancel(): e, inside the window, supersedes the deferral.
Cancel(e, ok) ==
    /\ timer' = None /\ generation' = None /\ memory' = None /\ deadline' = 0
    /\ IF backend = "postgres"
       THEN ops' = Append(ops, Op("cancel", "write", None, e, 0)) /\ UNCHANGED row
       ELSE row' = (IF ok THEN None ELSE row) /\ UNCHANGED ops

\* cancelPending(): an operator, or the queue timeout, withdraws what waits.
CancelPending == ops' = Append(ops, Op("withdraw", "list", None, None, 0))

\* armTimer()
Arm(at) ==
    IF stopped THEN UNCHANGED <<timer, deadline>> ELSE timer' = at /\ deadline' = at

-----------------------------------------------------------------------------
(* The timer and the head of the queue. *)

FireTimer ==
    /\ ~stopped /\ timer # None /\ timer <= now
    /\ IF deadline > now THEN timer' = deadline /\ UNCHANGED ops    \* re-armed
       ELSE timer' = None /\ ops' = Append(ops, Op("resume", "start", generation, None, 0))
    /\ UNCHANGED <<row, memory, deadline, generation>>

AtHead(kind, step) == ops # <<>> /\ Head(ops).kind = kind /\ Head(ops).step = step
Step(op) == ops' = <<op>> \o Tail(ops)
Done == ops' = Tail(ops)

\* PostgreSQL: the queued upsert and the queued delete.
WriteDeferral(ok) ==
    LET op == Head(ops)
        stored == Upsert(op.event, op.at)
    IN  /\ AtHead("defer", "write")
        /\ row' = IF ok THEN stored ELSE row
        /\ Step(IF ok THEN [op EXCEPT !.step = "stored", !.at = stored.notBefore]
                      ELSE [op EXCEPT !.step = "unstored"])
        /\ UNCHANGED <<memory, deadline, generation, timer>>

WriteCancel(ok) ==
    /\ AtHead("cancel", "write") /\ Done
    /\ row' = IF ok THEN None ELSE row
    /\ UNCHANGED <<memory, deadline, generation, timer>>

\* After the write: the row is used, or the event is kept in memory unless it
\* had to be durable (the caller's promise then rejects).
SettleDefer ==
    LET op == Head(ops)
    IN  /\ AtHead("defer", "stored") \/ AtHead("defer", "unstored")
        /\ Done
        /\ IF Current(op.gen) /\ (op.step = "stored" \/ ~durable)
           THEN memory' = (IF op.step = "stored" THEN None ELSE op.event) /\ Arm(op.at)
           ELSE UNCHANGED <<memory, timer, deadline>>
        /\ UNCHANGED <<row, generation>>

-----------------------------------------------------------------------------
(* resume() and takeTarget(). *)

\* The event in memory, else the row; a superseded resume does nothing.  The
\* question whether the event has waited too long is an await.
ResumeStart ==
    LET op == Head(ops)
    IN  /\ AtHead("resume", "start")
        /\ IF stopped \/ ~Current(op.gen) THEN Done
           ELSE IF memory # None THEN Step([op EXCEPT !.step = "memory", !.event = memory])
           ELSE IF row = None THEN Step([op EXCEPT !.step = "taken"])
           ELSE Step([op EXCEPT !.step = "row", !.at = row.notBefore])
        /\ UNCHANGED <<row, memory, deadline, generation, timer>>

\* The event in memory is newer than a row whose replacement failed.
TakeMemory(ok) ==
    /\ AtHead("resume", "memory") /\ Step([Head(ops) EXCEPT !.step = "taken"])
    /\ row' = IF ok THEN None ELSE row
    /\ UNCHANGED <<memory, deadline, generation, timer>>

\* What has waited longer than the queue timeout is dropped.
TakeExpired ==
    LET op == Head(ops)
    IN  /\ AtHead("resume", "memory") \/ (AtHead("resume", "row") /\ StatusIs("pending"))
        /\ Step([op EXCEPT !.step = "taken", !.event = None])
        /\ row' = None
        /\ memory' = IF op.step = "memory" THEN None ELSE memory
        /\ UNCHANGED <<deadline, generation, timer>>

\* Faulty: the row is read but not claimed.
TakeRowUnclaimed ==
    LET op == Head(ops)
    IN  /\ AtHead("resume", "row")
        /\ IF op.at > now
           THEN Arm(op.at) /\ Step([op EXCEPT !.step = "taken"])
           ELSE /\ Step([op EXCEPT !.step = "taken", !.event = IF row = None THEN None ELSE row.event])
                /\ UNCHANGED <<timer, deadline>>
        /\ UNCHANGED <<row, memory, generation>>

\* Not before the instant that was read; then the claim, which only a pending
\* row grants.
TakeRow ==
    LET op == Head(ops)
    IN  /\ AtHead("resume", "row")
        /\ IF op.at > now
           THEN Arm(op.at) /\ Step([op EXCEPT !.step = "taken"]) /\ UNCHANGED row
           ELSE /\ IF StatusIs("pending")
                   THEN /\ row' = [row EXCEPT !.status = "claimed"]
                        /\ Step([op EXCEPT !.step = "taken", !.event = row.event])
                   ELSE Step([op EXCEPT !.step = "taken"]) /\ UNCHANGED row
                /\ UNCHANGED <<timer, deadline>>
        /\ UNCHANGED <<memory, generation>>

\* releaseReviewDeferral and completeReviewDeferral: only a claimed row.
Released == IF StatusIs("claimed") THEN [row EXCEPT !.status = "pending"] ELSE row
Acknowledged == IF StatusIs("claimed") THEN None ELSE row

HandsOver == LET op == Head(ops)
             IN  AtHead("resume", "taken") /\ Current(op.gen) /\ ~stopped /\ op.event # None

\* After takeTarget: superseded work is dropped, a claim made during a shutdown
\* is released, and a target is handed to the handler.
ResumeTaken ==
    LET op == Head(ops)
    IN  /\ AtHead("resume", "taken") /\ Done
        /\ row' = IF Current(op.gen) /\ stopped THEN Released ELSE row
        /\ deadline' = IF Current(op.gen) /\ ~stopped /\ op.event = None /\ timer = None
                       THEN 0 ELSE deadline
        /\ handoffs' = IF HandsOver
                       THEN [handoffs EXCEPT ![op.event] = [gen |-> op.gen, step |-> "open"]] ELSE handoffs
        /\ UNCHANGED <<memory, generation, timer>>

\* A store call of takeTarget throws: like a failed handoff.
ResumeThrows ==
    LET op == Head(ops)
    IN  /\ AtHead("resume", "row") /\ Done
        /\ IF Current(op.gen) THEN row' = Released /\ Arm(Later(now))
           ELSE UNCHANGED <<row, timer, deadline>>
        /\ UNCHANGED <<memory, generation>>

-----------------------------------------------------------------------------
(* settleHandoff() and failHandoff(), which do not use the queue. *)

\* The handler's promise for e resolved or rejected; superseded work ends here
\* (gen is the generation the call leaves behind).
Resolve(e, ok, gen) ==
    IF handoffs[e].step # "open" THEN handoffs
    ELSE IF handoffs[e].gen # gen THEN [handoffs EXCEPT ![e] = NoHandoff]
    ELSE [handoffs EXCEPT ![e].step = IF ok THEN "settling" ELSE "failing"]

SettleHandoff(e, ok) ==
    /\ handoffs[e].step = "settling"
    /\ row' = IF ok THEN Acknowledged ELSE row
    /\ IF timer = None THEN memory' = None /\ deadline' = 0 ELSE UNCHANGED <<memory, deadline>>
    /\ handoffs' = [handoffs EXCEPT ![e] = NoHandoff]
    /\ UNCHANGED <<generation, timer, ops>>

\* The retry timer is armed whatever happened during the store call.
FailHandoff(e, ok) ==
    /\ handoffs[e].step = "failing"
    /\ row' = IF ok THEN Released ELSE row
    /\ Arm(Later(now))
    /\ handoffs' = [handoffs EXCEPT ![e] = NoHandoff]
    /\ UNCHANGED <<memory, generation, ops>>

-----------------------------------------------------------------------------
(* cancelPending() at the head of the queue, and recover() after a start. *)

\* The candidate is the event in memory, else the pending row; it remembers the
\* generation (gen) and whether there is a row to delete (at).
WithdrawList ==
    LET op == Head(ops)
        hasRow == StatusIs("pending")
    IN  /\ AtHead("withdraw", "list")
        /\ IF memory = None /\ ~hasRow THEN Done
           ELSE Step([op EXCEPT !.step = "erase", !.gen = generation,
                                !.event = IF memory # None THEN memory ELSE row.event,
                                !.at = IF hasRow THEN 1 ELSE 0])
        /\ UNCHANGED <<row, memory, deadline, generation, timer>>

\* Only the row that was seen is deleted, and only while it is pending.
WithdrawRow ==
    LET op == Head(ops)
    IN  /\ AtHead("withdraw", "erase")
        /\ IF generation # op.gen \/ (op.at = 1 /\ ~StatusIs("pending"))
           THEN Done /\ UNCHANGED row
           ELSE row' = (IF op.at = 1 THEN None ELSE row) /\ Step([op EXCEPT !.step = "erased"])
        /\ UNCHANGED <<memory, deadline, generation, timer>>

WithdrawErased ==
    /\ AtHead("withdraw", "erased") /\ Done
    /\ IF generation = Head(ops).gen
       THEN timer' = None /\ generation' = None /\ memory' = None /\ deadline' = 0
       ELSE UNCHANGED <<memory, deadline, generation, timer>>
    /\ UNCHANGED row

\* Faulty: only pending rows are recovered.
RecoverPendingOnly == UNCHANGED <<row, memory, deadline, generation, timer, ops>>

\* A claim of a process that ended is pending again.
RecoverReset == row' = Released /\ UNCHANGED <<memory, deadline, generation, timer, ops>>

RecoverArm ==
    /\ IF StatusIs("pending") THEN generation' = Fresh /\ Arm(row.notBefore)
                              ELSE UNCHANGED <<generation, timer, deadline>>
    /\ UNCHANGED <<row, memory, ops>>

\* A settled handoff waits for its store call.
Settling == \E e \in Events : handoffs[e].step \in {"settling", "failing"}
=============================================================================
