-------------------------- MODULE TriggerScheduling --------------------------
(***************************************************************************)
(* The life of the webhook events of one review target: admission,         *)
(* deduplication, the execution window, attempts and retries               *)
(* (scheduleTriggerProcessing in packages/server/src/index.ts and          *)
(* review-deduplicator.ts), over the deferrals of ReviewDeferrals.         *)
(*                                                                         *)
(* An event is scheduled by an invocation: when it arrives, when its       *)
(* deferral is resumed and when it was waiting for the review that just    *)
(* completed.  The last two first wait for their configuration             *)
(* ("admitting").  An event counts as arrived when it has its              *)
(* configuration; so the events enter in the order of their numbers.       *)
(***************************************************************************)
EXTENDS ReviewDeferrals

CONSTANTS MaxAttempts,     \* queue.retry.attempts
          MaxTrouble       \* bound: failed store calls and admissions, restarts, withdrawals

ASSUME TriggerAssumption ==
    /\ MaxAttempts \in Nat \ {0}
    /\ MaxTrouble \in Nat

VARIABLES inv,        \* event -> its invocation
          running,    \* the key is in the deduplicator's running set
          pending,    \* the deduplicator's pending event
          pinned,     \* events whose configuration snapshot is pinned
          recovery,   \* the steps recover() has left
          arrived,    \* events arrived so far
          owed,       \* history: the last event, or the one that took its place
          again,      \* history: an event was handed over that was in flight already
          faults, crashes, withdrawals

schedulingVars == <<inv, running, pending, pinned>>
historyVars == <<arrived, owed, again>>
bounds == <<faults, crashes, withdrawals>>
vars == <<deferralVars, schedulingVars, recovery, historyVars, bounds>>

Idle == [phase |-> "none", attempt |-> 0, at |-> 0]
Invocation(phase, attempt, at) == [phase |-> phase, attempt |-> attempt, at |-> at]
Phase(e) == inv[e].phase

Init ==
    /\ DeferralInit
    /\ inv = [e \in Events |-> Idle] /\ running = FALSE /\ pending = None /\ pinned = {}
    /\ recovery = "done" /\ arrived = 0 /\ owed = None /\ again = FALSE
    /\ faults = 0 /\ crashes = 0 /\ withdrawals = 0

MoreTrouble == faults + crashes + withdrawals < MaxTrouble

\* A store call succeeds, or fails within the bound.
Outcome(ok) == /\ ok \/ MoreTrouble
               /\ faults' = IF ok THEN faults ELSE faults + 1

\* With SQLite, store work ends before another task runs.  (Invocations are told
\* apart by their events: a second one of the same event is not followed.)
Quiet == ~again /\ (backend = "postgres" \/ (ops = <<>> /\ ~Settling /\ recovery = "done"))

Outside == NextAllowed(now) > now

\* Events that wait in the deferral of the key; a superseded resume hands over
\* nothing.
InOps == {ops[i].event : i \in {j \in DOMAIN ops :
             ops[j].kind = "defer" \/ (ops[j].kind = "resume" /\ Current(ops[j].gen))}}
InRow == IF row = None THEN {} ELSE {row.event}
Stored == InRow \cup ({memory} \ {None})
Deferred == Stored \cup (InOps \ {None})
InPlace(e) == Phase(e) # "none" \/ pending = e \/ e \in Deferred

\* e takes the place of the events in set, unless the owed one is on its way to
\* a review by itself; nothing is owed when the review of e began before.
Replaces(e, set) ==
    owed' = IF owed \notin set \ {None} \/ Phase(owed) \in {"admitting", "waiting"} THEN owed
            ELSE IF Phase(e) \in {"none", "reviewing"} /\ e \notin InOps THEN None ELSE e

-----------------------------------------------------------------------------
(* scheduleTriggerProcessing *)

\* Faulty: an event that waits replaces the pending one and keeps its pin.
SetPendingLeaking(e) == pending' = e /\ pinned' = pinned \cup {e}

\* setPending(): the event that was pending gives its pin back.
SetPending(e) == pending' = e /\ pinned' = (pinned \ {pending}) \cup {e}

\* The invocation of e has its configuration: outside the window it is
\* deferred, during a review it becomes the pending event, and else it is the
\* running one and supersedes a deferral.
Enter(e, ok) ==
    IF Outside
    THEN /\ Defer(e, NextAllowed(now), ok)
         /\ inv' = [inv EXCEPT ![e] = Invocation("deferring", 1, 0)]
         /\ pinned' = pinned \cup {e}
         /\ UNCHANGED <<running, pending, handoffs>>
    ELSE IF running
    THEN /\ SetPending(e)
         /\ inv' = [inv EXCEPT ![e] = Idle]
         /\ handoffs' = Resolve(e, TRUE, generation)
         /\ UNCHANGED <<running, row, memory, deadline, generation, timer, ops>>
    ELSE /\ Cancel(e, ok)
         /\ running' = TRUE
         /\ inv' = [inv EXCEPT ![e] = Invocation("waiting", 1, now)]
         /\ pinned' = pinned \cup {e}
         /\ handoffs' = Resolve(e, TRUE, None)
         /\ UNCHANGED pending

\* What the entry of an event puts away at once.
Superseded(ok) ==
    IF Outside THEN (IF ok /\ backend = "sqlite" THEN Stored \ {pending} ELSE {})
    ELSE IF running THEN {pending}
    ELSE IF ok /\ backend = "sqlite" THEN Stored \ {pending} ELSE {memory} \ {pending}

Arrive(e, ok) ==
    /\ Quiet /\ ~stopped /\ e = arrived + 1 /\ arrived' = e
    /\ Enter(e, ok) /\ owed' = e /\ Outcome(ok)
    /\ UNCHANGED <<now, backend, durable, stopped, recovery, again, crashes, withdrawals>>

Admit(e, ok) ==
    /\ Quiet /\ Phase(e) = "admitting"
    /\ Enter(e, ok) /\ Replaces(e, Superseded(ok)) /\ Outcome(ok)
    /\ UNCHANGED <<now, backend, durable, stopped, recovery, arrived, again, crashes, withdrawals>>

\* Its configuration cannot be read.  A resumed deferral is retried, unless
\* another event of the key superseded it; of the replay of a pending event only
\* a line in the log remains, and its pin.
AdmissionFails(e) ==
    /\ Quiet /\ Phase(e) = "admitting" /\ Outcome(FALSE)
    /\ inv' = [inv EXCEPT ![e] = Idle]
    /\ handoffs' = Resolve(e, FALSE, generation)
    /\ owed' = IF owed # e \/ handoffs'[e].step = "failing" THEN owed ELSE None
    /\ UNCHANGED <<now, backend, durable, stopped, row, memory, deadline, generation, timer, ops,
                   running, pending, pinned, recovery, arrived, again, crashes, withdrawals>>

-----------------------------------------------------------------------------
(* Attempts. *)

\* Faulty: the running mark is given up before the pending event is taken.
CompletedForgetting(e) ==
    /\ running' = FALSE
    /\ inv' = [inv EXCEPT ![e] = Idle]
    /\ pinned' = pinned \ {e}
    /\ pending' = None

\* onCompleted(): the pin and the running mark are given up, and the pending
\* event is scheduled with the pin it has.
Completed(e) ==
    /\ running' = FALSE
    /\ pinned' = pinned \ {e}
    /\ pending' = None
    /\ inv' = [f \in Events |-> IF f = pending THEN Invocation("admitting", 1, 0)
                                ELSE IF f = e THEN Idle ELSE inv[f]]

\* runAdmittedAttempt(): the timer, then the permit of the pool; the window is
\* looked at again.
AttemptInside(e) ==
    /\ Quiet /\ Phase(e) = "waiting" /\ inv[e].at <= now /\ ~Outside
    /\ inv' = [inv EXCEPT ![e].phase = "reviewing"]
    /\ owed' = IF owed = e THEN None ELSE owed
    /\ UNCHANGED <<deferralVars, running, pending, pinned, recovery, arrived, again, bounds>>

\* A first attempt is deferred like an arrival; a retry waits.
AttemptOutside(e, ok) ==
    /\ Quiet /\ Phase(e) = "waiting" /\ inv[e].at <= now /\ Outside
    /\ IF inv[e].attempt = 1
       THEN /\ Defer(e, NextAllowed(now), ok) /\ Replaces(e, Superseded(ok)) /\ Outcome(ok)
            /\ inv' = [inv EXCEPT ![e].phase = "redeferring"]
       ELSE /\ inv' = [inv EXCEPT ![e].at = NextAllowed(now)] /\ ok
            /\ UNCHANGED <<row, memory, deadline, generation, timer, ops, owed, faults>>
    /\ UNCHANGED <<now, backend, durable, stopped, handoffs, running, pending, pinned, recovery,
                   arrived, again, crashes, withdrawals>>

ReviewEnds(e) ==
    /\ Quiet /\ Phase(e) = "reviewing" /\ Completed(e)
    /\ UNCHANGED <<deferralVars, recovery, historyVars, bounds>>

\* A transient error; the last attempt ends like any review.
ReviewFails(e) ==
    /\ Quiet /\ Phase(e) = "reviewing" /\ inv[e].attempt < MaxAttempts
    /\ inv' = [inv EXCEPT ![e] = Invocation("waiting", inv[e].attempt + 1, NextAllowed(Later(now)))]
    /\ UNCHANGED <<deferralVars, running, pending, pinned, recovery, historyVars, bounds>>

-----------------------------------------------------------------------------
(* The deferral manager at work. *)

\* The promise of defer() settles: a new deferral ends its invocation, one of
\* an attempt completes it, and one that had to be stored and is not leaves the
\* attempt to be repeated or the arrival refused.
DeferSettles ==
    LET op == Head(ops)
        e == op.event
        kept == op.step = "stored" \/ ~durable
        superseders == {i \in DOMAIN ops \ {1} : ops[i].kind \in {"defer", "cancel"}}
        refused == ~kept /\ Phase(e) = "deferring" /\ e \notin InRow
    IN  /\ ~again /\ SettleDefer
        /\ IF Phase(e) = "deferring"
           THEN /\ inv' = [inv EXCEPT ![e] = Idle] /\ pinned' = pinned \ {e}
                /\ handoffs' = Resolve(e, kept, generation)
                /\ UNCHANGED <<running, pending>>
           ELSE /\ IF kept THEN Completed(e)
                   ELSE /\ inv' = [inv EXCEPT ![e] = Invocation("waiting", 1, Later(now))]
                        /\ UNCHANGED <<running, pending, pinned>>
                /\ UNCHANGED handoffs
        /\ IF refused /\ owed = e THEN owed' = None
           ELSE IF op.step = "unstored" /\ ~Current(op.gen) /\ superseders # {} THEN Replaces(ops[Max(superseders)].event, {e})
           ELSE IF memory' # memory THEN Replaces(e, Stored \ {pending}) ELSE UNCHANGED owed
        /\ UNCHANGED <<now, backend, durable, stopped, recovery, arrived, again, bounds>>

\* The handler is called with the target: scheduling begins.  (A second
\* invocation of an event in flight is counted, not followed.)
TargetHandedOver ==
    /\ ~again /\ ResumeTaken
    /\ again' = (HandsOver /\ (Phase(Head(ops).event) # "none" \/ pending = Head(ops).event))
    /\ inv' = IF HandsOver /\ ~again' THEN [inv EXCEPT ![Head(ops).event] = Invocation("admitting", 1, 0)] ELSE inv
    /\ UNCHANGED <<now, backend, durable, stopped, running, pending, pinned, recovery,
                   arrived, owed, bounds>>

Frame == UNCHANGED <<now, backend, durable, stopped, schedulingVars, recovery, arrived, again, crashes>>

TimerFires == Quiet /\ FireTimer /\ Frame /\ UNCHANGED <<handoffs, owed, faults, withdrawals>>

StoreStep(ok) ==
    /\ WriteDeferral(ok) \/ WriteCancel(ok) \/ TakeMemory(ok)
    /\ IF row' # row THEN Replaces(Head(ops).event, InRow \ {pending}) ELSE UNCHANGED owed
    /\ Outcome(ok) /\ Frame /\ UNCHANGED <<handoffs, withdrawals>>

StoreFails ==
    ResumeThrows /\ Outcome(FALSE) /\ Frame /\ UNCHANGED <<handoffs, owed, withdrawals>>

Resumes == (ResumeStart \/ TakeRow) /\ Frame /\ UNCHANGED <<handoffs, owed, faults, withdrawals>>

HandoffStep(e, ok) ==
    (SettleHandoff(e, ok) \/ FailHandoff(e, ok)) /\ Outcome(ok) /\ Frame /\ UNCHANGED <<owed, withdrawals>>

\* An event that waited too long, or that an operator no longer wants.
Dropped(set) == owed' = IF owed \in set THEN None ELSE owed
DropFrame == UNCHANGED <<now, backend, durable, stopped, schedulingVars, recovery, handoffs,
                         arrived, again, faults, crashes>>

Expires ==
    /\ MoreTrouble /\ withdrawals' = withdrawals + 1
    /\ TakeExpired /\ DropFrame
    /\ Dropped(InRow \cup {Head(ops).event})

Withdraw ==
    /\ Quiet /\ MoreTrouble /\ withdrawals' = withdrawals + 1
    /\ CancelPending /\ DropFrame
    /\ UNCHANGED <<row, memory, deadline, generation, timer, owed>>

WithdrawSteps ==
    /\ \/ WithdrawList /\ UNCHANGED owed
       \/ WithdrawRow /\ (IF row' # row THEN Dropped({Head(ops).event, row.event}) ELSE UNCHANGED owed)
       \/ WithdrawErased /\ (IF memory' # memory THEN Dropped({memory}) ELSE UNCHANGED owed)
    /\ DropFrame /\ UNCHANGED withdrawals

-----------------------------------------------------------------------------
(* Time, shutdown, restart. *)

\* An instant is longer than the queries of a recovery or of a handoff; the
\* queue may be longer than that.
Tick ==
    /\ Quiet /\ recovery = "done" /\ ~Settling /\ now < MaxTime /\ now' = now + 1
    /\ UNCHANGED <<backend, durable, row, memory, deadline, generation, timer, ops, handoffs, stopped,
                   schedulingVars, recovery, historyVars, bounds>>

\* stop(): no timer any more; what was accepted is still written.
Stop ==
    /\ Quiet /\ ~stopped /\ MoreTrouble /\ recovery = "done"
    /\ stopped' = TRUE /\ timer' = None
    /\ UNCHANGED <<now, backend, durable, row, memory, deadline, generation, ops, handoffs,
                   schedulingVars, recovery, historyVars, bounds>>

\* The process ends, after a shutdown or without one, and another starts.  Only
\* the row survives.
Restart ==
    /\ Quiet /\ MoreTrouble /\ crashes' = crashes + 1
    /\ memory' = None /\ deadline' = 0 /\ generation' = None /\ timer' = None /\ ops' = <<>>
    /\ handoffs' = [e \in Events |-> NoHandoff] /\ stopped' = FALSE
    /\ inv' = [e \in Events |-> Idle] /\ running' = FALSE /\ pending' = None /\ pinned' = {}
    /\ owed' = IF row # None /\ row.event = owed THEN owed ELSE None
    /\ recovery' = "reset"
    /\ UNCHANGED <<now, backend, durable, row, arrived, again, faults, withdrawals>>

\* recover(): arrivals may come between its steps.  A failure leaves the row.
Recover ==
    /\ \/ recovery = "reset" /\ recovery' = "arm" /\ RecoverReset
       \/ recovery = "arm" /\ recovery' = "done" /\ RecoverArm
    /\ UNCHANGED <<now, backend, durable, stopped, handoffs, schedulingVars, historyVars, bounds>>

RecoverFails ==
    /\ recovery # "done" /\ recovery' = "done" /\ faults' = faults + 1
    /\ UNCHANGED <<deferralVars, schedulingVars, historyVars, crashes, withdrawals>>

-----------------------------------------------------------------------------
Work ==
    \/ \E e \in Events, ok \in BOOLEAN : Admit(e, ok) \/ AttemptOutside(e, ok) \/ HandoffStep(e, ok)
    \/ \E e \in Events : AttemptInside(e) \/ ReviewEnds(e)
    \/ \E ok \in BOOLEAN : StoreStep(ok)
    \/ DeferSettles \/ TargetHandedOver \/ TimerFires \/ Resumes \/ WithdrawSteps \/ Recover

Next ==
    \/ Work \/ Tick
    \/ \E e \in Events, ok \in BOOLEAN : Arrive(e, ok)
    \/ \E e \in Events : AdmissionFails(e) \/ ReviewFails(e)
    \/ StoreFails \/ Expires \/ Withdraw \/ Stop \/ Restart \/ RecoverFails

Spec == Init /\ [][Next]_vars

\* The event loop runs what is due, and time passes.
FairSpec == Spec /\ WF_vars(Work) /\ WF_vars(Tick)

-----------------------------------------------------------------------------
(* Properties. *)

\* The newest event of a target, or the one that took its place, is never
\* forgotten: until its review begins it is in an invocation, pending in the
\* deduplicator, or deferred in the row, in memory or in a queued write.  (A
\* failed write that overlaps a recovery or a withdrawal is not covered: the
\* generation of the deferral is then replaced before its fallback is kept.)
NothingForgotten ==
    (faults = 0 \/ crashes + withdrawals = 0) /\ ~stopped /\ owed # None => InPlace(owed)

\* The running mark belongs to exactly one invocation, only then is an event
\* pending, and the events in flight are those that hold their configuration
\* (the replay that could not be admitted keeps its pin).
OneReviewPerTarget ==
    /\ Cardinality({e \in Events : Phase(e) \in {"waiting", "reviewing", "redeferring"}}) = (IF running THEN 1 ELSE 0)
    /\ pending # None => running
    /\ \A e \in Events : (Phase(e) \notin {"none", "admitting"} \/ pending = e) => e \in pinned
    /\ \A e \in pinned : Phase(e) # "none" \/ pending = e \/ faults > 0

\* A deferred event is handed over once, except when its last write failed: the
\* claim of the row allows one resume, of the event in memory nothing does.
HandedOverOnce == again => faults > 0

\* "repeated events for the same target replace the stored envelope so only the
\* newest state is reviewed": an older event never takes the place of a newer one.
NewerReplacesOlder == [][owed # None /\ owed' # None => owed' >= owed]_vars

\* The last event of a target is reviewed, or one that took its place, also over
\* a restart.
TargetReviewed == owed # None ~> (owed = None \/ stopped \/ faults + withdrawals > 0)
=============================================================================
