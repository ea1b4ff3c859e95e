--------------------------- MODULE AutoCommitStore ---------------------------
(***************************************************************************)
(* The durable auto-commit scheduling store: commit members, sealed        *)
(* batches with their execution leases, the dispatch outbox and the stream *)
(* heads (packages/core/src/sqlite-auto-commit-store.ts; the memory store  *)
(* makes the same transitions).  Every operation is one SQLite             *)
(* transaction, so every operation is one action; a caller may present any *)
(* argument at any time, which covers every scheduler, operator command    *)
(* and restart.                                                            *)
(*                                                                         *)
(* A timestamp is kept as the time that is left until it (expiry, delay)   *)
(* or that has passed since it (age); Tick is one unit of time.  A token   *)
(* is a fresh UUID: an action that issues one takes a token the store does *)
(* not hold.  Error texts, routing data, wake-up bounds and the version    *)
(* counter of a stream head are left out.                                  *)
(***************************************************************************)
EXTENDS Naturals, FiniteSets

CONSTANTS Batches,      \* identities sealBatch may mint
          Members,      \* commit members of all streams
          Streams,      \* streams with a persisted head
          Owners,       \* scheduler consumer identities
          Tokens,       \* reservation, claim and lease tokens
          None,         \* SQL NULL
          StreamOf,     \* the stream a member belongs to
          WorkspaceOf,  \* the workspace a stream belongs to
          MaxAttempts,  \* maxAttempts of every sealed batch
          GlobalLimit, WorkspaceLimit,  \* limits given to startBatchExecution
          LeaseTtl, ClaimTtl, MaxDelay, \* durations, in ticks
          MemberDelay,  \* age at which a pending member becomes eligible
          QueueTimeout, \* age beyond which queued work is stale; None: never
          MaxAge        \* ages are not told apart from here on

ASSUME ConstantsAssumption ==
    /\ None \notin Batches \cup Streams \cup Owners \cup Tokens \cup Nat
    /\ StreamOf \in [Members -> Streams]
    /\ DOMAIN WorkspaceOf = Streams
    /\ MaxAttempts \in Nat \ {0}
    /\ GlobalLimit \in Nat \ {0} /\ WorkspaceLimit \in Nat \ {0}
    /\ LeaseTtl \in Nat \ {0} /\ ClaimTtl \in Nat \ {0}
    /\ MaxDelay \in Nat /\ MaxAge \in Nat /\ MemberDelay \in 0..MaxAge
    /\ QueueTimeout \in 0..(MaxAge - 1) \cup {None}

VARIABLES batches,  \* auto_commit_batches: batch -> row
          outbox,   \* auto_commit_outbox: batch -> row
          heads,    \* auto_commit_stream_heads: stream -> row
          members   \* auto_commit_members: member -> row

vars == <<batches, outbox, heads, members>>

Queued == {"dispatch_pending", "queued", "retry_wait"}
Terminal == {"completed", "skipped", "dead"}
BatchStatus == Queued \cup Terminal \cup {"running", "unused", "pruned"}
MemberStatus == {"absent", "pending", "batched", "completed", "skipped",
                 "failed", "dead"}

Ages == 0..MaxAge
Stale(age) == QueueTimeout # None /\ age > QueueTimeout
Live(expiry) == expiry # None /\ expiry # 0

Batch == [status : BatchStatus, stream : Streams \cup {None}, attempt : Nat,
          recovery : {0, 1}, token : Tokens \cup {None},
          owner : Owners \cup {None}, expiry : Nat \cup {None}, age : Ages]
Entry == [status : {"none", "pending", "dispatched"}, delay : Nat,
          token : Tokens \cup {None}, expiry : Nat \cup {None}]
Head == [active : Batches \cup {None}, token : Tokens \cup {None},
         expiry : Nat \cup {None}]
Member == [status : MemberStatus, batch : Batches \cup {None},
           conflicted : BOOLEAN, age : Ages]

NoBatch == [status |-> "unused", stream |-> None, attempt |-> 0,
            recovery |-> 0, token |-> None, owner |-> None, expiry |-> None,
            age |-> 0]
NoEntry == [status |-> "none", delay |-> 0, token |-> None, expiry |-> None]
PendingEntry(delay) == [NoEntry EXCEPT !.status = "pending", !.delay = delay]
FreeHead == [active |-> None, token |-> None, expiry |-> None]
NoMember == [status |-> "absent", batch |-> None, conflicted |-> FALSE, age |-> 0]

Open(b) == batches[b].status \in Queued \cup {"running"}
MembersOf(b) == {m \in Members : members[m].batch = b}
\* Tokens a row of the store holds; a new UUID differs from all of them.
HeldTokens == {heads[s].token : s \in Streams}
              \cup {batches[b].token : b \in Batches}
              \cup {outbox[b].token : b \in Batches}

(***************************************************************************)
(* A database written before the automatic recovery existed may hold dead  *)
(* batches, and one of them may still occupy its stream (home, owned and   *)
(* active give them); otherwise the store starts empty.                    *)
(***************************************************************************)
DeadBatch(s) == [NoBatch EXCEPT !.status = "dead", !.stream = s,
                                !.attempt = MaxAttempts]

InitFrom(home, owned, active) ==
    /\ \A m \in Members : owned[m] # None => home[owned[m]] = StreamOf[m]
    /\ \A b \in Batches : home[b] # None => \E m \in Members : owned[m] = b
    /\ \A s \in Streams : active[s] # None => home[active[s]] = s
    /\ batches = [b \in Batches |-> IF home[b] = None THEN NoBatch
                                    ELSE DeadBatch(home[b])]
    /\ members = [m \in Members |->
                    IF owned[m] = None THEN NoMember
                    ELSE [NoMember EXCEPT !.status = "dead", !.batch = owned[m]]]
    /\ heads = [s \in Streams |-> [FreeHead EXCEPT !.active = active[s]]]
    /\ outbox = [b \in Batches |-> NoEntry]

Init == \E home \in [Batches -> Streams \cup {None}],
           owned \in [Members -> Batches \cup {None}],
           active \in [Streams -> Batches \cup {None}] : InitFrom(home, owned, active)

-----------------------------------------------------------------------------
(* Rows as the transactions rewrite them. *)

Unleased(r, status) == [r EXCEPT !.status = status, !.token = None,
                                 !.owner = None, !.expiry = None]
\* Faulty: the recovery is not recorded.
RearmedAgain(r) == [Unleased(r, "retry_wait") EXCEPT !.attempt = 1]

\* attempt = 1, recovery_attempt = 1: the single recovery, or a manual retry.
Rearmed(r) == [Unleased(r, "retry_wait") EXCEPT !.attempt = 1, !.recovery = 1]

\* Faulty: a skipped batch gives its members back for regrouping.
MoveMembersUnbound(B, From, to) ==
    members' = [m \in Members |->
                  IF members[m].batch \in B /\ members[m].status \in From
                  THEN [members[m] EXCEPT !.status = to,
                           !.batch = IF to = "skipped" THEN None ELSE @]
                  ELSE members[m]]

\* The members of the batches in B whose status is in From move to status to.
MoveMembers(B, From, to) ==
    members' = [m \in Members |->
                  IF members[m].batch \in B /\ members[m].status \in From
                  THEN [members[m] EXCEPT !.status = to] ELSE members[m]]
\* clearStreamActiveBatch for every batch of B.
ReleaseStreams(B) ==
    heads' = [s \in Streams |-> IF heads[s].active \in B
                                THEN [heads[s] EXCEPT !.active = None] ELSE heads[s]]
ClaimStream(b) == heads' = [heads EXCEPT ![batches[b].stream].active = b]

\* Faulty: the outbox row of a terminally skipped batch is left behind.
TerminalSkipKeepingOutbox(B) ==
    /\ batches' = [b \in Batches |-> IF b \in B THEN Unleased(batches[b], "skipped")
                                     ELSE batches[b]]
    /\ MoveMembers(B, {"batched"}, "skipped")
    /\ ReleaseStreams(B)
    /\ UNCHANGED outbox

\* terminalSkipBatch for every batch of B.
TerminalSkip(B) ==
    /\ batches' = [b \in Batches |-> IF b \in B THEN Unleased(batches[b], "skipped")
                                     ELSE batches[b]]
    /\ outbox' = [b \in Batches |-> IF b \in B THEN NoEntry ELSE outbox[b]]
    /\ MoveMembers(B, {"batched"}, "skipped")
    /\ ReleaseStreams(B)

-----------------------------------------------------------------------------
(* Members: metadata pages, exclusion verdicts, the member queue timeout. *)

InsertMember(m) ==
    /\ members[m].status = "absent"
    /\ members' = [members EXCEPT ![m].status = "pending"]
    /\ UNCHANGED <<batches, outbox, heads>>

\* A later page contradicts the source evidence of a pending member.
ConflictMember(m) ==
    /\ members[m].status = "pending"
    /\ members' = [members EXCEPT ![m].conflicted = TRUE]
    /\ UNCHANGED <<batches, outbox, heads>>

\* Faulty: the verdict itself is written as the status.
ApplyExclusionVerdictRaw(m, status) ==
    /\ members[m].status = "pending"
    /\ members' = [members EXCEPT ![m].age = 0,
                     ![m].status = IF status = "failed" THEN "unavailable" ELSE "excluded"]
    /\ UNCHANGED <<batches, outbox, heads>>

\* An excluded source is skipped, an unavailable one fails; both terminally.
ApplyExclusionVerdict(m, status) ==
    /\ members[m].status = "pending"
    /\ members' = [members EXCEPT ![m].status = status, ![m].age = 0]
    /\ UNCHANGED <<batches, outbox, heads>>

TimeoutStaleQueue ==
    /\ members' = [m \in Members |->
                     IF /\ members[m].status = "pending"
                        /\ members[m].batch = None
                        /\ Stale(members[m].age)
                     THEN [members[m] EXCEPT !.status = "skipped", !.age = 0]
                     ELSE members[m]]
    /\ UNCHANGED <<batches, outbox, heads>>

-----------------------------------------------------------------------------
(* Stream reservations and sealing. *)

AcquireReservation(s, t) ==
    /\ heads[s].active = None
    /\ ~ (heads[s].token # None /\ Live(heads[s].expiry))
    /\ heads' = [heads EXCEPT ![s].token = t, ![s].expiry = LeaseTtl]
    /\ UNCHANGED <<batches, outbox, members>>

RenewReservation(s, t) ==
    /\ heads[s].token = t /\ Live(heads[s].expiry)
    /\ heads' = [heads EXCEPT ![s].expiry = LeaseTtl]
    /\ UNCHANGED <<batches, outbox, members>>

ReleaseReservation(s, t) ==
    /\ heads[s].token = t
    /\ heads' = [heads EXCEPT ![s].token = None, ![s].expiry = None]
    /\ UNCHANGED <<batches, outbox, members>>

Sealable(m, s) == /\ StreamOf[m] = s
                  /\ members[m].status = "pending"
                  /\ members[m].batch = None
                  /\ ~members[m].conflicted
                  /\ members[m].age >= MemberDelay

SealBatch(s, b, M, t) ==
    /\ heads[s].token = t /\ Live(heads[s].expiry)
    /\ heads[s].active = None
    /\ M # {}
    /\ batches[b].status = "unused"
    /\ \A m \in M : Sealable(m, s)
    /\ \E oldest \in M :
          /\ \A m \in M : members[m].age <= members[oldest].age
          /\ batches' = [batches EXCEPT ![b] = [NoBatch EXCEPT
                           !.status = "dispatch_pending", !.stream = s,
                           !.age = members[oldest].age]]
    /\ outbox' = [outbox EXCEPT ![b] = PendingEntry(0)]
    /\ members' = [m \in Members |->
                     IF m \in M THEN [members[m] EXCEPT !.status = "batched",
                                                        !.batch = b, !.age = 0]
                     ELSE members[m]]
    /\ heads' = [heads EXCEPT ![s] = [FreeHead EXCEPT !.active = b]]

-----------------------------------------------------------------------------
(* The dispatch outbox. *)

ClaimDispatch(b, t) ==
    /\ outbox[b].status = "pending" /\ outbox[b].delay = 0
    /\ outbox[b].token = None \/ ~Live(outbox[b].expiry)
    /\ outbox' = [outbox EXCEPT ![b] = [@ EXCEPT !.token = t, !.expiry = ClaimTtl]]
    /\ UNCHANGED <<batches, heads, members>>

\* Faulty: a confirmed batch gets no expiry, so nothing reclaims it.
ConfirmDispatchForever(b, t, left) ==
    /\ batches[b].status \notin {"unused", "pruned"}
    /\ outbox[b].token = t
    /\ outbox' = [outbox EXCEPT ![b] = [NoEntry EXCEPT !.status = "dispatched"]]
    /\ batches' = [batches EXCEPT ![b].status = "queued"]
    /\ UNCHANGED <<heads, members>>

\* The status becomes queued whatever it was: only the claim is checked.  The
\* caller read its clock before it claimed, so less than the whole time is left.
ConfirmDispatch(b, t, left) ==
    /\ batches[b].status \notin {"unused", "pruned"}
    /\ outbox[b].token = t
    /\ outbox' = [outbox EXCEPT ![b] = [NoEntry EXCEPT !.status = "dispatched"]]
    /\ batches' = [batches EXCEPT ![b] = [@ EXCEPT !.status = "queued",
                                                    !.expiry = left]]
    /\ UNCHANGED <<heads, members>>

AbortDispatch(b, t, delay) ==
    /\ outbox[b].token = t
    /\ outbox' = [outbox EXCEPT ![b] = PendingEntry(delay)]
    /\ UNCHANGED <<batches, heads, members>>

DeferBatchExecution(b, delay) ==
    /\ batches[b].status = "queued"
    /\ batches' = [batches EXCEPT ![b] = [@ EXCEPT !.status = "retry_wait",
                                                    !.expiry = None]]
    /\ outbox' = [outbox EXCEPT ![b] = PendingEntry(delay)]
    /\ UNCHANGED <<heads, members>>

\* The operator clears the backoff and any claim of a queued batch.
RequeueStalledBatch(b) ==
    /\ batches[b].status \in Queued
    /\ batches' = [batches EXCEPT ![b] = Unleased(@, "retry_wait")]
    /\ outbox' = [outbox EXCEPT ![b] = PendingEntry(0)]
    /\ UNCHANGED <<heads, members>>

-----------------------------------------------------------------------------
(* Execution leases. *)

LiveRuns == {b \in Batches : batches[b].status = "running" /\ Live(batches[b].expiry)}
\* Faulty: the workspace limit is checked against queued batches.
RoomUncounted(b) ==
    /\ Cardinality(LiveRuns) < GlobalLimit
    /\ Cardinality({c \in Batches : batches[c].status = "queued" /\ c # b}) < WorkspaceLimit

Room(b) ==
    /\ Cardinality(LiveRuns) < GlobalLimit
    /\ Cardinality({c \in LiveRuns : WorkspaceOf[batches[c].stream]
                                     = WorkspaceOf[batches[b].stream]}) < WorkspaceLimit

Leasing(r, owner, t, left) ==
    [r EXCEPT !.status = "running", !.attempt = r.attempt + 1, !.token = t,
              !.owner = owner, !.expiry = left]

StartBatchExecution(b, owner, t, left) ==
    /\ batches[b].status = "queued"
    /\ ~ (batches[b].token # None /\ Live(batches[b].expiry))
    /\ Room(b)
    /\ batches' = [batches EXCEPT ![b] = Leasing(@, owner, t, left)]
    /\ UNCHANGED <<outbox, heads, members>>

Leased(b, t) == /\ batches[b].status = "running"
                /\ batches[b].token = t
                /\ Live(batches[b].expiry)

RenewBatchLease(b, t) ==
    /\ Leased(b, t)
    /\ batches' = [batches EXCEPT ![b].expiry = LeaseTtl]
    /\ UNCHANGED <<outbox, heads, members>>

CompleteBatch(b, t, outcome) ==
    /\ Leased(b, t)
    /\ batches' = [batches EXCEPT ![b] = Unleased(@, outcome)]
    /\ outbox' = [outbox EXCEPT ![b] = NoEntry]
    /\ MoveMembers({b}, MemberStatus, outcome)
    /\ ReleaseStreams({b})

\* Out of attempts: recovered once, then skipped (its outbox row stays).
\* Otherwise it waits for its next attempt.
FailBatch(b, t, dead, delay) ==
    /\ Leased(b, t)
    /\ \/ /\ dead \/ batches[b].attempt >= MaxAttempts
          /\ batches[b].recovery = 0
          /\ batches' = [batches EXCEPT ![b] = Rearmed(@)]
          /\ outbox' = [outbox EXCEPT ![b] = PendingEntry(0)]
          /\ UNCHANGED <<heads, members>>
       \/ /\ dead \/ batches[b].attempt >= MaxAttempts
          /\ batches[b].recovery # 0
          /\ batches' = [batches EXCEPT ![b] = Unleased(@, "skipped")]
          /\ MoveMembers({b}, MemberStatus, "skipped")
          /\ ReleaseStreams({b})
          /\ UNCHANGED outbox
       \/ /\ ~ (dead \/ batches[b].attempt >= MaxAttempts)
          /\ batches' = [batches EXCEPT ![b] = Unleased(@, "retry_wait")]
          /\ outbox' = [outbox EXCEPT ![b] = PendingEntry(delay)]
          /\ UNCHANGED <<heads, members>>

\* reclaimLeaseBatch for every batch of B.  Only an interrupted execution
\* spends an attempt: a batch that was merely queued goes back to waiting.
Exhausted(r) == r.status = "running" /\ r.attempt >= MaxAttempts
Reclaim(B) ==
    LET lost == {b \in B : Exhausted(batches[b]) /\ batches[b].recovery # 0}
    IN  /\ batches' = [b \in Batches |->
              IF b \in lost THEN Unleased(batches[b], "skipped")
              ELSE IF b \in B /\ Exhausted(batches[b]) THEN Rearmed(batches[b])
              ELSE IF b \in B THEN Unleased(batches[b], "retry_wait")
              ELSE batches[b]]
        /\ outbox' = [b \in Batches |-> IF b \in B \ lost THEN PendingEntry(0)
                                        ELSE outbox[b]]
        /\ MoveMembers(lost, MemberStatus, "skipped")
        /\ ReleaseStreams(lost)

ReclaimExpiredBatchLeases(B) ==
    /\ B # {}
    /\ \A b \in B : /\ batches[b].status \in {"running", "queued"}
                    /\ batches[b].expiry = 0
                    /\ batches[b].token # None \/ batches[b].status = "queued"
    /\ Reclaim(B)

ReclaimBatchesByOwner(owner) ==
    Reclaim({b \in Batches : batches[b].status = "running" /\ batches[b].owner = owner})

-----------------------------------------------------------------------------
(* Recovery, timeouts, cancellation, retention. *)

\* One dead batch of every stream that is free or that it occupies.
RecoverDeadBatches(B) ==
    LET dead == {b \in Batches : /\ batches[b].status = "dead"
                                 /\ heads[batches[b].stream].active \in {None, b}}
    IN  /\ B \subseteq dead
        /\ \A b \in dead : \E c \in B : batches[c].stream = batches[b].stream
        /\ \A b, c \in B : batches[c].stream = batches[b].stream => b = c
        /\ batches' = [b \in Batches |-> IF b \in B THEN Rearmed(batches[b])
                                         ELSE batches[b]]
        /\ outbox' = [b \in Batches |-> IF b \in B THEN PendingEntry(0) ELSE outbox[b]]
        /\ MoveMembers(B, {"dead"}, "batched")
        /\ heads' = [s \in Streams |->
                       IF \E b \in B : batches[b].stream = s
                       THEN [heads[s] EXCEPT !.active =
                               CHOOSE b \in B : batches[b].stream = s]
                       ELSE heads[s]]

\* Faulty: the stream of the batch may be busy with another one.
RequeueForRecoveryBusy(b) ==
    /\ batches[b].status \in {"dead", "skipped"}
    /\ batches' = [batches EXCEPT ![b] = [Rearmed(@) EXCEPT !.age = 0]]
    /\ outbox' = [outbox EXCEPT ![b] = PendingEntry(0)]
    /\ MoveMembers({b}, {"dead", "skipped"}, "batched")
    /\ heads' = [heads EXCEPT ![batches[b].stream].active = IF @ = None THEN b ELSE @]

\* Faulty: only dead members are batched again.
RequeueForRecoveryDeadOnly(b) ==
    /\ batches[b].status \in {"dead", "skipped"}
    /\ heads[batches[b].stream].active \in {None, b}
    /\ batches' = [batches EXCEPT ![b] = [Rearmed(@) EXCEPT !.age = 0]]
    /\ outbox' = [outbox EXCEPT ![b] = PendingEntry(0)]
    /\ MoveMembers({b}, {"dead"}, "batched")
    /\ ClaimStream(b)

\* Faulty: a completed batch may be re-armed, too.
RequeueForRecoveryAny(b) ==
    /\ batches[b].status \in Terminal
    /\ heads[batches[b].stream].active \in {None, b}
    /\ batches' = [batches EXCEPT ![b] = [Rearmed(@) EXCEPT !.age = 0]]
    /\ outbox' = [outbox EXCEPT ![b] = PendingEntry(0)]
    /\ MoveMembers({b}, Terminal, "batched")
    /\ ClaimStream(b)

RequeueBatchForRecovery(b) ==
    /\ batches[b].status \in {"dead", "skipped"}
    /\ heads[batches[b].stream].active \in {None, b}
    /\ batches' = [batches EXCEPT ![b] = [Rearmed(@) EXCEPT !.age = 0]]
    /\ outbox' = [outbox EXCEPT ![b] = PendingEntry(0)]
    /\ MoveMembers({b}, {"dead", "skipped"}, "batched")
    /\ ClaimStream(b)

TimeoutStaleBatches ==
    TerminalSkip({b \in Batches : batches[b].status \in Queued /\ Stale(batches[b].age)})

\* The filter (ids, statuses, scope, age, lease) selects any unfinished batches.
\* The commits of a dead batch stay dead: only batched ones are skipped.
CancelQueuedBatches(B) ==
    /\ B # {}
    /\ \A b \in B : Open(b) \/ batches[b].status = "dead"
    /\ TerminalSkip(B)

PruneBatchHistory(B) ==
    /\ B # {}
    /\ \A b \in B : /\ batches[b].status \in Terminal
                    /\ heads[batches[b].stream].active # b
    /\ batches' = [b \in Batches |-> IF b \in B
                                     THEN [NoBatch EXCEPT !.status = "pruned"]
                                     ELSE batches[b]]
    /\ outbox' = [b \in Batches |-> IF b \in B THEN NoEntry ELSE outbox[b]]
    /\ UNCHANGED <<heads, members>>

-----------------------------------------------------------------------------
(* Time: what is left shrinks, what waits ages. *)

Sooner(expiry) == IF Live(expiry) THEN expiry - 1 ELSE expiry
Older(age) == IF age = MaxAge THEN age ELSE age + 1

Tick ==
    /\ batches' = [b \in Batches |-> [batches[b] EXCEPT
                     !.expiry = Sooner(@), !.age = IF Open(b) \/ batches[b].status = "dead"
                                                   THEN Older(@) ELSE @]]
    /\ outbox' = [b \in Batches |-> [outbox[b] EXCEPT
                     !.delay = Sooner(@), !.expiry = Sooner(@)]]
    /\ heads' = [s \in Streams |-> [heads[s] EXCEPT !.expiry = Sooner(@)]]
    /\ members' = [m \in Members |-> [members[m] EXCEPT
                     !.age = IF members[m].status = "pending" THEN Older(@) ELSE @]]

-----------------------------------------------------------------------------
MemberNext ==
    \/ \E m \in Members : InsertMember(m) \/ ConflictMember(m)
    \/ \E m \in Members, status \in {"skipped", "failed"} : ApplyExclusionVerdict(m, status)
    \/ TimeoutStaleQueue

SealNext ==
    \/ \E s \in Streams, t \in Tokens \ HeldTokens : AcquireReservation(s, t)
    \/ \E s \in Streams, t \in Tokens : RenewReservation(s, t) \/ ReleaseReservation(s, t)
    \/ \E s \in Streams, b \in Batches, t \in Tokens, M \in SUBSET Members :
          SealBatch(s, b, M, t)

DispatchNext ==
    \/ \E b \in Batches, t \in Tokens \ HeldTokens : ClaimDispatch(b, t)
    \/ \E b \in Batches, t \in Tokens, left \in 0..ClaimTtl : ConfirmDispatch(b, t, left)
    \/ \E b \in Batches, t \in Tokens, delay \in 0..MaxDelay : AbortDispatch(b, t, delay)
    \/ \E b \in Batches, delay \in 0..MaxDelay : DeferBatchExecution(b, delay)
    \/ \E b \in Batches : RequeueStalledBatch(b)

ExecuteNext ==
    \/ \E b \in Batches, owner \in Owners, t \in Tokens \ HeldTokens, left \in 0..LeaseTtl :
          StartBatchExecution(b, owner, t, left)
    \/ \E b \in Batches, t \in Tokens : RenewBatchLease(b, t)
    \/ \E b \in Batches, t \in Tokens, outcome \in {"completed", "skipped"} :
          CompleteBatch(b, t, outcome)
    \/ \E b \in Batches, t \in Tokens, dead \in BOOLEAN, delay \in 0..MaxDelay :
          FailBatch(b, t, dead, delay)
    \/ \E B \in SUBSET Batches : ReclaimExpiredBatchLeases(B)
    \/ \E owner \in Owners : ReclaimBatchesByOwner(owner)

SweepNext ==
    \/ \E B \in SUBSET Batches :
          RecoverDeadBatches(B) \/ CancelQueuedBatches(B) \/ PruneBatchHistory(B)
    \/ TimeoutStaleBatches

RetryNext == \E b \in Batches : RequeueBatchForRecovery(b)

OperateNext == SweepNext \/ RetryNext

Next == MemberNext \/ SealNext \/ DispatchNext \/ ExecuteNext \/ OperateNext \/ Tick

Spec == Init /\ [][Next]_vars

-----------------------------------------------------------------------------
(* Properties. *)

TypeOK ==
    /\ batches \in [Batches -> Batch]
    /\ outbox \in [Batches -> Entry]
    /\ heads \in [Streams -> Head]
    /\ members \in [Members -> Member]

\* An open batch occupies its stream and a stream is occupied by an unfinished
\* batch of its own, so two batches of one stream are never open together: the
\* reviews of a stream run one after the other, whatever seals, settles,
\* reclaims, cancels, times out or re-arms them.
OneOpenBatchPerStream ==
    /\ \A b \in Batches :
          /\ batches[b].status \notin {"unused", "pruned"} => batches[b].stream # None
          /\ Open(b) => heads[batches[b].stream].active = b
    /\ \A s \in Streams : heads[s].active # None =>
          LET r == batches[heads[s].active]
          IN  r.stream = s /\ (Open(heads[s].active) \/ r.status = "dead")

\* The outbox offers a batch for dispatch exactly while it waits for one: a
\* pending row left behind would let confirmDispatch resurrect a settled or a
\* running batch, a missing one would lose the batch.
OutboxOffersWaiting ==
    \A b \in Batches :
       /\ outbox[b].status = "pending"
             <=> batches[b].status \in {"dispatch_pending", "retry_wait"}
       /\ outbox[b].token # None => outbox[b].status = "pending"

\* Every open batch that nobody will dispatch has a lease that will expire and
\* be reclaimed, and only a running batch has a holder: a crash of its holder
\* at any step cannot strand the batch.
LeaseCoversUndispatched ==
    \A b \in Batches :
       /\ batches[b].status \in {"queued", "running"} <=> batches[b].expiry # None
       /\ batches[b].status = "running" <=> batches[b].token # None
       /\ batches[b].token # None <=> batches[b].owner # None

\* A batch and the commits it reviews agree: commits are batched while their
\* batch is open, share its outcome once it settles (those of a legacy dead
\* batch that is cancelled stay dead), and every batch has some.
MembersFollowBatch ==
    /\ \A m \in Members :
          /\ members[m].status \in {"absent", "pending", "failed"} => members[m].batch = None
          /\ members[m].status \in {"batched", "completed", "dead"} => members[m].batch # None
          /\ members[m].batch # None =>
                LET b == members[m].batch
                IN  /\ batches[b].status # "unused"
                    /\ batches[b].stream \in {StreamOf[m], None}
                    /\ Open(b) => members[m].status = "batched"
                    /\ batches[b].status \in Terminal =>
                          members[m].status \in {batches[b].status}
                             \cup (IF batches[b].status = "skipped" THEN {"dead"} ELSE {})
                    /\ members[m].status = "batched" => Open(b)
    /\ \A b \in Batches : batches[b].status \notin {"unused", "pruned"} => MembersOf(b) # {}

\* Attempts never exceed the budget (the single recovery starts at one, so a
\* budget of one still allows it its run), and a batch that waits for its next
\* attempt always has one left to spend.
AttemptsWithinBudget ==
    \A b \in Batches :
       LET r == batches[b]
           limit == IF r.recovery = 1 /\ MaxAttempts = 1 THEN 2 ELSE MaxAttempts
       IN  /\ r.attempt <= limit
           /\ r.status \in Queued => r.attempt < limit

\* Unexpired leases never exceed the limits given to startBatchExecution,
\* globally and in a workspace, although it counts them only when it starts.
LeasesWithinLimits ==
    /\ Cardinality(LiveRuns) <= GlobalLimit
    /\ \A s \in Streams :
          Cardinality({b \in LiveRuns : WorkspaceOf[batches[b].stream] = WorkspaceOf[s]})
             <= WorkspaceLimit

\* A sealed commit is never regrouped: it stays with its batch through every
\* reclaim, retry, recovery and cancellation, even after the row is pruned.
NeverRegrouped ==
    [][\A m \in Members : members[m].batch # None
                           => members'[m].batch = members[m].batch]_vars

\* A completed batch is final, and a skipped or dead one opens again only as a
\* re-armed batch that takes its free stream and all its commits back: no late
\* confirm, settle or requeue of a stale caller resurrects settled work.
SettledStaysSettled ==
    [][\A b \in Batches :
          /\ batches[b].status = "completed"
                => batches'[b].status \in {"completed", "pruned"}
          /\ batches[b].status \in {"skipped", "dead"}
                /\ batches'[b].status \notin Terminal \cup {"pruned"}
                => /\ batches'[b].status = "retry_wait" /\ batches'[b].recovery = 1
                   /\ heads[batches[b].stream].active \in {None, b}
                   /\ heads'[batches[b].stream].active = b
                   /\ \A m \in MembersOf(b) : members'[m].status = "batched"]_vars

=============================================================================
