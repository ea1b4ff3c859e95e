---------------------------- MODULE CommitReceipts ----------------------------
(***************************************************************************)
(* The intake side of the auto-commit store, for one stream                *)
(* (packages/core/src/sqlite-auto-commit-store.ts): deliveries become      *)
(* receipts, receipts are expanded into commits, and commits are sealed    *)
(* into the batch that AutoCommitStore takes from there.                   *)
(*                                                                         *)
(* Receipts are numbered by their sequence, commits by their order key, so *)
(* a delivery covers an interval of commits and consecutive commits have   *)
(* consecutive numbers.  What never changes of the history, the deliveries *)
(* and the configuration is a world, chosen at the start.  Every operator  *)
(* is one transaction; the version of the stream head only lets a write be *)
(* refused after another write, which CommitPreparation leaves to chance.  *)
(***************************************************************************)
EXTENDS Integers, Sequences, FiniteSets, FiniteSetsExt

CONSTANTS Preparers,   \* the schedulers that may share a store
          Worlds, MaxTime, None

\* covers, delay, pin: of every receipt; author: of every commit; merges, rewrites: the
\* commits with two parents, the receipts of a force push; excluded, blind: what a
\* version of the policy excludes, and where it needs evidence that the history does not
\* give; window: the instants at which reviews may be prepared; start: the first instant
\* of all; preparers: those that run.
World == [kind : {"git", "linear"},
          covers : Seq(SUBSET Nat), delay : Seq(Nat), pin : Seq(Nat), author : Seq(Nat),
          merges : SUBSET Nat, rewrites : SUBSET Nat,
          excluded : Seq(SUBSET Nat), blind : Seq(SUBSET Nat),
          window : SUBSET (0..MaxTime), start : 0..MaxTime, preparers : SUBSET Preparers]

Interval(S) == S # {} /\ S = Min(S)..Max(S)

ASSUME ReceiptAssumption ==
    /\ MaxTime \in Nat /\ None \notin Nat
    /\ \A w \in Worlds :
          /\ w \in World /\ MaxTime \in w.window
          /\ DOMAIN w.delay = DOMAIN w.covers /\ DOMAIN w.pin = DOMAIN w.covers
          /\ DOMAIN w.blind = DOMAIN w.excluded
          /\ \A r \in DOMAIN w.covers : Interval(w.covers[r]) /\ w.covers[r] \subseteq DOMAIN w.author

VARIABLES world, now,
          policy,    \* the current version of the exclusion policy
          receipts,  \* auto_commit_receipts
          commits,   \* auto_commit_members
          of,        \* auto_commit_receipt_members: receipt -> its commits
          stream     \* the row of the stream in auto_commit_stream_heads

Receipts == DOMAIN world.covers
Commits == DOMAIN world.author
Policies == DOMAIN world.excluded

receiptVars == <<world, now, policy, receipts, commits, of, stream>>

NoReceipt == [at |-> None, next |-> None, attempts |-> 0, dead |-> FALSE, page |-> 0]
NoCommit == [status |-> "absent", cover |-> 0, eligible |-> 0, verdict |-> "undecided", policy |-> 0]

ReceiptInit ==
    /\ world \in Worlds /\ now = world.start /\ policy = 1
    /\ receipts = [r \in Receipts |-> NoReceipt]
    /\ commits = [c \in Commits |-> NoCommit]
    /\ of = [r \in Receipts |-> {}]
    /\ stream = [cursor |-> 0, cut |-> None, cutAt |-> None, resume |-> None,
                 active |-> {}, by |-> None, live |-> FALSE]

Accepted == {r \in Receipts : receipts[r].at # None}
Latest == Max({0} \cup Accepted)
Soon(t) == IF t < MaxTime THEN t + 1 ELSE MaxTime
Eligibility(r) == Min({receipts[r].at + world.delay[r], MaxTime})
Pending == {c \in Commits : commits[c].status = "pending"}
OrZero(t) == IF t = None THEN 0 ELSE t

-----------------------------------------------------------------------------
\* Faulty: a commit that waits for its delay does not wake its stream.
WakesOfReceipts ==
    {Max({Eligibility(r), OrZero(receipts[r].next)}) :
        r \in {s \in Accepted : s > stream.cursor /\ ~receipts[s].dead}}

\* recomputeStreamNotBefore, which ends every transaction that changes one of its
\* terms: the earliest reason to look at the stream, never before the resume floor.
Wakes ==
    {Max({Eligibility(r), OrZero(receipts[r].next)}) :
        r \in {s \in Accepted : s > stream.cursor /\ ~receipts[s].dead}}
    \cup {commits[c].eligible : c \in Pending}

Due == Wakes # {} /\ Max({Min(Wakes), OrZero(stream.resume)}) <= now

\* acceptReceipt; a repeated delivery key changes nothing and is not a step.
AcceptReceipt(r) ==
    /\ receipts[r].at = None /\ \A s \in 1..(r - 1) : s \in Accepted
    /\ receipts' = [receipts EXCEPT ![r].at = now]
    /\ UNCHANGED <<world, now, policy, commits, of, stream>>

\* applyMetadataPage: the earliest receipt that covers a pending commit owns it.
PageApplied(r, page) ==
    [c \in Commits |->
        IF c \notin page THEN commits[c]
        ELSE IF commits[c].status = "absent"
        THEN [NoCommit EXCEPT !.status = "pending", !.cover = r, !.eligible = Eligibility(r)]
        ELSE IF commits[c].status = "pending" /\ r < commits[c].cover
        THEN [commits[c] EXCEPT !.cover = r, !.eligible = Eligibility(r)]
        ELSE commits[c]]

ApplyMetadataPage(r, page) ==
    /\ commits' = PageApplied(r, page)
    /\ of' = [of EXCEPT ![r] = @ \cup page]
    /\ UNCHANGED <<world, now, policy, receipts, stream>>

\* applyExclusionVerdicts with the verdicts of decideMembers.
Verdict(c, version) ==
    IF c \in world.excluded[version] THEN "excluded"
    ELSE IF c \in world.blind[version] THEN "undecided" ELSE "allowed"

DecideMembers(set, version) ==
    /\ commits' = [c \in Commits |->
          IF c \notin set \cap Pending THEN commits[c]
          ELSE [commits[c] EXCEPT !.verdict = Verdict(c, version), !.policy = version,
                                  !.status = IF Verdict(c, version) = "excluded" THEN "skipped" ELSE @]]
    /\ UNCHANGED <<world, now, policy, receipts, of, stream>>

\* failReceiptMembers: every pending commit of the receipt.
FailMembers(r) ==
    /\ commits' = [c \in Commits |-> IF c \in of[r] \cap Pending
                                     THEN [commits[c] EXCEPT !.status = "failed"] ELSE commits[c]]
    /\ UNCHANGED <<world, now, policy, receipts, of, stream>>

\* setReceiptMetadataCursor
SetCursor(r, page) ==
    /\ receipts' = [receipts EXCEPT ![r].page = page, ![r].next = None]
    /\ UNCHANGED <<world, now, policy, commits, of, stream>>

\* recordReceiptMetadataFailure: next is None for the last failure.
RecordFailure(r, next) ==
    receipts' = [receipts EXCEPT ![r].attempts = @ + 1, ![r].next = next, ![r].dead = (next = None)]

-----------------------------------------------------------------------------
\* acquireStreamReservation, releaseStreamReservation
MayReserve == stream.active = {} /\ ~(stream.by # None /\ stream.live)
Reserved(p) == [stream EXCEPT !.by = p, !.live = TRUE]
Released(p) == IF stream.by = p THEN [stream EXCEPT !.by = None, !.live = FALSE] ELSE stream

\* sealBatch
Sealable(p, batch) ==
    /\ stream.by = p /\ stream.live /\ stream.active = {}
    /\ batch # {} /\ batch \subseteq Pending /\ \A c \in batch : commits[c].eligible <= now

Seal(p, batch) ==
    /\ commits' = [c \in Commits |-> IF c \in batch THEN [commits[c] EXCEPT !.status = "batched"] ELSE commits[c]]
    /\ stream' = [Released(p) EXCEPT !.active = batch]
    /\ UNCHANGED <<world, now, policy, receipts, of>>

\* The batch ends and leaves its stream (clearStreamActiveBatch).
Settle ==
    /\ stream.active # {}
    /\ \E outcome \in {"completed", "skipped"} :
          commits' = [c \in Commits |-> IF c \in stream.active
                                        THEN [commits[c] EXCEPT !.status = outcome] ELSE commits[c]]
    /\ stream' = [stream EXCEPT !.active = {}]
    /\ UNCHANGED <<world, now, policy, receipts, of>>
===============================================================================
