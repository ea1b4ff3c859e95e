------------------------ MODULE AutoCommitStoreProofs ------------------------
(* Proofs about AutoCommitStore, for every value of its constants: what is  *)
(* typed, what the batches, the outbox and the leases say of each other,    *)
(* what the ledger says of commits and limits, and how often automation    *)
(* executes a batch (AutoCommitBudget).                                     *)
EXTENDS AutoCommitBudget, FiniteSetTheorems, TLAPS

\* The initial states of the store, empty or with legacy dead batches, are
\* well typed.
LEMMA InitTypeOK == Init => TypeOK
<1> SUFFICES ASSUME NEW home \in [Batches -> Streams \cup {None}],
                    NEW owned \in [Members -> Batches \cup {None}],
                    NEW active \in [Streams -> Batches \cup {None}],
                    InitFrom(home, owned, active)
             PROVE  TypeOK
  BY DEF Init
<1>1. 0 \in Ages
  BY ConstantsAssumption DEF Ages
<1>2. batches \in [Batches -> Batch]
  BY ZenonT(40), <1>1, ConstantsAssumption
  DEF InitFrom, NoBatch, DeadBatch, Batch, BatchStatus, Queued, Terminal
<1>3. members \in [Members -> Member]
  BY <1>1 DEF InitFrom, NoMember, Member, MemberStatus
<1>4. heads \in [Streams -> Head]
  BY DEF InitFrom, FreeHead, Head
<1>5. outbox \in [Batches -> Entry]
  BY DEF InitFrom, NoEntry, Entry
<1> QED BY <1>2, <1>3, <1>4, <1>5 DEF TypeOK

-----------------------------------------------------------------------------
(* The rows the transactions write are well typed. *)

LEMMA RowTypes ==
    /\ 0 \in Ages
    /\ \A age \in Ages : Older(age) \in Ages
    /\ \A e \in Nat \cup {None} : Sooner(e) \in Nat \cup {None}
    /\ \A n \in Nat : Sooner(n) \in Nat
    /\ NoBatch \in Batch /\ NoEntry \in Entry /\ FreeHead \in Head
    /\ \A d \in Nat : PendingEntry(d) \in Entry
    /\ \A r \in Batch, st \in BatchStatus : Unleased(r, st) \in Batch
    /\ \A r \in Batch : Rearmed(r) \in Batch
<1>1. 0 \in Ages
  BY ConstantsAssumption DEF Ages
<1>2. \A age \in Ages : Older(age) \in Ages
  BY ConstantsAssumption DEF Ages, Older
<1>3. /\ \A e \in Nat \cup {None} : Sooner(e) \in Nat \cup {None}
      /\ \A n \in Nat : Sooner(n) \in Nat
  BY ConstantsAssumption DEF Sooner, Live
<1>4. NoBatch \in Batch /\ NoEntry \in Entry /\ FreeHead \in Head
  BY <1>1 DEF NoBatch, Batch, BatchStatus, NoEntry, Entry, FreeHead, Head
<1>5. \A d \in Nat : PendingEntry(d) \in Entry
  BY DEF PendingEntry, NoEntry, Entry
<1>6. \A r \in Batch, st \in BatchStatus : Unleased(r, st) \in Batch
  BY DEF Unleased, Batch
<1>7. \A r \in Batch : Rearmed(r) \in Batch
  <2> SUFFICES ASSUME NEW r \in Batch PROVE Rearmed(r) \in Batch
    OBVIOUS
  <2>1. Unleased(r, "retry_wait") \in Batch
    BY <1>6 DEF BatchStatus, Queued
  <2> QED BY <2>1 DEF Rearmed, Batch
<1> QED BY <1>1, <1>2, <1>3, <1>4, <1>5, <1>6, <1>7

\* Moving members of a set of batches keeps the member table well typed.
LEMMA MoveMembersType ==
    ASSUME TypeOK, NEW B, NEW From, NEW to \in MemberStatus, MoveMembers(B, From, to)
    PROVE  members' \in [Members -> Member]
<1>1. ASSUME NEW m \in Members PROVE [members[m] EXCEPT !.status = to] \in Member
  BY DEF TypeOK, Member
<1> QED BY <1>1 DEF TypeOK, MoveMembers

LEMMA ReleaseStreamsType ==
    ASSUME TypeOK, NEW B, ReleaseStreams(B)
    PROVE  heads' \in [Streams -> Head]
<1>1. ASSUME NEW s \in Streams PROVE [heads[s] EXCEPT !.active = None] \in Head
  BY DEF TypeOK, Head
<1> QED BY <1>1 DEF TypeOK, ReleaseStreams

LEMMA TerminalSkipType ==
    ASSUME TypeOK, NEW B, TerminalSkip(B)
    PROVE  TypeOK'
<1>1. batches' \in [Batches -> Batch]
  BY RowTypes DEF TypeOK, TerminalSkip, BatchStatus, Terminal
<1>2. outbox' \in [Batches -> Entry]
  BY RowTypes DEF TypeOK, TerminalSkip
<1>3. members' \in [Members -> Member]
  BY MoveMembersType DEF TerminalSkip, MemberStatus
<1>4. heads' \in [Streams -> Head]
  BY ReleaseStreamsType DEF TerminalSkip
<1> QED BY <1>1, <1>2, <1>3, <1>4 DEF TypeOK

LEMMA ReclaimType ==
    ASSUME TypeOK, NEW B, Reclaim(B)
    PROVE  TypeOK'
<1> DEFINE lost == {b \in B : Exhausted(batches[b]) /\ batches[b].recovery # 0}
<1>1. batches' \in [Batches -> Batch]
  BY RowTypes DEF TypeOK, Reclaim, BatchStatus, Terminal, Queued
<1>2. outbox' \in [Batches -> Entry]
  <2>1. outbox' = [b \in Batches |-> IF b \in B \ lost THEN PendingEntry(0) ELSE outbox[b]]
    BY DEF Reclaim
  <2>2. PendingEntry(0) \in Entry
    BY RowTypes
  <2> QED BY <2>1, <2>2 DEF TypeOK
<1>3. MoveMembers(lost, MemberStatus, "skipped") /\ ReleaseStreams(lost)
  BY DEF Reclaim
<1>4. members' \in [Members -> Member]
  BY <1>3, MoveMembersType DEF MemberStatus
<1>5. heads' \in [Streams -> Head]
  BY <1>3, ReleaseStreamsType
<1> QED BY <1>1, <1>2, <1>4, <1>5 DEF TypeOK

-----------------------------------------------------------------------------
(* Every step keeps the store well typed, group by group as Next lists them. *)

LEMMA MemberTypeOK == TypeOK /\ MemberNext => TypeOK'
<1> SUFFICES ASSUME TypeOK, MemberNext PROVE TypeOK'
  OBVIOUS
<1>1. ASSUME NEW m \in Members, InsertMember(m) \/ ConflictMember(m) PROVE TypeOK'
  <2>1. /\ [members[m] EXCEPT !.status = "pending"] \in Member
        /\ [members[m] EXCEPT !.conflicted = TRUE] \in Member
    BY DEF TypeOK, Member, MemberStatus
  <2>2. members' \in [Members -> Member]
    BY <1>1, <2>1 DEF TypeOK, InsertMember, ConflictMember
  <2> QED BY <1>1, <2>2 DEF TypeOK, InsertMember, ConflictMember
<1>2. ASSUME NEW m \in Members, NEW status \in {"skipped", "failed"},
             ApplyExclusionVerdict(m, status)
      PROVE  TypeOK'
  BY ZenonT(40), <1>2, RowTypes DEF TypeOK, ApplyExclusionVerdict, Member, MemberStatus
<1>3. CASE TimeoutStaleQueue
  BY <1>3, RowTypes DEF TypeOK, TimeoutStaleQueue, Member, MemberStatus
<1> QED BY <1>1, <1>2, <1>3 DEF MemberNext

LEMMA SealTypeOK == TypeOK /\ SealNext => TypeOK'
<1> SUFFICES ASSUME TypeOK, SealNext PROVE TypeOK'
  OBVIOUS
<1>1. ASSUME NEW s \in Streams, NEW t \in Tokens,
             AcquireReservation(s, t) \/ RenewReservation(s, t) \/ ReleaseReservation(s, t)
      PROVE  TypeOK'
  BY <1>1, ConstantsAssumption
  DEF TypeOK, AcquireReservation, RenewReservation, ReleaseReservation, Head
<1>2. ASSUME NEW s \in Streams, NEW b \in Batches, NEW t \in Tokens,
             NEW M \in SUBSET Members, SealBatch(s, b, M, t)
      PROVE  TypeOK'
  <2>1. batches' \in [Batches -> Batch]
    <3>1. PICK oldest \in M : batches' = [batches EXCEPT ![b] = [NoBatch EXCEPT
                     !.status = "dispatch_pending", !.stream = s,
                     !.age = members[oldest].age]]
      BY <1>2 DEF SealBatch
    <3>2. members[oldest].age \in Ages
      BY DEF TypeOK, Member
    <3>3. [NoBatch EXCEPT !.status = "dispatch_pending", !.stream = s,
                          !.age = members[oldest].age] \in Batch
      BY <3>2, RowTypes DEF Batch, BatchStatus, Queued
    <3> QED BY <3>1, <3>3 DEF TypeOK
  <2>2. outbox' \in [Batches -> Entry]
    BY <1>2, RowTypes DEF TypeOK, SealBatch
  <2>3. members' \in [Members -> Member]
    <3>1. ASSUME NEW m \in Members
          PROVE [members[m] EXCEPT !.status = "batched", !.batch = b, !.age = 0] \in Member
      BY RowTypes DEF TypeOK, Member, MemberStatus
    <3> QED BY <1>2, <3>1 DEF TypeOK, SealBatch
  <2>4. heads' \in [Streams -> Head]
    <3>1. [FreeHead EXCEPT !.active = b] \in Head
      BY DEF FreeHead, Head
    <3> QED BY <1>2, <3>1 DEF TypeOK, SealBatch
  <2> QED BY <2>1, <2>2, <2>3, <2>4 DEF TypeOK
<1> QED BY <1>1, <1>2 DEF SealNext

LEMMA DispatchTypeOK == TypeOK /\ DispatchNext => TypeOK'
<1> SUFFICES ASSUME TypeOK, DispatchNext PROVE TypeOK'
  OBVIOUS
<1>1. ASSUME NEW b \in Batches, NEW t \in Tokens, ClaimDispatch(b, t) PROVE TypeOK'
  BY ZenonT(40), <1>1, ConstantsAssumption DEF TypeOK, ClaimDispatch, Entry
<1>2. ASSUME NEW b \in Batches, NEW t \in Tokens, NEW left \in 0..ClaimTtl,
             ConfirmDispatch(b, t, left)
      PROVE  TypeOK'
  <2>1. left \in Nat
    BY ConstantsAssumption
  <2>2. batches' \in [Batches -> Batch]
    <3>1. [batches[b] EXCEPT !.status = "queued", !.expiry = left] \in Batch
      BY ZenonT(40), <2>1 DEF TypeOK, Batch, BatchStatus, Queued
    <3> QED BY <1>2, <3>1 DEF TypeOK, ConfirmDispatch
  <2>3. outbox' \in [Batches -> Entry]
    BY <1>2, RowTypes DEF TypeOK, ConfirmDispatch, Entry, NoEntry
  <2> QED BY <1>2, <2>2, <2>3 DEF TypeOK, ConfirmDispatch
<1>3. ASSUME NEW b \in Batches, NEW t \in Tokens, NEW delay \in 0..MaxDelay,
             AbortDispatch(b, t, delay)
      PROVE  TypeOK'
  BY <1>3, RowTypes, ConstantsAssumption DEF TypeOK, AbortDispatch
<1>4. ASSUME NEW b \in Batches, NEW delay \in 0..MaxDelay, DeferBatchExecution(b, delay)
      PROVE  TypeOK'
  <2>1. PendingEntry(delay) \in Entry
    BY RowTypes, ConstantsAssumption
  <2>2. [batches[b] EXCEPT !.status = "retry_wait", !.expiry = None] \in Batch
    BY ZenonT(40) DEF TypeOK, Batch, BatchStatus, Queued
  <2>3. batches' \in [Batches -> Batch]
    BY <1>4, <2>2 DEF TypeOK, DeferBatchExecution
  <2>4. outbox' \in [Batches -> Entry]
    BY <1>4, <2>1 DEF TypeOK, DeferBatchExecution
  <2> QED BY <1>4, <2>3, <2>4 DEF TypeOK, DeferBatchExecution
<1>5. ASSUME NEW b \in Batches, RequeueStalledBatch(b) PROVE TypeOK'
  BY <1>5, RowTypes DEF TypeOK, RequeueStalledBatch, BatchStatus, Queued
<1> QED BY <1>1, <1>2, <1>3, <1>4, <1>5 DEF DispatchNext

LEMMA ExecuteTypeOK == TypeOK /\ ExecuteNext => TypeOK'
<1> SUFFICES ASSUME TypeOK, ExecuteNext PROVE TypeOK'
  OBVIOUS
<1>1. ASSUME NEW b \in Batches, NEW owner \in Owners, NEW t \in Tokens,
             NEW left \in 0..LeaseTtl, StartBatchExecution(b, owner, t, left)
      PROVE  TypeOK'
  <2>1. left \in Nat
    BY ConstantsAssumption
  <2>2. batches[b] \in Batch /\ batches[b].attempt + 1 \in Nat
    BY DEF TypeOK, Batch
  <2>3. Leasing(batches[b], owner, t, left) \in Batch
    BY <2>1, <2>2 DEF Leasing, Batch, BatchStatus
  <2> QED BY <1>1, <2>3 DEF TypeOK, StartBatchExecution
<1>2. ASSUME NEW b \in Batches, NEW t \in Tokens, RenewBatchLease(b, t) PROVE TypeOK'
  BY <1>2, ConstantsAssumption DEF TypeOK, RenewBatchLease, Batch
<1>3. ASSUME NEW b \in Batches, NEW t \in Tokens, NEW outcome \in {"completed", "skipped"},
             CompleteBatch(b, t, outcome)
      PROVE  TypeOK'
  <2>1. batches' \in [Batches -> Batch] /\ outbox' \in [Batches -> Entry]
    BY <1>3, RowTypes DEF TypeOK, CompleteBatch, BatchStatus, Terminal
  <2>2. members' \in [Members -> Member]
    BY <1>3, MoveMembersType DEF CompleteBatch, MemberStatus
  <2>3. heads' \in [Streams -> Head]
    BY <1>3, ReleaseStreamsType DEF CompleteBatch
  <2> QED BY <2>1, <2>2, <2>3 DEF TypeOK
<1>4. ASSUME NEW b \in Batches, NEW t \in Tokens, NEW dead \in BOOLEAN,
             NEW delay \in 0..MaxDelay, FailBatch(b, t, dead, delay)
      PROVE  TypeOK'
  <2>1. PendingEntry(delay) \in Entry /\ PendingEntry(0) \in Entry
    BY RowTypes, ConstantsAssumption
  <2>2. batches' \in [Batches -> Batch] /\ outbox' \in [Batches -> Entry]
    BY <1>4, <2>1, RowTypes DEF TypeOK, FailBatch, BatchStatus, Terminal, Queued
  <2>3. members' \in [Members -> Member]
    BY <1>4, MoveMembersType DEF TypeOK, FailBatch, MemberStatus
  <2>4. heads' \in [Streams -> Head]
    BY <1>4, ReleaseStreamsType DEF TypeOK, FailBatch
  <2> QED BY <2>2, <2>3, <2>4 DEF TypeOK
<1>5. ASSUME NEW B, Reclaim(B) PROVE TypeOK'
  BY <1>5, ReclaimType
<1> QED
  BY <1>1, <1>2, <1>3, <1>4, <1>5
  DEF ExecuteNext, ReclaimExpiredBatchLeases, ReclaimBatchesByOwner

LEMMA OperateTypeOK == TypeOK /\ OperateNext => TypeOK'
<1> SUFFICES ASSUME TypeOK, OperateNext PROVE TypeOK'
  OBVIOUS
<1>1. ASSUME NEW B \in SUBSET Batches, RecoverDeadBatches(B) PROVE TypeOK'
  <2>1. batches' \in [Batches -> Batch] /\ outbox' \in [Batches -> Entry]
    BY <1>1, RowTypes DEF TypeOK, RecoverDeadBatches
  <2>2. members' \in [Members -> Member]
    BY <1>1, MoveMembersType DEF RecoverDeadBatches, MemberStatus
  <2>3. heads' \in [Streams -> Head]
    <3>1. ASSUME NEW s \in Streams, \E b \in B : batches[b].stream = s
          PROVE  [heads[s] EXCEPT !.active = CHOOSE b \in B : batches[b].stream = s] \in Head
      BY <3>1 DEF TypeOK, Head
    <3> QED BY <1>1, <3>1 DEF TypeOK, RecoverDeadBatches
  <2> QED BY <2>1, <2>2, <2>3 DEF TypeOK
<1>2. ASSUME NEW B, TerminalSkip(B) PROVE TypeOK'
  BY <1>2, TerminalSkipType
<1>3. ASSUME NEW B \in SUBSET Batches, PruneBatchHistory(B) PROVE TypeOK'
  <2>1. [NoBatch EXCEPT !.status = "pruned"] \in Batch
    BY RowTypes DEF Batch, BatchStatus
  <2> QED BY <1>3, <2>1, RowTypes DEF TypeOK, PruneBatchHistory
<1>4. ASSUME NEW b \in Batches, RequeueBatchForRecovery(b) PROVE TypeOK'
  <2>1. batches' \in [Batches -> Batch] /\ outbox' \in [Batches -> Entry]
    <3>1. [Rearmed(batches[b]) EXCEPT !.age = 0] \in Batch
      BY RowTypes DEF TypeOK, Batch
    <3> QED BY <1>4, <3>1, RowTypes DEF TypeOK, RequeueBatchForRecovery
  <2>2. members' \in [Members -> Member]
    BY <1>4, MoveMembersType DEF RequeueBatchForRecovery, MemberStatus
  <2>3. heads' \in [Streams -> Head]
    BY ZenonT(40), <1>4 DEF TypeOK, RequeueBatchForRecovery, ClaimStream, Head
  <2> QED BY <2>1, <2>2, <2>3 DEF TypeOK
<1> QED
  BY <1>1, <1>2, <1>3, <1>4
  DEF OperateNext, SweepNext, RetryNext, CancelQueuedBatches, TimeoutStaleBatches

LEMMA TickTypeOK == TypeOK /\ Tick => TypeOK'
<1> SUFFICES ASSUME TypeOK, Tick PROVE TypeOK'
  OBVIOUS
<1>1. batches' \in [Batches -> Batch]
  BY ZenonT(40), RowTypes DEF TypeOK, Tick, Batch
<1>2. outbox' \in [Batches -> Entry]
  BY RowTypes DEF TypeOK, Tick, Entry
<1>3. heads' \in [Streams -> Head]
  BY RowTypes DEF TypeOK, Tick, Head
<1>4. members' \in [Members -> Member]
  BY RowTypes DEF TypeOK, Tick, Member
<1> QED BY <1>1, <1>2, <1>3, <1>4 DEF TypeOK

\* The tables of the store are well typed in every state any sequence of store
\* calls can reach.
THEOREM TypeCorrect == Spec => []TypeOK
<1>1. TypeOK /\ [Next]_vars => TypeOK'
  <2> SUFFICES ASSUME TypeOK, [Next]_vars PROVE TypeOK'
    OBVIOUS
  <2>1. CASE UNCHANGED vars
    BY <2>1 DEF vars, TypeOK
  <2> QED
    BY <2>1, MemberTypeOK, SealTypeOK, DispatchTypeOK, ExecuteTypeOK, OperateTypeOK,
       TickTypeOK DEF Next
<1> QED BY <1>1, InitTypeOK, PTL DEF Spec

-----------------------------------------------------------------------------
(***************************************************************************)
(* The joint inductive invariant of the auto-commit store.  One batch per  *)
(* stream needs the outbox to be consistent, because confirmDispatch looks *)
(* at nothing but the claim of the outbox row; the outbox needs the leases *)
(* to be consistent, because a settle looks at nothing but the lease.      *)
(***************************************************************************)

\* What OutboxOffersWaiting and LeaseCoversUndispatched say of one batch row
\* and its outbox row.
RowOK(r, e) ==
    /\ e.status = "pending" <=> r.status \in {"dispatch_pending", "retry_wait"}
    /\ e.token # None => e.status = "pending"
    /\ r.status \in {"queued", "running"} <=> r.expiry # None
    /\ r.status = "running" <=> r.token # None
    /\ r.token # None <=> r.owner # None

RowsOK == \A b \in Batches : RowOK(batches[b], outbox[b])

IInv == TypeOK /\ OneOpenBatchPerStream /\ RowsOK

LEMMA NoneApart == None \notin Batches /\ None \notin Streams /\ None \notin Tokens
                   /\ None \notin Owners /\ None \notin Nat
BY ConstantsAssumption

LEMMA RowsOKMeaning == RowsOK <=> OutboxOffersWaiting /\ LeaseCoversUndispatched
BY DEF RowsOK, RowOK, OutboxOffersWaiting, LeaseCoversUndispatched

\* Which rows the transactions may put side by side.
LEMMA RowOKRules ==
    /\ RowOK(NoBatch, NoEntry)
    /\ \A r \in Batch, d \in Nat :
          /\ RowOK(Unleased(r, "retry_wait"), PendingEntry(d))
          /\ RowOK(Rearmed(r), PendingEntry(d))
    /\ \A r \in Batch, st \in Terminal : RowOK(Unleased(r, st), NoEntry)
    /\ \A r \in Batch, e \in Entry :
          RowOK(r, e) /\ r.status = "running" => RowOK(Unleased(r, "skipped"), e)
<1>1. RowOK(NoBatch, NoEntry)
  BY DEF RowOK, NoBatch, NoEntry
<1>2. ASSUME NEW r \in Batch, NEW d \in Nat
      PROVE  /\ RowOK(Unleased(r, "retry_wait"), PendingEntry(d))
             /\ RowOK(Rearmed(r), PendingEntry(d))
  BY DEF RowOK, Rearmed, Unleased, PendingEntry, NoEntry, Batch
<1>3. ASSUME NEW r \in Batch, NEW st \in Terminal PROVE RowOK(Unleased(r, st), NoEntry)
  BY DEF RowOK, Unleased, NoEntry, Batch, Terminal
<1>4. ASSUME NEW r \in Batch, NEW e \in Entry, RowOK(r, e), r.status = "running"
      PROVE  RowOK(Unleased(r, "skipped"), e)
  BY <1>4 DEF RowOK, Unleased, Batch
<1> QED BY <1>1, <1>2, <1>3, <1>4

\* The columns of a rewritten row that the slots depend on.
LEMMA RowColumns ==
    \A r \in Batch :
       /\ \A st : Unleased(r, st).stream = r.stream /\ Unleased(r, st).status = st
       /\ Rearmed(r).stream = r.stream /\ Rearmed(r).status = "retry_wait"
BY DEF Unleased, Rearmed, Batch

-----------------------------------------------------------------------------
(* The slot of a stream: three ways a transaction treats it. *)

Settled == {"completed", "skipped"}

\* Every batch keeps its stream and stays open, dead or settled, and no slot
\* changes hands.
LEMMA SlotKept ==
    ASSUME TypeOK, TypeOK', OneOpenBatchPerStream,
           \A b \in Batches :
              /\ batches'[b].stream = batches[b].stream
              /\ Open(b) <=> Open(b)'
              /\ batches[b].status = "dead" <=> batches'[b].status = "dead"
              /\ batches[b].status \in {"unused", "pruned"}
                    <=> batches'[b].status \in {"unused", "pruned"},
           \A s \in Streams : heads'[s].active = heads[s].active
    PROVE  OneOpenBatchPerStream'
<1>1. ASSUME NEW b \in Batches
      PROVE  /\ batches'[b].status \notin {"unused", "pruned"} => batches'[b].stream # None
             /\ Open(b)' => heads'[batches'[b].stream].active = b
  <2>1. batches[b].stream \in Streams \cup {None}
    BY DEF TypeOK, Batch
  <2>2. Open(b) => batches[b].status \notin {"unused", "pruned"}
    BY DEF Open, Queued
  <2> QED BY <2>1, <2>2 DEF OneOpenBatchPerStream
<1>2. ASSUME NEW s \in Streams, heads'[s].active # None
      PROVE  /\ batches'[heads'[s].active].stream = s
             /\ batches'[heads'[s].active].status \in Queued \cup {"running", "dead"}
  <2>1. heads[s].active \in Batches
    BY <1>2 DEF TypeOK, Head
  <2> QED BY <1>2, <2>1 DEF OneOpenBatchPerStream, Open
<1> QED BY <1>1, <1>2 DEF OneOpenBatchPerStream, Open

\* The batches of B settle and give their slots up; the others stay open, dead
\* or settled as they were.
LEMMA SlotReleased ==
    ASSUME TypeOK, TypeOK', OneOpenBatchPerStream, NEW B,
           \A b \in Batches \cap B :
              /\ batches'[b].status \in Settled
              /\ batches[b].status \notin {"unused", "pruned"},
           \A b \in Batches \ B :
              /\ Open(b) <=> Open(b)'
              /\ batches[b].status = "dead" <=> batches'[b].status = "dead"
              /\ batches[b].status \in {"unused", "pruned"}
                    <=> batches'[b].status \in {"unused", "pruned"},
           \A b \in Batches : batches'[b].stream = batches[b].stream,
           ReleaseStreams(B)
    PROVE  OneOpenBatchPerStream'
<1>1. ASSUME NEW b \in Batches
      PROVE  /\ batches'[b].status \notin {"unused", "pruned"} => batches'[b].stream # None
             /\ Open(b)' => heads'[batches'[b].stream].active = b
  <2>1. CASE b \in B
    BY <2>1 DEF OneOpenBatchPerStream, Open, Settled, Queued
  <2>2. CASE b \notin B
    <3>1. batches[b].stream \in Streams \cup {None}
      BY DEF TypeOK, Batch
    <3>2. Open(b) => batches[b].status \notin {"unused", "pruned"}
      BY DEF Open, Queued
    <3>3. ASSUME Open(b) PROVE heads'[batches[b].stream].active = b
      <4>1. batches[b].stream \in Streams /\ heads[batches[b].stream].active = b
        BY <3>1, <3>2, <3>3 DEF OneOpenBatchPerStream
      <4> QED BY <4>1, <2>2 DEF ReleaseStreams
    <3> QED BY <3>3, <2>2 DEF OneOpenBatchPerStream
  <2> QED BY <2>1, <2>2
<1>2. ASSUME NEW s \in Streams, heads'[s].active # None
      PROVE  /\ batches'[heads'[s].active].stream = s
             /\ batches'[heads'[s].active].status \in Queued \cup {"running", "dead"}
  <2>1. heads[s] \in Head
    BY DEF TypeOK
  <2>2. heads[s].active \notin B /\ heads'[s] = heads[s]
    BY <1>2, <2>1 DEF ReleaseStreams, Head
  <2>3. heads[s].active \in Batches \ B
    BY <1>2, <2>1, <2>2 DEF Head
  <2> QED BY <1>2, <2>2, <2>3 DEF OneOpenBatchPerStream, Open
<1> QED BY <1>1, <1>2 DEF OneOpenBatchPerStream, Open

\* Every batch of B opens in the free (or its own) slot of its stream.
LEMMA SlotTaken ==
    ASSUME TypeOK, TypeOK', OneOpenBatchPerStream, NEW B \in SUBSET Batches,
           \A b \in B :
              /\ ~Open(b) /\ batches'[b].status \in Queued
              /\ batches[b].status # "unused" => batches'[b].stream = batches[b].stream
              /\ batches'[b].stream \in Streams
              /\ heads[batches'[b].stream].active \in {None, b}
              /\ heads'[batches'[b].stream].active = b,
           \A b \in Batches \ B : batches'[b] = batches[b],
           \A s \in Streams : \/ heads'[s].active = heads[s].active
                              \/ heads'[s].active \in B
                                 /\ batches'[heads'[s].active].stream = s
    PROVE  OneOpenBatchPerStream'
<1>1. ASSUME NEW b \in Batches
      PROVE  /\ batches'[b].status \notin {"unused", "pruned"} => batches'[b].stream # None
             /\ Open(b)' => heads'[batches'[b].stream].active = b
  <2>1. CASE b \in B
    BY <2>1, ConstantsAssumption
  <2>2. CASE b \notin B
    <3>1. batches'[b] = batches[b] /\ (Open(b)' <=> Open(b))
      BY <2>2 DEF Open
    <3>2. ASSUME Open(b) PROVE heads'[batches[b].stream].active = b
      <4>1. batches[b].stream \in Streams
        BY <3>2 DEF OneOpenBatchPerStream, TypeOK, Batch, Open, Queued
      <4>2. heads[batches[b].stream].active = b
        BY <3>2 DEF OneOpenBatchPerStream
      <4>3. b # None
        BY ConstantsAssumption
      <4> QED BY <4>1, <4>2, <4>3, <2>2
    <3> QED BY <3>1, <3>2 DEF OneOpenBatchPerStream
  <2> QED BY <2>1, <2>2
<1>2. ASSUME NEW s \in Streams, heads'[s].active # None
      PROVE  /\ batches'[heads'[s].active].stream = s
             /\ batches'[heads'[s].active].status \in Queued \cup {"running", "dead"}
  <2>1. CASE heads'[s].active \in B /\ batches'[heads'[s].active].stream = s
    BY <2>1
  <2>2. CASE heads'[s].active = heads[s].active
    <3>1. PICK c \in Batches : c = heads[s].active
      BY <1>2, <2>2 DEF TypeOK, Head
    <3>2. batches[c].stream = s /\ batches[c].status \in Queued \cup {"running", "dead"}
      BY <1>2, <2>2, <3>1 DEF OneOpenBatchPerStream, Open
    <3>3. batches[c].status # "unused"
      BY <3>2 DEF Queued
    <3>4. CASE c \in B
      BY <3>4, <3>1, <3>2, <3>3, <2>2
    <3>5. CASE c \notin B
      BY <3>5, <3>1, <3>2, <2>2
    <3> QED BY <3>4, <3>5
  <2> QED BY <2>1, <2>2
<1> QED BY <1>1, <1>2 DEF OneOpenBatchPerStream, Open

-----------------------------------------------------------------------------
(* The initial states, and one lemma per group of actions. *)

LEMMA InitIInv == Init => IInv
<1> SUFFICES ASSUME NEW home \in [Batches -> Streams \cup {None}],
                    NEW owned \in [Members -> Batches \cup {None}],
                    NEW active \in [Streams -> Batches \cup {None}],
                    InitFrom(home, owned, active)
             PROVE  OneOpenBatchPerStream /\ RowsOK
  BY InitTypeOK DEF Init, IInv
<1>1. ASSUME NEW b \in Batches
      PROVE  \/ batches[b] = NoBatch
             \/ home[b] \in Streams /\ batches[b] = DeadBatch(home[b])
  BY DEF InitFrom
<1>2. RowsOK
  <2>1. \A st \in Streams : RowOK(DeadBatch(st), NoEntry)
    BY DEF RowOK, DeadBatch, NoBatch, NoEntry
  <2>2. \A b \in Batches : outbox[b] = NoEntry
    BY DEF InitFrom
  <2> QED BY <1>1, <2>1, <2>2, RowOKRules DEF RowsOK
<1>3. ASSUME NEW b \in Batches
      PROVE  /\ batches[b].status \notin {"unused", "pruned"} => batches[b].stream # None
             /\ ~Open(b)
  <2>1. CASE batches[b] = NoBatch
    BY <2>1 DEF NoBatch, Open, Queued
  <2>2. CASE home[b] \in Streams /\ batches[b] = DeadBatch(home[b])
    BY <2>2, NoneApart DEF NoBatch, DeadBatch, Open, Queued
  <2> QED BY <1>1, <2>1, <2>2
<1>4. ASSUME NEW s \in Streams, heads[s].active # None
      PROVE  /\ batches[heads[s].active].stream = s
             /\ batches[heads[s].active].status = "dead"
  <2>1. heads[s].active = active[s] /\ active[s] \in Batches
    <3>1. heads[s] = [FreeHead EXCEPT !.active = active[s]]
      BY DEF InitFrom
    <3>2. heads[s].active = active[s]
      BY <3>1 DEF FreeHead
    <3> QED BY <3>2, <1>4
  <2>2. home[active[s]] = s /\ s # None
    BY <2>1, NoneApart DEF InitFrom
  <2>3. batches[active[s]] = DeadBatch(s)
    <3>1. batches = [b \in Batches |-> IF home[b] = None THEN NoBatch ELSE DeadBatch(home[b])]
      BY DEF InitFrom
    <3> QED BY <3>1, <2>1, <2>2
  <2> QED BY <2>1, <2>3 DEF DeadBatch, NoBatch
<1> QED BY <1>2, <1>3, <1>4 DEF OneOpenBatchPerStream

\* A step that leaves batches and outbox alone and moves no slot.
LEMMA FrameIInv ==
    ASSUME IInv, TypeOK', UNCHANGED <<batches, outbox>>,
           \A s \in Streams : heads'[s].active = heads[s].active
    PROVE  IInv'
<1>1. OneOpenBatchPerStream'
  BY SlotKept DEF IInv, Open
<1>2. RowsOK'
  BY DEF IInv, RowsOK
<1> QED BY <1>1, <1>2 DEF IInv

\* A step after which every row is as before or allowed by RowOK.
LEMMA RowsKept ==
    ASSUME RowsOK,
           \A b \in Batches : \/ batches'[b] = batches[b] /\ outbox'[b] = outbox[b]
                              \/ RowOK(batches'[b], outbox'[b])
    PROVE  RowsOK'
BY DEF RowsOK

LEMMA MemberIInv == IInv /\ MemberNext => IInv'
<1> SUFFICES ASSUME IInv, MemberNext PROVE IInv'
  OBVIOUS
<1>1. UNCHANGED <<batches, outbox, heads>>
  BY DEF MemberNext, InsertMember, ConflictMember, ApplyExclusionVerdict, TimeoutStaleQueue
<1>2. TypeOK'
  BY MemberTypeOK DEF IInv
<1> QED BY <1>1, <1>2, FrameIInv

LEMMA SealIInv == IInv /\ SealNext => IInv'
<1> SUFFICES ASSUME IInv, SealNext PROVE IInv'
  OBVIOUS
<1>1. TypeOK'
  BY SealTypeOK DEF IInv
<1>2. ASSUME NEW s \in Streams, NEW t \in Tokens,
             AcquireReservation(s, t) \/ RenewReservation(s, t) \/ ReleaseReservation(s, t)
      PROVE  IInv'
  <2>1. UNCHANGED <<batches, outbox>>
    BY <1>2 DEF AcquireReservation, RenewReservation, ReleaseReservation
  <2>2. \A q \in Streams : heads'[q].active = heads[q].active
    BY <1>2 DEF AcquireReservation, RenewReservation, ReleaseReservation, IInv, TypeOK, Head
  <2> QED BY <1>1, <2>1, <2>2, FrameIInv
<1>3. ASSUME NEW s \in Streams, NEW b \in Batches, NEW t \in Tokens,
             NEW M \in SUBSET Members, SealBatch(s, b, M, t)
      PROVE  IInv'
  <2>1. PICK age \in Ages : batches' = [batches EXCEPT ![b] = [NoBatch EXCEPT
                     !.status = "dispatch_pending", !.stream = s, !.age = age]]
    <3>1. PICK oldest \in M : batches' = [batches EXCEPT ![b] = [NoBatch EXCEPT
                     !.status = "dispatch_pending", !.stream = s,
                     !.age = members[oldest].age]]
      BY <1>3 DEF SealBatch
    <3>2. members[oldest].age \in Ages
      BY DEF IInv, TypeOK, Member
    <3> QED BY <3>1, <3>2
  <2>2. batches'[b] = [NoBatch EXCEPT !.status = "dispatch_pending", !.stream = s, !.age = age]
    BY <2>1 DEF IInv, TypeOK
  <2>3. outbox' = [outbox EXCEPT ![b] = PendingEntry(0)]
    BY <1>3 DEF SealBatch
  <2>4. heads' = [heads EXCEPT ![s] = [FreeHead EXCEPT !.active = b]]
    BY <1>3 DEF SealBatch
  <2>5. RowsOK'
    <3>1. RowOK(batches'[b], outbox'[b])
      BY <2>2, <2>3 DEF IInv, TypeOK, RowOK, PendingEntry, NoEntry, NoBatch
    <3> QED BY <3>1, <2>1, <2>3, RowsKept DEF IInv, TypeOK
  <2>6. OneOpenBatchPerStream'
    <3>1. /\ batches[b].status = "unused" /\ ~Open(b)
          /\ batches'[b].status \in Queued /\ batches'[b].stream = s
      BY <1>3, <2>2 DEF SealBatch, Open, Queued, NoBatch
    <3>2. heads[s].active = None /\ heads'[s].active = b
      BY ZenonT(40), <1>3, <2>4 DEF SealBatch, IInv, TypeOK, FreeHead
    <3>3. \A c \in Batches \ {b} : batches'[c] = batches[c]
      BY <2>1 DEF IInv, TypeOK
    <3>4. \A q \in Streams \ {s} : heads'[q] = heads[q]
      BY <2>4 DEF IInv, TypeOK
    <3> DEFINE B == {b}
    <3>5. /\ \A c \in B :
                /\ ~Open(c) /\ batches'[c].status \in Queued
                /\ batches[c].status # "unused" => batches'[c].stream = batches[c].stream
                /\ batches'[c].stream \in Streams
                /\ heads[batches'[c].stream].active \in {None, c}
                /\ heads'[batches'[c].stream].active = c
          /\ \A c \in Batches \ B : batches'[c] = batches[c]
      BY <3>1, <3>2, <3>3
    <3>6. \A q \in Streams : \/ heads'[q].active = heads[q].active
                             \/ heads'[q].active \in B
                                /\ batches'[heads'[q].active].stream = q
      BY <3>1, <3>2, <3>4
    <3>7. B \in SUBSET Batches
      OBVIOUS
    <3> HIDE DEF B
    <3> QED BY <1>1, <3>5, <3>6, <3>7, SlotTaken DEF IInv
  <2> QED BY <1>1, <2>5, <2>6 DEF IInv
<1> QED BY <1>2, <1>3 DEF SealNext

\* A step that changes one waiting or confirmed batch and keeps it open.
LEMMA OneRowIInv ==
    ASSUME IInv, TypeOK', NEW b \in Batches, NEW r, NEW e,
           batches' = [batches EXCEPT ![b] = r],
           outbox' = [outbox EXCEPT ![b] = e],
           UNCHANGED heads,
           Open(b), r.stream = batches[b].stream,
           r.status \in Queued \cup {"running"}, RowOK(r, e)
    PROVE  IInv'
<1>1. batches'[b] = r /\ outbox'[b] = e
  BY DEF IInv, TypeOK
<1>2. \A c \in Batches \ {b} : batches'[c] = batches[c] /\ outbox'[c] = outbox[c]
  BY DEF IInv, TypeOK
<1>3. RowsOK'
  BY <1>1, <1>2, RowsKept DEF IInv
<1>4. \A c \in Batches :
         /\ batches'[c].stream = batches[c].stream
         /\ Open(c) <=> Open(c)'
         /\ batches[c].status = "dead" <=> batches'[c].status = "dead"
         /\ batches[c].status \in {"unused", "pruned"}
               <=> batches'[c].status \in {"unused", "pruned"}
  BY <1>1, <1>2 DEF Open, Queued
<1>5. OneOpenBatchPerStream'
  BY <1>4, SlotKept DEF IInv
<1> QED BY <1>3, <1>5 DEF IInv

LEMMA DispatchIInv == IInv /\ DispatchNext => IInv'
<1> SUFFICES ASSUME IInv, DispatchNext PROVE IInv'
  OBVIOUS
<1>0. TypeOK /\ TypeOK' /\ \A b \in Batches : RowOK(batches[b], outbox[b])
  BY DispatchTypeOK DEF IInv, RowsOK
<1>1. ASSUME NEW b \in Batches, NEW t \in Tokens, ClaimDispatch(b, t) PROVE IInv'
  <2>1. outbox' = [outbox EXCEPT ![b] = [@ EXCEPT !.token = t, !.expiry = ClaimTtl]]
        /\ outbox[b].status = "pending" /\ UNCHANGED <<batches, heads>>
    BY <1>1 DEF ClaimDispatch
  <2>2. RowOK(batches[b], [outbox[b] EXCEPT !.token = t, !.expiry = ClaimTtl])
    BY <1>0, <2>1 DEF RowOK, TypeOK, Entry
  <2>3. Open(b) /\ batches' = [batches EXCEPT ![b] = batches[b]]
    BY <1>0, <2>1 DEF RowOK, TypeOK, Open, Queued
  <2> QED BY <1>0, <2>1, <2>2, <2>3, OneRowIInv DEF Open
<1>2. ASSUME NEW b \in Batches, NEW t \in Tokens, NEW left \in 0..ClaimTtl,
             ConfirmDispatch(b, t, left)
      PROVE  IInv'
  <2> DEFINE r == [batches[b] EXCEPT !.status = "queued", !.expiry = left]
             e == [NoEntry EXCEPT !.status = "dispatched"]
  <2>1. batches' = [batches EXCEPT ![b] = r] /\ outbox' = [outbox EXCEPT ![b] = e]
        /\ outbox[b].token = t /\ UNCHANGED heads
    BY <1>2 DEF ConfirmDispatch
  <2>2. batches[b].status \in {"dispatch_pending", "retry_wait"}
    BY <1>0, <2>1, NoneApart DEF RowOK
  <2>3. left # None
    BY NoneApart, ConstantsAssumption
  <2>4. batches[b] \in Batch
    BY <1>0 DEF TypeOK
  <2>5. batches[b].token = None /\ batches[b].owner = None
    BY <1>0, <2>2 DEF RowOK
  <2>6. RowOK(r, e)
    BY <2>3, <2>4, <2>5 DEF RowOK, Batch, NoEntry
  <2>7. Open(b) /\ r.stream = batches[b].stream /\ r.status = "queued"
    BY <2>2, <2>4 DEF Open, Queued, Batch
  <2> HIDE DEF r, e
  <2> QED BY <1>0, <2>1, <2>6, <2>7, OneRowIInv DEF Queued
<1>3. ASSUME NEW b \in Batches, NEW t \in Tokens, NEW delay \in 0..MaxDelay,
             AbortDispatch(b, t, delay)
      PROVE  IInv'
  <2>1. outbox' = [outbox EXCEPT ![b] = PendingEntry(delay)]
        /\ outbox[b].token = t /\ UNCHANGED <<batches, heads>>
    BY <1>3 DEF AbortDispatch
  <2>2. batches[b].status \in {"dispatch_pending", "retry_wait"}
    BY <1>0, <2>1, NoneApart DEF RowOK
  <2>3. RowOK(batches[b], PendingEntry(delay))
    BY <1>0, <2>2 DEF RowOK, PendingEntry, NoEntry
  <2>4. Open(b) /\ batches' = [batches EXCEPT ![b] = batches[b]]
    BY <1>0, <2>1, <2>2 DEF TypeOK, Open, Queued
  <2> QED BY <1>0, <2>1, <2>3, <2>4, OneRowIInv DEF Open
<1>4. ASSUME NEW b \in Batches, NEW delay \in 0..MaxDelay, DeferBatchExecution(b, delay)
      PROVE  IInv'
  <2> DEFINE r == [batches[b] EXCEPT !.status = "retry_wait", !.expiry = None]
  <2>1. batches' = [batches EXCEPT ![b] = r] /\ UNCHANGED heads
        /\ outbox' = [outbox EXCEPT ![b] = PendingEntry(delay)] /\ batches[b].status = "queued"
    BY <1>4 DEF DeferBatchExecution
  <2>2. batches[b] \in Batch
    BY <1>0 DEF TypeOK
  <2>3. batches[b].token = None /\ batches[b].owner = None
    BY <1>0, <2>1 DEF RowOK
  <2>4. RowOK(r, PendingEntry(delay))
    BY <2>2, <2>3 DEF RowOK, Batch, PendingEntry, NoEntry
  <2>5. Open(b) /\ r.stream = batches[b].stream /\ r.status = "retry_wait"
    BY <2>1, <2>2 DEF Open, Queued, Batch
  <2> HIDE DEF r
  <2> QED BY <1>0, <2>1, <2>4, <2>5, OneRowIInv DEF Queued
<1>5. ASSUME NEW b \in Batches, RequeueStalledBatch(b) PROVE IInv'
  <2> DEFINE r == Unleased(batches[b], "retry_wait")
  <2>1. batches' = [batches EXCEPT ![b] = r] /\ UNCHANGED heads
        /\ outbox' = [outbox EXCEPT ![b] = PendingEntry(0)] /\ Open(b)
    BY <1>5 DEF RequeueStalledBatch, Open
  <2>2. batches[b] \in Batch
    BY <1>0 DEF TypeOK
  <2>3. RowOK(r, PendingEntry(0))
    BY <2>2, RowOKRules
  <2>4. r.stream = batches[b].stream /\ r.status = "retry_wait"
    BY <2>2 DEF Unleased, Batch
  <2> HIDE DEF r
  <2> QED BY <1>0, <2>1, <2>3, <2>4, OneRowIInv DEF Queued
<1> QED BY <1>1, <1>2, <1>3, <1>4, <1>5 DEF DispatchNext

LEMMA ReclaimIInv ==
    ASSUME IInv, TypeOK', NEW B \in SUBSET Batches,
           \A b \in B : batches[b].status \in {"running", "queued"},
           Reclaim(B)
    PROVE  IInv'
<1> DEFINE lost == {b \in B : Exhausted(batches[b]) /\ batches[b].recovery # 0}
<1>0. TypeOK /\ OneOpenBatchPerStream /\ \A b \in Batches : RowOK(batches[b], outbox[b])
  BY DEF IInv, RowsOK
<1>1. /\ \A b \in lost : batches'[b] = Unleased(batches[b], "skipped")
      /\ \A b \in B \ lost : \/ batches'[b] = Rearmed(batches[b])
                             \/ batches'[b] = Unleased(batches[b], "retry_wait")
      /\ \A b \in Batches \ B : batches'[b] = batches[b]
      /\ \A b \in B \ lost : outbox'[b] = PendingEntry(0)
      /\ \A b \in (Batches \ B) \cup lost : outbox'[b] = outbox[b]
      /\ ReleaseStreams(lost)
  BY DEF Reclaim
<1>2. lost \subseteq B /\ \A b \in lost : batches[b].status = "running"
  BY DEF Exhausted
<1>3. \A b \in B : batches[b] \in Batch
  BY <1>0 DEF TypeOK
<1> HIDE DEF lost
<1>4. RowsOK'
  <2>1. ASSUME NEW b \in lost PROVE RowOK(batches'[b], outbox'[b])
    BY <1>0, <1>1, <1>2, RowOKRules DEF TypeOK
  <2>2. ASSUME NEW b \in B \ lost PROVE RowOK(batches'[b], outbox'[b])
    BY <1>0, <1>1, RowOKRules DEF TypeOK
  <2> QED BY <1>1, <2>1, <2>2, RowsKept DEF IInv
<1>5. OneOpenBatchPerStream'
  <2>1. \A b \in Batches : batches'[b].stream = batches[b].stream
    <3>1. \A b \in lost : batches'[b].stream = batches[b].stream
      BY <1>0, <1>1, <1>2, <1>3, RowColumns
    <3>2. \A b \in B \ lost : batches'[b].stream = batches[b].stream
      BY <1>0, <1>1, <1>2, <1>3, RowColumns
    <3> QED BY <1>1, <3>1, <3>2
  <2>2. ASSUME NEW b \in Batches \ lost
        PROVE  /\ Open(b) <=> Open(b)'
               /\ batches[b].status = "dead" <=> batches'[b].status = "dead"
               /\ batches[b].status \in {"unused", "pruned"}
                     <=> batches'[b].status \in {"unused", "pruned"}
    <3>1. CASE b \in B
      <4>1. batches'[b].status = "retry_wait"
        BY <1>0, <1>1, <3>1, <1>2, <1>3, RowColumns
      <4> QED BY <3>1, <4>1 DEF Open, Queued
    <3>2. CASE b \notin B
      BY <1>1, <3>2 DEF Open
    <3> QED BY <3>1, <3>2
  <2>3. \A b \in lost : batches'[b].status = "skipped"
    BY <1>0, <1>1, <1>2, <1>3, RowColumns
  <2>4. \A b \in lost : batches[b].status \notin {"unused", "pruned"}
    BY <1>2
  <2> QED BY <1>0, <1>1, <2>1, <2>2, <2>3, <2>4, SlotReleased DEF Settled
<1> QED BY <1>4, <1>5 DEF IInv

\* A step that settles the batches of B, which frees their slots.
LEMMA SettleIInv ==
    ASSUME IInv, TypeOK', NEW B \in SUBSET Batches,
           \A b \in B : /\ batches[b].status \notin {"unused", "pruned"}
                        /\ \E st \in Settled : batches'[b] = Unleased(batches[b], st)
                        /\ RowOK(batches'[b], outbox'[b]),
           \A b \in Batches \ B : batches'[b] = batches[b] /\ outbox'[b] = outbox[b],
           ReleaseStreams(B)
    PROVE  IInv'
<1>1. RowsOK'
  BY RowsKept DEF IInv
<1>2. \A b \in B : /\ batches'[b].stream = batches[b].stream
                   /\ batches'[b].status \in Settled
  BY RowColumns DEF IInv, TypeOK
<1>3. \A b \in Batches \ B : Open(b) <=> Open(b)'
  BY DEF Open
<1>4. \A b \in Batches : batches'[b].stream = batches[b].stream
  BY <1>2
<1>5. OneOpenBatchPerStream'
  BY <1>2, <1>3, <1>4, SlotReleased DEF IInv
<1> QED BY <1>1, <1>5 DEF IInv

LEMMA TerminalSkipIInv ==
    ASSUME IInv, TypeOK', NEW B \in SUBSET Batches,
           \A b \in B : Open(b) \/ batches[b].status = "dead", TerminalSkip(B)
    PROVE  IInv'
<1>1. \A b \in B : /\ batches'[b] = Unleased(batches[b], "skipped")
                   /\ outbox'[b] = NoEntry
  BY DEF TerminalSkip
<1>2. \A b \in B : batches[b] \in Batch /\ batches[b].status \notin {"unused", "pruned"}
  BY DEF Open, Queued, IInv, TypeOK
<1>3. \A b \in B : RowOK(batches'[b], outbox'[b])
  BY <1>1, <1>2, RowOKRules DEF Terminal
<1>4. \A b \in Batches \ B : batches'[b] = batches[b] /\ outbox'[b] = outbox[b]
  BY DEF TerminalSkip
<1>5. ReleaseStreams(B)
  BY DEF TerminalSkip
<1> QED BY <1>1, <1>2, <1>3, <1>4, <1>5, SettleIInv DEF Settled

LEMMA ExecuteIInv == IInv /\ ExecuteNext => IInv'
<1> SUFFICES ASSUME IInv, ExecuteNext PROVE IInv'
  OBVIOUS
<1>0. TypeOK /\ TypeOK' /\ \A b \in Batches : RowOK(batches[b], outbox[b])
  BY ExecuteTypeOK DEF IInv, RowsOK
<1>1. ASSUME NEW b \in Batches, NEW owner \in Owners, NEW t \in Tokens,
             NEW left \in 0..LeaseTtl, StartBatchExecution(b, owner, t, left)
      PROVE  IInv'
  <2> DEFINE r == Leasing(batches[b], owner, t, left)
  <2>1. batches' = [batches EXCEPT ![b] = r] /\ UNCHANGED <<outbox, heads>>
        /\ batches[b].status = "queued"
    BY <1>1 DEF StartBatchExecution
  <2>2. batches[b] \in Batch
    BY <1>0 DEF TypeOK
  <2>3. left # None /\ t # None /\ owner # None
    BY NoneApart, ConstantsAssumption
  <2>4. RowOK(r, outbox[b])
    BY <1>0, <2>1, <2>2, <2>3 DEF RowOK, Leasing, Batch
  <2>5. Open(b) /\ r.stream = batches[b].stream /\ r.status = "running"
    BY <2>1, <2>2 DEF Leasing, Batch, Open, Queued
  <2>6. outbox' = [outbox EXCEPT ![b] = outbox[b]]
    BY <1>0, <2>1 DEF TypeOK
  <2> HIDE DEF r
  <2> QED BY <1>0, <2>1, <2>4, <2>5, <2>6, OneRowIInv
<1>2. ASSUME NEW b \in Batches, NEW t \in Tokens, RenewBatchLease(b, t) PROVE IInv'
  <2> DEFINE r == [batches[b] EXCEPT !.expiry = LeaseTtl]
  <2>1. batches' = [batches EXCEPT ![b] = r] /\ UNCHANGED <<outbox, heads>>
        /\ batches[b].status = "running"
    <3>1. batches' = [batches EXCEPT ![b].expiry = LeaseTtl]
      BY <1>2 DEF RenewBatchLease
    <3>2. batches' = [batches EXCEPT ![b] = r]
      BY <3>1
    <3> QED BY <1>2, <3>2 DEF RenewBatchLease, Leased
  <2>2. batches[b] \in Batch
    BY <1>0 DEF TypeOK
  <2>3. LeaseTtl # None
    BY NoneApart, ConstantsAssumption
  <2>4. RowOK(r, outbox[b])
    BY <1>0, <2>1, <2>2, <2>3 DEF RowOK, Batch
  <2>5. Open(b) /\ r.stream = batches[b].stream /\ r.status = "running"
    BY <2>1, <2>2 DEF Batch, Open
  <2>6. outbox' = [outbox EXCEPT ![b] = outbox[b]]
    BY <1>0, <2>1 DEF TypeOK
  <2> HIDE DEF r
  <2> QED BY <1>0, <2>1, <2>4, <2>5, <2>6, OneRowIInv
<1>3. ASSUME NEW b \in Batches, NEW t \in Tokens, NEW outcome \in {"completed", "skipped"},
             CompleteBatch(b, t, outcome)
      PROVE  IInv'
  <2>1. /\ batches' = [batches EXCEPT ![b] = Unleased(batches[b], outcome)]
        /\ outbox' = [outbox EXCEPT ![b] = NoEntry]
        /\ ReleaseStreams({b}) /\ batches[b].status = "running"
    BY <1>3 DEF CompleteBatch, Leased
  <2>2. batches'[b] = Unleased(batches[b], outcome) /\ outbox'[b] = NoEntry
    BY <1>0, <2>1 DEF TypeOK
  <2>3. RowOK(batches'[b], outbox'[b])
    BY <1>0, <2>2, RowOKRules DEF TypeOK, Terminal
  <2>4. \A c \in Batches \ {b} : batches'[c] = batches[c] /\ outbox'[c] = outbox[c]
    BY <1>0, <2>1 DEF TypeOK
  <2> QED BY <1>0, <2>1, <2>2, <2>3, <2>4, SettleIInv DEF Settled
<1>4. ASSUME NEW b \in Batches, NEW t \in Tokens, NEW dead \in BOOLEAN,
             NEW delay \in 0..MaxDelay, FailBatch(b, t, dead, delay)
      PROVE  IInv'
  <2>1. batches[b] \in Batch /\ batches[b].status = "running" /\ Open(b)
    BY <1>0, <1>4 DEF FailBatch, Leased, Open, TypeOK
  <2>2. ASSUME NEW r, NEW d \in Nat, r \in {Rearmed(batches[b]), Unleased(batches[b], "retry_wait")},
               batches' = [batches EXCEPT ![b] = r],
               outbox' = [outbox EXCEPT ![b] = PendingEntry(d)], UNCHANGED heads
        PROVE  IInv'
    <3>1. r.stream = batches[b].stream /\ r.status = "retry_wait"
      BY <2>1, <2>2, RowColumns
    <3>2. RowOK(r, PendingEntry(d))
      BY <2>1, <2>2, RowOKRules
    <3> QED BY <1>0, <2>1, <2>2, <3>1, <3>2, OneRowIInv DEF Queued
  <2>3. CASE /\ batches' = [batches EXCEPT ![b] = Unleased(batches[b], "skipped")]
             /\ ReleaseStreams({b})
             /\ UNCHANGED outbox
    <3>1. batches'[b] = Unleased(batches[b], "skipped")
      BY <1>0, <2>3 DEF TypeOK
    <3>2. RowOK(batches'[b], outbox'[b])
      BY <1>0, <2>1, <2>3, <3>1, RowOKRules DEF TypeOK
    <3>3. \A c \in Batches \ {b} : batches'[c] = batches[c] /\ outbox'[c] = outbox[c]
      BY <1>0, <2>3 DEF TypeOK
    <3> QED BY <1>0, <2>1, <2>3, <3>1, <3>2, <3>3, SettleIInv DEF Settled
  <2>4. delay \in Nat /\ 0 \in Nat
    BY ConstantsAssumption
  <2> QED BY <1>4, <2>2, <2>3, <2>4 DEF FailBatch
<1>5. ASSUME NEW B \in SUBSET Batches, ReclaimExpiredBatchLeases(B) PROVE IInv'
  BY <1>0, <1>5, ReclaimIInv DEF ReclaimExpiredBatchLeases
<1>6. ASSUME NEW owner \in Owners, ReclaimBatchesByOwner(owner) PROVE IInv'
  <2> DEFINE B == {b \in Batches : batches[b].status = "running" /\ batches[b].owner = owner}
  <2>1. Reclaim(B) /\ B \in SUBSET Batches /\ \A b \in B : batches[b].status = "running"
    BY <1>6 DEF ReclaimBatchesByOwner
  <2> HIDE DEF B
  <2> QED BY <1>0, <2>1, ReclaimIInv
<1> QED BY <1>1, <1>2, <1>3, <1>4, <1>5, <1>6 DEF ExecuteNext

\* A step that re-arms the batches of B in the slots of their streams.
LEMMA RearmIInv ==
    ASSUME IInv, TypeOK', NEW B \in SUBSET Batches,
           \A b \in B : /\ batches[b].status \in {"dead", "skipped"}
                        /\ heads[batches[b].stream].active \in {None, b}
                        /\ batches'[b].status = "retry_wait"
                        /\ batches'[b].stream = batches[b].stream
                        /\ RowOK(batches'[b], outbox'[b])
                        /\ heads'[batches[b].stream].active = b,
           \A b \in Batches \ B : batches'[b] = batches[b] /\ outbox'[b] = outbox[b],
           \A s \in Streams : \/ heads'[s].active = heads[s].active
                              \/ \E b \in B : batches[b].stream = s /\ heads'[s].active = b
    PROVE  IInv'
<1>1. RowsOK'
  BY RowsKept DEF IInv
<1>2. \A b \in B : batches[b].stream \in Streams
  BY DEF IInv, OneOpenBatchPerStream, TypeOK, Batch
<1>3. \A b \in B : ~Open(b) /\ batches'[b].status \in Queued
  BY DEF Open, Queued
<1>4. OneOpenBatchPerStream'
  BY <1>2, <1>3, SlotTaken DEF IInv
<1> QED BY <1>1, <1>4 DEF IInv

LEMMA OperateIInv == IInv /\ OperateNext => IInv'
<1> SUFFICES ASSUME IInv, OperateNext PROVE IInv'
  OBVIOUS
<1>0. TypeOK /\ TypeOK' /\ \A b \in Batches : RowOK(batches[b], outbox[b])
  BY OperateTypeOK DEF IInv, RowsOK
<1>1. ASSUME NEW B \in SUBSET Batches, RecoverDeadBatches(B) PROVE IInv'
  <2>1. \A b \in B : /\ batches[b].status = "dead"
                     /\ heads[batches[b].stream].active \in {None, b}
                     /\ batches'[b] = Rearmed(batches[b])
                     /\ outbox'[b] = PendingEntry(0)
    BY <1>1 DEF RecoverDeadBatches
  <2>2. \A b \in Batches \ B : batches'[b] = batches[b] /\ outbox'[b] = outbox[b]
    BY <1>1 DEF RecoverDeadBatches
  <2>3. \A b, c \in B : batches[c].stream = batches[b].stream => b = c
    BY <1>1 DEF RecoverDeadBatches
  <2>4. \A b \in B : /\ batches[b] \in Batch
                     /\ batches[b].stream \in Streams
    BY <1>0, <2>1 DEF IInv, OneOpenBatchPerStream, TypeOK, Batch
  <2>5. ASSUME NEW s \in Streams, NEW b \in B, batches[b].stream = s
        PROVE  heads'[s].active = b
    <3>1. (CHOOSE c \in B : batches[c].stream = s) = b
      BY <2>3, <2>5
    <3>2. heads'[s] = [heads[s] EXCEPT !.active = CHOOSE c \in B : batches[c].stream = s]
      BY <1>1, <2>5 DEF RecoverDeadBatches
    <3> QED BY <1>0, <3>1, <3>2 DEF TypeOK, Head
  <2>6. ASSUME NEW s \in Streams, \A b \in B : batches[b].stream # s
        PROVE  heads'[s] = heads[s]
    BY <1>1, <2>6 DEF RecoverDeadBatches
  <2>7. \A b \in B : /\ batches'[b].status = "retry_wait"
                     /\ batches'[b].stream = batches[b].stream
                     /\ RowOK(batches'[b], outbox'[b])
    BY <2>1, <2>4, RowColumns, RowOKRules
  <2> QED BY SMTT(20), <1>0, <2>1, <2>2, <2>4, <2>5, <2>6, <2>7, RearmIInv
<1>2. ASSUME NEW b \in Batches, RequeueBatchForRecovery(b) PROVE IInv'
  <2> DEFINE B == {b}
  <2>1. /\ batches[b].status \in {"dead", "skipped"}
        /\ heads[batches[b].stream].active \in {None, b}
        /\ batches' = [batches EXCEPT ![b] = [Rearmed(batches[b]) EXCEPT !.age = 0]]
        /\ outbox' = [outbox EXCEPT ![b] = PendingEntry(0)]
        /\ heads' = [heads EXCEPT ![batches[b].stream].active = b]
    BY <1>2 DEF RequeueBatchForRecovery, ClaimStream
  <2>2. batches[b] \in Batch /\ batches[b].stream \in Streams
    BY <1>0, <2>1 DEF IInv, OneOpenBatchPerStream, TypeOK, Batch
  <2>3. batches'[b] = [Rearmed(batches[b]) EXCEPT !.age = 0] /\ outbox'[b] = PendingEntry(0)
    BY <1>0, <2>1 DEF TypeOK
  <2>4. /\ batches'[b].status = "retry_wait" /\ batches'[b].stream = batches[b].stream
        /\ RowOK(batches'[b], outbox'[b])
    <3>1. RowOK(Rearmed(batches[b]), PendingEntry(0)) /\ Rearmed(batches[b]) \in Batch
      BY <2>2, RowOKRules, RowTypes
    <3> QED BY <2>2, <2>3, <3>1, RowColumns DEF RowOK, Batch
  <2>5. heads'[batches[b].stream].active = b
    BY <1>0, <2>1, <2>2 DEF TypeOK, Head
  <2>6. \A s \in Streams \ {batches[b].stream} : heads'[s] = heads[s]
    BY <1>0, <2>1 DEF TypeOK
  <2>7. \A c \in Batches \ B : batches'[c] = batches[c] /\ outbox'[c] = outbox[c]
    BY <1>0, <2>1 DEF TypeOK
  <2>8. /\ B \in SUBSET Batches
        /\ \A c \in B : /\ batches[c].status \in {"dead", "skipped"}
                        /\ heads[batches[c].stream].active \in {None, c}
                        /\ batches'[c].status = "retry_wait"
                        /\ batches'[c].stream = batches[c].stream
                        /\ RowOK(batches'[c], outbox'[c])
                        /\ heads'[batches[c].stream].active = c
    BY <2>1, <2>4, <2>5
  <2>9. \A s \in Streams : \/ heads'[s].active = heads[s].active
                           \/ \E c \in B : batches[c].stream = s /\ heads'[s].active = c
    BY <2>5, <2>6
  <2> HIDE DEF B
  <2> QED BY <1>0, <2>7, <2>8, <2>9, RearmIInv
<1>3. ASSUME NEW B \in SUBSET Batches, CancelQueuedBatches(B) PROVE IInv'
  BY <1>0, <1>3, TerminalSkipIInv DEF CancelQueuedBatches
<1>4. CASE TimeoutStaleBatches
  <2> DEFINE B == {b \in Batches : batches[b].status \in Queued /\ Stale(batches[b].age)}
  <2>1. TerminalSkip(B) /\ B \in SUBSET Batches /\ \A b \in B : Open(b)
    BY <1>4 DEF TimeoutStaleBatches, Open
  <2> HIDE DEF B
  <2> QED BY <1>0, <2>1, TerminalSkipIInv
<1>5. ASSUME NEW B \in SUBSET Batches, PruneBatchHistory(B) PROVE IInv'
  <2>1. /\ \A b \in B : /\ batches[b].status \in Terminal
                        /\ heads[batches[b].stream].active # b
                        /\ batches'[b] = [NoBatch EXCEPT !.status = "pruned"]
                        /\ outbox'[b] = NoEntry
        /\ \A b \in Batches \ B : batches'[b] = batches[b] /\ outbox'[b] = outbox[b]
        /\ heads' = heads
    BY <1>5 DEF PruneBatchHistory
  <2>2. RowOK([NoBatch EXCEPT !.status = "pruned"], NoEntry)
    BY DEF RowOK, NoBatch, NoEntry
  <2>3. RowsOK'
    BY <2>1, <2>2, RowsKept DEF IInv
  <2>4. ASSUME NEW b \in Batches
        PROVE  /\ batches'[b].status \notin {"unused", "pruned"} => batches'[b].stream # None
               /\ Open(b)' => heads'[batches'[b].stream].active = b
    <3>1. CASE b \in B
      BY <2>1, <3>1 DEF NoBatch, Open, Queued
    <3>2. CASE b \notin B
      BY <2>1, <3>2 DEF IInv, OneOpenBatchPerStream, Open
    <3> QED BY <3>1, <3>2
  <2>5. ASSUME NEW s \in Streams, heads'[s].active # None
        PROVE  /\ batches'[heads'[s].active].stream = s
               /\ batches'[heads'[s].active].status \in Queued \cup {"running", "dead"}
    <3>1. PICK c \in Batches : c = heads[s].active
      BY <1>0, <2>1, <2>5 DEF TypeOK, Head
    <3>2. batches[c].stream = s /\ batches[c].status \in Queued \cup {"running", "dead"}
      BY <2>1, <2>5, <3>1 DEF IInv, OneOpenBatchPerStream, Open
    <3>3. c \notin B
      BY <2>1, <3>1, <3>2
    <3> QED BY <2>1, <3>1, <3>2, <3>3
  <2>6. OneOpenBatchPerStream'
    BY <2>4, <2>5 DEF OneOpenBatchPerStream, Open
  <2> QED BY <1>0, <2>3, <2>6 DEF IInv
<1> QED BY <1>1, <1>2, <1>3, <1>4, <1>5 DEF OperateNext, SweepNext, RetryNext

LEMMA TickIInv == IInv /\ Tick => IInv'
<1> SUFFICES ASSUME IInv, Tick PROVE IInv'
  OBVIOUS
<1>0. TypeOK /\ TypeOK' /\ \A b \in Batches : RowOK(batches[b], outbox[b])
  BY TickTypeOK DEF IInv, RowsOK
<1>1. ASSUME NEW b \in Batches
      PROVE  /\ batches'[b].status = batches[b].status /\ batches'[b].stream = batches[b].stream
             /\ batches'[b].token = batches[b].token /\ batches'[b].owner = batches[b].owner
             /\ batches'[b].expiry = Sooner(batches[b].expiry)
  BY ZenonT(40), <1>0 DEF Tick, TypeOK, Batch
<1>2. ASSUME NEW b \in Batches
      PROVE  outbox'[b].status = outbox[b].status /\ outbox'[b].token = outbox[b].token
  BY ZenonT(40), <1>0 DEF Tick, TypeOK, Entry
<1>3. \A e \in Nat \cup {None} : e # None <=> Sooner(e) # None
  BY NoneApart DEF Sooner, Live
<1>4. \A b \in Batches : batches[b].expiry \in Nat \cup {None}
  BY <1>0 DEF TypeOK, Batch
<1>5. RowsOK'
  <2>1. SUFFICES ASSUME NEW b \in Batches PROVE RowOK(batches'[b], outbox'[b])
    BY DEF RowsOK
  <2>2. batches'[b].expiry # None <=> batches[b].expiry # None
    BY <1>1, <1>3, <1>4
  <2> QED BY <1>0, <1>1, <1>2, <2>2 DEF RowOK
<1>6. \A s \in Streams : heads'[s].active = heads[s].active
  BY <1>0 DEF Tick, TypeOK, Head
<1>7. \A b \in Batches : Open(b) <=> Open(b)'
  BY <1>1 DEF Open
<1>8. OneOpenBatchPerStream'
  BY <1>0, <1>1, <1>6, <1>7, SlotKept DEF IInv
<1> QED BY <1>0, <1>5, <1>8 DEF IInv

LEMMA StepIInv == IInv /\ [Next]_vars => IInv'
<1> SUFFICES ASSUME IInv, [Next]_vars PROVE IInv'
  OBVIOUS
<1>1. CASE UNCHANGED vars
  BY <1>1 DEF vars, IInv, TypeOK, OneOpenBatchPerStream, RowsOK, Open
<1> QED
  BY <1>1, MemberIInv, SealIInv, DispatchIInv, ExecuteIInv, OperateIInv, TickIInv
  DEF Next

-----------------------------------------------------------------------------
(* The theorems. *)

\* The inductive invariant holds in every reachable state of the store.
THEOREM StoreInvariant == Spec => []IInv
BY StepIInv, InitIInv, PTL DEF Spec

\* Two reviews of one stream are never open together, whatever the callers of
\* the store do.
THEOREM OneReviewPerStream == Spec => []OneOpenBatchPerStream
<1>1. IInv => OneOpenBatchPerStream
  BY DEF IInv
<1> QED BY <1>1, StoreInvariant, PTL

\* No settled or running batch is ever offered for dispatch, and none that waits
\* is missing from the outbox.
THEOREM OutboxConsistent == Spec => []OutboxOffersWaiting
<1>1. IInv => OutboxOffersWaiting
  BY RowsOKMeaning DEF IInv
<1> QED BY <1>1, StoreInvariant, PTL

\* A crash of any holder leaves a lease that expires: no batch is stranded.
THEOREM LeaseConsistent == Spec => []LeaseCoversUndispatched
<1>1. IInv => LeaseCoversUndispatched
  BY RowsOKMeaning DEF IInv
<1> QED BY <1>1, StoreInvariant, PTL

-----------------------------------------------------------------------------
(***************************************************************************)
(* What several rows of the ledger have to agree on.                       *)
(*                                                                         *)
(* Limits: unexpired execution leases never exceed their limits.  Only     *)
(* startBatchExecution counts them, and it counts before it adds one, so   *)
(* every other operation has to leave the set of live leases no larger.    *)
(*                                                                         *)
(* Members: a batch and its commits agree.  A transaction writes the two   *)
(* tables by separate statements, some of which name the member statuses   *)
(* they move and some of which do not; the agreement has to survive each.  *)
(* confirmDispatch looks only at the claim of the outbox row, so the joint *)
(* invariant of the store (IInv) is needed, too.                           *)
(***************************************************************************)

\* The live leases are finitely many, which lets their numbers be compared.
LimitsInv == TypeOK /\ IsFiniteSet(LiveRuns) /\ LeasesWithinLimits

Sharing(w) == {b \in LiveRuns : WorkspaceOf[batches[b].stream] = w}

LEMMA LimitsMeaning ==
    LeasesWithinLimits <=> /\ Cardinality(LiveRuns) <= GlobalLimit
                           /\ \A s \in Streams :
                                 Cardinality(Sharing(WorkspaceOf[s])) <= WorkspaceLimit
BY DEF LeasesWithinLimits, Sharing

\* A step after which every live lease was one before, of the same stream.
LEMMA LimitsKept ==
    ASSUME LimitsInv, TypeOK',
           \A b \in Batches :
              batches'[b].status = "running" /\ Live(batches'[b].expiry)
                 => /\ batches[b].status = "running" /\ Live(batches[b].expiry)
                    /\ batches'[b].stream = batches[b].stream
    PROVE  LimitsInv'
<1>1. LiveRuns' \subseteq LiveRuns
  BY DEF LiveRuns
<1>2. IsFiniteSet(LiveRuns') /\ Cardinality(LiveRuns') <= Cardinality(LiveRuns)
  BY <1>1, FS_Subset DEF LimitsInv
<1>3. ASSUME NEW w
      PROVE  /\ IsFiniteSet(Sharing(w)) /\ Cardinality(Sharing(w)) \in Nat
             /\ IsFiniteSet(Sharing(w)') /\ Cardinality(Sharing(w)') \in Nat
             /\ Cardinality(Sharing(w)') <= Cardinality(Sharing(w))
  <2>1. Sharing(w) \subseteq LiveRuns /\ Sharing(w)' \subseteq Sharing(w)
    BY <1>1 DEF Sharing, LiveRuns
  <2>2. IsFiniteSet(Sharing(w))
    BY <2>1, FS_Subset DEF LimitsInv
  <2>3. IsFiniteSet(Sharing(w)') /\ Cardinality(Sharing(w)') <= Cardinality(Sharing(w))
    BY <2>1, <2>2, FS_Subset
  <2> QED BY <2>2, <2>3, FS_CardinalityType
<1>4. Cardinality(LiveRuns) \in Nat /\ Cardinality(LiveRuns') \in Nat
  BY <1>2, FS_CardinalityType DEF LimitsInv
<1>5. Cardinality(LiveRuns') <= GlobalLimit
  BY <1>2, <1>4, ConstantsAssumption DEF LimitsInv, LeasesWithinLimits
<1>6. ASSUME NEW s \in Streams
      PROVE  Cardinality(Sharing(WorkspaceOf[s])') <= WorkspaceLimit
  <2>1. Cardinality(Sharing(WorkspaceOf[s])) <= WorkspaceLimit
    BY LimitsMeaning DEF LimitsInv
  <2> QED BY <2>1, <1>3, ConstantsAssumption
<1>7. LeasesWithinLimits'
  BY <1>5, <1>6 DEF LeasesWithinLimits, Sharing
<1> QED BY <1>2, <1>7 DEF LimitsInv

\* A lease is added where Room counted less than the limits.
LEMMA StartLimits ==
    ASSUME LimitsInv, TypeOK', NEW b \in Batches, NEW owner \in Owners, NEW t \in Tokens,
           NEW left \in 0..LeaseTtl, StartBatchExecution(b, owner, t, left)
    PROVE  LimitsInv'
<1>1. /\ \A c \in Batches \ {b} : batches'[c] = batches[c]
      /\ batches'[b].stream = batches[b].stream
  BY DEF StartBatchExecution, LimitsInv, TypeOK, Leasing, Batch
<1>2. LiveRuns' \subseteq LiveRuns \cup {b} /\ b \notin LiveRuns
  BY <1>1 DEF LiveRuns, StartBatchExecution
<1>3. IsFiniteSet(LiveRuns \cup {b})
      /\ Cardinality(LiveRuns \cup {b}) = Cardinality(LiveRuns) + 1
  BY <1>2, FS_AddElement DEF LimitsInv
<1>4. IsFiniteSet(LiveRuns') /\ Cardinality(LiveRuns') <= Cardinality(LiveRuns \cup {b})
  BY <1>2, <1>3, FS_Subset
<1>5. Cardinality(LiveRuns') <= GlobalLimit
  <2>1. Cardinality(LiveRuns) < GlobalLimit
    BY DEF StartBatchExecution, Room
  <2>2. Cardinality(LiveRuns) \in Nat /\ Cardinality(LiveRuns') \in Nat
    BY <1>4, FS_CardinalityType DEF LimitsInv
  <2> QED BY <1>3, <1>4, <2>1, <2>2, ConstantsAssumption
<1>6. ASSUME NEW s \in Streams
      PROVE  Cardinality(Sharing(WorkspaceOf[s])') <= WorkspaceLimit
  <2> DEFINE S == Sharing(WorkspaceOf[s])
             N == Sharing(WorkspaceOf[s])'
  <2>1. S \subseteq LiveRuns /\ IsFiniteSet(S) /\ Cardinality(S) \in Nat
    <3>1. S \subseteq LiveRuns
      BY DEF Sharing
    <3> HIDE DEF S
    <3>2. IsFiniteSet(S)
      BY <3>1, FS_Subset DEF LimitsInv
    <3> QED BY <3>1, <3>2, FS_CardinalityType
  <2>2. Cardinality(S) <= WorkspaceLimit
    BY LimitsMeaning DEF LimitsInv
  <2>3. CASE WorkspaceOf[batches[b].stream] = WorkspaceOf[s]
    <3>1. N \subseteq S \cup {b} /\ b \notin S
      BY <1>1, <1>2, <2>3 DEF Sharing, LiveRuns
    <3>2. Cardinality(S) < WorkspaceLimit
      BY <2>3 DEF StartBatchExecution, Room, Sharing
    <3> HIDE DEF S, N
    <3>3. IsFiniteSet(S \cup {b}) /\ Cardinality(S \cup {b}) = Cardinality(S) + 1
      BY <2>1, <3>1, FS_AddElement
    <3>4. IsFiniteSet(N) /\ Cardinality(N) <= Cardinality(S \cup {b})
      BY <3>1, <3>3, FS_Subset
    <3>5. Cardinality(N) \in Nat
      BY <3>4, FS_CardinalityType
    <3>6. Cardinality(N) <= WorkspaceLimit
      BY <2>1, <3>2, <3>3, <3>4, <3>5, ConstantsAssumption
    <3> QED BY <3>6 DEF N
  <2>4. CASE WorkspaceOf[batches[b].stream] # WorkspaceOf[s]
    <3>1. N \subseteq S
      BY <1>1, <1>2, <2>4 DEF Sharing, LiveRuns
    <3> HIDE DEF S, N
    <3>2. IsFiniteSet(N) /\ Cardinality(N) <= Cardinality(S)
      BY <2>1, <3>1, FS_Subset
    <3>3. Cardinality(N) \in Nat
      BY <3>2, FS_CardinalityType
    <3>4. Cardinality(N) <= WorkspaceLimit
      BY <2>1, <2>2, <3>2, <3>3, ConstantsAssumption
    <3> QED BY <3>4 DEF N
  <2> QED BY <2>3, <2>4
<1>7. LeasesWithinLimits'
  BY <1>5, <1>6 DEF LeasesWithinLimits, Sharing
<1> QED BY <1>4, <1>7 DEF LimitsInv

\* What a batch row may become in a step that starts no execution.
LEMMA NoLeaseAdded ==
    ASSUME TypeOK, Next,
           ~ \E b \in Batches, owner \in Owners, t \in Tokens \ HeldTokens, left \in 0..LeaseTtl :
                StartBatchExecution(b, owner, t, left)
    PROVE  \A b \in Batches :
              batches'[b].status = "running" /\ Live(batches'[b].expiry)
                 => /\ batches[b].status = "running" /\ Live(batches[b].expiry)
                    /\ batches'[b].stream = batches[b].stream
<1> SUFFICES ASSUME NEW b \in Batches, batches'[b].status = "running",
                    Live(batches'[b].expiry)
             PROVE  /\ batches[b].status = "running" /\ Live(batches[b].expiry)
                    /\ batches'[b].stream = batches[b].stream
  OBVIOUS
<1> DEFINE Kept == batches'[b] = batches[b]
<1>0. /\ batches \in [Batches -> Batch]
      /\ \A c \in Batches : \A st : Unleased(batches[c], st).status = st
      /\ \A c \in Batches : Rearmed(batches[c]).status = "retry_wait"
  BY DEF TypeOK, Unleased, Rearmed, Batch
<1>1. CASE MemberNext
  BY <1>1 DEF MemberNext, InsertMember, ConflictMember, ApplyExclusionVerdict, TimeoutStaleQueue
<1>2. CASE SealNext
  <2>1. ASSUME NEW s \in Streams, NEW c \in Batches, NEW t \in Tokens,
               NEW M \in SUBSET Members, SealBatch(s, c, M, t)
        PROVE  Kept
    <3>1. PICK oldest \in M : batches' = [batches EXCEPT ![c] = [NoBatch EXCEPT
                     !.status = "dispatch_pending", !.stream = s,
                     !.age = members[oldest].age]]
      BY <2>1 DEF SealBatch
    <3> QED BY <1>0, <3>1 DEF NoBatch
  <2> QED BY <1>2, <2>1 DEF SealNext, AcquireReservation, RenewReservation, ReleaseReservation
<1>3. CASE DispatchNext
  <2>1. ASSUME NEW c \in Batches, NEW t \in Tokens, NEW left \in 0..ClaimTtl,
               ConfirmDispatch(c, t, left)
        PROVE  Kept
    BY <1>0, <2>1 DEF ConfirmDispatch, Batch
  <2>2. ASSUME NEW c \in Batches, NEW delay \in 0..MaxDelay, DeferBatchExecution(c, delay)
        PROVE  Kept
    BY <1>0, <2>2 DEF DeferBatchExecution, Batch
  <2>3. ASSUME NEW c \in Batches, RequeueStalledBatch(c) PROVE Kept
    BY <1>0, <2>3 DEF RequeueStalledBatch
  <2> QED BY <1>3, <2>1, <2>2, <2>3 DEF DispatchNext, ClaimDispatch, AbortDispatch
<1>4. CASE ExecuteNext
  <2>1. ASSUME NEW c \in Batches, NEW t \in Tokens, RenewBatchLease(c, t)
        PROVE  /\ batches[b].status = "running" /\ Live(batches[b].expiry)
               /\ batches'[b].stream = batches[b].stream
    BY <1>0, <2>1 DEF RenewBatchLease, Leased, Batch
  <2>2. ASSUME NEW c \in Batches, NEW t \in Tokens, NEW outcome \in {"completed", "skipped"},
               CompleteBatch(c, t, outcome)
        PROVE  Kept
    BY <1>0, <2>2 DEF CompleteBatch
  <2>3. ASSUME NEW c \in Batches, NEW t \in Tokens, NEW dead \in BOOLEAN,
               NEW delay \in 0..MaxDelay, FailBatch(c, t, dead, delay)
        PROVE  Kept
    BY <1>0, <2>3 DEF FailBatch
  <2>4. ASSUME NEW B, Reclaim(B) PROVE Kept
    BY <1>0, <2>4 DEF Reclaim
  <2> QED BY <1>4, <2>1, <2>2, <2>3, <2>4
          DEF ExecuteNext, ReclaimExpiredBatchLeases, ReclaimBatchesByOwner
<1>5. CASE OperateNext
  <2>1. ASSUME NEW B, TerminalSkip(B) PROVE Kept
    BY <1>0, <2>1 DEF TerminalSkip
  <2>2. ASSUME NEW B, RecoverDeadBatches(B) PROVE Kept
    BY <1>0, <2>2 DEF RecoverDeadBatches
  <2>3. ASSUME NEW B, PruneBatchHistory(B) PROVE Kept
    BY <1>0, <2>3 DEF PruneBatchHistory, NoBatch
  <2>4. ASSUME NEW c \in Batches, RequeueBatchForRecovery(c) PROVE Kept
    <3>1. [Rearmed(batches[c]) EXCEPT !.age = 0].status = "retry_wait"
      BY <1>0 DEF Rearmed, Unleased, Batch
    <3> QED BY <1>0, <2>4, <3>1 DEF RequeueBatchForRecovery
  <2> QED BY <1>5, <2>1, <2>2, <2>3, <2>4
          DEF OperateNext, SweepNext, RetryNext, CancelQueuedBatches, TimeoutStaleBatches
<1>6. CASE Tick
  <2>1. /\ batches'[b].status = batches[b].status
        /\ batches'[b].stream = batches[b].stream
        /\ batches'[b].expiry = Sooner(batches[b].expiry)
    BY ZenonT(40), <1>0, <1>6 DEF Tick, Batch
  <2> QED BY <2>1 DEF Sooner
<1> QED BY <1>1, <1>2, <1>3, <1>4, <1>5, <1>6 DEF Next

LEMMA InitLimits == Init => LimitsInv
<1> SUFFICES ASSUME Init PROVE LimitsInv
  OBVIOUS
<1>1. TypeOK
  BY InitTypeOK
<1>2. LiveRuns = {}
  <2>1. PICK home \in [Batches -> Streams \cup {None}] :
             batches = [b \in Batches |-> IF home[b] = None THEN NoBatch
                                          ELSE DeadBatch(home[b])]
    BY DEF Init, InitFrom
  <2>2. NoBatch.status = "unused" /\ \A st : DeadBatch(st).status = "dead"
    BY DEF NoBatch, DeadBatch
  <2>3. \A b \in Batches : batches[b].status # "running"
    BY <2>1, <2>2
  <2> QED BY <2>3 DEF LiveRuns
<1>3. /\ IsFiniteSet(LiveRuns) /\ Cardinality(LiveRuns) = 0
      /\ \A w : Sharing(w) = {}
  BY <1>2, FS_EmptySet DEF Sharing
<1>4. LeasesWithinLimits
  <2>1. \A w : Cardinality(Sharing(w)) = 0
    BY <1>3, FS_EmptySet
  <2> QED BY <1>3, <2>1, LimitsMeaning, ConstantsAssumption
<1> QED BY <1>1, <1>3, <1>4 DEF LimitsInv

LEMMA StepLimits == LimitsInv /\ [Next]_vars => LimitsInv'
<1> SUFFICES ASSUME LimitsInv, [Next]_vars PROVE LimitsInv'
  OBVIOUS
<1>1. CASE UNCHANGED vars
  BY <1>1 DEF vars, LimitsInv, TypeOK, LiveRuns, LeasesWithinLimits
<1>2. CASE Next
  <2>1. TypeOK /\ TypeOK'
    BY <1>2, MemberTypeOK, SealTypeOK, DispatchTypeOK, ExecuteTypeOK, OperateTypeOK,
       TickTypeOK DEF Next, LimitsInv
  <2>2. CASE \E b \in Batches, owner \in Owners, t \in Tokens \ HeldTokens,
                left \in 0..LeaseTtl : StartBatchExecution(b, owner, t, left)
    BY <2>1, <2>2, StartLimits
  <2>3. CASE ~ \E b \in Batches, owner \in Owners, t \in Tokens \ HeldTokens,
                  left \in 0..LeaseTtl : StartBatchExecution(b, owner, t, left)
    BY <1>2, <2>1, <2>3, NoLeaseAdded, LimitsKept
  <2> QED BY <2>2, <2>3
<1> QED BY <1>1, <1>2

-----------------------------------------------------------------------------
\* Unexpired leases never exceed the global limit and the limit of a workspace,
\* whatever the callers of the store do, for any number of batches and streams.
THEOREM LimitsHold == Spec => []LeasesWithinLimits
<1>1. LimitsInv => LeasesWithinLimits
  BY DEF LimitsInv
<1> QED BY <1>1, InitLimits, StepLimits, PTL DEF Spec

-----------------------------------------------------------------------------
Bound == {"batched", "completed", "dead", "skipped"}
Free == {"absent", "pending", "failed", "skipped"}
OpenStatus == Queued \cup {"running"}

\* A batch of status rs may have a commit of status ms.
Agrees(rs, ms) ==
    /\ rs # "unused" /\ ms \in Bound
    /\ rs \in OpenStatus <=> ms = "batched"
    /\ rs \in Terminal => ms = rs \/ (rs = "skipped" /\ ms = "dead")

MemberOK(m) ==
    LET b == members[m].batch
    IN  IF b = None THEN members[m].status \in Free
        ELSE /\ Agrees(batches[b].status, members[m].status)
             /\ batches[b].stream \in {StreamOf[m], None}

MembersOK == /\ \A m \in Members : MemberOK(m)
             /\ \A b \in Batches : batches[b].status \notin {"unused", "pruned"}
                                      => MembersOf(b) # {}

MembersInv == IInv /\ MembersOK

\* What the commits of a batch depend on: it stays open, keeps its status or is
\* pruned after it settled.
SameClass(from, to) == \/ to = from
                       \/ from \in OpenStatus /\ to \in OpenStatus
                       \/ from \in Terminal /\ to = "pruned"

LEMMA StatusesApart ==
    /\ OpenStatus \cap Terminal = {} /\ OpenStatus \cap {"unused", "pruned"} = {}
    /\ Terminal \cap {"unused", "pruned"} = {}
    /\ "running" \in OpenStatus /\ "retry_wait" \in OpenStatus /\ "queued" \in OpenStatus
    /\ "dispatch_pending" \in OpenStatus
    /\ "dead" \in Terminal /\ "skipped" \in Terminal /\ "completed" \in Terminal
BY DEF OpenStatus, Queued, Terminal

LEMMA AgreesKept ==
    \A rs, st, ms : Agrees(rs, ms) /\ SameClass(rs, st) => Agrees(st, ms)
<1> SUFFICES ASSUME NEW rs, NEW st, NEW ms, Agrees(rs, ms), SameClass(rs, st)
             PROVE  Agrees(st, ms)
  OBVIOUS
<1>1. CASE st = rs
  BY <1>1
<1>2. CASE rs \in OpenStatus /\ st \in OpenStatus
  BY <1>2, StatusesApart DEF Agrees
<1>3. CASE rs \in Terminal /\ st = "pruned"
  BY <1>3, StatusesApart DEF Agrees, Terminal, Bound
<1> QED BY <1>1, <1>2, <1>3 DEF SameClass

LEMMA MembersMeaning == TypeOK /\ MembersOK => MembersFollowBatch
<1> SUFFICES ASSUME TypeOK, MembersOK PROVE MembersFollowBatch
  OBVIOUS
<1>1. ASSUME NEW m \in Members
      PROVE  /\ members[m].status \in {"absent", "pending", "failed"}
                   => members[m].batch = None
             /\ members[m].status \in {"batched", "completed", "dead"}
                   => members[m].batch # None
  BY DEF MembersOK, MemberOK, Agrees, Bound, Free
<1>2. ASSUME NEW m \in Members, members[m].batch # None
      PROVE  LET b == members[m].batch
             IN  /\ batches[b].status # "unused"
                 /\ batches[b].stream \in {StreamOf[m], None}
                 /\ Open(b) => members[m].status = "batched"
                 /\ batches[b].status \in Terminal =>
                       members[m].status \in {batches[b].status}
                          \cup (IF batches[b].status = "skipped" THEN {"dead"} ELSE {})
                 /\ members[m].status = "batched" => Open(b)
  BY <1>2 DEF MembersOK, MemberOK, Agrees, Open, OpenStatus
<1> QED BY <1>1, <1>2 DEF MembersFollowBatch, MembersOK

-----------------------------------------------------------------------------
(* Three ways a transaction treats the commits. *)

\* It leaves them with their batches, which keep their class.
LEMMA Unmoved ==
    ASSUME TypeOK, MembersOK,
           \A m \in Members : /\ members'[m].batch = members[m].batch
                              /\ members'[m].status = members[m].status,
           \A b \in Batches : /\ SameClass(batches[b].status, batches'[b].status)
                              /\ batches'[b].stream \in {batches[b].stream, None}
    PROVE  MembersOK'
<1>1. ASSUME NEW m \in Members PROVE MemberOK(m)'
  <2>1. CASE members[m].batch = None
    BY <2>1 DEF MembersOK, MemberOK
  <2>2. CASE members[m].batch # None
    <3>1. members[m].batch \in Batches
      BY <2>2 DEF TypeOK, Member
    <3> QED BY <2>2, <3>1, AgreesKept DEF MembersOK, MemberOK
  <2> QED BY <2>1, <2>2
<1>2. ASSUME NEW b \in Batches, batches'[b].status \notin {"unused", "pruned"}
      PROVE  MembersOf(b)' # {}
  <2>1. batches[b].status \notin {"unused", "pruned"}
    BY <1>2, StatusesApart DEF SameClass
  <2>2. MembersOf(b) # {}
    BY <2>1 DEF MembersOK
  <2> QED BY <2>2 DEF MembersOf
<1> QED BY <1>1, <1>2 DEF MembersOK

\* It moves the commits of some batches together with those batches.
LEMMA Moved ==
    ASSUME TypeOK, MembersOK, NEW B \in SUBSET Batches, NEW From, NEW to,
           MoveMembers(B, From, to),
           \A b \in B :
              /\ batches[b].status \notin {"unused", "pruned"}
              /\ batches'[b].stream = batches[b].stream
              /\ \A ms \in MemberStatus :
                    Agrees(batches[b].status, ms)
                       => Agrees(batches'[b].status, IF ms \in From THEN to ELSE ms),
           \A b \in Batches \ B : /\ SameClass(batches[b].status, batches'[b].status)
                                  /\ batches'[b].stream = batches[b].stream
    PROVE  MembersOK'
<1>0. \A m \in Members :
         /\ members[m] \in Member
         /\ members'[m].batch = members[m].batch
         /\ members'[m].status = IF members[m].batch \in B /\ members[m].status \in From
                                 THEN to ELSE members[m].status
  BY DEF TypeOK, Member, MoveMembers
<1>1. ASSUME NEW m \in Members PROVE MemberOK(m)'
  <2>1. CASE members[m].batch = None
    <3>1. members[m].batch \notin B
      BY <2>1, NoneApart
    <3> QED BY <1>0, <2>1, <3>1 DEF MembersOK, MemberOK
  <2>2. CASE members[m].batch \in B
    <3>1. members[m].status \in MemberStatus
      BY <1>0 DEF Member
    <3>2. members[m].batch # None
      BY <2>2, NoneApart
    <3>3. Agrees(batches[members[m].batch].status, members[m].status)
          /\ batches[members[m].batch].stream \in {StreamOf[m], None}
      BY <3>2 DEF MembersOK, MemberOK
    <3> QED BY <1>0, <2>2, <3>1, <3>2, <3>3 DEF MemberOK
  <2>3. CASE members[m].batch \in Batches \ B
    <3>1. members[m].batch # None
      BY <2>3, NoneApart
    <3>2. Agrees(batches[members[m].batch].status, members[m].status)
          /\ batches[members[m].batch].stream \in {StreamOf[m], None}
      BY <3>1 DEF MembersOK, MemberOK
    <3> QED BY <1>0, <2>3, <3>1, <3>2, AgreesKept DEF MemberOK
  <2> QED BY <1>0, <2>1, <2>2, <2>3 DEF Member
<1>2. ASSUME NEW b \in Batches, batches'[b].status \notin {"unused", "pruned"}
      PROVE  MembersOf(b)' # {}
  <2>1. batches[b].status \notin {"unused", "pruned"}
    BY <1>2, StatusesApart DEF SameClass
  <2>2. MembersOf(b) # {}
    BY <2>1 DEF MembersOK
  <2> QED BY <1>0, <2>2 DEF MembersOf
<1> QED BY <1>1, <1>2 DEF MembersOK

\* It changes commits that belong to no batch.
LEMMA Loose ==
    ASSUME MembersOK, UNCHANGED batches,
           \A m \in Members :
              /\ members'[m].batch = members[m].batch
              /\ \/ members'[m].status = members[m].status
                 \/ members[m].batch = None /\ members'[m].status \in Free
    PROVE  MembersOK'
<1>1. ASSUME NEW m \in Members PROVE MemberOK(m)'
  BY DEF MembersOK, MemberOK
<1>2. \A b \in Batches : MembersOf(b)' = MembersOf(b)
  BY DEF MembersOf
<1> QED BY <1>1, <1>2 DEF MembersOK

-----------------------------------------------------------------------------
(* The initial states, and one lemma per group of actions. *)

LEMMA InitMembers == Init => MembersOK
<1> SUFFICES ASSUME NEW home \in [Batches -> Streams \cup {None}],
                    NEW owned \in [Members -> Batches \cup {None}],
                    NEW active \in [Streams -> Batches \cup {None}],
                    InitFrom(home, owned, active)
             PROVE  MembersOK
  BY DEF Init
<1>1. /\ batches = [b \in Batches |-> IF home[b] = None THEN NoBatch
                                      ELSE DeadBatch(home[b])]
      /\ members = [m \in Members |-> IF owned[m] = None THEN NoMember
                      ELSE [NoMember EXCEPT !.status = "dead", !.batch = owned[m]]]
      /\ \A m \in Members : owned[m] # None => home[owned[m]] = StreamOf[m]
      /\ \A b \in Batches : home[b] # None => \E m \in Members : owned[m] = b
  BY DEF InitFrom
<1>2. /\ NoBatch.status = "unused"
      /\ \A st : DeadBatch(st).status = "dead" /\ DeadBatch(st).stream = st
      /\ NoMember.status = "absent" /\ NoMember.batch = None
  BY DEF NoBatch, DeadBatch, NoMember
<1>3. ASSUME NEW m \in Members, owned[m] # None
      PROVE  members[m].status = "dead" /\ members[m].batch = owned[m]
  BY <1>1, <1>3 DEF NoMember
<1>4. ASSUME NEW m \in Members PROVE MemberOK(m)
  <2>1. CASE owned[m] = None
    BY <1>1, <1>2, <2>1 DEF MemberOK, Free
  <2>2. CASE owned[m] # None
    <3>1. owned[m] \in Batches /\ home[owned[m]] = StreamOf[m] /\ StreamOf[m] # None
      <4>1. StreamOf[m] \in Streams /\ StreamOf[m] # None
        BY NoneApart, ConstantsAssumption
      <4>2. owned[m] \in Batches
        BY <2>2
      <4> QED BY <1>1, <2>2, <4>1, <4>2
    <3>2. batches[owned[m]] = DeadBatch(StreamOf[m])
      BY <1>1, <3>1
    <3>3. batches[owned[m]].status = "dead" /\ batches[owned[m]].stream = StreamOf[m]
      BY <1>2, <3>2
    <3> QED BY <1>3, <2>2, <3>3, StatusesApart DEF MemberOK, Agrees, Bound
  <2> QED BY <2>1, <2>2
<1>5. ASSUME NEW b \in Batches, batches[b].status \notin {"unused", "pruned"}
      PROVE  MembersOf(b) # {}
  <2>1. home[b] # None
    BY <1>1, <1>2, <1>5
  <2>2. PICK m \in Members : owned[m] = b
    BY <1>1, <2>1
  <2>3. m \in MembersOf(b)
    BY <1>3, <2>2, NoneApart DEF MembersOf
  <2> QED BY <2>3
<1> QED BY <1>4, <1>5 DEF MembersOK

LEMMA MemberStep == MembersInv /\ MemberNext => MembersOK'
<1> SUFFICES ASSUME MembersInv, MemberNext PROVE MembersOK'
  OBVIOUS
<1>0. members \in [Members -> Member] /\ UNCHANGED batches
  BY DEF MembersInv, IInv, TypeOK, MemberNext, InsertMember, ConflictMember,
         ApplyExclusionVerdict, TimeoutStaleQueue
<1>1. \A m \in Members : members[m].status \in {"absent", "pending"} => members[m].batch = None
  BY DEF MembersInv, MembersOK, MemberOK, Agrees, Bound
<1>2. ASSUME NEW m \in Members
      PROVE  /\ members'[m].batch = members[m].batch
             /\ \/ members'[m].status = members[m].status
                \/ members[m].batch = None /\ members'[m].status \in Free
  <2>1. ASSUME NEW n \in Members, InsertMember(n) PROVE <1>2!2
    BY <1>0, <1>1, <2>1 DEF InsertMember, Member, Free
  <2>2. ASSUME NEW n \in Members, ConflictMember(n) PROVE <1>2!2
    BY <1>0, <2>2 DEF ConflictMember, Member
  <2>3. ASSUME NEW n \in Members, NEW status \in {"skipped", "failed"},
               ApplyExclusionVerdict(n, status)
        PROVE  <1>2!2
    BY <1>0, <1>1, <2>3 DEF ApplyExclusionVerdict, Member, Free
  <2>4. CASE TimeoutStaleQueue
    BY <1>0, <2>4 DEF TimeoutStaleQueue, Member, Free
  <2> QED BY <2>1, <2>2, <2>3, <2>4 DEF MemberNext
<1> QED BY <1>0, <1>2, Loose DEF MembersInv

LEMMA SealStep == MembersInv /\ SealNext => MembersOK'
<1> SUFFICES ASSUME MembersInv, SealNext PROVE MembersOK'
  OBVIOUS
<1>0. TypeOK /\ MembersOK
  BY DEF MembersInv, IInv
<1>1. ASSUME NEW s \in Streams, NEW t \in Tokens,
             AcquireReservation(s, t) \/ RenewReservation(s, t) \/ ReleaseReservation(s, t)
      PROVE  MembersOK'
  <2>1. UNCHANGED <<batches, members>>
    BY <1>1 DEF AcquireReservation, RenewReservation, ReleaseReservation
  <2> QED BY <1>0, <2>1, Loose
<1>2. ASSUME NEW s \in Streams, NEW b \in Batches, NEW t \in Tokens,
             NEW M \in SUBSET Members, SealBatch(s, b, M, t)
      PROVE  MembersOK'
  <2>1. PICK age : batches' = [batches EXCEPT ![b] = [NoBatch EXCEPT
                     !.status = "dispatch_pending", !.stream = s, !.age = age]]
    BY <1>2 DEF SealBatch
  <2>2. /\ batches'[b].status = "dispatch_pending" /\ batches'[b].stream = s
        /\ \A c \in Batches \ {b} : batches'[c] = batches[c]
    BY <1>0, <2>1 DEF TypeOK, NoBatch
  <2>3. /\ \A m \in M : members'[m].status = "batched" /\ members'[m].batch = b
        /\ \A m \in Members \ M : members'[m] = members[m]
        /\ \A m \in M : StreamOf[m] = s /\ members[m].batch = None
        /\ M # {} /\ batches[b].status = "unused"
    <3>1. members' = [m \in Members |->
                        IF m \in M THEN [members[m] EXCEPT !.status = "batched",
                                                           !.batch = b, !.age = 0]
                        ELSE members[m]]
      BY <1>2 DEF SealBatch
    <3>2. \A m \in M : members'[m].status = "batched" /\ members'[m].batch = b
      BY <1>0, <3>1 DEF TypeOK, Member
    <3>3. \A m \in Members \ M : members'[m] = members[m]
      BY <3>1
    <3> QED BY <1>2, <3>2, <3>3 DEF SealBatch, Sealable
  <2>4. \A m \in Members : members[m].batch # b
    BY <1>0, <2>3, NoneApart DEF MembersOK, MemberOK, Agrees
  <2>5. ASSUME NEW m \in Members PROVE MemberOK(m)'
    <3>1. CASE m \in M
      BY <2>2, <2>3, <3>1, NoneApart, StatusesApart DEF MemberOK, Agrees, Bound
    <3>2. CASE m \notin M
      <4>1. members[m].batch \in (Batches \ {b}) \cup {None}
        BY <1>0, <2>4 DEF TypeOK, Member
      <4> QED BY <1>0, <2>2, <2>3, <3>2, <4>1 DEF MembersOK, MemberOK
    <3> QED BY <3>1, <3>2
  <2>6. ASSUME NEW c \in Batches, batches'[c].status \notin {"unused", "pruned"}
        PROVE  MembersOf(c)' # {}
    <3>1. CASE c = b
      BY <2>3, <3>1 DEF MembersOf
    <3>2. CASE c # b
      <4>1. PICK m \in Members : members[m].batch = c
        BY <1>0, <2>2, <2>6, <3>2 DEF MembersOK, MembersOf
      <4>2. members'[m] = members[m]
        BY <2>3, <4>1, NoneApart
      <4> QED BY <4>1, <4>2 DEF MembersOf
    <3> QED BY <3>1, <3>2
  <2> QED BY <2>5, <2>6 DEF MembersOK
<1> QED BY <1>1, <1>2 DEF SealNext

\* A step that rewrites one open batch, keeps it open and moves no commit.
LEMMA OneOpen ==
    ASSUME TypeOK, MembersOK, NEW b \in Batches, NEW r, batches[b].status \in OpenStatus,
           batches' = [batches EXCEPT ![b] = r], r.status \in OpenStatus,
           r.stream = batches[b].stream, UNCHANGED members
    PROVE  MembersOK'
<1>1. batches'[b] = r /\ \A c \in Batches \ {b} : batches'[c] = batches[c]
  BY DEF TypeOK
<1>2. \A c \in Batches : /\ SameClass(batches[c].status, batches'[c].status)
                         /\ batches'[c].stream = batches[c].stream
  BY <1>1 DEF SameClass
<1> QED BY <1>2, Unmoved

LEMMA DispatchStep == MembersInv /\ DispatchNext => MembersOK'
<1> SUFFICES ASSUME MembersInv, DispatchNext PROVE MembersOK'
  OBVIOUS
<1>0. TypeOK /\ MembersOK /\ RowsOK
  BY DEF MembersInv, IInv
<1>1. ASSUME UNCHANGED <<batches, members>> PROVE MembersOK'
  BY <1>0, <1>1, Loose
<1>2. ASSUME NEW b \in Batches, NEW t \in Tokens, NEW left \in 0..ClaimTtl,
             ConfirmDispatch(b, t, left)
      PROVE  MembersOK'
  <2> DEFINE r == [batches[b] EXCEPT !.status = "queued", !.expiry = left]
  <2>1. batches' = [batches EXCEPT ![b] = r] /\ UNCHANGED members /\ outbox[b].token = t
    BY <1>2 DEF ConfirmDispatch
  <2>2. batches[b].status \in OpenStatus
    BY <1>0, <2>1, NoneApart, StatusesApart DEF RowsOK, RowOK
  <2>3. r.status = "queued" /\ r.stream = batches[b].stream
    BY <1>0 DEF TypeOK, Batch
  <2> HIDE DEF r
  <2> QED BY <1>0, <2>1, <2>2, <2>3, StatusesApart, OneOpen
<1>3. ASSUME NEW b \in Batches, NEW delay \in 0..MaxDelay, DeferBatchExecution(b, delay)
      PROVE  MembersOK'
  <2> DEFINE r == [batches[b] EXCEPT !.status = "retry_wait", !.expiry = None]
  <2>1. batches' = [batches EXCEPT ![b] = r] /\ UNCHANGED members
        /\ batches[b].status = "queued"
    BY <1>3 DEF DeferBatchExecution
  <2>2. r.status = "retry_wait" /\ r.stream = batches[b].stream
    BY <1>0 DEF TypeOK, Batch
  <2> HIDE DEF r
  <2> QED BY <1>0, <2>1, <2>2, StatusesApart, OneOpen
<1>4. ASSUME NEW b \in Batches, RequeueStalledBatch(b) PROVE MembersOK'
  <2> DEFINE r == Unleased(batches[b], "retry_wait")
  <2>1. batches' = [batches EXCEPT ![b] = r] /\ UNCHANGED members
        /\ batches[b].status \in OpenStatus
    BY <1>4 DEF RequeueStalledBatch, OpenStatus
  <2>2. r.status = "retry_wait" /\ r.stream = batches[b].stream
    BY <1>0, RowColumns DEF TypeOK
  <2> HIDE DEF r
  <2> QED BY <1>0, <2>1, <2>2, StatusesApart, OneOpen
<1> QED BY <1>1, <1>2, <1>3, <1>4 DEF DispatchNext, ClaimDispatch, AbortDispatch

\* A settle moves every commit of the batch to the outcome.
LEMMA OneSettled ==
    ASSUME TypeOK, MembersOK, NEW b \in Batches, NEW outcome \in {"completed", "skipped"},
           batches[b].status = "running",
           batches' = [batches EXCEPT ![b] = Unleased(batches[b], outcome)],
           MoveMembers({b}, MemberStatus, outcome)
    PROVE  MembersOK'
<1>1. batches[b] \in Batch
  BY DEF TypeOK
<1>2. batches'[b].status = outcome /\ batches'[b].stream = batches[b].stream
  BY <1>1, RowColumns DEF TypeOK
<1>3. \A c \in Batches \ {b} : batches'[c] = batches[c]
  BY DEF TypeOK
<1>4. Agrees(outcome, outcome)
  BY StatusesApart DEF Agrees, Bound, OpenStatus, Queued
<1> DEFINE B == {b}
<1>5. \A c \in B : /\ batches[c].status \notin {"unused", "pruned"}
                   /\ batches'[c].stream = batches[c].stream
                   /\ \A ms \in MemberStatus : Agrees(batches'[c].status,
                         IF ms \in MemberStatus THEN outcome ELSE ms)
  BY <1>2, <1>4
<1>6. \A c \in Batches \ B : /\ SameClass(batches[c].status, batches'[c].status)
                             /\ batches'[c].stream = batches[c].stream
  BY <1>3 DEF SameClass
<1>7. B \in SUBSET Batches /\ MoveMembers(B, MemberStatus, outcome)
  OBVIOUS
<1> HIDE DEF B
<1> QED BY <1>5, <1>6, <1>7, Moved

\* A reclaim reopens the batches of B that it does not skip with their commits.
LEMMA ReclaimStep ==
    ASSUME TypeOK, MembersOK, NEW B \in SUBSET Batches, Reclaim(B),
           \A b \in B : batches[b].status \in OpenStatus
    PROVE  MembersOK'
<1> DEFINE lost == {b \in B : Exhausted(batches[b]) /\ batches[b].recovery # 0}
<1>1. /\ \A b \in lost : batches'[b] = Unleased(batches[b], "skipped")
      /\ \A b \in B \ lost : batches'[b] \in {Rearmed(batches[b]),
                                              Unleased(batches[b], "retry_wait")}
      /\ \A b \in Batches \ B : batches'[b] = batches[b]
      /\ MoveMembers(lost, MemberStatus, "skipped")
      /\ lost \in SUBSET B
  BY DEF Reclaim
<1> HIDE DEF lost
<1>2. \A b \in Batches : batches[b] \in Batch
  BY DEF TypeOK
<1>3. Agrees("skipped", "skipped")
  BY StatusesApart DEF Agrees, Bound, OpenStatus, Queued
<1>4. ASSUME NEW b \in lost
      PROVE  /\ batches[b].status \notin {"unused", "pruned"}
             /\ batches'[b].stream = batches[b].stream
             /\ \A ms \in MemberStatus :
                   Agrees(batches[b].status, ms)
                     => Agrees(batches'[b].status, IF ms \in MemberStatus THEN "skipped" ELSE ms)
  <2>1. batches'[b].status = "skipped" /\ batches'[b].stream = batches[b].stream
    BY <1>1, <1>2, RowColumns
  <2> QED BY <1>1, <1>3, <2>1, StatusesApart
<1>5. ASSUME NEW b \in Batches \ lost
      PROVE  /\ SameClass(batches[b].status, batches'[b].status)
             /\ batches'[b].stream = batches[b].stream
  <2>1. CASE b \in B
    <3>1. batches'[b].status = "retry_wait" /\ batches'[b].stream = batches[b].stream
      BY <1>1, <1>2, <2>1, RowColumns
    <3> QED BY <2>1, <3>1, StatusesApart DEF SameClass
  <2>2. CASE b \notin B
    BY <1>1, <2>2 DEF SameClass
  <2> QED BY <2>1, <2>2
<1>6. lost \in SUBSET Batches
  BY <1>1
<1> QED BY <1>1, <1>4, <1>5, <1>6, Moved

LEMMA ExecuteStep == MembersInv /\ ExecuteNext => MembersOK'
<1> SUFFICES ASSUME MembersInv, ExecuteNext PROVE MembersOK'
  OBVIOUS
<1>0. TypeOK /\ MembersOK /\ \A b \in Batches : batches[b] \in Batch
  BY DEF MembersInv, IInv, TypeOK
<1>1. ASSUME NEW b \in Batches, NEW owner \in Owners, NEW t \in Tokens,
             NEW left \in 0..LeaseTtl, StartBatchExecution(b, owner, t, left)
      PROVE  MembersOK'
  <2> DEFINE r == Leasing(batches[b], owner, t, left)
  <2>1. batches' = [batches EXCEPT ![b] = r] /\ UNCHANGED members
        /\ batches[b].status = "queued"
    BY <1>1 DEF StartBatchExecution
  <2>2. r.status = "running" /\ r.stream = batches[b].stream
    BY <1>0 DEF Leasing, Batch
  <2> HIDE DEF r
  <2> QED BY <1>0, <2>1, <2>2, StatusesApart, OneOpen
<1>2. ASSUME NEW b \in Batches, NEW t \in Tokens, RenewBatchLease(b, t) PROVE MembersOK'
  <2> DEFINE r == [batches[b] EXCEPT !.expiry = LeaseTtl]
  <2>1. batches' = [batches EXCEPT ![b] = r] /\ UNCHANGED members
        /\ batches[b].status = "running"
    <3>1. batches' = [batches EXCEPT ![b].expiry = LeaseTtl]
      BY <1>2 DEF RenewBatchLease
    <3>2. batches' = [batches EXCEPT ![b] = r]
      BY <3>1
    <3> QED BY <1>2, <3>2 DEF RenewBatchLease, Leased
  <2>2. r.status = "running" /\ r.stream = batches[b].stream
    BY <1>0, <2>1 DEF Batch
  <2> HIDE DEF r
  <2> QED BY <1>0, <2>1, <2>2, StatusesApart, OneOpen
<1>3. ASSUME NEW b \in Batches, NEW t \in Tokens, NEW outcome \in {"completed", "skipped"},
             CompleteBatch(b, t, outcome)
      PROVE  MembersOK'
  BY <1>0, <1>3, OneSettled DEF CompleteBatch, Leased
<1>4. ASSUME NEW b \in Batches, NEW t \in Tokens, NEW dead \in BOOLEAN,
             NEW delay \in 0..MaxDelay, FailBatch(b, t, dead, delay)
      PROVE  MembersOK'
  <2>1. batches[b].status = "running"
    BY <1>4 DEF FailBatch, Leased
  <2>2. ASSUME NEW r \in {Rearmed(batches[b]), Unleased(batches[b], "retry_wait")},
               batches' = [batches EXCEPT ![b] = r], UNCHANGED members
        PROVE  MembersOK'
    <3>1. r.status = "retry_wait" /\ r.stream = batches[b].stream
      BY <1>0, RowColumns
    <3> QED BY <1>0, <2>1, <2>2, <3>1, StatusesApart, OneOpen
  <2>3. CASE /\ batches' = [batches EXCEPT ![b] = Unleased(batches[b], "skipped")]
             /\ MoveMembers({b}, MemberStatus, "skipped")
    BY <1>0, <2>1, <2>3, OneSettled
  <2> QED BY <1>4, <2>2, <2>3 DEF FailBatch
<1>5. ASSUME NEW B \in SUBSET Batches, ReclaimExpiredBatchLeases(B) PROVE MembersOK'
  <2>1. Reclaim(B) /\ \A b \in B : batches[b].status \in OpenStatus
    BY <1>5, StatusesApart DEF ReclaimExpiredBatchLeases
  <2> QED BY <1>0, <2>1, ReclaimStep
<1>6. ASSUME NEW owner \in Owners, ReclaimBatchesByOwner(owner) PROVE MembersOK'
  <2> DEFINE B == {b \in Batches : batches[b].status = "running" /\ batches[b].owner = owner}
  <2>1. Reclaim(B) /\ B \in SUBSET Batches /\ \A b \in B : batches[b].status \in OpenStatus
    BY <1>6, StatusesApart DEF ReclaimBatchesByOwner
  <2> HIDE DEF B
  <2> QED BY <1>0, <2>1, ReclaimStep
<1> QED BY <1>1, <1>2, <1>3, <1>4, <1>5, <1>6 DEF ExecuteNext

\* A terminal skip takes open batches and legacy dead ones.
LEMMA TerminalSkipStep ==
    ASSUME TypeOK, MembersOK, NEW B \in SUBSET Batches, TerminalSkip(B),
           \A b \in B : batches[b].status \in OpenStatus \cup {"dead"}
    PROVE  MembersOK'
<1>1. ASSUME NEW b \in B
      PROVE  /\ batches[b].status \notin {"unused", "pruned"}
             /\ batches'[b].stream = batches[b].stream
             /\ \A ms \in MemberStatus :
                   Agrees(batches[b].status, ms)
                     => Agrees(batches'[b].status, IF ms \in {"batched"} THEN "skipped" ELSE ms)
  <2>1. batches'[b] = Unleased(batches[b], "skipped") /\ batches[b] \in Batch
    BY DEF TerminalSkip, TypeOK
  <2>2. batches'[b].status = "skipped" /\ batches'[b].stream = batches[b].stream
    BY <2>1, RowColumns
  <2>3. ASSUME NEW ms \in MemberStatus, Agrees(batches[b].status, ms)
        PROVE  Agrees("skipped", IF ms \in {"batched"} THEN "skipped" ELSE ms)
    <3>1. CASE ms = "batched"
      BY <3>1, StatusesApart DEF Agrees, Bound
    <3>2. CASE ms # "batched"
      <4>1. batches[b].status = "dead" /\ ms = "dead"
        BY <2>3, <3>2, StatusesApart DEF Agrees
      <4> QED BY <3>2, <4>1, StatusesApart DEF Agrees, Bound
    <3> QED BY <3>1, <3>2
  <2> QED BY <2>2, <2>3, StatusesApart
<1>2. \A b \in Batches \ B : /\ SameClass(batches[b].status, batches'[b].status)
                             /\ batches'[b].stream = batches[b].stream
  BY DEF TerminalSkip, SameClass
<1>3. MoveMembers(B, {"batched"}, "skipped")
  BY DEF TerminalSkip
<1> QED BY <1>1, <1>2, <1>3, Moved

\* A re-armed batch takes back all its commits, dead or skipped.
LEMMA RearmStep ==
    ASSUME TypeOK, MembersOK, NEW B \in SUBSET Batches, NEW From,
           MoveMembers(B, From, "batched"),
           \A b \in B : /\ batches[b].status \in {"dead", "skipped"}
                        /\ "dead" \in From
                        /\ batches[b].status = "skipped" => "skipped" \in From
                        /\ batches'[b].status = "retry_wait"
                        /\ batches'[b].stream = batches[b].stream,
           \A b \in Batches \ B : batches'[b] = batches[b]
    PROVE  MembersOK'
<1>1. ASSUME NEW b \in B, NEW ms \in MemberStatus, Agrees(batches[b].status, ms)
      PROVE  Agrees("retry_wait", IF ms \in From THEN "batched" ELSE ms)
  <2>1. ms \in From
    BY <1>1, StatusesApart DEF Agrees
  <2> QED BY <2>1, StatusesApart DEF Agrees, Bound
<1>2. \A b \in B : batches[b].status \notin {"unused", "pruned"}
  OBVIOUS
<1>3. \A b \in Batches \ B : /\ SameClass(batches[b].status, batches'[b].status)
                             /\ batches'[b].stream = batches[b].stream
  BY DEF SameClass
<1> QED BY <1>1, <1>2, <1>3, Moved

LEMMA OperateStep == MembersInv /\ OperateNext => MembersOK'
<1> SUFFICES ASSUME MembersInv, OperateNext PROVE MembersOK'
  OBVIOUS
<1>0. TypeOK /\ MembersOK /\ \A b \in Batches : batches[b] \in Batch
  BY DEF MembersInv, IInv, TypeOK
<1>1. ASSUME NEW B \in SUBSET Batches, RecoverDeadBatches(B) PROVE MembersOK'
  <2>1. /\ \A b \in B : batches[b].status = "dead" /\ batches'[b] = Rearmed(batches[b])
        /\ \A b \in Batches \ B : batches'[b] = batches[b]
        /\ MoveMembers(B, {"dead"}, "batched")
    BY <1>1 DEF RecoverDeadBatches
  <2>2. \A b \in B : /\ batches'[b].status = "retry_wait"
                     /\ batches'[b].stream = batches[b].stream
    BY <1>0, <2>1, RowColumns
  <2> QED BY <1>0, <2>1, <2>2, RearmStep
<1>2. ASSUME NEW b \in Batches, RequeueBatchForRecovery(b) PROVE MembersOK'
  <2> DEFINE B == {b}
  <2>1. /\ batches[b].status \in {"dead", "skipped"}
        /\ batches' = [batches EXCEPT ![b] = [Rearmed(batches[b]) EXCEPT !.age = 0]]
        /\ MoveMembers({b}, {"dead", "skipped"}, "batched")
    BY <1>2 DEF RequeueBatchForRecovery
  <2>2. /\ Rearmed(batches[b]) \in Batch
        /\ batches'[b] = [Rearmed(batches[b]) EXCEPT !.age = 0]
    BY <1>0, <2>1, RowTypes DEF TypeOK
  <2>3. batches'[b].status = "retry_wait" /\ batches'[b].stream = batches[b].stream
    <3>1. /\ batches'[b].status = Rearmed(batches[b]).status
          /\ batches'[b].stream = Rearmed(batches[b]).stream
      BY <2>2 DEF Batch
    <3> QED BY <1>0, <3>1, RowColumns
  <2>4. \A c \in Batches \ {b} : batches'[c] = batches[c]
    BY <1>0, <2>1 DEF TypeOK
  <2>5. /\ B \in SUBSET Batches
        /\ \A c \in B : /\ batches[c].status \in {"dead", "skipped"}
                        /\ batches'[c].status = "retry_wait"
                        /\ batches'[c].stream = batches[c].stream
        /\ \A c \in Batches \ B : batches'[c] = batches[c]
        /\ MoveMembers(B, {"dead", "skipped"}, "batched")
    BY <2>1, <2>3, <2>4
  <2> HIDE DEF B
  <2> QED BY <1>0, <2>5, RearmStep
<1>3. ASSUME NEW B \in SUBSET Batches, CancelQueuedBatches(B) PROVE MembersOK'
  BY <1>0, <1>3, TerminalSkipStep DEF CancelQueuedBatches, Open, OpenStatus
<1>4. CASE TimeoutStaleBatches
  <2> DEFINE B == {b \in Batches : batches[b].status \in Queued /\ Stale(batches[b].age)}
  <2>1. TerminalSkip(B) /\ B \in SUBSET Batches /\ \A b \in B : batches[b].status \in OpenStatus
    BY <1>4 DEF TimeoutStaleBatches, OpenStatus
  <2> HIDE DEF B
  <2> QED BY <1>0, <2>1, TerminalSkipStep
<1>5. ASSUME NEW B \in SUBSET Batches, PruneBatchHistory(B) PROVE MembersOK'
  <2>1. /\ \A b \in B : /\ batches[b].status \in Terminal
                        /\ batches'[b] = [NoBatch EXCEPT !.status = "pruned"]
        /\ \A b \in Batches \ B : batches'[b] = batches[b]
        /\ UNCHANGED members
    BY <1>5 DEF PruneBatchHistory
  <2>2. \A b \in B : batches'[b].status = "pruned" /\ batches'[b].stream = None
    BY <2>1 DEF NoBatch
  <2>3. \A b \in Batches : /\ SameClass(batches[b].status, batches'[b].status)
                           /\ batches'[b].stream \in {batches[b].stream, None}
    BY <2>1, <2>2 DEF SameClass
  <2> QED BY <1>0, <2>1, <2>3, Unmoved
<1> QED BY <1>1, <1>2, <1>3, <1>4, <1>5 DEF OperateNext, SweepNext, RetryNext

LEMMA TickStep == MembersInv /\ Tick => MembersOK'
<1> SUFFICES ASSUME MembersInv, Tick PROVE MembersOK'
  OBVIOUS
<1>0. TypeOK /\ MembersOK
  BY DEF MembersInv, IInv
<1>1. \A b \in Batches : /\ SameClass(batches[b].status, batches'[b].status)
                         /\ batches'[b].stream = batches[b].stream
  BY <1>0 DEF Tick, TypeOK, Batch, SameClass
<1>2. \A m \in Members : /\ members'[m].batch = members[m].batch
                         /\ members'[m].status = members[m].status
  BY <1>0 DEF Tick, TypeOK, Member
<1> QED BY <1>0, <1>1, <1>2, Unmoved

LEMMA MembersStep == MembersInv /\ [Next]_vars => MembersInv'
<1> SUFFICES ASSUME MembersInv, [Next]_vars PROVE MembersInv'
  OBVIOUS
<1>1. IInv'
  BY StepIInv DEF MembersInv
<1>2. CASE UNCHANGED vars
  BY <1>1, <1>2 DEF vars, MembersInv, MembersOK, MemberOK, MembersOf
<1>3. CASE Next
  BY <1>1, <1>3, MemberStep, SealStep, DispatchStep, ExecuteStep, OperateStep, TickStep
  DEF Next, MembersInv
<1> QED BY <1>2, <1>3

-----------------------------------------------------------------------------
\* A batch and its commits agree in every state any sequence of store calls can
\* reach: no commit is lost between a batch that settled and one that is open.
THEOREM CommitsFollowBatch == Spec => []MembersFollowBatch
<1>1. Init => MembersInv
  BY InitIInv, InitMembers DEF MembersInv
<1>2. MembersInv => MembersFollowBatch
  BY MembersMeaning DEF MembersInv, IInv
<1> QED BY <1>1, <1>2, MembersStep, PTL DEF Spec

-----------------------------------------------------------------------------
(***************************************************************************)
(* What no transaction may do: give a sealed commit to another batch, or   *)
(* reopen settled work in any other way than by re-arming it.              *)
(***************************************************************************)
KeepBatch == \A m \in Members : members[m].batch # None => members'[m].batch = members[m].batch

LEMMA MovedKeepBatch ==
    ASSUME TypeOK, NEW B, NEW From, NEW to, MoveMembers(B, From, to)
    PROVE  KeepBatch
BY DEF KeepBatch, MoveMembers, TypeOK, Member

LEMMA StepKeepsBatch == TypeOK /\ [Next]_vars => KeepBatch
<1> SUFFICES ASSUME TypeOK, [Next]_vars PROVE KeepBatch
  OBVIOUS
<1>0. ASSUME UNCHANGED members PROVE KeepBatch
  BY <1>0 DEF KeepBatch
<1>1. CASE MemberNext
  <2>0. \A m \in Members : members[m] \in Member /\ members \in [Members -> Member]
    BY DEF TypeOK
  <2>1. ASSUME NEW m \in Members,
               \/ InsertMember(m) \/ ConflictMember(m)
               \/ \E status \in {"skipped", "failed"} : ApplyExclusionVerdict(m, status)
        PROVE  \A n \in Members : members'[n].batch = members[n].batch
    BY <2>0, <2>1 DEF InsertMember, ConflictMember, ApplyExclusionVerdict, Member
  <2>2. ASSUME TimeoutStaleQueue
        PROVE  \A n \in Members : members'[n].batch = members[n].batch
    BY <2>0, <2>2 DEF TimeoutStaleQueue, Member
  <2> QED BY <1>1, <2>1, <2>2 DEF KeepBatch, MemberNext
<1>2. CASE SealNext
  <2>1. ASSUME NEW s \in Streams, NEW b \in Batches, NEW t \in Tokens, NEW M \in SUBSET Members,
               SealBatch(s, b, M, t)
        PROVE  KeepBatch
    BY <2>1 DEF SealBatch, Sealable, KeepBatch
  <2> QED BY <1>0, <1>2, <2>1
          DEF SealNext, AcquireReservation, RenewReservation, ReleaseReservation
<1>3. CASE DispatchNext
  BY <1>0, <1>3 DEF DispatchNext, ClaimDispatch, ConfirmDispatch, AbortDispatch,
                    DeferBatchExecution, RequeueStalledBatch
<1>4. CASE ExecuteNext
  BY <1>0, <1>4, MovedKeepBatch DEF ExecuteNext, StartBatchExecution, RenewBatchLease,
     CompleteBatch, FailBatch, ReclaimExpiredBatchLeases, ReclaimBatchesByOwner, Reclaim
<1>5. CASE OperateNext
  BY <1>0, <1>5, MovedKeepBatch DEF OperateNext, SweepNext, RetryNext, RecoverDeadBatches,
     CancelQueuedBatches, PruneBatchHistory, TimeoutStaleBatches, TerminalSkip,
     RequeueBatchForRecovery
<1>6. CASE Tick
  <2>1. \A m \in Members : members'[m].batch = members[m].batch
    BY <1>6 DEF Tick, TypeOK, Member
  <2> QED BY <2>1 DEF KeepBatch
<1>7. CASE UNCHANGED vars
  BY <1>0, <1>7 DEF vars
<1> QED BY <1>1, <1>2, <1>3, <1>4, <1>5, <1>6, <1>7 DEF Next

\* A sealed commit stays with its batch for ever, so that no change is reviewed
\* in two batches.
THEOREM CommitsStayWithBatch == Spec => NeverRegrouped
<1>1. Spec => [][KeepBatch]_vars
  BY StepKeepsBatch, TypeCorrect, PTL DEF Spec
<1> QED BY <1>1, PTL DEF NeverRegrouped, KeepBatch

-----------------------------------------------------------------------------
\* A batch that is not settled, keeps its status, is pruned, or was dead and is
\* cancelled.
Settling(b) == \/ batches[b].status \notin Terminal
               \/ batches'[b].status = batches[b].status
               \/ batches'[b].status = "pruned"
               \/ batches[b].status = "dead" /\ batches'[b].status = "skipped"

Rearming(b) ==
    /\ batches[b].status \in {"skipped", "dead"}
    /\ batches'[b].status = "retry_wait" /\ batches'[b].recovery = 1
    /\ heads[batches[b].stream].active \in {None, b}
    /\ heads'[batches[b].stream].active = b
    /\ \A m \in MembersOf(b) : members'[m].status = "batched"

Settles == \A b \in Batches : Settling(b) \/ Rearming(b)

\* What SettledStaysSettled says of one step.
SettledStep ==
    \A b \in Batches :
       /\ batches[b].status = "completed" => batches'[b].status \in {"completed", "pruned"}
       /\ batches[b].status \in {"skipped", "dead"}
             /\ batches'[b].status \notin Terminal \cup {"pruned"}
             => /\ batches'[b].status = "retry_wait" /\ batches'[b].recovery = 1
                /\ heads[batches[b].stream].active \in {None, b}
                /\ heads'[batches[b].stream].active = b
                /\ \A m \in MembersOf(b) : members'[m].status = "batched"

LEMMA SettlesMeaning == Settles => SettledStep
BY DEF Settles, Settling, Rearming, SettledStep, Terminal

LEMMA SettlesQuiet == ASSUME UNCHANGED batches PROVE Settles
BY DEF Settles, Settling

LEMMA SettlesOne ==
    ASSUME TypeOK, NEW b \in Batches, NEW r, batches' = [batches EXCEPT ![b] = r],
           batches[b].status \notin Terminal
    PROVE  Settles
BY DEF TypeOK, Settles, Settling

LEMMA SettlesSome ==
    ASSUME NEW B \in SUBSET Batches, \A b \in B : batches[b].status \notin Terminal,
           \A b \in Batches \ B : batches'[b] = batches[b]
    PROVE  Settles
BY DEF Settles, Settling

\* The commits of a dead or skipped batch are dead or skipped, so that moving
\* those moves all of them.
LEMMA RearmedMembers ==
    ASSUME TypeOK, MembersOK, NEW B \in SUBSET Batches, NEW From, MoveMembers(B, From, "batched"),
           NEW b \in B, batches[b].status \in {"dead", "skipped"}, "dead" \in From,
           batches[b].status = "skipped" => "skipped" \in From
    PROVE  \A m \in MembersOf(b) : members'[m].status = "batched"
<1> TAKE m \in MembersOf(b)
<1>1. m \in Members /\ members[m].batch = b /\ b # None
  BY NoneApart DEF MembersOf
<1>2. Agrees(batches[b].status, members[m].status)
  BY <1>1 DEF MembersOK, MemberOK
<1>3. members[m].status \in From
  BY <1>2, StatusesApart DEF Agrees
<1> QED BY <1>1, <1>3 DEF MoveMembers, TypeOK, Member

LEMMA DispatchSettles == MembersInv /\ DispatchNext => Settles
<1> SUFFICES ASSUME MembersInv, DispatchNext PROVE Settles
  OBVIOUS
<1>0. TypeOK /\ MembersOK /\ RowsOK
  BY DEF MembersInv, IInv
<1>1. ASSUME NEW b \in Batches, NEW t \in Tokens, NEW left \in 0..ClaimTtl,
             ConfirmDispatch(b, t, left)
      PROVE  Settles
  <2>1. PICK r : batches' = [batches EXCEPT ![b] = r]
    BY <1>1 DEF ConfirmDispatch
  <2>2. batches[b].status \in {"dispatch_pending", "retry_wait"}
    BY <1>0, <1>1, NoneApart DEF ConfirmDispatch, RowsOK, RowOK
  <2> QED BY <1>0, <2>1, <2>2, SettlesOne DEF Terminal
<1>2. ASSUME NEW b \in Batches, NEW delay \in 0..MaxDelay, DeferBatchExecution(b, delay)
      PROVE  Settles
  BY <1>0, <1>2, SettlesOne DEF DeferBatchExecution, Terminal
<1>3. ASSUME NEW b \in Batches, RequeueStalledBatch(b) PROVE Settles
  BY <1>0, <1>3, SettlesOne DEF RequeueStalledBatch, Terminal, Queued
<1> QED BY <1>1, <1>2, <1>3, SettlesQuiet DEF DispatchNext, ClaimDispatch, AbortDispatch

LEMMA ExecuteSettles == MembersInv /\ ExecuteNext => Settles
<1> SUFFICES ASSUME MembersInv, ExecuteNext PROVE Settles
  OBVIOUS
<1>0. TypeOK
  BY DEF MembersInv, IInv
<1>1. ASSUME NEW b \in Batches, NEW owner \in Owners, NEW t \in Tokens, NEW left \in 0..LeaseTtl,
             StartBatchExecution(b, owner, t, left)
      PROVE  Settles
  BY <1>0, <1>1, SettlesOne DEF StartBatchExecution, Terminal
<1>2. ASSUME NEW b \in Batches, NEW t \in Tokens, Leased(b, t),
             \E r : batches' = [batches EXCEPT ![b] = r]
      PROVE  Settles
  BY <1>0, <1>2, SettlesOne DEF Leased, Terminal
<1>3. ASSUME NEW b \in Batches, NEW t \in Tokens, RenewBatchLease(b, t) PROVE Settles
  BY <1>2, <1>3 DEF RenewBatchLease
<1>4. ASSUME NEW b \in Batches, NEW t \in Tokens, NEW outcome, CompleteBatch(b, t, outcome)
      PROVE  Settles
  BY <1>2, <1>4 DEF CompleteBatch
<1>5. ASSUME NEW b \in Batches, NEW t \in Tokens, NEW dead, NEW delay, FailBatch(b, t, dead, delay)
      PROVE  Settles
  BY <1>2, <1>5 DEF FailBatch
<1>6. ASSUME NEW B \in SUBSET Batches, Reclaim(B),
             \A b \in B : batches[b].status \in {"running", "queued"}
      PROVE  Settles
  <2>1. \A b \in Batches \ B : batches'[b] = batches[b]
    BY <1>6 DEF Reclaim
  <2> QED BY <1>6, <2>1, SettlesSome DEF Terminal
<1>7. ASSUME NEW B \in SUBSET Batches, ReclaimExpiredBatchLeases(B) PROVE Settles
  BY <1>6, <1>7 DEF ReclaimExpiredBatchLeases
<1>8. ASSUME NEW owner \in Owners, ReclaimBatchesByOwner(owner) PROVE Settles
  <2> DEFINE B == {b \in Batches : batches[b].status = "running" /\ batches[b].owner = owner}
  <2>1. Reclaim(B) /\ B \in SUBSET Batches /\ \A b \in B : batches[b].status \in {"running", "queued"}
    BY <1>8 DEF ReclaimBatchesByOwner
  <2> HIDE DEF B
  <2> QED BY <1>6, <2>1
<1> QED BY <1>1, <1>3, <1>4, <1>5, <1>7, <1>8 DEF ExecuteNext

LEMMA OperateSettles == MembersInv /\ OperateNext => Settles
<1> SUFFICES ASSUME MembersInv, OperateNext PROVE Settles
  OBVIOUS
<1>0. TypeOK /\ MembersOK /\ OneOpenBatchPerStream /\ \A b \in Batches : batches[b] \in Batch
  BY DEF MembersInv, IInv, TypeOK
<1>s. \A b \in Batches : batches[b].status \in {"dead", "skipped"}
                           => batches[b].stream \in Streams
  BY <1>0 DEF OneOpenBatchPerStream, Batch
<1>1. ASSUME NEW B \in SUBSET Batches, RecoverDeadBatches(B) PROVE Settles
  <2>1. /\ \A b \in B : /\ batches[b].status = "dead" /\ batches'[b] = Rearmed(batches[b])
                         /\ heads[batches[b].stream].active \in {None, b}
        /\ \A b \in Batches \ B : batches'[b] = batches[b]
        /\ MoveMembers(B, {"dead"}, "batched")
        /\ \A b, c \in B : batches[c].stream = batches[b].stream => b = c
    BY <1>1 DEF RecoverDeadBatches
  <2>2. heads' = [s \in Streams |-> IF \E b \in B : batches[b].stream = s
                     THEN [heads[s] EXCEPT !.active = CHOOSE b \in B : batches[b].stream = s]
                     ELSE heads[s]]
    BY <1>1 DEF RecoverDeadBatches
  <2>3. ASSUME NEW b \in B PROVE Rearming(b)
    <3>1. batches[b].stream \in Streams
      BY <1>s, <2>1
    <3>2. (CHOOSE c \in B : batches[c].stream = batches[b].stream) = b
      BY <2>1
    <3>3. heads[batches[b].stream] \in Head
      BY <1>0, <3>1 DEF TypeOK
    <3>4. heads'[batches[b].stream].active = b
      BY <2>2, <3>1, <3>2, <3>3 DEF Head
    <3>5. batches'[b].status = "retry_wait" /\ batches'[b].recovery = 1
      <4>1. batches[b] \in Batch /\ batches'[b] = Rearmed(batches[b])
        BY <1>0, <2>1
      <4>2. \A row \in Batch : Rearmed(row).status = "retry_wait" /\ Rearmed(row).recovery = 1
        BY DEF Rearmed, Unleased, Batch
      <4> QED BY <4>1, <4>2
    <3>6. \A m \in MembersOf(b) : members'[m].status = "batched"
      BY <1>0, <2>1, RearmedMembers
    <3> QED BY <2>1, <3>4, <3>5, <3>6 DEF Rearming
  <2> QED BY <2>1, <2>3 DEF Settles, Settling
<1>2. ASSUME NEW b \in Batches, RequeueBatchForRecovery(b) PROVE Settles
  <2>1. /\ batches[b].status \in {"dead", "skipped"}
        /\ heads[batches[b].stream].active \in {None, b}
        /\ batches' = [batches EXCEPT ![b] = [Rearmed(batches[b]) EXCEPT !.age = 0]]
        /\ MoveMembers({b}, {"dead", "skipped"}, "batched")
        /\ heads' = [heads EXCEPT ![batches[b].stream].active = b]
    BY <1>2 DEF RequeueBatchForRecovery, ClaimStream
  <2>2. /\ batches[b].stream \in Streams
        /\ heads[batches[b].stream] \in Head
    BY <1>0, <1>s, <2>1 DEF TypeOK
  <2>3. heads'[batches[b].stream].active = b
    BY <1>0, <2>1, <2>2 DEF TypeOK, Head
  <2>4. /\ Rearmed(batches[b]) \in Batch
        /\ batches'[b] = [Rearmed(batches[b]) EXCEPT !.age = 0]
    BY <1>0, <2>1, RowTypes DEF TypeOK
  <2>5. batches'[b].status = "retry_wait" /\ batches'[b].recovery = 1
    <3>1. /\ batches'[b].status = Rearmed(batches[b]).status
          /\ batches'[b].recovery = Rearmed(batches[b]).recovery
      BY <2>4 DEF Batch
    <3>2. Rearmed(batches[b]).status = "retry_wait" /\ Rearmed(batches[b]).recovery = 1
      BY <1>0 DEF Rearmed, Unleased, Batch
    <3> QED BY <3>1, <3>2
  <2>6. \A m \in MembersOf(b) : members'[m].status = "batched"
    BY <1>0, <2>1, RearmedMembers
  <2>7. Rearming(b)
    BY <2>1, <2>3, <2>5, <2>6 DEF Rearming
  <2>8. \A c \in Batches : c # b => batches'[c] = batches[c]
    BY <1>0, <2>1 DEF TypeOK
  <2> QED BY <2>7, <2>8 DEF Settles, Settling
<1>3. ASSUME NEW B \in SUBSET Batches, TerminalSkip(B),
             \A b \in B : batches[b].status \notin {"completed", "skipped"}
      PROVE  Settles
  <2>1. /\ \A b \in B : batches'[b].status = "skipped"
        /\ \A b \in Batches \ B : batches'[b] = batches[b]
    BY <1>0, <1>3, RowColumns DEF TerminalSkip
  <2> QED BY <1>3, <2>1 DEF Settles, Settling, Terminal
<1>4. ASSUME NEW B \in SUBSET Batches, CancelQueuedBatches(B) PROVE Settles
  <2>1. \A b \in B : batches[b].status \notin {"completed", "skipped"}
    BY <1>4 DEF CancelQueuedBatches, Open, Queued
  <2> QED BY <1>3, <1>4, <2>1 DEF CancelQueuedBatches
<1>5. CASE TimeoutStaleBatches
  <2> DEFINE B == {b \in Batches : batches[b].status \in Queued /\ Stale(batches[b].age)}
  <2>1. TerminalSkip(B) /\ B \in SUBSET Batches
        /\ \A b \in B : batches[b].status \notin {"completed", "skipped"}
    BY <1>5 DEF TimeoutStaleBatches, Queued
  <2> HIDE DEF B
  <2> QED BY <1>3, <2>1
<1>6. ASSUME NEW B \in SUBSET Batches, PruneBatchHistory(B) PROVE Settles
  <2>1. /\ \A b \in B : batches'[b].status = "pruned"
        /\ \A b \in Batches \ B : batches'[b] = batches[b]
    BY <1>6 DEF PruneBatchHistory, NoBatch
  <2> QED BY <2>1 DEF Settles, Settling
<1> QED BY <1>1, <1>2, <1>4, <1>5, <1>6 DEF OperateNext, SweepNext, RetryNext

LEMMA StepSettles == MembersInv /\ [Next]_vars => SettledStep
<1> SUFFICES ASSUME MembersInv, [Next]_vars PROVE Settles
  BY SettlesMeaning
<1>0. TypeOK
  BY DEF MembersInv, IInv
<1>1. CASE MemberNext
  BY <1>1, SettlesQuiet DEF MemberNext, InsertMember, ConflictMember, ApplyExclusionVerdict,
                            TimeoutStaleQueue
<1>2. CASE SealNext
  <2>1. ASSUME NEW s \in Streams, NEW b \in Batches, NEW t \in Tokens, NEW M \in SUBSET Members,
               SealBatch(s, b, M, t)
        PROVE  Settles
    <3>1. PICK r : batches' = [batches EXCEPT ![b] = r]
      BY <2>1 DEF SealBatch
    <3> QED BY <1>0, <2>1, <3>1, SettlesOne DEF SealBatch, Terminal
  <2> QED BY <1>2, <2>1, SettlesQuiet
          DEF SealNext, AcquireReservation, RenewReservation, ReleaseReservation
<1>3. CASE Tick
  <2>1. \A b \in Batches : batches'[b].status = batches[b].status
    BY <1>0, <1>3 DEF Tick, TypeOK, Batch
  <2> QED BY <2>1 DEF Settles, Settling
<1>4. CASE UNCHANGED vars
  BY <1>4, SettlesQuiet DEF vars
<1> QED BY <1>1, <1>2, <1>3, <1>4, DispatchSettles, ExecuteSettles, OperateSettles DEF Next

\* No late confirm, settle or requeue resurrects settled work: a completed batch
\* is final, and a skipped or dead one is re-armed with its free stream and all
\* its commits or stays settled.
THEOREM SettledIsFinal == Spec => SettledStaysSettled
<1>1. Init => MembersInv
  BY InitIInv, InitMembers DEF MembersInv
<1>2. Spec => [][SettledStep]_vars
  BY <1>1, MembersStep, StepSettles, PTL DEF Spec
<1> QED BY <1>2, PTL DEF SettledStaysSettled, SettledStep

-----------------------------------------------------------------------------
(* The executions of a batch (AutoCommitBudget): each one is paid by an     *)
(* attempt of the row; the invariant relates the two and follows the reset  *)
(* of the attempts by a recovery.                                           *)

Limit(r) == IF r.recovery = 1 /\ MaxAttempts = 1 THEN 2 ELSE MaxAttempts
\* Executions before the attempts were last reset.
Before(again) == IF again THEN 0 ELSE MaxAttempts

PaidOK(r, n, again) ==
    /\ n <= Rearms + Before(again)
    /\ r.attempt <= Limit(r)
    /\ r.status \in Queued => r.attempt < Limit(r)
    /\ r.status # "pruned" =>
          /\ r.recovery = 0 => n <= r.attempt /\ ~again
          /\ r.recovery = 1 => n + 1 <= r.attempt + Before(again)
    /\ r.status = "unused" => n = 0 /\ ~again
    /\ r.status = "dead" => r.recovery = 0

BudgetInv ==
    /\ IInv
    /\ starts \in [Batches -> Nat] /\ retried \in [Batches -> BOOLEAN]
    /\ \A b \in Batches : PaidOK(batches[b], starts[b], retried[b])

-----------------------------------------------------------------------------
(* What one transaction but the manual retry may do to a batch row. *)

\* Its attempts stay; it waits for another one only while one is left.
Keeps(r, q) ==
    /\ q.attempt = r.attempt /\ q.recovery = r.recovery
    /\ q.status \in Queued => \/ r.status \in Queued
                              \/ r.status = "running" /\ r.attempt < MaxAttempts
    /\ q.status = "running" => r.status = "running"
    /\ q.status = "dead" => r.status = "dead"
    /\ q.status = "unused" => r.status = "unused"
    /\ r.status = "pruned" => q.status = "pruned"

Begins(r, q) ==
    /\ r.status = "queued" /\ q.status = "running"
    /\ q.attempt = r.attempt + 1 /\ q.recovery = r.recovery

Recovers(r, q) ==
    /\ r.status = "dead" \/ (r.status = "running" /\ r.recovery = 0)
    /\ q.status = "retry_wait" /\ q.attempt = 1 /\ q.recovery = 1

Appears(r, q) ==
    /\ r.status = "unused" /\ q.status = "dispatch_pending"
    /\ q.attempt = 0 /\ q.recovery = 0

Vanishes(r, q) == r.status \in Terminal /\ q.status = "pruned" /\ q.attempt = 0

Move(r, q) == Keeps(r, q) \/ Begins(r, q) \/ Recovers(r, q) \/ Appears(r, q) \/ Vanishes(r, q)
Moves == \A b \in Batches : Move(batches[b], batches'[b])

LEMMA RearmsType == Rearms \in Nat /\ Rearms >= 1 /\ Rearms + 1 >= MaxAttempts
BY ConstantsAssumption DEF Rearms

\* Every move but a start keeps the account, a start books one execution.
LEMMA MoveKeepsAccount ==
    ASSUME NEW r \in Batch, NEW q \in Batch, NEW n \in Nat, NEW again \in BOOLEAN,
           PaidOK(r, n, again), Move(r, q)
    PROVE  PaidOK(q, IF r.status = "queued" /\ q.status = "running" THEN n + 1 ELSE n, again)
<1> DEFINE past == Before(again)
<1>1. /\ MaxAttempts \in Nat \ {0} /\ past \in Nat /\ (~again => past = MaxAttempts)
      /\ r.attempt \in Nat /\ q.attempt \in Nat /\ r.recovery \in {0, 1} /\ q.recovery \in {0, 1}
  BY ConstantsAssumption DEF Before, Batch
<1>2. PaidOK(r, n, again)
  OBVIOUS
<1>3. CASE Keeps(r, q)
  <2>1. ~ (r.status = "queued" /\ q.status = "running")
    BY <1>3 DEF Keeps
  <2>2. PaidOK(q, n, again)
    BY <1>1, <1>2, <1>3, RearmsType DEF PaidOK, Keeps, Limit
  <2> QED BY <2>1, <2>2
<1>4. CASE Begins(r, q)
  <2>1. r.status = "queued" /\ q.status = "running"
    BY <1>4 DEF Begins
  <2>2. PaidOK(q, n + 1, again)
    BY <1>1, <1>2, <1>4, RearmsType DEF PaidOK, Begins, Limit, Queued, Rearms
  <2> QED BY <2>1, <2>2
<1>5. CASE Recovers(r, q)
  <2>1. ~ (r.status = "queued" /\ q.status = "running")
    BY <1>5 DEF Recovers
  <2>2. PaidOK(q, n, again)
    BY <1>1, <1>2, <1>5, RearmsType DEF PaidOK, Recovers, Limit, Queued
  <2> QED BY <2>1, <2>2
<1>6. CASE Appears(r, q) \/ Vanishes(r, q)
  <2>1. ~ (r.status = "queued" /\ q.status = "running")
    BY <1>6 DEF Appears, Vanishes
  <2>2. PaidOK(q, n, again)
    BY <1>1, <1>2, <1>6, RearmsType DEF PaidOK, Appears, Vanishes, Limit, Queued, Terminal
  <2> QED BY <2>1, <2>2
<1> QED BY <1>3, <1>4, <1>5, <1>6 DEF Move

-----------------------------------------------------------------------------
(* Every transaction but the manual retry makes moves. *)

LEMMA RowCounters ==
    \A r \in Batch :
       /\ \A st : /\ Unleased(r, st).attempt = r.attempt
                  /\ Unleased(r, st).recovery = r.recovery
                  /\ Unleased(r, st).status = st
       /\ Rearmed(r).attempt = 1 /\ Rearmed(r).recovery = 1
       /\ Rearmed(r).status = "retry_wait"
BY DEF Unleased, Rearmed, Batch

\* A row that is not touched keeps its attempts.
LEMMA SameRow == \A r \in Batch : Move(r, r)
BY DEF Move, Keeps

LEMMA MemberMoves == IInv /\ MemberNext => Moves
<1> SUFFICES ASSUME IInv, MemberNext PROVE Moves
  OBVIOUS
<1>1. batches' = batches
  BY DEF MemberNext, InsertMember, ConflictMember, ApplyExclusionVerdict, TimeoutStaleQueue
<1> QED BY <1>1, SameRow DEF Moves, IInv, TypeOK

LEMMA SealMoves == IInv /\ SealNext => Moves
<1> SUFFICES ASSUME IInv, SealNext PROVE Moves
  OBVIOUS
<1>0. \A b \in Batches : batches[b] \in Batch
  BY DEF IInv, TypeOK
<1>1. ASSUME NEW s \in Streams, NEW t \in Tokens,
             AcquireReservation(s, t) \/ RenewReservation(s, t) \/ ReleaseReservation(s, t)
      PROVE  Moves
  <2>1. batches' = batches
    BY <1>1 DEF AcquireReservation, RenewReservation, ReleaseReservation
  <2> QED BY <1>0, <2>1, SameRow DEF Moves
<1>2. ASSUME NEW s \in Streams, NEW b \in Batches, NEW t \in Tokens,
             NEW M \in SUBSET Members, SealBatch(s, b, M, t)
      PROVE  Moves
  <2>1. PICK oldest \in M : batches' = [batches EXCEPT ![b] = [NoBatch EXCEPT
                   !.status = "dispatch_pending", !.stream = s,
                   !.age = members[oldest].age]]
    BY <1>2 DEF SealBatch
  <2>2. batches[b].status = "unused"
    BY <1>2 DEF SealBatch
  <2>3. /\ batches'[b].status = "dispatch_pending" /\ batches'[b].attempt = 0
        /\ batches'[b].recovery = 0
    BY <2>1 DEF IInv, TypeOK, NoBatch
  <2>4. Move(batches[b], batches'[b])
    BY <2>2, <2>3 DEF Move, Appears
  <2>5. \A c \in Batches \ {b} : batches'[c] = batches[c]
    BY <2>1 DEF IInv, TypeOK
  <2> QED BY <1>0, <2>4, <2>5, SameRow DEF Moves
<1> QED BY <1>1, <1>2 DEF SealNext

\* A held outbox claim means that the batch waits, so confirmDispatch moves only
\* waiting batches although it does not look at their status.
LEMMA DispatchMoves == IInv /\ DispatchNext => Moves
<1> SUFFICES ASSUME IInv, DispatchNext PROVE Moves
  OBVIOUS
<1>0. /\ \A b \in Batches : batches[b] \in Batch
      /\ \A b \in Batches : RowOK(batches[b], outbox[b])
      /\ batches \in [Batches -> Batch]
  BY DEF IInv, TypeOK, RowsOK
<1>1. ASSUME NEW b \in Batches, NEW t \in Tokens, NEW delay \in 0..MaxDelay,
             ClaimDispatch(b, t) \/ AbortDispatch(b, t, delay)
      PROVE  Moves
  <2>1. batches' = batches
    BY <1>1 DEF ClaimDispatch, AbortDispatch
  <2> QED BY <1>0, <2>1, SameRow DEF Moves
<1>2. ASSUME NEW b \in Batches, NEW r \in Batch, batches' = [batches EXCEPT ![b] = r],
             batches[b].status \in Queued, r.status \in Queued,
             r.attempt = batches[b].attempt, r.recovery = batches[b].recovery
      PROVE  Moves
  <2>1. Move(batches[b], batches'[b])
    BY <1>0, <1>2 DEF Move, Keeps, Queued
  <2>2. \A c \in Batches \ {b} : batches'[c] = batches[c]
    BY <1>0, <1>2
  <2> QED BY <1>0, <2>1, <2>2, SameRow DEF Moves
<1>3. ASSUME NEW b \in Batches, NEW t \in Tokens, NEW left \in 0..ClaimTtl,
             ConfirmDispatch(b, t, left)
      PROVE  Moves
  <2> DEFINE r == [batches[b] EXCEPT !.status = "queued", !.expiry = left]
  <2>1. batches[b].status \in Queued
    BY <1>0, <1>3, NoneApart DEF ConfirmDispatch, RowOK, Queued
  <2>2. left \in Nat
    BY ConstantsAssumption
  <2>3. r \in Batch /\ r.status = "queued" /\ r.attempt = batches[b].attempt
        /\ r.recovery = batches[b].recovery
    BY <1>0, <2>2 DEF Batch, BatchStatus, Queued
  <2>4. batches' = [batches EXCEPT ![b] = r] /\ "queued" \in Queued
    BY <1>3 DEF ConfirmDispatch, Queued
  <2> HIDE DEF r
  <2> QED BY <1>2, <2>1, <2>3, <2>4
<1>4. ASSUME NEW b \in Batches, NEW delay \in 0..MaxDelay, DeferBatchExecution(b, delay)
      PROVE  Moves
  <2> DEFINE r == [batches[b] EXCEPT !.status = "retry_wait", !.expiry = None]
  <2>1. batches[b].status \in Queued /\ "retry_wait" \in Queued
    BY <1>4 DEF DeferBatchExecution, Queued
  <2>2. r \in Batch /\ r.status = "retry_wait" /\ r.attempt = batches[b].attempt
        /\ r.recovery = batches[b].recovery
    BY <1>0 DEF Batch, BatchStatus, Queued
  <2>3. batches' = [batches EXCEPT ![b] = r]
    BY <1>4 DEF DeferBatchExecution
  <2> HIDE DEF r
  <2> QED BY <1>2, <2>1, <2>2, <2>3
<1>5. ASSUME NEW b \in Batches, RequeueStalledBatch(b) PROVE Moves
  <2> DEFINE r == Unleased(batches[b], "retry_wait")
  <2>1. batches[b].status \in Queued /\ "retry_wait" \in Queued
    BY <1>5 DEF RequeueStalledBatch, Queued
  <2>2. r \in Batch
    BY <1>0, RowTypes DEF BatchStatus, Queued
  <2>3. r.status = "retry_wait" /\ r.attempt = batches[b].attempt
        /\ r.recovery = batches[b].recovery
    BY <1>0, RowCounters
  <2>4. batches' = [batches EXCEPT ![b] = r]
    BY <1>5 DEF RequeueStalledBatch
  <2> HIDE DEF r
  <2> QED BY <1>2, <2>1, <2>2, <2>3, <2>4
<1> QED
  <2>1. 0 \in 0..MaxDelay
    BY ConstantsAssumption
  <2> QED BY <1>1, <1>3, <1>4, <1>5, <2>1 DEF DispatchNext

\* Only B moves, and each of its batches settles from an unsettled state.
LEMMA SettleMoves ==
    ASSUME IInv, NEW B \in SUBSET Batches,
           \A b \in B : /\ batches[b].status \in Queued \cup {"running", "dead"}
                        /\ batches'[b].status \in {"completed", "skipped"}
                        /\ batches'[b].attempt = batches[b].attempt
                        /\ batches'[b].recovery = batches[b].recovery,
           \A b \in Batches \ B : batches'[b] = batches[b]
    PROVE  Moves
<1>1. ASSUME NEW b \in B PROVE Move(batches[b], batches'[b])
  BY DEF Move, Keeps, Queued
<1> QED BY <1>1, SameRow DEF Moves, IInv, TypeOK

LEMMA ExecuteMoves == IInv /\ ExecuteNext => Moves
<1> SUFFICES ASSUME IInv, ExecuteNext PROVE Moves
  OBVIOUS
<1>0. batches \in [Batches -> Batch] /\ \A b \in Batches : batches[b] \in Batch
  BY DEF IInv, TypeOK
<1>1. ASSUME NEW b \in Batches, NEW r, batches' = [batches EXCEPT ![b] = r],
             Move(batches[b], r)
      PROVE  Moves
  <2>1. batches'[b] = r /\ \A c \in Batches \ {b} : batches'[c] = batches[c]
    BY <1>0, <1>1
  <2> QED BY <1>0, <1>1, <2>1, SameRow DEF Moves
<1>2. ASSUME NEW b \in Batches, NEW owner \in Owners, NEW t \in Tokens,
             NEW left \in 0..LeaseTtl, StartBatchExecution(b, owner, t, left)
      PROVE  Moves
  <2> DEFINE r == Leasing(batches[b], owner, t, left)
  <2>1. batches[b].status = "queued" /\ batches' = [batches EXCEPT ![b] = r]
    BY <1>2 DEF StartBatchExecution
  <2>2. /\ r.status = "running" /\ r.attempt = batches[b].attempt + 1
        /\ r.recovery = batches[b].recovery
    BY <1>0 DEF Leasing, Batch
  <2>3. Move(batches[b], r)
    BY <2>1, <2>2 DEF Move, Begins
  <2> HIDE DEF r
  <2> QED BY <1>1, <2>1, <2>3
<1>3. ASSUME NEW b \in Batches, NEW t \in Tokens, RenewBatchLease(b, t) PROVE Moves
  <2> DEFINE r == [batches[b] EXCEPT !.expiry = LeaseTtl]
  <2>1. batches' = [batches EXCEPT ![b] = r]
    BY <1>3 DEF RenewBatchLease
  <2>2. /\ r.status = batches[b].status /\ r.attempt = batches[b].attempt
        /\ r.recovery = batches[b].recovery
    BY <1>0 DEF Batch
  <2>3. Move(batches[b], r)
    BY <2>2 DEF Move, Keeps
  <2> HIDE DEF r
  <2> QED BY <1>1, <2>1, <2>3
<1>4. ASSUME NEW b \in Batches, NEW t \in Tokens, NEW outcome \in {"completed", "skipped"},
             CompleteBatch(b, t, outcome)
      PROVE  Moves
  <2> DEFINE r == Unleased(batches[b], outcome)
  <2>1. batches[b].status = "running" /\ batches' = [batches EXCEPT ![b] = r]
    BY <1>4 DEF CompleteBatch, Leased
  <2>2. /\ r.status \in {"completed", "skipped"} /\ r.attempt = batches[b].attempt
        /\ r.recovery = batches[b].recovery
    BY <1>0, RowCounters
  <2>3. Move(batches[b], r)
    BY <2>1, <2>2 DEF Move, Keeps, Queued
  <2> HIDE DEF r
  <2> QED BY <1>1, <2>1, <2>3
<1>5. ASSUME NEW b \in Batches, NEW t \in Tokens, NEW dead \in BOOLEAN,
             NEW delay \in 0..MaxDelay, FailBatch(b, t, dead, delay)
      PROVE  Moves
  <2>1. /\ batches[b].status = "running" /\ batches[b].recovery \in {0, 1}
        /\ batches[b].attempt \in Nat /\ MaxAttempts \in Nat
    BY <1>0, <1>5, ConstantsAssumption DEF FailBatch, Leased, Batch
  <2>2. \E r : /\ batches' = [batches EXCEPT ![b] = r]
               /\ \/ r = Rearmed(batches[b]) /\ batches[b].recovery = 0
                  \/ r = Unleased(batches[b], "skipped")
                  \/ /\ r = Unleased(batches[b], "retry_wait")
                     /\ ~ (batches[b].attempt >= MaxAttempts)
    BY <1>5 DEF FailBatch
  <2>3. PICK r : /\ batches' = [batches EXCEPT ![b] = r]
                 /\ \/ r = Rearmed(batches[b]) /\ batches[b].recovery = 0
                    \/ r = Unleased(batches[b], "skipped")
                    \/ /\ r = Unleased(batches[b], "retry_wait")
                       /\ ~ (batches[b].attempt >= MaxAttempts)
    BY <2>2
  <2>4. CASE r = Rearmed(batches[b]) /\ batches[b].recovery = 0
    BY <1>0, <1>1, <2>1, <2>3, <2>4, RowCounters DEF Move, Recovers
  <2>5. CASE r = Unleased(batches[b], "skipped")
    <3>1. Move(batches[b], r)
      BY <1>0, <2>1, <2>5, RowCounters DEF Move, Keeps, Queued
    <3> QED BY <1>1, <2>3, <3>1
  <2>6. CASE r = Unleased(batches[b], "retry_wait") /\ ~ (batches[b].attempt >= MaxAttempts)
    <3>1. batches[b].attempt < MaxAttempts
      BY <2>1, <2>6
    <3>2. Move(batches[b], r)
      BY <1>0, <2>1, <2>6, <3>1, RowCounters DEF Move, Keeps
    <3> QED BY <1>1, <2>3, <3>2
  <2> QED BY <2>3, <2>4, <2>5, <2>6
<1>6. ASSUME NEW B \in SUBSET Batches, Reclaim(B),
             \A b \in B : batches[b].status \in {"running", "queued"}
      PROVE  Moves
  <2>1. ASSUME NEW b \in B PROVE Move(batches[b], batches'[b])
    <3>1. /\ batches[b] \in Batch /\ batches[b].recovery \in {0, 1}
          /\ batches[b].attempt \in Nat /\ MaxAttempts \in Nat
      BY <1>0, ConstantsAssumption DEF Batch
    <3>2. \/ /\ Exhausted(batches[b]) /\ batches'[b] = Unleased(batches[b], "skipped")
          \/ /\ Exhausted(batches[b]) /\ batches[b].recovery = 0
             /\ batches'[b] = Rearmed(batches[b])
          \/ ~Exhausted(batches[b]) /\ batches'[b] = Unleased(batches[b], "retry_wait")
      BY <1>6, <3>1 DEF Reclaim
    <3>3. CASE Exhausted(batches[b]) /\ batches'[b] = Unleased(batches[b], "skipped")
      BY <3>1, <3>3, RowCounters DEF Move, Keeps, Queued, Exhausted
    <3>4. CASE /\ Exhausted(batches[b]) /\ batches[b].recovery = 0
               /\ batches'[b] = Rearmed(batches[b])
      BY <3>1, <3>4, RowCounters DEF Move, Recovers, Exhausted
    <3>5. CASE ~Exhausted(batches[b]) /\ batches'[b] = Unleased(batches[b], "retry_wait")
      <4>1. \/ batches[b].status = "queued"
            \/ batches[b].status = "running" /\ batches[b].attempt < MaxAttempts
        BY <1>6, <3>1, <3>5 DEF Exhausted
      <4> QED BY <3>1, <3>5, <4>1, RowCounters DEF Move, Keeps, Queued
    <3> QED BY <3>2, <3>3, <3>4, <3>5
  <2>2. \A b \in Batches \ B : batches'[b] = batches[b]
    BY <1>6 DEF Reclaim
  <2> QED BY <1>0, <2>1, <2>2, SameRow DEF Moves
<1>7. ASSUME NEW B \in SUBSET Batches, ReclaimExpiredBatchLeases(B) PROVE Moves
  BY <1>6, <1>7 DEF ReclaimExpiredBatchLeases
<1>8. ASSUME NEW owner \in Owners, ReclaimBatchesByOwner(owner) PROVE Moves
  <2> DEFINE B == {b \in Batches : batches[b].status = "running" /\ batches[b].owner = owner}
  <2>1. /\ B \in SUBSET Batches /\ Reclaim(B)
        /\ \A b \in B : batches[b].status \in {"running", "queued"}
    BY <1>8 DEF ReclaimBatchesByOwner
  <2> HIDE DEF B
  <2> QED BY <1>6, <2>1
<1> QED BY <1>2, <1>3, <1>4, <1>5, <1>7, <1>8 DEF ExecuteNext

LEMMA SweepMoves == IInv /\ SweepNext => Moves
<1> SUFFICES ASSUME IInv, SweepNext PROVE Moves
  OBVIOUS
<1>0. batches \in [Batches -> Batch] /\ \A b \in Batches : batches[b] \in Batch
  BY DEF IInv, TypeOK
<1>1. ASSUME NEW B \in SUBSET Batches, RecoverDeadBatches(B) PROVE Moves
  <2>1. \A b \in B : batches[b].status = "dead" /\ batches'[b] = Rearmed(batches[b])
    BY <1>1 DEF RecoverDeadBatches
  <2>2. \A b \in Batches \ B : batches'[b] = batches[b]
    BY <1>1 DEF RecoverDeadBatches
  <2>3. ASSUME NEW b \in B PROVE Move(batches[b], batches'[b])
    <3>1. /\ batches'[b].status = "retry_wait" /\ batches'[b].attempt = 1
          /\ batches'[b].recovery = 1 /\ batches[b].status = "dead"
      BY <1>0, <2>1, RowCounters
    <3> QED BY <3>1 DEF Move, Recovers
  <2> QED BY <1>0, <2>2, <2>3, SameRow DEF Moves
<1>2. ASSUME NEW B \in SUBSET Batches, TerminalSkip(B),
             \A b \in B : batches[b].status \in Queued \cup {"running", "dead"}
      PROVE  Moves
  <2>1. /\ \A b \in B : batches'[b] = Unleased(batches[b], "skipped")
        /\ \A b \in Batches \ B : batches'[b] = batches[b]
    BY <1>2 DEF TerminalSkip
  <2>2. \A b \in B : /\ batches'[b].status \in {"completed", "skipped"}
                     /\ batches'[b].attempt = batches[b].attempt
                     /\ batches'[b].recovery = batches[b].recovery
    BY <1>0, <2>1, RowCounters
  <2> QED BY <1>2, <2>1, <2>2, SettleMoves
<1>3. ASSUME NEW B \in SUBSET Batches, CancelQueuedBatches(B) PROVE Moves
  BY <1>2, <1>3 DEF CancelQueuedBatches, Open
<1>4. CASE TimeoutStaleBatches
  <2> DEFINE B == {b \in Batches : batches[b].status \in Queued /\ Stale(batches[b].age)}
  <2>1. /\ B \in SUBSET Batches /\ TerminalSkip(B)
        /\ \A b \in B : batches[b].status \in Queued \cup {"running", "dead"}
    BY <1>4 DEF TimeoutStaleBatches
  <2> HIDE DEF B
  <2> QED BY <1>2, <2>1
<1>5. ASSUME NEW B \in SUBSET Batches, PruneBatchHistory(B) PROVE Moves
  <2>1. \A b \in B : /\ batches[b].status \in Terminal
                     /\ batches'[b] = [NoBatch EXCEPT !.status = "pruned"]
    BY <1>5 DEF PruneBatchHistory
  <2>2. \A b \in Batches \ B : batches'[b] = batches[b]
    BY <1>5 DEF PruneBatchHistory
  <2>3. \A b \in B : Move(batches[b], batches'[b])
    BY <2>1 DEF NoBatch, Move, Vanishes
  <2> QED BY <1>0, <2>2, <2>3, SameRow DEF Moves
<1> QED BY <1>1, <1>3, <1>4, <1>5 DEF SweepNext

LEMMA TickMoves == IInv /\ Tick => Moves
<1> SUFFICES ASSUME IInv, Tick, NEW b \in Batches PROVE Move(batches[b], batches'[b])
  BY DEF Moves
<1>1. batches[b] \in Batch
  BY DEF IInv, TypeOK
<1>2. /\ batches'[b].status = batches[b].status /\ batches'[b].attempt = batches[b].attempt
      /\ batches'[b].recovery = batches[b].recovery
  BY <1>1 DEF Tick, Batch
<1> QED BY <1>2 DEF Move, Keeps

-----------------------------------------------------------------------------
(* The account of every batch is kept. *)

LEMMA BudgetInitInv == BudgetInit => BudgetInv
<1> SUFFICES ASSUME BudgetInit PROVE BudgetInv
  OBVIOUS
<1>1. IInv
  BY InitIInv DEF BudgetInit
<1>2. starts \in [Batches -> Nat] /\ retried \in [Batches -> BOOLEAN]
  BY DEF BudgetInit
<1>3. ASSUME NEW b \in Batches PROVE PaidOK(batches[b], starts[b], retried[b])
  <2>1. starts[b] = 0 /\ ~retried[b]
    BY DEF BudgetInit
  <2>2. PICK home \in [Batches -> Streams \cup {None}] :
           batches = [c \in Batches |-> IF home[c] = None THEN NoBatch
                                        ELSE DeadBatch(home[c])]
    BY DEF BudgetInit, Init, InitFrom
  <2>3. /\ batches[b].recovery = 0 /\ batches[b].attempt \in {0, MaxAttempts}
        /\ batches[b].status \in {"unused", "dead"}
        /\ batches[b].status = "unused" => batches[b].attempt = 0
    <3>1. CASE home[b] = None
      BY <2>2, <3>1 DEF NoBatch
    <3>2. CASE home[b] # None
      BY <2>2, <3>2 DEF DeadBatch, NoBatch
    <3> QED BY <3>1, <3>2
  <2> QED BY <2>1, <2>3, RearmsType, ConstantsAssumption DEF PaidOK, Limit, Before, Queued
<1> QED BY <1>1, <1>2, <1>3 DEF BudgetInv

LEMMA CountKeepsInv ==
    ASSUME BudgetInv, IInv', Moves, Count
    PROVE  BudgetInv'
<1>1. starts' \in [Batches -> Nat] /\ retried' \in [Batches -> BOOLEAN]
  BY DEF BudgetInv, Count
<1>2. ASSUME NEW b \in Batches PROVE PaidOK(batches[b], starts[b], retried[b])'
  <2>1. /\ batches[b] \in Batch /\ batches'[b] \in Batch
        /\ starts[b] \in Nat /\ retried[b] \in BOOLEAN
        /\ PaidOK(batches[b], starts[b], retried[b]) /\ Move(batches[b], batches'[b])
    BY DEF BudgetInv, IInv, TypeOK, Moves
  <2>2. PaidOK(batches'[b], IF Starts(b) THEN starts[b] + 1 ELSE starts[b], retried[b])
    BY <2>1, MoveKeepsAccount DEF Starts
  <2>3. /\ starts'[b] = IF Starts(b) THEN starts[b] + 1 ELSE starts[b]
        /\ retried'[b] = retried[b]
    BY DEF Count
  <2> QED BY <2>2, <2>3
<1> QED BY <1>1, <1>2 DEF BudgetInv

LEMMA RetryKeepsInv ==
    ASSUME BudgetInv, IInv', NEW b \in Batches, Retry(b)
    PROVE  BudgetInv'
<1>1. /\ starts' = [starts EXCEPT ![b] = 0] /\ retried' = [retried EXCEPT ![b] = TRUE]
      /\ batches' = [batches EXCEPT ![b] = [Rearmed(batches[b]) EXCEPT !.age = 0]]
      /\ batches \in [Batches -> Batch]
  BY DEF Retry, RequeueBatchForRecovery, BudgetInv, IInv, TypeOK
<1>2. starts' \in [Batches -> Nat] /\ retried' \in [Batches -> BOOLEAN]
  BY <1>1 DEF BudgetInv
<1>3. PaidOK(batches[b], starts[b], retried[b])'
  <2>1. /\ batches'[b].attempt = 1 /\ batches'[b].recovery = 1
        /\ batches'[b].status = "retry_wait"
    BY <1>1, RowCounters, RowTypes DEF Batch
  <2>2. starts'[b] = 0 /\ retried'[b] = TRUE
    BY <1>1 DEF BudgetInv
  <2> QED BY <2>1, <2>2, RearmsType, ConstantsAssumption DEF PaidOK, Limit, Before, Queued
<1>4. ASSUME NEW c \in Batches, c # b PROVE PaidOK(batches[c], starts[c], retried[c])'
  <2>1. batches'[c] = batches[c] /\ starts'[c] = starts[c] /\ retried'[c] = retried[c]
    BY <1>1, <1>4 DEF BudgetInv
  <2> QED BY <2>1 DEF BudgetInv
<1> QED BY <1>2, <1>3, <1>4 DEF BudgetInv

LEMMA BudgetStep == BudgetInv /\ [BudgetNext]_budgetVars => BudgetInv'
<1> SUFFICES ASSUME BudgetInv, [BudgetNext]_budgetVars PROVE BudgetInv'
  OBVIOUS
<1>0. IInv
  BY DEF BudgetInv
<1>1. CASE MemberNext /\ Count
  BY <1>0, <1>1, MemberIInv, MemberMoves, CountKeepsInv
<1>2. CASE SealNext /\ Count
  BY <1>0, <1>2, SealIInv, SealMoves, CountKeepsInv
<1>3. CASE DispatchNext /\ Count
  BY <1>0, <1>3, DispatchIInv, DispatchMoves, CountKeepsInv
<1>4. CASE ExecuteNext /\ Count
  BY <1>0, <1>4, ExecuteIInv, ExecuteMoves, CountKeepsInv
<1>5. CASE SweepNext /\ Count
  BY <1>0, <1>5, OperateIInv, SweepMoves, CountKeepsInv DEF OperateNext
<1>6. ASSUME NEW b \in Batches, Retry(b) PROVE BudgetInv'
  <2>1. OperateNext
    BY <1>6 DEF Retry, OperateNext, RetryNext
  <2> QED BY <1>0, <1>6, <2>1, OperateIInv, RetryKeepsInv
<1>7. CASE Tick /\ Count
  BY <1>0, <1>7, TickIInv, TickMoves, CountKeepsInv
<1>8. CASE UNCHANGED budgetVars
  <2>1. UNCHANGED vars
    BY <1>8 DEF budgetVars, vars
  <2>2. IInv'
    BY <1>0, <2>1 DEF vars, IInv, TypeOK, OneOpenBatchPerStream, RowsOK, Open
  <2> QED BY <1>8, <2>2 DEF budgetVars, BudgetInv
<1> QED BY <1>1, <1>2, <1>3, <1>4, <1>5, <1>6, <1>7, <1>8 DEF BudgetNext

\* Automation executes every batch a bounded number of times, and never more
\* than the full budget after an operator's retry, for every MaxAttempts, every
\* set of batches and whatever the callers do.
THEOREM ExecutionsAreBounded == BudgetSpec => []ExecutionsBounded
<1>1. ASSUME BudgetInv, NEW b \in Batches
      PROVE  starts[b] <= IF retried[b] THEN MaxAttempts ELSE MaxAttempts + Rearms
  <2>1. Rearms <= MaxAttempts
    BY ConstantsAssumption DEF Rearms
  <2>2. starts[b] \in Nat /\ retried[b] \in BOOLEAN /\ starts[b] <= Rearms + Before(retried[b])
    BY <1>1 DEF BudgetInv, PaidOK
  <2> QED BY <2>1, <2>2, RearmsType, ConstantsAssumption DEF Before
<1>2. BudgetInv => ExecutionsBounded
  BY <1>1 DEF ExecutionsBounded
<1> QED BY <1>2, BudgetInitInv, BudgetStep, PTL DEF BudgetSpec

\* A batch that waits for an attempt always has one left, and no batch exceeds
\* its budget.
THEOREM AttemptsAreWithinBudget == BudgetSpec => []AttemptsWithinBudget
<1>1. BudgetInv => AttemptsWithinBudget
  BY DEF BudgetInv, PaidOK, Limit, AttemptsWithinBudget
<1> QED BY <1>1, BudgetInitInv, BudgetStep, PTL DEF BudgetSpec
=============================================================================
