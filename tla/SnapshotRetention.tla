--------------------------- MODULE SnapshotRetention ---------------------------
(***************************************************************************)
(* Configuration in a running system: revisions are published, instances   *)
(* adopt them, work is accepted with the generation of its admission, and  *)
(* collections remove the snapshots nobody needs any more.                 *)
(***************************************************************************)
EXTENDS RuntimeQueue

CONSTANTS MaxLost

Collectors == Tasks \ Requests

ASSUME SnapshotAssumption ==
    Requests \subseteq Tasks /\ Home \in [Tasks -> Instances] /\ MaxLost \in Nat

vars == <<configVars, runtimeVars, ledgerVars>>

Init == ConfigInit /\ RuntimeInit /\ LedgerInit

\* publishConfig: the commit decides; the snapshot is written by the publisher,
\* which may be lost first, or by the next instance that adopts the revision.
Publish ==
    /\ CommitChangeset(head)
    /\ UNCHANGED runtimeVars /\ UNCHANGED ledgerVars
PublishSnapshot ==
    /\ ~There(head) /\ WriteSnapshot(head, UnderWay)
    /\ UNCHANGED runtimeVars /\ UNCHANGED ledgerVars

StartAccept(t, w) ==
    /\ receipts[w].state = "none" /\ \A u \in Tasks : task[u].for # w
    /\ StartWith(t, "pin", w)
StartEnqueue(t, j) ==
    /\ Runs(t) /\ At(t, "idle")
    /\ task' = [task EXCEPT ![t] = [Resting EXCEPT !.step = "find", !.for = j]]
    /\ UNCHANGED configVars /\ NothingElse
\* The refresh timer; a collection starts in the same way.
StartRefresh(t) == StartWith(t, "heartbeat", None)

Request(t) == StartRefresh(t) \/ (\E w \in Receipts : StartAccept(t, w)) \/ \E j \in Jobs : StartEnqueue(t, j)

Admission(t) == ReadHead(t) \/ EnsureSnapshot(t) \/ Adopt(t) \/ AdoptFails(t)
Pinned(t) == BeginPin(t) \/ AcceptReceipt(t) \/ EndPin(t)
Sweep(t) ==
    \/ Heartbeat(t) \/ ListStates(t) \/ PollReceipts(t)
    \/ RemoveRow(t) \/ ListCandidates(t) \/ DeleteNext(t)
Ledgers(t) ==
    FindJob(t) \/ Reserve(t) \/ EnqueueJob(t) \/ Confirm(t) \/ ListLedger(t) \/ AskJob(t) \/ RetireRow(t)

Steps(t) == ((Return(t) \/ Admission(t) \/ Pinned(t) \/ Sweep(t)) /\ UNCHANGED ledgerVars) \/ Ledgers(t)

Work ==
    \/ \E w \in Receipts : CompleteReceipt(w) /\ UNCHANGED ledgerVars
    \/ \E w \in Receipts, i \in Instances : RetryReceipt(i, w) /\ UNCHANGED ledgerVars
    \/ \E j \in Jobs : CompleteJob(j)

Crash(i) == Cardinality(Instances \ alive) < MaxLost /\ Lost(i) /\ UNCHANGED ledgerVars

Next ==
    \/ Publish \/ PublishSnapshot \/ Work
    \/ \E t \in Requests : Request(t) /\ UNCHANGED ledgerVars
    \/ \E t \in Collectors : StartRefresh(t) /\ UNCHANGED ledgerVars
    \/ \E t \in Tasks : Steps(t)
    \/ \E i \in Instances : Crash(i)

Spec == Init /\ [][Next]_vars

-----------------------------------------------------------------------------
\* Accepted work that is not done can always load the configuration it was
\* accepted with, whatever was published, collected, lost or armed again meanwhile.
LiveWorkKeepsSnapshot ==
    /\ \A w \in Receipts : receipts[w].state = "live" => There(receipts[w].rev)
    /\ \A j \in Jobs : confirmed[j] /\ jobs[j] = "live" => states[j].of # None /\ There(states[j].of)

\* The same of work an operator has armed again: the retention module promises that
\* there is never a dangling reference.
NoDanglingReference == \A w \in Receipts : receipts[w].state \in Pending => There(receipts[w].rev)

\* An instance that runs the active revision can accept work: the snapshot of its
\* generation is not collected in the time in which nothing refers to it yet.
ActiveHeadCanAccept == \A i \in alive : current[i] = head => There(head)
===============================================================================
