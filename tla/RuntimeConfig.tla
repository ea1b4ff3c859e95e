----------------------------- MODULE RuntimeConfig -----------------------------
(***************************************************************************)
(* The configuration of a running server instance (packages/server/src/    *)
(* runtime-config.ts) and the collection of snapshots (packages/core/src/  *)
(* config-snapshot-retention.ts).  A task of an instance is at one of the  *)
(* awaits of its function; what it remembers across them is in its record. *)
(* The caches of an instance are left out except for the current           *)
(* generation.  A process that runs renews its activation record in time:  *)
(* the record of a live but disconnected instance, which another one       *)
(* retires and whose next heartbeat is then refused, is not modelled.      *)
(***************************************************************************)
EXTENDS ConfigState

CONSTANTS Home,     \* task -> its instance
          Requests  \* the tasks that are calls; the others collect

VARIABLES current,   \* instance -> revision of its current generation
          alive,     \* the instances whose process runs
          task,      \* task -> what it does
          receipts   \* work and its pin: none, tried, live, done or rearmed, and its revision

runtimeVars == <<current, alive, task, receipts>>

\* then, for: what the task does after the admission, and for which work; rev: the
\* generation it got; ver: the version of the row it writes later.  Of a collection:
\* the rows that may be removed or retired, the references found, what is still due.
Resting == [step |-> "idle", then |-> "idle", rev |-> None, for |-> None, ver |-> 0,
            removable |-> {}, due |-> {}, found |-> {}, retired |-> {}]

\* A request is one call; a collection comes again.
Over(t) == IF t \in Requests THEN [Resting EXCEPT !.step = "over"] ELSE Resting

RuntimeInit ==
    /\ current = [i \in Instances |-> 1]
    /\ alive = Instances
    /\ task = [t \in Tasks |-> Resting]
    /\ receipts = [w \in Receipts |-> [state |-> "none", rev |-> None]]

At(t, step) == task[t].step = step
Runs(t) == Home[t] \in alive
UnderWay == {t \in Tasks : task[t].step \notin {"idle", "over"}}

Goes(t, step) == task' = [task EXCEPT ![t].step = step]
Ends(t) == task' = [task EXCEPT ![t] = [Resting EXCEPT !.step = "done"]]
NothingElse == UNCHANGED <<current, alive, receipts>>

\* The task returns to its caller.
Return(t) ==
    /\ Runs(t) /\ At(t, "done")
    /\ task' = [task EXCEPT ![t] = Over(t)]
    /\ WithoutTasks({t})
    /\ NothingElse

-----------------------------------------------------------------------------
(* admission(): read the head, make sure of its snapshot, adopt it.  The    *)
(* refresh queue lets one task of an instance at a time through.            *)

Admitted(t, rev) == task' = [task EXCEPT ![t].step = task[t].then, ![t].then = "idle", ![t].rev = rev]

Refreshes(t) == \A u \in Tasks : Home[u] = Home[t] => task[u].step \notin {"snapshot", "prepare"}

\* adoptHead up to the read of the head; an older head is refused.
ReadHead(t) ==
    /\ Runs(t) /\ At(t, "admission") /\ Refreshes(t)
    /\ CASE head = current[Home[t]] -> Admitted(t, head)
         [] head < current[Home[t]] -> Ends(t)
         [] OTHER -> task' = [task EXCEPT ![t].step = "snapshot", ![t].rev = head]
    /\ UNCHANGED configVars /\ NothingElse

\* buildGenerationForRevision
EnsureSnapshot(t) ==
    /\ Runs(t) /\ At(t, "snapshot")
    /\ WriteSnapshot(task[t].rev, UnderWay)
    /\ Goes(t, "prepare") /\ NothingElse

\* refreshFromHead and swapCurrent
Adopt(t) ==
    /\ Runs(t) /\ At(t, "prepare")
    /\ current' = [current EXCEPT ![Home[t]] = task[t].rev]
    /\ Admitted(t, task[t].rev)
    /\ UNCHANGED configVars /\ UNCHANGED <<alive, receipts>>
AdoptFails(t) ==
    /\ Runs(t) /\ At(t, "prepare")
    /\ Ends(t)
    /\ UNCHANGED configVars /\ NothingElse

StartWith(t, step, for) ==
    /\ Runs(t) /\ At(t, "idle")
    /\ task' = [task EXCEPT ![t] = [Resting EXCEPT !.step = "admission", !.then = step, !.for = for]]
    /\ UNCHANGED configVars /\ NothingElse

-----------------------------------------------------------------------------
(* withAdmissionPin: work is accepted between two writes of a pin. *)

\* beginSnapshotPin: the key is new for every call (randomUUID), so the name of a
\* pin that was written once is not taken again.
BeginPin(t) ==
    /\ Runs(t) /\ At(t, "pin")
    /\ IF Accepts(task[t].for, 0) /\ MayRefer(task[t].rev)
       THEN /\ WriteState(task[t].for, [NoRow EXCEPT !.rev = task[t].rev, !.value = "active", !.by = Home[t]], UnderWay)
            /\ receipts' = [receipts EXCEPT ![task[t].for].state = "tried"]
            /\ Goes(t, "accept")
       ELSE Ends(t) /\ UNCHANGED configVars /\ UNCHANGED receipts
    /\ UNCHANGED <<current, alive>>

\* acceptReceipt commits, or fails; the pin is ended in both cases.
AcceptReceipt(t) ==
    /\ Runs(t) /\ At(t, "accept")
    /\ \/ receipts' = [receipts EXCEPT ![task[t].for] = [state |-> "live", rev |-> task[t].rev]]
       \/ receipts' = receipts
    /\ Goes(t, "unpin") /\ UNCHANGED configVars /\ UNCHANGED <<current, alive>>

\* Faulty: the pin is removed as soon as the work is accepted.
EndPinRemoving(t) ==
    /\ Runs(t) /\ At(t, "unpin")
    /\ DeleteState(task[t].for, 1)
    /\ Ends(t) /\ NothingElse

\* endSnapshotPin: the pin stays, ended, until a collection has asked every source;
\* its age does not matter any more.
EndPin(t) ==
    /\ Runs(t) /\ At(t, "unpin")
    /\ LET pin == states[task[t].for]
       IN  IF Accepts(task[t].for, 1) THEN WriteState(task[t].for, [pin EXCEPT !.value = "ended"], {})
                                      ELSE UNCHANGED configVars
    /\ Ends(t) /\ NothingElse

\* Work that is not done: as it was accepted, or armed again by an operator.  The
\* code does not tell the two apart.
Pending == {"live", "rearmed"}

\* The work ends; its revision is not read again.
CompleteReceipt(w) ==
    /\ receipts[w].state \in Pending
    /\ receipts' = [receipts EXCEPT ![w] = [state |-> "done", rev |-> None]]
    /\ UNCHANGED configVars /\ UNCHANGED <<current, alive, task>>

\* An operator arms settled work again: it gets the current generation of the
\* instance that serves the request, which takes no pin.
RetryReceipt(i, w) ==
    /\ i \in alive /\ receipts[w].state = "done"
    /\ receipts' = [receipts EXCEPT ![w] = [state |-> "rearmed", rev |-> current[i]]]
    /\ UNCHANGED configVars /\ UNCHANGED <<current, alive, task>>

-----------------------------------------------------------------------------
(* The collection: every minute, admission, heartbeat and sweepSnapshots. *)

\* writeHeartbeat
Heartbeat(t) ==
    /\ Runs(t) /\ At(t, "heartbeat")
    /\ LET i == Home[t]
       IN  IF MayRefer(current[i])
           THEN /\ WriteState(i, [states[i] EXCEPT !.rev = current[i], !.ver = 0], {})
                /\ IF t \in Requests THEN Ends(t) ELSE Goes(t, "list")
           ELSE Ends(t) /\ UNCHANGED configVars
    /\ NothingElse

\* A record is live while its process is there to renew it.
LiveInstance(i) == i \in alive \/ (states[i].ver > 0 /\ ~Aged(states[i]))

Abandoned(pin) == Aged(pin) /\ ~LiveInstance(pin.by)

\* The rows are listed first: those that may go, unless something refers to them.
ListStates(t) ==
    /\ Runs(t) /\ At(t, "list")
    /\ task' = [task EXCEPT ![t].step = "poll",
                 ![t].removable =
                    {<<k, states[k].ver, states[k].rev>> :
                        k \in {w \in Receipts : states[w].value = "ended"
                                                \/ (states[w].value = "active" /\ Abandoned(states[w]))}
                              \cup {i \in Instances : states[i].ver > 0 /\ ~LiveInstance(i)}}]
    /\ UNCHANGED configVars /\ NothingElse

\* The references of accepted work.
PollReceipts(t) ==
    /\ Runs(t) /\ At(t, "poll")
    /\ task' = [task EXCEPT ![t].step = "queue", ![t].found = {receipts[w].rev : w \in {v \in Receipts : receipts[v].state \in Pending}}]
    /\ UNCHANGED configVars /\ NothingElse

\* The rows nobody needs are removed one at a time.
RemoveRow(t) ==
    /\ Runs(t) /\ At(t, "rows")
    /\ LET rows == {row \in task[t].removable : row[1] \in Receipts => row[3] \notin task[t].found}
       IN  IF rows = {} THEN task' = [task EXCEPT ![t].step = "candidates", ![t].removable = {}] /\ UNCHANGED configVars
           ELSE LET row == CHOOSE row \in rows : TRUE
                IN  /\ DeleteState(row[1], row[2])
                    /\ task' = [task EXCEPT ![t].removable = @ \ {row}]
    /\ NothingElse

\* sweepUnreferencedConfigSnapshots
ListCandidates(t) ==
    /\ Runs(t) /\ At(t, "candidates")
    /\ task' = [task EXCEPT ![t].step = "delete", ![t].due = Unreferenced \ task[t].found, ![t].found = {}]
    /\ UNCHANGED configVars /\ NothingElse

DeleteNext(t) ==
    /\ Runs(t) /\ At(t, "delete")
    /\ IF task[t].due = {} THEN Ends(t) /\ UNCHANGED configVars
       ELSE LET r == CHOOSE r \in task[t].due : TRUE
            IN  DeleteSnapshot(r) /\ task' = [task EXCEPT ![t].due = @ \ {r}]
    /\ NothingElse

\* A process is lost with its tasks; its rows stay until somebody removes them.
Lost(i) ==
    /\ i \in alive /\ alive # {i}
    /\ alive' = alive \ {i}
    /\ LET mine == {t \in Tasks : Home[t] = i}
       IN  task' = [t \in Tasks |-> IF t \in mine THEN Over(t) ELSE task[t]]
    /\ states' = [k \in Keys |-> [states[k] EXCEPT !.during =
                    (IF k = i THEN UnderWay ELSE @) \ {t \in Tasks : Home[t] = i}]]
    /\ snapshots' = [r \in Revisions |-> [snapshots[r] EXCEPT !.during = @ \ {t \in Tasks : Home[t] = i}]]
    /\ UNCHANGED <<head, current, receipts>>
===============================================================================
