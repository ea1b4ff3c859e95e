------------------------------ MODULE RuntimeQueue ------------------------------
(***************************************************************************)
(* The ledger of configuration versions beside the job queue (packages/    *)
(* server/src/runtime-queue.ts): a job's version is reserved before the    *)
(* job is enqueued and confirmed after; a collection asks the queue for    *)
(* every reserved job and retires the rows nobody needs.                   *)
(***************************************************************************)
EXTENDS RuntimeConfig

VARIABLES jobs,      \* the queue: job -> none, live or completed
          confirmed  \* job -> an enqueue has confirmed its version

ledgerVars == <<jobs, confirmed>>

LedgerInit ==
    /\ jobs = [j \in Jobs |-> "none"]
    /\ confirmed = [j \in Jobs |-> FALSE]

Queued(t) == jobs[task[t].for]
Ledger(t) == states[task[t].for]
NothingRuns == UNCHANGED <<current, alive, receipts>>

\* enqueue: a job that is there is returned as it is.
FindJob(t) ==
    /\ Runs(t) /\ At(t, "find")
    /\ IF Queued(t) = "none" THEN task' = [task EXCEPT ![t].step = "admission", ![t].then = "reserve"]
                             ELSE Ends(t)
    /\ UNCHANGED ledgerVars /\ UNCHANGED configVars /\ NothingRuns

\* The reservation; the one of somebody else does as well while it is not retired.
Reserve(t) ==
    /\ Runs(t) /\ At(t, "reserve")
    /\ CASE Accepts(task[t].for, 0) /\ MayRefer(task[t].rev) ->
              /\ WriteState(task[t].for, [NoRow EXCEPT !.rev = task[t].rev, !.of = task[t].rev,
                                                       !.value = "preparing", !.by = Home[t]], UnderWay)
              /\ task' = [task EXCEPT ![t].step = "enqueue", ![t].ver = 1]
         [] ~Accepts(task[t].for, 0) /\ Ledger(t).rev # None ->
              /\ task' = [task EXCEPT ![t].step = "enqueue", ![t].ver = Ledger(t).ver]
              /\ UNCHANGED configVars
         [] OTHER -> Ends(t) /\ UNCHANGED configVars
    /\ UNCHANGED ledgerVars /\ NothingRuns

\* queue.enqueue: a job with this id is kept; the call may fail.
EnqueueJob(t) ==
    /\ Runs(t) /\ At(t, "enqueue")
    /\ \/ /\ jobs' = [jobs EXCEPT ![task[t].for] = IF @ = "none" THEN "live" ELSE @]
          /\ Goes(t, "confirm")
       \/ jobs' = jobs /\ Ends(t)
    /\ UNCHANGED confirmed /\ UNCHANGED configVars /\ NothingRuns

\* The confirmation; when it is lost, the winner must not be a retirement.  Nobody
\* asks for the age of a version that is confirmed or retired.
Confirm(t) ==
    /\ Runs(t) /\ At(t, "confirm")
    /\ IF Accepts(task[t].for, task[t].ver)
       THEN WriteState(task[t].for, [Ledger(t) EXCEPT !.value = "enqueued"], {})
       ELSE UNCHANGED configVars
    /\ confirmed' = [confirmed EXCEPT ![task[t].for] = @ \/ Accepts(task[t].for, task[t].ver) \/ Ledger(t).rev # None]
    /\ Ends(t) /\ UNCHANGED jobs /\ NothingRuns

CompleteJob(j) ==
    /\ jobs[j] = "live"
    /\ jobs' = [jobs EXCEPT ![j] = "completed"]
    /\ UNCHANGED confirmed /\ UNCHANGED configVars /\ UNCHANGED runtimeVars

-----------------------------------------------------------------------------
(* listActiveConfigSnapshotIds, a source of the collection. *)

\* A reservation counts while it is young or whoever made it runs.
Preparing(row) == row.value = "preparing" /\ (~Aged(row) \/ LiveInstance(row.by))

\* Every job is asked for before a row is retired; then the collector adds its own
\* generation to the references.
Sweeps(t, due, found, retired) ==
    LET step == IF due # {} THEN "ask" ELSE IF retired # {} THEN "retire" ELSE "rows"
    IN  task' = [task EXCEPT ![t].step = step, ![t].due = due, ![t].retired = retired,
                             ![t].found = IF step = "rows" THEN found \cup {current[Home[t]]} ELSE found]

ListLedger(t) ==
    /\ Runs(t) /\ At(t, "queue")
    /\ LET rows == {[id |-> j, row |-> states[j], held |-> Preparing(states[j])] : j \in {k \in Jobs : states[k].rev # None}}
       IN  Sweeps(t, rows, task[t].found, {})
    /\ UNCHANGED configVars /\ UNCHANGED ledgerVars /\ NothingRuns

\* One job is asked for: its row counts, or may be retired.
AskJob(t) ==
    /\ Runs(t) /\ At(t, "ask")
    /\ LET e == CHOOSE e \in task[t].due : TRUE
           counts == e.held \/ jobs[e.id] = "live"
       IN  Sweeps(t, task[t].due \ {e}, IF counts THEN task[t].found \cup {e.row.rev} ELSE task[t].found,
                 IF counts THEN task[t].retired ELSE task[t].retired \cup {e})
    /\ UNCHANGED configVars /\ UNCHANGED ledgerVars /\ NothingRuns

RetireRow(t) ==
    /\ Runs(t) /\ At(t, "retire")
    /\ LET e == CHOOSE e \in task[t].retired : TRUE
       IN  /\ IF Accepts(e.id, e.row.ver) THEN WriteState(e.id, [e.row EXCEPT !.rev = None], {})
                                          ELSE UNCHANGED configVars
           /\ Sweeps(t, {}, task[t].found, task[t].retired \ {e})
    /\ UNCHANGED ledgerVars /\ NothingRuns
===============================================================================
