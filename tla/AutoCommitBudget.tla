--------------------------- MODULE AutoCommitBudget ---------------------------
(***************************************************************************)
(* How often a sealed batch is executed.  The attempt column is reset by   *)
(* the automatic recovery and by the operator's retry, so it does not say; *)
(* two history variables do.                                               *)
(***************************************************************************)
EXTENDS AutoCommitStore

VARIABLES starts,  \* executions of a batch since it was sealed or last retried
          retried  \* an operator has re-armed the batch

budgetVars == <<batches, outbox, heads, members, starts, retried>>

BudgetInit == /\ Init
              /\ starts = [b \in Batches |-> 0]
              /\ retried = [b \in Batches |-> FALSE]

Starts(b) == batches[b].status = "queued" /\ batches'[b].status = "running"

\* Every operation but the manual retry: an execution that starts is counted.
Count == /\ starts' = [b \in Batches |-> IF Starts(b) THEN starts[b] + 1 ELSE starts[b]]
         /\ UNCHANGED retried

Retry(b) == /\ RequeueBatchForRecovery(b)
            /\ starts' = [starts EXCEPT ![b] = 0]
            /\ retried' = [retried EXCEPT ![b] = TRUE]

BudgetNext ==
    \/ MemberNext /\ Count
    \/ SealNext /\ Count
    \/ DispatchNext /\ Count
    \/ ExecuteNext /\ Count
    \/ SweepNext /\ Count
    \/ \E b \in Batches : Retry(b)
    \/ Tick /\ Count

BudgetSpec == BudgetInit /\ [][BudgetNext]_budgetVars

-----------------------------------------------------------------------------
\* The automatic recovery re-arms a batch with one attempt already spent.
Rearms == IF MaxAttempts = 1 THEN 1 ELSE MaxAttempts - 1

\* However often a batch fails, is reclaimed, deferred, requeued or restarted,
\* automation alone executes it a bounded number of times: the attempts of a new
\* batch, then those of its one recovery.  An operator's retry never grants more
\* than the full budget its documentation promises, and no second recovery after
\* it; that the code grants one execution less is not part of the claim.
ExecutionsBounded ==
    \A b \in Batches :
       starts[b] <= IF retried[b] THEN MaxAttempts ELSE MaxAttempts + Rearms

=============================================================================
