----------------------------- MODULE TaskLedger -----------------------------
(***************************************************************************)
(* One row of the agent_tasks table (claw_v2/task_ledger.py) and what each *)
(* method of TaskLedger writes into it.  Each method is one transaction    *)
(* under the ledger's lock; of the row's text only the verdict is kept:    *)
(* passed says that verification_status is one that counts as passed.     *)
(***************************************************************************)
VARIABLE row   \* the row of the task

Ended == {"succeeded", "failed", "cancelled", "lost"}
RowStatuses == Ended \cup {"absent", "running"}

TaskRow == [status : RowStatuses, passed : BOOLEAN]

Written(status, passed) == [status |-> status, passed |-> passed]

NoRow == Written("absent", FALSE)

\* create() is an upsert: whatever the row says, it takes the given status and
\* loses its verification.
Create(status) == row' = Written(status, FALSE)

\* mark_running_checkpoint does not look at the status either.
Checkpoint == row' = Written("running", FALSE)

\* Mutant: a late writer flips a row that has ended.
MayEnd_Always == TRUE

\* _terminal_write_once: a terminal row is immutable, and the status is read
\* under the lock of the write.
MayEnd == row.status \notin Ended

\* mark_terminal.  A success without a passed verification and evidence is a
\* checkpoint instead (validate_completion).
MarkTerminal(status, proved) ==
    IF status = "succeeded" /\ ~proved
    THEN Checkpoint
    ELSE row' = IF MayEnd THEN Written(status, status = "succeeded") ELSE row

\* mark_stale_running_lost, one UPDATE, of rows that nobody wrote for a while.
MarkStaleRunningLost == row.status = "running" /\ row' = Written("lost", FALSE)

\* reconcile_false_successes.
ReconcileFalseSuccess == /\ row.status = "succeeded" /\ ~row.passed
                         /\ row' = Written("running", FALSE)
=============================================================================
