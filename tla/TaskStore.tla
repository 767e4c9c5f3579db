------------------------------ MODULE TaskStore ------------------------------
(***************************************************************************)
(* The durable task table of tasks/task-store.ts: one row per task, each   *)
(* statement an UPDATE whose WHERE clause is the guard.  A statement is an  *)
(* operator from a row to the row it leaves; the guards are the sets of    *)
(* statuses the WHERE clause accepts.                                      *)
(***************************************************************************)
EXTENDS Integers, FiniteSets, Sequences

CONSTANTS NumTasks,     \* tasks are numbered in the order of created_at
          Sessions,
          SessionOf,    \* the session_id of each task
          Recurring,    \* the tasks with a cron or interval schedule
          Period,       \* time from completion to the next firing
          MaxAttempts,  \* max_attempts
          MaxTime       \* bound on the clock

Tasks == 1..NumTasks
NoTime == -1

ASSUME StoreAssumption ==
    /\ NumTasks \in Nat
    /\ SessionOf \in [Tasks -> Sessions]
    /\ Recurring \subseteq Tasks
    /\ Period \in Nat \ {0}
    /\ MaxAttempts \in Nat \ {0}
    /\ MaxTime \in Nat

Statuses == {"absent", "pending", "running", "completed", "failed", "blocked", "cancelled"}
Terminal == {"completed", "failed", "blocked", "cancelled"}

\* started is started_at while the row is running, the only time it is read;
\* due is scheduled_for, 0 for NULL.
Rows == [status : Statuses, attempts : Nat, started : Int, due : Nat]

NoRow == [status |-> "absent", attempts |-> 0, started |-> NoTime, due |-> 0]

\* INSERT
Created(due) == [status |-> "pending", attempts |-> 0, started |-> NoTime, due |-> due]

\* Mutant: the attempt is not counted.
ClaimedForFree(r, t) == [r EXCEPT !.status = "running", !.started = t]

\* markRunning claims a pending row.
Claimed(r, t) == [r EXCEPT !.status = "running", !.attempts = @ + 1, !.started = t]

\* markCompleted, markFailed: from running only.  markBlocked and cancel: from
\* pending too.
Settled(r, status) == [r EXCEPT !.status = status, !.started = NoTime]

\* markRetry: the one backward arrow, from running.
Retried(r) == [r EXCEPT !.status = "pending", !.started = NoTime]

\* requeueRecurring, right after markCompleted.
Requeued(r, t) == [r EXCEPT !.status = "pending", !.attempts = 0,
                            !.started = NoTime, !.due = t + Period]

\* recoverStale: a running row older than the threshold.
IsStale(r, t, staleAfter) == r.status = "running" /\ r.started < t - staleAfter

\* The result of a SELECT over the rows S, each with the rows before it in its
\* ORDER BY ahead of it.
Listing(S, before(_, _)) ==
    [n \in 1..Cardinality(S) |->
        CHOOSE t \in S : Cardinality({u \in S : before(u, t)}) = n - 1]

PendingRows(row, k) == {t \in Tasks : row[t].status = "pending" /\ SessionOf[t] = k}
DueRows(row, k, now) == {t \in PendingRows(row, k) : row[t].due <= now}

\* listPending and listDue.
PendingOf(row, k) == Listing(PendingRows(row, k), <)
DueOf(row, k, now) ==
    Listing(DueRows(row, k, now),
            LAMBDA a, b : row[a].due < row[b].due \/ (row[a].due = row[b].due /\ a < b))

=============================================================================
