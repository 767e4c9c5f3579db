----------------------------- MODULE TaskLifecycle -----------------------------
(***************************************************************************)
(* What the task table and its runner promise for each task, whatever      *)
(* sessions, drains, schedulers, clocks and processes there are: the life  *)
(* of a row and of the turns that work for it.  A turn is begun for a row  *)
(* that waits, takes one attempt off its budget and in the end moves the   *)
(* row.  The row does not know its turn: where it was taken from a turn    *)
(* that lives on, that turn may close the row while it waits again, or end *)
(* the attempt of the next turn.  What was settled is not touched.         *)
(* Several tasks may take a step at once: a drain claims one of each       *)
(* session, a crash and a recovery concern them all.                       *)
(***************************************************************************)
EXTENDS Naturals

CONSTANTS Tasks,
          Recurring,    \* the tasks that come back after they completed
          MaxAttempts,  \* the attempts of a task, or of one firing of it
          Workers       \* who can run a turn

VARIABLES status,     \* absent -> pending <-> running -> settled
          attempts,   \* attempts of the task, or of its current firing
          work,       \* who runs a turn for the task
          recovered   \* how often the task was taken from a turn believed dead

vars == <<status, attempts, work, recovered>>

Settled == {"completed", "failed", "blocked", "cancelled"}

Init ==
    /\ status = [t \in Tasks |-> "absent"]
    /\ attempts = [t \in Tasks |-> 0]
    /\ work = [t \in Tasks |-> {}]
    /\ recovered = [t \in Tasks |-> 0]

Budget(t) == MaxAttempts + recovered[t]

\* The task moves from one of the statuses to another.
Moves(t, from, to) == status[t] \in from /\ status'[t] \in to

SameWork(t) == work'[t] = work[t]
SameAttempts(t) == attempts'[t] = attempts[t]

Submit(t) ==
    /\ Moves(t, {"absent"}, {"pending"})
    /\ SameAttempts(t) /\ SameWork(t)

\* The row is claimed, perhaps the moment it is submitted, for a turn or only
\* to find that it cannot run.
Begin(t) ==
    /\ attempts'[t] = attempts[t] + 1
    /\ attempts'[t] <= Budget(t)
    /\ \/ /\ Moves(t, {"absent", "pending"}, {"running"})
          /\ \E w \in Workers \ work[t] : work'[t] = work[t] \cup {w}
       \/ /\ Moves(t, {"absent", "pending"}, {"blocked"})
          /\ SameWork(t)

\* A turn ends: it settles its row, or sends it back for another attempt while
\* the budget lasts, or for its next firing.
End(t) == \E w \in work[t] :
    /\ work'[t] = work[t] \ {w}
    /\ \/ Moves(t, {"running"}, Settled) /\ SameAttempts(t)
       \/ Moves(t, {"running"}, {"pending"}) /\ SameAttempts(t) /\ attempts[t] < Budget(t)
       \/ Moves(t, {"running"}, {"pending"}) /\ attempts'[t] = 0 /\ t \in Recurring

\* A turn ends whose row is not running any more.
EndLate(t) == \E w \in work[t] :
    /\ work'[t] = work[t] \ {w}
    /\ SameAttempts(t)
    /\ \/ status[t] \in Settled \cup {"pending"} /\ status'[t] = status[t]
       \/ Moves(t, {"pending"}, {"blocked", "cancelled"})

Cancel(t) ==
    /\ Moves(t, {"pending", "running"}, {"cancelled"})
    /\ SameAttempts(t) /\ SameWork(t)

Recover(t) ==
    /\ Moves(t, {"running"}, {"pending"})
    /\ SameAttempts(t) /\ SameWork(t)
    /\ recovered'[t] = recovered[t] + 1

\* Turns die with their process.
Die(t) ==
    /\ work'[t] \subseteq work[t]
    /\ status'[t] = status[t] /\ SameAttempts(t)

Live(t) == Submit(t) \/ Begin(t) \/ End(t) \/ EndLate(t) \/ Cancel(t) \/ Die(t)

\* Die(t) with nobody lost is a task that takes no part in the step.
Next == \A t \in Tasks :
    \/ Live(t) /\ recovered'[t] = recovered[t]
    \/ Recover(t)

Spec == Init /\ [][Next]_vars

=============================================================================
