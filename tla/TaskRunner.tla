------------------------------ MODULE TaskRunner ------------------------------
(***************************************************************************)
(* Processes that share the task table: the drains of TaskRunner, the      *)
(* ticks of Scheduler, operators that create, run and cancel tasks, and    *)
(* processes that crash and start again.                                   *)
(*                                                                         *)
(* A drain lists pending rows, splits them by session and works each group *)
(* off in order.  A group is "ready" before a task, in a "turn" while      *)
(* runTurn is awaited, asleep ("sleep") between two attempts, and "stuck"  *)
(* when an error escaped runOne: the group's promise has rejected, and     *)
(* with it the drain's, while the other groups go on.  Listing the rows    *)
(* and claiming the first of each group is one synchronous stretch.        *)
(***************************************************************************)
EXTENDS TaskStore

CONSTANTS Procs,        \* processes on the same database
          Schedulers,   \* those that run a scheduler
          Drains,       \* drain slots: the bound on concurrent drains
          NoDrain, NoProc,
          Backoff,      \* the delay before a retry
          StaleAfter,   \* tasks.staleAfterMs
          Delays,       \* how far ahead a new one-shot task may be scheduled
          MaxCrashes    \* bound on crashes

ASSUME RunnerAssumption ==
    /\ Schedulers \subseteq Procs
    /\ IsFiniteSet(Procs)
    /\ NoDrain \notin Drains
    /\ NoProc \notin Procs
    /\ Backoff \in Nat \ {0}
    /\ StaleAfter \in Nat
    /\ Delays \subseteq Nat
    /\ MaxCrashes \in Nat

VARIABLES row,        \* the task table
          now,        \* the clock
          up,         \* the processes that are alive
          kind,       \* what started each drain, "free" for an unused slot
          owner,      \* the process each drain runs in
          todo,       \* what each session group of a drain has left
          at,         \* where each session group is
          tries,      \* claimed.attempts of the group's turn
          wake,       \* when a sleeping group wakes
          inFlight,   \* Scheduler.inFlight: the drain of the running tick
          stopping,   \* Scheduler.stopping
          crashes,    \* history: crashes so far
          recovered   \* history: how often recoverStale took each row

storeVars == <<row, now>>
drainVars == <<kind, owner, todo, at, tries, wake>>
procVars == <<up, inFlight, stopping, crashes>>
vars == <<storeVars, drainVars, procVars, recovered>>

Kinds == {"free", "tick", "eager", "pending", "one"}

TypeOK ==
    /\ row \in [Tasks -> Rows]
    /\ now \in 0..MaxTime
    /\ up \subseteq Procs
    /\ kind \in [Drains -> Kinds]
    /\ owner \in [Drains -> Procs \cup {NoProc}]
    /\ todo \in [Drains -> [Sessions -> Seq(Tasks)]]
    /\ at \in [Drains -> [Sessions -> {"idle", "ready", "turn", "sleep", "stuck"}]]
    /\ tries \in [Drains -> [Sessions -> Nat]]
    /\ wake \in [Drains -> [Sessions -> Nat]]
    /\ inFlight \in [Procs -> Drains \cup {NoDrain}]
    /\ stopping \subseteq Procs
    /\ crashes \in 0..MaxCrashes
    /\ recovered \in [Tasks -> Nat]

\* The end of a delay that starts now, within the bound of the clock.
Later == IF now + Backoff < MaxTime THEN now + Backoff ELSE MaxTime

ByDrain(v) == [d \in Drains |-> [k \in Sessions |-> v]]

Init ==
    /\ row = [t \in Tasks |-> NoRow]
    /\ now = 0
    /\ up = Procs
    /\ kind = [d \in Drains |-> "free"]
    /\ owner = [d \in Drains |-> NoProc]
    /\ todo = ByDrain(<<>>)
    /\ at = ByDrain("idle")
    /\ tries = ByDrain(0)
    /\ wake = ByDrain(0)
    /\ inFlight = [p \in Procs |-> NoDrain]
    /\ stopping = {}
    /\ crashes = 0
    /\ recovered = [t \in Tasks |-> 0]

Current(d, k) == Head(todo[d][k])

-----------------------------------------------------------------------------
(* Drains.                                                                 *)

\* Begin a drain of process p over the listed groups, on rows r: the first row
\* of each group is claimed at once.  The session of a one-shot task may be
\* gone, which blocks the row instead of running it.
Begin(d, p, kd, groups, r) ==
    LET heads == {Head(groups[k]) : k \in {j \in Sessions : groups[j] # <<>>}}
    IN \E gone \in SUBSET (heads \ Recurring) :
        LET left == [k \in Sessions |->
                IF groups[k] # <<>> /\ Head(groups[k]) \in gone
                THEN Tail(groups[k]) ELSE groups[k]]
            runs(k) == left[k] # <<>> /\ left[k] = groups[k]
        IN /\ heads # {}
           /\ kind[d] = "free"
           /\ row' = [t \in Tasks |->
                CASE t \in gone -> Settled(Claimed(r[t], now), "blocked")
                  [] t \in heads \ gone -> Claimed(r[t], now)
                  [] OTHER -> r[t]]
           /\ IF \A k \in Sessions : left[k] = <<>>
              THEN UNCHANGED <<drainVars, inFlight>>
              ELSE /\ kind' = [kind EXCEPT ![d] = kd]
                   /\ owner' = [owner EXCEPT ![d] = p]
                   /\ todo' = [todo EXCEPT ![d] = left]
                   /\ at' = [at EXCEPT ![d] = [k \in Sessions |->
                        IF left[k] = <<>> THEN "idle"
                        ELSE IF runs(k) THEN "turn" ELSE "ready"]]
                   /\ tries' = [tries EXCEPT ![d] = [k \in Sessions |->
                        IF runs(k) THEN r[Head(left[k])].attempts + 1 ELSE 0]]
                   /\ inFlight' = IF kd = "tick" THEN [inFlight EXCEPT ![p] = d] ELSE inFlight
                   /\ UNCHANGED wake

\* Mutant: the scheduler forgets to take a settled drain off inFlight.
LeaveInFlight(d, k, left, state) ==
    LET states == [at[d] EXCEPT ![k] = IF left = <<>> THEN "idle" ELSE state]
        over == \A j \in Sessions : states[j] \in {"idle", "stuck"}
    IN /\ kind' = IF over THEN [kind EXCEPT ![d] = "free"] ELSE kind
       /\ todo' = [todo EXCEPT ![d] = IF over THEN [j \in Sessions |-> <<>>]
                                      ELSE [@ EXCEPT ![k] = left]]
       /\ at' = [at EXCEPT ![d] = IF over THEN [j \in Sessions |-> "idle"] ELSE states]
       /\ tries' = [tries EXCEPT ![d][k] = 0]
       /\ wake' = [wake EXCEPT ![d][k] = 0]
       /\ owner' = IF over THEN [owner EXCEPT ![d] = NoProc] ELSE owner
       /\ UNCHANGED inFlight

\* Leave group k of drain d with tasks left to do.  The drain's promise settles
\* when every group has finished, and earlier when one rejects.
Leave(d, k, left, state) ==
    LET rest == [todo[d] EXCEPT ![k] = left]
        states == [at[d] EXCEPT ![k] = IF left = <<>> THEN "idle" ELSE state]
        over == \A j \in Sessions : states[j] \in {"idle", "stuck"}
    IN /\ kind' = IF over THEN [kind EXCEPT ![d] = "free"] ELSE kind
       /\ todo' = [todo EXCEPT ![d] = IF over THEN [j \in Sessions |-> <<>>] ELSE rest]
       /\ at' = [at EXCEPT ![d] = IF over THEN [j \in Sessions |-> "idle"] ELSE states]
       /\ tries' = [tries EXCEPT ![d][k] = 0]
       /\ inFlight' = IF inFlight[owner[d]] = d /\ (over \/ states[k] = "stuck")
                      THEN [inFlight EXCEPT ![owner[d]] = NoDrain]
                      ELSE inFlight
       /\ wake' = [wake EXCEPT ![d][k] = 0]
       /\ owner' = IF over THEN [owner EXCEPT ![d] = NoProc] ELSE owner

NextTask(d, k) == Leave(d, k, Tail(todo[d][k]), "ready")
Reject(d, k) == Leave(d, k, todo[d][k], "stuck")

\* Mutant: markRunning takes a row whatever its status.
ClaimUnguarded(d, k) ==
    /\ \/ at[d][k] = "ready"
       \/ at[d][k] = "sleep" /\ now >= wake[d][k]
    /\ row' = [row EXCEPT ![Current(d, k)] = Claimed(@, now)]
    /\ at' = [at EXCEPT ![d][k] = "turn"]
    /\ tries' = [tries EXCEPT ![d][k] = row[Current(d, k)].attempts + 1]
    /\ wake' = [wake EXCEPT ![d][k] = 0]
    /\ UNCHANGED <<kind, owner, todo, inFlight, now, up, stopping, crashes, recovered>>

\* runOne on a task that is not the first of its batch, or again after the
\* delay: claim it if its row is pending, else skip it.
Claim(d, k) ==
    LET t == Current(d, k) IN
    /\ \/ at[d][k] = "ready"
       \/ at[d][k] = "sleep" /\ now >= wake[d][k]
    /\ \/ /\ row[t].status = "pending"
          /\ row' = [row EXCEPT ![t] = Claimed(@, now)]
          /\ at' = [at EXCEPT ![d][k] = "turn"]
          /\ tries' = [tries EXCEPT ![d][k] = row[t].attempts + 1]
          /\ wake' = [wake EXCEPT ![d][k] = 0]
          /\ UNCHANGED <<kind, owner, todo, inFlight>>
       \/ /\ row[t].status = "pending"
          /\ t \notin Recurring
          /\ row' = [row EXCEPT ![t] = Settled(Claimed(@, now), "blocked")]
          /\ NextTask(d, k)
       \/ /\ row[t].status # "pending"
          /\ NextTask(d, k)
          /\ UNCHANGED row
    /\ UNCHANGED <<now, up, stopping, crashes, recovered>>

\* Mutant: markBlocked takes a terminal row too.
BlockAny(d, k) ==
    /\ row' = [row EXCEPT ![Current(d, k)] = Settled(@, "blocked")]
    /\ NextTask(d, k)

\* markBlocked at the end of a turn, also where another transition was refused:
\* it takes a row that went back to pending, and throws on a terminal one.
BlockOrReject(d, k) ==
    LET t == Current(d, k) IN
    \/ /\ row[t].status \in {"running", "pending"}
       /\ row' = [row EXCEPT ![t] = Settled(@, "blocked")]
       /\ NextTask(d, k)
    \/ /\ row[t].status \in Terminal
       /\ UNCHANGED row
       /\ Reject(d, k)

\* The turn returned with a reply or a finish: markCompleted, and the next
\* firing of a recurring task.
TurnCompletes(d, k) ==
    LET t == Current(d, k) IN
    /\ at[d][k] = "turn"
    /\ IF row[t].status = "running"
       THEN /\ row' = [row EXCEPT ![t] = IF t \in Recurring
                                         THEN Requeued(@, now)
                                         ELSE Settled(@, "completed")]
            /\ NextTask(d, k)
       ELSE BlockOrReject(d, k)
    /\ UNCHANGED <<now, up, stopping, crashes, recovered>>

\* Mutant: one attempt too many.
ExhaustedAfterMax(attempts) == attempts > MaxAttempts

\* The attempt budget of handleFailure.
Exhausted(attempts) == attempts >= MaxAttempts

\* A retryable failure: retry while attempts are left, else fail.  A refused
\* markRetry or markFailed blocks the row when the turn returned "failed", and
\* escapes when runTurn threw.
TurnFails(d, k) ==
    LET t == Current(d, k) IN
    /\ at[d][k] = "turn"
    /\ CASE row[t].status # "running" ->
              BlockOrReject(d, k) \/ (Reject(d, k) /\ UNCHANGED row)
         [] row[t].status = "running" /\ Exhausted(tries[d][k]) ->
              /\ row' = [row EXCEPT ![t] = Settled(@, "failed")]
              /\ NextTask(d, k)
         [] OTHER ->
              /\ row' = [row EXCEPT ![t] = Retried(@)]
              /\ IF kind[d] = "one"
                 THEN NextTask(d, k)
                 ELSE /\ at' = [at EXCEPT ![d][k] = "sleep"]
                      /\ wake' = [wake EXCEPT ![d][k] = Later]
                      /\ tries' = [tries EXCEPT ![d][k] = 0]
                      /\ UNCHANGED <<kind, owner, todo, inFlight>>
    /\ UNCHANGED <<now, up, stopping, crashes, recovered>>

\* runTurn threw what classifies as a grammar or tool failure.
TurnThrows(d, k) ==
    /\ at[d][k] = "turn"
    /\ BlockOrReject(d, k)
    /\ UNCHANGED <<now, up, stopping, crashes, recovered>>

\* Mutant: a cancelled turn leaves its row alone.
TurnCancelledSilently(d, k) ==
    /\ at[d][k] = "turn"
    /\ NextTask(d, k)
    /\ UNCHANGED <<row, now, up, stopping, crashes, recovered>>

\* The turn was cancelled: cancel() takes pending and running rows and leaves
\* terminal ones.
TurnCancelled(d, k) ==
    LET t == Current(d, k) IN
    /\ at[d][k] = "turn"
    /\ row' = [row EXCEPT ![t] = IF @.status \in Terminal THEN @ ELSE Settled(@, "cancelled")]
    /\ NextTask(d, k)
    /\ UNCHANGED <<now, up, stopping, crashes, recovered>>

-----------------------------------------------------------------------------
(* Operators, the scheduler and the clock.                                 *)

\* create() in process p: insert the row, and with runOnCreate drain its
\* session at once unless the task is scheduled ahead.
Create(p) == \E t \in Tasks, d \in Drains :
    \E due \in IF t \in Recurring THEN {now + Period}
               ELSE {0} \cup {now + x : x \in Delays} :
        LET inserted == [row EXCEPT ![t] = Created(due)] IN
        /\ p \in up
        /\ row[t].status = "absent"
        /\ \A u \in 1..(t - 1) : row[u].status # "absent"
        /\ IF due <= now
           THEN Begin(d, p, "eager",
                      [k \in Sessions |->
                          IF k = SessionOf[t] THEN PendingOf(inserted, k) ELSE <<>>],
                      inserted)
           ELSE row' = inserted /\ UNCHANGED <<drainVars, inFlight>>
        /\ UNCHANGED <<now, up, stopping, crashes, recovered>>

\* Mutant: a tick starts whatever is in flight.
SchedulerTickReenters(p) == \E d \in Drains :
    /\ p \in up \cap Schedulers
    /\ p \notin stopping
    /\ Begin(d, p, "tick", [k \in Sessions |-> DueOf(row, k, now)], row)
    /\ UNCHANGED <<now, up, stopping, crashes, recovered>>

\* One tick of the scheduler, skipped while the previous one is in flight.
SchedulerTick(p) == \E d \in Drains :
    /\ p \in up \cap Schedulers
    /\ p \notin stopping
    /\ inFlight[p] = NoDrain
    /\ Begin(d, p, "tick", [k \in Sessions |-> DueOf(row, k, now)], row)
    /\ UNCHANGED <<now, up, stopping, crashes, recovered>>

\* drainPending() over everything, and runOne() on one task.
DrainAll(p) == \E d \in Drains :
    /\ p \in up
    /\ Begin(d, p, "pending", [k \in Sessions |-> PendingOf(row, k)], row)
    /\ UNCHANGED <<now, up, stopping, crashes, recovered>>

RunOne(p) == \E t \in Tasks, d \in Drains :
    /\ p \in up
    /\ row[t].status = "pending"
    /\ Begin(d, p, "one",
             [k \in Sessions |-> IF k = SessionOf[t] THEN <<t>> ELSE <<>>], row)
    /\ UNCHANGED <<now, up, stopping, crashes, recovered>>

\* An operator cancels a task.  A turn in flight is not told.
Cancel(t) ==
    /\ up # {}
    /\ row[t].status \in {"pending", "running"}
    /\ row' = [row EXCEPT ![t] = Settled(@, "cancelled")]
    /\ UNCHANGED <<now, drainVars, procVars, recovered>>

\* Scheduler.stop() clears the interval; it returns once nothing is in flight.
StopScheduler(p) ==
    /\ p \in (up \cap Schedulers) \ stopping
    /\ stopping' = stopping \cup {p}
    /\ UNCHANGED <<storeVars, drainVars, up, inFlight, crashes, recovered>>

\* The process dies, its drains and turns with it.
Crash(p) ==
    /\ p \in up
    /\ crashes < MaxCrashes
    /\ crashes' = crashes + 1
    /\ up' = up \ {p}
    /\ kind' = [d \in Drains |-> IF owner[d] = p THEN "free" ELSE kind[d]]
    /\ todo' = [d \in Drains |-> IF owner[d] = p THEN [k \in Sessions |-> <<>>] ELSE todo[d]]
    /\ at' = [d \in Drains |-> IF owner[d] = p THEN [k \in Sessions |-> "idle"] ELSE at[d]]
    /\ tries' = [d \in Drains |-> IF owner[d] = p THEN [k \in Sessions |-> 0] ELSE tries[d]]
    /\ wake' = [d \in Drains |-> IF owner[d] = p THEN [k \in Sessions |-> 0] ELSE wake[d]]
    /\ inFlight' = [inFlight EXCEPT ![p] = NoDrain]
    /\ owner' = [d \in Drains |-> IF owner[d] = p THEN NoProc ELSE owner[d]]
    /\ stopping' = stopping \ {p}
    /\ UNCHANGED <<storeVars, recovered>>

\* Bootstrap: one pass of recoverStale, then the scheduler starts.
Restart(p) ==
    /\ p \notin up
    /\ up' = up \cup {p}
    /\ LET stale == {t \in Tasks : IsStale(row[t], now, StaleAfter)} IN
        /\ row' = [t \in Tasks |-> IF t \in stale THEN Retried(row[t]) ELSE row[t]]
        /\ recovered' = [t \in Tasks |-> IF t \in stale THEN recovered[t] + 1 ELSE recovered[t]]
    /\ UNCHANGED <<now, drainVars, inFlight, stopping, crashes>>

ClockTick ==
    /\ now < MaxTime
    /\ now' = now + 1
    /\ UNCHANGED <<row, drainVars, procVars, recovered>>

EndTurn(d, k) ==
    TurnCompletes(d, k) \/ TurnFails(d, k) \/ TurnThrows(d, k) \/ TurnCancelled(d, k)

Next ==
    \/ \E d \in Drains, k \in Sessions :
        \/ Claim(d, k)
        \/ TurnCompletes(d, k) \/ TurnFails(d, k) \/ TurnThrows(d, k) \/ TurnCancelled(d, k)
    \/ \E p \in Procs :
        \/ Create(p) \/ SchedulerTick(p) \/ DrainAll(p) \/ RunOne(p)
        \/ StopScheduler(p) \/ Crash(p) \/ Restart(p)
    \/ \E t \in Tasks : Cancel(t)
    \/ ClockTick

Spec == Init /\ [][Next]_vars

\* Turns end, timers fire, the interval ticks and a supervisor restarts the
\* process; users owe nothing.
Fairness ==
    /\ WF_vars(ClockTick)
    /\ \A d \in Drains, k \in Sessions : WF_vars(Claim(d, k)) /\ WF_vars(EndTurn(d, k))
    /\ \A p \in Procs : WF_vars(SchedulerTick(p)) /\ WF_vars(Restart(p))

FairSpec == Spec /\ Fairness

-----------------------------------------------------------------------------

\* The groups whose turn runs task t.
TurnsOf(t) == {g \in Drains \X Sessions :
    at[g[1]][g[2]] = "turn" /\ Current(g[1], g[2]) = t}

\* Drains race for rows through markRunning alone, and only one wins: a task
\* never has two turns at once in one process, however many drains listed it
\* and however often the process crashed.  Where a second process takes part,
\* each recovery of a live row adds at most one.
OneTurnPerTask == \A t \in Tasks :
    Cardinality(TurnsOf(t)) <= 1 + (IF Cardinality(Procs) > 1 THEN recovered[t] ELSE 0)

\* "Hard upper bound on attempts per task", but for recoveries: every recovery
\* of a crashed attempt allows one more.
AttemptsBoundedByRecoveries == \A t \in Tasks :
    row[t].attempts <= MaxAttempts + recovered[t]

\* A row and the turn that works for it do not drift apart: the row of a turn
\* in flight is running unless an operator cancelled it, and without a crash
\* no row is left running without a turn.
RowsMatchTurns == \A t \in Tasks : recovered[t] = 0 =>
    /\ TurnsOf(t) # {} => row[t].status \in {"running", "cancelled"}
    /\ row[t].status = "running" /\ crashes = 0 => TurnsOf(t) # {}

\* What was settled, by a turn or by an operator, is never revived: in
\* particular a cancelled recurring task is not requeued by the turn that was
\* running when it was cancelled.
TerminalIsFinal ==
    [][\A t \in Tasks : row[t].status \in Terminal => row'[t] = row[t]]_vars

TickDrains(p) == {d \in Drains : kind[d] = "tick" /\ owner[d] = p}

\* The scheduler loses sight of a drain of its tick only where a group of the
\* drain rejected: else a tick that still drains holds back the next one, and
\* stop() waits for it.
TickIsWatched == \A p \in Procs : \A d \in TickDrains(p) :
    inFlight[p] # d => \E k \in Sessions : at[d][k] = "stuck"

\* The runner is a lifecycle of tasks: rows and turns move as TaskLifecycle
\* says, however drains, retries, outcomes that come late, operators, crashes
\* and recoveries interleave, and each attempt is counted against the budget.
Lifecycle == INSTANCE TaskLifecycle WITH
    Workers <- Drains \X Sessions,
    status <- [t \in Tasks |-> row[t].status],
    attempts <- [t \in Tasks |-> row[t].attempts],
    work <- [t \in Tasks |-> TurnsOf(t)]

ImplementsLifecycle == Lifecycle!Spec

\* A task that is due is taken up as long as the scheduler is not stopped.
DueTasksRun == \A t \in Tasks :
    (row[t].status = "pending" /\ row[t].due <= now)
        ~> (row[t].status # "pending" \/ stopping # {})

\* A row does not stay running for ever, unless its turn died in a crash: the
\* one pass of recovery may then find the row too young.
RunningEnds == \A t \in Tasks :
    row[t].status = "running"
        ~> (row[t].status # "running" \/ (crashes > 0 /\ TurnsOf(t) = {}))

=============================================================================
