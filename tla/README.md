# TLA+ models of the h0x agent runtime

`h0x` is a command-line agent: a TUI, an HTTP server, a desktop sidecar, a
Telegram bot, one-shot commands and a scheduler all drive the same runtime in
one Node.js process, and several such processes may share one SQLite file.
The specifications here cover what decides whether that sharing is correct:
who may run a turn of a session and when, what happens to a message typed
while a turn runs, what the terminal does with messages and turns when the
operator moves between threads, in which order the tool calls of a step run
and when a loop of them is cut, what becomes of a durable task when turns fail
and processes die, who answers an approval prompt, and which MCP tools the
model is told of.

Paths below are relative to `src/src/`.

    cd tla
    tlasany TurnController.tla
    tlc -workers 2 -config TurnController.cfg MCTurnController
    tlapm TurnControllerProofs.tla

## 1. Inventory

The runtime is single-threaded JavaScript: code between two `await`s is
atomic, everything else interleaves. That is why in every module an action
is one stretch of code from one `await` to the next, and why there are no
data races to model. What runs concurrently are promise chains, timers,
intervals, messages from users, and other processes on the same database.

| Component | State | Operations | Talks to | What is hard | What makes it correct |
|---|---|---|---|---|---|
| Turn queue `runtime/turn-controller.ts` | tail promise, hook and busy flag per session | `enqueue`, abort while queued, `emit`, `isBusy` | every surface; the turn body it is given | promise chain with abortable links, release in `finally` blocks | one body per session, in order; no wedged session; no leaked map entry |
| Agent turn `runtime/bootstrap.ts`, `agent/agent-loop.ts` | working transcript, step index | `runTurn`, `executeTurn`, step boundary, end, save | queue, steering inbox, session store, gate | ends in many ways (reply, budget, abort, breaker, throw), stored session is stale while queued | the stored transcript only grows and holds what the agent read |
| Steering inbox `runtime/steering-inbox.ts` | accepting set, messages per session | `steer` (push), `drain`, `closeAndDrain`, `clear` | users, agent turn | message between the last drain and the close | an accepted message is read once, in order, by its own turn or handed back |
| Task table `tasks/task-store.ts` | one row per task | create, claim, settle, retry, requeue, cancel, recover | runner, operators, all processes | several drains and processes race on rows; crash between two updates | one turn per task, bounded attempts, terminal is final |
| Task runner `tasks/task-runner.ts` | session groups of running drains, backoff timers | eager drain, `drainPending`, tick, `runOne`, outcomes | table, agent turn | rows listed before an await are used after it; one group of several rejects | rows and turns agree; due tasks run |
| Scheduler `scheduler/scheduler.ts` | interval, in-flight drain, stopping | `tickOnce`, `stop` | runner | a tick that outlasts the interval | no overlapping ticks, `stop` waits |
| Approval gate `approval/approval-gate.ts`, `approval-level.ts` | level, grants, pending requests | `request`, `resolve`, abort, `denyPendingForSession`, `setLevel`, `clearSessionGrants` | dangerous tools, all surfaces | late or double answers, aborts, grants that outlive a prompt | a call is silent only where that was earned; a decision is final |
| Telegram channel `channels/telegram/*`, `approval/approval-router.ts` | chat slot, session pointer, router binding, prompts with timers | message, `/new`, `/cancel`, button, timer, `stop`, `start` | queue, gate, Telegram API | an answer races a timer, an abort and a stop; the slot holds one of many turns | who waits for an answer can get one |
| Tool batch `agent/batch-executor.ts`, `agent/step-executor.ts` | result slots, groups, waves | gate, dispatch, settle, abort | tools, gate, loop detector | groups side by side, serial within; one rejection ends the batch under running siblings | order within a resource, reply last; a recorded step is whole |
| Loop detector `agent/loop-detector.ts` | ring of calls, vetoes in a row | record, veto, force a reply | batch gate | one ring for all calls of a turn | a repeat is vetoed, vetoes end the turn |
| TUI chat queue `tui/chat-orchestrator.ts`, `tui/detached-turns.ts` | visible thread, parked messages, steer watermark, handles of turns left running | send, steer, switch, open, delete, abort, clear, quit | queue, inbox, store, gate | turns end off screen, in any order with what the operator does; steers are spliced by position | typed order and thread are kept, every turn can be stopped, nothing vanishes |
| Undelivered steers, HTTP server `http/*` | parked messages with cursors, completions, approval mirror | post, fetch, evict | inbox, gate, queue | eviction, replay, reconnect | no accepted message vanishes silently |
| Sidecar `sidecar/*` | one active session record | `send_message`, `cancel`, `new_session` | queue | record written back after an await | the record is the current session's |
| Provider fallback `llm/fallback/*` | breaker and override per session | attempt, probe, cooldown | providers | probe and cooldown interplay | a working provider is reached |
| llama-server slots `llm/slot-manager.ts` | session to slot | acquire, release | local model | relies on one turn per session | one session per slot |
| MCP servers `mcp/*`, `tui/mcp/mcp-orchestrator.ts` | entry per server with client, catalog and registered tools; configuration | connect, add, remove, shutdown, refresh | tool registry, grammar | removal, addition and shutdown while a connect or a close is awaited | advertised tools reach their server; no leftovers |
| Model daemon `local-llm/*` | marker files, child process | start, adopt, stop | other processes | last one out stops it | alive while used, dead after |
| Memory, reflection `memory/*` | rows, one reflection per session | reflect, vote, consolidate | agent turn | background call against the next turn | aborted before the next turn |
| Session store `session/*` | one row per session | load, save, delete | agent turn | delete during a turn | deleted stays deleted |
| Trace recorders `tracing/trace` | pinned LRU | pin, evict | agent turn | pins by session id | no recorder evicted in use |
| Tools, skills, prompts, compression, config, CLI, import, update, TUI views, analytics | none across calls, or files of one process | | | | |

`PROJECT.json` lists every component with its source files and status, and
the hazards at the lines where they bite.

## 2. Modules

    SessionFifo                 what the queue promises
       ^ refined by
    TurnController  <- TurnControllerProofs
       |       \
       |        SteeredTurns <- SteeredTurnsProofs  (INSTANCE TurnController)
       v
    TelegramApprovals <- TelegramApprovalsProofs
       | EXTENDS
    ApprovalGate    <- ApprovalGateProofs

    TaskLifecycle               what the table and its runner promise a task
       ^ refined by
    TaskStore <- TaskRunner <- TaskRunnerProofs     (EXTENDS)
    LoopTracker <- ToolSteps <- ToolStepsProofs     (EXTENDS)
    McpServers <- McpServersProofs
    ChatQueue <- ChatQueueProofs

Each specification is instantiated for TLC by an `MC` module.
`SteeredTurnsProofs` and `TelegramApprovalsProofs` instantiate
`TurnControllerProofs` for the queue inside their module and cite its
theorems there.
Operators marked `Mutant:` are plausible bugs in the definition that follows
them; no specification uses them. They exist to see that a property fails
when the code is wrong in that way.

### TurnController, SessionFifo

`Map sessionId -> promise` becomes `queues`, a promise being identified with
the submission that resolves it. `prev` is the promise a submission awaits,
`released` the set of resolved ones, `busy` and `hooks` the busy set and
hook slots. `pc` is the place in `enqueue()`.

| Action | Code |
|---|---|
| `Enqueue` | `enqueue` up to the first `await`: read the tail, become it |
| `EnqueueAborted` | the throw on a signal that is already aborted |
| `StartRun` | `waitOrAbort` resolved; hook, busy flag, call of `run()` |
| `AbortWaiting` | the signal's listener rejects the wait |
| `DropAborted` | the rejection arrives; outer `finally` (`ReleaseTurn`) |
| `FinishRun` | the body settles; inner and outer `finally` |

`ahead` is history: what was unsettled in the session at `enqueue`.
`SessionFifo` says the same without promises: a turn begins when everything
submitted before it has settled, or when a turn of its session was abandoned
in the queue, from where on nothing is promised for that session
(`Broken`). With that the queue implements it whichever submissions are
aborted (`RefinesFifo`).

The code does not keep exclusion when a queued submission is aborted: it
releases its successors at once, although the submission ahead of it still
runs (section 5). `AtMostOneRunUnlessDropped`, `FifoUnlessDropped` and
`OwnershipAgrees` are therefore stated for sessions in which nothing was
dropped, which is exactly where they hold; `TailIsLive` and
`EverySubmissionSettles` hold always.

### SteeredTurns

Instantiates the queue and adds what a body does. `phase` follows
`executeTurn` and the step loop: `gap` is the boundary before a step, where
the inbox is drained and the signal looked at; `step` is inference and tools;
`flushed` is between `closeAndDrain` and the save; `over` is a body that
threw. Transcripts are sequences of submissions (the user message a turn
opens with) and steering messages; assistant and tool entries play no role in
any property. Messages are numbered as typed, so order in a transcript is
order of numbers. `fate` and `takenBy` follow each message to where it ends:
`applied` in a transcript, `returned` to its host, `logged` by the `finally`
block, `cleared` by `shutdown`, `lost` with a failed save.
`HeardOrHandedBack` ties the fates to where the messages are: a message that is
pending waits in an inbox with a reader, one that is applied is in the working
copy of the turn that took it, one on its way back is in the result of a turn
about to return, and no other is in any transcript.

`MayShutdown` switches `shutdown()` on, which clears the inbox first and closes
the store some awaits later, while turns still run: their saves then fail
(`FailSave`). `SaveMayFail` lets saves fail while the store is open as well;
no run needs it, since the behaviour is the same.

### LoopTracker, ToolSteps

`LoopTracker` has the operators of one `ToolLoopTracker`: the ring of calls,
each with its result once known, and the vetoes in a row. Hashes of arguments
and results are the calls and results themselves. A warning changes nothing
but a notice and its bucket, so the warn verdicts are left out; a batch's
composite entry is kept because it takes a place in the ring.

`ToolSteps` follows the step loop through a batch: `infer` is the model's
answer, `groups` the calls of the groups, `tail` a terminal call that closes a
batch. `slot` holds for each call where it is or what came of it.

| Action | Code |
|---|---|
| `Emit` | `validateBatch`, wave split or trim, then `executeBatch` up to its first `await`: all calls gated in order (plan mode, loop veto, loaded skill), the first of each group dispatched |
| `CallReturns`, `CallThrows` | a call settles and what waited for it is dispatched; a throw rejects the batch unless it is a read |
| `Proceed`, `RecordStep` | groups over: the tail, the cancelled step, or the recorded step |
| `LeaveLoop` | the loop ends at its top, or in an inference that is cancelled, fails, or stays unusable after its repair |
| `Abort` | the turn's signal fires |
| `GhostSettles` | a call of a batch that was rejected under it settles; nobody reads its slot |

`GateCall` folds the gate over a batch in its order, and `FirstGated` is the
first call that opens a batch of its own, where the code cuts one. Whether plan
mode is on is a free choice at every batch, as the operator may
switch it at any moment. Three variables are history. `rut` says for how many
steps in a row a call ran and returned the same. `lull` follows the latest
steps that emitted one and the same batch, each call of it vetoed or returning
what it did in the first of them: in how many of these steps a call ran
(`runs`) and in how many all were vetoed (`vetoes`). It counts steps, whatever
the tracker makes of them. `cancelled` holds the turns whose step was cut off.

### ChatQueue

The terminal's own state: `current` is the abort handle of the visible
thread's turn, `detached` the handles of turns left running, `queue` the
parked messages and `steeredAhead` the watermark of steers spliced in front.
A turn is named by the message that started it. The runtime below appears as
its callers see it (`TurnOpens`, `TurnReads`, `TurnCloses`): waiting for the
session, an inbox that opens and closes, undelivered steers in the result.
What a turn does to the transcript is in `SteeredTurns`. `foreign` are
sessions where a turn of another origin runs (scheduler, Telegram, HTTP).
`TurnEnds` is all of `runOneTurn` after its `await`, the next drained turn
included; `blocked` is the local model's readiness gate.

`fate` follows a message to its end: it `ran` or was `read` as a steer, was
`told` (announced as dropped, or back in the editor), `cleared` by the
operator, accepted by a turn of another origin (`elsewhere`), `lost` with a
turn that threw, or gone `silent`. `NothingVanishes` is about both halves of
that book-keeping: no step but two turns a message `silent`, and `InItsPlace`
ties the fates to the state of the program: a message is parked, steered or
running exactly while it stands in the queue, waits in an inbox or has a turn,
so none can drop out of a list unnoticed.
`stranded` and `stale` are history too: the first says that the model gate left
messages parked behind no turn, the second that the turn in view was returned
to while the watermark still counted the steers of another one. Each names one
of the two states section 5 reports.

### McpServers

Every addition builds a new `ManagedServer` with its own client; here it is an
*entry*, with the variables `state`, `phase` (where `connect()` waits), `link`
(an open transport), `catalog` and `registered`. `servers` is the manager's
map, `registry` the tool registry, `advertised` what the grammar and the
descriptors list since the last `refreshMcp`, `configured` the file.
`HandshakeDone`, `ToolsListed`, `Connected` and `Closed` are the stretches of
`connect()` and of a removal between awaits. Two pieces of history name the
races the code does not close: `cutAt`, at which await of `connect()` an entry
was when it was stopped, and `displaced`, entries the end of an earlier
removal of their name took out of the map. `Held` is what the manager answers
for, after `shutdown()` nothing, although `shutdown()` leaves its entries in
the map.

### TaskStore, TaskRunner, TaskLifecycle

`TaskStore` has the row transitions, one operator per SQL statement, with the
`WHERE status` of each as the guard at its use. A `SELECT ... ORDER BY` is
`Listing`: the row of rank `n` stands at place `n`. `TaskRunner` has the
processes. A drain is a record of session groups (`todo`), each with its own
place (`at`): `ready`, in a `turn`, in a backoff `sleep`, or `stuck` after an
error that escaped `runOne`. Listing the rows of a drain and claiming the
first of each group happen before the first `await` and are one action
(`Begin`); every later claim is `Claim`, after an await, on rows that may
have changed. `Leave` settles a group, and with the last one the drain and
`inFlight`; a rejecting group settles the drain's promise early, as
`Promise.all` does, while the others go on.

The outcome of a turn is a choice: `TurnCompletes`, `TurnFails` (a retryable
category), `TurnThrows` (a category that blocks), `TurnCancelled`. `Crash`
removes a process with its drains; rows stay as they are. `Restart` is the
bootstrap's one pass of `recoverStale`. Time is a bounded clock that only
`ClockTick` moves; the cron arithmetic is reduced to "`Period` after
completion", which is what `requeueRecurring` gets for interval schedules,
and any schedule whose next firing lies in the future behaves alike.

`TaskLifecycle` says what this comes to for a task, without sessions, drains,
schedules, clocks or processes: a row, the turns that work for it (`work`), the
attempts it has taken and how often it was taken from a turn believed dead. A
turn begins only for a row that waits and within the budget; it ends by moving
its row once; what is settled is not touched. All tasks step at once, because
one step of the code may concern several: a drain claims one row per session, a
crash ends the turns of many, a recovery moves every stale row. The promise is
weaker than one would write from the documentation in one point: a row does
not know its turn, so a turn that outlives a recovery of its row may close the
row while it waits again, or end the attempt of the next turn (`EndLate`,
`End`). `TaskRunner` maps a row to its status and the running groups of all
drains to `work`; `ImplementsLifecycle` is the refinement.

### ApprovalGate

`state`, `asked`, `scope` per approval id stand for the `pending` map and the
answers its promises got; `grants` is the set of pairs session, category or
session, command. `AutoApproved` is the order of checks in `request`: level
first, then grants, and only then the abort signal. `AutoApproveFrom` is the
table of `approval-level.ts`, `Ungrantable` its list of categories no grant
covers. The path override a decision may carry is passed through untouched
and is left out.

### TelegramApprovals

Extends the gate and instantiates the queue. `inflight` is the chat's entry of
the map of abort controllers, overwritten by each message; `current` the
session pointer that `/new` clears; `bound` the router's binding; `prompt`
where each prompt is (`sending` while `sendMessage` is awaited, `armed` once
its timer runs, `cut` when `cancelAll()` cancelled the timer, `stray` when
`stop()` came during the send). `Stop` is `stop()` up to its `await`,
`BotStopped` the rest. `Host...` actions are the surface that owns the process
(TUI or HTTP), which answers what the router does not send to Telegram, moves
the level, and clears grants and denies requests when it leaves a session.
One chat and its owner are modelled, because the pairing allows only one.

## 3. Runs

Sizes are distinct states. The bounds are constants in the `.cfg` files.

| Run | Config | States | Bounds | Shows |
|---|---|---|---|---|
| `turn_queue` | TurnController.cfg | 232 168 | 4 submissions, 2 sessions, all abortable | exclusion, ownership, map hygiene, progress, refinement of `SessionFifo` with its liveness; the inductive invariant `IInv` |
| `turn_overlap` | TurnControllerOverlap.cfg | violation | 1 session | two bodies of a session at once |
| `steering` | SteeredTurns.cfg | 495 586 | 3 turns, 2 messages, 2 steps, inbox of 1, shutdown | every accepted message has a reader and an end, and is heard or handed back, never both; transcripts only grow |
| `tool_batches` | ToolSteps.cfg | 632 183 | 2 turns of 3 steps, 11 shapes of batch, veto at 2, ring of 6 | dispatch order, whole steps, vetoes, every turn ends |
| `loops_unbroken` | ToolStepsUnbroken.cfg | violation | the default thresholds and ring, 5 reads a step | a repeated batch that is vetoed and never forced to a reply |
| `chat_queue` | ChatQueue.cfg | 481 032 | 3 threads, 3 messages, 2 parked, 2 steers | handles, order, grants, deletion, the fate of messages |
| `chat_stranded` | ChatQueueStranded.cfg | violation | 4 messages | a message runs in another thread |
| `chat_watermark` | ChatQueueWatermark.cfg | violation | 5 messages, 2 threads | a refused steer parked behind the backlog |
| `tasks` | TaskRunner.cfg | 136 016 | 2 processes, 1 recurring task, 2 drains, 1 crash, clock to 3 | the table under concurrent drains, operators and a crash; recovery of rows that still run elsewhere; refinement of `TaskLifecycle`; due tasks run, rows do not stay running |
| `approvals` | TelegramApprovals.cfg | 593 744 | 2 messages, 2 sessions, 2 requests, one command, 1 stop | gate and channel, safety and progress |
| `approvals_hang` | TelegramApprovalsHang.cfg | violation | 1 request | a prompt nobody can answer after `stop()` |
| `mcp` | McpServers.cfg | 281 051 | 1 name, 3 entries | advertised tools, leftovers of removals and of shutdown |

Why the bounds are enough to be of interest:

- Queue: a broken order needs a predecessor, an aborted link and a successor,
  and a second session to confuse; four submissions give a chain of three
  with a link to spare.
- Steering: a turn that ends, one queued behind it and one behind that; a
  message below and one at the cap; a budget that is reached (2 steps).
- Batches: two calls of one class and two classes side by side, a batch wider
  than the cap (2) for a second wave, a terminal tail, a gated call that trims
  the batch, a wandering pair of calls. A veto at two repeats and a forced
  end after one leave room within three steps for the step that must not
  come; the second turn is what a ghost of the first can meet. `loops_unbroken`
  has the thresholds of the code instead and nine steps, one more than the
  five repeats and three vetoes the documentation allows.
- Chat: a thread left, the one visible and the one opened in between; a
  message that runs, one that waits and one that is typed meanwhile; a queue
  and an inbox that can be full.
- Tasks: two drains, of one process or of two, race for a row; a third adds no
  new pair. Two attempts give a retry and an exhaustion, clock 3 a backoff, a
  firing and a recovery after them, one crash that recovery. Retries, firings
  and crashes are otherwise unbounded in the code; `MaxTime` and `MaxCrashes`
  cap them. Rows meet only where one session group works through several of
  them, and groups only where a drain has several sessions; both are left to
  the theorems, which hold for any number of tasks, sessions, drains and
  processes.
- Approvals: a second message is what takes the slot from the first, a second
  request what a grant silences. The level does not move in this run (its
  states double without new interleavings of prompts); the proofs cover every
  level and category.
- MCP: names share no state, so one is enough; three entries of it let a
  connecting server, its successor and the removal of either overlap.

`CHECK_DEADLOCK FALSE` stands in every configuration because the systems may
stop: no user owes another message, submissions, requests and time are
bounded. Symmetry is used for threads in the three
chat runs, none of which checks liveness. Each module has one `TypeOK`, the
base of its proofs; `IInv` contains the queue's. The other runs spend their
time on the properties that say more.

### Fairness

Weak fairness is given to what the process itself does once enabled: promise
reactions (`StartRun`, `DropAborted`, the steps of the loop), requests that
return or time out (`SendDelivered` or `SendFails`), timers (`Timeout`, the
end of a backoff in `Claim`), the interval (`SchedulerTick`), the clock, and
in `TaskRunner` a supervisor that restarts a dead process. In `ToolSteps` it is
an inference that answers and a tool call that settles. A turn body is
assumed to settle when it waits for nothing: the loop has a step budget and
errors and timeouts of an inference are its
provider's duty (`agent/agent-loop.ts:132`). A tool that hangs is outside this
assumption. `ChatQueue` and `McpServers` assume nothing and check safety only. In `TelegramApprovals` a turn parked on a
prompt is not assumed to settle; that is what the property is about. No
fairness is given to users, operators, hosts, failures, `stop` or `shutdown`,
and a choice of outcomes is fair only as a whole, never outcome by outcome.

## 4. Theorems

All are checked by `tlapm` for every value of the constants: any number of
sessions, turns, messages, tasks, drains, processes, calls and servers, and any
thresholds. The assumptions on the constants stand in the modules by name.

| Assumption | Says |
|---|---|
| `SubsAssumption`, `GateAssumption`, `ChannelAssumption`, `McpAssumption` | placeholder values are not members of the sets they stand beside; levels lie in 1..5, categories are ones the level table has, commands are distinct from categories (the code keeps the two kinds of grant in two sets) |
| `SteeringAssumption` | submissions are not messages; hooks and signals belong to submissions; the inbox has room for one |
| `StoreAssumption`, `RunnerAssumption` | every task has a session; backoff, period and budget of attempts are not zero; finitely many processes |
| `TrackerAssumption`, `StepsAssumption` | the ring is as long as its thresholds; a model never emits an empty batch; tool results are neither the marks a slot carries before one nor the ring's mark of a call without outcome |
| `ChatAssumption` | no session is the placeholder; queue and inbox have room for one |

| Module | Theorem | Argument |
|---|---|---|
| TurnControllerProofs | `Invariance`: `Spec => []IInv` | below |
| | `TypeCorrect`, `MutualExclusion`, `RunsInOrder`, `OwnershipCorrect`, `TailCorrect` | conjuncts or consequences of `IInv` |
| | `ImplementsFifo`: `Spec => Fifo!SafeSpec` | each step maps to a step or a stutter of `SessionFifo`, aborts to `Abandon` |
| SteeredTurnsProofs | `ImplementsQueue`: `Spec => Queue!Spec` | each step is a step of the queue or leaves it alone; its theorems carry over |
| | `Invariance`, `TypeCorrect`, `WindowsHaveReaders`, `SteersStay`, `TranscriptsInOrder`, `MessagesAccountedFor` | below |
| | `FatesAreFinal`, `HeardIsStored` | what became of a message never changes; a turn that returns has stored what it heard |
| | `StoredTranscriptsGrow`: `Spec => TranscriptGrows` | a save writes what `CopyInv` relates to the stored transcript |
| ToolStepsProofs | `Invariance`, `TypeCorrect`, `BatchesInOrder`, `StepsWhole` | below |
| | `LoopsAreCut`: `Spec => []RutIsCut` where `(Critical + 1) * W <= HistorySize` and no batch takes more than `W` places | below |
| | `RepeatsOfOneEnd`: `Spec => []VetoesEndTurn` where `Critical + BreakerStreak <= HistorySize` | below |
| ChatQueueProofs | `Invariance`, `TypeCorrect`, `HandlesKept`, `ParkedWait`, `SteersInFront`, `GrantsEnd`, `DeletedStay` | below |
| | `NothingLostSilently`: `Spec => NothingVanishes` | a message is where its fate says; of all steps only quitting, and `/new` behind no turn, drop a message without a word; `ParkedBehindTurn` leaves the second no message unless the queue was stranded |
| | `MessagesFindTheirThread` | a steer waits in an inbox of its own thread; unless the queue was stranded, turns run in the thread their message was typed for |
| TaskRunnerProofs | `Invariance`, `TypeCorrect`, `TurnsExclude`, `RowsAndTurnsMatch`, `AttemptsBounded`, `TicksAreWatched` | below |
| | `SettledRowsStay`: `Spec => TerminalIsFinal` | a statement's `WHERE` excludes terminal rows; a requeue follows the completion of its own turn in the same step |
| | `RunnerIsLifecycle`: `Spec => ImplementsLifecycle` | below |
| ApprovalGateProofs | `GateInvariance`, `GrantsEarned`, `SilenceEarned`, `DecisionsFinal` | `GrantsAreEarned` is inductive with the types |
| TelegramApprovalsProofs | `ImplementsGate`: `Spec => GateSpec`; `ImplementsQueue`: `Spec => Queue!Spec` | each action of the channel is a gate step or leaves the gate alone; the same for the queue |
| | `ChannelSilenceEarned`, `ChannelDecisionsFinal` | the gate's theorems, through `ImplementsGate` |
| | `ChannelInvariance`, `PromptsWatched`, `PendingLive`, `ChannelTypes` | below |
| | `OnePending` | below |
| McpServersProofs | `Invariance`: `Spec => []IInv`, `TypeCorrect` | below |
| | `AdvertisedCorrect`, `LeftoversCorrect` | consequences of `IInv` |

TLC checks each inductive invariant on the instance of its run, or on a smaller
one, before it is proved: the conjuncts are formulas like any other.

**Queue.** `AtMostOneRunUnlessDropped` alone is not inductive: it says nothing
of the submissions that wait, and they are who might start. `IInv` adds
`ChainInv` (a promise is resolved exactly when its submission has settled, a
predecessor is an enqueued submission of the same session, the tail is live)
and `OrderInv`, for sessions without drops: of two unsettled submissions one
was ahead of the other, everything unsettled is the tail or was ahead of it,
everything unsettled and ahead of a submission is its predecessor or was ahead
of that one, and nothing is ahead of one that started. So when the predecessor
has settled nothing unsettled is ahead. A drop breaks `OrderInv` for its session for good, and the
conditional form of the properties is what is left.

**Steering.** `WindowHasReader` survives even overlapping turns, because the
finally block of a turn closes the window whoever opened it; it needs
`PhaseInv`, that only a submission the queue runs is inside a turn.
`SteersStayInTheirTurn` speaks of messages already drained; `StayInv` says of
those still in an inbox that they were accepted while the turn now running was
running, which holds as long as no other turn of the session can start, that is
by the queue's `MutualExclusion`. `TranscriptInOrder` needs `OrderInv`: what
waits in an inbox was typed after everything any transcript of the session
holds, the working copies of overlapping turns included. `CopyInv` keeps a
working copy a continuation of what is stored, and again needs exclusion: with
two turns at once the second save would rewrite the first. `HeardOrHandedBack`
becomes inductive with `TakenInv` (only a submission whose body ran has taken a
message, so one that starts finds none in its name) and with `InboxInv`: a
message that is drained was pending, so it had not been heard before. It needs
no exclusion; overlapping turns drain disjoint messages. Messages a turn has
heard are in its working copy until it returns and saves it (`HeardIsStored`),
or throws and takes the whole copy with it.

**Tool batches.** `DispatchOrder` is about calls that run. What is inductive is
`SlotsOK`: within a serial class a call runs after all earlier ones have
settled, a read after the waves before it, at most `Cap` reads at once, and the
tail is held back for the end. An abort leaves out the waves, since then the
queued reads are cancelled at once and not in order.

`StepsAreWhole` needs to know what the ring holds while calls are out. An
outcome patches the newest pending entry of its call, so a batch with the same
call twice patches them in another order than it pushed them; what can be said
is a count. `PendingInv`: until the signal fires, no call has more pending
entries in the ring than it has unsettled places in the batch. The gate adds
one to both, an outcome takes one from both, and an entry pushed out of the
ring takes one from the first only. A step is recorded when nothing is
unsettled, so then nothing is pending.

`VetoesEndTurn` counts steps, not what the tracker says of them, and is about
turns whose steps are a single call. `LullInv` relates the two: the newest
entries of the ring, as many as the lull has runs and vetoes, are all of that
call, those of the runs with its answer, and the count of vetoes in a row is
the lull's or more. The streak therefore reaches `Critical` after that many
runs, and each further repeat is vetoed until the breaker trips. That takes a
ring with room for `Critical + BreakerStreak` entries (`RepeatsOfOneEnd`),
which the defaults 5, 3 and 30 leave. The breaker is looked at before the veto
of a step is recorded: a step is still begun after `BreakerStreak` vetoes, and
the forced reply takes the place of what would be one more. Of a batch of
several calls the same promise is `RepeatsEnd`, and it fails (finding 3).

That a batch gated call by call keeps the tracker and its slots well formed is
an induction over the length of the batch. It is done by hand on a least
counterexample, with the fact that the naturals are well founded
(`RecursionStaysIn`), because the induction theorems of the library take an
operator. `RutIsCut` is not true for every value of the constants: a ring that
other calls fill faster than a repeat returns never sees the repeat (finding 3).
`LoopsAreCut` states where it is. Each step of a turn takes at most `W` places
in the ring, one per call and one for the composite of several, and the ring
has room for `Critical + 1` such steps. `LoopInv` then says that a rut of `n`
steps has left `n` answers in the ring, the one from `j` steps ago within the
newest `j * W` entries between steps and, while a step is under way, that far
behind the entries of its own calls, with no other answer of the call among
them. The gate looks over the whole ring, finds them, and vetoes the call once
they are `Critical`. The defaults of the code (30 entries, veto at 5) meet
the hypothesis for batches of up to four calls, which take five places. It
cannot be weakened to five calls: TLC finds a repeat that is missed when the
order of five reads changes from step to step. The run `tool_batches` has a
ring of 6 and so lies outside the hypothesis; on its instance with a ring of 12
TLC finds `LoopInv` invariant (888 533 states).

**Chat.** A handle is in one of two places, and a switch, a deletion and an end
move it between them. `ThreadInv` says where: until the operator quits every
running turn is the visible one or the detached one of its thread, the visible
thread has no detached handle, no thread has two turns, and the thread of a
running turn is stored, from which `DeletedStaysDeleted` follows, as deletion
refuses a thread with a turn. `NothingVanishes` and `ParkedBehindTurn` need
`WaitInv`: a message waits in one place, once, and has not run. With it
`InItsPlace` is inductive: two inboxes share no message, since they belong to
turns of two threads, and the fates a turn settles at its end agree with the
queue it leaves behind (`SettledPlaces`). The order of
the queue needs `WatermarkInv`: the watermark counts the re-routed steers of the turn in
view and these are the front of the queue in typing order. An attempt to
prove it for every turn in view failed where a turn is re-attached: the
watermark of the turn before may still be there. That is finding 5, and `stale`
marks those turns. For `MessagesFindTheirThread` a turn is followed from its
message: typed, it runs in the thread in view, which is the thread it is aimed
at; drained from the queue behind a turn, it runs in that turn's thread, and
`ParkedBehindTurn` says that it was typed there. Only a stranded queue waits
behind no turn, so finding 4 is the one way for a message into another thread.

**Tasks.** Claims race through `markRunning` alone. `TurnsBound` says how: a
task whose row could be claimed has no turn at all beyond the recoveries of
live rows, and one whose row could not has one more, so a claim, which makes
the row unclaimable, keeps the bound. The attempts of a row are bounded by its
budget plus its recoveries, and this is not inductive: a recovery puts a row
whose budget is spent back to pending while its turn still runs elsewhere, and
that turn read its attempts when it was claimed, so it may send the row back
once more. `AttemptInv` counts both, a turn that does not know yet that the
budget is spent and a claim that is due, against the recoveries. `DrainInv`
ties a drain to a living process and `TickIsWatched` is inductive with it. A
`Listing` returns each selected row once and nothing else (`EveryRankIsTaken`,
a counting argument), which is what makes a drain's work list a list of tasks
of its session. The refinement of `TaskLifecycle` goes task by task: every step
of the runner is, for each task, one of the few things `TaskStep` lists, and
each of these is a step of the abstract task. A claim must find budget left in
the abstract sense, which is what `AttemptInv` of the state after it gives, and
the worker that begins must be new, which holds because a session group claims
only when it has no turn. `Fresh` adds that a task not yet submitted has no
attempts and no turns. `work` is read off the drains, `recovered` is the count
the model keeps anyway; no history is added for the refinement.

**Channel.** `PromptsAreWatched` needs `PendingIsLive` (a pending request has a
running owner whose signal has not fired) and `SlotInv` (a live turn whose
signal has not fired either holds the chat's slot or is in `displaced`):
`stop()` aborts the slot's turn, so a prompt whose timer it cancels and that
stays pending belongs to a displaced turn. `ShapeInv` holds the types these
three rely on. `OnePendingPerSession` says what two pending requests of a
session come from: not from one turn, as a turn has one (`AskedInv`), and not
from a session without a drop, as their turns run (`PendingIsLive`) and there
one turn runs at a time (`MutualExclusion` of the queue inside, by
`ImplementsQueue`). With finding 1 two do occur.

**MCP.** What is advertised is refreshed at some awaits only, and a removal, an
addition and a connect may all be under way in between. `IInv` follows an entry
through its life: it is built once and connects once (`EntryInv`,
`RegistryInv`). What a removal waits for, what has left the map without being
displaced, and everything after `shutdown()` is quiet: it has no transport and
no tools but what the await it was cut off in may still bring (`LeftInv`). A
server no removal waits for was never stopped, and once up and listed its tools
can be called, while what is advertised can be called or is on its way out
(`UpInv`). `AdvertisedReachesServer` is read off `UpInv`, `LeftoversAreRaces`
off `LeftInv`.

**Only model-checked.** Everything with liveness or fairness, which is outside
the prover's reach: `EverySubmissionSettles` and the liveness half of
`RefinesFifo`, `SteersResolve`, `TurnEnds`, `DueTasksRun`,
`RunningEnds` and `PromptsSettle`. Beyond the hypotheses of `LoopsAreCut` and
`RepeatsOfOneEnd`, `RutIsCut` and `VetoesEndTurn` are checked on the instance
of `tool_batches` only, whose ring is too small for the first.

## 5. Where code and documentation disagree

Each is a run in which TLC finds the behaviour; `PROJECT.json` quotes the lines.

1. *Two turns of a session at once* (`turn_overlap`). Turn 1 runs, 2 and 3 are
   queued, 2 is aborted: its `finally` resolves the promise 3 awaits. The class
   comment promises at most one `run()` per session. From two overlapping
   turns follow lost transcript updates, a busy flag cleared early and events
   routed to the wrong surface, which is why the properties of `SteeredTurns`
   and `TelegramApprovals` that need exclusion are stated for sessions
   without a drop.
2. *A prompt nobody can answer* (`approvals_hang`). `stop()` aborts only the
   chat's newest turn and cancels the timers of all prompts.
3. *A repeated batch that is never stopped* (`loops_unbroken`). The README of
   the repository promises a veto at 5 repeats and a forced reply after 3
   vetoes in a row. A step of five reads, repeated: steps 1 to 5 run, step 6 is
   vetoed, all five of it. Each of these vetoes is of another call and sets
   the count back to 1. The breaker is far, and the entries of the vetoed step
   have pushed answers out of the ring of 30, which all calls of a turn
   share; from step 7 on the reads run again. Eight of nine steps run, and
   nothing ends the turn but its budget of steps. Six reads a step take seven
   places each time, so no call is ever seen five times and none is vetoed at
   all. For batches of up to four calls the first veto comes
   (`LoopsAreCut`), and for a single call the forced reply as well
   (`RepeatsOfOneEnd`).
4. *A message in the wrong thread* (`chat_stranded`). A drained message the
   model gate blocks does not drain the one behind it. The rest stays parked
   behind no turn; `leaveCurrentSession` returns before it looks at the queue,
   and the rest runs in whatever thread the operator opens next. Nothing else
   brings a message into another thread (`MessagesFindTheirThread`).
5. *A steer behind the backlog* (`chat_watermark`). Esc empties the queue and
   leaves the watermark counting the steers that were in it. If the operator
   then switches to a thread whose turn still runs, nothing resets it, and a
   steer that turn refuses is spliced in behind a parked message, where the
   comment on the splice says it goes ahead of ordinary backlog.

Seen while modelling, and in the model as the code has it, without a run:

- An eager drain lists all pending rows of its session, also those scheduled
  for later, although `tasks/task-runner.ts:95-96` says it never does
  (`Create`, `Begin`).
- Recovery is one pass at start and skips rows younger than `staleAfterMs`; a
  process that is back sooner leaves its crashed row running. `RunningEnds`
  excepts exactly that.
- Undelivered steers are lost with a save that throws after the last drain,
  and with any turn that throws (`FailSave`; fate `lost` in both modules).
- Between an abort and the next turn the watermark is above the length of the
  queue; `SteersRunNext` is stated up to the abort and without the turns of
  finding 5 (`stale`).
- `/new` without a turn in flight drops stranded messages without a notice;
  `NothingVanishes` excepts a stranded queue.
- A server removed, or shut down, while it connects completes afterwards: it
  may keep its transport open and its tools registered. One added again while
  its removal waits is taken out of the map by that removal, tools and
  transport left behind. `LeftoversAreRaces` says at which await each leftover
  arises, and `AdvertisedReachesServer` lets such tools, and nothing else, stand
  in for those of a later server of the name. Neither property forbids the two
  races.
- The comments at `tui/mcp/mcp-orchestrator.ts:114-116`, `196-199` and
  `290-295` are stale. They say that the live manager is not mutated, that a
  new server is picked up and a removed one stays connected "until the next
  runtime boot". The functions below them call `addServerLive` and
  `removeServerLive`, as the repository's README (l.456, "live add / remove
  without restarting the process") says; the model follows the code.

## 6. Not modelled, and why

- *Inside an inference*: prompt assembly, sampling, parsing and the repair
  round. Sequential, and its data is text; what it hands on is the batch, or
  an emission that stays unusable, which ends the turn.
- *A cancelled step* is not recorded by design: what its finished calls did to
  files or memory is in no transcript. No document says otherwise, so there is
  nothing to check it against.
- *Lazy session creation, report sink, abort signals of a drain, failing store
  calls* of the task runner: left out of `TaskRunner`; the last is a listed
  hazard.
- *Overlapping `start()`/`stop()`, pairing, lock file, task reports* of the
  Telegram channel.
- *`restartServer` and `setServerEnabled`* of the MCP manager, which nothing in
  the program calls, sampling, and the resource-class resolver (a function of
  the map's names).
- *The HTTP mirror of pending approvals* forgets a request only when its own
  route resolved it; planned with the HTTP state.
- *Skills, prompts, compressor, redaction*: pure functions of text without
  state across calls.
- *Configuration, CLI, import, update, uninstall*: one-shot file operations of
  one process. *TUI views*, *analytics, error reporting, metrics*: outputs
  nothing reads back.
- *Tools*: effects on files, processes and pages; what orders them is the
  batch and the gate.

## 7. Plan

In this order.

1. `SidecarSession`: the active record across awaits, `cancel` against the
   session's single controller, dispose.
2. `TelegramLifecycle`: `start()` and `stop()` cut at their awaits, with the
   lock file and the report queue; replaces the atomic `Start` above.
3. `UndeliveredSteers` with the HTTP mirror of approvals, composed with
   `SteeredTurns`: from "handed back" to "fetched or reported lost".
4. `ProviderFallback`, `ReflectionRunner`, `ModelDaemon`, `SlotManager`;
   deletion of a session as an action of `SteeredTurns`; order of shutdown
   between scheduler and store; a failing store in `TaskRunner`.

Theorems. Every safety invariant the runs check is proved, `RutIsCut` and
`VetoesEndTurn` under assumptions on the size of the ring, and so are their safety
action properties and the refinements, `SessionFifo` by the safety half. What
is left: that `ChatQueue` is an environment `SteeredTurns` allows, which would
join `NothingVanishes` and `HeardOrHandedBack` into the fate of a message from
the keyboard to the transcript; and for each module of the plan above the
invariants it is written for.
