---------------------------- MODULE TurnController ----------------------------
(***************************************************************************)
(* The per-session turn-ownership primitive every surface (CLI, TUI, HTTP, *)
(* sidecar, Telegram, scheduler) goes through: a chain of promises per     *)
(* session.  A submission stores its own promise as the session's tail and *)
(* awaits the promise that was the tail before it; the promise is resolved *)
(* when the submission settles, whether it ran or was aborted in the queue.*)
(*                                                                         *)
(* One action is one stretch of synchronous JavaScript, from one await to  *)
(* the next.  The life of a submission, pc[s]:                             *)
(*   idle -> waiting -> running -> done          the body ran and settled  *)
(*                   -> aborting -> dropped      aborted while queued      *)
(*   idle -> rejected                            aborted before enqueue    *)
(***************************************************************************)
EXTENDS FiniteSets, Naturals

CONSTANTS Sessions,    \* session ids
          Subs,        \* submissions, each enqueued at most once
          Hooked,      \* the submissions that carry an eventHook
          Signalled,   \* the submissions that carry an AbortSignal
          NoSub        \* no promise, no hook: an absent Map entry

ASSUME SubsAssumption ==
    /\ Hooked \subseteq Subs
    /\ Signalled \subseteq Subs
    /\ NoSub \notin Subs

VARIABLES pc,        \* where each submission is in enqueue()
          sess,      \* the session each submission names
          prev,      \* the promise each submission awaits (its owner)
          released,  \* the submissions whose own promise is resolved
          queues,    \* Map sessionId -> the tail promise (its owner)
          hooks,     \* Map sessionId -> the hook events go to (its owner)
          busy,      \* the sessions isBusy() answers true for
          ahead      \* history: who was unsettled in the session at enqueue

tcVars == <<pc, sess, prev, released, queues, hooks, busy, ahead>>

PCs == {"idle", "waiting", "aborting", "running", "done", "dropped", "rejected"}

TypeOK ==
    /\ pc \in [Subs -> PCs]
    /\ sess \in [Subs -> Sessions]
    /\ prev \in [Subs -> Subs \cup {NoSub}]
    /\ released \in SUBSET Subs
    /\ queues \in [Sessions -> Subs \cup {NoSub}]
    /\ hooks \in [Sessions -> Subs \cup {NoSub}]
    /\ busy \in SUBSET Sessions
    /\ ahead \in [Subs -> SUBSET Subs]

\* The submissions of session k that are enqueued and not settled.
Live(k) == {s \in Subs : sess[s] = k /\ pc[s] \in {"waiting", "aborting", "running"}}

Init ==
    /\ pc = [s \in Subs |-> "idle"]
    /\ sess \in [Subs -> Sessions]
    /\ prev = [s \in Subs |-> NoSub]
    /\ released = {}
    /\ queues = [k \in Sessions |-> NoSub]
    /\ hooks = [k \in Sessions |-> NoSub]
    /\ busy = {}
    /\ ahead = [s \in Subs |-> {}]

-----------------------------------------------------------------------------

\* Mutant: the submission never becomes the tail.
EnqueueNotTail(s) ==
    /\ pc[s] = "idle"
    /\ pc' = [pc EXCEPT ![s] = "waiting"]
    /\ prev' = [prev EXCEPT ![s] = queues[sess[s]]]
    /\ ahead' = [ahead EXCEPT ![s] = Live(sess[s])]
    /\ UNCHANGED <<sess, released, queues, hooks, busy>>

\* enqueue() up to its first await: take the tail as predecessor, become it.
Enqueue(s) ==
    /\ pc[s] = "idle"
    /\ pc' = [pc EXCEPT ![s] = "waiting"]
    /\ prev' = [prev EXCEPT ![s] = queues[sess[s]]]
    /\ queues' = [queues EXCEPT ![sess[s]] = s]
    /\ ahead' = [ahead EXCEPT ![s] = Live(sess[s])]
    /\ UNCHANGED <<sess, released, hooks, busy>>

\* enqueue() with a signal that is already aborted throws before it touches
\* the queue.
EnqueueAborted(s) ==
    /\ pc[s] = "idle"
    /\ s \in Signalled
    /\ pc' = [pc EXCEPT ![s] = "rejected"]
    /\ UNCHANGED <<sess, prev, released, queues, hooks, busy, ahead>>

\* Mutant: wait for the busy flag instead of the predecessor.
SessionNotBusy(s) == sess[s] \notin busy

\* The awaited promise has settled: an absent predecessor is Promise.resolve().
PreviousSettled(s) == prev[s] = NoSub \/ prev[s] \in released

\* Mutant: the own promise is resolved when the body starts.
StartRunReleasing(s) ==
    /\ pc[s] = "waiting"
    /\ PreviousSettled(s)
    /\ pc' = [pc EXCEPT ![s] = "running"]
    /\ hooks' = IF s \in Hooked THEN [hooks EXCEPT ![sess[s]] = s] ELSE hooks
    /\ busy' = busy \cup {sess[s]}
    /\ released' = released \cup {s}
    /\ UNCHANGED <<sess, prev, queues, ahead>>

\* waitOrAbort resolved: install the hook, mark the session busy, call run().
StartRun(s) ==
    /\ pc[s] = "waiting"
    /\ PreviousSettled(s)
    /\ pc' = [pc EXCEPT ![s] = "running"]
    /\ hooks' = IF s \in Hooked THEN [hooks EXCEPT ![sess[s]] = s] ELSE hooks
    /\ busy' = busy \cup {sess[s]}
    /\ UNCHANGED <<sess, prev, released, queues, ahead>>

\* The signal fires while the submission waits: waitOrAbort rejects, whatever
\* the awaited promise does afterwards.
AbortWaiting(s) ==
    /\ pc[s] = "waiting"
    /\ s \in Signalled
    /\ pc' = [pc EXCEPT ![s] = "aborting"]
    /\ UNCHANGED <<sess, prev, released, queues, hooks, busy, ahead>>

\* Mutant: the map entry of a settled submission stays.
ReleaseKeepsTail(s) ==
    /\ released' = released \cup {s}
    /\ UNCHANGED queues

\* The outer finally block: resolve our own promise, and delete the map entry
\* when nobody queued behind us.
ReleaseTurn(s) ==
    /\ released' = released \cup {s}
    /\ queues' = IF queues[sess[s]] = s
                 THEN [queues EXCEPT ![sess[s]] = NoSub]
                 ELSE queues

\* Mutant: only a submission that ran resolves its promise.
DropAbortedUnreleased(s) ==
    /\ pc[s] = "aborting"
    /\ pc' = [pc EXCEPT ![s] = "dropped"]
    /\ UNCHANGED <<sess, prev, released, queues, hooks, busy, ahead>>

\* The rejection of an aborted wait reaches enqueue(): run() is never called.
DropAborted(s) ==
    /\ pc[s] = "aborting"
    /\ pc' = [pc EXCEPT ![s] = "dropped"]
    /\ ReleaseTurn(s)
    /\ UNCHANGED <<sess, prev, hooks, busy, ahead>>

\* Mutant: the hook slot is not cleared.
FinishRunKeepsHook(s) ==
    /\ pc[s] = "running"
    /\ pc' = [pc EXCEPT ![s] = "done"]
    /\ busy' = busy \ {sess[s]}
    /\ ReleaseTurn(s)
    /\ UNCHANGED <<sess, prev, hooks, ahead>>

\* The body settles (a value, an error or a cancellation: the queue does not
\* tell them apart); both finally blocks run without an await in between.
FinishRun(s) ==
    /\ pc[s] = "running"
    /\ pc' = [pc EXCEPT ![s] = "done"]
    /\ busy' = busy \ {sess[s]}
    /\ hooks' = IF s \in Hooked THEN [hooks EXCEPT ![sess[s]] = NoSub] ELSE hooks
    /\ ReleaseTurn(s)
    /\ UNCHANGED <<sess, prev, ahead>>

Next == \E s \in Subs :
    \/ Enqueue(s)
    \/ EnqueueAborted(s)
    \/ StartRun(s)
    \/ AbortWaiting(s)
    \/ DropAborted(s)
    \/ FinishRun(s)

Spec == Init /\ [][Next]_tcVars

\* Promise reactions run as long as the process lives, and a turn body is
\* assumed to settle (the agent loop is bounded by its step budget).  Nothing
\* obliges a host to submit a turn or to abort one.
Fairness == \A s \in Subs :
    WF_tcVars(StartRun(s)) /\ WF_tcVars(DropAborted(s)) /\ WF_tcVars(FinishRun(s))

FairSpec == Spec /\ Fairness

-----------------------------------------------------------------------------

Running(k) == {s \in Subs : sess[s] = k /\ pc[s] = "running"}

\* No submission of session k was ever abandoned in the queue.
NoneDropped(k) == \A s \in Subs : sess[s] = k => pc[s] # "dropped"

\* "At most one run() runs concurrently for a given sessionId": the first
\* invariant the class comment of turn-controller.ts claims, for every history.
AtMostOneRun == \A s, t \in Subs :
    /\ pc[s] = "running"
    /\ pc[t] = "running"
    /\ sess[s] = sess[t]
    => s = t

\* Mutual exclusion where it does hold: two bodies never overlap in a session
\* none of whose submissions was aborted while it waited.
AtMostOneRunUnlessDropped == \A k \in Sessions :
    NoneDropped(k) => \A s, t \in Running(k) : s = t

\* "Submissions on the same session run in the order they were enqueued": a
\* body runs only after everything enqueued before it has settled, in a session
\* none of whose submissions was aborted while it waited.
FifoUnlessDropped == \A s \in Subs :
    NoneDropped(sess[s]) /\ pc[s] = "running" => ahead[s] \cap Live(sess[s]) = {}

\* While no submission of a session was dropped, its busy flag and its hook
\* slot are exactly those of the one body that runs: isBusy() is neither stuck
\* nor early, and emit() reaches nobody but the running submission.
OwnershipAgrees == \A k \in Sessions : NoneDropped(k) =>
    /\ k \in busy <=> Running(k) # {}
    /\ hooks[k] = NoSub <=> Running(k) \cap Hooked = {}
    /\ hooks[k] # NoSub => hooks[k] \in Running(k)

\* The queue map does not grow with throwaway sessions: an entry always belongs
\* to a submission that has not settled, dropped ones included, so a session
\* with no live submission has no entry.
TailIsLive == \A k \in Sessions :
    queues[k] # NoSub => queues[k] \in Live(k)

\* "Submissions for different sessionIds never block each other": what a
\* submission waits for is a submission of its own session.
WaitsInSession == \A s \in Subs :
    prev[s] # NoSub => prev[s] \in Subs /\ sess[prev[s]] = sess[s]

\* Every submission handed to the queue is run or dropped: a failed, aborted or
\* slow neighbour never wedges the session.
EverySubmissionSettles == \A s \in Subs :
    (pc[s] = "waiting") ~> (pc[s] \in {"done", "dropped"})

\* SessionFifo's view of the queue: a submission that was refused up front was
\* never there, one whose abort is on its way is still queued.
Status == [s \in Subs |->
    CASE pc[s] \in {"waiting", "aborting"} -> "queued"
      [] pc[s] = "done" -> "settled"
      [] pc[s] = "dropped" -> "abandoned"
      [] pc[s] = "rejected" -> "idle"
      [] OTHER -> pc[s]]

Fifo == INSTANCE SessionFifo WITH status <- Status, session <- sess, before <- ahead

\* "Submissions on the same session run in the order they were enqueued": the
\* chain of promises is a FIFO per session until a queued submission of the
\* session is given up, and every queued turn begins or is given up.
RefinesFifo == Fifo!Spec

=============================================================================
